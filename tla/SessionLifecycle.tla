-------------------------- MODULE SessionLifecycle --------------------------
(***************************************************************************)
(* The autonomous half of a session: POST /sessions creates it, the        *)
(* SessionRunner queues it on a semaphore and drives SessionOrchestrator,  *)
(* POST /cancel may halt it at any moment, and the process may die.        *)
(*                                                                         *)
(* DevMind is one asyncio process.  A coroutine runs undisturbed from one  *)
(* await to the next, so what interleaves are those stretches, not single  *)
(* statements.  `pc` says at which await a run is suspended; one action is *)
(* the stretch that starts when that await returns.  Inside a stretch the  *)
(* code commits several times (a status, then its event): the first commit *)
(* belongs to the action, the events still to be appended stand in         *)
(* `unlogged`, and until they are drained nobody else may step.  Only a    *)
(* crash or a failed commit can come between them.  A stretch that changes *)
(* the status twice passes through a control point of InStretch.           *)
(***************************************************************************)
EXTENDS SessionStatus, Naturals, Sequences, FiniteSets

CONSTANTS
  Sessions,         \* the sessions an operator may create
  MaxFixAttempts,   \* Settings.max_fix_attempts
  MaxConcurrent,    \* Settings.max_concurrent_sessions
  MaxFaults         \* bound: crashes, failed commits and unexpected errors

ASSUME ConstantsAssumption ==
  /\ MaxFixAttempts \in Nat \ {0}
  /\ MaxConcurrent \in Nat \ {0}
  /\ MaxFaults \in Nat

Absent == "ABSENT"

VARIABLES
  status,        \* sessions.status
  log,           \* the session's events, those about its life cycle
  fixAttempts,   \* sessions.fix_attempts
  pc,            \* where the session's background task stands
  attempt,       \* the loop variable of _run_testing_phase
  targets,       \* its `targets` is not empty: the next run is narrowed
  hasSuite,      \* profile.has_test_suite
  verified,      \* history: a full run was green and nothing was edited since
  sandbox,       \* a sandbox is up for the session
  workbench,     \* run()'s local `workbench` is assigned
  unlogged,      \* events the current stretch has still to append
  slots,         \* the semaphore's value
  waiters,       \* the semaphore's queue
  faults

jobVars == <<attempt, targets, hasSuite, verified, fixAttempts>>
boxVars == <<sandbox, workbench>>
semVars == <<slots, waiters>>
vars == <<status, log, pc, jobVars, boxVars, unlogged, semVars, faults>>

-----------------------------------------------------------------------------
\* Control points

\* Suspended at an await inside run()'s try block, where a DevMindError is caught.
Awaits == {"ingest", "plan", "build", "install", "baseline", "investigate", "edit", "diff",
           "test", "confirm", "retrydiff", "retryedit", "retrycheck"}

\* Not suspended: the stretch goes on from here.
InStretch == {"failing", "nosuite", "exhaust", "retry", "increment", "return", "raise"}

\* cleanup, unwind: in run()'s finally, without and with an exception on its way up.
Holding == {"starting", "cleanup", "unwind"} \cup Awaits \cup InStretch
Ended   == {"done", "crashed", "lost"}
PC      == {"idle", "posted", "waiting"} \cup Holding \cup Ended

Phases  == {"investigate", "edit", "retryedit"}

\* Nobody is in the middle of a stretch, or only s is and may go on.
LoopFree == unlogged = <<>> /\ \A t \in Sessions : pc[t] \notin InStretch
Turn(s)  == unlogged = <<>> /\ \A t \in Sessions \ {s} : pc[t] \notin InStretch

-----------------------------------------------------------------------------
\* Events

Changed(from, to) == [event |-> "STATE_CHANGED", from |-> from, to |-> to]
Plain(kind)       == [event |-> kind]

Entries == [event : {"STATE_CHANGED"}, from : Status, to : Status]
             \cup [event : {"SESSION_CREATED", "SESSION_FAILED", "FIX_ATTEMPT"}]

\* `by` tells the run of s from the calls that create and cancel it.
Writers == {"run", "create", "cancel"}
Note(s, by, entry) == [s |-> s, by |-> by, entry |-> entry]
Notes == [s : Sessions, by : Writers, entry : Entries]

-----------------------------------------------------------------------------
Init ==
  /\ status = [s \in Sessions |-> Absent]
  /\ log = [s \in Sessions |-> <<>>]
  /\ fixAttempts = [s \in Sessions |-> 0]
  /\ pc = [s \in Sessions |-> "idle"]
  /\ attempt = [s \in Sessions |-> 0]
  /\ targets = [s \in Sessions |-> FALSE]
  /\ hasSuite = [s \in Sessions |-> FALSE]
  /\ verified = [s \in Sessions |-> FALSE]
  /\ sandbox = [s \in Sessions |-> FALSE]
  /\ workbench = [s \in Sessions |-> FALSE]
  /\ unlogged = <<>>
  /\ slots = MaxConcurrent
  /\ waiters = <<>>
  /\ faults = 0

Goto(s, next) == pc' = [pc EXCEPT ![s] = next]

\* transition() without its legality check.
TransitionUnchecked(s, to, by, more) ==
  /\ status[s] # Absent
  /\ status' = [status EXCEPT ![s] = to]
  /\ unlogged' = <<Note(s, by, Changed(status[s], to))>> \o more

\* transition() that reads `from` after the write: the ORM object is the same one.
TransitionLogsLate(s, to, by, more) ==
  /\ CanTransition(status[s], to)
  /\ status' = [status EXCEPT ![s] = to]
  /\ unlogged' = <<Note(s, by, Changed(to, to))>> \o more

\* SessionStateMachine.transition() up to its first commit: `seen` is the status it reads,
\* `more` what the same stretch appends after STATE_CHANGED.
TransitionFrom(s, seen, to, by, more) ==
  /\ CanTransition(seen, to)
  /\ status' = [status EXCEPT ![s] = to]
  /\ unlogged' = <<Note(s, by, Changed(seen, to))>> \o more

\* get_by_id() asks the database, unless an earlier reader still holds the row.
Transition(s, to, by, more) == TransitionFrom(s, status[s], to, by, more)

\* Cleanup placed after the try block instead of in its finally.
FinallyOnReturnOnly(s, quietly) ==
  IF ~quietly THEN "raise" ELSE IF workbench[s] THEN "cleanup" ELSE "return"

\* Where an exception, or a return, takes run() from its try block.
Finally(s, quietly) ==
  IF workbench[s] THEN (IF quietly THEN "cleanup" ELSE "unwind")
                  ELSE (IF quietly THEN "return" ELSE "raise")

\* _fail() that reports the failure and forgets to record it.
FailUnrecorded(s, seen) ==
  /\ unlogged' = <<Note(s, "run", Plain("SESSION_FAILED"))>>
  /\ UNCHANGED status
  /\ Goto(s, Finally(s, TRUE))

\* What _fail() reads of the status.  An error out of ingest() has that coroutine's frame
\* in its traceback, the frame holds the row read before the first await, and get_by_id()
\* answers with it: expire_on_commit is off and the identity map still knows the object.
Seen(s) == IF pc[s] \in {"ingest", "failing"} THEN "INGESTING" ELSE status[s]

\* run()'s `except DevMindError`: _fail().
Fail(s, seen) ==
  /\ \/ TransitionFrom(s, seen, "FAILED", "run", <<Note(s, "run", Plain("SESSION_FAILED"))>>)
     \/ /\ ~CanTransition(seen, "FAILED")
        /\ unlogged' = <<Note(s, "run", Plain("SESSION_FAILED"))>>
        /\ UNCHANGED status
  /\ Goto(s, Finally(s, TRUE))

\* A transition of run(): an illegal one raises InvalidStateTransitionError, a DevMindError.
Proceed(s, to, next) ==
  \/ Transition(s, to, "run", <<>>) /\ Goto(s, next)
  \/ ~CanTransition(status[s], to) /\ Fail(s, status[s])

\* A loop that looks for a cancellation after a step instead of before it.
EnterPhaseUnchecked(s, phase) == Goto(s, phase)

\* AgentLoop.run() up to its first await: the cancellation check of the first step.
EnterPhase(s, phase) ==
  Goto(s, IF status[s] = "HALTED" THEN Finally(s, TRUE) ELSE phase)

-----------------------------------------------------------------------------
\* The API

Create(s) ==
  /\ LoopFree
  /\ pc[s] = "idle"
  /\ status' = [status EXCEPT ![s] = "CREATED"]
  /\ unlogged' = <<Note(s, "create", Plain("SESSION_CREATED"))>>
  /\ Goto(s, "posted")
  /\ UNCHANGED <<log, jobVars, boxVars, semVars, faults>>

Cancel(s) ==
  /\ LoopFree
  /\ Transition(s, "HALTED", "cancel", <<>>)
  /\ UNCHANGED <<log, pc, jobVars, boxVars, semVars, faults>>

-----------------------------------------------------------------------------
\* SessionRunner.launch(): `async with self._semaphore`

Launch(s) ==
  /\ LoopFree
  /\ pc[s] = "posted"
  /\ \/ /\ slots > 0 /\ waiters = <<>>
        /\ slots' = slots - 1
        /\ Goto(s, "starting")
        /\ UNCHANGED waiters
     \/ /\ ~(slots > 0 /\ waiters = <<>>)
        /\ waiters' = Append(waiters, s)
        /\ Goto(s, "waiting")
        /\ UNCHANGED slots
  /\ UNCHANGED <<status, log, jobVars, boxVars, unlogged, faults>>

\* LeaveSlot that returns the slot and wakes nobody.
LeaveSlotSilently(s, end) ==
  /\ slots' = slots + 1
  /\ Goto(s, end)
  /\ UNCHANGED waiters

\* Leaving `async with`: the slot goes to the longest waiting session, if any.
LeaveSlot(s, end) ==
  \/ /\ waiters = <<>>
     /\ slots' = slots + 1
     /\ Goto(s, end)
     /\ UNCHANGED waiters
  \/ /\ waiters # <<>>
     /\ waiters' = Tail(waiters)
     /\ pc' = [pc EXCEPT ![s] = end, ![Head(waiters)] = "starting"]
     /\ UNCHANGED slots

Release(s) ==
  /\ Turn(s)
  /\ \/ pc[s] = "return" /\ LeaveSlot(s, "done")
     \/ pc[s] = "raise" /\ LeaveSlot(s, "crashed")
  /\ UNCHANGED <<status, log, jobVars, boxVars, unlogged, faults>>

-----------------------------------------------------------------------------
\* SessionOrchestrator.run(), one action per stretch between two awaits

Begin(s) ==
  /\ Turn(s)
  /\ pc[s] = "starting"
  /\ Proceed(s, "INGESTING", "ingest")
  /\ UNCHANGED <<log, jobVars, boxVars, semVars, faults>>

IngestReturns(s) ==
  /\ Turn(s)
  /\ pc[s] = "ingest"
  /\ \E found \in BOOLEAN : hasSuite' = [hasSuite EXCEPT ![s] = found]
  /\ Proceed(s, "PLANNING", "plan")
  /\ UNCHANGED <<log, attempt, targets, verified, fixAttempts, boxVars, semVars, faults>>

\* A RepositoryIngestionError: ingest() reports it, then so does _fail(), also when the
\* session has been cancelled meanwhile.
IngestFails(s) ==
  /\ Turn(s)
  /\ pc[s] = "ingest"
  /\ unlogged' = <<Note(s, "run", Plain("SESSION_FAILED"))>>
  /\ Goto(s, "failing")
  /\ UNCHANGED <<status, log, jobVars, boxVars, semVars, faults>>

Failing(s) ==
  /\ Turn(s)
  /\ pc[s] = "failing"
  /\ Fail(s, Seen(s))
  /\ UNCHANGED <<log, jobVars, boxVars, semVars, faults>>

PlanReturns(s) ==
  /\ Turn(s)
  /\ pc[s] = "plan"
  /\ Proceed(s, "INVESTIGATING", "build")
  /\ UNCHANGED <<log, jobVars, boxVars, semVars, faults>>

\* SessionWorkbenchBuilder.build(): the sandbox is up before anyone holds a workbench.
SetupReturns(s) ==
  /\ Turn(s)
  /\ pc[s] = "build"
  /\ sandbox' = [sandbox EXCEPT ![s] = TRUE]
  /\ Goto(s, "install")
  /\ UNCHANGED <<status, log, jobVars, workbench, unlogged, semVars, faults>>

\* A failed install is only logged.  Without a suite the baseline awaits nothing.
InstallReturns(s) ==
  /\ Turn(s)
  /\ pc[s] = "install"
  /\ workbench' = [workbench EXCEPT ![s] = TRUE]
  /\ \/ hasSuite[s] /\ Goto(s, "baseline")
     \/ /\ ~hasSuite[s]
        /\ Goto(s, IF status[s] = "HALTED" THEN "cleanup" ELSE "investigate")
  /\ UNCHANGED <<status, log, jobVars, sandbox, unlogged, semVars, faults>>

BaselineReturns(s) ==
  /\ Turn(s)
  /\ pc[s] = "baseline"
  /\ EnterPhase(s, "investigate")
  /\ UNCHANGED <<status, log, jobVars, boxVars, unlogged, semVars, faults>>

\* A later step of the loop finds the session HALTED; the phase ends CANCELLED.
PhaseCancelled(s) ==
  /\ Turn(s)
  /\ pc[s] \in Phases
  /\ status[s] = "HALTED"
  /\ Goto(s, Finally(s, TRUE))
  /\ UNCHANGED <<status, log, jobVars, boxVars, unlogged, semVars, faults>>

InvestigateReturns(s) ==
  /\ Turn(s)
  /\ pc[s] = "investigate"
  /\ Proceed(s, "EDITING", "edit")
  /\ UNCHANGED <<log, jobVars, boxVars, semVars, faults>>

EditReturns(s) ==
  /\ Turn(s)
  /\ pc[s] = "edit"
  /\ verified' = [verified EXCEPT ![s] = FALSE]
  /\ Goto(s, "diff")
  /\ UNCHANGED <<status, log, attempt, targets, hasSuite, fixAttempts, boxVars, unlogged,
                 semVars, faults>>

\* The diff is not empty (an empty one is a DevMindError: RunFails).
DiffReturns(s) ==
  /\ Turn(s)
  /\ pc[s] = "diff"
  /\ Proceed(s, "TESTING", IF hasSuite[s] THEN "test" ELSE "nosuite")
  /\ attempt' = [attempt EXCEPT ![s] = 1]
  /\ targets' = [targets EXCEPT ![s] = FALSE]
  /\ UNCHANGED <<log, hasSuite, verified, fixAttempts, boxVars, semVars, faults>>

NoSuite(s) ==
  /\ Turn(s)
  /\ pc[s] = "nosuite"
  /\ Proceed(s, "SUMMARIZING", "cleanup")
  /\ UNCHANGED <<log, jobVars, boxVars, semVars, faults>>

\* SelfCorrectionController.decide() on a green full run.
GreenVerdict(s) ==
  /\ verified' = [verified EXCEPT ![s] = TRUE]
  /\ Proceed(s, "SUMMARIZING", "cleanup")

\* decide() with `attempt > max_attempts`.
RedVerdictOneMore(s) ==
  /\ unlogged' = <<Note(s, "run", Plain("FIX_ATTEMPT"))>>
  /\ \/ attempt[s] <= MaxFixAttempts /\ Goto(s, "retry")
     \/ attempt[s] > 1 /\ Goto(s, "exhaust")
  /\ UNCHANGED <<status, verified>>

\* A red run: FIX_ATTEMPT, then EXHAUSTED (the budget is spent, or the signature is
\* the previous one, which the first run does not have) or RETRY.
RedVerdict(s) ==
  /\ unlogged' = <<Note(s, "run", Plain("FIX_ATTEMPT"))>>
  /\ \/ attempt[s] < MaxFixAttempts /\ Goto(s, "retry")
     \/ (attempt[s] >= MaxFixAttempts \/ attempt[s] > 1) /\ Goto(s, "exhaust")
  /\ UNCHANGED <<status, verified>>

\* The targeted run's verdict taken for the suite's.
TestReturnsUnconfirmed(s) ==
  /\ Turn(s)
  /\ pc[s] = "test"
  /\ \/ /\ Proceed(s, "SUMMARIZING", "cleanup")
        /\ verified' = [verified EXCEPT ![s] = ~targets[s]]
     \/ RedVerdict(s)
  /\ UNCHANGED <<log, attempt, targets, hasSuite, fixAttempts, boxVars, semVars, faults>>

\* A run over the failing tests alone is not a verdict: confirm it with the suite.
TestReturns(s) ==
  /\ Turn(s)
  /\ pc[s] = "test"
  /\ \/ targets[s] /\ Goto(s, "confirm") /\ UNCHANGED <<status, unlogged, verified>>
     \/ ~targets[s] /\ GreenVerdict(s)
     \/ RedVerdict(s)
  /\ UNCHANGED <<log, attempt, targets, hasSuite, fixAttempts, boxVars, semVars, faults>>

ConfirmReturns(s) ==
  /\ Turn(s)
  /\ pc[s] = "confirm"
  /\ GreenVerdict(s) \/ RedVerdict(s)
  /\ UNCHANGED <<log, attempt, targets, hasSuite, fixAttempts, boxVars, semVars, faults>>

Exhaust(s) ==
  /\ Turn(s)
  /\ pc[s] = "exhaust"
  /\ Proceed(s, "EXHAUSTED", "cleanup")
  /\ UNCHANGED <<log, jobVars, boxVars, semVars, faults>>

Retry(s) ==
  /\ Turn(s)
  /\ pc[s] = "retry"
  /\ Proceed(s, "EDITING", "increment")
  /\ UNCHANGED <<log, jobVars, boxVars, semVars, faults>>

Increment(s) ==
  /\ Turn(s)
  /\ pc[s] = "increment"
  /\ fixAttempts' = [fixAttempts EXCEPT ![s] = @ + 1]
  /\ Goto(s, "retrydiff")
  /\ UNCHANGED <<status, log, attempt, targets, hasSuite, verified, boxVars, unlogged,
                 semVars, faults>>

\* The diff for the retry's prompt.
RetryDiffReturns(s) ==
  /\ Turn(s)
  /\ pc[s] = "retrydiff"
  /\ EnterPhase(s, "retryedit")
  /\ UNCHANGED <<status, log, jobVars, boxVars, unlogged, semVars, faults>>

RetryEditReturns(s) ==
  /\ Turn(s)
  /\ pc[s] = "retryedit"
  /\ verified' = [verified EXCEPT ![s] = FALSE]
  /\ Goto(s, "retrycheck")
  /\ UNCHANGED <<status, log, attempt, targets, hasSuite, fixAttempts, boxVars, unlogged,
                 semVars, faults>>

\* An empty diff is only logged.  A report without failures (a timeout) names no targets.
RetryCheckReturns(s) ==
  /\ Turn(s)
  /\ pc[s] = "retrycheck"
  /\ \E narrowed \in BOOLEAN : targets' = [targets EXCEPT ![s] = narrowed]
  /\ attempt' = [attempt EXCEPT ![s] = @ + 1]
  /\ Proceed(s, "TESTING", "test")
  /\ UNCHANGED <<log, hasSuite, verified, fixAttempts, boxVars, semVars, faults>>

\* A DevMindError out of any await of the try block: a refusal, a spent step budget
\* or cost ceiling, a sandbox error, an empty first diff.  install() has its own handler.
RunFails(s) ==
  /\ Turn(s)
  /\ pc[s] \in Awaits \ {"install"}
  /\ Fail(s, Seen(s))
  /\ UNCHANGED <<log, jobVars, boxVars, semVars, faults>>

\* _safe_cleanup(), on either way out.
CleanupReturns(s) ==
  /\ Turn(s)
  /\ \/ pc[s] = "cleanup" /\ Goto(s, "return")
     \/ pc[s] = "unwind" /\ Goto(s, "raise")
  /\ sandbox' = [sandbox EXCEPT ![s] = FALSE]
  /\ UNCHANGED <<status, log, jobVars, workbench, unlogged, semVars, faults>>

-----------------------------------------------------------------------------
\* The database

AppendEvent ==
  /\ unlogged # <<>>
  /\ LET e == Head(unlogged) IN log' = [log EXCEPT ![e.s] = Append(@, e.entry)]
  /\ unlogged' = Tail(unlogged)
  /\ UNCHANGED <<status, pc, jobVars, boxVars, semVars, faults>>

\* An append raises something that is no DevMindError.  A run unwinds.  An API call
\* answers 500, and a POST that does so schedules no task.
AppendFails ==
  /\ faults < MaxFaults
  /\ unlogged # <<>>
  /\ LET e == Head(unlogged) IN
       \/ e.by = "run" /\ Goto(e.s, Finally(e.s, FALSE))
       \/ e.by = "create" /\ Goto(e.s, "lost")
       \/ e.by = "cancel" /\ UNCHANGED pc
  /\ unlogged' = <<>>
  /\ faults' = faults + 1
  /\ UNCHANGED <<status, log, jobVars, boxVars, semVars>>

\* Any other exception that is no DevMindError: a status commit, a Docker or HTTP client.
RunRaises(s) ==
  /\ faults < MaxFaults
  /\ Turn(s)
  /\ pc[s] \in {"starting"} \cup Awaits \cup (InStretch \ {"return", "raise"})
  /\ Goto(s, Finally(s, FALSE))
  /\ faults' = faults + 1
  /\ UNCHANGED <<status, log, jobVars, boxVars, unlogged, semVars>>

\* teardown() raises; _safe_cleanup() swallows it and the sandbox stays up.
CleanupFails(s) ==
  /\ faults < MaxFaults
  /\ Turn(s)
  /\ \/ pc[s] = "cleanup" /\ Goto(s, "return")
     \/ pc[s] = "unwind" /\ Goto(s, "raise")
  /\ faults' = faults + 1
  /\ UNCHANGED <<status, log, jobVars, boxVars, unlogged, semVars>>

\* The process dies and comes back.  Nothing relaunches the sessions it was driving.
Crash ==
  /\ faults < MaxFaults
  /\ pc' = [s \in Sessions |-> IF pc[s] \in {"idle"} \cup Ended THEN pc[s] ELSE "lost"]
  /\ pc' # pc
  /\ unlogged' = <<>>
  /\ slots' = MaxConcurrent
  /\ waiters' = <<>>
  /\ faults' = faults + 1
  /\ UNCHANGED <<status, log, jobVars, boxVars>>

-----------------------------------------------------------------------------
Run(s) ==
  \/ Launch(s) \/ Begin(s) \/ Release(s)
  \/ IngestReturns(s) \/ IngestFails(s) \/ Failing(s)
  \/ PlanReturns(s) \/ SetupReturns(s) \/ InstallReturns(s) \/ BaselineReturns(s)
  \/ PhaseCancelled(s) \/ InvestigateReturns(s) \/ EditReturns(s) \/ DiffReturns(s)
  \/ NoSuite(s) \/ TestReturns(s) \/ ConfirmReturns(s) \/ Exhaust(s)
  \/ Retry(s) \/ Increment(s)
  \/ RetryDiffReturns(s) \/ RetryEditReturns(s) \/ RetryCheckReturns(s)
  \/ RunFails(s) \/ CleanupReturns(s)

Next ==
  \/ \E s \in Sessions : Create(s) \/ Cancel(s) \/ Run(s) \/ RunRaises(s) \/ CleanupFails(s)
  \/ AppendEvent \/ AppendFails \/ Crash

\* Every await of a run ends (LLM calls, commands and HTTP requests have timeouts, the
\* agent loop a step budget) and the event loop passes over no task that is ready.
\* Nothing makes an operator create or cancel, nor a fault happen.
Fairness == WF_vars(AppendEvent) /\ \A s \in Sessions : WF_vars(Run(s))

Spec == Init /\ [][Next]_vars /\ Fairness
=============================================================================
