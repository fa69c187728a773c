# DevMind in TLA+

DevMind is an autonomous coding agent. A user posts a repository and an issue; DevMind clones the
repository, plans, edits and tests in a sandbox, and, once a human has approved the result, opens a
draft pull request. It is one Python process: FastAPI and asyncio, a SQLite database, a container per
session, and the `git` and `gh` programs. This directory holds a formal model of it: TLA+ modules,
TLC configurations that check them on small instances, and proofs that TLAPS checks for every
instance.

- [The system](#the-system): inventory of the components
- [The models](#the-models): which module models what, and how
- [The runs](#the-runs): what TLC checks, the bounds, fairness
- [The proofs](#the-proofs): what holds for every value of the constants
- [What the checks found](#what-the-checks-found)
- [Assumptions, and what is not modelled](#assumptions-and-what-is-not-modelled)
- [Plan](#plan)

`PROJECT.json` is the index: components, runs, the source lines behind every definition (`map`), a
plausible bug for every property that the property must catch (`mutants`), the hazards of the code
with the properties that cover them, the findings and the theorems.

To repeat a run: `tlc -workers 2 -config MCSessionLifecycle.cfg MCSessionLifecycle.tla`, and
likewise for the others; the proofs: `tlapm SessionLifecycle_proofs.tla`, and likewise for the other seven
`..._proofs` modules.

## The system

Paths are relative to `src/devmind/`.

| Component | State | Operations | Where it is hard |
|---|---|---|---|
| **Status map** (`core/enums.py`, `services/session_state_machine.py`) | `sessions.status` | `transition(to)`: check, commit the status, append `STATE_CHANGED` | two commits for one move; several writers |
| **Session life cycle** (`session_service`, `session_runner`, `session_orchestrator`, `session_workbench_builder`) | the background task, the semaphore, `fix_attempts`, sandbox and workbench | POST creates and schedules a run; the run clones, plans, builds a sandbox, takes a baseline, investigates, edits, tests, retries; POST /cancel halts it | a cancellation, a failure or a crash at any of some fifteen awaits; slots; cleanup |
| **Test verdict** (`test_execution_service`, `pytest_output_parser`, `self_correction_controller`) | `test_runs`, the loop's `attempt` and `targets` | run, parse, subtract the baseline's failures, compare with the run before, narrow, confirm | a verdict about another tree; truncated reports; runs that never finished |
| **Agent loop** (`agent_loop`, `agent_context`, `context_compactor`, `tool_executor`, `tool_registry`, `tools/`) | the conversation, the step counter, the cost so far | call the model, run its tool calls, compact, stop | budget, cost ceiling, cancellation between steps, pairing of calls and results |
| **Approval gate** (`approval_service`, `remote_operation_guard`) | `approvals` | `request`, `decide`, `assert_approved`, `consume` | a record and a status that must agree; a check far from its use |
| **Delivery** (`pr_service`, `git_service`, `branch_namer`, `github_client`) | the clone, the remote, `pull_requests` | review, list, compose, branch, stage, commit, push, open, record, consume | overlapping calls, half-done work, timeouts after the effect, dry run |
| **Event log and followers** (`event_repository`, `event_stream_service`, `api/routers/sessions.py`, `cli/client.py`) | `events`, the feed's cursor | `append`, `list_since`, the SSE feed, `watch()` | reconnects, a feed that ends, a status read before or after the rows |
| **Sandboxes** (`docker_sandbox`, `subprocess_sandbox`, `host_git_sandbox`, `subprocess_command_runner`) | container, workspace | `setup`, `run`, `teardown`, fresh container after a timeout | concurrent commands and recovery; a thread that outlives its timeout |
| **Ingestion** (`repo_ingestion_service`, `git_repository_cloner`, `workspace_manager`, `repo_profiler`, `symbol_indexer`) | the workspace directory, the profile, the index | workspace, clone, profile, index, brief | a failed step leaves the earlier ones done; the disk ceiling |
| **Database sessions** (`core/database.py`, the repositories' commits, `append()`) | open transactions, SQLite's write lock | `BEGIN IMMEDIATE` at a transaction's first statement, commit, `refresh()` (which begins the next one), scope end, a 30 s timeout | a lock held across an await while the event loop's own thread waits for it; two writers of one sequence number |
| **Agent tools** (`tools/`, `workspace_path_guard`, `gitignore_filter`, `code_search_service`, `code_index_service`) | none; the workspace's files | list, read, search, find, write, patch | shared budgets, limits, two readers of one `.gitignore` that must agree |
| **Planner**, **language model and cost** (`planner_service`, `anthropic_provider`, `cost_calculator`) | `todo_items`, the recorded cost | one request, one retry, one price | an answer of any shape; a price known only afterwards |
| **Review payload and pull request body** (`approval_request_builder`, `diff_service`, `change_summary_service`, `pr_body_composer`) | none | read rows and clone, render | a live clone read over several awaits, before and after it is staged |
| **HTTP surface and wiring** | none | one request each | none of their own |

**How they interact.** `SessionRunner.launch` is a background task of the POST; it queues on the
semaphore and calls `SessionOrchestrator.run`, which drives every other service of the autonomous
half and moves the status through `SessionStateMachine`. Cancellation is not a message to the task: it
changes the status row, which the agent loop re-reads before each step and `transition` at each move.
The human half (`ApprovalService`, `PRService`) works on the same row and on the clone the autonomous
half left. Everything is reported to the event log, which the feed and the CLI poll.

**Correctness, per component.** Status: only legal moves, a terminal status is final, the log replays
to the status. Life cycle: the status tells the truth about the task, nothing unverified reaches the
gate, no phase starts after a cancellation, slots and sandboxes are given back, every run ends. Verdict:
green is about the tree that is handed over, red is the agent's own fault, giving up early needs a
repeated failure. Gate and delivery: record and status agree, every remote write has a live approval, one
approval brings one pull request, a retry is offered only where nothing was touched. Feed: exactly
once, in order, complete. Database: sequence numbers without gaps, every wait ends, no transaction stays open. Agent
loop: every call has its result, the limits hold, the transcript does not lie about the files. Sandbox: a command
meets a running container, what timed out does not go on, nothing is left behind. Ingestion: the log tells how far it
came, the disk is bounded. Tools: what is shown is there, a patch changes what it says. Review: what was signed is what
is committed.

## The models

One asyncio process means that a coroutine runs undisturbed from one `await` to the next. So an action is
a *stretch*: what the code does from the return of one await to the next one. `pc` names the await at which
a task is suspended. Inside a stretch the code commits more than once, and a crash or a failed commit can
come between two commits, so each commit is a step of its own; a guard (`Turn`, `LoopFree`) keeps every other
coroutine out until the stretch is over. That is exactly the atomicity the code has: interleaving at
awaits, tearing at commits.

| Module | Models | State and actions |
|---|---|---|
| `SessionStatus` | `SessionStatus` of `core/enums.py`: the statuses, `_LEGAL_TRANSITIONS`, `can_transition_to` | no state |
| `SessionContract` | **abstract**: what DevMind promises of a session, whoever does it: legal moves, terminal statuses final (but for `FailLate`: an ingestion that was cancelled and then fails), a signature only while APPROVED, a pull request only with a signature and at most one, PR_OPENED only with a pull request | `status`, `signed`, `delivered`; `late`: cancelled sessions whose ingestion has still to end |
| `SessionLifecycle` | the autonomous half | `status`, `log`, `fixAttempts` are columns and tables; `pc`, `attempt`, `targets`, `workbench` the locals of `run()`; `sandbox` the container; `slots`, `waiters` the semaphore; `unlogged` the events the current stretch has still to append. `Create`, `Cancel`: the API. `Launch`, `Release`: `async with self._semaphore`. `Begin` ... `RetryCheckReturns`: the stretches of `run()` and `_run_testing_phase()` in their order. `RunFails`: a `DevMindError` out of any await, `RunRaises` and `AppendFails`: any other exception, `CleanupFails`, `Crash`. `Seen` is the status the code reads: the committed one, except where SQLAlchemy's identity map still holds an older row (a failed ingestion, see `HaltedIsFinal`) |
| `SelfCorrection` | the verdict that `SessionLifecycle` leaves open | `tree`: the outcome of each test and whether the suite collects; `rows`: the last two `test_runs`; `baseline`; `Subtract`, `Succeeded`, `NoProgress`, `Decision` are the functions of those names, `Parse` is from `PytestOutputParser`; one action per stretch of the testing loop. An edit may change any outcome, add or remove tests |
| `ApprovalDelivery` | the human half, several deliveries of one session at once | `status`, `approval`, `consumed`, `row` are the records; `gate` what an API stretch has still to commit; `local`, `head`, `carrying`, `tree` the clone; `foreign`, `pushed`, `prs` the remote; `slug` whether `_repo_slug()` accepts the session's URL, which a dry run asks too. `Request`, `Decide`, `GateCommits`, `Cancel`: the gate. `Open` ... `Consume`: the stretches of `open_draft_pr()`. `CommandActs` is the effect of `git` or `gh`, separate from `CommandReturns` and `CommandFails`, so that a command may time out before or after it acted. `Work` and `LateFailure` are the run, as its contract has it |
| `EventStream` | `list_since`, the SSE feed with reconnects, `watch()` | `written` the log; `cursor`, `batch`, `last` the locals of `stream()`; `wire` the frames under way; `got` what the client holds; `after`, `finished` the locals of `watch()` |
| `DatabaseLock` | who waits for whom on the database | `sqlite`: which database; `open`: connections with a transaction under way; `loop`: the coroutine that has the event loop's thread; `pc` the next statement; `log` the committed sequence numbers, `max` and `attempt` the locals of `append()`. `Require`, `Update`, `Select`, `Insert`, `Conflict`, `Refresh`: the statements of a repository call; `Inner`, `InnerLeave`: the review payload's scope inside the request's; `Leave`, `Respond`, `Exit`, `Close`, `Raises`: the ways out of a scope; `Timeout`. The actors are runs, requests, feeds, and writers with a thread of their own |
| `PytestOutputParser` | from what pytest prints to a report: what the sandbox's truncator keeps, sections, blocks, summary rows, counts, signature | no state; a line is the pair of what its pattern matches and what the match yields. `SelfCorrection` extends it |
| `ModelProvider` | what one answer of the model means, and what it costs | no state; an answer is its stop reason, its blocks and the token counts the API gave. A call is known by the number of its block, which stands for its id |
| `AgentLoop` | what the model does in a session: the plan, then the phases. Each is one await of `SessionLifecycle`; here it is a conversation | `plan`, `spent`, `tree`, `halted` the session's; `steps`, `messages`, `diff` the context's; `calls`, `blocks`, `waiting` the batch under way. `PlanReturns`, `PlanRejected`: the planner and its one retry. `Top`: the head of the loop, budget, cancellation, ceiling and compaction in the code's order. `CallsTools` starts a batch: the calls that await nothing are through at once, in their order (`AtOnce`, `Written`, `Replanned`, `StartCalls`), the others wait (`Awaiting`). `ToolReturns` ends one of those, `BatchReturns` puts the turn with all results into the transcript |
| `CommandAllowlist` | `validate()` of an argv | no state |
| `Sandbox` | a session's sandbox from `build()` to `teardown()`, with commands at once | `current`, `held`, `throwaway` the containers the code has in hand, `box` what the daemon has; `pc`, `mine`, `proc`, `result` each command, where its processes live and what the agent was told. One action per await: create, start, exec, the timeout, the recovery's remove, create and start, the drain of the subprocess backend; a late thread or an orphan ends by a step of its own |
| `RepoProfiler` | how a repository says that it is built and tested: suite, test paths, install and test commands, languages | no state; a repository is what the profiler reads of it |
| `Ingestion` | `ingest()` of several sessions over one disk | `dirs`, `size` the disk; `outlived` the sessions of which a process or a container still writes after their run; `log`, `row` what the session says; one action per await or commit. `Post` queues a session, `Launch` gives it a slot; `WriteOn` is what survives; after `Restart` nobody launches what was queued. A clone has its fallbacks for a missing `origin/HEAD` and a detached head; only a session made from an issue number can fail to resolve one |
| `Workspace` | the files of one session: path guard, `.gitignore`, file tree, brief, symbol index, the read-only tools, `write_file` and `apply_patch` | `fs`, `text`, `ignored`; a path is a sequence of names, `text` the lines as stored. `Read` is what `read_text(errors="replace")` makes of them (universal newlines, U+FFFD), `Split` what `splitlines()` makes of that, `Numbered` what a parser or a regular expression numbers; a patch writes back what was read |
| `ReviewPayload` | what a human is shown, what the pull request is written from, what is committed | `work`, `index`, `commit`: the files' versions in the working tree, the index and HEAD; `payload`: what each GET and each delivery has gathered over its awaits, the diff its summary was written from (`basis`) apart from the one it shows (`hunks`); `foreign`: another session has pushed the branch's name; `own` (the index as the agent left it), `tested`, `signed`, `body` are history. `AgentGit` is git run by the agent, `AddAll` what `git add -A` takes, `Artefacts` the files, tracked or not, that a test run rewrites |
| `...Props` | the properties of a module and the instance of the contract it implements | |
| `MC...` | constants for TLC | |
| `..._proofs` | the theorems about a module and their proofs, for eight modules | |

*How they fit together.* `SessionLifecycle` and `ApprovalDelivery` each implement `SessionContract`, the first up to the
gate (nothing is signed or delivered there), the second with the run reduced to the moves of its contract (`Work`). The
contract is what connects the two. The other modules open up what these two take as one await or leave to
chance: `AgentLoop` a phase, `SelfCorrection` the verdict, `Ingestion` the clone, `Sandbox` a command and the
workbench, `ReviewPayload` the contents of a delivery. `DatabaseLock` is the layer below all of them: it looks at the
statements of which their stretches are made. Each of these modules reduces the rest of the session to what it can
do to the state in question; `AgentLoop`, for one, lets a command change any file, and `ReviewPayload` lets the
agent edit, and use git, in every phase of editing.

Operators named for a mistake (`TransitionUnchecked`, `CeilingPassed`, ...) are not part of the models:
each stands before the definition it would break and is there for the mutants of `PROJECT.json`.

## The runs

| Run | Question | Bounds |
|---|---|---|
| `lifecycle` | two sessions queue, run, are cancelled, fail, crash: do status, log, slots, sandboxes and counter agree, does every run end, does it implement the contract | 2 sessions on 1 slot, 3 fix attempts, 1 fault |
| `delivery` | overlapping and repeated deliveries of one session: one approval, at most one pull request, never without a live approval | 3 calls, 3 branch names, 2 faults |
| `verdict` | any edits to a suite, its output cut and parsed: is the verdict true of the tree | 2 tests (a function and a method), 2 exception types and a bare assert, 8 lines of output, lists cut at 1, 3 attempts |
| `stream` | is the log received once, in order, completely | 5 events, batches and pages of 2, 2 lost connections |
| `database` | a run, a request, a feed and worker threads share a database, SQLite or another: are sequence numbers gap-free, does every call end, does every transaction | 1 session, 1 run of 2 stretches, 1 request, 1 feed, 2 threads, 2 attempts |
| `agent` | a model that answers anything: is every call answered, do budget and ceiling hold, does the transcript tell the truth about the files, does every phase end | 2 files, 2 phases of 3 steps, 16 answers with up to 2 calls, compaction from the second turn |
| `sandbox` | commands at once that time out and recover together: does the next command find a running container, does a timed-out one stop writing, is every container removed | 4 commands of which one is refused, 6 containers, 2 failing calls to the daemon, each backend |
| `ingestion` | sessions share a disk and fail or crash at any step: how full can it get, does the log tell how far each came, is the right suite found | 4 sessions on 2 slots, 2 repositories, ceiling and largest workspace 1, 1 failed commit or restart |
| `workspace` | is what the agent is shown what is there, does a patch change one place | every tree of 10 paths or of 10 less one branch, 5 contents, 2 of them with line ends or bytes that a reader converts, 8 `.gitignore`s, 2 edits |
| `review` | do signature, body, evidence and commit agree | 3 files of 2 or 3 versions, room for 1 in a diff, 2 test runs, 1 GET, 2 deliveries, 1 crash or failing git command |
| `unseen_files`, `container_leak` | one sentence of a docstring each, which TLC refutes | those of `review` and `sandbox` |

*Why the bounds suffice.* Two sessions on one slot is the least that makes one wait, be handed the slot and be
cancelled in the queue. A third fix attempt is the first one after which a no-progress verdict differs from a
spent budget in both directions. Three calls are two that overlap and one that retries; three names
(`BRANCH_COLLISION_MAX_SUFFIX` is 50) are enough for a remote that is full. `MaxItems = 1` stands for
`TEST_FAILURE_MAX_ITEMS = 30`: with two tests a report can be over the ceiling and under it; eight lines are room for
the output of one failure and not for that of two. A log of five with
batches of two (100 and 200 in the code) has a full batch, a full last batch and a partial one. One fault in
`lifecycle` and two in `delivery` (a crash and then a failed commit, say) reach every place where one can strike. In
`database` the number of attempts is the code's own (`EVENT_SEQUENCE_MAX_ATTEMPTS = 2`), and two threads beside a
coroutine are the three writers it takes for one to lose both; in the second stretch a run meets the transaction it
left open in the first. In `agent` two calls are the least that are answered out of order, three steps the least after
which an edit, a read and a compaction can stand in any order, and the prices are such that a session can stop one
unit short of the ceiling, at it and beyond it. In `sandbox` two of the commands that run are those whose
recoveries overlap, and the third runs in what the two leave behind; six containers are the most they can ask for
(`CountInv` of the proofs is the reason). In `ingestion` the first byte reaches the ceiling, so that whatever gets past the check gets past it together with others;
with four sessions all that two runs, two survivors of a restart and the ceiling allow can be on the disk, where a bound
without survivors is broken. In `workspace` the trees have a directory within a directory, an ignored one, a
binary file, a name with a colon, and each listing's limit both reached and not. In `review` there is a test file that a test run rewrites, a source file the agent names to git, and a file it creates,
which `.gitignore` matches (in `unseen_files` it does not): of each kind the code and git tell apart there is one.

An ingestion that fails after it was cancelled writes FAILED over HALTED (`HaltedIsFinal`, below). `lifecycle` has that step:
the contract names it (`FailLate`), allows it once for each cancelled ingestion, and nothing else out of a terminal status. `LogIsTrue` lets its event,
INGESTING to FAILED, follow a move to HALTED, and no other event follow a move it does not start from. On SQLite the run's open transaction in practice keeps
the cancellation out until the ingestion has ended.

*Symmetry* is used in `delivery` over the calls, in `review` over the deliveries and in `ingestion` over the three sessions
without an issue number, which are interchangeable; these runs check safety only, for which the reduction is sound.

*Deadlock.* `stream` is checked for it. The other systems really stop: all sessions have run, all calls have
been made, the verdict has been given, every scope is closed
and the feed gone, the phases are over, the edits are made. Their configurations switch the check off. That they do not
stop early is `EveryRunEnds` for `lifecycle`, `NobodyIsStuck` for `database`, `PhaseEnds` for `agent`,
`EveryCommandReturns` for `sandbox`; `delivery`, `verdict`, `ingestion`, `workspace` and `review`
state no liveness. In `ingestion` there is none to state beyond `EveryRunEnds`: a session that was queued when the process died stays queued.

*Fairness.* `lifecycle`: weak fairness of every session's run and of the append that ends a stretch. Each await
of a run ends: model calls, commands and HTTP requests have timeouts, a phase has a step budget, and asyncio's
ready queue is FIFO, as is the semaphore's. Nothing forces an operator to create or cancel or a fault to
happen. `stream`: weak fairness of the poller, of the connection and of a client that reconnects; connections
are lost only finitely often. `EverythingArrives` says nothing of a client that gives up, or of a network that
never holds. `database`: weak fairness of each actor's statements, a blocked one's timeout among them, and strong
fairness of taking the event loop, since a ready coroutine cannot go on while another has it: asyncio
serves ready callbacks in order, and every await ends. `agent`: weak fairness of the model's answer or failure and of
each command's end, for which the client and the sandbox have timeouts. `sandbox`: weak fairness of each command's own
steps (`wait_for` has a timeout, the docker client another); none of a process inside the container, which may run for ever.

### Properties

`lifecycle`
- `PhaseMatchesStatus`: the status is the one the running task's await stands for, or HALTED; a run that returned left
  no session mid-work.
- `VerifiedBeforeSummarizing`: with a test suite, SUMMARIZING means that a full run was green and nothing was
  edited since.
- `NothingHeld`: free slots and running sessions add up on every way out, nobody waits while a slot is free, and no run
  that had a workbench leaves its sandbox up.
- `LogIsTrue`: the `STATE_CHANGED` events lead edge by edge from CREATED to the status, with two writers (the FAILED of a
  cancelled ingestion alone names a status the session had left), and the counter
  of fix attempts agrees with the log and the budget.
- `NoPhaseAfterHalt` (action): no agent phase begins on a session that was halted before.
- `EveryRunEnds` (liveness), `ImplementsContract` (refinement): HALTED is left only by an ingestion that fails after it was cancelled.

`delivery`
- `RecordsAgree`: status, approval and pull request never contradict one another, wherever the commits were torn apart.
- `AtMostOnePullRequest`: one approval, one branch, one pull request, although several calls may hold a live
  authorisation. The reason is not the token, which is spent last, but the shared clone: the second
  commit finds an empty index.
- `RemoteNeedsLiveApproval` (action): at each remote write, many awaits after the guard, the approval still stands.
- `DryRunDeliversNothing` (action): a dry run touches neither clone, remote nor records, whatever overlaps with it; the
  one thing it may do is fail an APPROVED session, whose URL `gh` cannot be given.
- `RetryableIsClean`, `ImplementsContract` (refinement).

`verdict`
- `GreenIsClean`: green means no test is red that was not red before, unless there are more red tests than a report can
  list. `CanList` says how many it can: the list has a ceiling, and the summary must be in the part of the output that the
  sandbox keeps.
- `RedIsDeserved`: a finished red run means some test is red that was not before, unless the baseline had more failures
  than its report could list.
- `WithinBudget`: giving up before the budget is spent takes two runs in a row that listed the same failures; where nothing
  is subtracted, two that ended in the same way and, if they could list their failures, were both red. That they were both red
  in any case is what the code says and does not keep: see `NoProgressIsOfAFailure` below.

`stream`
- `ExactlyOnceInOrder` (action), `NothingMissedAtEnd` (the end of the feed and of `watch()` come after everything that was
  there when the session ended), `EverythingArrives` (liveness).

`database`
- `NumbersAreSound`: whoever appends, on either database, a session's numbers are 1, 2, 3, ...; with `BEGIN IMMEDIATE` no
  append ever loses a race.
- `FeedsHoldNothing`: a feed that sleeps between polls has no transaction open.
- `NobodyIsStuck` (liveness): a wait for oneself is cut by the timeout, and no way out of a scope keeps the lock.

`agent`
- `PairedResults`: in what is sent to the model every turn with calls is followed by one message with a result for each,
  whatever failed, was refused, was cancelled or was compacted.
- `WithinLimits`: over all its phases a session spends less than the ceiling and the price of one call.
- `StaleReadsGo`: after a compaction no read of a file as it was before a later edit is left.
- `PhaseEnds` (liveness).

`sandbox`
- `CurrentRuns`: the container the next command is sent to runs, and nobody has it in hand to remove it.
- `ContainersAccounted`: without a failing call to the daemon and without overlapping recoveries nothing is left behind.
  Both conditions are needed: see the observations below.
- `StraysAreDoomed`: without failing calls and overlapping recoveries, what a timed-out command left running is gone
  when the agent is told, or about to be.
- `EveryCommandReturns` (liveness).

`ingestion`
- `DiskBounded`: the ceiling is checked before a clone of unknown size, by several at once, and nobody removes a
  workspace, and what a run or a restart leaves behind writes on; still usage stays below the ceiling and one largest workspace per slot and
  per run that something outlived.
- `LogTellsHowFar`: steps, failure and row agree at every point a step can fail or a process die.
- `SuiteIsFound`: a repository with tests is taken for one, with a command the sandbox accepts.

`workspace`
- `ShownIsThere`: the file tree, `list_dir` and the brief are exact prefixes of a definition without a walk or a shared
  budget, and say "truncated" exactly when there is more; whatever the index or a search names can be read where it says, as long as no line
  up to there has a break that `splitlines()` sees and a parser or `rg` does not.
- `PatchIsLocal`: what a patch leaves is the file as decoded with one occurrence replaced, and if no line of the file is converted
  by reading, that is the stored file with one occurrence replaced; it is refused only if there is none or there are two apart.

`review`
The three speak of the files in the index the agent left; what is outside it is `NothingUnseen`, below.

- `SignedIsDelivered`: the signed diff, unless it is cut, is exactly what is committed, the per-file list is complete,
  the tests-only warning is there if and only if the delivered change is one of tests only, and the summary that was signed was written
  from the same diff. (A payload of which a git command failed is excepted: no exit code is looked at.)
- `BodyDescribesCommit`: the diff the pull request's summary was made from, a read of its own after the approval, is that of the
  commit, whichever delivery or crash had staged the change before. It can be empty only if another session has pushed
  the branch's name. The evidence is green, or says there is no suite.
- `EvidenceIsCurrent`: the signed evidence is a green run on exactly the delivered contents, but for what the run itself
  rewrote and what `.gitignore` keeps out of the commit, or says that none ran.

## The proofs

TLC explores an instance; the theorems hold for every value of the constants: any number of sessions, deliveries,
commands, files, phases, slots, any limits, and any number of faults. TLAPS checks them, in eight modules, each of
which extends the property module of its component; `EventLog_proofs` extends those of both that write
the event log and that follow it, `Ingestion_proofs` those of what clones a repository and of what is then made of it. They rest on nothing but the assumptions a module states
on its constants, which TLC evaluates in the runs.

| Module | Theorem | States |
|---|---|---|
| `SessionLifecycle_proofs` | `TypeCorrect` | `Spec => []TypeOK` |
| | `StatusTruthful` | `Spec => []PhaseMatchesStatus` |
| | `NothingUnverified` | `Spec => []VerifiedBeforeSummarizing` |
| | `EverythingGivenBack` | `Spec => []NothingHeld` |
| | `LogTrue`, `AttemptsCounted` | `Spec => []LogIsTrue`, and of it `Spec => []FixAttemptsMatchLog` |
| | `HaltedStartsNoPhase` | `Spec => NoPhaseAfterHalt` (action) |
| | `Refinement` | `Spec => ImplementsContract` |
| `ApprovalDelivery_proofs` | `RecordsConsistent` | `Spec => []RecordsAgree` |
| | `SingleUse` | `Spec => []AtMostOnePullRequest` |
| | `RetryIsClean` | `Spec => []RetryableIsClean` |
| | `RemoteIsAuthorized` | `Spec => RemoteNeedsLiveApproval` (action) |
| | `DryRunIsDry` | `Spec => DryRunDeliversNothing` (action) |
| | `Refinement` | `Spec => ImplementsContract` |
| `SelfCorrection_proofs` | `GreenIsTrue` | `Spec => []GreenIsClean` |
| | `RedIsTrue` | `Spec => []RedIsDeserved` |
| | `BudgetHolds` | `Spec => []WithinBudget` |
| `EventLog_proofs` | `NumbersSound` | `Spec => []NumbersAreSound`, of `DatabaseLock` |
| | `FeedsLetGo` | `Spec => []FeedsHoldNothing`, of `DatabaseLock` |
| | `EndComesLast` | `StreamSpec => []NothingMissedAtEnd`, of `EventStream` |
| | `ResumesExactly` | `StreamSpec => ExactlyOnceInOrder` (action), of `EventStream` |
| `AgentLoop_proofs` | `EveryCallIsAnswered` | `Spec => []PairedResults` |
| | `LimitsHold` | `Spec => []WithinLimits` |
| | `NoStaleRead` | `Spec => []StaleReadsGo` |
| `Sandbox_proofs` | `HandedOutRuns` | `Spec => []CurrentRuns` |
| | `NothingLeaks` | `Spec => []ContainersAccounted` |
| | `TimeoutsLeaveNoWriter` | `Spec => []StraysAreDoomed` |
| `ReviewPayload_proofs` | `SignedIsWhatLeaves` | `Spec => []SignedIsDelivered` |
| | `BodyIsTrue` | `Spec => []BodyDescribesCommit` |
| | `EvidenceFits` | `Spec => []EvidenceIsCurrent` |
| `Ingestion_proofs` | `LogTells` | `Spec => []LogTellsHowFar` |
| | `SuitesAreFound` | `Spec => []SuiteIsFound` |
| | `DiskHolds` | `Spec => []DiskBounded` |
| | `PatchesAreLocal` | `WorkspaceSpec => []PatchIsLocal`, of `Workspace` |
| | `WhatIsShownIsThere` | `WorkspaceSpec => []ShownIsThere`, of `Workspace` |

Every module has the same shape. The properties are not inductive, so an invariant `IInv` is stated that is;
`InitIInv` shows that it holds at first, `NextKeepsIInv` that every step keeps it, with a lemma for each action or group
of actions that does the same to the state, and the theorems follow from it. TLC has checked each of the invariants
as well. What they add to the properties, and why it is needed:

**`SessionLifecycle`.** `IInv == TypeOK /\ PhaseMatchesStatus /\ QueueInv /\ JobInv /\ VerifiedBeforeSummarizing`.

- `QueueInv`: whoever is in the semaphore's queue is at `waiting`, once, and an event still to be appended belongs to
  a run that holds a slot or to a POST under way. Without it, releasing a slot might wake a task that is somewhere
  else, a failed append might end a run that never began, and `PhaseMatchesStatus` would not survive.
- `JobInv`: what the locals are at each await: the budget has room where the loop goes on, a suite exists
  where tests run. `TypeOK` needs it, since `attempt` would otherwise leave its range, and
  `VerifiedBeforeSummarizing` needs it, since the way to SUMMARIZING without a suite must be closed to a
  repository that has one.
- `HeldInv == BoxInv /\ SlotInv`, for `NothingHeld`: what a run has in its hands at each await. A sandbox is up between
  `setup()` and the cleanup, and `run()` has its workbench from the install on, which is what sends each exception through
  the cleanup; the free slots and the runs that hold one add up, counted as a finite set though the sessions may be
  infinitely many.
- `LedgerInv == MoveInv /\ RetryInv`, for the counter: at each await, how many retries the log has, how many are still to
  be appended, and how the two go with `attempt` and `fixAttempts`. The status, its event and the counter are three commits,
  so a fault between them leaves the counter behind the log, never ahead of it.
- `ReplayInv`, for the replay: each log leads to its session's status, by way of the move that is still to be appended.
  A cancellation and a run's own move cannot both be pending (`MoveInv`), which is why two writers need no lock.

`Refinement` maps each step to `Create`, `Advance`, `FailLate`, `Settle` or a stutter of `SessionContract`, with `late` as
the cancelled sessions whose ingestion is still under way (`CancelledIngesting`). `FailSeesStatus` is what it, and `LogTrue`, turn
on: a failing run reads the committed status, unless it is an ingestion that was cancelled, which reads INGESTING.

**`ApprovalDelivery`.** Nothing in `PRService` keeps two deliveries of one approval apart: the guard is read long before
the token is spent. `OneGetsPast` is what does: they share a clone, a change can be committed once, and only who has
committed goes on to the remote. With it, `RowInv` puts pull request, row, status and token in the order in which they are written,
`CallsInv` says that a call lives under an approval, `GateInv` which status goes with which record, and `CleanInv` that only a
call that has still to mark the session FAILED touches clone or remote. `Refinement` needs `IInv` for each pull request:
it is signed, and it is the first.

**`SelfCorrection`.** The properties speak of the tree, the loop knows only reports. Most of the proof is what lies between:
`AscendingLists` (the failing tests, in order), `SuiteOutputIs` (where each line of the output stands), `TruncateLeaves` (what of
it the sandbox keeps: head, tail and a line between), `SummaryIsRead`, `RowsAre` and `FailuresAre` (which rows are read, which
exception with each), up to `OutcomeIsParsed`: a report of a run on a tree says that the run did
not finish, or counts every red test that ran, lists some of them, and lists all of them if `CanList` holds (a narrowed run may also
have found nothing to run). `SignatureTells` is its converse: the same signature,
the same list, for which two orderings of one set must be the same (`OrderIsUnique`). Over it lies the invariant.
`BaselineInv`: the baseline is the report of the tree before the first edit. `RowsInv`: each row holds the report of a run
and what is left of it without the baseline. `VerdictInv`: the last row is of a run on the tree as it stands, and a green verdict
is about a run of the whole suite, which is what narrowing endangers. `PlaceInv`: a first attempt has a single row, so it cannot
end for lack of progress, and a retry has budget left.

**`EventStream`.** `Consecutive`: what was received, what is on the wire and what is left of the batch are always one run of
consecutive numbers, with the cursor between the wire and the batch. A lost connection cuts that run behind what was
received, and `Last-Event-ID` starts the next one there. `LastBatchInv` and `WatchInv` say that the status was read before the
rows, in the feed and in `watch()`: hence a page that is not full is the last one.

**`DatabaseLock`.** `MaxInv`: a number that was read may be old, but is at most the log's length, so a number that
is free is the next one and the unique index does the rest. `OneHolder` and `InsertInv`: on SQLite an append holds the lock from
its SELECT to its INSERT, so what it read is not old. `FeedInv`: a feed's transaction ends before it gives up the event loop.

**`AgentLoop`.** `TranscriptInv`: the transcript is paired at all times, as a turn and its results are appended together
and a compaction blanks results in place. `CeilingInv` and `OvershootIsOneCall`: an answer is awaited only below the ceiling, so
the last one alone can pass it. `StaleInv`: a compaction leaves no read of a file that any call of the transcript asked to write.

**`Sandbox`.** `HandsInv`: every container in somebody's hands, the session's, the throwaway one's or a recovery's, is live and
in no other hands, because the session's is given up before it is removed. `LeakInv` and `StrayInv`: without failing calls and
overlapping recoveries no live container is in nobody's hands, and a process runs in the session's container or in one that is
removed next. `CountInv` bounds the containers there can be, which is why a model with `Cardinality(Commands) + 2` of them never
runs out.

**`ReviewPayload`.** `LateInv`: the working tree stands still once the first payload is read. `TreeInv`: the index is the agent's until a
delivery has staged, then what `git add -A` makes of it, however often (`Restaged`), and HEAD is that from the commit on. `Known`:
each summary was written from the change, from nothing, or from a diff that could not be read. `SoundInv`: a payload tells the
truth at each of its awaits as long as no delivery has its branch; the signed one tells it for ever, and so does that of the
delivery that has the branch, unless another session has pushed its name (`Trusted`). That is what must
be carried over the awaits: another delivery may stage the tree between two `git diff`s of a third reader, whose payload is then
empty, and he must not be the one whose text goes out.

**`Ingestion`.** An event says nothing of where the run is that appends the next one. `CountInv` counts the events at every
await, `DirInv` says from which await on there is a workspace, `RowInv` when there can be a row and of which clone. They speak
of one session: a step of one leaves what they say of the others alone. For `DiskHolds`, `DiskInv` charges each session that
still writes, with a slot or as a survivor (`Growers`), with the largest workspace there is (`Reserve`), so that growing costs nothing: the sum of what
all are charged with rises only when a workspace is created, below the ceiling as measured then, and the sessions that are
at it are at most as many as the slots and the survivors. The survivors only become more, and the bound rises with them (`BoundRises`). That takes a theory of sums over finite sets (`TotalWithout` and those around it), in
which an induction is written out as the choice of a smallest counterexample (`SmallerSetsFirst`).

**`Workspace`.** What is shown is a function of the files, so its invariant, `WsInv`, says no more than that the files are a
tree, which `WriteFileKeeps` has to show for the parents that are made and `CommandRunsKeeps` for what is removed with all below it. The
work is in the operators. `RecursionExists` shows that a function defined from `i - 1` to `i` is there at all, `UpTo` is the induction
along it. For a patch, `Seen` says what the count knows after `i` lines: no occurrence, one and then only those that begin in
it, or two apart; and `FirstIsReplaced` that the replacement, a second scan, finds the first. What is read of a file is a concatenation of what is read of
each line (`FlattenHas`): a decoded line decodes to itself, so a file that was patched once is read as it is stored from then on, and where
no line was broken up the numbers of the lines stay (`SingleReads`, `UnsplitReads`, `PlainReads`). For the listings, `Lists`
says that an answer is the first entries of a set of paths, and refuses exactly if there are more. A walk that has listed `V` lists `V`
with all that is visible below a directory on its return, if all of that comes later in the order than `V`
(`PassingLists` for an entry, `VisitLists` for a directory, `WalkLists` by depth). So it does not matter how the recursion shares the
budget. `Shows` is the same for the brief, whose cap is looked at in other places: what it has beyond the cap is not what comes next, so
it is said of the first lines only. `FirstsAreEnough` and `LastOfFirsts` are what the two take from the order.

*Assumptions on the constants.* Limits are natural numbers, those that the settings validate as positive are positive.
`Sandbox`: finitely many commands, and at least two more containers than commands. `DatabaseLock`: the four kinds of actors are
disjoint. `AgentLoop` (`RepliesAssumption`): an answer has finitely many blocks, its token counts are natural numbers, the
items of a `todo_write` are of the three kinds the planner tells apart. `ReviewPayload`: finitely many files, numbered
in path order, whose versions are natural numbers; a GET is no delivery. `SelfCorrection`: finitely many tests, in the order of the
suite, none of which has the title that pytest gives to a module that cannot be imported; at least one line of an output is kept
and one failure listed. `Ingestion`: the size of a repository is a natural number up to the largest; `RepoProfiler` (`PytestAssumption`):
the allowlist has `python`, as `ALLOWED_COMMAND_BINARIES` in `core/constants.py` does. `Workspace`: a name occurs once
in the order of `sorted()` and `..` is none; a clone is a finite tree; a stored line is read as one line at least, and
what is read is read again as it is; `old_string` is not empty (`min_length=1` in
`schemas/tools.py`); the brief is no deeper than the tree (2 and 4 in `core/constants.py`). Sessions and calls need not be finitely many.

**Only model-checked:**

- liveness (`EveryRunEnds`, `EverythingArrives`, `NobodyIsStuck`, `PhaseEnds`, `EveryCommandReturns`): this
  prover reasons neither about fairness nor about ENABLED.

Every other property of the passing runs is stated by a theorem.


## What the checks found

Two disagreements between the code and its documentation are runs that end with a counterexample, and entries under
`findings`:

1. `unseen_files`: "Nothing is committed before the approval gate, so the working-tree diff *is* the diff against the base
   commit" (`services/diff_service.py:15`). `git diff` shows no untracked file and delivery stages with `git add -A`: a
   file the agent created, or one it staged or committed itself with `run_command`, is pushed although no reviewer saw it, nor the
   per-file list, nor the tests-only warning. A
   phase that only creates files fails as one without a change.
2. `container_leak`: teardown happens "including on the failure path, so a crashed run never leaks a container"
   (`services/docker_sandbox.py:3`). `build()` catches `SandboxError` only.

The property modules hold more sentences of this kind, below their last rule or after the checked properties. To see the
counterexample, name the property in the module's `MC...cfg` instead of those there (without its SYMMETRY line);
`HaltedIsFinal.cfg` and `ChildrenDie.cfg` have the constants these two need.

| Property | The sentence | What happens |
|---|---|---|
| `CrashedRunIsTerminal` (`SessionLifecycle`) | an unhandled error leaves the session FAILED (`session_runner.py:9`) | only `DevMindError` does; any other exception leaves the status where it was, for good |
| `HaltedIsFinal` (`SessionLifecycle`) | "There is exactly one code path that changes status, and it refuses anything the legal-transition map doesn't allow" (`session_state_machine.py:7`) | `ingest()` keeps its ORM row across the clone. When the clone fails, the traceback keeps the row alive, `_fail()` gets it from the identity map, sees INGESTING, and writes FAILED over a HALTED committed meanwhile (`repo_ingestion_service.py:61`) |
| `AwaitingIsDecidable` (`ApprovalDelivery`) | "AWAITING_APPROVAL is a durable state" (`docs/01-solution-design.md:174`) | `request()` commits the status before the record; a crash in between leaves a session nobody can decide on |
| `OpenedMeansSpent` (`ApprovalDelivery`) | "consumed_at is set ... immediately after a PR is opened" (`models/approval.py:21`) | when another delivery of the session has failed meanwhile, `transition(PR_OPENED)` raises before `consume()` |
| `DryRunMovesNothing` (`ApprovalDelivery`) | a dry run short-circuits every remote step and "nothing is persisted or transitioned" (`services/pr_service.py:22`) | `open_draft_pr()` asks `_repo_slug()` before it looks at `dry_run` (`github_client.py:91`), and that rejects URLs that the API accepts, such as one with a group: the approved session is marked FAILED |
| `GreenMeansNoRegression` (`SelfCorrection`) | "only-the-agent's-fault failures are all gone" (`schemas/test_execution.py:146`) | with more failures than a report lists, or an output that was cut, the subtraction recounts from the short list and a new failure beyond it is handed over as green |
| `SignatureTellsFailuresApart` (`SelfCorrection`) | "sensitive to a genuinely different failure" (`schemas/test_execution.py:79`) | the block of a method is titled `Class.name`, the parser looks for `name`; its exception type is never read, and two different failures of a method look alike |
| `NoProgressIsOfAFailure` (`SelfCorrection`) | "a report with no failures is never compared for no-progress" (`schemas/test_execution.py:83`) | the run "before" is the last row but one (`services/self_correction_controller.py:110`), after a narrowed run and its confirmation the narrowed run of the same attempt, and that one was green. If the baseline was red, the subtraction gives a confirming run that timed out the signature of no failures as well (`services/test_execution_service.py:207`). So a session whose edit has just turned its failing tests green ends EXHAUSTED, "no progress", with attempts left. (Met when proving `WithinBudget`, which had said that both runs were red) |
| `FinalBatchFlushed` (`EventStream`) | "after the final batch of events has been flushed" (`event_stream_service.py:15`) | a terminal status ends the feed after one batch, also when that batch was full |
| `WritersQueue` (`DatabaseLock`) | `BEGIN IMMEDIATE` turns "concurrent writers into a queue (blocking, via the timeout connect arg, rather than racing)" (`core/database.py:67`) | `refresh()` after each commit takes the lock again, and a run keeps it across its awaits. The next coroutine that needs the database blocks the thread on which the holder would have to go on: it waits 30 s and fails. So a request during a run stops the whole process, and GET approval-request, which opens a second scope inside its own, waits for itself. The concurrency test of the repository uses threads, which do queue |
| `AnchorIsCurrent` (`AgentLoop`) | "The plan and diff above are current" (`agent_context.py:107`) | the plan is rendered once, before the phases; a `todo_write` later is not in it. The diff may be of one path only |
| `TimeoutKills` (`Sandbox`) | "A timed-out exec_run leaves its process alive in the container; kill the container" (`docker_sandbox.py:227`) | a recovery removes the container that is current when it begins. Two that overlap each put a new one there, and the second hides the first. A command in the first that times out has the second removed in its place, and goes on. (Met when proving `StraysAreDoomed` for any number of commands) |
| `ChildrenDie` (`Sandbox`) | "a process-group SIGKILL on timeout so a test runner that forked children cannot orphan them" (`subprocess_sandbox.py:13`) | when the leader has exited and a child holds the pipe, the process id is no longer known and the child stays |
| `InstallIsAllowed` (`Ingestion`) | a Poetry repository's install command is `poetry install` (`tests/services/test_repo_profiler.py:80`) | `poetry` is not on the allowlist: the command is recorded, and the sandbox refuses it |
| `FailureIsRecorded` (`Ingestion`) | "any failure is ... recorded as SESSION_FAILED before it propagates" (`repo_ingestion_service.py:5`) | a `WorkspaceError`, such as the disk ceiling's, is neither normalised nor recorded by `ingest()` |
| `PatchIsUnambiguous` (`Workspace`) | `old_string` "must appear exactly once" (`apply_patch_tool.py:23`) | occurrences are counted without overlap: two that overlap count as one |
| `PatchKeepsTheRest` (`Workspace`) | "Replace an exact block of text in a workspace file" (`apply_patch_tool.py:22`) | the whole file is read with universal newlines and `errors="replace"` and written back (`apply_patch_tool.py:48,62`): in every other line too, a `\r\n` becomes `\n` and a byte that is not UTF-8 becomes U+FFFD |
| `IndexIsVisible` (`Workspace`) | "It skips ... anything .gitignore excludes" (`code_index_service.py:5`) | the symbol index asks about each file on its own, not about the directories above it: what lies in an excluded directory is indexed |

**Observations** made while modelling, without a property: the file tree is built depth-first, not breadth-first as
`code_index_service.py:3` says, so a deep first directory uses up the budget; a repository with nothing but a
requirements file is installed with `pip install -e .`; two overlapping recoveries leave one container behind (the reason
for a condition of `ContainersAccounted`), and the recovery of one timed-out command removes the container in which
another still runs; the planner's and the summary's calls are not entered in the session's costs; an answer cut at the
token limit without a call counts as a completed phase; nothing calls `WorkspaceManager.destroy()`; a search hit in a file
whose path has a colon is lost; `DiffService` does not look at git's exit codes, so a failed `git diff` is shown as no
change; its docstring says it runs inside the sandbox, the review runs on the host.

## Assumptions, and what is not modelled

- **One process, one event loop.** `make run` starts one uvicorn process. With several, stretches would interleave at each
  commit; the models do not say what then holds.
- **The database.** `SessionLifecycle`, `ApprovalDelivery` and the modules that open up their awaits let a cancellation or
  another call land at any await. On SQLite a run's open transaction often keeps it out until a timeout, so they describe
  a database without that lock, such as PostgreSQL, "the production target" (`core/database.py:47`), and allow more than
  SQLite does. A timeout there is one of the exceptions of `RunRaises` and `AppendFails`.
- When FastAPI leaves a handler's scope, in a worker thread, is modelled from how `get_db()` is written.
  Whether that is before or after the POST's background task starts depends on FastAPI's version, so a run's start
  is not tied to its request.
- A crash loses every task; `CancelledError` at shutdown, which runs `finally` blocks, is approximated by it.
- A POST's sequence of commits is torn only by a fault; requests do not overlap inside a stretch, as they do not
  in the code.
- The event log of `SessionLifecycle` holds the events about the life cycle; tool calls and the like would only
  lengthen it. `EventStream` has the log as numbers: what an event says does not matter to a follower.
- `ApprovalService.request()` and `PRService.open_draft_pr()` have no caller in `src/devmind/`: the
  runner ends at SUMMARIZING, and the human half is driven by whoever calls those services. `ApprovalDelivery` and
  `ReviewPayload` make those calls at any time. They say what holds when they are made, not that they are.
- `git`, `gh`, `pytest`, `rg`, the docker daemon and the kernel's process groups are modelled by what the code relies on;
  these definitions are marked external in the map. A test's outcome is a function of the tree: flaky tests are not
  modelled. In `ReviewPayload` the agent's git stages, unstages or commits single files: `git stash`, `reset --hard` or a checkout
  are an `Edit` and such a step; a branch or a history of its own is not modelled, and a test run does not use git. `.gitignore` matches the same files at
  every delivery. An edit during a human's review is in `ReviewPayload` only as another delivery's `git` commands, since nobody
  else touches the clone then.
- Text is what its reader distinguishes: a line of pytest output is what its pattern matches, a path is a sequence of
  names, a line of a file is what it is decoded to and split into, an ignore pattern has no wildcards, a message of the conversation has a weight in place of tokens.
- **Not modelled:** the HTTP routes, error mapping, configuration, logging and the CLI's other commands, which have no
  state of their own; the wording of prompts, summaries, bodies and commit messages; the wire format of the model's API
  and its cache marks; what a tree-sitter grammar or a regular expression recognises in a line of source; environment
  variables and resource limits that are passed on to a container; heartbeats and a malformed `Last-Event-ID`; keyword
  narrowing of tests, which nothing in the loop asks for.

## Plan

Done: `SessionStatus`, `SessionContract`, `SessionLifecycle`, `ApprovalDelivery`, `DatabaseLock`, `EventStream`,
`SelfCorrection` with `PytestOutputParser`, `AgentLoop` with `ModelProvider`, `Sandbox`, `Ingestion` with `RepoProfiler`,
`Workspace`, `ReviewPayload`, and the proofs above. What is left is to make the proofs leaner: the modules each have lemmas on
finite sets and on sequences for themselves.
