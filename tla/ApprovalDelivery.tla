-------------------------- MODULE ApprovalDelivery --------------------------
(***************************************************************************)
(* The human half of one session: the approval gate (ApprovalService) and  *)
(* the delivery of the approved change as a draft pull request (PRService, *)
(* RemoteOperationGuard, GitService, BranchNamer, GitHubClient).           *)
(*                                                                         *)
(* Several calls of open_draft_pr() may be under way for the session: each *)
(* is authorised once, at its first statement, and then awaits a language  *)
(* model, git and gh.  They share one clone (`local`, `head`, `carrying`,  *)
(* `tree`) and one remote, on which other sessions push as well.           *)
(*                                                                         *)
(* As in SessionLifecycle, a stretch between two awaits is undisturbed but *)
(* commits several times.  The API stretches request() and decide() leave  *)
(* in `gate` what they have still to commit; a delivery's last stretch     *)
(* passes through the control points of InStretch.  The event log is       *)
(* modelled in SessionLifecycle.  The session's run is taken at the        *)
(* granularity of its contract, which SessionLifecycle implements.         *)
(***************************************************************************)
EXTENDS SessionStatus, Naturals, FiniteSets

CONSTANTS
  Calls,       \* calls of open_draft_pr(), each made at most once
  MaxSuffix,   \* BRANCH_COLLISION_MAX_SUFFIX: the names are base, base-2, ...
  MaxFaults    \* bound: crashes, failed commits and unexpected errors

ASSUME ConstantsAssumption ==
  /\ MaxSuffix \in Nat \ {0}
  /\ MaxFaults \in Nat

Absent == "ABSENT"
Names  == 1..MaxSuffix     \* 1 is the name without a suffix
Default == 0               \* the branch that was cloned

VARIABLES
  status,      \* sessions.status
  approval,    \* approvals.decision: no record, "open" (NULL) or a verdict
  consumed,    \* approvals.consumed_at is set
  row,         \* the pull_requests row exists
  gate,        \* what the API stretch under way has still to commit
  pc,          \* where each call is suspended
  acted,       \* the command a call awaits has done its work
  branch,      \* each call's local `branch`
  local,       \* branches of the clone
  head,        \* the one checked out
  carrying,    \* branches that contain the commit with the change
  tree,        \* the change: in the working tree, in the index, or committed
  foreign,     \* branches of the remote other sessions pushed
  pushed,      \* branches of the remote this session pushed
  prs,         \* heads of its open pull requests
  late,        \* it was cancelled while its ingestion was under way
  dryRun,      \* Settings.dry_run of this process
  slug,        \* the session's URL names an owner and a repository for gh
  faults

recordVars == <<approval, consumed, row>>
cloneVars  == <<local, head, carrying, tree>>
remoteVars == <<pushed, prs>>
worldVars  == <<cloneVars, foreign, remoteVars>>
vars == <<status, recordVars, gate, pc, acted, branch, worldVars, late, dryRun, slug, faults>>

Verdicts   == {"APPROVED", "REJECTED"}
Commands   == {"branch", "stage", "commit", "push", "pr"}   \* inside the try block
Awaits     == {"review", "list", "compose"} \cup Commands
InStretch  == {"row", "opened", "consume"}
PC         == {"idle", "returned", "raised", "lost"} \cup Awaits \cup InStretch

\* Nobody but, possibly, c is in the middle of a stretch.
Turn(c)  == gate = "none" /\ \A d \in Calls \ {c} : pc[d] \notin InStretch
LoopFree == gate = "none" /\ \A d \in Calls : pc[d] \notin InStretch

Init ==
  /\ status = Absent
  /\ approval = "none"
  /\ consumed = FALSE
  /\ row = FALSE
  /\ gate = "none"
  /\ pc = [c \in Calls |-> "idle"]
  /\ acted = [c \in Calls |-> FALSE]
  /\ branch = [c \in Calls |-> Default]
  /\ local = {Default}
  /\ head = Default
  /\ carrying = {}
  /\ tree = "dirty"
  /\ foreign = {}
  /\ pushed = {}
  /\ prs = {}
  /\ late = FALSE
  /\ dryRun \in BOOLEAN
  /\ slug \in BOOLEAN
  /\ faults = 0

Goto(c, next) == pc' = [pc EXCEPT ![c] = next]

\* transition() without its legality check.
TransitionUnchecked(to) == status' = to

\* SessionStateMachine.transition()
Transition(to) == CanTransition(status, to) /\ status' = to

-----------------------------------------------------------------------------
\* Before the gate: POST /sessions, then the run, up to SUMMARIZING or a terminal status.
Autonomous == {"CREATED", "INGESTING", "PLANNING", "INVESTIGATING", "EDITING", "TESTING"}

Work ==
  /\ LoopFree
  /\ \/ status = Absent /\ status' = "CREATED"
     \/ status \in Autonomous /\ \E to \in Status : Transition(to)
  /\ UNCHANGED <<recordVars, gate, pc, acted, branch, worldVars, late, dryRun, slug, faults>>

-----------------------------------------------------------------------------
\* The gate

\* ApprovalService.request(): the status first, then the record.
Request ==
  /\ LoopFree
  /\ Transition("AWAITING_APPROVAL")
  /\ gate' = "record"
  /\ UNCHANGED <<recordVars, pc, acted, branch, worldVars, late, dryRun, slug, faults>>

\* ApprovalService.decide(): a record without a decision; the status, then the record.
Decide(verdict) ==
  /\ LoopFree
  /\ approval = "open"
  /\ Transition(verdict)
  /\ gate' = verdict
  /\ UNCHANGED <<recordVars, pc, acted, branch, worldVars, late, dryRun, slug, faults>>

\* The second commit of request() and of decide().
GateCommits ==
  /\ gate # "none"
  /\ approval' = IF gate = "record" THEN "open" ELSE gate
  /\ gate' = "none"
  /\ UNCHANGED <<status, consumed, row, pc, acted, branch, worldVars, late, dryRun, slug, faults>>

Cancel ==
  /\ LoopFree
  /\ Transition("HALTED")
  /\ late' = (status = "INGESTING")
  /\ UNCHANGED <<recordVars, gate, pc, acted, branch, worldVars, dryRun, slug, faults>>

\* A cancelled ingestion fails without looking: see SessionLifecycle.
LateFailure ==
  /\ LoopFree
  /\ late
  /\ late' = FALSE
  /\ status' = "FAILED"
  /\ UNCHANGED <<recordVars, gate, pc, acted, branch, worldVars, dryRun, slug, faults>>

-----------------------------------------------------------------------------
\* PRService.open_draft_pr(), one action per stretch between two awaits

\* A guard that trusts the session's status.
AuthorizedByStatus == status = "APPROVED"

\* RemoteOperationGuard.authorize(), that is assert_approved(): the record, not the status.
Authorized == approval = "APPROVED" /\ ~consumed

\* A call the guard refuses changes nothing.
Open(c) ==
  /\ LoopFree
  /\ pc[c] = "idle"
  /\ Authorized
  /\ Goto(c, "review")
  /\ UNCHANGED <<status, recordVars, gate, acted, branch, worldVars, late, dryRun, slug, faults>>

ReviewReturns(c) ==
  /\ Turn(c)
  /\ pc[c] = "review"
  /\ Goto(c, "list")
  /\ UNCHANGED <<status, recordVars, gate, acted, branch, worldVars, late, dryRun, slug, faults>>

\* BranchNamer.build(): the first free name; with none left it raises, outside the try.
NameBranch(c, taken) ==
  LET free == Names \ taken IN
    \/ /\ free # {}
       /\ branch' = [branch EXCEPT ![c] = CHOOSE n \in free : \A m \in free : n <= m]
       /\ Goto(c, "compose")
    \/ free = {} /\ Goto(c, "raised") /\ UNCHANGED branch

\* A failed ls-remote, and a dry run, name no branch as taken.
ListReturns(c) ==
  /\ Turn(c)
  /\ pc[c] = "list"
  /\ \/ ~dryRun /\ NameBranch(c, foreign \cup pushed)
     \/ NameBranch(c, {})
  /\ UNCHANGED <<status, recordVars, gate, acted, worldVars, late, dryRun, slug, faults>>

\* _mark_failed() that reports the error and leaves the status for a retry.
MarkFailedSilently == UNCHANGED status

\* _mark_failed(): FAILED where that is legal.
MarkFailed ==
  \/ Transition("FAILED")
  \/ ~CanTransition(status, "FAILED") /\ UNCHANGED status

\* open_draft_pr() that leaves the dry run to create_draft_pr().
ComposeReturnsToGit(c) ==
  /\ Turn(c)
  /\ pc[c] = "compose"
  /\ Goto(c, "branch")
  /\ UNCHANGED <<status, recordVars, gate, acted, branch, worldVars, late, dryRun, slug, faults>>

\* A dry run ends here: its git steps only log, and so does gh once _repo_slug() has made an
\* owner and a repository of the URL; otherwise the try block's handler is reached.
ComposeReturns(c) ==
  /\ Turn(c)
  /\ pc[c] = "compose"
  /\ \/ ~dryRun /\ Goto(c, "branch") /\ UNCHANGED status
     \/ dryRun /\ slug /\ Goto(c, "returned") /\ UNCHANGED status
     \/ dryRun /\ ~slug /\ Goto(c, "raised") /\ MarkFailed
  /\ UNCHANGED <<recordVars, gate, acted, branch, worldVars, late, dryRun, slug, faults>>

\* The review or the body cannot be built: nothing was touched yet.
PreparationFails(c) ==
  /\ Turn(c)
  /\ pc[c] \in {"review", "compose"}
  /\ Goto(c, "raised")
  /\ UNCHANGED <<status, recordVars, gate, acted, branch, worldVars, late, dryRun, slug, faults>>

-----------------------------------------------------------------------------
\* What git and gh do when they succeed (external)

\* git switch -c
Switches(b) ==
  /\ b \notin local
  /\ local' = local \cup {b}
  /\ head' = b
  /\ carrying' = IF head \in carrying THEN carrying \cup {b} ELSE carrying
  /\ UNCHANGED <<tree, remoteVars>>

\* git add -A
Stages ==
  /\ tree' = IF tree = "dirty" THEN "staged" ELSE tree
  /\ UNCHANGED <<local, head, carrying, remoteVars>>

\* git commit --allow-empty
CommitsAlways ==
  /\ tree' = "committed"
  /\ carrying' = carrying \cup {head}
  /\ UNCHANGED <<local, head, remoteVars>>

\* git commit: an empty index is an error.
Commits ==
  /\ tree = "staged"
  /\ tree' = "committed"
  /\ carrying' = carrying \cup {head}
  /\ UNCHANGED <<local, head, remoteVars>>

\* git push, never forced: a foreign branch of that name rejects it.
Pushes(b) ==
  /\ b \notin foreign
  /\ pushed' = pushed \cup {b}
  /\ UNCHANGED <<cloneVars, prs>>

\* gh pr create --draft: needs a repository it can name, a pushed head ahead of the base and
\* no pull request for it.
OpensPr(b) ==
  /\ slug
  /\ b \in (pushed \cap carrying) \ prs
  /\ prs' = prs \cup {b}
  /\ UNCHANGED <<cloneVars, pushed>>

Effect(c) ==
  \/ pc[c] = "branch" /\ Switches(branch[c])
  \/ pc[c] = "stage" /\ Stages
  \/ pc[c] = "commit" /\ Commits
  \/ pc[c] = "push" /\ Pushes(branch[c])
  \/ pc[c] = "pr" /\ OpensPr(branch[c])

-----------------------------------------------------------------------------
AfterCommand ==
  [branch |-> "stage", stage |-> "commit", commit |-> "push", push |-> "pr", pr |-> "row"]

\* The process runs beside this one.
CommandActs(c) ==
  /\ pc[c] \in Commands
  /\ ~acted[c]
  /\ Effect(c)
  /\ acted' = [acted EXCEPT ![c] = TRUE]
  /\ UNCHANGED <<status, recordVars, gate, pc, branch, foreign, late, dryRun, slug, faults>>

CommandReturns(c) ==
  /\ Turn(c)
  /\ acted[c]
  /\ acted' = [acted EXCEPT ![c] = FALSE]
  /\ Goto(c, AfterCommand[pc[c]])
  /\ UNCHANGED <<status, recordVars, gate, branch, worldVars, late, dryRun, slug, faults>>

\* A command reports an error, a timeout or no readable answer, whether or not it acted.
CommandFails(c) ==
  /\ Turn(c)
  /\ pc[c] \in Commands
  /\ MarkFailed
  /\ acted' = [acted EXCEPT ![c] = FALSE]
  /\ Goto(c, "raised")
  /\ UNCHANGED <<recordVars, gate, branch, worldVars, late, dryRun, slug, faults>>

\* prs.create().  Its unique session_id is never hit: see AtMostOnePullRequest.
RecordPr(c) ==
  /\ Turn(c)
  /\ pc[c] = "row"
  /\ ~row
  /\ row' = TRUE
  /\ Goto(c, "opened")
  /\ UNCHANGED <<status, approval, consumed, gate, acted, branch, worldVars, late, dryRun, slug, faults>>

\* transition() to PR_OPENED that ignores an illegal move and goes on to consume().
MarkOpenedRegardless(c) ==
  /\ Turn(c)
  /\ pc[c] = "opened"
  /\ Transition("PR_OPENED") \/ (~CanTransition(status, "PR_OPENED") /\ UNCHANGED status)
  /\ Goto(c, "consume")
  /\ UNCHANGED <<recordVars, gate, acted, branch, worldVars, late, dryRun, slug, faults>>

\* transition() to PR_OPENED: it raises when another call's failure came first.
MarkOpened(c) ==
  /\ Turn(c)
  /\ pc[c] = "opened"
  /\ \/ Transition("PR_OPENED") /\ Goto(c, "consume")
     \/ ~CanTransition(status, "PR_OPENED") /\ Goto(c, "raised") /\ UNCHANGED status
  /\ UNCHANGED <<recordVars, gate, acted, branch, worldVars, late, dryRun, slug, faults>>

\* ApprovalService.consume() asks assert_approved() again.
Consume(c) ==
  /\ Turn(c)
  /\ pc[c] = "consume"
  /\ Authorized
  /\ consumed' = TRUE
  /\ Goto(c, "returned")
  /\ UNCHANGED <<status, approval, row, gate, acted, branch, worldVars, late, dryRun, slug, faults>>

-----------------------------------------------------------------------------
\* The world

\* Another session of the same issue pushes its branch.
OthersPush ==
  /\ \E n \in Names \ (foreign \cup pushed) : foreign' = foreign \cup {n}
  /\ UNCHANGED <<status, recordVars, gate, pc, acted, branch, cloneVars, remoteVars, late, dryRun, slug, faults>>

\* A commit fails: the stretch ends there with an exception nobody handles.
StretchFails ==
  /\ faults < MaxFaults
  /\ \/ gate # "none" /\ gate' = "none" /\ UNCHANGED pc
     \/ \E c \in Calls : pc[c] \in InStretch /\ Goto(c, "raised") /\ UNCHANGED gate
  /\ faults' = faults + 1
  /\ UNCHANGED <<status, recordVars, acted, branch, worldVars, late, dryRun, slug>>

\* A call dies at an await with an error that is neither GitDeliveryError nor GitHubError.
CallRaises(c) ==
  /\ faults < MaxFaults
  /\ Turn(c)
  /\ pc[c] \in Awaits
  /\ acted' = [acted EXCEPT ![c] = FALSE]
  /\ Goto(c, "raised")
  /\ faults' = faults + 1
  /\ UNCHANGED <<status, recordVars, gate, branch, worldVars, late, dryRun, slug>>

\* The process dies and comes back, perhaps with another setting of dry_run.
Crash ==
  /\ faults < MaxFaults
  /\ pc' = [c \in Calls |-> IF pc[c] \in Awaits \cup InStretch THEN "lost" ELSE pc[c]]
  /\ acted' = [c \in Calls |-> FALSE]
  /\ gate' = "none"
  /\ late' = FALSE
  /\ dryRun' \in BOOLEAN
  /\ faults' = faults + 1
  /\ UNCHANGED <<status, recordVars, branch, worldVars, slug>>

-----------------------------------------------------------------------------
Deliver(c) ==
  \/ Open(c) \/ ReviewReturns(c) \/ ListReturns(c) \/ ComposeReturns(c) \/ PreparationFails(c)
  \/ CommandActs(c) \/ CommandReturns(c) \/ CommandFails(c)
  \/ RecordPr(c) \/ MarkOpened(c) \/ Consume(c)

Next ==
  \/ Work \/ Request \/ Cancel \/ LateFailure \/ GateCommits
  \/ \E verdict \in Verdicts : Decide(verdict)
  \/ \E c \in Calls : Deliver(c) \/ CallRaises(c)
  \/ OthersPush \/ StretchFails \/ Crash

Spec == Init /\ [][Next]_vars
=============================================================================
