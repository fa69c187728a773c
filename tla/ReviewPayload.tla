--------------------------- MODULE ReviewPayload ---------------------------
(***************************************************************************)
(* What a human is shown before the decision (ApprovalRequestBuilder,      *)
(* DiffService), what the pull request is written from, and what delivery  *)
(* then commits (GitService).  All of them look at one clone through git:  *)
(* the run's check for an empty diff, every GET of the payload, every      *)
(* delivery.                                                               *)
(*                                                                         *)
(* A payload is built over several awaits: the rows are read at once, then *)
(* come a diff for the model that writes the summary, the model, the diff, *)
(* and numstat twice.  An await is one action, taken when it returns.      *)
(* Contents of a file are versions; version 0 is its absence, version 1 of *)
(* a file of the base commit what that commit has.  The agent's run is     *)
(* reduced to its edits, its use of git and its test runs (AgentLoop,      *)
(* SelfCorrection), the gate to its verdict (ApprovalDelivery).            *)
(***************************************************************************)
EXTENDS Naturals, Sequences, SequencesExt, FiniteSets

CONSTANTS
  Files,        \* paths, numbered in the order git lists them
  Base,         \* those the base commit has
  TestFiles,    \* those _is_test_path() recognises
  Artefacts,    \* files a test run writes: caches, reports, recorded snapshots
  GitFiles,     \* bound: files the agent names to git
  Ignored,      \* those .gitignore matches when a delivery stages
  Contents,     \* bound: the versions each file may have
  MaxRuns,      \* bound: test runs of the session (Settings.max_fix_attempts)
  MaxShown,     \* files that fit into MAX_DIFF_CHARS
  Gets,         \* GET /sessions/{id}/approval-request, each made at most once
  Deliveries,   \* open_draft_pr(), each made at most once
  MaxFaults     \* bound: crashes and git commands that fail

ASSUME ConstantsAssumption ==
  /\ Files \subseteq Nat /\ IsFiniteSet(Files)
  /\ Base \cup TestFiles \cup Artefacts \cup GitFiles \cup Ignored \subseteq Files
  /\ Contents \in [Files -> SUBSET Nat]
  /\ MaxRuns \in Nat \ {0} /\ MaxShown \in Nat
  /\ Gets \cap Deliveries = {} /\ "none" \notin Gets \cup Deliveries
  /\ MaxFaults \in Nat

Builds == Gets \cup Deliveries

VARIABLES
  status,    \* sessions.status
  suite,     \* sessions.has_test_suite
  approved,  \* approvals.decision is APPROVED
  runs,      \* test_runs of the attempts: green or not
  work,      \* the working tree
  index,     \* what is staged
  commit,    \* the tree of HEAD
  branched,  \* a delivery has made its feature branch in the clone
  foreign,   \* another session has pushed a branch of that name
  own,       \* history: the index as the agent left it
  tested,    \* history: the working tree of the last test run
  pc,        \* where each build or delivery is suspended
  payload,   \* what each has gathered
  seen,      \* history: the GET that answered last
  signed,    \* history: `seen` at the human's approval
  body,      \* history: the delivery whose pull request was opened
  faults

rowVars   == <<status, suite, approved, runs>>
cloneVars == <<work, index, commit, branched>>
history   == <<own, tested, seen, signed, body>>
vars == <<rowVars, cloneVars, foreign, history, pc, payload, faults>>

None == "none"
Tree == [Files -> Nat]
BaseTree == [f \in Files |-> IF f \in Base THEN 1 ELSE 0]

-----------------------------------------------------------------------------
\* git diff (external): the working tree against the index, for files the index has.
Tracked == {f \in Files : index[f] # 0}
Changed == {f \in Tracked : work[f] # index[f]}
GitDiff == [f \in Changed |-> work[f]]

\* DiffService.unified_diff(): the first MAX_DIFF_CHARS, and a marker if that is not all.
Shown(diff) ==
  [hunks |-> [f \in {g \in DOMAIN diff : Cardinality({h \in DOMAIN diff : h < g}) < MaxShown}
                |-> diff[f]],
   truncated |-> Cardinality(DOMAIN diff) > MaxShown]

\* Mistake: _test_evidence() that shows the first attempt for the last.
EvidenceOfFirst ==
  [final |-> IF runs = <<>> THEN None ELSE IF Head(runs) THEN "green" ELSE "red",
   unverified |-> ~suite]

\* ApprovalRequestBuilder._test_evidence()
Evidence ==
  [final |-> IF runs = <<>> THEN None ELSE IF Last(runs) THEN "green" ELSE "red",
   unverified |-> ~suite]

\* ApprovalRequestBuilder._warnings(); those about the sandbox's backend and the cost, which
\* repeat a column of the row, are left out.
Warnings(p) ==
  {w \in {"unverified", "tests_only"} :
     \/ w = "unverified" /\ p.evidence.unverified
     \/ w = "tests_only" /\ (p.hunks # <<>> \/ p.truncated) /\ p.testsOnly}

NoDiff == [hunks |-> <<>>, truncated |-> FALSE]

\* `basis` is the diff the summary is written from, `blind` that reading it failed.
Empty == [evidence |-> [final |-> None, unverified |-> FALSE],
          basis |-> NoDiff, blind |-> FALSE,
          hunks |-> <<>>, truncated |-> FALSE, stats |-> {}, testsOnly |-> FALSE,
          misread |-> FALSE]

Init ==
  /\ status = "EDITING"
  /\ suite \in BOOLEAN
  /\ approved = FALSE
  /\ runs = <<>>
  /\ work = BaseTree /\ index = BaseTree /\ commit = BaseTree
  /\ branched = FALSE /\ foreign = FALSE
  /\ own = BaseTree /\ tested = BaseTree
  /\ pc = [b \in Builds |-> "idle"]
  /\ payload = [b \in Builds |-> Empty]
  /\ seen = None /\ signed = None /\ body = None
  /\ faults = 0

-----------------------------------------------------------------------------
\* The run

\* A tool or a command of an EDITING phase changes, creates, deletes or reverts a file.
Edit ==
  /\ status = "EDITING"
  /\ \E f \in Files : \E v \in Contents[f] :
       work[f] # v /\ work' = [work EXCEPT ![f] = v]
  /\ UNCHANGED <<rowVars, index, commit, branched, foreign, history, pc, payload, faults>>

\* run_command lets the agent run git: add, rm --cached or reset of a file, and commit.
AgentGit ==
  /\ status = "EDITING"
  /\ \/ /\ \E f \in GitFiles : \E v \in {work[f], 0, commit[f]} : index' = [index EXCEPT ![f] = v]
        /\ UNCHANGED commit
     \/ index # commit /\ commit' = index /\ UNCHANGED index
  /\ own' = index'
  /\ UNCHANGED <<rowVars, work, branched, foreign, tested, seen, signed, body, pc, payload, faults>>

\* The phase ends.  The first one must have changed what `git diff` shows.
EditingEnds ==
  /\ status = "EDITING"
  /\ status' = IF runs = <<>> /\ Changed = {} THEN "FAILED" ELSE "TESTING"
  /\ UNCHANGED <<suite, approved, runs, cloneVars, foreign, history, pc, payload, faults>>

SkipTests ==
  /\ status = "TESTING" /\ ~suite
  /\ status' = "SUMMARIZING"
  /\ UNCHANGED <<suite, approved, runs, cloneVars, foreign, history, pc, payload, faults>>

\* A test run, the verdict on it, and the files it writes to the tree.
Test ==
  /\ status = "TESTING" /\ suite
  /\ \E green \in BOOLEAN :
       /\ runs' = Append(runs, green)
       /\ status' = IF green THEN "SUMMARIZING"
                    ELSE IF Len(runs') < MaxRuns THEN "EDITING" ELSE "EXHAUSTED"
  /\ tested' = work
  /\ \E left \in [Artefacts -> UNION Range(Contents)] :
       /\ \A f \in Artefacts : left[f] \in Contents[f]
       /\ work' = [f \in Files |-> IF f \in Artefacts THEN left[f] ELSE work[f]]
  /\ UNCHANGED <<suite, approved, index, commit, branched, foreign, own, seen, signed, body,
                 pc, payload, faults>>

-----------------------------------------------------------------------------
\* The gate

Request ==
  /\ status = "SUMMARIZING"
  /\ status' = "AWAITING_APPROVAL"
  /\ UNCHANGED <<suite, approved, runs, cloneVars, foreign, history, pc, payload, faults>>

\* The human decides on the payload that came last, or on none.
Decide ==
  /\ status = "AWAITING_APPROVAL"
  /\ \/ status' = "APPROVED" /\ approved' = TRUE /\ signed' = seen
     \/ status' = "REJECTED" /\ UNCHANGED <<approved, signed>>
  /\ UNCHANGED <<suite, runs, cloneVars, foreign, own, tested, seen, body, pc, payload, faults>>

-----------------------------------------------------------------------------
\* ApprovalRequestBuilder.build()

Goto(b, next) == pc' = [pc EXCEPT ![b] = next]

\* What a build had gathered dies with it.
Forget(b) == payload' = [payload EXCEPT ![b] = Empty]

\* The session's row and the test runs are read before the first await.
ReadRows(b) ==
  /\ pc[b] = "idle"
  /\ payload' = [payload EXCEPT ![b].evidence = Evidence]
  /\ Goto(b, "summary")
  /\ UNCHANGED <<rowVars, cloneVars, foreign, history, faults>>

\* SessionService.approval_request(): 409 unless the session waits for a decision.
Get(b) == status = "AWAITING_APPROVAL" /\ ReadRows(b)

\* PRService.open_draft_pr(): authorised by the record, so also when a delivery has failed.
Deliver(b) == approved /\ body = None /\ ReadRows(b)

\* A git command's output: DiffService looks at no exit code, and a command that failed or
\* timed out printed nothing.
Reads(b, awaited, next) ==
  /\ pc[b] = awaited
  /\ Goto(b, next)
  /\ UNCHANGED <<rowVars, cloneVars, foreign, own, tested, signed, body>>

Honestly(b, p) == payload' = [payload EXCEPT ![b] = p] /\ UNCHANGED faults
Misread(b, p) ==
  /\ faults < MaxFaults
  /\ faults' = faults + 1
  /\ payload' = [payload EXCEPT ![b] = p]

\* summarize() reads a diff of its own for the prompt.
BasisReturns(b) ==
  /\ Reads(b, "summary", "model")
  /\ \/ Honestly(b, [payload[b] EXCEPT !.basis = Shown(GitDiff)])
     \/ Misread(b, [payload[b] EXCEPT !.blind = TRUE])
  /\ UNCHANGED seen

\* The model's answer: without the two sections summarize() asks for it is an error.
SummaryReturns(b) ==
  /\ \/ Reads(b, "model", "diff") /\ UNCHANGED payload
     \/ Reads(b, "model", "raised") /\ Forget(b)
  /\ UNCHANGED <<seen, faults>>

DiffReturns(b) ==
  LET cut == Shown(GitDiff) IN
    /\ Reads(b, "diff", "stats")
    /\ \/ Honestly(b, [payload[b] EXCEPT !.hunks = cut.hunks, !.truncated = cut.truncated])
       \/ Misread(b, [payload[b] EXCEPT !.misread = TRUE])
    /\ UNCHANGED seen

StatsReturn(b) ==
  /\ Reads(b, "stats", "tests")
  /\ Honestly(b, [payload[b] EXCEPT !.stats = Changed]) \/ Misread(b, [payload[b] EXCEPT !.misread = TRUE])
  /\ UNCHANGED seen

\* Mistake: touches_only_tests() on the files the capped diff shows.
TestsOnlyShown(changed) ==
  LET shown == {f \in changed : Cardinality({g \in changed : g < f}) < MaxShown} IN
    shown # {} /\ shown \subseteq TestFiles

\* DiffService.touches_only_tests()
TestsOnly(changed) == changed # {} /\ changed \subseteq TestFiles

\* The last await: a GET answers, a delivery goes on.
TestsOnlyReturns(b) ==
  /\ Reads(b, "tests", IF b \in Gets THEN "answered" ELSE "compose")
  /\ \/ Honestly(b, [payload[b] EXCEPT !.testsOnly = TestsOnly(Changed)])
     \/ Misread(b, [payload[b] EXCEPT !.misread = TRUE])
  /\ seen' = IF b \in Gets THEN b ELSE seen

-----------------------------------------------------------------------------
\* The rest of a delivery

\* What the body of a pull request is written from.
Written(p) == [Empty EXCEPT !.evidence = p.evidence, !.basis = p.basis, !.blind = p.blind]

\* list_remote_branches(), and compose(), which writes the body from the summary and the
\* evidence and may refuse the model's answer; then the payload has served.
ComposeReturns(b) ==
  /\ pc[b] = "compose"
  /\ \/ /\ Goto(b, "branch")
        /\ payload' = [payload EXCEPT ![b] = Written(@)]
     \/ Goto(b, "raised") /\ Forget(b)
  /\ UNCHANGED <<rowVars, cloneVars, foreign, history, faults>>

\* Mistake: git switch -C
BranchesAgain(b) ==
  /\ pc[b] = "branch"
  /\ branched' = TRUE
  /\ Goto(b, "stage")
  /\ UNCHANGED <<rowVars, work, index, commit, foreign, history, payload, faults>>

\* git switch -c, under the first name the remote does not have: the name of a branch that
\* is in the clone already, unless the remote has got one of that name.  (It has when a
\* delivery pushed its own, too, but then nothing is left to commit.)
Branches(b) ==
  /\ pc[b] = "branch"
  /\ branched => foreign
  /\ branched' = TRUE
  /\ Goto(b, "stage")
  /\ UNCHANGED <<rowVars, work, index, commit, foreign, history, payload, faults>>

\* git add -A (external): every file but those that are ignored and not in the index.
AddAll(staged) == [f \in Files |-> IF f \in Ignored /\ staged[f] = 0 THEN 0 ELSE work[f]]

Stages(b) ==
  /\ pc[b] = "stage"
  /\ index' = AddAll(index)
  /\ Goto(b, "commit")
  /\ UNCHANGED <<rowVars, work, commit, branched, foreign, history, payload, faults>>

Commits(b) ==
  /\ pc[b] = "commit"
  /\ index # commit
  /\ commit' = index
  /\ Goto(b, "push")
  /\ UNCHANGED <<rowVars, work, index, branched, foreign, history, payload, faults>>

\* The push, the pull request and what is recorded of it.
Opens(b) ==
  /\ pc[b] = "push"
  /\ body' = b
  /\ status' = IF status = "APPROVED" THEN "PR_OPENED" ELSE status
  /\ Goto(b, "opened")
  /\ UNCHANGED <<suite, approved, runs, cloneVars, foreign, own, tested, seen, signed, payload, faults>>

\* A command fails, as it must where the actions above are not enabled: _mark_failed().
CommandFails(b) ==
  /\ pc[b] \in {"branch", "stage", "commit", "push"}
  /\ status' = IF status = "APPROVED" THEN "FAILED" ELSE status
  /\ Goto(b, "raised")
  /\ Forget(b)
  /\ UNCHANGED <<suite, approved, runs, cloneVars, foreign, history, faults>>

\* The process dies; while the agent runs that is the end of the session.
Crash ==
  /\ faults < MaxFaults
  /\ status \notin {"EDITING", "TESTING"}
  /\ LET resting == {b \in Builds : pc[b] \in {"idle", "answered", "opened", "raised"}} IN
       /\ pc' = [b \in Builds |-> IF b \in resting THEN pc[b] ELSE "raised"]
       /\ payload' = [b \in Builds |-> IF b \in resting THEN payload[b] ELSE Empty]
  /\ faults' = faults + 1
  /\ UNCHANGED <<rowVars, cloneVars, foreign, history>>

\* Another session of the same issue delivers.
OthersPush ==
  /\ approved /\ ~foreign
  /\ foreign' = TRUE
  /\ UNCHANGED <<rowVars, cloneVars, history, pc, payload, faults>>

-----------------------------------------------------------------------------
Build(b) ==
  BasisReturns(b) \/ SummaryReturns(b) \/ DiffReturns(b) \/ StatsReturn(b) \/ TestsOnlyReturns(b)

Next ==
  \/ Edit \/ AgentGit \/ EditingEnds \/ SkipTests \/ Test \/ Request \/ Decide
  \/ \E b \in Gets : Get(b)
  \/ \E b \in Builds : Build(b)
  \/ \E b \in Deliveries :
       \/ Deliver(b) \/ ComposeReturns(b) \/ Branches(b) \/ Stages(b) \/ Commits(b)
       \/ Opens(b) \/ CommandFails(b)
  \/ OthersPush \/ Crash

Spec == Init /\ [][Next]_vars
=============================================================================
