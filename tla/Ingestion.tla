------------------------------- MODULE Ingestion -------------------------------
(***************************************************************************)
(* RepoIngestionService.ingest() of several sessions at once, the workspaces *)
(* they share one disk ceiling for, and what the rest of each run does to    *)
(* its workspace's size.  Every await and every commit is a step of its own. *)
(*                                                                         *)
(* A repository is what RepoProfiler reads of it, with: size, and whether it  *)
(* has commits, an origin/HEAD and a checked-out branch.                    *)
(***************************************************************************)
EXTENDS RepoProfiler, SequencesExt

CONSTANTS
    Sessions,       \* sessions that are launched
    FromIssue,      \* those of them that were created from an issue number
    Repos,          \* the repositories they may be about
    Languages,      \* the source languages, sorted
    Slots,          \* MAX_CONCURRENT_SESSIONS
    MaxBytes,       \* WORKSPACE_MAX_BYTES
    Largest,        \* a workspace grows to this size at most
    MaxFaults       \* how many commits fail, and restarts happen, at most

ASSUME IngestionAssumption ==
    /\ Slots \in Nat \ {0} /\ MaxBytes \in Nat \ {0} /\ Largest \in Nat \ {0}
    /\ FromIssue \subseteq Sessions /\ MaxFaults \in Nat
    /\ \A r \in Repos : r.size \in 0..Largest

VARIABLES
    repo,       \* session -> its repository
    pc,         \* session -> where its run is
    size,       \* session -> bytes of its workspace, which exists if it is in `dirs`
    dirs,
    log,        \* session -> its INGESTION_STEP and SESSION_FAILED events
    row,        \* session -> what record_ingestion() wrote, or NoRow
    outlived,   \* sessions whose run left a process or a container that still writes
    faults

vars == <<repo, pc, size, dirs, log, row, outlived, faults>>

NoRow == [suite |-> "unknown"]
Steps == <<"workspace_created", "cloned", "issue_resolved", "profiled", "indexed">>
Ended == {"failed", "crashed", "forgotten", "over"}
Queued == {s \in Sessions : pc[s] = "queued"}
Active == {s \in Sessions : pc[s] \notin {"new", "queued"} \cup Ended}
Usage == MapThenSumSet(LAMBDA s : size[s], dirs)

Goes(s, label) == pc' = [pc EXCEPT ![s] = label]
Fault == faults < MaxFaults /\ faults' = faults + 1

\* _emit() appends and commits, and the run goes on; or the commit fails, and an
\* exception that nobody here knows leaves the run.
Emit(s, step, label) ==
    \/ log' = [log EXCEPT ![s] = Append(@, step)] /\ Goes(s, label) /\ UNCHANGED faults
    \/ Fault /\ Goes(s, "crashed") /\ UNCHANGED log

\* ingest() appends SESSION_FAILED for a RepositoryIngestionError and lets it go on
\* to the orchestrator.
Fails(s, why) == Emit(s, why, "failed")

-----------------------------------------------------------------------------
(* WorkspaceManager.                                                       *)

\* Mistake: the ceiling is compared with the largest workspace, not with their sum.
CreateUnmetered(s) ==
    /\ pc[s] = "create"
    /\ IF size[s] >= MaxBytes \/ s \in dirs
       THEN Goes(s, "failed") /\ UNCHANGED dirs
       ELSE dirs' = dirs \cup {s} /\ Goes(s, "created")
    /\ UNCHANGED <<repo, size, log, row, outlived, faults>>

\* create() raises a WorkspaceError, which ingest() does not catch, or makes the
\* directory.
Create(s) ==
    /\ pc[s] = "create"
    /\ IF Usage >= MaxBytes \/ s \in dirs
       THEN Goes(s, "failed") /\ UNCHANGED dirs
       ELSE dirs' = dirs \cup {s} /\ Goes(s, "created")
    /\ UNCHANGED <<repo, size, log, row, outlived, faults>>

\* A run with a slot adds to its workspace: the clone, then the installed
\* dependencies, edits and test artefacts.
Grow(s) ==
    /\ pc[s] \in {"clone", "working"}
    /\ size[s] < (IF pc[s] = "clone" THEN repo[s].size ELSE Largest)
    /\ size' = [size EXCEPT ![s] = @ + 1]
    /\ UNCHANGED <<repo, pc, dirs, log, row, outlived, faults>>

\* What a run left behind goes on: a command of it writes more, or a clone fails and
\* cleans up.
WriteOn(s) ==
    /\ s \in outlived
    /\ \E bytes \in {0, size[s] + 1} : bytes <= Largest /\ size' = [size EXCEPT ![s] = bytes]
    /\ UNCHANGED <<repo, pc, dirs, log, row, outlived, faults>>

-----------------------------------------------------------------------------
(* SessionRunner.launch() and ingest().                                    *)

\* POST /sessions hands launch() to the event loop, where it awaits the semaphore.
Post(s) ==
    /\ pc[s] = "new"
    /\ Goes(s, "queued")
    /\ UNCHANGED <<repo, size, dirs, log, row, outlived, faults>>

Launch(s) ==
    /\ pc[s] = "queued" /\ Cardinality(Active) < Slots
    /\ Goes(s, "create")
    /\ UNCHANGED <<repo, size, dirs, log, row, outlived, faults>>

Created(s) ==
    /\ pc[s] = "created"
    /\ Emit(s, "workspace_created", "clone")
    /\ UNCHANGED <<repo, size, dirs, row, outlived>>

\* _classify_clone_failure(): the first that fits of what git's output has in it.
Classified(output) ==
    IF "timed out" \in output THEN "timed out"
    ELSE IF output \cap {"authentication failed", "terminal prompts disabled"} # {} THEN "private"
    ELSE IF "not found" \in output THEN "not found"
    ELSE IF output \cap {"could not resolve host", "unable to access"} # {} THEN "unreachable"
    ELSE "failed"

\* git clone ends; one that was not killed has cleaned up behind its failure.
CloneReturns(s) ==
    /\ pc[s] = "clone"
    /\ \/ size[s] = repo[s].size /\ Goes(s, "sha") /\ UNCHANGED <<size, log, faults>>
       \/ /\ size' = [size EXCEPT ![s] = 0]
          /\ \E output \in {{"not found", "authentication failed"}, {"unable to access"}} :
                Fails(s, Classified(output))
       \/ Fails(s, Classified({"timed out"})) /\ UNCHANGED size
    /\ UNCHANGED <<repo, dirs, row, outlived>>

\* base_commit_sha().
ShaReturns(s) ==
    /\ pc[s] = "sha"
    /\ \/ repo[s].commits /\ Goes(s, "branch") /\ UNCHANGED <<log, faults>>
       \/ Fails(s, "empty")
    /\ UNCHANGED <<repo, size, dirs, row, outlived>>

\* default_branch() asks for origin/HEAD, then for what is checked out.
SymrefReturns(s) ==
    /\ pc[s] = "branch"
    /\ \/ repo[s].origin /\ Emit(s, "cloned", "issue")
       \/ Goes(s, "head") /\ UNCHANGED <<log, faults>>
    /\ UNCHANGED <<repo, size, dirs, row, outlived>>

HeadReturns(s) ==
    /\ pc[s] = "head"
    /\ \/ repo[s].branch /\ Emit(s, "cloned", "issue")
       \/ Fails(s, "no branch")
    /\ UNCHANGED <<repo, size, dirs, row, outlived>>

\* _resolve_issue(): no number needs no call; a GitHubError becomes an ingestion
\* error.
IssueResolved(s) ==
    /\ pc[s] = "issue"
    /\ \/ Emit(s, "issue_resolved", "profile")
       \/ s \in FromIssue /\ Fails(s, "no issue")
    /\ UNCHANGED <<repo, size, dirs, row, outlived>>

Profiled(s) ==
    /\ pc[s] = "profile"
    /\ Emit(s, "profiled", "index")
    /\ UNCHANGED <<repo, size, dirs, row, outlived>>

\* Mistake: the row is written as soon as the profile is there.
RecordedEarly(s) ==
    /\ pc[s] = "index"
    /\ row' = [row EXCEPT ![s] = Profile(repo[s], Languages)]
    /\ Emit(s, "indexed", "working")
    /\ UNCHANGED <<repo, size, dirs, outlived>>

\* The tree, the symbols and the brief, then the event.
Indexed(s) ==
    /\ pc[s] = "index"
    /\ Emit(s, "indexed", "record")
    /\ UNCHANGED <<repo, size, dirs, row, outlived>>

\* record_ingestion(), and the run goes on to its other phases.
Recorded(s) ==
    /\ pc[s] = "record"
    /\ \/ row' = [row EXCEPT ![s] = Profile(repo[s], Languages)] /\ Goes(s, "working")
          /\ UNCHANGED faults
       \/ Fault /\ Goes(s, "crashed") /\ UNCHANGED row
    /\ UNCHANGED <<repo, size, dirs, log, outlived>>

\* The run ends, however; nothing removes its workspace, and a background process of a
\* command or a container that was not removed may go on in it.
Over(s) ==
    /\ pc[s] = "working"
    /\ Goes(s, "over")
    /\ \E rest \in SUBSET {s} : outlived' = outlived \cup rest
    /\ UNCHANGED <<repo, size, dirs, log, row, faults>>

\* The process dies and starts again: no run is taken up, no queued session is
\* launched, no workspace removed.  Commands are sessions of their own and outlive it.
Restart ==
    /\ Active \cup Queued # {} /\ Fault
    /\ pc' = [s \in Sessions |-> IF s \in Active THEN "crashed"
                                 ELSE IF s \in Queued THEN "forgotten" ELSE pc[s]]
    /\ outlived' = outlived \cup {s \in Active : pc[s] \in {"clone", "working"}}
    /\ UNCHANGED <<repo, size, dirs, log, row>>

Init ==
    /\ repo \in [Sessions -> Repos]
    /\ pc = [s \in Sessions |-> "new"]
    /\ size = [s \in Sessions |-> 0]
    /\ dirs = {}
    /\ log = [s \in Sessions |-> <<>>]
    /\ row = [s \in Sessions |-> NoRow]
    /\ outlived = {}
    /\ faults = 0

Ingest(s) ==
    \/ Create(s) \/ Created(s) \/ CloneReturns(s) \/ ShaReturns(s) \/ SymrefReturns(s)
    \/ HeadReturns(s) \/ IssueResolved(s) \/ Profiled(s) \/ Indexed(s) \/ Recorded(s)

Next ==
    \/ \E s \in Sessions : Post(s) \/ Launch(s) \/ Ingest(s) \/ Grow(s) \/ Over(s) \/ WriteOn(s)
    \/ Restart

Spec == Init /\ [][Next]_vars
=============================================================================
