----------------------------- MODULE IngestionProps -----------------------------
(* What ingesting a repository must keep true.                             *)
EXTENDS Ingestion

\* The ceiling is checked before a clone of unknown size, by several sessions at
\* once, no workspace is ever removed, and what a restart or a run leaves behind
\* writes on: still the disk never holds more than the ceiling and one largest
\* workspace for each slot and for each run that something outlived
\* (WorkspaceManager.create).
DiskBounded == Usage < MaxBytes + (Slots + Cardinality(outlived)) * Largest

IsStep(e) == e \in ToSet(Steps)

\* Whichever step failed or was cut off by a crash, the log tells how far a
\* session came: its steps are in order, a failure ends them, and the row has
\* facts only of a session whose steps are all in the log, those of its clone.
LogTellsHowFar ==
    \A s \in Sessions :
        /\ \A i \in DOMAIN log[s] :
                IsStep(log[s][i]) => i \in DOMAIN Steps /\ log[s][i] = Steps[i]
        /\ \A i \in DOMAIN log[s] : ~IsStep(log[s][i]) => i = Len(log[s]) /\ pc[s] = "failed"
        /\ log[s] # <<>> => s \in dirs
        /\ row[s] # NoRow => log[s] = Steps /\ row[s] = Profile(repo[s], Languages)

\* A repository with a test file that is neither vendored nor ignored, or with a
\* pytest configuration, is taken for one with a suite, and its command is one the
\* sandbox runs (RepoProfiler, CommandAllowlist).
SuiteIsFound ==
    \A s \in Sessions : row[s] # NoRow =>
        /\ (repo[s].tested # {} \/ "pytest" \in repo[s].tables) => row[s].suite
        /\ row[s].suite => Valid(row[s].test)

\* test_repo_profiler.py:80 has ("poetry", "install") for a Poetry repository's
\* install_command: the command that is recorded is one the sandbox runs.
InstallIsAllowed ==
    \A s \in Sessions : row[s] # NoRow => row[s].install = <<>> \/ Valid(row[s].install)

\* "any failure is normalised to RepositoryIngestionError and recorded as
\* SESSION_FAILED before it propagates" (repo_ingestion_service.py:5).
FailureIsRecorded ==
    \A s \in Sessions : pc[s] = "failed" => log[s] # <<>> /\ ~IsStep(Last(log[s]))
=============================================================================
