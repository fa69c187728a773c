----------------------------- MODULE SandboxProps -----------------------------
(* What a session's sandbox must keep true.                                *)
EXTENDS Sandbox

\* The types of the sandbox's fields and of the locals of its coroutines.
TypeOK ==
    /\ backend \in {"docker", "subprocess", "refused"}
    /\ phase \in {"setup", "starting", "install", "installing", "ready", "closing",
                  "closed", "raised"}
    /\ current \in {None} \cup Containers /\ held \in {None} \cup Containers
    /\ box \in [Containers -> {"absent", "created", "running", "removed"}]
    /\ pc \in [Commands -> {"idle", "queued", "exec", "remove", "create", "start",
                            "drain", "done"}]
    /\ mine \in [Commands -> {None} \cup Containers]
    /\ throwaway \in {None} \cup Containers
    /\ proc \in [Commands -> {None, Group, Orphans} \cup Containers]
    /\ result \in [Commands -> {"none", "ok", "timeout", "refused", "error"}]
    /\ faults \in 0..MaxFaults /\ overlap \in BOOLEAN
    /\ \A c \in Commands : (pc[c] = "done") <=> (result[c] # "none")

\* However recoveries overlap, the container that the session's next command is
\* sent to runs, and nobody is about to remove it (_recover_after_timeout).
CurrentRuns ==
    current # None =>
        /\ box[current] = "running"
        /\ current \notin {held, throwaway}
        /\ \A c \in Commands : mine[c] # current

\* With no failing call to the daemon and no two recoveries at once, a session
\* that was torn down has left no container behind but the one that a late
\* install is still about to remove.
NothingLeftBehind ==
    (phase = "closed" /\ faults = 0 /\ ~overlap) =>
        \A b \in Containers : Live(b) => b = throwaway

\* Every container is accounted for, in use or gone, and every command has its answer.
ContainersAccounted == TypeOK /\ NothingLeftBehind

\* What a timed-out command left running is gone by the time the agent is told of
\* the timeout, or another recovery is about to remove its container: as long as the
\* daemon did not fail and no two recoveries met, it does not go on writing beside the
\* next command.
StraysAreDoomed ==
    \A c \in Commands :
        (backend = "docker" /\ result[c] = "timeout" /\ faults = 0 /\ ~overlap) =>
            \/ proc[c] = None
            \/ \E d \in Commands : pc[d] = "remove" /\ mine[d] = proc[c]

\* Every command that was started returns to the agent, with a result or an error.
EveryCommandReturns ==
    \A c \in Commands : (pc[c] # "idle") ~> (pc[c] = "done")

\* "A timed-out exec_run leaves its process alive in the container; kill the container"
\* (docker_sandbox.py:227), whatever other recoveries are under way.
TimeoutKills ==
    \A c \in Commands :
        (backend = "docker" /\ result[c] = "timeout" /\ faults = 0) =>
            \/ proc[c] = None
            \/ \E d \in Commands : pc[d] = "remove" /\ mine[d] = proc[c]

\* "removed with force=True in teardown() (including on the failure path, so a
\* crashed run never leaks a container)" (docker_sandbox.py:3): when the session is
\* over, no container of it is left.
NoContainerLeaks ==
    phase \in {"closed", "raised"} => \A b \in Containers : Live(b) => b = throwaway

\* "a process-group SIGKILL on timeout so a test runner that forked children cannot
\* orphan them onto the workspace" (subprocess_sandbox.py:13): a command that timed
\* out has no process left.
ChildrenDie ==
    \A c \in Commands :
        (backend = "subprocess" /\ result[c] = "timeout") => proc[c] = None
=============================================================================
