------------------------------- MODULE Sandbox -------------------------------
(***************************************************************************)
(* The sandbox of one session, from SessionWorkbenchBuilder.build() to       *)
(* teardown(), and the commands that the agent's batched tool calls run in   *)
(* it at the same time.  With Docker a command is a thread that waits for an *)
(* exec in the session's container; without, it is a process group on the    *)
(* host.  Every await is a step of its own.                                *)
(***************************************************************************)
EXTENDS Naturals, FiniteSetsExt, CommandAllowlist

CONSTANTS
    Configured,     \* Settings.sandbox_backend: "docker", "subprocess" or "auto"
    Commands,       \* the commands of the run
    Argv,           \* command -> its argv
    MaxContainers,  \* as many as the daemon creates here at most
    MaxFaults       \* how many calls to the daemon may fail

ASSUME SandboxAssumption ==
    /\ Configured \in {"docker", "subprocess", "auto"}
    /\ IsFiniteSet(Commands)
    /\ MaxContainers \in Nat /\ MaxContainers >= Cardinality(Commands) + 2
    /\ MaxFaults \in Nat

VARIABLES
    backend,    \* what SandboxFactory chose, or "refused"
    phase,      \* of build() and teardown(): "setup", "starting", "install",
                \* "installing", "ready", "closing", "closed", or "raised" by build()
    current,    \* self._container
    held,       \* the container that setup() or teardown() has in hand
    throwaway,  \* the container that installs the dependencies
    box,        \* each container: "absent", "created", "running" or "removed"
    pc,         \* each command: "idle", "queued", "exec", "remove", "create",
                \* "start", "drain" or "done"
    mine,       \* the container that a command's recovery has in hand
    proc,       \* where a command's processes live: in a container, in a Group
                \* with their leader, or as Orphans without
    result,     \* "none", "ok", "timeout", "refused" or "error"
    faults,     \* calls to the daemon that failed
    overlap     \* a recovery began while another was under way

commands == <<pc, mine, result, overlap>>
vars == <<backend, phase, current, held, throwaway, box, commands, proc, faults>>

None == 0
Containers == 1..MaxContainers
Group == MaxContainers + 1
Orphans == MaxContainers + 2
Fresh == Min({b \in Containers : box[b] = "absent"})
Live(b) == box[b] \in {"created", "running"}
Recovering == {c \in Commands : pc[c] \in {"remove", "create", "start"}}

-----------------------------------------------------------------------------
(* SandboxFactory.                                                         *)

\* resolve_backend(): a configured Docker that does not answer is refused, auto
\* falls back.
Resolved(reachable) ==
    CASE Configured = "subprocess"               -> "subprocess"
      [] Configured # "subprocess" /\ reachable  -> "docker"
      [] Configured = "docker" /\ ~reachable     -> "refused"
      [] Configured = "auto" /\ ~reachable       -> "subprocess"

-----------------------------------------------------------------------------
(* The Docker daemon.                                                      *)

Becomes(b, state) == box' = [box EXCEPT ![b] = state] /\ UNCHANGED <<proc, faults>>

\* remove(force=True) ends whatever runs in the container.
Removes(b) ==
    /\ box' = [box EXCEPT ![b] = "removed"]
    /\ proc' = [c \in Commands |-> IF proc[c] = b THEN None ELSE proc[c]]
    /\ UNCHANGED faults

\* The call raises a DockerException and did nothing.
DaemonFails == faults < MaxFaults /\ faults' = faults + 1 /\ UNCHANGED <<box, proc>>

-----------------------------------------------------------------------------
(* build(): setup() and install_dependencies().                            *)

\* setup() awaits _create_container().  What setup() raises leaves build(), and
\* nobody has a sandbox to tear down.
Setup ==
    /\ phase = "setup"
    /\ \/ Becomes(Fresh, "created") /\ held' = Fresh /\ phase' = "starting"
       \/ DaemonFails /\ phase' = "raised" /\ UNCHANGED held
    /\ UNCHANGED <<backend, current, throwaway, commands>>

\* It awaits start(), and remembers the container once that has returned.
SetupStarts ==
    /\ phase = "starting"
    /\ \/ Becomes(held, "running") /\ phase' = "install" /\ current' = held
       \/ DaemonFails /\ phase' = "raised" /\ UNCHANGED current
    /\ held' = None
    /\ UNCHANGED <<backend, throwaway, commands>>

\* There is no install command, or the allowlist refuses it, which build() logs.
InstallSkipped ==
    /\ phase = "install" /\ backend = "docker"
    /\ phase' = "ready"
    /\ UNCHANGED <<backend, current, held, throwaway, box, proc, faults, commands>>

\* On the host it is run() as for any other command, whose failure is logged.
InstallOnHost ==
    /\ phase = "install" /\ backend = "subprocess"
    /\ phase' = "ready"
    /\ UNCHANGED <<backend, current, held, throwaway, box, proc, faults, commands>>

\* _run_in_throwaway_container(): containers.run() creates, then starts.
InstallStarts ==
    /\ phase = "install" /\ backend = "docker"
    /\ \/ Becomes(Fresh, "running") /\ throwaway' = Fresh /\ phase' = "installing"
       \/ /\ faults < MaxFaults /\ faults' = faults + 1
          /\ box' = [box EXCEPT ![Fresh] = "created"]
          /\ phase' = "raised"
          /\ UNCHANGED <<throwaway, proc>>
    /\ UNCHANGED <<backend, current, held, commands>>

\* The thread's finally removes the throwaway container; then the install has
\* ended, or build() has something else than a SandboxError to let through:
\* container.wait() ran into its timeout, or the daemon failed.
InstallReturns ==
    /\ phase = "installing"
    /\ \/ Removes(throwaway) /\ phase' \in {"ready", "raised"}
       \/ DaemonFails /\ phase' = "raised"
    /\ throwaway' = None
    /\ UNCHANGED <<backend, current, held, commands>>

\* wait_for() gives the thread up when its grace is over; the thread goes on.
InstallGivenUp ==
    /\ phase = "installing"
    /\ phase' = "ready"
    /\ UNCHANGED <<backend, current, held, throwaway, box, proc, faults, commands>>

\* ... and removes the container later.
InstallEndsLate ==
    /\ phase \in {"ready", "closing", "closed"} /\ throwaway # None
    /\ Removes(throwaway) \/ DaemonFails
    /\ throwaway' = None
    /\ UNCHANGED <<backend, phase, current, held, commands>>

-----------------------------------------------------------------------------
(* run().                                                                  *)

Ends(c, r) == pc' = [pc EXCEPT ![c] = "done"] /\ result' = [result EXCEPT ![c] = r]
Goes(c, label) == pc' = [pc EXCEPT ![c] = label] /\ UNCHANGED result

\* The checks of run(): a container that is just being replaced counts as no
\* setup().  Then the exec waits for a thread.
Run(c) ==
    /\ phase = "ready" /\ pc[c] = "idle" /\ backend = "docker"
    /\ CASE current = None                    -> Ends(c, "error")
         [] current # None /\ ~Valid(Argv[c]) -> Ends(c, "refused")
         [] current # None /\ Valid(Argv[c])  -> Goes(c, "queued")
    /\ UNCHANGED <<backend, phase, current, held, throwaway, box, mine, proc, faults, overlap>>

\* On the host a process is spawned in a session of its own, or could not be.
Spawn(c) ==
    /\ phase = "ready" /\ pc[c] = "idle" /\ backend = "subprocess"
    /\ \/ ~Valid(Argv[c]) /\ Ends(c, "refused") /\ UNCHANGED proc
       \/ Valid(Argv[c]) /\ Ends(c, "error") /\ UNCHANGED proc
       \/ Valid(Argv[c]) /\ Goes(c, "exec") /\ proc' = [proc EXCEPT ![c] = Group]
    /\ UNCHANGED <<backend, phase, current, held, throwaway, box, mine, faults, overlap>>

\* _exec() in its thread takes the container there is by then; none is an
\* AssertionError.
ExecStarts(c) ==
    /\ pc[c] = "queued"
    /\ IF current = None
       THEN Ends(c, "error") /\ UNCHANGED proc
       ELSE Goes(c, "exec") /\ proc' = [proc EXCEPT ![c] = current]
    /\ UNCHANGED <<backend, phase, current, held, throwaway, box, mine, faults, overlap>>

\* The exec returns: the command has ended, or its container was removed under it.
ExecReturns(c) ==
    /\ pc[c] = "exec" /\ backend = "docker"
    /\ Ends(c, IF proc[c] = None THEN "error" ELSE "ok")
    /\ proc' = [proc EXCEPT ![c] = None]
    /\ UNCHANGED <<backend, phase, current, held, throwaway, box, mine, faults, overlap>>

\* communicate() returns once nobody holds the output open.
Communicated(c) ==
    /\ pc[c] = "exec" /\ backend = "subprocess"
    /\ Ends(c, "ok")
    /\ proc' = [proc EXCEPT ![c] = None]
    /\ UNCHANGED <<backend, phase, current, held, throwaway, box, mine, faults, overlap>>

\* The daemon fails under an exec: run() raises, the process may go on.
ExecFails(c) ==
    /\ pc[c] = "exec" /\ backend = "docker"
    /\ DaemonFails
    /\ Ends(c, "error")
    /\ UNCHANGED <<backend, phase, current, held, throwaway, mine, overlap>>

\* Mistake: the command gives up, and its container stays the session's.
TimesOutInPlace(c) ==
    /\ pc[c] \in {"queued", "exec"} /\ backend = "docker"
    /\ Ends(c, "timeout")
    /\ UNCHANGED <<backend, phase, current, held, throwaway, box, mine, proc, faults, overlap>>

\* wait_for() gives up.  The recovery takes the session's container away, if
\* another has not done so before.
TimesOut(c) ==
    /\ pc[c] \in {"queued", "exec"} /\ backend = "docker"
    /\ mine' = [mine EXCEPT ![c] = current]
    /\ current' = None
    /\ Goes(c, IF current = None THEN "create" ELSE "remove")
    /\ overlap' = (overlap \/ Recovering # {})
    /\ UNCHANGED <<backend, phase, held, throwaway, box, proc, faults>>

\* It removes the container; a failure is logged.
RecoveryRemoves(c) ==
    /\ pc[c] = "remove"
    /\ Removes(mine[c]) \/ DaemonFails
    /\ mine' = [mine EXCEPT ![c] = None]
    /\ Goes(c, "create")
    /\ UNCHANGED <<backend, phase, current, held, throwaway, overlap>>

\* Mistake: every recovery lets the others go first.
RecoveryYields(c) ==
    /\ pc[c] = "create" /\ \A d \in Commands \ {c} : pc[d] \notin {"remove", "create"}
    /\ \/ Becomes(Fresh, "created") /\ mine' = [mine EXCEPT ![c] = Fresh] /\ Goes(c, "start")
       \/ DaemonFails /\ Ends(c, "error") /\ UNCHANGED mine
    /\ UNCHANGED <<backend, phase, current, held, throwaway, overlap>>

\* A fresh one is created; a failure leaves run().
RecoveryCreates(c) ==
    /\ pc[c] = "create"
    /\ \/ Becomes(Fresh, "created") /\ mine' = [mine EXCEPT ![c] = Fresh] /\ Goes(c, "start")
       \/ DaemonFails /\ Ends(c, "error") /\ UNCHANGED mine
    /\ UNCHANGED <<backend, phase, current, held, throwaway, overlap>>

\* Mistake: the fresh container is the session's whether or not it started.
RecoveryAssigns(c) ==
    /\ pc[c] = "start"
    /\ \/ Becomes(mine[c], "running") /\ Ends(c, "timeout")
       \/ DaemonFails /\ Ends(c, "error")
    /\ current' = mine[c]
    /\ mine' = [mine EXCEPT ![c] = None]
    /\ UNCHANGED <<backend, phase, held, throwaway, overlap>>

\* It is started and becomes the session's, whatever that is by now.
RecoveryStarts(c) ==
    /\ pc[c] = "start"
    /\ \/ Becomes(mine[c], "running") /\ Ends(c, "timeout") /\ current' = mine[c]
       \/ DaemonFails /\ Ends(c, "error") /\ UNCHANGED current
    /\ mine' = [mine EXCEPT ![c] = None]
    /\ UNCHANGED <<backend, phase, held, throwaway, overlap>>

\* A process whose command gave it up ends by itself.
StrayEnds(c) ==
    /\ proc[c] # None /\ pc[c] \in {"remove", "create", "start", "done"}
    /\ proc' = [proc EXCEPT ![c] = None]
    /\ UNCHANGED <<backend, phase, current, held, throwaway, box, commands, faults>>

\* On the host the leader of a group may end before its children, who keep its
\* output open.
LeaderEnds(c) ==
    /\ proc[c] = Group
    /\ proc' = [proc EXCEPT ![c] = Orphans]
    /\ UNCHANGED <<backend, phase, current, held, throwaway, box, commands, faults>>

\* wait_for(communicate()) gives up and _kill_group() kills the group of the
\* leader's pid: there is none any more when the leader was reaped.
KillGroup(c) ==
    /\ pc[c] = "exec" /\ backend = "subprocess"
    /\ proc' = [proc EXCEPT ![c] = IF @ = Group THEN None ELSE @]
    /\ Goes(c, "drain")
    /\ UNCHANGED <<backend, phase, current, held, throwaway, box, mine, faults, overlap>>

\* _drain(): the rest of the output, or none when the grace is over.
Drained(c) ==
    /\ pc[c] = "drain"
    /\ Ends(c, "timeout")
    /\ UNCHANGED <<backend, phase, current, held, throwaway, box, mine, proc, faults, overlap>>

-----------------------------------------------------------------------------
(* teardown(), once all calls of the last batch have returned.             *)

Teardown ==
    /\ phase = "ready" /\ \A c \in Commands : pc[c] \in {"idle", "done"}
    /\ held' = current
    /\ current' = None
    /\ phase' = IF current = None THEN "closed" ELSE "closing"
    /\ UNCHANGED <<backend, throwaway, box, proc, faults, commands>>

\* Mistake: the container is left to the next session's setup().
TornDownIdle ==
    /\ phase = "closing"
    /\ phase' = "closed"
    /\ held' = None
    /\ UNCHANGED <<backend, current, throwaway, box, proc, faults, commands>>

\* A failure to remove the container is logged.
TornDown ==
    /\ phase = "closing"
    /\ Removes(held) \/ DaemonFails
    /\ phase' = "closed"
    /\ held' = None
    /\ UNCHANGED <<backend, current, throwaway, commands>>

Init ==
    /\ \E reachable \in BOOLEAN : backend = Resolved(reachable)
    /\ phase = CASE backend = "docker" -> "setup"
                 [] backend = "subprocess" -> "install"
                 [] backend = "refused" -> "raised"
    /\ current = None /\ held = None /\ throwaway = None
    /\ box = [b \in Containers |-> "absent"]
    /\ pc = [c \in Commands |-> "idle"]
    /\ mine = [c \in Commands |-> None]
    /\ proc = [c \in Commands |-> None]
    /\ result = [c \in Commands |-> "none"]
    /\ faults = 0
    /\ overlap = FALSE

Build == \/ Setup \/ SetupStarts
         \/ InstallSkipped \/ InstallOnHost \/ InstallStarts \/ InstallReturns
         \/ InstallGivenUp \/ InstallEndsLate

\* What run() does once it was called.
Proceed(c) ==
    \/ ExecStarts(c) \/ ExecReturns(c) \/ ExecFails(c) \/ Communicated(c)
    \/ TimesOut(c) \/ RecoveryRemoves(c) \/ RecoveryCreates(c) \/ RecoveryStarts(c)
    \/ KillGroup(c) \/ Drained(c)

Next ==
    \/ Build
    \/ \E c \in Commands : Run(c) \/ Spawn(c) \/ Proceed(c) \/ StrayEnds(c) \/ LeaderEnds(c)
    \/ Teardown \/ TornDown

\* The client of the daemon and every command have timeouts.  A process that
\* nobody waits for owes us nothing.
Fairness ==
    /\ WF_vars(Build) /\ WF_vars(Teardown) /\ WF_vars(TornDown)
    /\ \A c \in Commands : WF_vars(Proceed(c))

Spec == Init /\ [][Next]_vars /\ Fairness
=============================================================================
