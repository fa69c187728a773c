--------------------------- MODULE Sandbox_proofs ---------------------------
(***************************************************************************)
(* Theorems about Sandbox for any number of commands, of containers and of *)
(* failing calls to the daemon, and for each backend.                      *)
(*                                                                         *)
(* Every container that a coroutine or the session has in its hands is     *)
(* live and in no other hands (HandsInv): the session's is given up before *)
(* it is removed, and a new one is nobody's.  Without a failing call and   *)
(* without two recoveries at once no live container is in nobody's hands   *)
(* (LeakInv), and a process runs in the session's container or in one that *)
(* is about to be removed (StrayInv).                                      *)
(***************************************************************************)
EXTENDS SandboxProps, FiniteSetTheorems, WellFoundedInduction, TLAPS

\* Whatever is in somebody's hands is live and in nobody else's.
HandsInv ==
  /\ current # None => /\ box[current] = "running"
                       /\ current \notin {held, throwaway}
                       /\ \A c \in Commands : mine[c] # current
  /\ held # None => /\ Live(held) /\ held # throwaway
                    /\ \A c \in Commands : mine[c] # held
  /\ throwaway # None => /\ Live(throwaway)
                         /\ \A c \in Commands : mine[c] # throwaway
  /\ \A c \in Commands : mine[c] # None =>
       /\ Live(mine[c])
       /\ \A d \in Commands : mine[d] = mine[c] => d = c

\* What goes with each point of build(), run() and teardown().
StageInv ==
  /\ (held # None) <=> (phase \in {"starting", "closing"})
  /\ phase \in {"setup", "starting", "closing", "closed"} => current = None
  /\ phase \in {"setup", "starting", "install"} => throwaway = None
  /\ phase = "installing" => throwaway # None
  /\ phase # "ready" => \A c \in Commands : pc[c] \in {"idle", "done"}
  /\ \A c \in Commands :
       /\ (mine[c] # None) <=> (pc[c] \in {"remove", "start"})
       /\ pc[c] \in {"idle", "queued"} => proc[c] = None
       /\ backend = "docker" => pc[c] # "drain" /\ proc[c] \in {None} \cup Containers

\* A live container is in somebody's hands, and a recovery is alone and has taken the
\* session's container away.
LeakInv ==
  faults = 0 /\ ~overlap =>
    /\ \A b \in Containers : Live(b) =>
         b \in {current, held, throwaway} \/ \E c \in Commands : mine[c] = b
    /\ \A c \in Recovering : current = None /\ \A d \in Recovering : d = c

\* Some recovery is about to remove the container in which c's process runs.
Doomed(c) == \E d \in Commands : pc[d] = "remove" /\ mine[d] = proc[c]

StrayInv ==
  backend = "docker" /\ faults = 0 /\ ~overlap =>
    \A c \in Commands :
      /\ pc[c] = "exec" => proc[c] \in {None, current} \/ Doomed(c)
      /\ c \in Recovering \/ result[c] = "timeout" => proc[c] = None \/ Doomed(c)

\* The containers there have been: one for setup(), one for the install and one for each
\* recovery.
Used == {b \in Containers : box[b] # "absent"}
Creators == {c \in Commands : pc[c] \in {"start", "done"}}
BuildBoxes == IF phase = "setup" THEN 0
              ELSE IF phase \in {"starting", "install"} THEN 1 ELSE 2
CountInv == Cardinality(Used) <= BuildBoxes + Cardinality(Creators)

IInv == TypeOK /\ HandsInv /\ StageInv /\ LeakInv /\ StrayInv /\ CountInv

-----------------------------------------------------------------------------
\* Counting containers.

\* The sets of containers and commands that are counted are finite; the daemon's limit leaves one
\* container to every command, the session's and the throwaway one.
LEMMA CountsTyped ==
  /\ IsFiniteSet(Commands) /\ Cardinality(Commands) \in Nat
  /\ IsFiniteSet(Containers) /\ Cardinality(Containers) = MaxContainers
  /\ MaxContainers \in Nat /\ MaxContainers >= Cardinality(Commands) + 2
  /\ IsFiniteSet(Used) /\ Cardinality(Used) \in Nat
  /\ IsFiniteSet(Creators) /\ Cardinality(Creators) \in 0..Cardinality(Commands)
  /\ BuildBoxes \in 0..2
  /\ IsFiniteSet(Used)' /\ Cardinality(Used)' \in Nat
  /\ IsFiniteSet(Creators)' /\ Cardinality(Creators)' \in Nat
  /\ BuildBoxes' \in 0..2
  <1>1. IsFiniteSet(Containers) /\ Cardinality(Containers) = MaxContainers
    BY SandboxAssumption, FS_Interval DEF Containers
  <1>2. /\ Used \subseteq Containers /\ Creators \subseteq Commands
        /\ Used' \subseteq Containers /\ Creators' \subseteq Commands
    BY DEF Used, Creators
  <1>3. /\ IsFiniteSet(Used) /\ IsFiniteSet(Creators) /\ Cardinality(Creators) <= Cardinality(Commands)
        /\ IsFiniteSet(Used') /\ IsFiniteSet(Creators')
    BY <1>1, <1>2, SandboxAssumption, FS_Subset
  <1>4. IsFiniteSet(Commands) /\ Cardinality(Commands) \in Nat
    BY SandboxAssumption, FS_CardinalityType
  <1>5. /\ Cardinality(Used) \in Nat /\ Cardinality(Creators) \in Nat
        /\ Cardinality(Used') \in Nat /\ Cardinality(Creators') \in Nat
    BY <1>3, FS_CardinalityType
  <1>6. BuildBoxes \in 0..2 /\ BuildBoxes' \in 0..2
    BY DEF BuildBoxes
  <1> QED
    BY <1>1, <1>3, <1>4, <1>5, <1>6, SandboxAssumption

\* No step that creates nothing disturbs the count: a command that was served stays served.
LEMMA CountKeeps ==
  ASSUME CountInv, Used' = Used, BuildBoxes <= BuildBoxes', Creators \subseteq Creators'
  PROVE  CountInv'
  <1>1. Cardinality(Creators) <= Cardinality(Creators')
    BY CountsTyped, FS_Subset
  <1> QED
    BY <1>1, CountsTyped DEF CountInv

\* Whoever creates a container has not had one yet.
LEMMA CountAdds ==
  ASSUME CountInv, NEW b, Used' = Used \cup {b},
         \/ BuildBoxes' = BuildBoxes + 1 /\ Creators \subseteq Creators'
         \/ BuildBoxes' = BuildBoxes /\ \E c : c \notin Creators /\ Creators' = Creators \cup {c}
  PROVE  CountInv'
  <1>1. Cardinality(Used') <= Cardinality(Used) + 1
    <2>1. /\ Cardinality(Used \cup {b}) =
               IF b \in Used THEN Cardinality(Used) ELSE Cardinality(Used) + 1
          /\ Cardinality(Used) \in Nat
      BY CountsTyped, FS_AddElement
    <2> QED
      BY <2>1
  <1>2. CASE BuildBoxes' = BuildBoxes + 1 /\ Creators \subseteq Creators'
    <2>1. Cardinality(Creators) <= Cardinality(Creators')
      BY <1>2, CountsTyped, FS_Subset
    <2> QED
      BY <1>1, <1>2, <2>1, CountsTyped DEF CountInv
  <1>3. ASSUME NEW c, c \notin Creators, Creators' = Creators \cup {c}, BuildBoxes' = BuildBoxes
        PROVE  CountInv'
    <2>1. Cardinality(Creators') = Cardinality(Creators) + 1
      BY <1>3, CountsTyped, FS_AddElement
    <2> QED
      BY <1>1, <1>3, <2>1, CountsTyped DEF CountInv
  <1> QED
    BY <1>2, <1>3

\* A set of natural numbers that is not empty has its minimum.
LEMMA MinIsThere ==
  ASSUME NEW S \in SUBSET Nat, S # {}
  PROVE  Min(S) \in S
  <1> DEFINE below == {pair \in Nat \X Nat : pair[1] < pair[2]}
  <1>1. IsWellFoundedOn(below, Nat)
    BY NatLessThanWellFounded DEF OpToRel
  <1>2. \A m, n \in Nat : <<m, n>> \notin below => n <= m
    OBVIOUS
  <1> HIDE DEF below
  <1>3. PICK n \in S : \A m \in S : <<m, n>> \notin below
    BY <1>1, WFMin
  <1>4. \A m \in S : n <= m
    BY <1>2, <1>3
  <1> QED
    BY <1>4 DEF Min

\* The bound on containers never bites: whoever creates one finds a fresh one.
LEMMA FreshIsFresh ==
  ASSUME IInv, phase \in {"setup", "install"} \/ \E c \in Commands : pc[c] = "create"
  PROVE  Fresh \in Containers /\ box[Fresh] = "absent"
  <1>1. Cardinality(Used) < MaxContainers
    <2>1. CASE phase \in {"setup", "install"}
      BY <2>1, CountsTyped DEF IInv, CountInv, BuildBoxes
    <2>2. ASSUME NEW c \in Commands, pc[c] = "create"
          PROVE  Cardinality(Used) < MaxContainers
      <3>1. Creators \subseteq Commands \ {c}
        BY <2>2 DEF Creators
      <3>2. /\ IsFiniteSet(Commands \ {c})
            /\ Cardinality(Commands \ {c}) = Cardinality(Commands) - 1
        BY CountsTyped, FS_RemoveElement
      <3>3. Cardinality(Creators) <= Cardinality(Commands) - 1
        BY <3>1, <3>2, FS_Subset
      <3> QED
        BY <3>3, CountsTyped DEF IInv, CountInv
    <2> QED
      BY <2>1, <2>2
  <1>2. Used # Containers
    BY <1>1, CountsTyped DEF IInv
  <1>3. {b \in Containers : box[b] = "absent"} # {}
    BY <1>2 DEF Used
  <1>4. {b \in Containers : box[b] = "absent"} \in SUBSET Nat
    BY SandboxAssumption DEF Containers
  <1>5. Fresh \in {b \in Containers : box[b] = "absent"}
    BY <1>3, <1>4, MinIsThere DEF Fresh
  <1> QED
    BY <1>5

-----------------------------------------------------------------------------
\* Nothing is created, run or removed yet.
LEMMA InitIInv == Init => IInv
  <1> SUFFICES ASSUME Init
               PROVE  IInv
    OBVIOUS
  <1>1. backend \in {"docker", "subprocess", "refused"}
    BY SandboxAssumption DEF Init, Resolved
  <1>2. phase \in {"setup", "install", "raised"}
    BY <1>1 DEF Init
  <1>3. /\ pc \in [Commands -> {"idle"}] /\ mine \in [Commands -> {None}]
        /\ proc \in [Commands -> {None}] /\ result \in [Commands -> {"none"}]
        /\ box \in [Containers -> {"absent"}]
    BY DEF Init
  <1>4. TypeOK
    <2>1. /\ pc \in [Commands -> {"idle", "queued", "exec", "remove", "create", "start",
                                "drain", "done"}]
          /\ mine \in [Commands -> {None} \cup Containers]
          /\ proc \in [Commands -> {None, Group, Orphans} \cup Containers]
          /\ result \in [Commands -> {"none", "ok", "timeout", "refused", "error"}]
          /\ box \in [Containers -> {"absent", "created", "running", "removed"}]
      BY <1>3
    <2>2. \A c \in Commands : pc[c] # "done" /\ result[c] = "none"
      BY <1>3
    <2>3. faults \in 0..MaxFaults
      BY SandboxAssumption DEF Init
    <2> QED
      BY <1>1, <1>2, <2>1, <2>2, <2>3 DEF Init, TypeOK
  <1>5. HandsInv
    BY <1>3 DEF Init, HandsInv
  <1>6. StageInv
    BY <1>2, <1>3 DEF Init, StageInv
  <1>7. LeakInv
    BY <1>3 DEF Init, LeakInv, Live, Recovering
  <1>8. StrayInv
    BY <1>3 DEF Init, StrayInv, Recovering
  <1>9. CountInv
    <2>1. Used = {}
      BY <1>3 DEF Used
    <2> QED
      BY <2>1, CountsTyped, FS_EmptySet DEF CountInv
  <1> QED
    BY <1>4, <1>5, <1>6, <1>7, <1>8, <1>9 DEF IInv

\* The command c goes to p with the result r, and its process is in q then; the other
\* commands stand still.
Moves(c, p, r, q) ==
  /\ pc' = [pc EXCEPT ![c] = p]
  /\ result' = [result EXCEPT ![c] = r]
  /\ proc' = [proc EXCEPT ![c] = q]

Labels == {"idle", "queued", "exec", "remove", "create", "start", "drain", "done"}
Results == {"none", "ok", "timeout", "refused", "error"}
Places == {None, Group, Orphans} \cup Containers

\* What Moves does, point by point.
LEMMA MovesPointwise ==
  ASSUME TypeOK, NEW c \in Commands, NEW p \in Labels, NEW r \in Results, NEW q \in Places,
         Moves(c, p, r, q), (p = "done") <=> (r # "none")
  PROVE  /\ pc'[c] = p /\ result'[c] = r /\ proc'[c] = q
         /\ \A d \in Commands \ {c} : pc'[d] = pc[d] /\ proc'[d] = proc[d] /\ result'[d] = result[d]
         /\ pc' \in [Commands -> Labels]
         /\ proc' \in [Commands -> Places]
         /\ result' \in [Commands -> Results]
         /\ \A d \in Commands : (pc'[d] = "done") <=> (result'[d] # "none")
  <1>1. /\ pc'[c] = p /\ result'[c] = r /\ proc'[c] = q
        /\ \A d \in Commands \ {c} : pc'[d] = pc[d] /\ proc'[d] = proc[d] /\ result'[d] = result[d]
    BY DEF TypeOK, Moves
  <1>2. /\ pc' \in [Commands -> Labels] /\ proc' \in [Commands -> Places]
        /\ result' \in [Commands -> Results]
    BY DEF TypeOK, Moves, Labels, Results, Places
  <1>3. \A d \in Commands : (pc'[d] = "done") <=> (result'[d] # "none")
    BY <1>1 DEF TypeOK
  <1> QED
    BY <1>1, <1>2, <1>3

\* The daemon failed in this step, or nothing did.
Faulty == faults' = faults \/ (faults < MaxFaults /\ faults' = faults + 1)

\* The count of failures of the daemon never goes back.
LEMMA FaultsGrow ==
  ASSUME TypeOK, Faulty
  PROVE  faults' \in 0..MaxFaults /\ (faults' = 0 => faults = 0)
  BY SandboxAssumption DEF TypeOK, Faulty

\* A command that runs, or its process, takes a step that is no part of a recovery.
LEMMA CommandMove ==
  ASSUME IInv, NEW c \in Commands, NEW p \in Labels, NEW r \in Results, NEW q \in Places,
         Moves(c, p, r, q), (p = "done") <=> (r # "none"), Faulty,
         UNCHANGED <<backend, phase, current, held, throwaway, box, mine, overlap>>,
         \/ p = pc[c]
         \/ /\ phase = "ready" /\ pc[c] \notin {"remove", "create", "start", "done"}
            /\ p \notin {"remove", "create", "start"},
         p \in {"idle", "queued"} => q = None,
         backend = "docker" => p # "drain" /\ q \in {None} \cup Containers,
         p = "exec" => \/ q \in {None, current} \/ (pc[c] = "exec" /\ q = proc[c])
                       \/ backend # "docker",
         q \in {None, proc[c]} \/ (p = "exec" /\ r # "timeout")
           \/ backend # "docker",
         r = "timeout" => result[c] = "timeout" \/ backend # "docker"
  PROVE  IInv'
  <1>0. /\ pc'[c] = p /\ result'[c] = r /\ proc'[c] = q
        /\ \A d \in Commands \ {c} : pc'[d] = pc[d] /\ proc'[d] = proc[d] /\ result'[d] = result[d]
        /\ TypeOK'
    <2>1. faults' \in 0..MaxFaults
      BY FaultsGrow DEF IInv
    <2> QED
      BY <2>1, MovesPointwise DEF IInv, TypeOK, Labels, Results, Places
  <1>1. HandsInv'
    BY DEF IInv, HandsInv, Live
  <1>2. StageInv'
    BY <1>0 DEF IInv, StageInv
  <1>3. Recovering' = Recovering
    BY <1>0 DEF Recovering
  <1>4. faults' = 0 => faults = 0
    BY FaultsGrow DEF IInv
  <1>5. LeakInv'
    BY <1>3, <1>4 DEF IInv, LeakInv, Live
  <1>6. \A d \in Commands : pc[d] = "remove" => pc'[d] = "remove"
    BY <1>0
  <1>7. StrayInv'
    <2> SUFFICES ASSUME backend = "docker", faults' = 0, ~overlap, NEW d \in Commands
                 PROVE  /\ pc'[d] = "exec" => proc'[d] \in {None, current} \/ Doomed(d)'
                        /\ d \in Recovering' \/ result'[d] = "timeout" =>
                             proc'[d] = None \/ Doomed(d)'
      BY DEF StrayInv
    <2>1. /\ pc[d] = "exec" => proc[d] \in {None, current} \/ Doomed(d)
          /\ d \in Recovering \/ result[d] = "timeout" => proc[d] = None \/ Doomed(d)
      BY <1>4 DEF IInv, StrayInv
    <2>2. Doomed(d) /\ proc'[d] = proc[d] => Doomed(d)'
      BY <1>6 DEF Doomed
    <2>3. CASE d # c
      BY <1>0, <1>3, <2>1, <2>2, <2>3
    <2>4. CASE d = c
      BY <1>0, <1>3, <2>1, <2>2, <2>4 DEF Recovering
    <2> QED
      BY <2>3, <2>4
  <1>8. CountInv'
    <2>1. Used' = Used /\ BuildBoxes' = BuildBoxes
      BY DEF Used, BuildBoxes
    <2>2. Creators \subseteq Creators'
      BY <1>0 DEF Creators
    <2> QED
      BY <2>1, <2>2, CountKeeps, CountsTyped DEF IInv
  <1> QED
    BY <1>0, <1>1, <1>2, <1>5, <1>7, <1>8 DEF IInv

\* A process of the host is in no container.
LEMMA HostIsNoContainer == {Group, Orphans} \cap ({None} \cup Containers) = {}
  BY SandboxAssumption DEF Group, Orphans, None, Containers

\* A command is refused, cannot be started, or starts: on the host at once, in the container in
\* turn.
LEMMA RunKeeps ==
  ASSUME IInv, NEW c \in Commands, Run(c) \/ Spawn(c)
  PROVE  IInv'
  <1>0. /\ phase = "ready" /\ pc[c] = "idle" /\ result[c] = "none" /\ proc[c] = None
        /\ pc \in [Commands -> Labels] /\ result \in [Commands -> Results]
        /\ proc \in [Commands -> Places]
        /\ UNCHANGED <<backend, phase, current, held, throwaway, box, mine, overlap>> /\ Faulty
    BY DEF Run, Spawn, IInv, TypeOK, StageInv, Faulty, Labels, Results, Places
  <1>1. ASSUME UNCHANGED proc, NEW r \in {"error", "refused"}, Ends(c, r)
        PROVE  IInv'
    <2>1. Moves(c, "done", r, None)
      BY <1>0, <1>1 DEF Ends, Moves
    <2> QED
      BY <1>0, <2>1, CommandMove DEF Labels, Results, Places
  <1>2. ASSUME UNCHANGED proc, Goes(c, "queued")
        PROVE  IInv'
    <2>1. Moves(c, "queued", "none", None)
      BY <1>0, <1>2 DEF Goes, Moves
    <2> QED
      BY <1>0, <2>1, CommandMove DEF Labels, Results, Places
  <1>3. ASSUME backend = "subprocess", Goes(c, "exec"), proc' = [proc EXCEPT ![c] = Group]
        PROVE  IInv'
    <2>1. Moves(c, "exec", "none", Group)
      BY <1>0, <1>3 DEF Goes, Moves
    <2> QED
      BY <1>0, <1>3, <2>1, CommandMove DEF Labels, Results, Places
  <1>4. CASE Run(c)
    BY <1>1, <1>2, <1>4 DEF Run
  <1>5. CASE Spawn(c)
    BY <1>1, <1>3, <1>5 DEF Spawn
  <1> QED
    BY <1>4, <1>5

\* A command's process starts and ends, or its timeout passes: no container comes or goes.
LEMMA ExecKeeps ==
  ASSUME IInv, NEW c \in Commands,
         \/ ExecStarts(c) \/ ExecReturns(c) \/ ExecFails(c) \/ Communicated(c)
         \/ KillGroup(c) \/ Drained(c)
  PROVE  IInv'
  <1>0. /\ phase = "ready" /\ pc[c] \in {"queued", "exec", "drain"} /\ result[c] = "none"
        /\ pc[c] = "queued" => proc[c] = None
        /\ backend = "docker" => pc[c] # "drain" /\ proc[c] \in {None} \cup Containers
        /\ current \in {None} \cup Containers
        /\ proc[c] \in Places
        /\ pc \in [Commands -> Labels] /\ result \in [Commands -> Results]
        /\ proc \in [Commands -> Places]
    BY DEF ExecStarts, ExecReturns, ExecFails, Communicated, KillGroup, Drained,
           IInv, TypeOK, StageInv, Labels, Results, Places
  <1>1. /\ UNCHANGED <<backend, phase, current, held, throwaway, box, mine, overlap>> /\ Faulty
    BY DEF ExecStarts, ExecReturns, ExecFails, Communicated, KillGroup, Drained, DaemonFails, Faulty
  <1>2. CASE ExecStarts(c)
    <2>1. CASE current = None
      <3>1. Moves(c, "done", "error", None)
        BY <1>0, <1>2, <2>1 DEF ExecStarts, Ends, Moves
      <3> QED
        BY <1>0, <1>1, <3>1, CommandMove DEF Labels, Results, Places
    <2>2. CASE current # None
      <3>1. Moves(c, "exec", "none", current)
        BY <1>0, <1>2, <2>2 DEF ExecStarts, Goes, Moves
      <3> QED
        BY <1>0, <1>1, <3>1, CommandMove DEF Labels, Results, Places
    <2> QED
      BY <2>1, <2>2
  <1>3. CASE ExecReturns(c) \/ Communicated(c)
    <2>1. \E r \in {"ok", "error"} : Moves(c, "done", r, None)
      BY <1>0, <1>3 DEF ExecReturns, Communicated, Ends, Moves
    <2> QED
      BY <1>0, <1>1, <2>1, CommandMove DEF Labels, Results, Places
  <1>4. CASE ExecFails(c)
    <2>1. Moves(c, "done", "error", proc[c]) /\ backend = "docker"
      BY <1>0, <1>4 DEF ExecFails, DaemonFails, Ends, Moves
    <2> QED
      BY <1>0, <1>1, <2>1, CommandMove DEF Labels, Results, Places
  <1>5. CASE KillGroup(c)
    <2>1. /\ backend = "subprocess"
          /\ Moves(c, "drain", "none", IF proc[c] = Group THEN None ELSE proc[c])
      BY <1>0, <1>5 DEF KillGroup, Goes, Moves
    <2> QED
      BY <1>0, <1>1, <2>1, CommandMove DEF Labels, Results, Places
  <1>6. CASE Drained(c)
    <2>1. Moves(c, "done", "timeout", proc[c]) /\ backend # "docker"
      BY <1>0, <1>6 DEF Drained, Ends, Moves
    <2> QED
      BY <1>0, <1>1, <2>1, CommandMove DEF Labels, Results, Places
  <1> QED
    BY <1>2, <1>3, <1>4, <1>5, <1>6

\* Processes that end by themselves.
LEMMA ProcessKeeps ==
  ASSUME IInv, NEW c \in Commands, StrayEnds(c) \/ LeaderEnds(c)
  PROVE  IInv'
  <1>0. /\ pc[c] \in Labels /\ result[c] \in Results /\ proc[c] # None
        /\ (pc[c] = "done") <=> (result[c] # "none")
        /\ pc[c] \notin {"idle", "queued"}
        /\ pc \in [Commands -> Labels] /\ result \in [Commands -> Results]
        /\ proc \in [Commands -> Places]
        /\ backend = "docker" => pc[c] # "drain" /\ proc[c] \in {None} \cup Containers
    BY HostIsNoContainer DEF StrayEnds, LeaderEnds, IInv, TypeOK, StageInv, Labels, Results, Places
  <1>1. UNCHANGED <<backend, phase, current, held, throwaway, box, mine, overlap>> /\ Faulty
    BY DEF StrayEnds, LeaderEnds, commands, Faulty
  <1>2. CASE StrayEnds(c)
    <2>1. Moves(c, pc[c], result[c], None) /\ pc[c] # "exec"
      BY <1>0, <1>2 DEF StrayEnds, commands, Moves
    <2> QED
      BY <1>0, <1>1, <2>1, CommandMove DEF Labels, Results, Places
  <1>3. CASE LeaderEnds(c)
    <2>1. Moves(c, pc[c], result[c], Orphans) /\ backend # "docker"
      BY <1>0, <1>3, HostIsNoContainer DEF LeaderEnds, commands, Moves
    <2> QED
      BY <1>0, <1>1, <2>1, CommandMove DEF Labels, Results, Places
  <1> QED
    BY <1>2, <1>3

-----------------------------------------------------------------------------
\* A timeout moves the session's container into the hands of the recovery, and every
\* process in it is doomed.
LEMMA TimesOutKeeps ==
  ASSUME IInv, NEW c \in Commands, TimesOut(c)
  PROVE  IInv'
  <1>0. /\ pc[c] \in {"queued", "exec"} /\ mine[c] = None /\ c \notin Recovering
        /\ phase = "ready" /\ held = None /\ result[c] = "none"
        /\ current \in {None} \cup Containers
        /\ pc[c] = "queued" => proc[c] = None
    BY DEF TimesOut, IInv, TypeOK, StageInv, Recovering
  <1>1. /\ mine'[c] = current /\ \A d \in Commands \ {c} : mine'[d] = mine[d]
        /\ pc'[c] = (IF current = None THEN "create" ELSE "remove")
        /\ \A d \in Commands \ {c} : pc'[d] = pc[d]
        /\ current' = None /\ overlap' = (overlap \/ Recovering # {})
        /\ UNCHANGED <<backend, phase, held, throwaway, box, proc, result, faults>>
    BY DEF TimesOut, Goes, IInv, TypeOK
  <1>2. TypeOK'
    <2>1. /\ mine' \in [Commands -> {None} \cup Containers]
          /\ pc' \in [Commands -> {"idle", "queued", "exec", "remove", "create", "start",
                                   "drain", "done"}]
      BY <1>0 DEF TimesOut, Goes, IInv, TypeOK
    <2>2. \A d \in Commands : (pc'[d] = "done") <=> (result'[d] # "none")
      BY <1>0, <1>1 DEF IInv, TypeOK
    <2>3. overlap' \in BOOLEAN
      BY <1>1 DEF IInv, TypeOK
    <2> QED
      BY <1>1, <2>1, <2>2, <2>3 DEF IInv, TypeOK
  <1>3. HandsInv'
    BY <1>0, <1>1 DEF IInv, HandsInv, Live
  <1>4. StageInv'
    BY <1>0, <1>1 DEF IInv, StageInv
  <1>5. Recovering' = Recovering \cup {c}
    BY <1>1 DEF Recovering
  <1>6. ~overlap' => ~overlap /\ Recovering = {}
    BY <1>1
  <1>7. LeakInv'
    <2> SUFFICES ASSUME faults = 0, ~overlap'
                 PROVE  /\ \A b \in Containers : Live(b) =>
                             \/ b \in {None, held, throwaway}
                             \/ \E d \in Commands : mine'[d] = b
                        /\ \A d \in Recovering' : \A e \in Recovering' : e = d
      BY <1>1 DEF LeakInv, Live
    <2>1. \A b \in Containers : Live(b) =>
            b \in {current, held, throwaway} \/ \E d \in Commands : mine[d] = b
      BY <1>6 DEF IInv, LeakInv
    <2> QED
      BY <1>0, <1>1, <1>5, <1>6, <2>1
  <1>8. StrayInv'
    <2> SUFFICES ASSUME backend = "docker", faults = 0, ~overlap', NEW d \in Commands
                 PROVE  /\ pc'[d] = "exec" => proc[d] = None \/ Doomed(d)'
                        /\ d \in Recovering' \/ result[d] = "timeout" => proc[d] = None \/ Doomed(d)'
      BY <1>1 DEF StrayInv
    <2>1. /\ pc[d] = "exec" => proc[d] \in {None, current} \/ Doomed(d)
          /\ d \in Recovering \/ result[d] = "timeout" => proc[d] = None \/ Doomed(d)
      BY <1>6 DEF IInv, StrayInv
    <2>2. Doomed(d) => Doomed(d)'
      BY <1>0, <1>1 DEF Doomed
    <2>3. proc[d] = current => proc[d] = None \/ Doomed(d)'
      BY <1>1 DEF Doomed
    <2> QED
      BY <1>0, <1>1, <1>5, <2>1, <2>2, <2>3
  <1>9. CountInv'
    <2>1. Used' = Used /\ BuildBoxes' = BuildBoxes
      BY <1>1 DEF Used, BuildBoxes
    <2>2. Creators \subseteq Creators'
      BY <1>0, <1>1 DEF Creators
    <2> QED
      BY <2>1, <2>2, CountKeeps, CountsTyped DEF IInv
  <1> QED
    BY <1>2, <1>3, <1>4, <1>7, <1>8, <1>9 DEF IInv

\* A container that is removed by whoever has it in hand takes its processes along.
LEMMA RemovesFacts ==
  ASSUME TypeOK, NEW b \in Containers, Live(b), Removes(b)
  PROVE  /\ box' \in [Containers -> {"absent", "created", "running", "removed"}]
         /\ box'[b] = "removed" /\ \A x \in Containers \ {b} : box'[x] = box[x]
         /\ proc' \in [Commands -> {None, Group, Orphans} \cup Containers]
         /\ \A c \in Commands : proc'[c] = (IF proc[c] = b THEN None ELSE proc[c])
         /\ Used' = Used /\ faults' = faults
  <1>1. /\ box' \in [Containers -> {"absent", "created", "running", "removed"}]
        /\ box'[b] = "removed" /\ \A x \in Containers \ {b} : box'[x] = box[x]
        /\ faults' = faults
    BY DEF Removes, TypeOK
  <1>2. /\ proc' \in [Commands -> {None, Group, Orphans} \cup Containers]
        /\ \A c \in Commands : proc'[c] = (IF proc[c] = b THEN None ELSE proc[c])
    BY DEF Removes, TypeOK
  <1>3. Used' = Used
    BY <1>1 DEF Used, Live
  <1> QED
    BY <1>1, <1>2, <1>3

\* A recovery removes the container it found: whatever ran there is gone.
LEMMA RecoveryRemovesKeeps ==
  ASSUME IInv, NEW c \in Commands, RecoveryRemoves(c)
  PROVE  IInv'
  <1>0. /\ pc[c] = "remove" /\ mine[c] # None /\ mine[c] \in Containers /\ Live(mine[c])
        /\ phase = "ready" /\ result[c] = "none" /\ c \in Recovering
    BY DEF RecoveryRemoves, IInv, TypeOK, HandsInv, StageInv, Recovering
  <1>1. /\ mine'[c] = None /\ \A d \in Commands \ {c} : mine'[d] = mine[d]
        /\ pc'[c] = "create" /\ \A d \in Commands \ {c} : pc'[d] = pc[d]
        /\ mine' \in [Commands -> {None} \cup Containers]
        /\ pc' \in [Commands -> {"idle", "queued", "exec", "remove", "create", "start",
                                 "drain", "done"}]
        /\ UNCHANGED <<backend, phase, current, held, throwaway, overlap, result>>
    BY DEF RecoveryRemoves, Goes, IInv, TypeOK
  <1>2. \A d \in Commands : (pc'[d] = "done") <=> (result'[d] # "none")
    BY <1>0, <1>1 DEF IInv, TypeOK
  <1>3. Recovering' = Recovering /\ Creators' = Creators /\ BuildBoxes' = BuildBoxes
    BY <1>0, <1>1 DEF Recovering, Creators, BuildBoxes
  <1>4. CASE Removes(mine[c])
    <2>1. /\ box' \in [Containers -> {"absent", "created", "running", "removed"}]
          /\ box'[mine[c]] = "removed" /\ \A x \in Containers \ {mine[c]} : box'[x] = box[x]
          /\ proc' \in [Commands -> {None, Group, Orphans} \cup Containers]
          /\ \A d \in Commands : proc'[d] = (IF proc[d] = mine[c] THEN None ELSE proc[d])
          /\ Used' = Used /\ faults' = faults
      BY <1>0, <1>4, RemovesFacts DEF IInv
    <2>2. TypeOK'
      BY <1>1, <1>2, <2>1 DEF IInv, TypeOK
    <2>3. HandsInv'
      BY <1>0, <1>1, <2>1 DEF IInv, TypeOK, HandsInv, Live
    <2>4. StageInv'
      BY <1>0, <1>1, <2>1 DEF IInv, StageInv
    <2>5. LeakInv'
      <3> SUFFICES ASSUME faults = 0, ~overlap
                   PROVE  /\ \A b \in Containers : Live(b)' =>
                               \/ b \in {current, held, throwaway}
                               \/ \E d \in Commands : mine'[d] = b
                          /\ \A d \in Recovering : current = None /\ \A e \in Recovering : e = d
        BY <1>1, <1>3, <2>1 DEF LeakInv
      <3>1. /\ \A b \in Containers : Live(b) =>
                 b \in {current, held, throwaway} \/ \E d \in Commands : mine[d] = b
            /\ \A d \in Recovering : current = None /\ \A e \in Recovering : e = d
        BY DEF IInv, LeakInv
      <3>2. \A b \in Containers : Live(b)' => Live(b) /\ b # mine[c]
        BY <2>1 DEF Live
      <3> QED
        BY <1>1, <3>1, <3>2
    <2>6. StrayInv'
      <3> SUFFICES ASSUME backend = "docker", faults = 0, ~overlap, NEW d \in Commands
                   PROVE  /\ pc'[d] = "exec" => proc'[d] \in {None, current} \/ Doomed(d)'
                          /\ d \in Recovering \/ result[d] = "timeout" =>
                               proc'[d] = None \/ Doomed(d)'
        BY <1>1, <1>3, <2>1 DEF StrayInv
      <3>1. /\ pc[d] = "exec" => proc[d] \in {None, current} \/ Doomed(d)
            /\ d \in Recovering \/ result[d] = "timeout" => proc[d] = None \/ Doomed(d)
        BY DEF IInv, StrayInv
      <3>2. Doomed(d) => proc'[d] = None \/ Doomed(d)'
        BY <1>1, <2>1 DEF Doomed
      <3> QED
        BY <1>1, <2>1, <3>1, <3>2
    <2>7. CountInv'
      BY <1>3, <2>1, CountKeeps, CountsTyped DEF IInv
    <2> QED
      BY <2>2, <2>3, <2>4, <2>5, <2>6, <2>7 DEF IInv
  <1>5. CASE DaemonFails
    <2>1. UNCHANGED <<box, proc>> /\ faults' \in 0..MaxFaults /\ faults' # 0
      BY <1>5, SandboxAssumption DEF DaemonFails, IInv, TypeOK
    <2>2. TypeOK'
      BY <1>1, <1>2, <2>1 DEF IInv, TypeOK
    <2>3. HandsInv'
      BY <1>0, <1>1, <2>1 DEF IInv, HandsInv, Live
    <2>4. StageInv'
      BY <1>0, <1>1, <2>1 DEF IInv, StageInv
    <2>5. LeakInv' /\ StrayInv'
      BY <2>1 DEF LeakInv, StrayInv
    <2>6. CountInv'
      <3>1. Used' = Used
        BY <2>1 DEF Used
      <3> QED
        BY <1>3, <3>1, CountKeeps, CountsTyped DEF IInv
    <2> QED
      BY <2>2, <2>3, <2>4, <2>5, <2>6 DEF IInv
  <1> QED
    BY <1>4, <1>5 DEF RecoveryRemoves

\* A failing call changes nothing but that everything is forgiven from now on.
LEMMA FailsFacts ==
  ASSUME TypeOK, DaemonFails
  PROVE  /\ UNCHANGED <<box, proc>> /\ faults' \in 0..MaxFaults
         /\ LeakInv' /\ StrayInv' /\ Used' = Used
  <1>1. UNCHANGED <<box, proc>> /\ faults' \in 0..MaxFaults /\ faults' # 0
    BY SandboxAssumption DEF DaemonFails, TypeOK
  <1>2. LeakInv' /\ StrayInv'
    BY <1>1 DEF LeakInv, StrayInv
  <1>3. Used' = Used
    BY <1>1 DEF Used
  <1> QED
    BY <1>1, <1>2, <1>3

\* A container that is created is in nobody's hands.
LEMMA CreatesFacts ==
  ASSUME TypeOK, HandsInv, NEW b \in Containers, box[b] = "absent",
         NEW state \in {"created", "running"}, box' = [box EXCEPT ![b] = state]
  PROVE  /\ box' \in [Containers -> {"absent", "created", "running", "removed"}]
         /\ box'[b] = state /\ \A x \in Containers \ {b} : box'[x] = box[x]
         /\ Live(b)' /\ \A x \in Containers \ {b} : Live(x)' = Live(x)
         /\ b # None /\ b \notin {current, held, throwaway}
         /\ \A d \in Commands : mine[d] # b
         /\ Used' = Used \cup {b}
  <1>1. /\ box' \in [Containers -> {"absent", "created", "running", "removed"}]
        /\ box'[b] = state /\ \A x \in Containers \ {b} : box'[x] = box[x]
    BY DEF TypeOK
  <1>2. Live(b)' /\ \A x \in Containers \ {b} : Live(x)' = Live(x)
    BY <1>1 DEF Live
  <1>3. b # None
    BY DEF None, Containers
  <1>4. b \notin {current, held, throwaway} /\ \A d \in Commands : mine[d] # b
    BY <1>3 DEF HandsInv, Live
  <1>5. Used' = Used \cup {b}
    BY <1>1 DEF Used
  <1> QED
    BY <1>1, <1>2, <1>3, <1>4, <1>5

\* The recovery has the fresh container in its hands until it was started.
LEMMA RecoveryCreatesKeeps ==
  ASSUME IInv, NEW c \in Commands, RecoveryCreates(c)
  PROVE  IInv'
  <1>0. /\ pc[c] = "create" /\ mine[c] = None /\ c \in Recovering /\ c \notin Creators
        /\ phase = "ready" /\ result[c] = "none" /\ held = None
        /\ UNCHANGED <<backend, phase, current, held, throwaway, overlap>>
        /\ BuildBoxes' = BuildBoxes
    BY DEF RecoveryCreates, IInv, TypeOK, StageInv, Recovering, Creators, BuildBoxes
  <1>1. PICK b \in Containers : b = Fresh /\ box[b] = "absent"
    BY <1>0, FreshIsFresh
  <1>2. CASE /\ Becomes(Fresh, "created") /\ mine' = [mine EXCEPT ![c] = Fresh]
             /\ Goes(c, "start")
    <2>1. /\ box' \in [Containers -> {"absent", "created", "running", "removed"}]
          /\ box'[b] = "created" /\ \A x \in Containers \ {b} : box'[x] = box[x]
          /\ Live(b)' /\ \A x \in Containers \ {b} : Live(x)' = Live(x)
          /\ b # None /\ b \notin {current, held, throwaway}
          /\ \A d \in Commands : mine[d] # b
          /\ Used' = Used \cup {b}
      <3>1. /\ TypeOK /\ HandsInv /\ "created" \in {"created", "running"}
            /\ box' = [box EXCEPT ![b] = "created"]
        BY <1>1, <1>2 DEF IInv, Becomes
      <3> QED
        BY <1>1, <3>1, CreatesFacts
    <2>2. /\ mine'[c] = b /\ \A d \in Commands \ {c} : mine'[d] = mine[d]
          /\ pc'[c] = "start" /\ \A d \in Commands \ {c} : pc'[d] = pc[d]
          /\ mine' \in [Commands -> {None} \cup Containers]
          /\ pc' \in [Commands -> {"idle", "queued", "exec", "remove", "create", "start",
                                   "drain", "done"}]
          /\ UNCHANGED <<proc, faults, result>>
      BY <1>1, <1>2 DEF Becomes, Goes, IInv, TypeOK
    <2>3. Recovering' = Recovering /\ Creators' = Creators \cup {c}
      BY <1>0, <2>2 DEF Recovering, Creators
    <2>4. \A d \in Commands : (pc'[d] = "done") <=> (result'[d] # "none")
      BY <1>0, <2>2 DEF IInv, TypeOK
    <2>5. TypeOK'
      BY <1>0, <2>1, <2>2, <2>4 DEF IInv, TypeOK
    <2>6. HandsInv'
      <3>1. \A x \in Containers \ {b} : box'[x] = box[x] /\ Live(x)' = Live(x)
        BY <2>1
      <3>2. current # None => box'[current] = "running"
        BY <1>0, <2>1 DEF IInv, TypeOK, HandsInv
      <3>3. throwaway # None => Live(throwaway)'
        BY <1>0, <2>1 DEF IInv, TypeOK, HandsInv
      <3>4. \A d \in Commands : mine'[d] # None => box'[mine'[d]] \in {"created", "running"}
        BY <1>0, <2>1, <2>2 DEF IInv, TypeOK, HandsInv, Live
      <3>5. \A d, e \in Commands : mine'[d] # None /\ mine'[e] = mine'[d] => e = d
        BY <2>1, <2>2 DEF IInv, HandsInv
      <3>6. \A d \in Commands :
              /\ current # None => mine'[d] # current
              /\ throwaway # None => mine'[d] # throwaway
        BY <2>1, <2>2 DEF IInv, HandsInv
      <3>7. current # None => current \notin {held, throwaway}
        BY DEF IInv, HandsInv
      <3>8. HandsInv' <=>
              /\ current # None => /\ box'[current] = "running"
                                   /\ current \notin {held, throwaway}
                                   /\ \A d \in Commands : mine'[d] # current
              /\ throwaway # None => /\ Live(throwaway)'
                                     /\ \A d \in Commands : mine'[d] # throwaway
              /\ \A d \in Commands : mine'[d] # None =>
                   /\ box'[mine'[d]] \in {"created", "running"}
                   /\ \A e \in Commands : mine'[e] = mine'[d] => e = d
        BY <1>0 DEF HandsInv, Live
      <3> QED
        BY <3>2, <3>3, <3>4, <3>5, <3>6, <3>7, <3>8
    <2>7. StageInv'
      BY <1>0, <2>1, <2>2 DEF IInv, StageInv
    <2>8. LeakInv'
      <3> SUFFICES ASSUME faults = 0, ~overlap
                   PROVE  /\ \A x \in Containers : Live(x)' =>
                               \/ x \in {current, held, throwaway}
                               \/ \E d \in Commands : mine'[d] = x
                          /\ \A d \in Recovering : current = None /\ \A e \in Recovering : e = d
        BY <1>0, <2>2, <2>3 DEF LeakInv
      <3>1. /\ \A x \in Containers : Live(x) =>
                 x \in {current, held, throwaway} \/ \E d \in Commands : mine[d] = x
            /\ \A d \in Recovering : current = None /\ \A e \in Recovering : e = d
        BY DEF IInv, LeakInv
      <3>2. \A x \in Containers : (\E d \in Commands : mine[d] = x) => \E d \in Commands : mine'[d] = x
        BY <1>0, <2>2 DEF None, Containers
      <3> QED
        BY <2>1, <2>2, <3>1, <3>2
    <2>9. StrayInv'
      <3> SUFFICES ASSUME backend = "docker", faults = 0, ~overlap, NEW d \in Commands
                   PROVE  /\ pc'[d] = "exec" => proc[d] \in {None, current} \/ Doomed(d)'
                          /\ d \in Recovering \/ result[d] = "timeout" =>
                               proc[d] = None \/ Doomed(d)'
        BY <1>0, <2>2, <2>3 DEF StrayInv
      <3>1. /\ pc[d] = "exec" => proc[d] \in {None, current} \/ Doomed(d)
            /\ d \in Recovering \/ result[d] = "timeout" => proc[d] = None \/ Doomed(d)
        BY DEF IInv, StrayInv
      <3>2. Doomed(d) => Doomed(d)'
        BY <1>0, <2>2 DEF Doomed
      <3> QED
        BY <2>2, <3>1, <3>2
    <2>10. CountInv'
      BY <1>0, <2>1, <2>3, CountAdds DEF IInv
    <2> QED
      BY <2>5, <2>6, <2>7, <2>8, <2>9, <2>10 DEF IInv
  <1>3. CASE DaemonFails /\ Ends(c, "error") /\ UNCHANGED mine
    <2>1. /\ UNCHANGED <<box, proc>> /\ faults' \in 0..MaxFaults
          /\ LeakInv' /\ StrayInv' /\ Used' = Used
      BY <1>3, FailsFacts DEF IInv
    <2>2. /\ pc'[c] = "done" /\ \A d \in Commands \ {c} : pc'[d] = pc[d] /\ result'[d] = result[d]
          /\ result'[c] = "error" /\ mine' = mine
          /\ result' \in [Commands -> {"none", "ok", "timeout", "refused", "error"}]
          /\ pc' \in [Commands -> {"idle", "queued", "exec", "remove", "create", "start",
                                   "drain", "done"}]
      BY <1>3 DEF Ends, IInv, TypeOK
    <2>3. \A d \in Commands : (pc'[d] = "done") <=> (result'[d] # "none")
      BY <2>2 DEF IInv, TypeOK
    <2>4. TypeOK'
      BY <1>0, <2>1, <2>2, <2>3 DEF IInv, TypeOK
    <2>5. HandsInv'
      BY <1>0, <2>1, <2>2 DEF IInv, HandsInv, Live
    <2>6. StageInv'
      BY <1>0, <2>1, <2>2 DEF IInv, StageInv
    <2>7. Creators \subseteq Creators'
      BY <2>2 DEF Creators
    <2>8. CountInv'
      BY <1>0, <2>1, <2>7, CountKeeps, CountsTyped DEF IInv
    <2> QED
      BY <2>1, <2>4, <2>5, <2>6, <2>8 DEF IInv
  <1> QED
    BY <1>2, <1>3 DEF RecoveryCreates

\* The container that was started is the session's, and runs.
LEMMA RecoveryStartsKeeps ==
  ASSUME IInv, NEW c \in Commands, RecoveryStarts(c)
  PROVE  IInv'
  <1>0. /\ pc[c] = "start" /\ mine[c] \in Containers /\ mine[c] # None /\ Live(mine[c])
        /\ c \in Recovering /\ phase = "ready" /\ result[c] = "none" /\ held = None
        /\ UNCHANGED <<backend, phase, held, throwaway, overlap>>
        /\ BuildBoxes' = BuildBoxes
    BY DEF RecoveryStarts, IInv, TypeOK, HandsInv, StageInv, Recovering, BuildBoxes
  <1>1. /\ mine'[c] = None /\ \A d \in Commands \ {c} : mine'[d] = mine[d]
        /\ mine' \in [Commands -> {None} \cup Containers]
    BY DEF RecoveryStarts, IInv, TypeOK
  <1>2. ASSUME NEW r \in {"timeout", "error"}, Ends(c, r)
        PROVE  /\ pc'[c] = "done" /\ result'[c] = r
               /\ \A d \in Commands \ {c} : pc'[d] = pc[d] /\ result'[d] = result[d]
               /\ result' \in [Commands -> {"none", "ok", "timeout", "refused", "error"}]
               /\ pc' \in [Commands -> {"idle", "queued", "exec", "remove", "create", "start",
                                        "drain", "done"}]
               /\ \A d \in Commands : (pc'[d] = "done") <=> (result'[d] # "none")
    <2>1. /\ pc'[c] = "done" /\ result'[c] = r
          /\ \A d \in Commands \ {c} : pc'[d] = pc[d] /\ result'[d] = result[d]
          /\ result' \in [Commands -> {"none", "ok", "timeout", "refused", "error"}]
          /\ pc' \in [Commands -> {"idle", "queued", "exec", "remove", "create", "start",
                                   "drain", "done"}]
      BY <1>2 DEF Ends, IInv, TypeOK
    <2>2. \A d \in Commands : (pc'[d] = "done") <=> (result'[d] # "none")
      BY <2>1 DEF IInv, TypeOK
    <2> QED
      BY <2>1, <2>2
  <1>3. CASE Becomes(mine[c], "running") /\ Ends(c, "timeout") /\ current' = mine[c]
    <2>1. /\ box' \in [Containers -> {"absent", "created", "running", "removed"}]
          /\ box'[mine[c]] = "running" /\ \A x \in Containers \ {mine[c]} : box'[x] = box[x]
          /\ UNCHANGED <<proc, faults>>
      BY <1>0, <1>3 DEF Becomes, IInv, TypeOK
    <2>2. /\ pc'[c] = "done" /\ result'[c] = "timeout"
          /\ \A d \in Commands \ {c} : pc'[d] = pc[d] /\ result'[d] = result[d]
          /\ result' \in [Commands -> {"none", "ok", "timeout", "refused", "error"}]
          /\ pc' \in [Commands -> {"idle", "queued", "exec", "remove", "create", "start",
                                   "drain", "done"}]
          /\ \A d \in Commands : (pc'[d] = "done") <=> (result'[d] # "none")
      BY <1>2, <1>3
    <2>3. TypeOK'
      BY <1>0, <1>1, <1>3, <2>1, <2>2 DEF IInv, TypeOK
    <2>4. Used' = Used
      BY <1>0, <2>1 DEF Used, Live
    <2>5. Creators \subseteq Creators' /\ Recovering' = Recovering \ {c}
      BY <2>2 DEF Creators, Recovering
    <2>6. HandsInv'
      <3>1. current' # None => /\ box'[current'] = "running"
                               /\ current' \notin {held, throwaway}
                               /\ \A d \in Commands : mine'[d] # current'
        BY <1>0, <1>1, <1>3, <2>1 DEF IInv, HandsInv
      <3>2. throwaway # None => /\ box'[throwaway] \in {"created", "running"}
                                /\ \A d \in Commands : mine'[d] # throwaway
        BY <1>0, <1>1, <2>1 DEF IInv, TypeOK, HandsInv, Live
      <3>3. \A d \in Commands : mine'[d] # None =>
              /\ box'[mine'[d]] \in {"created", "running"}
              /\ \A e \in Commands : mine'[e] = mine'[d] => e = d
        BY <1>0, <1>1, <2>1 DEF IInv, TypeOK, HandsInv, Live
      <3> QED
        BY <1>0, <3>1, <3>2, <3>3 DEF HandsInv, Live
    <2>7. StageInv'
      BY <1>0, <1>1, <2>1, <2>2 DEF IInv, StageInv
    <2>8. ASSUME faults = 0, ~overlap
          PROVE  current = None /\ \A d \in Recovering : d = c
      BY <1>0, <2>8 DEF IInv, LeakInv
    <2>9. LeakInv'
      <3> SUFFICES ASSUME faults = 0, ~overlap
                   PROVE  /\ \A b \in Containers : Live(b)' =>
                               \/ b \in {current', held, throwaway}
                               \/ \E d \in Commands : mine'[d] = b
                          /\ Recovering' = {}
        BY <1>0, <2>1 DEF LeakInv
      <3>1. \A b \in Containers : Live(b) =>
              b \in {current, held, throwaway} \/ \E d \in Commands : mine[d] = b
        BY DEF IInv, LeakInv
      <3>2. \A b \in Containers \ {mine[c]} : Live(b)' => Live(b) /\ b # None
        BY <2>1 DEF Live, None, Containers
      <3> QED
        BY <1>1, <1>3, <2>5, <2>8, <3>1, <3>2
    <2>10. StrayInv'
      <3> SUFFICES ASSUME backend = "docker", faults = 0, ~overlap, NEW d \in Commands
                   PROVE  /\ pc'[d] = "exec" => proc[d] = None
                          /\ d \in Recovering' \/ result'[d] = "timeout" => proc[d] = None
        BY <1>0, <2>1 DEF StrayInv
      <3>1. /\ pc[d] = "exec" => proc[d] \in {None, current} \/ Doomed(d)
            /\ d \in Recovering \/ result[d] = "timeout" => proc[d] = None \/ Doomed(d)
        BY DEF IInv, StrayInv
      <3>2. ~Doomed(d)
        BY <1>0, <2>8 DEF Doomed, Recovering
      <3> QED
        BY <1>0, <2>2, <2>5, <2>8, <3>1, <3>2
    <2>11. CountInv'
      BY <1>0, <2>4, <2>5, CountKeeps, CountsTyped DEF IInv
    <2> QED
      BY <2>3, <2>6, <2>7, <2>9, <2>10, <2>11 DEF IInv
  <1>4. CASE DaemonFails /\ Ends(c, "error") /\ UNCHANGED current
    <2>1. /\ UNCHANGED <<box, proc>> /\ faults' \in 0..MaxFaults
          /\ LeakInv' /\ StrayInv' /\ Used' = Used
      BY <1>4, FailsFacts DEF IInv
    <2>2. /\ pc'[c] = "done" /\ result'[c] = "error"
          /\ \A d \in Commands \ {c} : pc'[d] = pc[d] /\ result'[d] = result[d]
          /\ result' \in [Commands -> {"none", "ok", "timeout", "refused", "error"}]
          /\ pc' \in [Commands -> {"idle", "queued", "exec", "remove", "create", "start",
                                   "drain", "done"}]
          /\ \A d \in Commands : (pc'[d] = "done") <=> (result'[d] # "none")
      BY <1>2, <1>4
    <2>3. TypeOK'
      BY <1>0, <1>1, <1>4, <2>1, <2>2 DEF IInv, TypeOK
    <2>4. HandsInv'
      BY <1>0, <1>1, <1>4, <2>1 DEF IInv, HandsInv, Live
    <2>5. StageInv'
      BY <1>0, <1>1, <1>4, <2>1, <2>2 DEF IInv, StageInv
    <2>6. Creators \subseteq Creators'
      BY <2>2 DEF Creators
    <2>7. CountInv'
      BY <1>0, <2>1, <2>6, CountKeeps, CountsTyped DEF IInv
    <2> QED
      BY <2>1, <2>3, <2>4, <2>5, <2>7 DEF IInv
  <1> QED
    BY <1>3, <1>4 DEF RecoveryStarts

-----------------------------------------------------------------------------
\* While nothing runs yet or any more, nobody recovers.
LEMMA NobodyRecovers ==
  ASSUME IInv, \A c \in Commands : pc[c] \in {"idle", "done"}
  PROVE  Recovering = {} /\ \A c \in Commands : mine[c] = None
  BY DEF IInv, StageInv, Recovering

\* setup() holds the container that it creates.
LEMMA SetupKeeps ==
  ASSUME IInv, Setup
  PROVE  IInv'
  <1>0. /\ phase = "setup" /\ current = None /\ held = None /\ throwaway = None
        /\ Recovering = {} /\ \A c \in Commands : mine[c] = None
        /\ \A c \in Commands : pc[c] \in {"idle", "done"}
        /\ UNCHANGED <<backend, current, throwaway, pc, mine, result, overlap>>
    BY NobodyRecovers DEF Setup, commands, IInv, StageInv
  <1>1. Recovering' = Recovering /\ Creators' = Creators
    BY <1>0 DEF Recovering, Creators
  <1>2. PICK b \in Containers : b = Fresh /\ box[b] = "absent"
    BY <1>0, FreshIsFresh
  <1>3. CASE Becomes(Fresh, "created") /\ held' = Fresh /\ phase' = "starting"
    <2>0. box' = [box EXCEPT ![b] = "created"] /\ UNCHANGED <<proc, faults>> /\ held' = b
      BY <1>2, <1>3 DEF Becomes
    <2>1. /\ box' \in [Containers -> {"absent", "created", "running", "removed"}]
          /\ box'[b] = "created" /\ \A x \in Containers \ {b} : box'[x] = box[x]
          /\ \A x \in Containers \ {b} : Live(x)' = Live(x)
          /\ b # None /\ Used' = Used \cup {b}
      BY <2>0, <1>2, CreatesFacts DEF IInv
    <2>2. TypeOK'
      BY <1>0, <1>3, <2>0, <2>1 DEF IInv, TypeOK
    <2>3. HandsInv'
      BY <1>0, <2>0, <2>1 DEF HandsInv, Live
    <2>4. StageInv'
      BY <1>0, <1>3, <2>0, <2>1 DEF IInv, StageInv
    <2>5. LeakInv'
      BY <1>0, <1>1, <2>0, <2>1 DEF IInv, LeakInv
    <2>6. StrayInv'
      BY <1>0, <1>1, <2>0 DEF IInv, StrayInv, Doomed
    <2>7. CountInv'
      <3>1. BuildBoxes' = BuildBoxes + 1
        BY <1>0, <1>3 DEF BuildBoxes
      <3> QED
        BY <1>1, <2>1, <3>1, CountAdds DEF IInv
    <2> QED
      BY <2>2, <2>3, <2>4, <2>5, <2>6, <2>7 DEF IInv
  <1>4. CASE DaemonFails /\ phase' = "raised" /\ UNCHANGED held
    <2>1. /\ UNCHANGED <<box, proc>> /\ faults' \in 0..MaxFaults
          /\ LeakInv' /\ StrayInv' /\ Used' = Used
      BY <1>4, FailsFacts DEF IInv
    <2>2. TypeOK'
      BY <1>0, <1>4, <2>1 DEF IInv, TypeOK
    <2>3. HandsInv' /\ StageInv'
      BY <1>0, <1>4, <2>1 DEF IInv, HandsInv, StageInv
    <2>4. CountInv'
      <3>1. BuildBoxes = 0
        BY <1>0 DEF BuildBoxes
      <3> QED
        BY <1>1, <2>1, <3>1, CountKeeps, CountsTyped DEF IInv
    <2> QED
      BY <2>1, <2>2, <2>3, <2>4 DEF IInv
  <1> QED
    BY <1>3, <1>4 DEF Setup

\* ... and hands it to the session once it runs.
LEMMA SetupStartsKeeps ==
  ASSUME IInv, SetupStarts
  PROVE  IInv'
  <1>0. /\ phase = "starting" /\ current = None /\ throwaway = None
        /\ held # None /\ held \in Containers /\ Live(held)
        /\ Recovering = {} /\ \A c \in Commands : mine[c] = None
        /\ \A c \in Commands : pc[c] \in {"idle", "done"}
        /\ held' = None
        /\ UNCHANGED <<backend, throwaway, pc, mine, result, overlap>>
    BY NobodyRecovers DEF SetupStarts, commands, IInv, TypeOK, StageInv, HandsInv
  <1>1. Recovering' = Recovering /\ Creators' = Creators
    BY <1>0 DEF Recovering, Creators
  <1>2. BuildBoxes = 1 /\ BuildBoxes' \in 1..2
    BY <1>0 DEF SetupStarts, BuildBoxes
  <1>3. CASE Becomes(held, "running") /\ phase' = "install" /\ current' = held
    <2>1. /\ box' \in [Containers -> {"absent", "created", "running", "removed"}]
          /\ box'[held] = "running" /\ \A x \in Containers \ {held} : box'[x] = box[x]
          /\ UNCHANGED <<proc, faults>>
      BY <1>0, <1>3 DEF Becomes, IInv, TypeOK
    <2>2. TypeOK'
      BY <1>0, <1>3, <2>1 DEF IInv, TypeOK
    <2>3. HandsInv'
      BY <1>0, <1>3, <2>1 DEF HandsInv
    <2>4. StageInv'
      BY <1>0, <1>3, <2>1 DEF IInv, StageInv
    <2>5. LeakInv'
      <3> SUFFICES ASSUME faults = 0, ~overlap
                   PROVE  \A b \in Containers : Live(b)' => b = current'
        BY <1>0, <1>1, <2>1 DEF LeakInv
      <3>1. \A b \in Containers : Live(b) => b \in {None, held}
        BY <1>0 DEF IInv, LeakInv
      <3>2. \A b \in Containers \ {held} : Live(b)' => Live(b) /\ b # None
        BY <2>1 DEF Live, None, Containers
      <3> QED
        BY <1>3, <3>1, <3>2
    <2>6. StrayInv'
      BY <1>0, <1>1, <2>1 DEF IInv, StrayInv, Doomed
    <2>7. CountInv'
      <3>1. Used' = Used
        BY <1>0, <2>1 DEF Used, Live
      <3> QED
        BY <1>1, <1>2, <3>1, CountKeeps, CountsTyped DEF IInv
    <2> QED
      BY <2>2, <2>3, <2>4, <2>5, <2>6, <2>7 DEF IInv
  <1>4. CASE DaemonFails /\ phase' = "raised" /\ UNCHANGED current
    <2>1. /\ UNCHANGED <<box, proc>> /\ faults' \in 0..MaxFaults
          /\ LeakInv' /\ StrayInv' /\ Used' = Used
      BY <1>4, FailsFacts DEF IInv
    <2>2. TypeOK'
      BY <1>0, <1>4, <2>1 DEF IInv, TypeOK
    <2>3. HandsInv' /\ StageInv'
      BY <1>0, <1>4, <2>1 DEF IInv, HandsInv, StageInv
    <2>4. CountInv'
      BY <1>1, <1>2, <2>1, CountKeeps, CountsTyped DEF IInv
    <2> QED
      BY <2>1, <2>2, <2>3, <2>4 DEF IInv
  <1> QED
    BY <1>3, <1>4 DEF SetupStarts

\* The build of a session that needs no container for its dependencies, or that gives the
\* thread up which has it, is over.
LEMMA BuiltKeeps ==
  ASSUME IInv, InstallSkipped \/ InstallOnHost \/ InstallGivenUp
  PROVE  IInv'
  <1>0. /\ phase \in {"install", "installing"} /\ phase' = "ready"
        /\ held = None
        /\ UNCHANGED <<backend, current, held, throwaway, box, proc, faults, pc, mine, result, overlap>>
    BY DEF InstallSkipped, InstallOnHost, InstallGivenUp, commands, IInv, StageInv
  <1>1. TypeOK'
    BY <1>0 DEF IInv, TypeOK
  <1>2. HandsInv'
    BY <1>0 DEF IInv, HandsInv, Live
  <1>3. StageInv'
    BY <1>0 DEF IInv, StageInv
  <1>4. LeakInv'
    BY <1>0 DEF IInv, LeakInv, Live, Recovering
  <1>5. StrayInv'
    BY <1>0 DEF IInv, StrayInv, Doomed, Recovering
  <1>6. CountInv'
    <2>1. Used' = Used /\ Creators' = Creators /\ BuildBoxes <= BuildBoxes'
      BY <1>0 DEF Used, Creators, BuildBoxes
    <2> QED
      BY <2>1, CountKeeps, CountsTyped DEF IInv
  <1> QED
    BY <1>1, <1>2, <1>3, <1>4, <1>5, <1>6 DEF IInv

\* The container of the install is nobody else's; when its creation is what failed,
\* nobody has it.
LEMMA InstallStartsKeeps ==
  ASSUME IInv, InstallStarts
  PROVE  IInv'
  <1>0. /\ phase = "install" /\ held = None /\ throwaway = None
        /\ Recovering = {} /\ \A c \in Commands : mine[c] = None
        /\ \A c \in Commands : pc[c] \in {"idle", "done"}
        /\ UNCHANGED <<backend, current, held, pc, mine, result, overlap>>
    BY NobodyRecovers DEF InstallStarts, commands, IInv, StageInv
  <1>1. Recovering' = Recovering /\ Creators' = Creators
    BY <1>0 DEF Recovering, Creators
  <1>2. PICK b \in Containers : b = Fresh /\ box[b] = "absent"
    BY <1>0, FreshIsFresh
  <1>3. BuildBoxes' = BuildBoxes + 1
    BY <1>0 DEF InstallStarts, BuildBoxes
  <1>4. CASE Becomes(Fresh, "running") /\ throwaway' = Fresh /\ phase' = "installing"
    <2>0. box' = [box EXCEPT ![b] = "running"] /\ UNCHANGED <<proc, faults>> /\ throwaway' = b
      BY <1>2, <1>4 DEF Becomes
    <2>1. /\ box' \in [Containers -> {"absent", "created", "running", "removed"}]
          /\ box'[b] = "running" /\ \A x \in Containers \ {b} : box'[x] = box[x]
          /\ \A x \in Containers \ {b} : Live(x)' = Live(x)
          /\ b # None /\ b # current /\ Used' = Used \cup {b}
      BY <2>0, <1>2, CreatesFacts DEF IInv
    <2>2. TypeOK'
      BY <1>0, <1>4, <2>0, <2>1 DEF IInv, TypeOK
    <2>3. HandsInv'
      <3>1. current # None => box'[current] = "running"
        BY <2>1 DEF IInv, TypeOK, HandsInv
      <3> QED
        BY <1>0, <2>0, <2>1, <3>1 DEF HandsInv, Live
    <2>4. StageInv'
      BY <1>0, <1>4, <2>0, <2>1 DEF IInv, StageInv
    <2>5. LeakInv'
      BY <1>0, <1>1, <2>0, <2>1 DEF IInv, LeakInv
    <2>6. StrayInv'
      BY <1>0, <1>1, <2>0 DEF IInv, StrayInv, Doomed
    <2>7. CountInv'
      BY <1>1, <1>3, <2>1, CountAdds DEF IInv
    <2> QED
      BY <2>2, <2>3, <2>4, <2>5, <2>6, <2>7 DEF IInv
  <1>5. CASE /\ faults < MaxFaults /\ faults' = faults + 1
             /\ box' = [box EXCEPT ![Fresh] = "created"]
             /\ phase' = "raised"
             /\ UNCHANGED <<throwaway, proc>>
    <2>0. box' = [box EXCEPT ![b] = "created"]
      BY <1>2, <1>5
    <2>1. /\ box' \in [Containers -> {"absent", "created", "running", "removed"}]
          /\ box'[b] = "created" /\ \A x \in Containers \ {b} : box'[x] = box[x]
          /\ b # None /\ b # current /\ Used' = Used \cup {b}
      BY <2>0, <1>2, CreatesFacts DEF IInv
    <2>2. faults' \in 0..MaxFaults /\ faults' # 0
      BY <1>5, SandboxAssumption DEF IInv, TypeOK
    <2>3. TypeOK'
      BY <1>0, <1>5, <2>1, <2>2 DEF IInv, TypeOK
    <2>4. HandsInv'
      <3>1. current # None => box'[current] = "running"
        BY <2>1 DEF IInv, TypeOK, HandsInv
      <3> QED
        BY <1>0, <1>5, <3>1 DEF IInv, HandsInv
    <2>5. StageInv'
      BY <1>0, <1>5 DEF IInv, StageInv
    <2>6. LeakInv' /\ StrayInv'
      BY <2>2 DEF LeakInv, StrayInv
    <2>7. CountInv'
      BY <1>1, <1>3, <2>1, CountAdds DEF IInv
    <2> QED
      BY <2>3, <2>4, <2>5, <2>6, <2>7 DEF IInv
  <1> QED
    BY <1>4, <1>5 DEF InstallStarts

\* It is removed by the thread that has it, in time or late.
LEMMA ThrowawayKeeps ==
  ASSUME IInv, InstallReturns \/ InstallEndsLate
  PROVE  IInv'
  <1>0. /\ throwaway # None /\ throwaway \in Containers /\ Live(throwaway)
        /\ throwaway' = None
        /\ phase' = phase \/ (phase = "installing" /\ phase' \in {"ready", "raised"})
        /\ UNCHANGED <<backend, current, held, pc, mine, result, overlap>>
        /\ Removes(throwaway) \/ DaemonFails
    BY DEF InstallReturns, InstallEndsLate, commands, IInv, TypeOK, StageInv, HandsInv
  <1>1. Recovering' = Recovering /\ Creators' = Creators
    BY <1>0 DEF Recovering, Creators
  <1>2. BuildBoxes' = BuildBoxes
    <2>1. phase \notin {"setup", "starting", "install"}
      BY <1>0 DEF IInv, StageInv
    <2> QED
      BY <1>0, <2>1 DEF BuildBoxes
  <1>3. phase' \in {"setup", "starting", "install", "installing", "ready", "closing",
                    "closed", "raised"}
    BY <1>0 DEF IInv, TypeOK
  <1>4. ~(phase' = "installing")
    BY DEF InstallReturns, InstallEndsLate
  <1>5. CASE Removes(throwaway)
    <2>0. PICK b \in Containers : b = throwaway
      BY <1>0
    <2>1. /\ box' \in [Containers -> {"absent", "created", "running", "removed"}]
          /\ box'[b] = "removed" /\ \A x \in Containers \ {b} : box'[x] = box[x]
          /\ proc' \in [Commands -> {None, Group, Orphans} \cup Containers]
          /\ \A d \in Commands : proc'[d] = (IF proc[d] = b THEN None ELSE proc[d])
          /\ Used' = Used /\ faults' = faults
      <3>1. TypeOK /\ Live(b) /\ Removes(b)
        BY <1>0, <1>5, <2>0 DEF IInv
      <3> QED
        BY <3>1, RemovesFacts
    <2>2. TypeOK'
      BY <1>0, <1>3, <2>1 DEF IInv, TypeOK
    <2>3. HandsInv'
      BY <1>0, <2>0, <2>1 DEF IInv, TypeOK, HandsInv, Live
    <2>4. StageInv'
      BY <1>0, <1>4, <2>1 DEF IInv, StageInv
    <2>5. LeakInv'
      <3> SUFFICES ASSUME faults = 0, ~overlap
                   PROVE  /\ \A x \in Containers : Live(x)' =>
                               \/ x \in {current, held}
                               \/ \E d \in Commands : mine[d] = x
                          /\ \A d \in Recovering : current = None /\ \A e \in Recovering : e = d
        BY <1>0, <1>1, <2>1 DEF LeakInv
      <3>1. /\ \A x \in Containers : Live(x) =>
                 x \in {current, held, throwaway} \/ \E d \in Commands : mine[d] = x
            /\ \A d \in Recovering : current = None /\ \A e \in Recovering : e = d
        BY DEF IInv, LeakInv
      <3>2. \A x \in Containers : Live(x)' => Live(x) /\ x # throwaway
        BY <2>0, <2>1 DEF Live
      <3> QED
        BY <3>1, <3>2
    <2>6. StrayInv'
      <3> SUFFICES ASSUME backend = "docker", faults = 0, ~overlap, NEW d \in Commands
                   PROVE  /\ pc[d] = "exec" => proc'[d] \in {None, current} \/ Doomed(d)'
                          /\ d \in Recovering \/ result[d] = "timeout" =>
                               proc'[d] = None \/ Doomed(d)'
        BY <1>0, <1>1, <2>1 DEF StrayInv
      <3>1. /\ pc[d] = "exec" => proc[d] \in {None, current} \/ Doomed(d)
            /\ d \in Recovering \/ result[d] = "timeout" => proc[d] = None \/ Doomed(d)
        BY DEF IInv, StrayInv
      <3>2. Doomed(d) => proc'[d] = None \/ Doomed(d)'
        BY <1>0, <2>1 DEF Doomed
      <3> QED
        BY <2>1, <3>1, <3>2
    <2>7. CountInv'
      BY <1>1, <1>2, <2>1, CountKeeps, CountsTyped DEF IInv
    <2> QED
      BY <2>2, <2>3, <2>4, <2>5, <2>6, <2>7 DEF IInv
  <1>6. CASE DaemonFails
    <2>1. /\ UNCHANGED <<box, proc>> /\ faults' \in 0..MaxFaults
          /\ LeakInv' /\ StrayInv' /\ Used' = Used
      BY <1>6, FailsFacts DEF IInv
    <2>2. TypeOK'
      BY <1>0, <1>3, <2>1 DEF IInv, TypeOK
    <2>3. HandsInv'
      BY <1>0, <2>1 DEF IInv, HandsInv, Live
    <2>4. StageInv'
      BY <1>0, <1>4, <2>1 DEF IInv, StageInv
    <2>5. CountInv'
      BY <1>1, <1>2, <2>1, CountKeeps, CountsTyped DEF IInv
    <2> QED
      BY <2>1, <2>2, <2>3, <2>4, <2>5 DEF IInv
  <1> QED
    BY <1>0, <1>5, <1>6

-----------------------------------------------------------------------------
\* teardown() takes the session's container away before it removes it.
LEMMA TeardownKeeps ==
  ASSUME IInv, Teardown
  PROVE  IInv'
  <1>0. /\ phase = "ready" /\ held = None /\ held' = current /\ current' = None
        /\ Recovering = {} /\ \A c \in Commands : mine[c] = None
        /\ \A c \in Commands : pc[c] \in {"idle", "done"}
        /\ phase' = IF current = None THEN "closed" ELSE "closing"
        /\ UNCHANGED <<backend, throwaway, box, proc, faults, pc, mine, result, overlap>>
    BY NobodyRecovers DEF Teardown, commands, IInv, StageInv
  <1>1. TypeOK'
    BY <1>0 DEF IInv, TypeOK
  <1>2. HandsInv'
    BY <1>0 DEF IInv, HandsInv, Live
  <1>3. StageInv'
    BY <1>0 DEF IInv, StageInv
  <1>4. LeakInv'
    BY <1>0 DEF IInv, LeakInv, Live, Recovering
  <1>5. StrayInv'
    BY <1>0 DEF IInv, StrayInv, Doomed, Recovering
  <1>6. CountInv'
    <2>1. Used' = Used /\ Creators' = Creators /\ BuildBoxes' = BuildBoxes
      BY <1>0 DEF Used, Creators, BuildBoxes
    <2> QED
      BY <2>1, CountKeeps, CountsTyped DEF IInv
  <1> QED
    BY <1>1, <1>2, <1>3, <1>4, <1>5, <1>6 DEF IInv

\* The teardown removes the container it holds, when no recovery is under way.
LEMMA TornDownKeeps ==
  ASSUME IInv, TornDown
  PROVE  IInv'
  <1>0. /\ phase = "closing" /\ phase' = "closed" /\ current = None
        /\ held # None /\ held \in Containers /\ Live(held) /\ held # throwaway
        /\ held' = None
        /\ Recovering = {} /\ \A c \in Commands : mine[c] = None
        /\ \A c \in Commands : pc[c] \in {"idle", "done"}
        /\ UNCHANGED <<backend, current, throwaway, pc, mine, result, overlap>>
        /\ Removes(held) \/ DaemonFails
    BY NobodyRecovers DEF TornDown, commands, IInv, TypeOK, HandsInv, StageInv
  <1>1. Recovering' = Recovering /\ Creators' = Creators /\ BuildBoxes' = BuildBoxes
    BY <1>0 DEF Recovering, Creators, BuildBoxes
  <1>2. CASE Removes(held)
    <2>0. PICK b \in Containers : b = held
      BY <1>0
    <2>1. /\ box' \in [Containers -> {"absent", "created", "running", "removed"}]
          /\ box'[b] = "removed" /\ \A x \in Containers \ {b} : box'[x] = box[x]
          /\ proc' \in [Commands -> {None, Group, Orphans} \cup Containers]
          /\ \A d \in Commands : proc'[d] = (IF proc[d] = b THEN None ELSE proc[d])
          /\ Used' = Used /\ faults' = faults
      <3>1. TypeOK /\ Live(b) /\ Removes(b)
        BY <1>0, <1>2, <2>0 DEF IInv
      <3> QED
        BY <3>1, RemovesFacts
    <2>2. TypeOK'
      BY <1>0, <2>1 DEF IInv, TypeOK
    <2>3. HandsInv'
      BY <1>0, <2>0, <2>1 DEF IInv, TypeOK, HandsInv, Live
    <2>4. StageInv'
      BY <1>0, <2>1 DEF IInv, StageInv
    <2>5. LeakInv'
      <3> SUFFICES ASSUME faults = 0, ~overlap, NEW x \in Containers, Live(x)'
                   PROVE  x = throwaway
        BY <1>0, <1>1, <2>1 DEF LeakInv
      <3>1. Live(x) /\ x # held
        BY <2>0, <2>1 DEF Live
      <3>2. x # None
        BY DEF None, Containers
      <3> QED
        BY <1>0, <3>1, <3>2 DEF IInv, LeakInv
    <2>6. StrayInv'
      <3> SUFFICES ASSUME backend = "docker", faults = 0, ~overlap, NEW d \in Commands,
                          result[d] = "timeout"
                   PROVE  proc'[d] = None
        BY <1>0, <1>1, <2>1 DEF StrayInv
      <3>1. proc[d] = None \/ Doomed(d)
        BY DEF IInv, StrayInv
      <3> QED
        BY <1>0, <2>1, <3>1 DEF Doomed
    <2>7. CountInv'
      BY <1>1, <2>1, CountKeeps, CountsTyped DEF IInv
    <2> QED
      BY <2>2, <2>3, <2>4, <2>5, <2>6, <2>7 DEF IInv
  <1>3. CASE DaemonFails
    <2>1. /\ UNCHANGED <<box, proc>> /\ faults' \in 0..MaxFaults
          /\ LeakInv' /\ StrayInv' /\ Used' = Used
      BY <1>3, FailsFacts DEF IInv
    <2>2. TypeOK'
      BY <1>0, <2>1 DEF IInv, TypeOK
    <2>3. HandsInv'
      BY <1>0, <2>1 DEF IInv, HandsInv, Live
    <2>4. StageInv'
      BY <1>0, <2>1 DEF IInv, StageInv
    <2>5. CountInv'
      BY <1>1, <2>1, CountKeeps, CountsTyped DEF IInv
    <2> QED
      BY <2>1, <2>2, <2>3, <2>4, <2>5 DEF IInv
  <1> QED
    BY <1>0, <1>2, <1>3

-----------------------------------------------------------------------------
\* Every step keeps the invariant.
LEMMA NextKeepsIInv == IInv /\ [Next]_vars => IInv'
  <1> SUFFICES ASSUME IInv, [Next]_vars
               PROVE  IInv'
    OBVIOUS
  <1>1. CASE Build
    BY <1>1, SetupKeeps, SetupStartsKeeps, BuiltKeeps, InstallStartsKeeps, ThrowawayKeeps DEF Build
  <1>2. ASSUME NEW c \in Commands, Run(c) \/ Spawn(c)
        PROVE  IInv'
    BY <1>2, RunKeeps
  <1>3. ASSUME NEW c \in Commands, Proceed(c)
        PROVE  IInv'
    <2>1. CASE \/ ExecStarts(c) \/ ExecReturns(c) \/ ExecFails(c) \/ Communicated(c)
               \/ KillGroup(c) \/ Drained(c)
      BY <2>1, ExecKeeps
    <2>2. CASE TimesOut(c)
      BY <2>2, TimesOutKeeps
    <2>3. CASE RecoveryRemoves(c)
      BY <2>3, RecoveryRemovesKeeps
    <2>4. CASE RecoveryCreates(c)
      BY <2>4, RecoveryCreatesKeeps
    <2>5. CASE RecoveryStarts(c)
      BY <2>5, RecoveryStartsKeeps
    <2> QED
      BY <1>3, <2>1, <2>2, <2>3, <2>4, <2>5 DEF Proceed
  <1>4. ASSUME NEW c \in Commands, StrayEnds(c) \/ LeaderEnds(c)
        PROVE  IInv'
    BY <1>4, ProcessKeeps
  <1>5. CASE Teardown \/ TornDown
    BY <1>5, TeardownKeeps, TornDownKeeps
  <1>6. CASE UNCHANGED vars
    <2>0. UNCHANGED <<backend, phase, current, held, throwaway, box, pc, mine, result, overlap,
                      proc, faults>>
      BY <1>6 DEF vars, commands
    <2>1. TypeOK' /\ HandsInv'
      BY <2>0 DEF IInv, TypeOK, HandsInv, Live
    <2>2. StageInv' /\ LeakInv'
      BY <2>0 DEF IInv, StageInv, LeakInv, Live, Recovering
    <2>3. StrayInv'
      BY <2>0 DEF IInv, StrayInv, Doomed, Recovering
    <2>4. CountInv'
      BY <2>0 DEF IInv, CountInv, Used, Creators, BuildBoxes
    <2> QED
      BY <2>1, <2>2, <2>3, <2>4 DEF IInv
  <1> QED
    BY <1>1, <1>2, <1>3, <1>4, <1>5, <1>6 DEF Next

\* The strengthening of the three theorems holds of every behaviour.
LEMMA Inductive == Spec => []IInv
  BY InitIInv, NextKeepsIInv, PTL DEF Spec

\* The session's container runs and is about to be removed by nobody, however many
\* recoveries of timed-out commands overlap (DockerSandbox._recover_after_timeout takes
\* the container away before it awaits).
THEOREM HandedOutRuns == Spec => []CurrentRuns
  <1>1. IInv => CurrentRuns
    BY DEF IInv, HandsInv, CurrentRuns
  <1> QED
    BY Inductive, <1>1, PTL

\* The types, and that nothing is left behind by a session that was torn down after
\* neither a failing call nor two recoveries at once (DockerSandbox.teardown).
THEOREM NothingLeaks == Spec => []ContainersAccounted
  <1>1. IInv => ContainersAccounted
    <2> SUFFICES ASSUME IInv
                 PROVE  ContainersAccounted
      OBVIOUS
    <2>1. TypeOK
      BY DEF IInv
    <2>2. NothingLeftBehind
      <3> SUFFICES ASSUME phase = "closed", faults = 0, ~overlap, NEW b \in Containers, Live(b)
                   PROVE  b = throwaway
        BY DEF NothingLeftBehind
      <3>1. current = None /\ held = None /\ \A c \in Commands : mine[c] = None
        BY DEF IInv, StageInv
      <3>2. b # None
        BY DEF None, Containers
      <3> QED
        BY <3>1, <3>2 DEF IInv, LeakInv
    <2> QED
      BY <2>1, <2>2 DEF ContainersAccounted
  <1> QED
    BY Inductive, <1>1, PTL

\* Under the same condition the processes of a timed-out command are gone, or are in a
\* container that another recovery removes next.
THEOREM TimeoutsLeaveNoWriter == Spec => []StraysAreDoomed
  <1>1. IInv => StraysAreDoomed
    BY DEF IInv, StrayInv, Doomed, StraysAreDoomed
  <1> QED
    BY Inductive, <1>1, PTL
=============================================================================
