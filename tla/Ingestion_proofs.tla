---------------------------- MODULE Ingestion_proofs ----------------------------
(***************************************************************************)
(* Theorems about Ingestion for any number of sessions, repositories and   *)
(* slots, any ceiling, and any number of failed commits and restarts, and  *)
(* about Workspace for any tree, any texts, limits and edits.              *)
(*                                                                         *)
(* That the log tells how far a session came is not inductive: an event    *)
(* says nothing of where the run is that appends the next.  CountInv counts *)
(* the events at every await, DirInv says from which await on there is a   *)
(* workspace, and RowInv when there can be a row.  They speak of one       *)
(* session, for a step of one session leaves what they say of the others   *)
(* alone.                                                                  *)
(*                                                                         *)
(* That the disk is bounded is about all of them: DiskInv charges each     *)
(* session that may still fill its workspace, at work or outlived, with    *)
(* the largest there is (Reserve) and bounds the sum.  The lemmas on sums over finite sets that *)
(* it takes are proved here.                                               *)
(*                                                                         *)
(* What Workspace shows is a function of the files: its invariant, WsInv,  *)
(* only says that they are a tree.  The proofs are about its operators.  A *)
(* walk or a scan is a recursive function, given by CHOOSE, so first such  *)
(* a function must be there (RecursionExists); what it has after i entries *)
(* is then shown for i = 0, and for i + 1 from i (UpTo).                   *)
(***************************************************************************)
EXTENDS IngestionProps, WorkspaceProps, SequenceTheorems, FiniteSetTheorems, WellFoundedInduction, TLAPS

Whys == {"timed out", "private", "not found", "unreachable", "failed", "empty",
         "no branch", "no issue"}
StepNames == {"workspace_created", "cloned", "issue_resolved", "profiled", "indexed"}
Events == StepNames \cup Whys

\* Where a run is, and how many events are then in its log.
Counted == {"new", "queued", "create", "created", "clone", "sha", "branch", "head", "issue",
            "profile", "index", "record", "working", "over"}
Count(p) ==
    CASE p \in {"new", "queued", "create", "created"} -> 0
      [] p \in {"clone", "sha", "branch", "head"}     -> 1
      [] p = "issue"                                  -> 2
      [] p = "profile"                                -> 3
      [] p = "index"                                  -> 4
      [] p \in {"record", "working", "over"}          -> 5
Places == Counted \cup {"failed", "crashed", "forgotten"}

TypeOK ==
    /\ pc \in [Sessions -> Places]
    /\ dirs \subseteq Sessions
    /\ log \in [Sessions -> Seq(Events)]
    /\ DOMAIN row = Sessions

\* The events of a log are the steps in order, and only a failure follows them.
OrderInv(s) ==
    \A i \in DOMAIN log[s] :
        \/ i \in DOMAIN Steps /\ log[s][i] = Steps[i]
        \/ i = Len(log[s]) /\ pc[s] = "failed" /\ log[s][i] \in Whys

CountInv(s) == pc[s] \in Counted => Len(log[s]) = Count(pc[s])

\* There is a workspace from create() on.
DirInv(s) == log[s] # <<>> \/ pc[s] = "created" => s \in dirs

\* Only a session that is through with its steps has a row, and it is of its clone.
RowInv(s) ==
    row[s] # NoRow =>
        /\ pc[s] \in {"working", "over", "crashed"} /\ Len(log[s]) = 5
        /\ row[s] = Profile(repo[s], Languages)

SessionInv(s) == OrderInv(s) /\ CountInv(s) /\ DirInv(s) /\ RowInv(s)

IInv == TypeOK /\ \A s \in Sessions : SessionInv(s)

-----------------------------------------------------------------------------
\* The steps by name and by number.
LEMMA StepsAre ==
  /\ Steps \in Seq(Events) /\ Len(Steps) = 5 /\ DOMAIN Steps = 1..5
  /\ Steps[1] = "workspace_created" /\ Steps[2] = "cloned" /\ Steps[3] = "issue_resolved"
  /\ Steps[4] = "profiled" /\ Steps[5] = "indexed"
  /\ \A i \in 1..5 : Steps[i] \in Events
  <1>1. \A i \in 1..5 : i = 1 \/ i = 2 \/ i = 3 \/ i = 4 \/ i = 5
    OBVIOUS
  <1> QED
    BY <1>1 DEF Steps, Events, StepNames

\* A run goes on behind its event to the await where that many are in the log.
LEMMA EventLeadsOn ==
  /\ {"clone", "issue", "profile", "index", "record"} \subseteq Counted \ {"created"}
  /\ Count("created") = 0 /\ Count("clone") = 1 /\ Count("branch") = 1 /\ Count("head") = 1
  /\ Count("issue") = 2 /\ Count("profile") = 3 /\ Count("index") = 4 /\ Count("record") = 5
  BY DEF Count, Counted

\* An event is a step exactly if it has the name of one.
LEMMA StepHasName ==
  ASSUME NEW e
  PROVE  IsStep(e) <=> e \in StepNames
  <1>1. ToSet(Steps) = {Steps[i] : i \in DOMAIN Steps}
    BY DEF ToSet
  <1>2. {Steps[i] : i \in DOMAIN Steps} = StepNames
    <2>1. ASSUME NEW x \in StepNames
          PROVE  \E i \in 1..5 : Steps[i] = x
      BY StepsAre DEF StepNames
    <2>2. ASSUME NEW i \in 1..5
          PROVE  Steps[i] \in StepNames
      <3>1. i = 1 \/ i = 2 \/ i = 3 \/ i = 4 \/ i = 5
        OBVIOUS
      <3> QED
        BY <3>1, StepsAre DEF StepNames
    <2> QED
      BY <2>1, <2>2, StepsAre
  <1> QED
    BY <1>1, <1>2 DEF IsStep

\* Nothing is launched yet.
LEMMA InitIInv == Init => IInv
  <1> SUFFICES ASSUME Init
               PROVE  IInv
    OBVIOUS
  <1>1. TypeOK
    BY DEF Init, TypeOK, Places, Count, Counted
  <1>2. ASSUME NEW s \in Sessions
        PROVE  SessionInv(s)
    <2>1. pc[s] = "new" /\ log[s] = <<>> /\ row[s] = NoRow
      BY DEF Init
    <2>2. OrderInv(s) /\ DirInv(s) /\ RowInv(s)
      BY <2>1 DEF OrderInv, DirInv, RowInv
    <2>3. CountInv(s)
      BY <2>1 DEF CountInv, Count, Counted
    <2> QED
      BY <2>2, <2>3 DEF SessionInv
  <1> QED
    BY <1>1, <1>2 DEF IInv

-----------------------------------------------------------------------------
\* A step that leaves a session's run, log and row alone, and its workspace where it is,
\* keeps what is said of it.
LEMMA LeftAlone ==
  ASSUME IInv, NEW t \in Sessions, pc'[t] = pc[t], log'[t] = log[t], row'[t] = row[t],
         repo' = repo, dirs \subseteq dirs'
  PROVE  SessionInv(t)'
  <1>1. SessionInv(t)
    BY DEF IInv
  <1>2. OrderInv(t)' /\ DirInv(t)'
    BY <1>1 DEF SessionInv, OrderInv, DirInv
  <1>3. CountInv(t)'
    BY <1>1 DEF SessionInv, CountInv
  <1>4. RowInv(t)'
    BY <1>1 DEF SessionInv, RowInv
  <1> QED
    BY <1>2, <1>3, <1>4 DEF SessionInv

\* A session goes from one place to another without an event, and without a workspace that
\* it loses: what is said of it holds there if as many events belong to both places.
LEMMA Glides ==
  ASSUME IInv, NEW s \in Sessions, NEW q \in Places, pc' = [pc EXCEPT ![s] = q],
         q = "failed" \/ q = "crashed" \/
            (pc[s] \in Counted /\ Count(q) = Count(pc[s]) /\ q # "created"),
         pc[s] # "failed",
         UNCHANGED <<log, repo, row>>, dirs \subseteq dirs', dirs' \subseteq Sessions,
         row[s] # NoRow => q \in {"over", "crashed"}
  PROVE  IInv'
  <1>1. TypeOK'
    BY DEF IInv, TypeOK
  <1>2. pc'[s] = q /\ \A t \in Sessions \ {s} : pc'[t] = pc[t]
    BY DEF IInv, TypeOK
  <1>3. SessionInv(s)
    BY DEF IInv
  <1>4. OrderInv(s)' /\ DirInv(s)'
    BY <1>2, <1>3 DEF SessionInv, OrderInv, DirInv
  <1>5. CountInv(s)'
    BY <1>2, <1>3 DEF SessionInv, CountInv, Count, Counted
  <1>6. RowInv(s)'
    BY <1>2, <1>3 DEF SessionInv, RowInv
  <1>7. \A t \in Sessions : SessionInv(t)'
    BY <1>2, <1>4, <1>5, <1>6, LeftAlone DEF SessionInv
  <1> QED
    BY <1>1, <1>7 DEF IInv

\* _emit(): the next step, the reason of a failure, or a failed commit.
LEMMA EmitKeeps ==
  ASSUME IInv, NEW s \in Sessions, NEW step, NEW label, Emit(s, step, label),
         pc[s] \in Counted, s \in dirs, row[s] = NoRow,
         \/ step \in Whys /\ label = "failed"
         \/ /\ label \in Counted \ {"created"} /\ Count(label) = Count(pc[s]) + 1
            /\ Count(label) \in 1..5 /\ step = Steps[Count(label)],
         UNCHANGED <<repo, dirs, row>>
  PROVE  IInv'
  <1>1. CASE Fault /\ Goes(s, "crashed") /\ UNCHANGED log
    BY <1>1, Glides DEF Goes, Places, Count, Counted, IInv, TypeOK
  <1>2. CASE log' = [log EXCEPT ![s] = Append(@, step)] /\ Goes(s, label)
    <2>1. step \in Events /\ label \in Places
      BY StepsAre DEF Events, Places
    <2>2. pc' = [pc EXCEPT ![s] = label]
      BY <1>2 DEF Goes
    <2>3. log[s] \in Seq(Events)
      BY DEF IInv, TypeOK
    <2>4. /\ Append(log[s], step) \in Seq(Events)
          /\ Len(Append(log[s], step)) = Len(log[s]) + 1
          /\ \A i \in 1..Len(log[s]) : Append(log[s], step)[i] = log[s][i]
          /\ Append(log[s], step)[Len(log[s]) + 1] = step
      BY <2>1, <2>3
    <2>5. TypeOK'
      BY <1>2, <2>1, <2>2, <2>4 DEF IInv, TypeOK
    <2>6. pc'[s] = label /\ \A t \in Sessions \ {s} : pc'[t] = pc[t]
      BY <2>2 DEF IInv, TypeOK
    <2>7. log'[s] = Append(log[s], step) /\ \A t \in Sessions \ {s} : log'[t] = log[t]
      BY <1>2 DEF IInv, TypeOK
    <2>8. SessionInv(s)
      BY DEF IInv
    <2>9. Len(log[s]) = Count(pc[s])
      BY <2>8 DEF SessionInv, CountInv
    <2>10. pc[s] # "failed" /\ \A i \in 1..Len(log[s]) : i \in DOMAIN Steps /\ log[s][i] = Steps[i]
      BY <2>3, <2>8 DEF SessionInv, OrderInv, Count, Counted
    <2>11. OrderInv(s)'
      <3> SUFFICES ASSUME NEW i \in DOMAIN log'[s]
                   PROVE  \/ i \in DOMAIN Steps /\ log'[s][i] = Steps[i]
                          \/ i = Len(log'[s]) /\ pc'[s] = "failed" /\ log'[s][i] \in Whys
        BY DEF OrderInv
      <3>1. i \in 1..(Len(log[s]) + 1) /\ Len(log[s]) \in Nat
        BY <2>3, <2>4, <2>7
      <3>2. CASE i # Len(log[s]) + 1
        BY <2>4, <2>7, <2>10, <3>1, <3>2
      <3>3. CASE i = Len(log[s]) + 1
        <4>1. log'[s][i] = step /\ i = Len(log'[s])
          BY <2>4, <2>7, <3>3
        <4>2. CASE label = "failed"
          BY <2>6, <4>1, <4>2 DEF Counted
        <4>3. CASE label # "failed"
          BY <2>9, <3>3, <4>1, <4>3, StepsAre
        <4> QED
          BY <4>2, <4>3
      <3> QED
        BY <3>2, <3>3
    <2>12. CountInv(s)'
      <3>1. "failed" \notin Counted
        BY DEF Count, Counted
      <3> QED
        BY <2>4, <2>6, <2>7, <2>9, <3>1 DEF CountInv
    <2>13. DirInv(s)' /\ RowInv(s)'
      BY DEF DirInv, RowInv
    <2>14. ASSUME NEW t \in Sessions \ {s}
           PROVE  SessionInv(t)'
      BY <2>6, <2>7, LeftAlone
    <2> QED
      BY <2>5, <2>11, <2>12, <2>13, <2>14 DEF IInv, SessionInv
  <1> QED
    BY <1>1, <1>2 DEF Emit

\* A session that has neither failed nor been recorded has its clone's workspace.
LEMMA AtWork ==
  ASSUME IInv, NEW s \in Sessions,
         pc[s] \in {"created", "clone", "sha", "branch", "head", "issue", "profile", "index",
                    "record"}
  PROVE  pc[s] \in Counted /\ s \in dirs /\ row[s] = NoRow
  <1>1. SessionInv(s) /\ log[s] \in Seq(Events)
    BY DEF IInv, TypeOK
  <1>2. pc[s] \in Counted
    BY DEF Count, Counted
  <1>3. row[s] = NoRow
    BY <1>1 DEF SessionInv, RowInv
  <1>4. pc[s] = "created" \/ Len(log[s]) # 0
    BY <1>1, <1>2 DEF SessionInv, CountInv, Count, Counted
  <1>5. s \in dirs
    BY <1>1, <1>4 DEF SessionInv, DirInv
  <1> QED
    BY <1>2, <1>3, <1>5

-----------------------------------------------------------------------------
\* POST /sessions, and launch().
LEMMA LaunchKeeps ==
  ASSUME IInv, NEW s \in Sessions, Post(s) \/ Launch(s)
  PROVE  IInv'
  <1>1. /\ \/ pc[s] = "new" /\ pc' = [pc EXCEPT ![s] = "queued"]
           \/ pc[s] = "queued" /\ pc' = [pc EXCEPT ![s] = "create"]
        /\ UNCHANGED <<repo, dirs, log, row>>
    BY DEF Post, Launch, Goes
  <1>2. row[s] = NoRow
    BY <1>1 DEF IInv, SessionInv, RowInv
  <1> QED
    BY <1>1, <1>2, Glides DEF Places, Count, Counted, IInv, TypeOK

\* WorkspaceManager.create().
LEMMA CreateKeeps ==
  ASSUME IInv, NEW s \in Sessions, Create(s)
  PROVE  IInv'
  <1>1. pc[s] = "create" /\ UNCHANGED <<repo, log, row>>
    BY DEF Create
  <1>2. row[s] = NoRow
    BY <1>1 DEF IInv, SessionInv, RowInv
  <1>3. CASE pc' = [pc EXCEPT ![s] = "failed"] /\ UNCHANGED dirs
    BY <1>1, <1>2, <1>3, Glides DEF Places, Count, Counted, IInv, TypeOK
  <1>4. CASE pc' = [pc EXCEPT ![s] = "created"] /\ dirs' = dirs \cup {s}
    <2>1. TypeOK'
      BY <1>1, <1>4 DEF IInv, TypeOK, Places, Count, Counted
    <2>2. pc'[s] = "created" /\ \A t \in Sessions \ {s} : pc'[t] = pc[t]
      BY <1>4 DEF IInv, TypeOK
    <2>3. SessionInv(s) /\ s \in dirs'
      BY <1>4 DEF IInv
    <2>4. OrderInv(s)' /\ DirInv(s)' /\ RowInv(s)'
      BY <1>1, <1>2, <2>2, <2>3 DEF SessionInv, OrderInv, DirInv, RowInv
    <2>5. CountInv(s)'
      BY <1>1, <2>2, <2>3 DEF SessionInv, CountInv, Count, Counted
    <2>6. ASSUME NEW t \in Sessions \ {s}
          PROVE  SessionInv(t)'
      BY <1>1, <1>4, <2>2, LeftAlone
    <2> QED
      BY <2>1, <2>4, <2>5, <2>6 DEF IInv, SessionInv
  <1> QED
    BY <1>3, <1>4 DEF Create, Goes

\* The five events, each appended where the run has as many in its log as precede it.
LEMMA StepEmitted ==
  ASSUME IInv, NEW s \in Sessions, NEW step, NEW label, Emit(s, step, label),
         UNCHANGED <<repo, dirs, row>>,
         \/ pc[s] = "created" /\ step = "workspace_created" /\ label = "clone"
         \/ pc[s] \in {"branch", "head"} /\ step = "cloned" /\ label = "issue"
         \/ pc[s] = "issue" /\ step = "issue_resolved" /\ label = "profile"
         \/ pc[s] = "profile" /\ step = "profiled" /\ label = "index"
         \/ pc[s] = "index" /\ step = "indexed" /\ label = "record"
  PROVE  IInv'
  <1>1. pc[s] \in Counted /\ s \in dirs /\ row[s] = NoRow
    BY AtWork
  <1>2. label \in Counted \ {"created"}
    BY EventLeadsOn
  <1>3. Count(label) = Count(pc[s]) + 1 /\ Count(label) \in 1..5
    BY EventLeadsOn
  <1>4. step = Steps[Count(label)]
    BY EventLeadsOn, StepsAre
  <1> QED
    BY <1>1, <1>2, <1>3, <1>4, EmitKeeps

\* The events of the steps, and the failures among them.
LEMMA StepsKeep ==
  ASSUME IInv, NEW s \in Sessions,
         Created(s) \/ HeadReturns(s) \/ IssueResolved(s) \/ Profiled(s) \/ Indexed(s)
  PROVE  IInv'
  <1> USE DEF Whys
  <1>1. CASE Created(s)
    BY <1>1, StepEmitted DEF Created
  <1>2. CASE HeadReturns(s)
    <2>1. pc[s] = "head" /\ UNCHANGED <<repo, dirs, row>>
      BY <1>2 DEF HeadReturns
    <2>2. CASE Emit(s, "cloned", "issue")
      BY <2>1, <2>2, StepEmitted
    <2>3. CASE Fails(s, "no branch")
      BY <2>1, <2>3, AtWork, EmitKeeps DEF Fails
    <2> QED
      BY <1>2, <2>2, <2>3 DEF HeadReturns
  <1>3. CASE IssueResolved(s)
    <2>1. pc[s] = "issue" /\ UNCHANGED <<repo, dirs, row>>
      BY <1>3 DEF IssueResolved
    <2>2. CASE Emit(s, "issue_resolved", "profile")
      BY <2>1, <2>2, StepEmitted
    <2>3. CASE Fails(s, "no issue")
      BY <2>1, <2>3, AtWork, EmitKeeps DEF Fails
    <2> QED
      BY <1>3, <2>2, <2>3 DEF IssueResolved
  <1>4. CASE Profiled(s)
    BY <1>4, StepEmitted DEF Profiled
  <1>5. CASE Indexed(s)
    BY <1>5, StepEmitted DEF Indexed
  <1> QED
    BY <1>1, <1>2, <1>3, <1>4, <1>5

\* git clone and the two questions to the clone: on to the next, or a classified failure.
LEMMA GitKeeps ==
  ASSUME IInv, NEW s \in Sessions, CloneReturns(s) \/ ShaReturns(s) \/ SymrefReturns(s)
  PROVE  IInv'
  <1>1. /\ pc[s] \in {"clone", "sha", "branch"} /\ UNCHANGED <<repo, dirs, row>>
        /\ pc[s] \in Counted /\ s \in dirs /\ row[s] = NoRow
    BY AtWork DEF CloneReturns, ShaReturns, SymrefReturns
  <1>2. ASSUME NEW output
        PROVE  Classified(output) \in Whys
    BY DEF Classified, Whys
  <1>3. ASSUME NEW why \in Whys, Fails(s, why)
        PROVE  IInv'
    BY <1>1, <1>3, EmitKeeps DEF Fails
  <1>4. CASE pc[s] = "branch" /\ Emit(s, "cloned", "issue")
    BY <1>1, <1>4, StepEmitted
  <1>5. ASSUME NEW q \in {"sha", "branch", "head"}, Goes(s, q), UNCHANGED log
        PROVE  IInv'
    BY <1>1, <1>5, Glides DEF Goes, Places, Count, Counted, IInv, TypeOK
  <1>6. CASE CloneReturns(s)
    BY <1>2, <1>3, <1>5, <1>6 DEF CloneReturns
  <1>7. CASE ShaReturns(s)
    BY <1>3, <1>5, <1>7 DEF ShaReturns, Whys
  <1>8. CASE SymrefReturns(s)
    BY <1>4, <1>5, <1>8 DEF SymrefReturns
  <1> QED
    BY <1>6, <1>7, <1>8

\* record_ingestion().
LEMMA RecordedKeeps ==
  ASSUME IInv, NEW s \in Sessions, Recorded(s)
  PROVE  IInv'
  <1>1. pc[s] = "record" /\ UNCHANGED <<repo, dirs, log>>
    BY DEF Recorded
  <1>2. row[s] = NoRow
    BY <1>1, AtWork
  <1>3. CASE pc' = [pc EXCEPT ![s] = "crashed"] /\ UNCHANGED row
    BY <1>1, <1>2, <1>3, Glides DEF Places, Count, Counted, IInv, TypeOK
  <1>4. CASE /\ row' = [row EXCEPT ![s] = Profile(repo[s], Languages)]
             /\ pc' = [pc EXCEPT ![s] = "working"]
    <2>1. TypeOK'
      BY <1>1, <1>4 DEF IInv, TypeOK, Places, Count, Counted
    <2>2. pc'[s] = "working" /\ \A t \in Sessions \ {s} : pc'[t] = pc[t]
      BY <1>4 DEF IInv, TypeOK
    <2>3. /\ row'[s] = Profile(repo[s], Languages)
          /\ \A t \in Sessions \ {s} : row'[t] = row[t]
      BY <1>4 DEF IInv, TypeOK
    <2>4. SessionInv(s)
      BY DEF IInv
    <2>5. Len(log[s]) = 5
      BY <1>1, <2>4 DEF SessionInv, CountInv, Count, Counted
    <2>6. OrderInv(s)' /\ DirInv(s)'
      BY <1>1, <2>2, <2>4 DEF SessionInv, OrderInv, DirInv
    <2>7. CountInv(s)'
      BY <1>1, <2>2, <2>5 DEF CountInv, Count, Counted
    <2>8. RowInv(s)'
      BY <1>1, <2>2, <2>3, <2>5 DEF RowInv
    <2>9. ASSUME NEW t \in Sessions \ {s}
          PROVE  SessionInv(t)'
      BY <1>1, <2>2, <2>3, LeftAlone
    <2> QED
      BY <2>1, <2>6, <2>7, <2>8, <2>9 DEF IInv, SessionInv
  <1> QED
    BY <1>3, <1>4 DEF Recorded, Goes

\* The workspace grows, the run ends.
LEMMA WorkKeeps ==
  ASSUME IInv, NEW s \in Sessions, Grow(s) \/ Over(s) \/ WriteOn(s)
  PROVE  IInv'
  <1>1. CASE Grow(s) \/ WriteOn(s)
    <2>1. UNCHANGED <<repo, pc, dirs, log, row>>
      BY <1>1 DEF Grow, WriteOn
    <2> QED
      BY <2>1, LeftAlone DEF IInv, TypeOK
  <1>2. CASE Over(s)
    BY <1>2, Glides DEF Over, Goes, Places, Count, Counted, IInv, TypeOK
  <1> QED
    BY <1>1, <1>2

\* The process dies: who was at work or queued is so no more, and all else stays.
LEMMA RestartKeeps == IInv /\ Restart => IInv'
  <1> SUFFICES ASSUME IInv, Restart
               PROVE  IInv'
    OBVIOUS
  <1>1. /\ pc' = [s \in Sessions |-> IF s \in Active THEN "crashed"
                                     ELSE IF s \in Queued THEN "forgotten" ELSE pc[s]]
        /\ UNCHANGED <<repo, dirs, log, row>>
    BY DEF Restart
  <1>2. TypeOK'
    BY <1>1 DEF IInv, TypeOK, Places
  <1>3. ASSUME NEW s \in Sessions
        PROVE  SessionInv(s)'
    <2>1. CASE s \notin Active \cup Queued
      BY <1>1, <2>1, LeftAlone
    <2>2. CASE s \in Active \cup Queued
      <3>1. /\ pc[s] # "failed" /\ SessionInv(s)
            /\ \/ pc'[s] = "crashed"
               \/ pc'[s] = "forgotten" /\ pc[s] = "queued"
        BY <1>1, <2>2 DEF Active, Queued, Ended, IInv
      <3>2. OrderInv(s)' /\ DirInv(s)' /\ RowInv(s)'
        BY <1>1, <3>1 DEF SessionInv, OrderInv, DirInv, RowInv
      <3>3. CountInv(s)'
        BY <3>1 DEF CountInv, Count, Counted
      <3> QED
        BY <3>2, <3>3 DEF SessionInv
    <2> QED
      BY <2>1, <2>2
  <1> QED
    BY <1>2, <1>3 DEF IInv

\* Every step keeps the invariant.
LEMMA Inductive == IInv /\ [Next]_vars => IInv'
  <1> SUFFICES ASSUME IInv, [Next]_vars
               PROVE  IInv'
    OBVIOUS
  <1>1. CASE UNCHANGED vars
    <2>1. UNCHANGED <<repo, pc, dirs, log, row>>
      BY <1>1 DEF vars
    <2> QED
      BY <2>1, LeftAlone DEF IInv, TypeOK
  <1>2. CASE Restart
    BY <1>2, RestartKeeps
  <1>3. ASSUME NEW s \in Sessions, Post(s) \/ Launch(s) \/ Ingest(s) \/ Grow(s) \/ Over(s) \/ WriteOn(s)
        PROVE  IInv'
    BY <1>3, LaunchKeeps, CreateKeeps, StepsKeep, GitKeeps, RecordedKeeps, WorkKeeps
       DEF Ingest
  <1> QED
    BY <1>1, <1>2, <1>3 DEF Next

-----------------------------------------------------------------------------
\* A session whose log has five events, and which has not failed, has all the steps.
LEMMA AllSteps ==
  ASSUME IInv, NEW s \in Sessions, Len(log[s]) = 5, pc[s] # "failed"
  PROVE  log[s] = Steps
  <1>1. log[s] \in Seq(Events)
    BY DEF IInv, TypeOK
  <1>2. \A i \in 1..5 : log[s][i] = Steps[i]
    BY <1>1 DEF IInv, SessionInv, OrderInv
  <1> QED
    BY <1>1, <1>2, StepsAre, SeqEqual

\* Whatever fails, and wherever a crash cuts a run off, the log tells how far every session
\* came and the row has facts of an ingestion that is through (RepoIngestionService.ingest).
THEOREM LogTells == Spec => []LogTellsHowFar
  <1>1. ASSUME IInv
        PROVE  LogTellsHowFar
    <2> SUFFICES ASSUME NEW s \in Sessions
                 PROVE  /\ \A i \in DOMAIN log[s] :
                              IsStep(log[s][i]) => i \in DOMAIN Steps /\ log[s][i] = Steps[i]
                        /\ \A i \in DOMAIN log[s] :
                              ~IsStep(log[s][i]) => i = Len(log[s]) /\ pc[s] = "failed"
                        /\ log[s] # <<>> => s \in dirs
                        /\ row[s] # NoRow =>
                              log[s] = Steps /\ row[s] = Profile(repo[s], Languages)
      BY DEF LogTellsHowFar
    <2>1. SessionInv(s)
      BY <1>1 DEF IInv
    <2>2. log[s] # <<>> => s \in dirs
      BY <2>1 DEF SessionInv, DirInv
    <2>3. row[s] # NoRow => log[s] = Steps /\ row[s] = Profile(repo[s], Languages)
      BY <1>1, <2>1, AllSteps DEF SessionInv, RowInv
    <2>4. /\ \A i \in DOMAIN Steps : IsStep(Steps[i])
          /\ \A why \in Whys : ~IsStep(why)
      BY StepHasName, StepsAre DEF IsStep, ToSet, Whys, StepNames
    <2>5. \A i \in DOMAIN log[s] :
             IsStep(log[s][i]) => i \in DOMAIN Steps /\ log[s][i] = Steps[i]
      BY <2>1, <2>4 DEF SessionInv, OrderInv
    <2>6. \A i \in DOMAIN log[s] :
             ~IsStep(log[s][i]) => i = Len(log[s]) /\ pc[s] = "failed"
      BY <2>1, <2>4 DEF SessionInv, OrderInv
    <2> QED
      BY <2>2, <2>3, <2>5, <2>6
  <1> QED
    BY <1>1, InitIInv, Inductive, PTL DEF Spec

\* A repository with evidence of a suite is taken for one that has one.
LEMMA EvidenceCounts ==
  ASSUME NEW r, r.tested # {} \/ "pytest" \in r.tables
  PROVE  Tests(r).found
  BY DEF Tests

\* A suite's command is PYTEST_MODULE_INVOCATION, whose interpreter the sandbox allows.
LEMMA PytestIsValid == Valid(Pytest)
  <1>1. Len(Pytest) = 3 /\ DOMAIN Pytest = 1..3 /\ Pytest # <<>>
    BY DEF Pytest
  <1>2. /\ Pytest[1] = Word("python") /\ Pytest[2] = Word("-m") /\ Pytest[3] = Word("pytest")
    BY DEF Pytest
  <1>3. \A i \in 1..3 : i = 1 \/ i = 2 \/ i = 3
    OBVIOUS
  <1>4. \A i \in DOMAIN Pytest : ~Pytest[i].control
    BY <1>1, <1>2, <1>3 DEF Word
  <1>5. ~Pytest[1].meta /\ Pytest[1].name = "python"
    BY <1>2 DEF Word
  <1> QED
    BY <1>1, <1>4, <1>5, PytestAssumption DEF Valid

\* The row of every ingested session has a test command if its repository has tests or a
\* pytest configuration, and the command is one that CommandAllowlist lets into the
\* sandbox (RepoProfiler._detect_tests).
THEOREM SuitesAreFound == Spec => []SuiteIsFound
  <1>1. ASSUME IInv
        PROVE  SuiteIsFound
    <2> SUFFICES ASSUME NEW s \in Sessions, row[s] # NoRow
                 PROVE  /\ (repo[s].tested # {} \/ "pytest" \in repo[s].tables) => row[s].suite
                        /\ row[s].suite => Valid(row[s].test)
      BY DEF SuiteIsFound
    <2>1. row[s] = Profile(repo[s], Languages)
      BY <1>1 DEF IInv, SessionInv, RowInv
    <2>2. /\ row[s].suite = Tests(repo[s]).found
          /\ row[s].test = IF Tests(repo[s]).found THEN Pytest ELSE <<>>
      BY <2>1 DEF Profile
    <2> QED
      BY <2>2, EvidenceCounts, PytestIsValid
  <1> QED
    BY <1>1, InitIInv, Inductive, PTL DEF Spec
-----------------------------------------------------------------------------
(* Sums over a finite set, as MapThenSumSet computes them.                *)

Total(f, D) == MapThenSumSet(LAMBDA s : f[s], D)

Pick(D) == CHOOSE x \in D : TRUE
IsSum(g, f, D) ==
    g = [s \in SUBSET D |-> IF s = {} THEN 0 ELSE f[Pick(s)] + g[s \ {Pick(s)}]]
SumOf(f, D) == CHOOSE g : IsSum(g, f, D)

\* What holds of a finite set if it holds of all smaller ones holds of every finite set.
LEMMA SmallerSetsFirst ==
  ASSUME NEW D, IsFiniteSet(D), NEW Good,
         \A E \in SUBSET D : (\A F \in SUBSET E : F # E => F \in Good) => E \in Good
  PROVE  SUBSET D \subseteq Good
  <1> DEFINE Bad == (SUBSET D) \ Good
  <1> SUFFICES ASSUME Bad # {}
               PROVE  FALSE
    OBVIOUS
  <1>1. Bad \subseteq FiniteSubsetsOf(D)
    BY FS_Subset DEF FiniteSubsetsOf
  <1> HIDE DEF Bad
  <1>2. IsWellFoundedOn(StrictSubsetOrdering(D), FiniteSubsetsOf(D))
    BY FS_StrictSubsetOrderingWellFounded
  <1>3. PICK E \in Bad : \A F \in Bad : <<F, E>> \notin StrictSubsetOrdering(D)
    BY <1>1, <1>2, WFMin
  <1>4. ASSUME NEW F \in SUBSET E, F # E
        PROVE  F \in Good
    BY <1>3, <1>4 DEF StrictSubsetOrdering, Bad
  <1> QED
    BY <1>3, <1>4 DEF Bad

\* Two that add up the same function agree on the sets they both know.
LEMMA SumIsUnique ==
  ASSUME NEW f, NEW D, IsFiniteSet(D), NEW E, NEW g, NEW h, IsSum(g, f, D), IsSum(h, f, E)
  PROVE  \A s \in (SUBSET D) \cap (SUBSET E) : g[s] = h[s]
  <1> DEFINE Good == {s \in SUBSET D : s \subseteq E => g[s] = h[s]}
  <1>1. ASSUME NEW s \in SUBSET D, \A r \in SUBSET s : r # s => r \in Good
        PROVE  s \in Good
    <2> SUFFICES ASSUME s \subseteq E
                 PROVE  g[s] = h[s]
      OBVIOUS
    <2>1. /\ g[s] = IF s = {} THEN 0 ELSE f[Pick(s)] + g[s \ {Pick(s)}]
          /\ h[s] = IF s = {} THEN 0 ELSE f[Pick(s)] + h[s \ {Pick(s)}]
      BY DEF IsSum
    <2>2. s # {} => Pick(s) \in s
      BY DEF Pick
    <2>3. s # {} => s \ {Pick(s)} \in Good
      BY <1>1, <2>2
    <2> QED
      BY <2>1, <2>3
  <1> HIDE DEF Good
  <1>2. SUBSET D \subseteq Good
    BY <1>1, SmallerSetsFirst
  <1> QED
    BY <1>2 DEF Good

\* A function is added up over any finite set.
LEMMA SumExists ==
  ASSUME NEW f, NEW D, IsFiniteSet(D)
  PROVE  IsSum(SumOf(f, D), f, D)
  <1> DEFINE Good == {E \in SUBSET D : IsSum(SumOf(f, E), f, E)}
  <1>1. ASSUME NEW E \in SUBSET D, \A F \in SUBSET E : F # E => F \in Good
        PROVE  E \in Good
    <2> DEFINE rest == E \ {Pick(E)}
               g == [s \in SUBSET E |->
                      IF s # E THEN SumOf(f, s)[s]
                      ELSE IF E = {} THEN 0 ELSE f[Pick(E)] + SumOf(f, rest)[rest]]
    <2>1. \A F \in SUBSET E : F # E => IsSum(SumOf(f, F), f, F)
      BY <1>1
    <2>2. ASSUME NEW s \in SUBSET E
          PROVE  g[s] = IF s = {} THEN 0 ELSE f[Pick(s)] + g[s \ {Pick(s)}]
      <3>1. s # {} => Pick(s) \in s /\ s \ {Pick(s)} \in SUBSET E /\ s \ {Pick(s)} # E
        BY DEF Pick
      <3>2. CASE s = E
        BY <3>1, <3>2
      <3>3. CASE s # E
        <4>1. IsSum(SumOf(f, s), f, s)
          BY <2>1, <3>3
        <4>2. SumOf(f, s)[s]
                = IF s = {} THEN 0 ELSE f[Pick(s)] + SumOf(f, s)[s \ {Pick(s)}]
          BY <4>1 DEF IsSum
        <4>3. ASSUME s # {}
              PROVE  SumOf(f, s)[s \ {Pick(s)}] = SumOf(f, s \ {Pick(s)})[s \ {Pick(s)}]
          <5> DEFINE r == s \ {Pick(s)}
                     k == SumOf(f, s)
                     h == SumOf(f, r)
          <5>1. IsSum(k, f, s) /\ IsSum(h, f, r) /\ IsFiniteSet(s)
            BY <2>1, <3>1, <4>1, <4>3, FS_Subset
          <5>2. r \in (SUBSET s) \cap (SUBSET r)
            OBVIOUS
          <5> HIDE DEF r, k, h
          <5>3. k[r] = h[r]
            BY <5>1, <5>2, SumIsUnique
          <5> QED
            BY <5>3 DEF r, k, h
        <4> QED
          BY <3>1, <3>3, <4>2, <4>3
      <3> QED
        BY <3>2, <3>3
    <2>3. g = [s \in SUBSET E |-> IF s = {} THEN 0 ELSE f[Pick(s)] + g[s \ {Pick(s)}]]
      BY <2>2
    <2> HIDE DEF g
    <2>4. IsSum(g, f, E)
      BY <2>3 DEF IsSum
    <2> QED
      BY <2>4 DEF SumOf
  <1> HIDE DEF Good
  <1>2. D \in Good
    BY <1>1, SmallerSetsFirst
  <1> QED
    BY <1>2 DEF Good

\* Nothing adds up to nothing; what else does, to one of its elements and the others.
LEMMA TotalStep ==
  ASSUME NEW f, NEW D, IsFiniteSet(D)
  PROVE  Total(f, D) = IF D = {} THEN 0 ELSE f[Pick(D)] + Total(f, D \ {Pick(D)})
  <1>1. \A E : Total(f, E) = SumOf(f, E)[E]
    BY DEF Total, MapThenSumSet, MapThenFoldSet, SumOf, IsSum, Pick
  <1>2. IsSum(SumOf(f, D), f, D)
    BY SumExists
  <1>3. SumOf(f, D)[D] = IF D = {} THEN 0 ELSE f[Pick(D)] + SumOf(f, D)[D \ {Pick(D)}]
    BY <1>2 DEF IsSum
  <1>4. SumOf(f, D)[D \ {Pick(D)}] = SumOf(f, D \ {Pick(D)})[D \ {Pick(D)}]
    <2> DEFINE r == D \ {Pick(D)}
               g == SumOf(f, D)
               h == SumOf(f, r)
    <2>1. IsFiniteSet(r) /\ r \in (SUBSET D) \cap (SUBSET r)
      BY FS_Subset
    <2>2. IsSum(g, f, D) /\ IsSum(h, f, r)
      BY <1>2, <2>1, SumExists
    <2> HIDE DEF r, g, h
    <2>3. g[r] = h[r]
      BY <2>1, <2>2, SumIsUnique
    <2> QED
      BY <2>3 DEF r, g, h
  <1> QED
    BY <1>1, <1>3, <1>4

\* The sum of natural numbers is one.
LEMMA TotalIsNat ==
  ASSUME NEW D, IsFiniteSet(D), NEW f, \A s \in D : f[s] \in Nat
  PROVE  Total(f, D) \in Nat
  <1> DEFINE Good == {E \in SUBSET D : Total(f, E) \in Nat}
  <1>1. ASSUME NEW E \in SUBSET D, \A F \in SUBSET E : F # E => F \in Good
        PROVE  E \in Good
    <2>1. IsFiniteSet(E)
      BY FS_Subset
    <2>2. CASE E = {}
      <3>1. Total(f, E) = 0
        BY <2>1, <2>2, TotalStep
      <3> QED
        BY <3>1
    <2>3. CASE E # {}
      <3>1. Pick(E) \in E
        BY <2>3 DEF Pick
      <3>2. E \ {Pick(E)} \in Good
        BY <1>1, <3>1
      <3>3. Total(f, E) = f[Pick(E)] + Total(f, E \ {Pick(E)})
        BY <2>1, <2>3, TotalStep
      <3> QED
        BY <3>1, <3>2, <3>3
    <2> QED
      BY <2>2, <2>3
  <1> HIDE DEF Good
  <1>2. D \in Good
    BY <1>1, SmallerSetsFirst
  <1> QED
    BY <1>2 DEF Good

\* Any element may be taken out first.
LEMMA TotalWithout ==
  ASSUME NEW D, IsFiniteSet(D), NEW f, \A s \in D : f[s] \in Nat
  PROVE  \A x \in D : Total(f, D) = f[x] + Total(f, D \ {x})
  <1> DEFINE Good == {E \in SUBSET D : \A x \in E : Total(f, E) = f[x] + Total(f, E \ {x})}
  <1>1. ASSUME NEW E \in SUBSET D, \A F \in SUBSET E : F # E => F \in Good
        PROVE  E \in Good
    <2> SUFFICES ASSUME NEW x \in E
                 PROVE  Total(f, E) = f[x] + Total(f, E \ {x})
      OBVIOUS
    <2> DEFINE y == Pick(E)
    <2>1. \A F \in SUBSET E : IsFiniteSet(F) /\ Total(f, F) \in Nat
      BY FS_Subset, TotalIsNat
    <2>2. y \in E
      BY DEF Pick
    <2>3. Total(f, E) = f[y] + Total(f, E \ {y})
      BY <2>1, <2>2, TotalStep
    <2>4. CASE y = x
      BY <2>3, <2>4
    <2>5. CASE y # x
      <3> HIDE DEF y
      <3>1. Total(f, E \ {y}) = f[x] + Total(f, (E \ {y}) \ {x})
        BY <1>1, <2>2, <2>5
      <3>2. Total(f, E \ {x}) = f[y] + Total(f, (E \ {x}) \ {y})
        BY <1>1, <2>2, <2>5
      <3>3. (E \ {y}) \ {x} = (E \ {x}) \ {y}
        OBVIOUS
      <3>4. Total(f, (E \ {x}) \ {y}) \in Nat /\ f[x] \in Nat /\ f[y] \in Nat
        BY <2>1, <2>2
      <3> QED
        BY <2>3, <3>1, <3>2, <3>3, <3>4
    <2> QED
      BY <2>4, <2>5
  <1> HIDE DEF Good
  <1>2. D \in Good
    BY <1>1, SmallerSetsFirst
  <1> QED
    BY <1>2 DEF Good

\* Where g is at most f, and c more than that on the elements of A, its sum is at most that
\* of f and c more for each of them.
LEMMA TotalBounded ==
  ASSUME NEW D, IsFiniteSet(D), NEW A, NEW c \in Nat,
         NEW f, \A s \in D : f[s] \in Nat, NEW g, \A s \in D : g[s] \in Nat,
         \A s \in D : g[s] <= f[s] + (IF s \in A THEN c ELSE 0)
  PROVE  Total(g, D) <= Total(f, D) + c * Cardinality(A \cap D)
  <1> DEFINE Good == {E \in SUBSET D : Total(g, E) <= Total(f, E) + c * Cardinality(A \cap E)}
  <1>1. ASSUME NEW E \in SUBSET D, \A F \in SUBSET E : F # E => F \in Good
        PROVE  E \in Good
    <2>1. \A F \in SUBSET E : /\ IsFiniteSet(F)
                              /\ Total(f, F) \in Nat /\ Total(g, F) \in Nat
      BY FS_Subset, TotalIsNat
    <2>2. CASE E = {}
      <3>1. Total(f, E) = 0 /\ Total(g, E) = 0
        BY <2>1, <2>2, TotalStep
      <3>2. Cardinality(A \cap E) = 0
        BY <2>2, FS_EmptySet
      <3> QED
        BY <3>1, <3>2
    <2>3. CASE E # {}
      <3>1. PICK x \in E : TRUE
        BY <2>3
      <3> DEFINE F == E \ {x}
      <3>2. F \in Good /\ F \in SUBSET E
        BY <1>1, <3>1
      <3>3. Total(f, E) = f[x] + Total(f, F) /\ Total(g, E) = g[x] + Total(g, F)
        BY <2>1, TotalWithout
      <3>4. /\ IsFiniteSet(A \cap F) /\ Cardinality(A \cap F) \in Nat
            /\ Cardinality(A \cap E)
                 = Cardinality(A \cap F) + IF x \in A THEN 1 ELSE 0
        <4>1. IsFiniteSet(A \cap F) /\ Cardinality(A \cap F) \in Nat
          BY <2>1, <3>2, FS_Intersection, FS_CardinalityType
        <4>2. A \cap E = IF x \in A THEN (A \cap F) \cup {x} ELSE A \cap F
          BY <3>1
        <4>3. x \notin A \cap F
          OBVIOUS
        <4>4. Cardinality((A \cap F) \cup {x}) = Cardinality(A \cap F) + 1
          BY <4>1, <4>3, FS_AddElement
        <4> HIDE DEF F
        <4> QED
          BY <4>1, <4>2, <4>4
      <3> HIDE DEF F
      <3>5. Total(g, F) <= Total(f, F) + c * Cardinality(A \cap F)
        BY <3>2
      <3>6. c * (Cardinality(A \cap F) + 1) = c * Cardinality(A \cap F) + c
        BY <3>4
      <3>7. c * Cardinality(A \cap F) \in Nat
        BY <3>4
      <3>8. c * Cardinality(A \cap E)
              = c * Cardinality(A \cap F) + IF x \in A THEN c ELSE 0
        BY <3>4, <3>6
      <3>9. /\ Total(f, F) \in Nat /\ Total(g, F) \in Nat /\ f[x] \in Nat /\ g[x] \in Nat
            /\ g[x] <= f[x] + (IF x \in A THEN c ELSE 0)
        BY <2>1, <3>1, <3>2
      <3> QED
        BY <3>3, <3>5, <3>7, <3>8, <3>9
    <2> QED
      BY <2>2, <2>3
  <1> HIDE DEF Good
  <1>2. D \in Good
    BY <1>1, SmallerSetsFirst
  <1> QED
    BY <1>2 DEF Good

-----------------------------------------------------------------------------
(* The disk.                                                               *)

\* Whoever still writes: a run with a slot, or something that outlived its run.
Growers == Active \cup outlived

\* What each workspace may still grow to while no other is made.
Reserve == [s \in Sessions |-> IF s \in Growers THEN Largest ELSE size[s]]

Bound == MaxBytes + (Slots + Cardinality(outlived)) * Largest

\* A run has a workspace from create() on, and is charged with the largest there is until it
\* ends and nothing of it is left: what all of them are charged with stays below the bound.
DiskInv ==
    /\ repo \in [Sessions -> Repos]
    /\ size \in [Sessions -> 0..Largest]
    /\ IsFiniteSet(dirs)
    /\ \A s \in Sessions \ dirs : size[s] = 0
    /\ \A s \in dirs : pc[s] \notin {"new", "queued", "create"}
    /\ IsFiniteSet(Active) /\ Cardinality(Active) <= Slots
    /\ outlived \subseteq dirs
    /\ Total(Reserve, dirs) < Bound

\* Nothing is charged while there is no workspace.
LEMMA InitDiskInv == Init => DiskInv
  <1> SUFFICES ASSUME Init
               PROVE  DiskInv
    OBVIOUS
  <1>1. repo \in [Sessions -> Repos] /\ size \in [Sessions -> 0..Largest] /\ dirs = {}
    BY IngestionAssumption DEF Init
  <1>2. Active = {} /\ outlived = {}
    BY DEF Init, Active, Ended
  <1>3. IsFiniteSet(Active) /\ Cardinality(Active) <= Slots
    BY <1>2, FS_EmptySet, IngestionAssumption
  <1>4. Total(Reserve, dirs) = 0
    BY <1>1, FS_EmptySet, TotalStep
  <1>5. Bound > 0
    <2>1. Cardinality(outlived) = 0
      BY <1>2, FS_EmptySet
    <2>2. (Slots + 0) * Largest \in Nat
      BY IngestionAssumption
    <2> QED
      BY <2>1, <2>2, IngestionAssumption DEF Bound
  <1> QED
    BY <1>1, <1>2, <1>3, <1>4, <1>5, FS_EmptySet DEF Init, DiskInv

\* The charges are numbers, none above the largest workspace.
LEMMA ReserveIs ==
  ASSUME DiskInv
  PROVE  \A s \in Sessions :
           /\ Reserve[s] = (IF s \in Growers THEN Largest ELSE size[s])
           /\ Reserve[s] \in 0..Largest /\ size[s] <= Reserve[s]
  BY IngestionAssumption DEF DiskInv, Reserve

\* More that outlives its run can only raise the bound.
LEMMA BoundRises ==
  ASSUME IsFiniteSet(outlived'), outlived \subseteq outlived'
  PROVE  Bound \in Nat /\ Bound' \in Nat /\ Bound <= Bound'
  <1> DEFINE m == Cardinality(outlived)
             n == Cardinality(outlived')
  <1>1. m \in Nat /\ n \in Nat /\ m <= n
    BY FS_Subset, FS_CardinalityType
  <1> HIDE DEF m, n
  <1>2. (Slots + m) * Largest \in Nat /\ (Slots + n) * Largest \in Nat
    BY <1>1, IngestionAssumption
  <1>3. (Slots + m) * Largest <= (Slots + n) * Largest
    <2>1. \A i, j, k \in Nat : i <= j => i * k <= j * k
      OBVIOUS
    <2> QED
      BY <1>1, <2>1, IngestionAssumption
  <1> QED
    BY <1>2, <1>3, IngestionAssumption DEF Bound, m, n

\* A step that makes no workspace keeps the bound if only those who still write add to
\* theirs, and whoever begins to write has none yet.
LEMMA ChargesFall ==
  ASSUME IInv, DiskInv, UNCHANGED <<repo, dirs>>,
         size' \in [Sessions -> 0..Largest],
         \A s \in Sessions \ dirs : size'[s] = 0,
         \A s \in Sessions \ Growers : size'[s] = size[s],
         \A s \in dirs : pc'[s] \notin {"new", "queued", "create"},
         \A s \in dirs : s \in Growers' => s \in Growers,
         IsFiniteSet(Active'), Cardinality(Active') <= Slots,
         outlived \subseteq outlived', outlived' \subseteq dirs
  PROVE  DiskInv'
  <1>1. dirs \subseteq Sessions /\ IsFiniteSet(dirs) /\ IsFiniteSet(outlived')
    BY FS_Subset DEF IInv, TypeOK, DiskInv
  <1>2. \A s \in dirs : Reserve[s] \in Nat /\ Reserve'[s] \in Nat /\ Reserve'[s] <= Reserve[s]
    BY <1>1, IngestionAssumption DEF DiskInv, Reserve
  <1> DEFINE r == Reserve
             q == Reserve'
  <1>3. \A s \in dirs : r[s] \in Nat /\ q[s] \in Nat
                        /\ q[s] <= r[s] + (IF s \in {} THEN 0 ELSE 0)
    BY <1>2
  <1> HIDE DEF r, q
  <1>4. Total(q, dirs) <= Total(r, dirs) + 0 * Cardinality({} \cap dirs)
    BY <1>1, <1>3, TotalBounded
  <1>5. Cardinality({} \cap dirs) = 0
    BY FS_EmptySet
  <1>6. Total(q, dirs) \in Nat /\ Total(r, dirs) \in Nat
    BY <1>1, <1>3, TotalIsNat
  <1>7. Total(q, dirs) <= Total(r, dirs)
    BY <1>4, <1>5, <1>6
  <1>8. Total(r, dirs) < Bound
    BY DEF DiskInv, r
  <1>9. Bound \in Nat /\ Bound' \in Nat /\ Bound <= Bound'
    BY <1>1, BoundRises
  <1>10. Total(Reserve', dirs') < Bound'
    BY <1>6, <1>7, <1>8, <1>9 DEF q
  <1>11. Total(Reserve, dirs)' = Total(Reserve', dirs')
    BY DEF Total, MapThenSumSet, MapThenFoldSet
  <1> QED
    BY <1>10, <1>11 DEF DiskInv

\* A run gets no new slot: the slots it had are enough.
LEMMA SlotsAreKept ==
  ASSUME DiskInv, Active' \subseteq Active
  PROVE  IsFiniteSet(Active') /\ Cardinality(Active') <= Slots
  <1>1. IsFiniteSet(Active) /\ Cardinality(Active) <= Slots
    BY DEF DiskInv
  <1>2. IsFiniteSet(Active') /\ Cardinality(Active') <= Cardinality(Active)
    BY <1>1, FS_Subset
  <1>3. Cardinality(Active) \in Nat /\ Cardinality(Active') \in Nat
    BY <1>1, <1>2, FS_CardinalityType
  <1> QED
    BY <1>1, <1>2, <1>3, IngestionAssumption

\* create() lets one in while the disk holds less than the ceiling: then what has been
\* written stays below it, and each of those who still write adds at most one largest
\* workspace.
LEMMA CreateKeepsDisk ==
  ASSUME IInv, DiskInv, NEW s \in Sessions, pc[s] = "create", Usage < MaxBytes,
         dirs' = dirs \cup {s}, pc' = [pc EXCEPT ![s] = "created"],
         UNCHANGED <<repo, size, outlived>>
  PROVE  DiskInv'
  <1>1. pc \in [Sessions -> Places] /\ dirs \subseteq Sessions /\ IsFiniteSet(dirs)
    BY DEF IInv, TypeOK, DiskInv
  <1>2. s \notin dirs /\ size[s] = 0
    BY DEF DiskInv
  <1>3. IsFiniteSet(dirs') /\ dirs' \subseteq Sessions /\ dirs' \ {s} = dirs
    BY <1>1, <1>2, FS_AddElement
  <1>4. Active' = Active
    BY <1>1 DEF Active, Ended
  <1>5. /\ IsFiniteSet(Active) /\ Cardinality(Active) <= Slots
        /\ IsFiniteSet(outlived) /\ outlived \subseteq dirs
    BY FS_Subset DEF DiskInv
  <1>6. Reserve' = Reserve
    BY <1>4 DEF Reserve, Growers
  <1>7. /\ \A t \in dirs' : size[t] \in Nat /\ Reserve[t] \in Nat
        /\ \A t \in dirs' : Reserve[t] <= size[t] + (IF t \in Growers THEN Largest ELSE 0)
    BY <1>3, IngestionAssumption DEF DiskInv, Reserve
  <1>8. Total(Reserve, dirs') <= Total(size, dirs') + Largest * Cardinality(Growers \cap dirs')
    <2> DEFINE r == Reserve
    <2>1. /\ \A t \in dirs' : size[t] \in Nat /\ r[t] \in Nat
          /\ \A t \in dirs' : r[t] <= size[t] + (IF t \in Growers THEN Largest ELSE 0)
      BY <1>7
    <2> HIDE DEF r
    <2>2. Total(r, dirs') <= Total(size, dirs') + Largest * Cardinality(Growers \cap dirs')
      BY <1>3, <2>1, TotalBounded, IngestionAssumption
    <2> QED
      BY <2>2 DEF r
  <1>9. Total(size, dirs') = Total(size, dirs) /\ Total(size, dirs) \in Nat
    <2>1. \A t \in dirs : size[t] \in Nat
      BY <1>3, <1>7
    <2>2. Total(size, dirs') = size[s] + Total(size, dirs)
      BY <1>3, <1>7, TotalWithout
    <2>3. Total(size, dirs) \in Nat
      BY <1>1, <2>1, TotalIsNat
    <2> QED
      BY <1>2, <2>2, <2>3
  <1>10. Total(size, dirs) < MaxBytes
    BY DEF Usage, Total
  <1> DEFINE k == Cardinality(Growers \cap dirs')
             m == Slots + Cardinality(outlived)
  <1>11. k \in Nat /\ m \in Nat /\ k <= m
    <2>1. /\ IsFiniteSet(Growers)
          /\ Cardinality(Growers) =
               Cardinality(Active) + Cardinality(outlived) - Cardinality(Active \cap outlived)
      BY <1>5, FS_Union DEF Growers
    <2>2. IsFiniteSet(Active \cap outlived)
      BY <1>5, FS_Intersection
    <2>3. /\ IsFiniteSet(Growers \cap dirs')
          /\ Cardinality(Growers \cap dirs') <= Cardinality(Growers)
      BY <2>1, FS_Intersection
    <2>4. /\ k \in Nat /\ Cardinality(Growers) \in Nat /\ Cardinality(Active) \in Nat
          /\ Cardinality(outlived) \in Nat /\ Cardinality(Active \cap outlived) \in Nat
      BY <1>5, <2>1, <2>2, <2>3, FS_CardinalityType
    <2> QED
      BY <1>5, <2>1, <2>3, <2>4, IngestionAssumption
  <1>12. Largest * k <= m * Largest /\ Largest * k \in Nat /\ m * Largest \in Nat
    <2> HIDE DEF k, m
    <2>1. \A i, j, l \in Nat : i <= j => l * i <= j * l
      OBVIOUS
    <2> QED
      BY <1>11, <2>1, IngestionAssumption
  <1>13. Total(Reserve, dirs') < Bound'
    <2>1. Total(Reserve, dirs') \in Nat
      <3> DEFINE r == Reserve
      <3>1. \A t \in dirs' : r[t] \in Nat
        BY <1>7
      <3> HIDE DEF r
      <3>2. Total(r, dirs') \in Nat
        BY <1>3, <3>1, TotalIsNat
      <3> QED
        BY <3>2 DEF r
    <2>2. Bound' = MaxBytes + m * Largest
      BY DEF Bound
    <2>3. Total(Reserve, dirs') <= Total(size, dirs') + Largest * k
      BY <1>8
    <2> HIDE DEF k, m
    <2> QED
      BY <1>9, <1>10, <1>12, <2>1, <2>2, <2>3, IngestionAssumption
  <1>14. Total(Reserve, dirs)' = Total(Reserve, dirs')
    BY <1>6 DEF Total, MapThenSumSet, MapThenFoldSet
  <1>15. \A t \in dirs' : pc'[t] \notin {"new", "queued", "create"}
    BY <1>1, <1>2 DEF DiskInv
  <1>18. outlived' \subseteq dirs'
    BY <1>5
  <1>16. \A t \in Sessions \ dirs' : size'[t] = 0
    BY DEF DiskInv
  <1>17. repo' \in [Sessions -> Repos] /\ size' \in [Sessions -> 0..Largest]
    BY DEF DiskInv
  <1> QED
    BY <1>3, <1>4, <1>5, <1>13, <1>14, <1>15, <1>16, <1>17, <1>18 DEF DiskInv

\* A run goes on or ends, perhaps outlived by something in its workspace, which stays as it
\* is or is emptied.
LEMMA GoesOnKeepsDisk ==
  ASSUME IInv, DiskInv, NEW s \in Sessions, s \in Active,
         NEW q, q \notin {"new", "queued", "create"}, pc' = [pc EXCEPT ![s] = q],
         UNCHANGED <<repo, dirs>>,
         outlived' = outlived \/ (s \in dirs /\ outlived' = outlived \cup {s}),
         size' = size \/ size' = [size EXCEPT ![s] = 0]
  PROVE  DiskInv'
  <1>1. pc \in [Sessions -> Places] /\ dirs \subseteq Sessions
    BY DEF IInv, TypeOK
  <1>2. Active' \subseteq Active
    BY <1>1 DEF Active
  <1>3. IsFiniteSet(Active') /\ Cardinality(Active') <= Slots
    BY <1>2, SlotsAreKept
  <1>4. \A t \in dirs : pc'[t] \notin {"new", "queued", "create"}
    BY <1>1 DEF DiskInv
  <1>5. size' \in [Sessions -> 0..Largest]
    BY IngestionAssumption DEF DiskInv
  <1>6. /\ \A t \in Sessions \ dirs : size'[t] = 0
        /\ \A t \in Sessions \ Growers : size'[t] = size[t]
    BY DEF DiskInv, Growers
  <1>7. outlived \subseteq outlived' /\ outlived' \subseteq dirs
    BY DEF DiskInv
  <1>8. \A t \in dirs : t \in Growers' => t \in Growers
    BY <1>2 DEF Growers
  <1> QED
    BY <1>3, <1>4, <1>5, <1>6, <1>7, <1>8, ChargesFall

\* A session is queued, and launch() takes a slot for it, while it has no workspace.
LEMMA LaunchKeepsDisk ==
  ASSUME IInv, DiskInv, NEW s \in Sessions, Post(s) \/ Launch(s)
  PROVE  DiskInv'
  <1>1. /\ \/ pc[s] = "new" /\ pc' = [pc EXCEPT ![s] = "queued"]
           \/ /\ pc[s] = "queued" /\ pc' = [pc EXCEPT ![s] = "create"]
              /\ Cardinality(Active) < Slots
        /\ UNCHANGED <<repo, size, dirs, outlived>>
    BY DEF Post, Launch, Goes
  <1>2. pc \in [Sessions -> Places] /\ dirs \subseteq Sessions /\ s \notin dirs /\ s \notin Active
    BY <1>1 DEF IInv, TypeOK, DiskInv, Active
  <1>3. IsFiniteSet(Active) /\ Cardinality(Active) \in Nat /\ Cardinality(Active) <= Slots
    BY FS_CardinalityType DEF DiskInv
  <1>4. Active' \subseteq Active \cup {s}
    BY <1>1, <1>2 DEF Active
  <1>5. IsFiniteSet(Active') /\ Cardinality(Active') <= Slots
    <2>1. CASE pc' = [pc EXCEPT ![s] = "queued"]
      <3>1. Active' = Active
        BY <1>2, <2>1 DEF Active
      <3> QED
        BY <1>3, <3>1
    <2>2. CASE pc' = [pc EXCEPT ![s] = "create"] /\ Cardinality(Active) < Slots
      <3>1. Active' = Active \cup {s}
        BY <1>2, <2>2 DEF Active, Ended
      <3>2. IsFiniteSet(Active') /\ Cardinality(Active') = Cardinality(Active) + 1
        BY <1>2, <1>3, <3>1, FS_AddElement
      <3> QED
        BY <1>3, <2>2, <3>2, IngestionAssumption
    <2> QED
      BY <1>1, <2>1, <2>2
  <1>6. /\ \A t \in dirs : pc'[t] \notin {"new", "queued", "create"}
        /\ \A t \in dirs : t \in Growers' => t \in Growers
    BY <1>1, <1>2, <1>4 DEF DiskInv, Growers
  <1>7. /\ size' \in [Sessions -> 0..Largest]
        /\ \A t \in Sessions \ dirs : size'[t] = 0
        /\ \A t \in Sessions \ Growers : size'[t] = size[t]
        /\ outlived \subseteq outlived' /\ outlived' \subseteq dirs
    BY <1>1 DEF DiskInv
  <1> QED
    BY <1>1, <1>5, <1>6, <1>7, ChargesFall

\* Only those who still write add to their workspaces, and they have one.
LEMMA GrowKeepsDisk ==
  ASSUME IInv, DiskInv, NEW s \in Sessions, Grow(s) \/ WriteOn(s)
  PROVE  DiskInv'
  <1>1. UNCHANGED <<repo, pc, dirs, outlived>>
    BY DEF Grow, WriteOn
  <1>2. size' \in [Sessions -> 0..Largest] /\ \A t \in Sessions \ {s} : size'[t] = size[t]
    <2>1. CASE Grow(s)
      <3>1. /\ size' = [size EXCEPT ![s] = @ + 1]
            /\ size[s] < (IF pc[s] = "clone" THEN repo[s].size ELSE Largest)
        BY <2>1 DEF Grow
      <3>2. repo[s].size \in 0..Largest
        BY IngestionAssumption DEF DiskInv
      <3>3. size[s] + 1 \in 0..Largest
        BY <3>1, <3>2, IngestionAssumption DEF DiskInv
      <3> QED
        BY <3>1, <3>3 DEF DiskInv
    <2>2. CASE WriteOn(s)
      <3>1. PICK bytes \in {0, size[s] + 1} : bytes <= Largest /\ size' = [size EXCEPT ![s] = bytes]
        BY <2>2 DEF WriteOn
      <3>2. bytes \in 0..Largest
        BY <3>1, IngestionAssumption DEF DiskInv
      <3> QED
        BY <3>1, <3>2 DEF DiskInv
    <2> QED
      BY <2>1, <2>2
  <1>3. Active' = Active /\ Growers' = Growers
    BY <1>1 DEF Active, Growers
  <1>4. s \in dirs /\ s \in Growers
    <2>1. CASE Grow(s)
      <3>1. SessionInv(s) /\ log[s] \in Seq(Events) /\ pc[s] \in {"clone", "working"}
        BY <2>1 DEF IInv, TypeOK, Grow
      <3>2. Len(log[s]) # 0
        BY <3>1 DEF SessionInv, CountInv, Count, Counted
      <3> QED
        BY <3>1, <3>2 DEF SessionInv, DirInv, Growers, Active, Ended
    <2>2. CASE WriteOn(s)
      BY <2>2 DEF WriteOn, DiskInv, Growers
    <2> QED
      BY <2>1, <2>2
  <1>5. /\ \A t \in Sessions \ dirs : size'[t] = 0
        /\ \A t \in Sessions \ Growers : size'[t] = size[t]
    BY <1>2, <1>4 DEF DiskInv
  <1>6. /\ \A t \in dirs : pc'[t] \notin {"new", "queued", "create"}
        /\ IsFiniteSet(Active') /\ Cardinality(Active') <= Slots
        /\ outlived \subseteq outlived' /\ outlived' \subseteq dirs
    BY <1>1, <1>3 DEF DiskInv
  <1>7. \A t \in dirs : t \in Growers' => t \in Growers
    BY <1>3
  <1> QED
    BY <1>1, <1>2, <1>5, <1>6, <1>7, ChargesFall

\* A restart ends runs, and leaves every workspace to what goes on in it.
LEMMA RestartKeepsDisk == IInv /\ DiskInv /\ Restart => DiskInv'
  <1> SUFFICES ASSUME IInv, DiskInv, Restart
               PROVE  DiskInv'
    OBVIOUS
  <1>1. /\ pc' = [s \in Sessions |-> IF s \in Active THEN "crashed"
                                     ELSE IF s \in Queued THEN "forgotten" ELSE pc[s]]
        /\ outlived' = outlived \cup {s \in Active : pc[s] \in {"clone", "working"}}
        /\ UNCHANGED <<repo, size, dirs>>
    BY DEF Restart
  <1>2. dirs \subseteq Sessions /\ Active \subseteq Sessions
    BY DEF IInv, TypeOK, Active
  <1>3. Active' \subseteq Active
    BY <1>1 DEF Active, Ended
  <1>4. IsFiniteSet(Active') /\ Cardinality(Active') <= Slots
    BY <1>3, SlotsAreKept
  <1>5. \A t \in dirs : pc'[t] \notin {"new", "queued", "create"}
    BY <1>1, <1>2 DEF DiskInv
  <1>6. /\ size' \in [Sessions -> 0..Largest]
        /\ \A t \in Sessions \ dirs : size'[t] = 0
        /\ \A t \in Sessions \ Growers : size'[t] = size[t]
    BY <1>1 DEF DiskInv
  <1>7. \A t \in {s \in Active : pc[s] \in {"clone", "working"}} : t \in dirs
    <2> SUFFICES ASSUME NEW t \in Sessions, pc[t] \in {"clone", "working"}
                 PROVE  t \in dirs
      BY <1>2
    <2>1. SessionInv(t) /\ log[t] \in Seq(Events)
      BY DEF IInv, TypeOK
    <2>2. Len(log[t]) # 0
      BY <2>1 DEF SessionInv, CountInv, Count, Counted
    <2> QED
      BY <2>1, <2>2 DEF SessionInv, DirInv
  <1>8. outlived \subseteq outlived' /\ outlived' \subseteq dirs
    BY <1>1, <1>7 DEF DiskInv
  <1>9. \A t \in dirs : t \in Growers' => t \in Growers
    BY <1>1, <1>3 DEF Growers
  <1> QED
    BY <1>1, <1>4, <1>5, <1>6, <1>8, <1>9, ChargesFall

\* _emit() leads on or into a crash, and touches no workspace.
LEMMA EmitLeads ==
  ASSUME NEW s \in Sessions, NEW step, NEW label, Emit(s, step, label)
  PROVE  pc' = [pc EXCEPT ![s] = label] \/ pc' = [pc EXCEPT ![s] = "crashed"]
  BY DEF Emit, Goes

\* The steps of ingest() behind create(), and the end of a run.
LEMMA IngestKeepsDisk ==
  ASSUME IInv, DiskInv, NEW s \in Sessions, Ingest(s) \/ Over(s)
  PROVE  DiskInv'
  <1>1. CASE Create(s)
    <2>1. pc[s] = "create" /\ UNCHANGED <<repo, size, outlived>>
      BY <1>1 DEF Create
    <2>2. s \in Active /\ s \notin dirs
      BY <2>1 DEF Active, Ended, DiskInv
    <2>3. CASE pc' = [pc EXCEPT ![s] = "failed"] /\ UNCHANGED dirs
      BY <2>1, <2>2, <2>3, GoesOnKeepsDisk
    <2>4. CASE ~(Usage >= MaxBytes) /\ dirs' = dirs \cup {s} /\ pc' = [pc EXCEPT ![s] = "created"]
      <3>1. Usage \in Nat
        <4>1. \A t \in dirs : size[t] \in Nat
          BY DEF DiskInv, IInv, TypeOK
        <4>2. Total(size, dirs) \in Nat
          BY <4>1, TotalIsNat DEF DiskInv
        <4> QED
          BY <4>2 DEF Usage, Total
      <3>2. Usage < MaxBytes
        BY <2>4, <3>1, IngestionAssumption
      <3> QED
        BY <2>1, <2>4, <3>2, CreateKeepsDisk
    <2> QED
      BY <1>1, <2>3, <2>4 DEF Create, Goes
  <1>2. CASE ~Create(s)
    <2>1. /\ pc[s] \in {"created", "clone", "sha", "branch", "head", "issue", "profile", "index",
                        "record", "working"}
          /\ UNCHANGED <<repo, dirs>>
      BY <1>2 DEF Ingest, Over, Created, CloneReturns, ShaReturns, SymrefReturns, HeadReturns,
                  IssueResolved, Profiled, Indexed, Recorded
    <2>2. s \in Active /\ pc[s] # "create"
      BY <2>1 DEF Active, Ended
    <2>3. \E q : q \notin {"new", "queued", "create"} /\ pc' = [pc EXCEPT ![s] = q]
      BY <1>2, EmitLeads
         DEF Ingest, Over, Created, CloneReturns, ShaReturns, SymrefReturns, HeadReturns,
             IssueResolved, Profiled, Indexed, Recorded, Fails, Goes
    <2>5. outlived' = outlived \/ (s \in dirs /\ outlived' = outlived \cup {s})
      <3>1. CASE Over(s)
        <4>1. SessionInv(s) /\ log[s] \in Seq(Events) /\ pc[s] = "working"
          BY <3>1 DEF IInv, TypeOK, Over
        <4>2. s \in dirs
          BY <4>1 DEF SessionInv, DirInv, CountInv, Count, Counted
        <4>3. PICK rest \in SUBSET {s} : outlived' = outlived \cup rest
          BY <3>1 DEF Over
        <4>4. rest = {} \/ rest = {s}
          BY <4>3
        <4> QED
          BY <4>2, <4>3, <4>4
      <3>2. CASE Ingest(s)
        BY <1>2, <3>2
           DEF Ingest, Created, CloneReturns, ShaReturns, SymrefReturns, HeadReturns,
               IssueResolved, Profiled, Indexed, Recorded
      <3> QED
        BY <3>1, <3>2
    <2>4. size' = size \/ size' = [size EXCEPT ![s] = 0]
      BY <1>2
         DEF Ingest, Over, Created, CloneReturns, ShaReturns, SymrefReturns, HeadReturns,
             IssueResolved, Profiled, Indexed, Recorded
    <2> QED
      BY <2>1, <2>2, <2>3, <2>4, <2>5, GoesOnKeepsDisk
  <1> QED
    BY <1>1, <1>2

\* Every step keeps the charges below the bound.
LEMMA DiskInductive == IInv /\ DiskInv /\ [Next]_vars => DiskInv'
  <1> SUFFICES ASSUME IInv, DiskInv, [Next]_vars
               PROVE  DiskInv'
    OBVIOUS
  <1>1. CASE UNCHANGED vars
    <2>1. /\ UNCHANGED <<repo, size, dirs, outlived>> /\ Active' = Active
          /\ \A t \in dirs : t \in Growers' => t \in Growers
      BY <1>1 DEF vars, Active, Growers
    <2>2. /\ \A t \in dirs : pc'[t] \notin {"new", "queued", "create"}
          /\ size' \in [Sessions -> 0..Largest]
          /\ \A t \in Sessions \ dirs : size'[t] = 0
          /\ outlived \subseteq outlived' /\ outlived' \subseteq dirs
      BY <1>1 DEF vars, DiskInv
    <2> QED
      BY <2>1, <2>2, SlotsAreKept, ChargesFall
  <1>2. CASE Restart
    BY <1>2, RestartKeepsDisk
  <1>3. ASSUME NEW s \in Sessions, Post(s) \/ Launch(s) \/ Ingest(s) \/ Grow(s) \/ Over(s) \/ WriteOn(s)
        PROVE  DiskInv'
    BY <1>3, LaunchKeepsDisk, IngestKeepsDisk, GrowKeepsDisk
  <1> QED
    BY <1>1, <1>2, <1>3 DEF Next

\* Several sessions pass the check of the ceiling at once, each with a clone of unknown size,
\* no workspace is ever removed, and what a restart or a run leaves behind writes on: the
\* disk never holds more than the ceiling and one largest workspace for each slot and for
\* each run that something outlived (WorkspaceManager.create, usage_bytes).
THEOREM DiskHolds == Spec => []DiskBounded
  <1>1. ASSUME IInv, DiskInv
        PROVE  DiskBounded
    <2>1. dirs \subseteq Sessions /\ IsFiniteSet(dirs)
      BY <1>1 DEF IInv, TypeOK, DiskInv
    <2> DEFINE r == Reserve
    <2>2. \A s \in dirs : size[s] \in Nat /\ r[s] \in Nat
                          /\ size[s] <= r[s] + (IF s \in {} THEN 0 ELSE 0)
      BY <1>1, <2>1, ReserveIs DEF DiskInv
    <2>3. Total(r, dirs) < Bound
      BY <1>1 DEF DiskInv
    <2> HIDE DEF r
    <2>4. Total(size, dirs) <= Total(r, dirs) + 0 * Cardinality({} \cap dirs)
      BY <2>1, <2>2, TotalBounded
    <2>5. Cardinality({} \cap dirs) = 0
      BY FS_EmptySet
    <2>6. Total(size, dirs) \in Nat /\ Total(r, dirs) \in Nat
      BY <2>1, <2>2, TotalIsNat
    <2>7. Bound \in Nat
      <3>1. IsFiniteSet(outlived)
        BY <1>1, FS_Subset DEF DiskInv
      <3>2. Cardinality(outlived) \in Nat
        BY <3>1, FS_CardinalityType
      <3>3. (Slots + Cardinality(outlived)) * Largest \in Nat
        BY <3>2, IngestionAssumption
      <3> QED
        BY <3>3, IngestionAssumption DEF Bound
    <2>8. Total(size, dirs) < Bound
      BY <2>3, <2>4, <2>5, <2>6, <2>7
    <2> QED
      BY <2>8 DEF DiskBounded, Usage, Total, Bound
  <1> QED
    BY <1>1, InitIInv, Inductive, InitDiskInv, DiskInductive, PTL DEF Spec

-----------------------------------------------------------------------------
(* What a recursion on a number of steps gives.                            *)

\* What holds of nought, and of i + 1 if of i, holds of every number up to n.
LEMMA UpTo ==
  ASSUME NEW n \in Nat, NEW S, 0 \in S,
         \A i \in 0..(n - 1) : i \in S => i + 1 \in S
  PROVE  \A i \in 0..n : i \in S
  <1> DEFINE less == {pair \in Nat \X Nat : pair[1] < pair[2]}
             Bad == {i \in 0..n : i \notin S}
  <1>1. IsWellFoundedOn(less, Nat)
    BY NatLessThanWellFounded DEF OpToRel
  <1>2. \A m, k \in Nat : m < k => <<m, k>> \in less
    OBVIOUS
  <1> HIDE DEF less
  <1> SUFFICES ASSUME Bad # {}
               PROVE  FALSE
    OBVIOUS
  <1>3. Bad \in SUBSET Nat
    OBVIOUS
  <1>4. PICK k \in Bad : \A m \in Bad : <<m, k>> \notin less
    <2> HIDE DEF Bad
    <2> QED
      BY <1>1, <1>3, WFMin
  <1>5. k \in 1..n /\ k - 1 \in 0..(n - 1)
    BY <1>4
  <1>6. k - 1 \notin Bad
    <2>1. k \in Nat /\ k - 1 \in Nat /\ k - 1 < k
      BY <1>5
    <2>2. <<k - 1, k>> \in less
      BY <1>2, <2>1
    <2> HIDE DEF Bad
    <2> QED
      BY <1>4, <2>2
  <1> QED
    BY <1>4, <1>5, <1>6

\* What a recursive function of the number of steps done is; h is the step.
Recurs(g, n, T, b, h) ==
    g \in [0..n -> T] /\ g[0] = b /\ \A i \in 1..n : g[i] = h[<<g[i - 1], i>>]

LEMMA RecursionExists ==
  ASSUME NEW n \in Nat, NEW T, NEW b \in T, NEW h, \A x \in T, i \in 1..n : h[<<x, i>>] \in T
  PROVE  \E g : Recurs(g, n, T, b, h)
  <1> DEFINE Follows(g, k) == \A i \in 0..k : g[i] = IF i = 0 THEN b ELSE h[<<g[i - 1], i>>]
             S == {k \in 0..n : \E g \in [0..k -> T] : Follows(g, k)}
  <1>1. 0 \in S
    <2> DEFINE g == [i \in 0..0 |-> b]
    <2>1. g \in [0..0 -> T] /\ Follows(g, 0)
      OBVIOUS
    <2> HIDE DEF g, Follows
    <2>2. \E f \in [0..0 -> T] : Follows(f, 0)
      BY <2>1
    <2> QED
      BY <2>2
  <1>2. ASSUME NEW k \in 0..(n - 1), k \in S
        PROVE  k + 1 \in S
    <2>1. PICK g \in [0..k -> T] : Follows(g, k)
      BY <1>2
    <2> DEFINE e == h[<<g[k], k + 1>>]
               f == [i \in 0..(k + 1) |-> IF i = k + 1 THEN e ELSE g[i]]
    <2>2. e \in T
      OBVIOUS
    <2>3. f \in [0..(k + 1) -> T]
      BY <2>2
    <2>4. ASSUME NEW i \in 0..(k + 1)
          PROVE  f[i] = IF i = 0 THEN b ELSE h[<<f[i - 1], i>>]
      <3>1. CASE i = k + 1
        <4>1. f[i] = e /\ f[i - 1] = g[k] /\ i # 0
          BY <3>1
        <4> QED
          BY <3>1, <4>1
      <3>2. CASE i \in 0..k
        <4>1. i # 0 => i - 1 \in 0..k
          BY <3>2
        <4>2. f[i] = g[i] /\ (i # 0 => f[i - 1] = g[i - 1])
          BY <3>2, <4>1
        <4> QED
          BY <2>1, <3>2, <4>2
      <3> QED
        BY <3>1, <3>2
    <2>5. Follows(f, k + 1)
      BY <2>4
    <2> HIDE DEF f, Follows
    <2> QED
      BY <2>3, <2>5
  <1>3. n \in S
    <2> HIDE DEF S
    <2> QED
      BY <1>1, <1>2, UpTo
  <1>4. PICK g \in [0..n -> T] : Follows(g, n)
    BY <1>3
  <1>5. 0 \in 0..n /\ \A i \in 1..n : i \in 0..n /\ i # 0
    OBVIOUS
  <1>6. g[0] = b /\ \A i \in 1..n : g[i] = h[<<g[i - 1], i>>]
    BY <1>4, <1>5, Zenon
  <1> QED
    BY <1>6 DEF Recurs

\* It has those values if each has them that comes from one of them.
LEMMA RecursionIsTyped ==
  ASSUME NEW n \in Nat, NEW T, NEW b \in T, NEW h, \A x \in T, i \in 1..n : h[<<x, i>>] \in T,
         NEW f, f = [i \in 0..n |-> f[i]], f[0] = b,
         \A i \in 1..n : f[i - 1] \in T => f[i] = h[<<f[i - 1], i>>]
  PROVE  Recurs(f, n, T, b, h)
  <1> DEFINE S == {i \in 0..n : f[i] \in T}
  <1>1. 0 \in S
    OBVIOUS
  <1>2. ASSUME NEW i \in 0..(n - 1), i \in S
        PROVE  i + 1 \in S
    <2>1. i + 1 \in 1..n /\ (i + 1) - 1 = i
      OBVIOUS
    <2>2. f[i + 1] = h[<<f[i], i + 1>>]
      BY <1>2, <2>1
    <2> QED
      BY <1>2, <2>1, <2>2
  <1>3. \A i \in 0..n : i \in S
    <2> HIDE DEF S
    <2> QED
      BY <1>1, <1>2, UpTo
  <1>4. f \in [0..n -> T]
    <2>1. \A i \in 0..n : f[i] \in T
      BY <1>3
    <2> QED
      BY <2>1
  <1>5. \A i \in 1..n : i - 1 \in 0..n
    OBVIOUS
  <1> QED
    BY <1>3, <1>4, <1>5 DEF Recurs

-----------------------------------------------------------------------------
(* Paths.                                                                  *)

Parts == Seq(ToSet(Names))

\* That p begins with q, part by part.
Begins(q, p) == Len(q) <= Len(p) /\ \A i \in 1..Len(q) : q[i] = p[i]

LEMMA PathsAreParts == Root \in Parts /\ Paths \subseteq Parts /\ \A p \in Paths : Len(p) \in Nat \ {0}
  BY DEF Parts, Paths, Root

LEMMA Beginning ==
  ASSUME NEW S, NEW p \in Seq(S), NEW l \in 0..Len(p)
  PROVE  /\ SubSeq(p, 1, l) \in Seq(S) /\ Len(SubSeq(p, 1, l)) = l
         /\ \A i \in 1..l : SubSeq(p, 1, l)[i] = p[i]
  <1>1. \A i \in 1..l : p[i] \in S
    OBVIOUS
  <1>2. l \in Int /\ l - 1 + 1 = l
    OBVIOUS
  <1> QED
    BY <1>1, <1>2, SubSeqProperties

LEMMA PrefixesBegin ==
  ASSUME NEW S, NEW p \in Seq(S), NEW q
  PROVE  q \in Prefixes(p) <=> q \in Seq(S) /\ Begins(q, p)
  <1>1. ASSUME q \in Prefixes(p)
        PROVE  q \in Seq(S) /\ Begins(q, p)
    <2>1. PICK l \in 0..Len(p) : q = SubSeq(p, 1, l)
      BY <1>1 DEF Prefixes
    <2> QED
      BY <2>1, Beginning DEF Begins
  <1>2. ASSUME q \in Seq(S), Begins(q, p)
        PROVE  q \in Prefixes(p)
    <2>1. Len(q) \in 0..Len(p)
      BY <1>2 DEF Begins
    <2>2. q = SubSeq(p, 1, Len(q))
      BY <1>2, <2>1, Beginning, SeqEqual DEF Begins
    <2> QED
      BY <2>1, <2>2 DEF Prefixes
  <1> QED
    BY <1>1, <1>2

LEMMA PrefixBegins ==
  ASSUME NEW S, NEW p \in Seq(S), NEW q \in Seq(S)
  PROVE  /\ IsPrefix(q, p) <=> Begins(q, p)
         /\ IsStrictPrefix(q, p) <=> Begins(q, p) /\ Len(q) < Len(p)
  <1>1. SubSeq(q, 1, Len(q)) = q /\ Len(q) \in Nat /\ Len(p) \in Nat
    BY SubSeqFull
  <1>2. IsPrefix(q, p) <=> Begins(q, p)
    <2>1. CASE Len(q) <= Len(p)
      <3>1. /\ SubSeq(p, 1, Len(q)) \in Seq(S) /\ Len(SubSeq(p, 1, Len(q))) = Len(q)
            /\ \A i \in 1..Len(q) : SubSeq(p, 1, Len(q))[i] = p[i]
        BY <1>1, <2>1, Beginning
      <3>2. q = SubSeq(p, 1, Len(q)) <=> \A i \in 1..Len(q) : q[i] = p[i]
        BY <3>1, SeqEqual
      <3> QED
        BY <1>1, <2>1, <3>2 DEF IsPrefix, Begins
    <2>2. CASE ~(Len(q) <= Len(p))
      BY <2>2 DEF IsPrefix, Begins
    <2> QED
      BY <2>1, <2>2
  <1>3. Begins(q, p) => (q # p <=> Len(q) < Len(p))
    BY <1>1, SeqEqual DEF Begins
  <1> QED
    BY <1>2, <1>3 DEF IsStrictPrefix

\* The path of what is at i in the directory p, and the directory of a path.
LEMMA EntryIs ==
  ASSUME NEW p \in Parts, NEW i \in DOMAIN Names
  PROVE  /\ Entry(p, i) \in Paths /\ Len(Entry(p, i)) = Len(p) + 1
         /\ Entry(p, i)[Len(p) + 1] = Names[i] /\ \A j \in 1..Len(p) : Entry(p, i)[j] = p[j]
  <1>1. Names[i] \in ToSet(Names)
    BY DEF ToSet
  <1> QED
    BY <1>1, AppendProperties DEF Entry, Parts, Paths, Root

LEMMA FrontIs ==
  ASSUME NEW p \in Paths
  PROVE  /\ Front(p) \in Parts /\ Len(Front(p)) = Len(p) - 1
         /\ \A j \in 1..(Len(p) - 1) : Front(p)[j] = p[j]
  <1>1. p \in Parts /\ Len(p) - 1 \in 0..Len(p)
    BY PathsAreParts DEF Parts
  <1> QED
    BY <1>1, Beginning DEF Front, Parts

-----------------------------------------------------------------------------
(* A patch.                                                                *)

Scanned == [count : Nat, next : Nat]
Scans(f, lines, old) ==
    /\ f \in [0..Len(lines) -> Scanned]
    /\ f[0] = [count |-> 0, next |-> 1]
    /\ \A i \in 1..Len(lines) :
        f[i] = IF f[i - 1].next <= i /\ Occurs(lines, old, i)
               THEN [count |-> f[i - 1].count + 1, next |-> i + Len(old)]
               ELSE f[i - 1]

LEMMA ScanIsThere ==
  ASSUME NEW lines \in Seq(Lines), NEW old \in Seq(Lines)
  PROVE  \E f : Scans(f, lines, old) /\ Occurrences(lines, old) = f[Len(lines)].count
  <1> DEFINE n == Len(lines)
             b == [count |-> 0, next |-> 1]
             Advance(r, i) == IF r.next <= i /\ Occurs(lines, old, i)
                              THEN [count |-> r.count + 1, next |-> i + Len(old)]
                              ELSE r
             h == [x \in Scanned \X (1..n) |-> Advance(x[1], x[2])]
             Is(f) == f = [i \in 0..n |-> IF i = 0 THEN b ELSE Advance(f[i - 1], i)]
             scan == CHOOSE g : Is(g)
  <1>1. n \in Nat /\ Len(old) \in Nat
    OBVIOUS
  <1>2. b \in Scanned /\ \A r \in Scanned, i \in 1..n : h[<<r, i>>] \in Scanned
    BY <1>1 DEF Scanned
  <1>3. PICK g : Recurs(g, n, Scanned, b, h)
    <2> HIDE DEF h, b, n
    <2> QED
      BY <1>1, <1>2, RecursionExists
  <1>4. ASSUME NEW i \in 1..n
        PROVE  g[i] = Advance(g[i - 1], i)
    <2>1. g[i - 1] \in Scanned
      BY <1>3 DEF Recurs
    <2>2. g[i] = h[<<g[i - 1], i>>]
      BY <1>3 DEF Recurs
    <2> QED
      BY <2>1, <2>2
  <1>5. g \in [0..n -> Scanned] /\ g[0] = b
    BY <1>3 DEF Recurs
  <1>6. \E f : Is(f)
    <2>1. \A i \in 0..n : g[i] = IF i = 0 THEN b ELSE Advance(g[i - 1], i)
      <3> HIDE DEF b, Advance, n
      <3> QED
        BY <1>1, <1>4, <1>5
    <2>2. g = [i \in 0..n |-> g[i]]
      BY <1>5
    <2> HIDE DEF b, Advance, n
    <2> QED
      BY <2>1, <2>2, Zenon
  <1>7. Is(scan)
    <2> HIDE DEF Is
    <2> QED
      BY <1>6
  <1>8. Occurrences(lines, old) = scan[n].count
    BY DEF Occurrences
  <1>9. /\ scan = [i \in 0..n |-> scan[i]] /\ scan[0] = b
        /\ \A i \in 1..n : scan[i] = Advance(scan[i - 1], i)
    <2>1. 0 \in 0..n /\ \A i \in 1..n : i \in 0..n /\ i # 0
      BY <1>1
    <2> HIDE DEF b, Advance, scan, n
    <2>2. scan = [i \in 0..n |-> scan[i]]
      BY <1>7
    <2> QED
      BY <1>7, <2>1, <2>2
  <1>10. Recurs(scan, n, Scanned, b, h)
    <2>1. \A i \in 1..n : scan[i - 1] \in Scanned => scan[i] = h[<<scan[i - 1], i>>]
      <3> HIDE DEF b, Advance, scan, n
      <3> QED
        BY <1>9
    <2> HIDE DEF b, h, scan, n
    <2> QED
      BY <1>1, <1>2, <1>9, <2>1, RecursionIsTyped
  <1>11. Scans(scan, lines, old)
    <2> HIDE DEF h, scan
    <2> QED
      BY <1>9, <1>10 DEF Scans, Recurs
  <1> QED
    BY <1>8, <1>11

\* What the scan has seen after i lines: no occurrence; one, and then those that begin
\* in it; or two apart.
Seen(r, i, lines, old) ==
    LET at == {j \in At(lines, old) : j <= i}
    IN  /\ r.count = 0 => at = {} /\ r.next = 1
        /\ r.count = 1 => \E m \in at : /\ r.next = m + Len(old)
                                       /\ \A j \in at : m <= j /\ j < m + Len(old)
        /\ r.count > 1 => \E j, k \in at : j + Len(old) <= k

LEMMA ScanSees ==
  ASSUME NEW lines \in Seq(Lines), NEW old \in Seq(Lines) \ {<<>>}, NEW f, Scans(f, lines, old)
  PROVE  Seen(f[Len(lines)], Len(lines), lines, old)
  <1> DEFINE n == Len(lines)
             at(i) == {j \in At(lines, old) : j <= i}
             S == {i \in 0..n : Seen(f[i], i, lines, old)}
  <1>1. n \in Nat /\ Len(old) \in Nat \ {0}
    OBVIOUS
  <1>2. At(lines, old) \subseteq 1..n /\ \A i \in 1..n : i \in At(lines, old) <=> Occurs(lines, old, i)
    BY DEF At
  <1>3. f[0] = [count |-> 0, next |-> 1]
    BY DEF Scans
  <1>4. 0 \in S
    <2>1. at(0) = {}
      BY <1>2
    <2> QED
      BY <1>1, <1>3, <2>1 DEF Seen
  <1>5. ASSUME NEW i \in 0..(n - 1), i \in S
        PROVE  i + 1 \in S
    <2> DEFINE r == f[i]
               s == f[i + 1]
               k == i + 1
    <2>1. i \in 0..n /\ k \in 1..n /\ k - 1 = i
      BY <1>1
    <2>2. r \in Scanned
      BY <2>1 DEF Scans
    <2>3. s = IF r.next <= k /\ Occurs(lines, old, k)
              THEN [count |-> r.count + 1, next |-> k + Len(old)] ELSE r
      BY <2>1 DEF Scans
    <2>4. /\ r.count = 0 => at(i) = {} /\ r.next = 1
          /\ r.count = 1 => \E m \in at(i) : /\ r.next = m + Len(old)
                                           /\ \A j \in at(i) : m <= j /\ j < m + Len(old)
          /\ r.count > 1 => \E j, l \in at(i) : j + Len(old) <= l
      BY <1>5 DEF Seen
    <2>5. at(k) = IF Occurs(lines, old, k) THEN at(i) \cup {k} ELSE at(i)
      BY <1>1, <1>2
    <2>6. at(i) \subseteq 1..i
      BY <1>1, <1>2
    <2> HIDE DEF r, s, at
    <2>7. /\ s.count = 0 => at(k) = {} /\ s.next = 1
          /\ s.count = 1 => \E m \in at(k) : /\ s.next = m + Len(old)
                                           /\ \A j \in at(k) : m <= j /\ j < m + Len(old)
          /\ s.count > 1 => \E j, l \in at(k) : j + Len(old) <= l
      <3>1. CASE ~Occurs(lines, old, k)
        <4>1. s = r /\ at(k) = at(i)
          BY <2>3, <2>5, <3>1
        <4> QED
          BY <2>4, <4>1
      <3>2. CASE Occurs(lines, old, k) /\ r.next <= k
        <4>1. s.count = r.count + 1 /\ s.next = k + Len(old) /\ r.count \in Nat
          BY <2>2, <2>3, <3>2 DEF Scanned
        <4>2. k \in at(k) /\ at(i) \subseteq at(k) /\ at(k) = at(i) \cup {k}
          BY <2>5, <3>2
        <4>3. CASE r.count = 0
          <5>1. s.count = 1 /\ at(k) = {k}
            BY <2>4, <4>1, <4>2, <4>3
          <5>2. k \in at(k) /\ \A j \in at(k) : k <= j /\ j < k + Len(old)
            BY <1>1, <2>1, <5>1
          <5> QED
            BY <4>1, <5>1, <5>2
        <4>4. CASE r.count = 1
          <5>1. s.count = 2
            BY <4>1, <4>4
          <5>2. PICK m \in at(i) : r.next = m + Len(old)
            BY <2>4, <4>4
          <5>3. m + Len(old) <= k
            BY <3>2, <5>2
          <5> QED
            BY <4>2, <5>1, <5>2, <5>3
        <4>5. CASE r.count > 1
          <5>1. s.count > 1
            BY <4>1, <4>5
          <5> QED
            BY <2>4, <4>1, <4>2, <4>5, <5>1
        <4> QED
          BY <4>1, <4>3, <4>4, <4>5
      <3>3. CASE Occurs(lines, old, k) /\ ~(r.next <= k)
        <4>1. s = r /\ at(k) = at(i) \cup {k} /\ r.count \in Nat
          BY <2>2, <2>3, <2>5, <3>3 DEF Scanned
        <4>2. r.count # 0
          BY <2>1, <2>4, <3>3
        <4>3. CASE r.count = 1
          <5>1. PICK m \in at(i) : r.next = m + Len(old)
                                  /\ \A j \in at(i) : m <= j /\ j < m + Len(old)
            BY <2>4, <4>3
          <5>2. m \in Nat /\ m <= k /\ k < m + Len(old)
            BY <1>1, <2>1, <2>6, <3>3, <5>1
          <5> QED
            BY <4>1, <4>3, <5>1, <5>2
        <4>4. CASE r.count > 1
          BY <2>4, <4>1, <4>4
        <4> QED
          BY <4>1, <4>2, <4>3, <4>4
      <3> QED
        BY <3>1, <3>2, <3>3
    <2> QED
      BY <2>1, <2>7 DEF Seen, s, at
  <1>6. \A i \in 0..n : i \in S
    <2> HIDE DEF S
    <2> QED
      BY <1>1, <1>4, <1>5, UpTo
  <1>7. n \in S
    BY <1>1, <1>6
  <1> QED
    BY <1>7

\* Where the beginning of a file has a copy of old.
LEMMA InBeginning ==
  ASSUME NEW lines \in Seq(Lines), NEW old \in Seq(Lines) \ {<<>>}, NEW i \in 0..Len(lines)
  PROVE  old \in SubSeqs(SubSeq(lines, 1, i)) <=> \E m \in At(lines, old) : m + Len(old) - 1 <= i
  <1>0. PICK t : t = SubSeq(lines, 1, i)
    OBVIOUS
  <1>1. Len(old) \in Nat \ {0} /\ Len(lines) \in Nat
    OBVIOUS
  <1>2. t \in Seq(Lines) /\ Len(t) = i /\ \A j \in 1..i : t[j] = lines[j]
    <2>1. \A j \in 1..i : lines[j] \in Lines
      BY <1>1
    <2> QED
      BY <1>0, <1>1, <2>1, SubSeqProperties
  <1>3. \A a \in 1..i, b \in 1..i : SubSeq(t, a, b) = SubSeq(lines, a, b)
    <2>1. SUFFICES ASSUME NEW a \in 1..i, NEW b \in 1..i
                   PROVE  SubSeq(t, a, b) = SubSeq(lines, a, b)
      OBVIOUS
    <2>2. \A j \in a..b : t[j] = lines[j] /\ t[j] \in Lines
      BY <1>1, <1>2
    <2>3. /\ SubSeq(t, a, b) \in Seq(Lines) /\ SubSeq(lines, a, b) \in Seq(Lines)
          /\ Len(SubSeq(t, a, b)) = Len(SubSeq(lines, a, b))
          /\ Len(SubSeq(t, a, b)) = IF a <= b THEN b - a + 1 ELSE 0
          /\ \A j \in 1..(b - a + 1) : SubSeq(t, a, b)[j] = t[a + j - 1]
          /\ \A j \in 1..(b - a + 1) : SubSeq(lines, a, b)[j] = lines[a + j - 1]
      BY <2>2, SubSeqProperties
    <2>4. \A j \in 1..Len(SubSeq(t, a, b)) : SubSeq(t, a, b)[j] = SubSeq(lines, a, b)[j]
      BY <2>2, <2>3
    <2> QED
      BY <2>3, <2>4, SeqEqual
  <1>4. old \in SubSeqs(t) <=> \E a, b \in 0..Len(t) : old = SubSeq(t, a + 1, b)
    BY DEF SubSeqs
  <1>5. ASSUME old \in SubSeqs(t)
        PROVE  \E m \in At(lines, old) : m + Len(old) - 1 <= i
    <2>1. PICK a \in 0..i, b \in 0..i : old = SubSeq(t, a + 1, b)
      BY <1>2, <1>4, <1>5
    <2>2. a + 1 <= b
      <3>1. b < a + 1 => old = <<>>
        BY <2>1, SubSeqEmpty
      <3> QED
        BY <2>1, <3>1
    <2>3. old = SubSeq(lines, a + 1, b)
      <3>1. a + 1 \in 1..i /\ b \in 1..i
        BY <1>1, <2>1, <2>2
      <3> QED
        BY <1>3, <2>1, <3>1
    <2>4. Len(old) = b - a
      <3>1. \A j \in (a + 1)..b : lines[j] \in Lines
        BY <1>1
      <3> QED
        BY <2>2, <2>3, <3>1, SubSeqProperties
    <2>5. a + 1 \in 1..Len(lines) /\ (a + 1) + Len(old) - 1 = b
      BY <1>1, <2>2, <2>4
    <2>6. a + 1 \in At(lines, old)
      BY <1>1, <2>3, <2>5 DEF At, Occurs
    <2> QED
      BY <2>5, <2>6
  <1>6. ASSUME NEW m \in At(lines, old), m + Len(old) - 1 <= i
        PROVE  old \in SubSeqs(t)
    <2> DEFINE b == m + Len(old) - 1
    <2>1. m \in 1..i /\ b \in 1..i /\ m - 1 \in 0..i /\ (m - 1) + 1 = m /\ old = SubSeq(lines, m, b)
      BY <1>1, <1>6 DEF At, Occurs
    <2>2. old = SubSeq(t, (m - 1) + 1, b)
      BY <1>3, <2>1
    <2>3. m - 1 \in 0..Len(t) /\ b \in 0..Len(t)
      BY <1>2, <2>1
    <2>4. \E x, y \in 0..Len(t) : old = SubSeq(t, x + 1, y)
      <3> HIDE DEF b
      <3> USE <2>3
      <3> WITNESS m - 1 \in 0..Len(t), b \in 0..Len(t)
      <3> QED
        BY <2>2
    <2> QED
      BY <1>4, <2>4
  <1> QED
    BY <1>0, <1>5, <1>6

\* It is the first copy that is replaced.
LEMMA FirstIsReplaced ==
  ASSUME NEW lines \in Seq(Lines), NEW old \in Seq(Lines) \ {<<>>}, NEW new,
         NEW m \in At(lines, old), \A j \in At(lines, old) : m <= j
  PROVE  ReplaceFirstSubSeq(new, old, lines)
            = SubSeq(lines, 1, m - 1) \o new \o SubSeq(lines, m + Len(old), Len(lines))
  <1> DEFINE n == Len(lines)
             has(i) == old \in SubSeqs(SubSeq(lines, 1, i))
             Is(i) == i \in 0..n /\ has(i) /\ \A j \in 0..(i - 1) : ~has(j)
             last == CHOOSE i \in 0..n : has(i) /\ \A j \in 0..(i - 1) : ~has(j)
             e == m + Len(old) - 1
  <1>1. n \in Nat /\ Len(old) \in Nat \ {0}
    OBVIOUS
  <1>2. At(lines, old) \subseteq 1..n /\ e \in 1..n
    BY <1>1 DEF At, Occurs
  <1>3. \A i \in 0..n : has(i) <=> e <= i
    <2>1. SUFFICES ASSUME NEW i \in 0..n
                   PROVE  (\E j \in At(lines, old) : j + Len(old) - 1 <= i) <=> e <= i
      BY InBeginning
    <2> QED
      BY <1>1, <1>2
  <1> HIDE DEF has
  <1>4. Is(e)
    BY <1>1, <1>2, <1>3
  <1>5. Is(last)
    BY <1>4
  <1>6. last = e
    <2> HIDE DEF last
    <2>1. e <= last
      BY <1>3, <1>5
    <2>2. ~(e <= last - 1)
      BY <1>2, <1>3, <1>5
    <2> QED
      BY <1>2, <1>5, <2>1, <2>2
  <1>7. IndexFirstSubSeq(old, lines) = last - (Len(old) - 1)
    BY DEF IndexFirstSubSeq, has
  <1>8. IndexFirstSubSeq(old, lines) = m
    <2> HIDE DEF last
    <2> QED
      BY <1>1, <1>2, <1>6, <1>7
  <1>9. old \in SubSeqs(lines)
    <2>1. SubSeq(lines, 1, n) = lines
      BY SubSeqFull
    <2>2. has(n)
      BY <1>1, <1>2, <1>3
    <2> QED
      BY <2>1, <2>2 DEF has
  <1> QED
    BY <1>8, <1>9 DEF ReplaceFirstSubSeq, ReplaceSubSeqAt

(* The lines of a file, and what is read of them.                          *)

Flattens(f, seqs, S) ==
    /\ f \in [1..Len(seqs) -> Seq(S)] /\ f[1] = seqs[1]
    /\ \A i \in 2..Len(seqs) : f[i] = f[i - 1] \o seqs[i]

LEMMA FlattenIsThere ==
  ASSUME NEW S, NEW seqs \in Seq(Seq(S)), Len(seqs) # 0
  PROVE  \E f : Flattens(f, seqs, S) /\ FlattenSeq(seqs) = f[Len(seqs)]
  <1> DEFINE n == Len(seqs)
             b == seqs[1]
             T == Seq(S)
             h == [x \in T \X (1..(n - 1)) |-> x[1] \o seqs[x[2] + 1]]
             Is(f) == f = [i \in 1..n |-> IF i = 1 THEN seqs[i] ELSE f[i - 1] \o seqs[i]]
             flat == CHOOSE f : Is(f)
  <1>1. n \in Nat \ {0} /\ n - 1 \in Nat /\ \A i \in 1..n : seqs[i] \in T
    OBVIOUS
  <1>2. b \in T /\ \A x \in T, i \in 1..(n - 1) : h[<<x, i>>] \in T
    <2>1. \A x, y \in T : x \o y \in T
      BY ConcatProperties
    <2>2. ASSUME NEW x \in T, NEW i \in 1..(n - 1)
          PROVE  h[<<x, i>>] \in T
      <3>1. i + 1 \in 1..n
        BY <1>1
      <3>2. h[<<x, i>>] = x \o seqs[i + 1]
        <4> HIDE DEF T, n
        <4> QED
          OBVIOUS
      <3> HIDE DEF h, T, n
      <3> QED
        BY <1>1, <2>1, <3>1, <3>2
    <2>3. b \in T
      <3> HIDE DEF h, T
      <3> QED
        BY <1>1
    <2> HIDE DEF h, T, n, b
    <2> QED
      BY <2>2, <2>3
  <1>3. PICK g : Recurs(g, n - 1, T, b, h)
    <2> HIDE DEF h, b, n, T
    <2> QED
      BY <1>1, <1>2, RecursionExists
  <1>4. ASSUME NEW i \in 2..n
        PROVE  g[i - 1] = g[(i - 1) - 1] \o seqs[i]
    <2>1. i - 1 \in 1..(n - 1) /\ (i - 1) - 1 \in 0..(n - 1) /\ (i - 1) + 1 = i
      BY <1>1
    <2>2. g[(i - 1) - 1] \in T /\ g[i - 1] = h[<<g[(i - 1) - 1], i - 1>>]
      <3> HIDE DEF h, b, n, T
      <3> QED
        BY <1>3, <2>1 DEF Recurs
    <2>3. h[<<g[(i - 1) - 1], i - 1>>] = g[(i - 1) - 1] \o seqs[(i - 1) + 1]
      BY <2>1, <2>2
    <2> QED
      BY <2>1, <2>2, <2>3
  <1>5. \E f : Is(f)
    <2> DEFINE f == [i \in 1..n |-> g[i - 1]]
    <2>1. ASSUME NEW i \in 1..n
          PROVE  f[i] = IF i = 1 THEN seqs[i] ELSE f[i - 1] \o seqs[i]
      <3>1. CASE i = 1
        BY <1>3, <3>1 DEF Recurs
      <3>2. CASE i # 1
        <4>1. i \in 2..n /\ i - 1 \in 1..n
          BY <1>1, <3>2
        <4>2. f[i] = g[i - 1] /\ f[i - 1] = g[(i - 1) - 1]
          BY <4>1
        <4> QED
          BY <1>4, <3>2, <4>1, <4>2
      <3> QED
        BY <3>1, <3>2
    <2>2. f = [i \in 1..n |-> f[i]]
      OBVIOUS
    <2> HIDE DEF f
    <2> QED
      BY <2>1, <2>2, Zenon
  <1>6. Is(flat)
    <2> HIDE DEF Is
    <2> QED
      BY <1>5
  <1>7. FlattenSeq(seqs) = flat[n]
    BY DEF FlattenSeq
  <1>8. /\ flat = [i \in 1..n |-> flat[i]] /\ flat[1] = b
        /\ \A i \in 2..n : flat[i] = flat[i - 1] \o seqs[i]
    <2>1. 1 \in 1..n /\ \A i \in 2..n : i \in 1..n /\ i # 1
      BY <1>1
    <2> HIDE DEF flat, n
    <2>2. flat = [i \in 1..n |-> flat[i]]
      BY <1>6
    <2> QED
      BY <1>6, <2>1, <2>2
  <1> DEFINE D == {i \in 0..(n - 1) : flat[i + 1] \in T}
  <1>9. 0 \in D
    <2> HIDE DEF flat, b, T
    <2> QED
      BY <1>1, <1>2, <1>8
  <1>10. ASSUME NEW i \in 0..((n - 1) - 1), i \in D
         PROVE  i + 1 \in D
    <2>1. i + 2 \in 2..n /\ (i + 2) - 1 = i + 1 /\ i + 1 \in 0..(n - 1) /\ (i + 1) + 1 = i + 2
          /\ i + 2 \in 1..n
      BY <1>1
    <2> HIDE DEF flat, n
    <2>2. flat[i + 2] = flat[i + 1] \o seqs[i + 2]
      BY <1>8, <2>1
    <2>3. flat[i + 1] \in T /\ seqs[i + 2] \in T
      BY <1>1, <1>10, <2>1
    <2>4. flat[i + 2] \in T
      BY <2>2, <2>3, ConcatProperties
    <2> QED
      BY <2>1, <2>4
  <1>11. \A i \in 0..(n - 1) : i \in D
    <2> HIDE DEF D, n
    <2> QED
      BY <1>1, <1>9, <1>10, UpTo
  <1>12. \A i \in 1..n : flat[i] \in T
    <2>1. SUFFICES ASSUME NEW i \in 1..n PROVE flat[i] \in T
      OBVIOUS
    <2>2. i - 1 \in 0..(n - 1) /\ (i - 1) + 1 = i
      BY <1>1
    <2> HIDE DEF flat, n, T
    <2> QED
      BY <1>11, <2>2
  <1>13. Flattens(flat, seqs, S)
    <2>1. flat \in [1..n -> T]
      <3> HIDE DEF flat, n, T
      <3> QED
        BY <1>8, <1>12
    <2> HIDE DEF flat
    <2> QED
      BY <1>8, <2>1 DEF Flattens
  <1> QED
    <2> HIDE DEF flat
    <2> QED
      BY <1>7, <1>13

\* Sequences of one element each keep their places.
LEMMA FlattenHas ==
  ASSUME NEW S, NEW seqs \in Seq(Seq(S)), NEW i \in 0..Len(seqs),
         \A k \in 1..i : Len(seqs[k]) = 1
  PROVE  /\ FlattenSeq(seqs) \in Seq(S)
         /\ Len(FlattenSeq(seqs)) >= i /\ (i = Len(seqs) => Len(FlattenSeq(seqs)) = i)
         /\ \A k \in 1..i : FlattenSeq(seqs)[k] = seqs[k][1]
  <1> DEFINE n == Len(seqs)
  <1>1. n \in Nat /\ i \in Nat /\ i <= n
    OBVIOUS
  <1>2. CASE n = 0
    <2>1. FlattenSeq(seqs) = seqs /\ seqs = <<>> /\ i = 0
      BY <1>2 DEF FlattenSeq
    <2> QED
      BY <1>2, <2>1
  <1>3. CASE n # 0
    <2>1. PICK f : Flattens(f, seqs, S) /\ FlattenSeq(seqs) = f[n]
      BY <1>3, FlattenIsThere
    <2>2. /\ \A m \in 1..n : f[m] \in Seq(S) /\ seqs[m] \in Seq(S)
          /\ f[1] = seqs[1]
          /\ \A m \in 2..n : f[m] = f[m - 1] \o seqs[m]
      <3>1. f \in [1..n -> Seq(S)]
        BY <2>1 DEF Flattens
      <3>2. \A m \in 1..n : f[m] \in Seq(S)
        <4> DEFINE T == Seq(S)
        <4>1. f \in [1..n -> T]
          BY <3>1
        <4> HIDE DEF T
        <4>2. \A m \in 1..n : f[m] \in T
          BY <4>1
        <4> QED
          BY <4>2 DEF T
      <3>3. \A m \in 1..n : seqs[m] \in Seq(S)
        OBVIOUS
      <3> QED
        BY <2>1, <3>2, <3>3 DEF Flattens
    <2> DEFINE Good(m) == /\ m <= i => Len(f[m]) = m
                          /\ m >= i => Len(f[m]) >= i
                          /\ \A k \in 1..i : k <= m => f[m][k] = seqs[k][1]
               D == {m \in 0..(n - 1) : Good(m + 1)}
    <2>3. 0 \in D
      <3>1. 0 + 1 = 1 /\ 0 \in 0..(n - 1) /\ 1 \in 1..n
        BY <1>1, <1>3
      <3>2. Len(f[1]) \in Nat /\ (i # 0 => Len(f[1]) = 1)
        BY <1>1, <2>2, <3>1
      <3>3. \A k \in 1..i : k <= 1 => k = 1
        BY <1>1
      <3>4. /\ 1 <= i => Len(f[1]) = 1
            /\ 1 >= i => Len(f[1]) >= i
        <4>1. PICK l \in Nat : l = Len(f[1])
          BY <3>2
        <4>2. l \in Nat /\ (i # 0 => l = 1)
          BY <3>2, <4>1
        <4>3. (1 <= i => l = 1) /\ (1 >= i => l >= i)
          BY <1>1, <4>2
        <4> QED
          BY <4>1, <4>3, Zenon
      <3>5. \A k \in 1..i : k <= 1 => f[1][k] = seqs[k][1]
        BY <2>2, <3>3
      <3>6. Good(1)
        BY <3>4, <3>5
      <3> HIDE DEF Good
      <3> QED
        BY <3>1, <3>6
    <2>4. ASSUME NEW m \in 0..((n - 1) - 1), m \in D
          PROVE  m + 1 \in D
      <3> DEFINE a == f[m + 1]
                 c == seqs[m + 2]
      <3>1. m + 2 \in 2..n /\ (m + 2) - 1 = m + 1 /\ m + 1 \in 1..n /\ m + 2 \in 1..n
            /\ m + 1 \in 0..(n - 1) /\ (m + 1) + 1 = m + 2
        BY <1>1, <1>3
      <3>2. f[m + 2] = a \o c /\ a \in Seq(S) /\ c \in Seq(S)
        BY <2>2, <3>1
      <3>3. /\ m + 1 <= i => Len(a) = m + 1
            /\ m + 1 >= i => Len(a) >= i
            /\ \A k \in 1..i : k <= m + 1 => a[k] = seqs[k][1]
        BY <2>4
      <3>4. /\ Len(a) \in Nat /\ Len(c) \in Nat /\ Len(a \o c) = Len(a) + Len(c)
            /\ \A k \in 1..Len(a) : (a \o c)[k] = a[k]
            /\ Len(c) = 1 => (a \o c)[Len(a) + 1] = c[1]
        <4>1. Len(a) \in Nat /\ Len(c) \in Nat
          BY <3>2
        <4>2. /\ Len(a \o c) = Len(a) + Len(c)
              /\ \A k \in 1..(Len(a) + Len(c)) :
                    (a \o c)[k] = IF k <= Len(a) THEN a[k] ELSE c[k - Len(a)]
          <5> HIDE DEF a, c
          <5> QED
            BY <3>2, ConcatProperties
        <4> HIDE DEF a, c
        <4>3. \A k \in 1..Len(a) : (a \o c)[k] = a[k]
          BY <4>1, <4>2
        <4>4. Len(c) = 1 => (a \o c)[Len(a) + 1] = c[1]
          <5>1. Len(c) = 1 => /\ Len(a) + 1 \in 1..(Len(a) + Len(c))
                              /\ ~(Len(a) + 1 <= Len(a)) /\ (Len(a) + 1) - Len(a) = 1
            BY <4>1
          <5> QED
            BY <4>2, <5>1
        <4> QED
          BY <4>1, <4>2, <4>3, <4>4
      <3>5. m + 2 <= i => Len(c) = 1
        BY <1>1, <3>1
      <3>10. m \in Nat /\ n \in Nat /\ i \in Nat
        BY <1>1
      <3> HIDE DEF a, c
      <3>6. m + 2 <= i => Len(a \o c) = m + 2
        <4>1. m + 2 <= i => m + 1 <= i /\ (m + 1) + 1 = m + 2
          BY <3>10
        <4>2. m + 2 <= i => Len(a \o c) = (m + 1) + 1
          BY <3>3, <3>4, <3>5, <4>1, Zenon
        <4> QED
          BY <4>1, <4>2, Zenon
      <3>7. m + 2 >= i => Len(a \o c) >= i
        <4>1. CASE m + 2 = i
          BY <3>6, <4>1
        <4>2. CASE m + 2 # i
          BY <3>3, <3>4, <3>10, <4>2
        <4> QED
          BY <4>1, <4>2
      <3>8. ASSUME NEW k \in 1..i, k <= m + 2
            PROVE  (a \o c)[k] = seqs[k][1]
        <4>1. CASE k <= m + 1
          <5>1. k \in 1..Len(a)
            BY <3>3, <3>4, <3>10, <4>1
          <5> QED
            BY <3>3, <3>4, <4>1, <5>1
        <4>2. CASE k = m + 2
          <5>1. Len(a) + 1 = k /\ Len(c) = 1
            BY <3>3, <3>5, <3>10, <4>2
          <5>2. (a \o c)[k] = c[1]
            BY <3>4, <5>1
          <5> QED
            BY <4>2, <5>2 DEF c
        <4>3. k <= m + 1 \/ k = m + 2
          BY <3>8, <3>10
        <4> QED
          BY <4>1, <4>2, <4>3, Zenon
      <3>9. Good(m + 2)
        <4>1. f[m + 2] = a \o c
          BY <3>2
        <4> QED
          BY <3>6, <3>7, <3>8, <4>1
      <3> HIDE DEF Good
      <3> QED
        BY <3>1, <3>9
    <2>5. \A m \in 0..(n - 1) : m \in D
      <3>1. n - 1 \in Nat
        BY <1>1, <1>3
      <3> HIDE DEF D, n
      <3> QED
        BY <2>3, <2>4, <3>1, UpTo
    <2>6. Good(n)
      <3>1. n - 1 \in 0..(n - 1) /\ (n - 1) + 1 = n
        BY <1>1, <1>3
      <3> HIDE DEF Good
      <3> QED
        BY <2>5, <3>1
    <2>7. f[n] \in Seq(S) /\ Len(f[n]) \in Nat
      <3>1. n \in 1..n
        BY <1>1, <1>3
      <3> QED
        BY <2>2, <3>1
    <2> QED
      BY <1>1, <2>1, <2>6, <2>7
  <1> QED
    BY <1>2, <1>3

\* What is read of lines are lines.
LEMMA ReadIsText ==
  ASSUME NEW lines \in Seq(Lines)
  PROVE  /\ Read(lines) \in Seq(Lines) /\ Split(lines) \in Seq(Lines)
         /\ Len(Read(lines)) \in Nat /\ DOMAIN Read(lines) = 1..Len(Read(lines))
  <1> DEFINE seqs(t, f) == [i \in DOMAIN t |-> f[t[i]]]
  <1>1. ASSUME NEW f \in [Lines -> Seq(Lines)], NEW t \in Seq(Lines)
        PROVE  FlattenSeq(seqs(t, f)) \in Seq(Lines)
    <2>1. seqs(t, f) \in Seq(Seq(Lines))
      <3>1. DOMAIN t = 1..Len(t) /\ Len(t) \in Nat /\ \A i \in 1..Len(t) : f[t[i]] \in Seq(Lines)
        OBVIOUS
      <3> QED
        BY <3>1
    <2>2. 0 \in 0..Len(seqs(t, f)) /\ \A k \in 1..0 : Len(seqs(t, f)[k]) = 1
      BY <2>1
    <2> HIDE DEF seqs
    <2> QED
      BY <2>1, <2>2, FlattenHas
  <1>2. Decoded \in [Lines -> Seq(Lines)] /\ Pieces \in [Lines -> Seq(Lines)]
    BY WorkspaceAssumption
  <1>3. Read(lines) \in Seq(Lines)
    <2>1. Read(lines) = FlattenSeq(seqs(lines, Decoded))
      BY DEF Read
    <2> HIDE DEF seqs
    <2> QED
      BY <1>1, <1>2, <2>1
  <1>4. Split(lines) \in Seq(Lines)
    <2>1. Split(lines) = FlattenSeq(seqs(Read(lines), Pieces))
      BY DEF Split
    <2> HIDE DEF seqs
    <2> QED
      BY <1>1, <1>2, <1>3, <2>1
  <1> QED
    BY <1>3, <1>4

\* Lines that are one line each are where they are in the file.
LEMMA SingleReads ==
  ASSUME NEW lines \in Seq(Lines), NEW i \in 0..Len(lines), Single(lines, i)
  PROVE  /\ Len(Read(lines)) >= i /\ (i = Len(lines) => Len(Read(lines)) = i)
         /\ \A k \in 1..i : Read(lines)[k] = Decoded[lines[k]][1]
  <1> DEFINE seqs == [k \in DOMAIN lines |-> Decoded[lines[k]]]
  <1>1. Decoded \in [Lines -> Seq(Lines)]
    BY WorkspaceAssumption
  <1>2. seqs \in Seq(Seq(Lines)) /\ Len(seqs) = Len(lines) /\ Len(lines) \in Nat
        /\ \A k \in 1..Len(lines) : seqs[k] = Decoded[lines[k]]
    <2>1. DOMAIN lines = 1..Len(lines) /\ \A k \in 1..Len(lines) : Decoded[lines[k]] \in Seq(Lines)
      BY <1>1
    <2> QED
      BY <2>1
  <1>3. \A k \in 1..i : k \in 1..Len(lines) /\ Len(seqs[k]) = 1
    BY <1>2 DEF Single
  <1>4. Read(lines) = FlattenSeq(seqs)
    BY DEF Read
  <1> HIDE DEF seqs
  <1>5. /\ Len(FlattenSeq(seqs)) >= i /\ (i = Len(seqs) => Len(FlattenSeq(seqs)) = i)
        /\ \A k \in 1..i : FlattenSeq(seqs)[k] = seqs[k][1]
    BY <1>2, <1>3, FlattenHas
  <1> QED
    BY <1>2, <1>3, <1>4, <1>5

\* So are those that splitlines() does not split.
LEMMA UnsplitReads ==
  ASSUME NEW lines \in Seq(Lines), NEW i \in DOMAIN Read(lines), Unsplit(Read(lines), i)
  PROVE  i \in DOMAIN Split(lines) /\ Split(lines)[i] = Read(lines)[i]
  <1> DEFINE t == Read(lines)
             seqs == [k \in DOMAIN t |-> Pieces[t[k]]]
  <1>1. Pieces \in [Lines -> Seq(Lines)] /\ t \in Seq(Lines) /\ i \in 1..Len(t) /\ Len(t) \in Nat
    BY WorkspaceAssumption, ReadIsText
  <1>2. Split(lines) = FlattenSeq(seqs)
    BY DEF Split
  <1>3. \A k \in 1..i : k \in 1..Len(t) /\ Pieces[t[k]] = <<t[k]>>
    BY <1>1 DEF Unsplit
  <1> HIDE DEF t
  <1>4. seqs \in Seq(Seq(Lines)) /\ Len(seqs) = Len(t)
        /\ \A k \in 1..Len(t) : seqs[k] = Pieces[t[k]]
    <2>1. DOMAIN t = 1..Len(t) /\ \A k \in 1..Len(t) : Pieces[t[k]] \in Seq(Lines)
      BY <1>1
    <2> QED
      BY <1>1, <2>1
  <1>5. \A k \in 1..i : Len(seqs[k]) = 1 /\ seqs[k][1] = t[k]
    <2>1. SUFFICES ASSUME NEW k \in 1..i
                   PROVE  Len(seqs[k]) = 1 /\ seqs[k][1] = t[k]
      OBVIOUS
    <2>2. seqs[k] = <<t[k]>>
      <3> HIDE DEF seqs
      <3> QED
        BY <1>3, <1>4
    <2> HIDE DEF seqs
    <2> QED
      BY <2>2
  <1>6. i \in 0..Len(seqs) /\ i \in 1..i
    BY <1>1, <1>4
  <1> HIDE DEF seqs
  <1>7. /\ FlattenSeq(seqs) \in Seq(Lines) /\ Len(FlattenSeq(seqs)) >= i
        /\ \A k \in 1..i : FlattenSeq(seqs)[k] = seqs[k][1]
    BY <1>4, <1>5, <1>6, FlattenHas
  <1>8. i \in DOMAIN FlattenSeq(seqs) /\ FlattenSeq(seqs)[i] = t[i]
    BY <1>1, <1>5, <1>6, <1>7
  <1> QED
    BY <1>2, <1>8 DEF t

\* A file of plain lines is read as it is stored.
LEMMA PlainReads ==
  ASSUME NEW lines \in Seq(Lines), Plain(lines)
  PROVE  Read(lines) = lines
  <1>1. Len(lines) \in 0..Len(lines) /\ DOMAIN lines = 1..Len(lines)
    OBVIOUS
  <1>2. Single(lines, Len(lines))
    <2>1. \A k \in 1..Len(lines) : Decoded[lines[k]] = <<lines[k]>>
      BY <1>1 DEF Plain
    <2>2. ASSUME NEW k \in 1..Len(lines)
          PROVE  Len(Decoded[lines[k]]) = 1
      <3>1. Len(<<lines[k]>>) = 1
        OBVIOUS
      <3> QED
        BY <2>1, <3>1, Zenon
    <2> QED
      BY <2>2 DEF Single
  <1>3. Len(Read(lines)) = Len(lines) /\ \A k \in 1..Len(lines) : Read(lines)[k] = Decoded[lines[k]][1]
    BY <1>1, <1>2, SingleReads
  <1>4. \A k \in 1..Len(lines) : Read(lines)[k] = lines[k]
    BY <1>1, <1>3 DEF Plain
  <1> QED
    BY <1>3, <1>4, ReadIsText, SeqEqual

\* That the walks and the edits are about a tree of files, and the lines in them.
WsInv == IsClone(fs, text)

LEMMA InitWsInv == WorkspaceInit => WsInv
  BY WorkspaceAssumption DEF WorkspaceInit, WsInv

\* What a patch leaves of a file are lines.
LEMMA PatchedIsText ==
  ASSUME NEW lines \in Seq(Lines), NEW old \in Seq(Lines) \ {<<>>}, NEW new \in Seq(Lines)
  PROVE  /\ Patched(lines, old, new).lines \in Seq(Lines)
         /\ Patched(lines, old, new).ok =>
                \E m \in At(lines, old) :
                    /\ Patched(lines, old, new).lines
                        = SubSeq(lines, 1, m - 1) \o new \o SubSeq(lines, m + Len(old), Len(lines))
                    /\ \A j \in At(lines, old) : m <= j /\ j < m + Len(old)
         /\ ~Patched(lines, old, new).ok =>
                \/ At(lines, old) = {}
                \/ \E j, k \in At(lines, old) : j + Len(old) <= k
  <1> DEFINE n == Len(lines)
             at == At(lines, old)
             c == Occurrences(lines, old)
             after == Patched(lines, old, new)
  <1>1. n \in Nat /\ Len(old) \in Nat \ {0} /\ at \subseteq 1..n
    BY DEF At
  <1>2. c \in Nat
    <2>1. PICK f : Scans(f, lines, old) /\ c = f[n].count
      BY ScanIsThere
    <2>2. f[n] \in Scanned
      BY <1>1, <2>1 DEF Scans
    <2> QED
      BY <2>1, <2>2 DEF Scanned
  <1>3. /\ c = 0 => at = {}
        /\ c = 1 => \E m \in at : \A j \in at : m <= j /\ j < m + Len(old)
        /\ c > 1 => \E j, k \in at : j + Len(old) <= k
    <2>1. PICK f : Scans(f, lines, old) /\ c = f[n].count
      BY ScanIsThere
    <2>2. Seen(f[n], n, lines, old)
      BY <2>1, ScanSees
    <2>3. {j \in at : j <= n} = at
      BY <1>1
    <2> QED
      BY <2>1, <2>2, <2>3 DEF Seen
  <1> HIDE DEF c
  <1>4. CASE c = 1
    <2>1. after = [ok |-> TRUE, lines |-> ReplaceFirstSubSeq(new, old, lines)]
      BY <1>4 DEF Patched, c
    <2>2. PICK m \in at : \A j \in at : m <= j /\ j < m + Len(old)
      BY <1>3, <1>4
    <2>3. ReplaceFirstSubSeq(new, old, lines)
            = SubSeq(lines, 1, m - 1) \o new \o SubSeq(lines, m + Len(old), n)
      BY <2>2, FirstIsReplaced
    <2>4. /\ SubSeq(lines, 1, m - 1) \in Seq(Lines)
          /\ SubSeq(lines, m + Len(old), n) \in Seq(Lines)
      <3>1. m \in 1..n
        BY <1>1
      <3>2. (\A i \in 1..(m - 1) : lines[i] \in Lines) /\ \A i \in (m + Len(old))..n : lines[i] \in Lines
        BY <1>1, <3>1
      <3> QED
        BY <1>1, <3>1, <3>2, SubSeqProperties
    <2>5. SubSeq(lines, 1, m - 1) \o new \o SubSeq(lines, m + Len(old), n) \in Seq(Lines)
      BY <2>4, ConcatProperties
    <2>6. after.lines \in Seq(Lines) /\ after.ok
      BY <2>1, <2>3, <2>5
    <2>8. after.lines = ReplaceFirstSubSeq(new, old, lines)
      BY <2>1
    <2> HIDE DEF after, at
    <2>7. after.lines = SubSeq(lines, 1, m - 1) \o new \o SubSeq(lines, m + Len(old), n)
      BY <2>3, <2>8, Zenon
    <2>9. after.lines \in Seq(Lines) /\ after.ok /\ \E i \in at :
            /\ after.lines = SubSeq(lines, 1, i - 1) \o new \o SubSeq(lines, i + Len(old), n)
            /\ \A j \in at : i <= j /\ j < i + Len(old)
      <3> HIDE DEF n
      <3> QED
        BY <2>2, <2>6, <2>7, Zenon
    <2> QED
      BY <2>9, Zenon DEF after, at
  <1>5. CASE c # 1
    <2>1. after = [ok |-> FALSE, lines |-> lines]
      BY <1>5 DEF Patched, c
    <2> QED
      BY <1>2, <1>3, <1>5, <2>1
  <1> QED
    BY <1>4, <1>5

LEMMA ApplyPatchKeeps ==
  ASSUME NEW x \in Patches, WsInv, ApplyPatch(x[1], x[2], x[3])
  PROVE  WsInv'
  <1> DEFINE p == x[1]
  <1>1. x[2] \in Seq(Lines) \ {<<>>} /\ x[3] \in Seq(Lines)
    BY WorkspaceAssumption
  <1>2. p \in DOMAIN text /\ text[p] \in Seq(Lines)
    BY DEF ApplyPatch, IsFile, WsInv, IsClone
  <1>3. Patched(Read(text[p]), x[2], x[3]).lines \in Seq(Lines)
    BY <1>1, <1>2, ReadIsText, PatchedIsText
  <1>4. /\ fs' = fs /\ DOMAIN text' = DOMAIN text
        /\ \A q \in DOMAIN text : text'[q] = IF q = p THEN Patched(Read(text[p]), x[2], x[3]).lines ELSE text[q]
    BY DEF ApplyPatch
  <1> QED
    BY <1>3, <1>4 DEF WsInv, IsClone

LEMMA BeginningsAreFinite ==
  ASSUME NEW S, NEW p \in Seq(S)
  PROVE  IsFiniteSet(Prefixes(p))
  <1>1. IsFiniteSet(0..Len(p))
    BY FS_Interval
  <1>2. IsFiniteSet({SubSeq(p, 1, l) : l \in 0..Len(p)})
    <2> DEFINE f == [l \in 0..Len(p) |-> SubSeq(p, 1, l)]
               T == {f[l] : l \in 0..Len(p)}
    <2>1. f \in Surjection(0..Len(p), T)
      BY DEF Surjection
    <2>2. T = {SubSeq(p, 1, l) : l \in 0..Len(p)}
      OBVIOUS
    <2> HIDE DEF f, T
    <2> QED
      BY <1>1, <2>1, <2>2, FS_Surjection
  <1> QED
    BY <1>2 DEF Prefixes

\* With the directory of each path, a set has all that stands between the root and a path.
LEMMA AboveAreIn ==
  ASSUME NEW D \in SUBSET Paths, \A y \in D : Front(y) = Root \/ Front(y) \in D,
         NEW x \in D, NEW q \in Prefixes(x), q # Root
  PROVE  q \in D /\ (q # x => \E y \in D : Front(y) = q)
  <1> DEFINE n == Len(x)
             cut(k) == SubSeq(x, 1, n - k)
             Good(k) == cut(k) \in D /\ (k # 0 => \E y \in D : Front(y) = cut(k))
             S == {k \in 0..(n - 1) : Good(k)}
  <1>1. x \in Parts /\ x \in Paths /\ n \in Nat \ {0}
    BY PathsAreParts
  <1>2. 0 \in S
    <2>1. cut(0) = x
      BY <1>1, SubSeqFull DEF Parts
    <2> HIDE DEF cut
    <2> QED
      BY <1>1, <2>1
  <1>3. ASSUME NEW k \in 0..(n - 2), k \in S
        PROVE  k + 1 \in S
    <2>1. /\ cut(k) \in Parts /\ Len(cut(k)) = n - k /\ \A i \in 1..(n - k) : cut(k)[i] = x[i]
          /\ cut(k + 1) \in Parts /\ Len(cut(k + 1)) = n - k - 1
          /\ \A i \in 1..(n - k - 1) : cut(k + 1)[i] = x[i]
      <3>1. n - k \in 0..n /\ n - (k + 1) \in 0..n /\ n - (k + 1) = n - k - 1
        BY <1>1
      <3> QED
        BY <1>1, <3>1, Beginning DEF Parts
    <2> HIDE DEF cut
    <2>2. cut(k) \in D
      BY <1>3
    <2>3. /\ Front(cut(k)) \in Parts /\ Len(Front(cut(k))) = n - k - 1
          /\ \A i \in 1..(n - k - 1) : Front(cut(k))[i] = cut(k)[i]
      <3>1. cut(k) \in Paths
        BY <2>2
      <3> QED
        BY <2>1, <3>1, FrontIs
    <2>4. Front(cut(k)) = cut(k + 1)
      <3>1. \A i \in 1..(n - k - 1) : Front(cut(k))[i] = cut(k + 1)[i]
        BY <1>1, <2>1, <2>3
      <3> QED
        BY <2>1, <2>3, <3>1, SeqEqual DEF Parts
    <2>5. cut(k + 1) # Root
      BY <1>1, <2>1 DEF Root
    <2>6. Good(k + 1)
      BY <2>2, <2>4, <2>5
    <2>7. k + 1 \in 0..(n - 1)
      BY <1>1
    <2> HIDE DEF Good, n
    <2> QED
      BY <2>6, <2>7, SMTT(30)
  <1>4. \A k \in 0..(n - 1) : k \in S
    <2>1. n - 1 \in Nat /\ (n - 1) - 1 = n - 2
      BY <1>1
    <2> HIDE DEF S, n
    <2> QED
      BY <1>2, <1>3, <2>1, UpTo
  <1>5. q \in Parts /\ Begins(q, x)
    BY <1>1, PrefixesBegin DEF Parts
  <1>6. q \in Paths /\ Len(q) \in 1..n
    BY <1>1, <1>5, PathsAreParts DEF Parts, Paths, Begins
  <1>7. q = cut(n - Len(q))
    <2>1. n - (n - Len(q)) = Len(q) /\ Len(q) \in 0..n
      BY <1>1, <1>6
    <2>2. q = SubSeq(x, 1, Len(q))
      BY <1>1, <1>5, <2>1, Beginning, SeqEqual DEF Begins, Parts
    <2> QED
      BY <2>1, <2>2
  <1>8. n - Len(q) \in S
    <2>1. n - Len(q) \in 0..(n - 1)
      BY <1>1, <1>6
    <2> HIDE DEF S, n
    <2> QED
      BY <1>4, <2>1
  <1>9. q # x => n - Len(q) # 0
    BY <1>1, <1>5, <1>6, SeqEqual DEF Begins, Parts
  <1> QED
    BY <1>7, <1>8, <1>9

LEMMA AboveAreDirs ==
  ASSUME WsInv, NEW x \in DOMAIN fs, NEW q \in Prefixes(x), q # Root
  PROVE  q \in DOMAIN fs /\ (q # x => fs[q] = "dir")
  <1>1. /\ DOMAIN fs \in SUBSET Paths
        /\ \A y \in DOMAIN fs : Front(y) = Root \/ (Front(y) \in DOMAIN fs /\ fs[Front(y)] = "dir")
    BY DEF WsInv, IsClone
  <1>2. q \in DOMAIN fs /\ (q # x => \E y \in DOMAIN fs : Front(y) = q)
    BY <1>1, AboveAreIn
  <1> QED
    BY <1>1, <1>2

LEMMA WriteFileKeeps ==
  ASSUME NEW x \in Writes, WsInv, WriteFile(x[1], x[2])
  PROVE  WsInv'
  <1> DEFINE p == x[1]
             made == Prefixes(p) \ {Root}
  <1>1. p \in Paths /\ p \in Parts /\ x[2] \in Seq(Lines) /\ Len(p) \in Nat \ {0}
    BY WorkspaceAssumption, PathsAreParts
  <1>2. /\ \A q \in DOMAIN fs : q \in Paths /\ fs[q] \in {"dir", "file", "link"}
        /\ \A q \in DOMAIN fs : Front(q) = Root \/ (Front(q) \in DOMAIN fs /\ fs[Front(q)] = "dir")
        /\ DOMAIN text = {q \in DOMAIN fs : fs[q] = "file"}
        /\ \A q \in DOMAIN text : text[q] \in Seq(Lines)
        /\ IsFiniteSet(DOMAIN fs)
    BY DEF WsInv, IsClone
  <1>3. /\ \A q \in Prefixes(p) : ~IsLink(q)
        /\ ~IsDir(p) /\ \A q \in Prefixes(Front(p)) : ~IsFile(q)
    BY DEF WriteFile, Accepts, Relative
  <1>4. /\ DOMAIN fs' = DOMAIN fs \cup made
        /\ \A q \in DOMAIN fs' :
            fs'[q] = IF q = p THEN "file" ELSE IF q \in DOMAIN fs THEN fs[q] ELSE "dir"
        /\ DOMAIN text' = DOMAIN text \cup {p}
        /\ \A q \in DOMAIN text' : text'[q] = IF q = p THEN x[2] ELSE text[q]
    BY DEF WriteFile
  <1>5. p \in made /\ \A q \in made : q \in Paths /\ Begins(q, p)
    <2>1. \A q \in made : q \in Paths /\ Begins(q, p)
      BY <1>1, PrefixesBegin DEF Parts, Paths
    <2>2. p \in Prefixes(p)
      BY <1>1, PrefixesBegin DEF Parts, Begins
    <2> QED
      BY <1>1, <2>1, <2>2 DEF Paths
  <1> HIDE DEF made
  <1>6. IsFiniteSet(DOMAIN fs')
    <2>1. IsFiniteSet(made)
      BY <1>1, BeginningsAreFinite, FS_Subset DEF made, Parts
    <2>2. IsFiniteSet(DOMAIN fs \cup made)
      BY <1>2, <2>1, FS_Union
    <2> QED
      BY <1>4, <2>2
  <1>7. ASSUME NEW q \in made, Front(q) # Root
        PROVE  Front(q) \in made /\ Front(q) # p /\ Front(q) \in Prefixes(Front(p))
    <2>1. q \in Paths /\ Begins(q, p) /\ Len(q) \in Nat \ {0}
      BY <1>5, PathsAreParts
    <2>2. /\ Front(q) \in Parts /\ Len(Front(q)) = Len(q) - 1
          /\ \A j \in 1..(Len(q) - 1) : Front(q)[j] = q[j]
          /\ Front(p) \in Parts /\ Len(Front(p)) = Len(p) - 1
          /\ \A j \in 1..(Len(p) - 1) : Front(p)[j] = p[j]
      BY <1>1, <2>1, FrontIs
    <2>3. Begins(Front(q), p) /\ Begins(Front(q), Front(p)) /\ Len(Front(q)) # Len(p)
      BY <1>1, <2>1, <2>2 DEF Begins
    <2> QED
      BY <1>1, <1>7, <2>2, <2>3, PrefixesBegin DEF made, Parts
  <1>8. ASSUME NEW q \in DOMAIN fs', Front(q) # Root
        PROVE  Front(q) \in DOMAIN fs' /\ fs'[Front(q)] = "dir"
    <2>1. CASE q \in made
      <3>1. Front(q) \in made /\ Front(q) # p /\ Front(q) \in Prefixes(Front(p))
        BY <1>7, <1>8, <2>1
      <3>2. ~IsFile(Front(q)) /\ ~IsLink(Front(q))
        BY <1>3, <3>1 DEF made
      <3> QED
        BY <1>2, <1>4, <3>1, <3>2 DEF IsFile, IsLink
    <2>2. CASE q \notin made
      <3>1. q \in DOMAIN fs
        BY <1>4, <2>2
      <3>2. Front(q) \in DOMAIN fs /\ fs[Front(q)] = "dir"
        BY <1>2, <1>8, <3>1
      <3>3. Front(q) # p
        BY <1>3, <3>2 DEF IsDir
      <3> QED
        BY <1>4, <3>2, <3>3
    <2> QED
      BY <2>1, <2>2
  <1>9. \A q \in DOMAIN fs' : q \in Paths /\ fs'[q] \in {"dir", "file", "link"}
    BY <1>2, <1>4, <1>5
  <1>10. DOMAIN text' = {q \in DOMAIN fs' : fs'[q] = "file"}
    <2>1. p \in DOMAIN fs' /\ fs'[p] = "file"
      BY <1>4, <1>5
    <2>2. \A q \in DOMAIN fs' : q # p => (fs'[q] = "file" <=> q \in DOMAIN text)
      BY <1>2, <1>4
    <2>3. DOMAIN text \subseteq DOMAIN fs'
      BY <1>2, <1>4
    <2> QED
      BY <1>4, <2>1, <2>2, <2>3
  <1>11. \A q \in DOMAIN text' : text'[q] \in Seq(Lines)
    BY <1>1, <1>2, <1>4
  <1> QED
    BY <1>6, <1>8, <1>9, <1>10, <1>11 DEF WsInv, IsClone

LEMMA CommandRunsKeeps ==
  ASSUME NEW p \in DOMAIN fs, NEW linked \in BOOLEAN, WsInv, CommandRuns(p, linked)
  PROVE  WsInv'
  <1>1. /\ \A q \in DOMAIN fs : q \in Paths /\ fs[q] \in {"dir", "file", "link"}
        /\ \A q \in DOMAIN fs : Front(q) = Root \/ (Front(q) \in DOMAIN fs /\ fs[Front(q)] = "dir")
        /\ DOMAIN text = {q \in DOMAIN fs : fs[q] = "file"}
        /\ \A q \in DOMAIN text : text[q] \in Seq(Lines)
        /\ IsFiniteSet(DOMAIN fs)
    BY DEF WsInv, IsClone
  <1>2. /\ DOMAIN fs' = (DOMAIN fs \ Under(p)) \cup (IF linked THEN {p} ELSE {})
        /\ \A q \in DOMAIN fs' : fs'[q] = IF q = p THEN "link" ELSE fs[q]
        /\ DOMAIN text' = DOMAIN text \ Under(p)
        /\ \A q \in DOMAIN text' : text'[q] = text[q]
    BY DEF CommandRuns
  <1>3. p \in Under(p)
    <2>1. IsPrefix(p, p)
      <3>1. p \in Parts
        BY <1>1, PathsAreParts
      <3> QED
        BY <3>1, PrefixBegins DEF Begins, Parts
    <2> QED
      BY <2>1 DEF Under
  <1>4. DOMAIN fs' \subseteq DOMAIN fs /\ \A q \in DOMAIN fs' : q # p => q \notin Under(p)
    BY <1>2
  <1>5. IsFiniteSet(DOMAIN fs')
    BY <1>1, <1>4, FS_Subset
  <1>6. ASSUME NEW q \in DOMAIN fs, Front(q) \in Under(p)
        PROVE  q \in Under(p)
    <2>1. q \in Paths /\ q \in Parts /\ p \in Parts /\ Len(q) \in Nat \ {0}
      BY <1>1, PathsAreParts
    <2>2. /\ Front(q) \in Parts /\ Len(Front(q)) = Len(q) - 1
          /\ \A j \in 1..(Len(q) - 1) : Front(q)[j] = q[j]
      BY <2>1, FrontIs
    <2>3. Begins(p, Front(q)) /\ Len(p) \in Nat
      <3>1. IsPrefix(p, Front(q))
        BY <1>6 DEF Under
      <3> QED
        BY <2>1, <2>2, <3>1, PrefixBegins DEF Parts
    <2>4. Begins(p, q)
      BY <2>1, <2>2, <2>3 DEF Begins
    <2>5. IsPrefix(p, q)
      BY <2>1, <2>4, PrefixBegins DEF Parts
    <2> QED
      BY <2>5 DEF Under
  <1>7. ASSUME NEW q \in DOMAIN fs', Front(q) # Root
        PROVE  Front(q) \in DOMAIN fs' /\ fs'[Front(q)] = "dir"
    <2>1. Front(q) \in DOMAIN fs /\ fs[Front(q)] = "dir"
      BY <1>1, <1>4, <1>7
    <2>2. Front(q) \notin Under(p)
      <3>1. CASE q = p
        <4>1. Len(Front(p)) = Len(p) - 1 /\ p \in Parts /\ Front(p) \in Parts /\ Len(p) \in Nat
          BY <1>1, FrontIs, PathsAreParts
        <4>2. ~IsPrefix(p, Front(p))
          BY <4>1, PrefixBegins DEF Begins, Parts
        <4> QED
          BY <3>1, <4>2 DEF Under
      <3>2. CASE q # p
        BY <1>4, <1>6, <3>2
      <3> QED
        BY <3>1, <3>2
    <2> QED
      BY <1>2, <1>3, <2>1, <2>2
  <1>8. \A q \in DOMAIN fs' : q \in Paths /\ fs'[q] \in {"dir", "file", "link"}
    BY <1>1, <1>2, <1>4
  <1>9. DOMAIN text' = {q \in DOMAIN fs' : fs'[q] = "file"}
    BY <1>1, <1>2, <1>3, <1>4
  <1>10. \A q \in DOMAIN text' : text'[q] \in Seq(Lines)
    BY <1>1, <1>2
  <1> QED
    BY <1>5, <1>7, <1>8, <1>9, <1>10 DEF WsInv, IsClone

LEMMA WsInductive == WsInv /\ [WorkspaceNext]_workspaceVars => WsInv'
  <1>1. ASSUME WsInv, UNCHANGED workspaceVars
        PROVE  WsInv'
    BY <1>1 DEF workspaceVars, WsInv, IsClone
  <1> QED
    BY <1>1, ApplyPatchKeeps, WriteFileKeeps, CommandRunsKeeps DEF WorkspaceNext

LEMMA WsInvImpliesLocal == WsInv => PatchIsLocal
  <1> SUFFICES ASSUME WsInv, NEW x \in Patches, x[1] \in DOMAIN text
               PROVE  LET lines == IF Plain(text[x[1]]) THEN text[x[1]] ELSE Read(text[x[1]])
                          old == x[2]
                          after == Patched(Read(text[x[1]]), old, x[3])
                          at == At(lines, old)
                      IN  IF after.ok
                          THEN \E i \in at :
                                  /\ after.lines = SubSeq(lines, 1, i - 1) \o x[3]
                                                     \o SubSeq(lines, i + Len(old), Len(lines))
                                  /\ \A j \in at : j < i + Len(old) /\ i < j + Len(old)
                          ELSE at = {} \/ \E i, j \in at : i + Len(old) <= j
    BY DEF PatchIsLocal
  <1> DEFINE lines == Read(text[x[1]])
             old == x[2]
             after == Patched(lines, old, x[3])
             at == At(lines, old)
  <1>0. text[x[1]] \in Seq(Lines)
    BY DEF WsInv, IsClone
  <1>1. lines \in Seq(Lines) /\ old \in Seq(Lines) \ {<<>>} /\ x[3] \in Seq(Lines)
    BY <1>0, ReadIsText, WorkspaceAssumption
  <1>6. lines = IF Plain(text[x[1]]) THEN text[x[1]] ELSE Read(text[x[1]])
    BY <1>0, PlainReads
  <1> HIDE DEF lines
  <1>2. /\ after.ok => \E m \in at :
              /\ after.lines = SubSeq(lines, 1, m - 1) \o x[3] \o SubSeq(lines, m + Len(old), Len(lines))
              /\ \A j \in at : m <= j /\ j < m + Len(old)
        /\ ~after.ok => at = {} \/ \E j, k \in at : j + Len(old) <= k
    BY <1>1, PatchedIsText
  <1>3. at \subseteq Nat /\ Len(old) \in Nat \ {0}
    BY <1>1 DEF At
  <1> HIDE DEF after, at
  <1> DEFINE Fits(i) == /\ after.lines = SubSeq(lines, 1, i - 1) \o x[3] \o SubSeq(lines, i + Len(old), Len(lines))
                        /\ \A j \in at : j < i + Len(old) /\ i < j + Len(old)
             Apart == \E i, j \in at : i + Len(old) <= j
             Goal == IF after.ok THEN \E i \in at : Fits(i) ELSE at = {} \/ Apart
  <1>4. ASSUME after.ok
        PROVE  Goal
    <2>1. PICK m \in at :
              /\ after.lines = SubSeq(lines, 1, m - 1) \o x[3] \o SubSeq(lines, m + Len(old), Len(lines))
              /\ \A j \in at : m <= j /\ j < m + Len(old)
      BY <1>2, <1>4
    <2>2. \A j \in at : j < m + Len(old) /\ m < j + Len(old)
      BY <1>3, <2>1
    <2>3. Fits(m)
      BY <2>1, <2>2
    <2> HIDE DEF Fits, Apart
    <2> QED
      BY <1>4, <2>1, <2>3, Zenon
  <1>5. ASSUME ~after.ok
        PROVE  Goal
    <2>1. at = {} \/ Apart
      BY <1>2, <1>5
    <2> HIDE DEF Fits, Apart
    <2> QED
      BY <1>5, <2>1, Zenon
  <1>7. Goal
    BY <1>4, <1>5, Zenon
  <1> QED
    BY <1>6, <1>7, Zenon DEF lines, after, at

\* PatchIsLocal: apply_patch replaces one occurrence of old_string, and leaves the rest
\* of the file as it was decoded: as it was stored, if it is a file of plain lines.
THEOREM PatchesAreLocal == WorkspaceSpec => []PatchIsLocal
  <1>1. WorkspaceSpec => []WsInv
    BY InitWsInv, WsInductive, PTL DEF WorkspaceSpec
  <1> QED
    BY <1>1, WsInvImpliesLocal, PTL

-----------------------------------------------------------------------------
(* The order of a walk, and the first paths in it.                         *)

LEMMA RankIs ==
  /\ \A i \in DOMAIN Names : Rank(Names[i]) = i
  /\ \A n \in ToSet(Names) : Rank(n) \in DOMAIN Names /\ Names[Rank(n)] = n
  /\ DOMAIN Names = 1..Len(Names) /\ Len(Names) \in Nat
  <1>1. \A i \in DOMAIN Names : Rank(Names[i]) = i
    <2>1. SUFFICES ASSUME NEW i \in DOMAIN Names
                   PROVE  Rank(Names[i]) = i
      OBVIOUS
    <2>2. \A j \in DOMAIN Names : Names[j] = Names[i] => j = i
      BY WorkspaceAssumption
    <2> QED
      BY <2>2 DEF Rank
  <1> QED
    BY <1>1, WorkspaceAssumption DEF ToSet

LEMMA BeforeIs ==
  ASSUME NEW p \in Parts, NEW q \in Parts
  PROVE  Before(p, q) <=>
            \/ Begins(p, q) /\ Len(p) < Len(q)
            \/ \E i \in 1..Len(p) : /\ i <= Len(q) /\ \A j \in 1..(i - 1) : p[j] = q[j]
                                    /\ Rank(p[i]) < Rank(q[i])
  <1>1. /\ DOMAIN p = 1..Len(p) /\ Len(p) \in Nat
        /\ DOMAIN q = 1..Len(q) /\ Len(q) \in Nat
    BY DEF Parts
  <1>2. ASSUME NEW i \in DOMAIN p \cap DOMAIN q
        PROVE  SubSeq(p, 1, i - 1) = SubSeq(q, 1, i - 1) <=> \A j \in 1..(i - 1) : p[j] = q[j]
    <2>1. i - 1 \in 0..Len(p) /\ i - 1 \in 0..Len(q)
      BY <1>1
    <2>2. /\ SubSeq(p, 1, i - 1) \in Parts /\ Len(SubSeq(p, 1, i - 1)) = i - 1
          /\ \A j \in 1..(i - 1) : SubSeq(p, 1, i - 1)[j] = p[j]
          /\ SubSeq(q, 1, i - 1) \in Parts /\ Len(SubSeq(q, 1, i - 1)) = i - 1
          /\ \A j \in 1..(i - 1) : SubSeq(q, 1, i - 1)[j] = q[j]
      BY <2>1, Beginning DEF Parts
    <2> QED
      BY <2>2, SeqEqual DEF Parts
  <1>3. IsStrictPrefix(p, q) <=> Begins(p, q) /\ Len(p) < Len(q)
    BY PrefixBegins DEF Parts
  <1>4. Before(p, q) <=>
            \/ Begins(p, q) /\ Len(p) < Len(q)
            \/ \E i \in DOMAIN p \cap DOMAIN q : /\ \A j \in 1..(i - 1) : p[j] = q[j]
                                                 /\ Rank(p[i]) < Rank(q[i])
    BY <1>2, <1>3 DEF Before
  <1>5. \A i : i \in DOMAIN p \cap DOMAIN q <=> i \in 1..Len(p) /\ i <= Len(q)
    BY <1>1
  <1> QED
    BY <1>4, <1>5

LEMMA BeforeIsStrict ==
  ASSUME NEW p \in Parts, NEW q \in Parts, Before(p, q)
  PROVE  ~Before(q, p)
  <1> SUFFICES ASSUME Before(q, p)
               PROVE  FALSE
    OBVIOUS
  <1>1. Len(p) \in Nat /\ Len(q) \in Nat
    BY DEF Parts
  <1>2. /\ \A i \in 1..Len(p) : Rank(p[i]) \in Nat
        /\ \A i \in 1..Len(q) : Rank(q[i]) \in Nat
    <2>1. \A n \in ToSet(Names) : Rank(n) \in Nat
      BY RankIs
    <2> QED
      BY <2>1 DEF Parts
  <1>3. CASE Begins(p, q) /\ Len(p) < Len(q)
    <2>1. ~Begins(q, p)
      BY <1>1, <1>3 DEF Begins
    <2>2. PICK i \in 1..Len(q) : /\ i <= Len(p) /\ Rank(q[i]) < Rank(p[i])
      BY <2>1, BeforeIs
    <2>3. i \in 1..Len(p) /\ p[i] = q[i]
      BY <1>1, <1>3, <2>2 DEF Begins
    <2> QED
      BY <1>2, <2>2, <2>3
  <1>4. CASE \E i \in 1..Len(p) : /\ i <= Len(q) /\ \A j \in 1..(i - 1) : p[j] = q[j]
                                  /\ Rank(p[i]) < Rank(q[i])
    <2>1. PICK i \in 1..Len(p) : /\ i <= Len(q) /\ \A j \in 1..(i - 1) : p[j] = q[j]
                                 /\ Rank(p[i]) < Rank(q[i])
      BY <1>4
    <2>2. i \in 1..Len(q)
      BY <1>1, <2>1
    <2>3. ~Begins(q, p)
      <3>1. Begins(q, p) => q[i] = p[i]
        BY <2>2 DEF Begins
      <3> QED
        BY <1>2, <2>1, <3>1
    <2>4. PICK k \in 1..Len(q) : /\ k <= Len(p) /\ \A j \in 1..(k - 1) : q[j] = p[j]
                                 /\ Rank(q[k]) < Rank(p[k])
      BY <2>3, BeforeIs
    <2>5. k \in 1..Len(p)
      BY <1>1, <2>4
    <2>6. CASE i < k
      <3>1. i \in 1..(k - 1)
        BY <1>1, <2>6
      <3>2. q[i] = p[i]
        BY <2>4, <3>1
      <3> QED
        BY <1>2, <2>1, <3>2
    <2>7. CASE k < i
      <3>1. k \in 1..(i - 1)
        BY <1>1, <2>7
      <3>2. q[k] = p[k]
        BY <2>1, <3>1
      <3> QED
        BY <1>2, <2>4, <2>5, <3>2
    <2>8. CASE i = k
      BY <1>2, <2>1, <2>2, <2>4, <2>8
    <2> QED
      BY <1>1, <2>6, <2>7, <2>8
  <1> QED
    BY <1>3, <1>4, BeforeIs

Ahead(V, r) == {q \in V : Before(q, r)}
Nth(V, i) == CHOOSE p \in {r \in V : Cardinality(Ahead(V, r)) = i - 1} : TRUE

LEMMA FirstIs ==
  ASSUME NEW V, IsFiniteSet(V), NEW limit \in Nat
  PROVE  /\ FirstOf(V, limit) \in Seq({Nth(V, i) : i \in 1..Cardinality(V)})
         /\ Len(FirstOf(V, limit)) = IF limit <= Cardinality(V) THEN limit ELSE Cardinality(V)
         /\ \A i \in 1..Len(FirstOf(V, limit)) : FirstOf(V, limit)[i] = Nth(V, i)
  <1> DEFINE c == Cardinality(V)
             nth == [i \in 1..c |-> Nth(V, i)]
             S == {Nth(V, i) : i \in 1..c}
             k == Min({limit, c})
  <1>1. c \in Nat
    BY FS_CardinalityType
  <1>2. k = IF limit <= c THEN limit ELSE c
    <2>1. PICK m \in Nat : m = IF limit <= c THEN limit ELSE c
      BY <1>1
    <2>2. m \in {limit, c} /\ \A y \in {limit, c} : m <= y
      BY <1>1, <2>1
    <2>3. \A x \in {limit, c} : (\A y \in {limit, c} : x <= y) => x = m
      BY <1>1, <2>1
    <2> HIDE DEF c
    <2> QED
      BY <2>1, <2>2, <2>3 DEF Min
  <1>3. FirstOf(V, limit) = SubSeq(nth, 1, k)
    BY DEF FirstOf, Nth, Ahead
  <1>4. \A i \in 1..k : nth[i] = Nth(V, i) /\ nth[i] \in S
    <2>1. \A i \in 1..k : i \in 1..c
      <3> HIDE DEF c, k
      <3> QED
        BY <1>1, <1>2
    <2> HIDE DEF k, c
    <2> QED
      BY <2>1
  <1> HIDE DEF k, c, nth, S
  <1>5. k \in Nat
    BY <1>1, <1>2
  <1>6. /\ SubSeq(nth, 1, k) \in Seq(S) /\ Len(SubSeq(nth, 1, k)) = k
        /\ \A i \in 1..k : SubSeq(nth, 1, k)[i] = nth[i]
    <2>1. 1 \in Int /\ k \in Int /\ k - 1 + 1 = k /\ (1 <= k \/ k = 0) /\ \A i \in 1..k : 1 + i - 1 = i
      BY <1>5
    <2> QED
      BY <1>4, <2>1, SubSeqProperties
  <1> QED
    BY <1>2, <1>3, <1>4, <1>6 DEF c, S

\* Of paths that follow all others, none is among the first when there are enough of those.
LEMMA FirstsAreEnough ==
  ASSUME NEW V \in SUBSET Parts, NEW X \in SUBSET Parts, IsFiniteSet(V), IsFiniteSet(X),
         \A v \in V, x \in X : Before(v, x),
         NEW limit \in Nat, limit <= Cardinality(V)
  PROVE  FirstOf(V \cup X, limit) = FirstOf(V, limit) /\ limit <= Cardinality(V \cup X)
  <1> DEFINE W == V \cup X
             F == FirstOf(V, limit)
             G == FirstOf(W, limit)
             T == {Nth(V, i) : i \in 1..Cardinality(V)} \cup {Nth(W, i) : i \in 1..Cardinality(W)}
  <1>1. IsFiniteSet(W) /\ Cardinality(V) \in Nat /\ Cardinality(W) \in Nat
    BY FS_Union, FS_CardinalityType
  <1>2. Cardinality(V) <= Cardinality(W)
    BY <1>1, FS_Subset
  <1>3. ASSUME NEW i \in 1..limit
        PROVE  Nth(W, i) = Nth(V, i)
    <2>1. ASSUME NEW r \in V
          PROVE  Ahead(W, r) = Ahead(V, r)
      <3>1. \A x \in X : ~Before(x, r)
        BY BeforeIsStrict
      <3> QED
        BY <3>1 DEF Ahead
    <2>2. ASSUME NEW r \in X
          PROVE  Cardinality(Ahead(W, r)) # i - 1
      <3>1. V \subseteq Ahead(W, r) /\ Ahead(W, r) \subseteq W
        BY DEF Ahead
      <3>2. Cardinality(V) <= Cardinality(Ahead(W, r)) /\ Cardinality(Ahead(W, r)) \in Nat
        BY <1>1, <3>1, FS_Subset, FS_CardinalityType
      <3> QED
        BY <1>1, <3>2
    <2>3. {r \in W : Cardinality(Ahead(W, r)) = i - 1} = {r \in V : Cardinality(Ahead(V, r)) = i - 1}
      BY <2>1, <2>2
    <2> QED
      BY <2>3 DEF Nth
  <1>4. /\ F \in Seq({Nth(V, i) : i \in 1..Cardinality(V)}) /\ Len(F) = limit
        /\ \A i \in 1..limit : F[i] = Nth(V, i)
        /\ G \in Seq({Nth(W, i) : i \in 1..Cardinality(W)}) /\ Len(G) = limit
        /\ \A i \in 1..limit : G[i] = Nth(W, i)
    <2> HIDE DEF W
    <2>1. /\ F \in Seq({Nth(V, i) : i \in 1..Cardinality(V)}) /\ Len(F) = limit
          /\ \A i \in 1..Len(F) : F[i] = Nth(V, i)
      BY FirstIs
    <2>2. limit <= Cardinality(W)
      BY <1>1, <1>2
    <2>3. /\ G \in Seq({Nth(W, i) : i \in 1..Cardinality(W)}) /\ Len(G) = limit
          /\ \A i \in 1..Len(G) : G[i] = Nth(W, i)
      BY <1>1, <2>2, FirstIs
    <2> HIDE DEF F, G
    <2> QED
      BY <2>1, <2>3
  <1> HIDE DEF W, F, G
  <1>5. F \in Seq(T) /\ G \in Seq(T)
    BY <1>4, SeqMonotonic
  <1>6. \A i \in 1..limit : F[i] = G[i]
    BY <1>3, <1>4
  <1>7. F = G
    <2> HIDE DEF T
    <2> QED
      BY <1>4, <1>5, <1>6, SeqEqual
  <1> QED
    BY <1>1, <1>2, <1>7 DEF F, G, W

\* A path that follows all others comes last.
LEMMA LastOfFirsts ==
  ASSUME NEW V \in SUBSET Parts, IsFiniteSet(V), NEW p \in Parts,
         \A v \in V : Before(v, p),
         NEW limit \in Nat, Cardinality(V) < limit
  PROVE  /\ FirstOf(V \cup {p}, limit) = Append(FirstOf(V, limit), p)
         /\ Len(FirstOf(V, limit)) = Cardinality(V)
         /\ Cardinality(V \cup {p}) = Cardinality(V) + 1
  <1> DEFINE W == V \cup {p}
             c == Cardinality(V)
             F == FirstOf(V, limit)
             G == FirstOf(W, limit)
             T == {Nth(V, i) : i \in 1..Cardinality(V)}
                    \cup {Nth(W, i) : i \in 1..Cardinality(W)} \cup {p}
  <1>1. p \notin V /\ ~Before(p, p) /\ \A v \in V : ~Before(p, v) /\ ~Before(v, v)
    BY BeforeIsStrict
  <1>2. IsFiniteSet(W) /\ c \in Nat /\ Cardinality(W) = c + 1
    BY <1>1, FS_AddElement, FS_CardinalityType
  <1>3. Ahead(W, p) = V /\ \A r \in V : Ahead(W, r) = Ahead(V, r)
    BY <1>1 DEF Ahead
  <1>4. ASSUME NEW r \in V
        PROVE  Cardinality(Ahead(V, r)) < c /\ Cardinality(Ahead(V, r)) \in Nat
    <2>1. Ahead(V, r) \subseteq V /\ r \notin Ahead(V, r)
      BY <1>1 DEF Ahead
    <2>2. /\ Cardinality(Ahead(V, r)) <= c /\ Cardinality(Ahead(V, r)) \in Nat
          /\ Cardinality(Ahead(V, r)) = c => Ahead(V, r) = V
      BY <2>1, FS_Subset, FS_CardinalityType
    <2> QED
      BY <1>2, <2>1, <2>2
  <1>5. ASSUME NEW i \in 1..c
        PROVE  Nth(W, i) = Nth(V, i)
    <2>1. {r \in W : Cardinality(Ahead(W, r)) = i - 1} = {r \in V : Cardinality(Ahead(V, r)) = i - 1}
      BY <1>1, <1>2, <1>3
    <2> QED
      BY <2>1 DEF Nth
  <1>6. Nth(W, c + 1) = p
    <2>1. {r \in W : Cardinality(Ahead(W, r)) = (c + 1) - 1} = {p}
      <3>1. \A r \in V : Cardinality(Ahead(W, r)) # (c + 1) - 1
        <4> HIDE DEF W, c
        <4> QED
          BY <1>2, <1>3, <1>4
      <3>2. Cardinality(Ahead(W, p)) = (c + 1) - 1
        BY <1>2, <1>3
      <3> QED
        BY <3>1, <3>2
    <2> HIDE DEF W, c
    <2> QED
      BY <2>1 DEF Nth
  <1>7. /\ F \in Seq({Nth(V, i) : i \in 1..Cardinality(V)}) /\ Len(F) = c
        /\ \A i \in 1..c : F[i] = Nth(V, i)
        /\ G \in Seq({Nth(W, i) : i \in 1..Cardinality(W)}) /\ Len(G) = c + 1
        /\ \A i \in 1..(c + 1) : G[i] = Nth(W, i)
    <2> HIDE DEF W
    <2>0. ~(limit <= c)
      BY <1>2
    <2>1. /\ F \in Seq({Nth(V, i) : i \in 1..Cardinality(V)}) /\ Len(F) = c
          /\ \A i \in 1..Len(F) : F[i] = Nth(V, i)
      BY <2>0, FirstIs
    <2>2. (limit <= Cardinality(W)) => limit = Cardinality(W)
      BY <1>2
    <2>3. /\ G \in Seq({Nth(W, i) : i \in 1..Cardinality(W)}) /\ Len(G) = c + 1
          /\ \A i \in 1..Len(G) : G[i] = Nth(W, i)
      BY <1>2, <2>2, FirstIs
    <2> HIDE DEF F, G
    <2> QED
      BY <2>1, <2>3
  <1> HIDE DEF W, F, G, c
  <1>8. F \in Seq(T) /\ G \in Seq(T) /\ p \in T
    BY <1>7, SeqMonotonic
  <1>9. G = Append(F, p)
    <2> HIDE DEF T
    <2>1. /\ Append(F, p) \in Seq(T) /\ Len(Append(F, p)) = c + 1
          /\ \A i \in 1..c : Append(F, p)[i] = F[i]
          /\ Append(F, p)[c + 1] = p
      BY <1>7, <1>8, AppendProperties
    <2>2. \A i \in 1..(c + 1) : Append(F, p)[i] = G[i]
      BY <1>2, <1>5, <1>6, <1>7, <2>1
    <2> QED
      BY <1>7, <1>8, <2>1, <2>2, SeqEqual
  <1> QED
    BY <1>2, <1>7, <1>9 DEF F, G, c, W

-----------------------------------------------------------------------------
(* The walks.                                                              *)

\* What the walk below top has made of the paths V that it has passed.
Lists(acc, V, limit, top) ==
    /\ acc \in Answers /\ V \subseteq DOMAIN fs
    /\ IsListing(acc, V, limit)
    /\ acc.out \in Seq(V)
    /\ \A j, k \in 1..Len(acc.out) : j < k => Before(acc.out[j], acc.out[k])
    /\ \A k \in 1..Len(acc.out) : Front(acc.out[k]) = top \/ Front(acc.out[k]) \in ToSet(acc.out)

LEMMA TreeIs ==
  ASSUME WsInv
  PROVE  DOMAIN fs \subseteq Paths /\ DOMAIN fs \subseteq Parts /\ IsFiniteSet(DOMAIN fs)
  BY PathsAreParts DEF WsInv, IsClone

LEMMA RefusedLists ==
  ASSUME WsInv, NEW limit \in Nat, NEW acc, NEW V, NEW top, Lists(acc, V, limit, top),
         NEW X \in SUBSET DOMAIN fs, \A v \in V, x \in X : Before(v, x),
         limit < Cardinality(V) \/ X = {}
  PROVE  Lists(acc, V \cup X, limit, top)
  <1>1. V \in SUBSET Parts /\ X \in SUBSET Parts /\ IsFiniteSet(V) /\ IsFiniteSet(X)
    BY TreeIs, FS_Subset DEF Lists
  <1>2. CASE X = {}
    <2>1. V \cup X = V
      BY <1>2
    <2> QED
      BY <2>1
  <1>3. CASE limit < Cardinality(V)
    <2>1. Cardinality(V) \in Nat /\ Cardinality(V \cup X) \in Nat /\ Cardinality(V) <= Cardinality(V \cup X)
      BY <1>1, FS_CardinalityType, FS_Union, FS_Subset
    <2>2. FirstOf(V \cup X, limit) = FirstOf(V, limit)
      BY <1>1, <1>3, <2>1, FirstsAreEnough
    <2>3. acc.out \in Seq(V \cup X)
      BY SeqMonotonic DEF Lists
    <2>4. IsListing(acc, V \cup X, limit)
      BY <1>3, <2>1, <2>2 DEF Lists, IsListing
    <2> QED
      BY <2>3, <2>4 DEF Lists
  <1> QED
    BY <1>2, <1>3

LEMMA TakeLists ==
  ASSUME WsInv, NEW limit \in Nat, NEW acc, NEW V, NEW top, Lists(acc, V, limit, top),
         NEW q \in DOMAIN fs, \A v \in V : Before(v, q),
         Front(q) = top \/ Front(q) \in ToSet(acc.out)
  PROVE  LET taken == Take(acc, limit, q)
         IN  /\ Lists(taken, V \cup {q}, limit, top)
             /\ ToSet(acc.out) \subseteq ToSet(taken.out)
             /\ ~taken.refused => q \in ToSet(taken.out)
             /\ taken.refused => limit < Cardinality(V \cup {q})
  <1> DEFINE taken == Take(acc, limit, q)
             W == V \cup {q}
             n == Len(acc.out)
  <1>1. /\ V \in SUBSET Parts /\ q \in Parts /\ IsFiniteSet(V) /\ W \subseteq DOMAIN fs
        /\ Cardinality(V) \in Nat /\ n \in Nat
    BY TreeIs, FS_Subset, FS_CardinalityType DEF Lists
  <1>2. /\ acc \in Answers /\ acc.out \in Seq(V) /\ acc.out \in Seq(W) /\ q \in W
        /\ acc.out = FirstOf(V, limit) /\ (acc.refused <=> Cardinality(V) > limit)
    BY SeqMonotonic DEF Lists, IsListing
  <1>3. n = IF limit <= Cardinality(V) THEN limit ELSE Cardinality(V)
    BY <1>1, <1>2, FirstIs
  <1>4. q \notin V /\ Cardinality(W) = Cardinality(V) + 1
    <2>1. q \notin V
      BY <1>1, BeforeIsStrict
    <2> QED
      BY <1>1, <2>1, FS_AddElement
  <1>5. acc = [out |-> acc.out, refused |-> acc.refused] /\ acc.refused \in BOOLEAN
    BY <1>2 DEF Answers
  <1> HIDE DEF W, n
  <1>6. CASE n >= limit
    <2>1. taken = [out |-> acc.out, refused |-> TRUE]
      BY <1>5, <1>6 DEF Take, n
    <2>2. limit <= Cardinality(V) /\ limit < Cardinality(W)
      BY <1>1, <1>3, <1>4, <1>6
    <2>3. FirstOf(W, limit) = acc.out
      <3>1. {q} \in SUBSET Parts /\ IsFiniteSet({q}) /\ \A v \in V, x \in {q} : Before(v, x)
        BY <1>1, FS_Singleton
      <3>2. FirstOf(V \cup {q}, limit) = FirstOf(V, limit)
        BY <1>1, <2>2, <3>1, FirstsAreEnough
      <3> QED
        BY <1>2, <3>2 DEF W
    <2>4. taken.out = acc.out /\ taken.refused = TRUE /\ taken \in Answers
      BY <1>2, <2>1 DEF Answers
    <2> HIDE DEF taken
    <2>5. IsListing(taken, W, limit)
      BY <1>1, <1>4, <2>2, <2>3, <2>4 DEF IsListing
    <2>6. Lists(taken, W, limit, top)
      BY <1>1, <1>2, <2>4, <2>5 DEF Lists
    <2> QED
      BY <2>2, <2>4, <2>6 DEF W, taken
  <1>7. CASE ~(n >= limit)
    <2>1. taken = [out |-> Append(acc.out, q), refused |-> acc.refused]
      BY <1>5, <1>7 DEF Take, n
    <2>2. Cardinality(V) < limit /\ n = Cardinality(V) /\ acc.refused = FALSE
      BY <1>1, <1>2, <1>3, <1>5, <1>7
    <2>3. FirstOf(W, limit) = Append(acc.out, q)
      BY <1>1, <1>2, <2>2, LastOfFirsts DEF W
    <2>4. /\ taken.out \in Seq(W) /\ Len(taken.out) = n + 1
          /\ \A i \in 1..n : taken.out[i] = acc.out[i]
          /\ taken.out[n + 1] = q
          /\ taken.out = Append(acc.out, q) /\ taken.refused = FALSE
      BY <1>2, <2>1, <2>2, AppendProperties DEF n
    <2> HIDE DEF taken
    <2>5. taken \in Answers
      <3>1. PICK s \in Seq(DOMAIN fs) : s = Append(acc.out, q)
        <4>1. acc.out \in Seq(DOMAIN fs)
          BY <1>2 DEF Answers
        <4> QED
          BY <4>1, AppendProperties
      <3>2. taken = [out |-> s, refused |-> acc.refused]
        BY <2>1, <3>1, Zenon
      <3> QED
        BY <1>5, <3>2 DEF Answers
    <2>6. IsListing(taken, W, limit)
      BY <1>1, <1>4, <2>2, <2>3, <2>4 DEF IsListing
    <2>7. /\ ToSet(acc.out) = {acc.out[i] : i \in 1..n}
          /\ ToSet(taken.out) = {taken.out[i] : i \in 1..(n + 1)}
      BY <1>2, <2>4 DEF ToSet, n
    <2>8. ToSet(acc.out) \subseteq ToSet(taken.out) /\ q \in ToSet(taken.out)
      BY <1>1, <2>4, <2>7
    <2>9. ASSUME NEW j \in 1..(n + 1), NEW k \in 1..(n + 1), j < k
          PROVE  Before(taken.out[j], taken.out[k])
      <3>1. j \in 1..n /\ taken.out[j] = acc.out[j] /\ acc.out[j] \in V
        BY <1>1, <1>2, <2>4, <2>9 DEF n
      <3>2. CASE k = n + 1
        BY <2>4, <3>1, <3>2
      <3>3. CASE k \in 1..n
        BY <2>4, <2>9, <3>1, <3>3 DEF Lists, n
      <3> QED
        BY <1>1, <3>2, <3>3
    <2>10. ASSUME NEW k \in 1..(n + 1)
           PROVE  Front(taken.out[k]) = top \/ Front(taken.out[k]) \in ToSet(taken.out)
      <3>1. CASE k = n + 1
        BY <2>4, <2>8, <3>1
      <3>2. CASE k \in 1..n
        BY <2>4, <2>8, <3>2 DEF Lists, n
      <3> QED
        BY <1>1, <3>1, <3>2
    <2>11. Lists(taken, W, limit, top)
      BY <1>1, <2>4, <2>5, <2>6, <2>9, <2>10 DEF Lists
    <2> QED
      BY <2>4, <2>8, <2>11 DEF W, taken
  <1> QED
    BY <1>6, <1>7

LEMMA VisibleIs ==
  ASSUME WsInv, NEW p \in Parts, NEW d \in Nat, NEW b, NEW x
  PROVE  x \in Visible(p, d, b) <=>
            /\ x \in DOMAIN fs /\ Begins(p, x) /\ Len(p) < Len(x) /\ Len(x) <= Len(p) + d
            /\ \A q \in Parts : Begins(q, x) /\ Len(q) > Len(p) => ~Skipped(q, b)
  <1>1. ASSUME x \in DOMAIN fs
        PROVE  /\ IsStrictPrefix(p, x) <=> Begins(p, x) /\ Len(p) < Len(x)
               /\ \A q : q \in Prefixes(x) <=> q \in Parts /\ Begins(q, x)
    <2>1. x \in Parts
      BY <1>1, TreeIs
    <2> QED
      BY <2>1, PrefixBegins, PrefixesBegin DEF Parts
  <1> QED
    BY <1>1 DEF Visible

LEMMA NoneBelow ==
  ASSUME WsInv, NEW p \in DOMAIN fs, ~IsDir(p), NEW d \in Nat, NEW b
  PROVE  Visible(p, d, b) = {}
  <1> SUFFICES ASSUME NEW x \in Visible(p, d, b)
               PROVE  FALSE
    OBVIOUS
  <1>1. p \in Parts /\ p # Root
    BY TreeIs DEF Paths
  <1>2. x \in DOMAIN fs /\ x \in Parts /\ Begins(p, x) /\ x # p
    BY <1>1, VisibleIs, TreeIs
  <1>3. fs[p] = "dir"
    BY <1>1, <1>2, PrefixesBegin, AboveAreDirs DEF Parts
  <1> QED
    BY <1>3 DEF IsDir

\* What is visible below p under its first i names.
Passed(p, d, b, i) == {x \in Visible(p, d, b) : \E j \in 1..i : x[Len(p) + 1] = Names[j]}

LEMMA PassedEnds ==
  ASSUME WsInv, NEW p \in Parts, NEW d \in Nat, NEW b
  PROVE  Passed(p, d, b, 0) = {} /\ Passed(p, d, b, Len(Names)) = Visible(p, d, b)
  <1>1. ASSUME NEW x \in Visible(p, d, b)
        PROVE  \E j \in 1..Len(Names) : x[Len(p) + 1] = Names[j]
    <2>1. x \in Parts /\ Len(p) \in Nat /\ Len(x) \in Nat /\ Len(p) < Len(x)
      BY VisibleIs, TreeIs DEF Parts
    <2>2. x[Len(p) + 1] \in ToSet(Names)
      BY <2>1 DEF Parts
    <2> QED
      BY <2>2, RankIs DEF ToSet
  <1> QED
    BY <1>1 DEF Passed

LEMMA EntryPassed ==
  ASSUME WsInv, NEW p \in Parts, NEW d \in Nat \ {0}, NEW b, NEW i \in 1..Len(Names)
  PROVE  LET q == Entry(p, i)
         IN  Passed(p, d, b, i) = Passed(p, d, b, i - 1)
                \cup (IF q \notin DOMAIN fs \/ Skipped(q, b) THEN {} ELSE {q} \cup Visible(q, d - 1, b))
  <1> DEFINE q == Entry(p, i)
  <1>1. /\ i \in DOMAIN Names /\ Len(p) \in Nat /\ d - 1 \in Nat
        /\ q \in Parts /\ Len(q) = Len(p) + 1 /\ q[Len(p) + 1] = Names[i]
        /\ \A j \in 1..Len(p) : q[j] = p[j]
    <2>1. i \in DOMAIN Names
      BY RankIs
    <2>2. Len(p) \in Nat
      BY DEF Parts
    <2>3. /\ q \in Paths /\ Len(q) = Len(p) + 1 /\ q[Len(p) + 1] = Names[i]
          /\ \A j \in 1..Len(p) : q[j] = p[j]
      BY <2>1, EntryIs
    <2>4. d - 1 \in Nat
      OBVIOUS
    <2> HIDE DEF q
    <2>5. q \in Parts
      BY <2>3, PathsAreParts
    <2> QED
      BY <2>1, <2>2, <2>3, <2>4, <2>5
  <1> HIDE DEF q
  <1>2. ASSUME NEW x \in Parts, Begins(p, x), Len(p) < Len(x)
        PROVE  x[Len(p) + 1] = Names[i] <=> Begins(q, x)
    <2>1. Len(x) \in Nat /\ Len(q) <= Len(x)
      BY <1>1, <1>2 DEF Parts
    <2> QED
      BY <1>1, <1>2, <2>1 DEF Begins
  <1>3. ASSUME NEW x \in Visible(p, d, b), Begins(q, x)
        PROVE  q \in DOMAIN fs /\ ~Skipped(q, b) /\ (x = q \/ x \in Visible(q, d - 1, b))
    <2>1. /\ x \in DOMAIN fs /\ x \in Parts /\ Len(x) \in Nat /\ Len(x) <= Len(p) + d
          /\ \A r \in Parts : Begins(r, x) /\ Len(r) > Len(p) => ~Skipped(r, b)
      BY VisibleIs, TreeIs DEF Parts
    <2>2. q # Root /\ q \in Prefixes(x)
      BY <1>1, <1>3, <2>1, PrefixesBegin DEF Parts, Root
    <2>3. q \in DOMAIN fs
      BY <2>1, <2>2, AboveAreDirs
    <2>4. Len(q) > Len(p)
      BY <1>1
    <2>5. ~Skipped(q, b)
      BY <1>1, <1>3, <2>1, <2>4
    <2>6. ASSUME x # q
          PROVE  x \in Visible(q, d - 1, b)
      <3>1. Len(q) < Len(x)
        BY <1>1, <1>3, <2>1, <2>6, SeqEqual DEF Begins, Parts
      <3>2. Len(x) <= Len(q) + (d - 1)
        BY <1>1, <2>1
      <3>3. \A r \in Parts : Begins(r, x) /\ Len(r) > Len(q) => ~Skipped(r, b)
        <4>1. \A r \in Parts : Len(r) > Len(q) => Len(r) > Len(p)
          BY <1>1 DEF Parts
        <4> QED
          BY <2>1, <4>1
      <3> QED
        BY <1>1, <1>3, <2>1, <3>1, <3>2, <3>3, VisibleIs
    <2> QED
      BY <2>3, <2>5, <2>6
  <1>4. ASSUME q \in DOMAIN fs, ~Skipped(q, b), NEW x, x = q \/ x \in Visible(q, d - 1, b)
        PROVE  x \in Visible(p, d, b) /\ Begins(q, x)
    <2>1. /\ x \in DOMAIN fs /\ x \in Parts /\ Len(x) \in Nat /\ Begins(q, x)
          /\ Len(x) <= Len(q) + (d - 1)
          /\ \A r \in Parts : Begins(r, x) /\ Len(r) > Len(q) => ~Skipped(r, b)
      <3>1. CASE x = q
        <4>1. Begins(q, q) /\ Len(q) \in Nat
          BY <1>1 DEF Begins, Parts
        <4>2. \A r \in Parts : ~(Begins(r, q) /\ Len(r) > Len(q))
          BY <4>1 DEF Begins, Parts
        <4> QED
          BY <1>1, <1>4, <3>1, <4>1, <4>2
      <3>2. CASE x \in Visible(q, d - 1, b)
        <4>1. x \in Parts
          BY <1>1, <3>2, TreeIs, VisibleIs
        <4> QED
          BY <1>1, <3>2, <4>1, VisibleIs DEF Parts
      <3> QED
        BY <1>4, <3>1, <3>2
    <2>2. Begins(p, x) /\ Len(p) < Len(x) /\ Len(x) <= Len(p) + d
      BY <1>1, <2>1 DEF Begins
    <2>3. ASSUME NEW r \in Parts, Begins(r, x), Len(r) > Len(p)
          PROVE  ~Skipped(r, b)
      <3>1. Len(r) \in Nat
        BY DEF Parts
      <3>2. CASE Len(r) > Len(q)
        BY <2>1, <2>3, <3>2
      <3>3. CASE Len(r) = Len(q)
        <4>1. \A j \in 1..Len(r) : r[j] = q[j]
          BY <2>1, <2>3, <3>3 DEF Begins
        <4>2. r = q
          BY <1>1, <3>3, <4>1, SeqEqual DEF Parts
        <4> QED
          BY <1>4, <4>2
      <3> QED
        BY <1>1, <2>3, <3>1, <3>2, <3>3
    <2> QED
      BY <2>1, <2>2, <2>3, VisibleIs
  <1>5. \A x \in Visible(p, d, b) : x \in Parts /\ Begins(p, x) /\ Len(p) < Len(x)
    BY VisibleIs, TreeIs
  <1>6. Passed(p, d, b, i) = Passed(p, d, b, i - 1) \cup {x \in Visible(p, d, b) : Begins(q, x)}
    <2>1. \A j : j \in 1..i <=> j \in 1..(i - 1) \/ j = i
      BY RankIs
    <2>2. \A x \in Visible(p, d, b) : x[Len(p) + 1] = Names[i] <=> Begins(q, x)
      BY <1>2, <1>5
    <2> QED
      BY <2>1, <2>2 DEF Passed
  <1>7. {x \in Visible(p, d, b) : Begins(q, x)}
          = IF q \notin DOMAIN fs \/ Skipped(q, b) THEN {} ELSE {q} \cup Visible(q, d - 1, b)
    BY <1>3, <1>4
  <1> QED
    BY <1>6, <1>7 DEF q

\* A walk passes what is before an entry first, and what is below it after.
LEMMA EntryFollows ==
  ASSUME WsInv, NEW p \in Parts, NEW d \in Nat \ {0}, NEW b, NEW i \in 1..Len(Names),
         NEW V, \A v \in V, x \in Visible(p, d, b) : Before(v, x),
         Entry(p, i) \in DOMAIN fs, ~Skipped(Entry(p, i), b)
  PROVE  LET q == Entry(p, i)
             U == V \cup Passed(p, d, b, i - 1)
         IN  /\ Front(q) = p
             /\ \A v \in U : Before(v, q)
             /\ \A v \in U \cup {q}, x \in Visible(q, d - 1, b) : Before(v, x)
  <1> DEFINE q == Entry(p, i)
             n == Len(p) + 1
  <1>1. /\ i \in DOMAIN Names /\ Len(p) \in Nat /\ d - 1 \in Nat
        /\ q \in Parts /\ q \in Paths /\ Len(q) = n /\ q[n] = Names[i]
        /\ \A j \in 1..Len(p) : q[j] = p[j]
    <2>1. i \in DOMAIN Names
      BY RankIs
    <2>2. Len(p) \in Nat
      BY DEF Parts
    <2>3. /\ q \in Paths /\ Len(q) = n /\ q[n] = Names[i]
          /\ \A j \in 1..Len(p) : q[j] = p[j]
      BY <2>1, EntryIs
    <2>4. d - 1 \in Nat
      OBVIOUS
    <2> HIDE DEF q, n
    <2>5. q \in Parts
      BY <2>3, PathsAreParts
    <2> QED
      BY <2>1, <2>2, <2>3, <2>4, <2>5
  <1>2. Front(q) = p
    <2>1. /\ Front(q) \in Parts /\ Len(Front(q)) = Len(q) - 1
          /\ \A j \in 1..(Len(q) - 1) : Front(q)[j] = q[j]
      BY <1>1, FrontIs
    <2>2. Len(q) - 1 = Len(p)
      BY <1>1
    <2> HIDE DEF q
    <2> QED
      BY <1>1, <2>1, <2>2, SeqEqual DEF Parts
  <1>3. Passed(p, d, b, i) = Passed(p, d, b, i - 1) \cup {q} \cup Visible(q, d - 1, b)
    BY EntryPassed
  <1>4. \A x \in {q} \cup Visible(q, d - 1, b) : x \in Visible(p, d, b)
    <2>1. Passed(p, d, b, i) \subseteq Visible(p, d, b)
      BY DEF Passed
    <2> QED
      BY <1>3, <2>1
  <1> HIDE DEF q
  <1>5. ASSUME NEW x \in {q} \cup Visible(q, d - 1, b)
        PROVE  x \in Parts /\ Len(x) \in Nat /\ n <= Len(x) /\ Begins(q, x)
    <2>1. x \in Parts
      BY <1>1, <1>4, <1>5, VisibleIs, TreeIs
    <2>2. CASE x = q
      BY <1>1, <2>1, <2>2 DEF Begins, Parts
    <2>3. CASE x \in Visible(q, d - 1, b)
      <3>1. Begins(q, x)
        BY <1>1, <2>3, VisibleIs
      <3> QED
        BY <1>1, <2>1, <3>1 DEF Begins, Parts
    <2> QED
      BY <1>5, <2>2, <2>3
  <1>6. ASSUME NEW v \in Passed(p, d, b, i - 1), NEW x \in {q} \cup Visible(q, d - 1, b)
        PROVE  Before(v, x)
    <2>1. PICK j \in 1..(i - 1) : v[n] = Names[j]
      BY DEF Passed
    <2>2. j \in DOMAIN Names /\ j < i
      BY <1>1, <2>1, RankIs
    <2>3. Rank(Names[j]) = j /\ Rank(Names[i]) = i
      BY <1>1, <2>2, RankIs
    <2>4. v \in Parts /\ Begins(p, v) /\ Len(p) < Len(v) /\ Len(v) \in Nat
      <3>1. v \in Visible(p, d, b)
        BY DEF Passed
      <3> QED
        BY <3>1, VisibleIs, TreeIs DEF Parts
    <2>5. /\ x \in Parts /\ Len(x) \in Nat /\ n <= Len(x)
          /\ n \in 1..n /\ n \in 1..Len(v) /\ x[n] = Names[i]
          /\ \A k \in 1..(n - 1) : v[k] = x[k]
      <3>1. x \in Parts /\ Len(x) \in Nat /\ n <= Len(x) /\ Begins(q, x)
        BY <1>5
      <3>2. \A k \in 1..n : x[k] = q[k]
        BY <1>1, <3>1 DEF Begins
      <3>3. \A k \in 1..(n - 1) : p[k] = v[k] /\ q[k] = p[k]
        BY <1>1, <2>4 DEF Begins
      <3> QED
        BY <1>1, <2>4, <3>1, <3>2, <3>3
    <2>6. Rank(v[n]) < Rank(x[n])
      BY <2>1, <2>2, <2>3, <2>5
    <2> HIDE DEF n
    <2> QED
      BY <2>4, <2>5, <2>6, BeforeIs
  <1>7. ASSUME NEW x \in Visible(q, d - 1, b)
        PROVE  Before(q, x)
    <2>1. x \in Parts
      BY <1>5
    <2>2. Begins(q, x) /\ Len(q) < Len(x)
      BY <1>1, VisibleIs
    <2> QED
      BY <1>1, <2>1, <2>2, BeforeIs
  <1>8. q \in {q} \cup Visible(q, d - 1, b)
    OBVIOUS
  <1> QED
    BY <1>2, <1>4, <1>6, <1>7, <1>8 DEF q

Spots == {Root} \cup DOMAIN fs

\* What becomes of the answer r at the i-th entry of p.
Passing(r, p, i, limit, b, below) ==
    LET q == Entry(p, i)
        taken == Take(r, limit, q)
    IN  IF q \notin DOMAIN fs \/ Skipped(q, b) THEN r
        ELSE IF IsDir(q) /\ ~taken.refused THEN below[q][taken]
        ELSE taken

LEMMA TakeAnswers ==
  ASSUME NEW r \in Answers, NEW limit, NEW q \in DOMAIN fs
  PROVE  Take(r, limit, q) \in Answers
  <1>1. r = [out |-> r.out, refused |-> r.refused] /\ r.out \in Seq(DOMAIN fs) /\ r.refused \in BOOLEAN
    BY DEF Answers
  <1>2. PICK s \in Seq(DOMAIN fs) : s = Append(r.out, q)
    BY <1>1, AppendProperties
  <1>3. /\ Len(r.out) >= limit => Take(r, limit, q) = [out |-> r.out, refused |-> TRUE]
        /\ ~(Len(r.out) >= limit) => Take(r, limit, q) = [out |-> s, refused |-> r.refused]
    BY <1>1, <1>2 DEF Take
  <1>4. \A o \in Seq(DOMAIN fs), x \in BOOLEAN : [out |-> o, refused |-> x] \in Answers
    BY DEF Answers
  <1>5. CASE Len(r.out) >= limit
    BY <1>1, <1>3, <1>4, <1>5
  <1>6. CASE ~(Len(r.out) >= limit)
    BY <1>1, <1>3, <1>4, <1>6
  <1> QED
    BY <1>5, <1>6

Visits(f, p, limit, b, acc, below) ==
    /\ f \in [0..Len(Names) -> Answers] /\ f[0] = acc
    /\ \A i \in 1..Len(Names) : f[i] = Passing(f[i - 1], p, i, limit, b, below)
    /\ Visit(p, limit, b, acc, below) = f[Len(Names)]

LEMMA VisitIs ==
  ASSUME NEW p, NEW limit, NEW b, NEW acc \in Answers,
         NEW below \in [Spots -> [Answers -> Answers]]
  PROVE  \E f : Visits(f, p, limit, b, acc, below)
  <1> DEFINE n == Len(Names)
             h == [x \in Answers \X (1..n) |-> Passing(x[1], p, x[2], limit, b, below)]
             Is(f) == f = [i \in 0..n |-> IF i = 0 THEN acc ELSE Passing(f[i - 1], p, i, limit, b, below)]
             after == CHOOSE f : Is(f)
  <1>1. n \in Nat
    BY RankIs
  <1>2. ASSUME NEW r \in Answers, NEW i \in 1..n
        PROVE  h[<<r, i>>] \in Answers /\ h[<<r, i>>] = Passing(r, p, i, limit, b, below)
    <2>1. h[<<r, i>>] = Passing(r, p, i, limit, b, below)
      OBVIOUS
    <2>2. Passing(r, p, i, limit, b, below) \in Answers
      <3> DEFINE q == Entry(p, i)
      <3>1. CASE q \notin DOMAIN fs
        BY <3>1 DEF Passing
      <3>2. CASE q \in DOMAIN fs
        <4>1. Take(r, limit, q) \in Answers
          BY <3>2, TakeAnswers
        <4>2. below[q][Take(r, limit, q)] \in Answers
          <5>1. q \in Spots
            BY <3>2 DEF Spots
          <5>2. below[q] \in [Answers -> Answers]
            BY <5>1
          <5> HIDE DEF q
          <5> QED
            BY <4>1, <5>2
        <4> QED
          BY <4>1, <4>2 DEF Passing
      <3> QED
        BY <3>1, <3>2
    <2> QED
      BY <2>1, <2>2
  <1>3. PICK g : Recurs(g, n, Answers, acc, h)
    <2> HIDE DEF h, n
    <2> QED
      BY <1>1, <1>2, RecursionExists
  <1> HIDE DEF h
  <1>4. \E f : Is(f)
    <2>1. \A i \in 0..n : g[i] = IF i = 0 THEN acc ELSE Passing(g[i - 1], p, i, limit, b, below)
      <3>1. /\ g[0] = acc /\ \A i \in 0..n : g[i] \in Answers
            /\ \A i \in 1..n : g[i] = h[<<g[i - 1], i>>]
        BY <1>3 DEF Recurs
      <3>2. \A i \in 0..n : i = 0 \/ (i \in 1..n /\ i - 1 \in 0..n)
        BY <1>1
      <3> HIDE DEF n
      <3> QED
        BY <1>2, <3>1, <3>2
    <2>2. g = [i \in 0..n |-> g[i]]
      BY <1>3 DEF Recurs
    <2> HIDE DEF n
    <2>3. Is(g)
      BY <2>1, <2>2, Zenon
    <2> QED
      BY <2>3
  <1>5. Is(after)
    <2> HIDE DEF Is
    <2> QED
      BY <1>4
  <1>6. Visit(p, limit, b, acc, below) = after[n]
    BY DEF Visit, Passing
  <1> HIDE DEF after, n
  <1>7. /\ after = [i \in 0..n |-> after[i]] /\ after[0] = acc
        /\ \A i \in 1..n : after[i] = Passing(after[i - 1], p, i, limit, b, below)
    <2>1. 0 \in 0..n /\ \A i \in 1..n : i \in 0..n /\ i # 0
      BY <1>1
    <2> QED
      BY <1>5, <2>1
  <1>8. Recurs(after, n, Answers, acc, h)
    BY <1>1, <1>2, <1>7, RecursionIsTyped
  <1> QED
    BY <1>6, <1>7, <1>8 DEF Recurs, n, Visits

\* That g[p] lists what is visible down to depth d below p, after what was passed before.
WalksOn(g, d, limit, b, top) ==
    \A p \in Spots, acc \in Answers, V \in SUBSET DOMAIN fs :
        (/\ Lists(acc, V, limit, top)
         /\ p = top \/ p \in ToSet(acc.out)
         /\ \A v \in V, x \in Visible(p, d, b) : Before(v, x))
        => /\ Lists(g[p][acc], V \cup Visible(p, d, b), limit, top)
           /\ ToSet(acc.out) \subseteq ToSet(g[p][acc].out)

LEMMA PassingLists ==
  ASSUME WsInv, NEW limit \in Nat, NEW b, NEW top, NEW d \in Nat \ {0},
         NEW below, WalksOn(below, d - 1, limit, b, top),
         NEW p \in Spots, NEW V \in SUBSET DOMAIN fs,
         \A v \in V, x \in Visible(p, d, b) : Before(v, x),
         NEW i \in 1..Len(Names), NEW r,
         Lists(r, V \cup Passed(p, d, b, i - 1), limit, top),
         p = top \/ p \in ToSet(r.out)
  PROVE  LET s == Passing(r, p, i, limit, b, below)
         IN  /\ Lists(s, V \cup Passed(p, d, b, i), limit, top)
             /\ ToSet(r.out) \subseteq ToSet(s.out)
  <1> DEFINE q == Entry(p, i)
             U == V \cup Passed(p, d, b, i - 1)
             taken == Take(r, limit, q)
             s == Passing(r, p, i, limit, b, below)
             X == Visible(q, d - 1, b)
  <1>1. p \in Parts
    BY TreeIs, PathsAreParts DEF Spots
  <1>2. Passed(p, d, b, i) = Passed(p, d, b, i - 1)
            \cup (IF q \notin DOMAIN fs \/ Skipped(q, b) THEN {} ELSE {q} \cup X)
    BY <1>1, EntryPassed
  <1>3. CASE q \notin DOMAIN fs \/ Skipped(q, b)
    <2>1. s = r
      BY <1>3 DEF Passing
    <2>2. Passed(p, d, b, i) = Passed(p, d, b, i - 1)
      BY <1>2, <1>3
    <2> HIDE DEF s
    <2> QED
      BY <2>1, <2>2 DEF s
  <1>4. CASE q \in DOMAIN fs /\ ~Skipped(q, b)
    <2>1. /\ Front(q) = p /\ \A v \in U : Before(v, q)
          /\ \A v \in U \cup {q}, x \in X : Before(v, x)
      BY <1>1, <1>4, EntryFollows
    <2> HIDE DEF q
    <2>2. V \cup Passed(p, d, b, i) = (U \cup {q}) \cup X
      BY <1>2, <1>4
    <2>3. s = IF IsDir(q) /\ ~taken.refused THEN below[q][taken] ELSE taken
      BY <1>4 DEF Passing, q
    <2>4. Lists(r, U, limit, top)
      OBVIOUS
    <2> HIDE DEF U, s, taken
    <2>5. /\ Lists(taken, U \cup {q}, limit, top)
          /\ ToSet(r.out) \subseteq ToSet(taken.out)
          /\ ~taken.refused => q \in ToSet(taken.out)
          /\ taken.refused => limit < Cardinality(U \cup {q})
      BY <1>4, <2>1, <2>4, TakeLists DEF taken
    <2>6. d - 1 \in Nat /\ X \subseteq DOMAIN fs /\ U \cup {q} \subseteq DOMAIN fs /\ taken \in Answers
      BY <2>5 DEF Visible, Lists
    <2>7. CASE IsDir(q) /\ ~taken.refused
      <3>1. s = below[q][taken] /\ q \in Spots
        BY <1>4, <2>3, <2>7 DEF Spots
      <3>2. q = top \/ q \in ToSet(taken.out)
        BY <2>5, <2>7
      <3> HIDE DEF X
      <3>3. /\ Lists(below[q][taken], (U \cup {q}) \cup X, limit, top)
            /\ ToSet(taken.out) \subseteq ToSet(below[q][taken].out)
        BY <2>1, <2>5, <2>6, <3>1, <3>2 DEF WalksOn, X
      <3> QED
        BY <2>2, <2>5, <3>1, <3>3 DEF s
    <2>8. CASE ~(IsDir(q) /\ ~taken.refused)
      <3>1. s = taken
        BY <2>3, <2>8
      <3>2. X = {} \/ limit < Cardinality(U \cup {q})
        <4>1. ~IsDir(q) => X = {}
          BY <1>4, <2>6, NoneBelow
        <4> QED
          BY <2>5, <2>8, <4>1
      <3> HIDE DEF X
      <3>3. Lists(taken, (U \cup {q}) \cup X, limit, top)
        BY <2>1, <2>5, <2>6, <3>2, RefusedLists
      <3> QED
        BY <2>2, <2>5, <3>1, <3>3 DEF s
    <2> QED
      BY <2>7, <2>8
  <1> QED
    BY <1>3, <1>4

LEMMA VisitLists ==
  ASSUME WsInv, NEW limit \in Nat, NEW b, NEW top, NEW d \in Nat \ {0},
         NEW below \in [Spots -> [Answers -> Answers]], WalksOn(below, d - 1, limit, b, top),
         NEW p \in Spots, NEW acc \in Answers, NEW V \in SUBSET DOMAIN fs,
         Lists(acc, V, limit, top), p = top \/ p \in ToSet(acc.out),
         \A v \in V, x \in Visible(p, d, b) : Before(v, x)
  PROVE  LET r == Visit(p, limit, b, acc, below)
         IN  /\ Lists(r, V \cup Visible(p, d, b), limit, top)
             /\ ToSet(acc.out) \subseteq ToSet(r.out)
  <1> DEFINE n == Len(Names)
             Good(r, i) == /\ Lists(r, V \cup Passed(p, d, b, i), limit, top)
                           /\ ToSet(acc.out) \subseteq ToSet(r.out)
  <1>1. p \in Parts /\ n \in Nat
    BY TreeIs, PathsAreParts, RankIs DEF Spots
  <1>0. PICK f : Visits(f, p, limit, b, acc, below)
    BY VisitIs
  <1>2. /\ f \in [0..n -> Answers] /\ f[0] = acc
        /\ \A i \in 1..n : f[i] = Passing(f[i - 1], p, i, limit, b, below)
        /\ Visit(p, limit, b, acc, below) = f[n]
    BY <1>0 DEF Visits
  <1> DEFINE S == {i \in 0..n : Good(f[i], i)}
  <1>3. Passed(p, d, b, 0) = {} /\ Passed(p, d, b, n) = Visible(p, d, b)
    BY <1>1, PassedEnds
  <1>4. 0 \in S
    <2>1. V \cup Passed(p, d, b, 0) = V
      BY <1>3
    <2>2. Lists(f[0], V \cup Passed(p, d, b, 0), limit, top) /\ ToSet(acc.out) \subseteq ToSet(f[0].out)
      BY <1>2, <2>1
    <2>3. 0 \in 0..n
      BY <1>1
    <2> QED
      BY <2>2, <2>3
  <1>5. ASSUME NEW i \in 0..(n - 1), i \in S
        PROVE  i + 1 \in S
    <2>1. i + 1 \in 1..n /\ (i + 1) - 1 = i
      BY <1>1
    <2>2. f[i + 1] = Passing(f[i], p, i + 1, limit, b, below)
      BY <1>2, <2>1
    <2>3. Lists(f[i], V \cup Passed(p, d, b, i), limit, top) /\ ToSet(acc.out) \subseteq ToSet(f[i].out)
      BY <1>5
    <2>4. Lists(f[i], V \cup Passed(p, d, b, (i + 1) - 1), limit, top)
      BY <2>1, <2>3
    <2>5. p = top \/ p \in ToSet(f[i].out)
      BY <2>3
    <2>6. LET s == Passing(f[i], p, i + 1, limit, b, below)
          IN  /\ Lists(s, V \cup Passed(p, d, b, i + 1), limit, top)
              /\ ToSet(f[i].out) \subseteq ToSet(s.out)
      BY <2>1, <2>4, <2>5, PassingLists
    <2>7. Lists(f[i + 1], V \cup Passed(p, d, b, i + 1), limit, top) /\ ToSet(f[i].out) \subseteq ToSet(f[i + 1].out)
      BY <2>2, <2>6, Zenon
    <2>8. i + 1 \in 0..n
      BY <1>1
    <2> QED
      BY <2>3, <2>7, <2>8
  <1>6. \A i \in 0..n : i \in S
    <2> HIDE DEF S, n
    <2> QED
      BY <1>1, <1>4, <1>5, UpTo
  <1>7. n \in S
    <2> HIDE DEF S
    <2> QED
      BY <1>1, <1>6
  <1>8. Lists(f[n], V \cup Passed(p, d, b, n), limit, top) /\ ToSet(acc.out) \subseteq ToSet(f[n].out)
    BY <1>7
  <1> HIDE DEF n
  <1>9. Lists(f[n], V \cup Visible(p, d, b), limit, top)
    BY <1>3, <1>8
  <1> QED
    BY <1>2, <1>8, <1>9

LEMMA WalkLists ==
  ASSUME WsInv, NEW limit \in Nat, NEW b, NEW depth \in Nat, NEW top \in Spots
  PROVE  Lists(Walk(top, depth, limit, b), Visible(top, depth, b), limit, top)
  <1> DEFINE T == [Spots -> [Answers -> Answers]]
             base == [p \in Spots |-> [acc \in Answers |-> acc]]
             Deeper(g) == [p \in Spots |-> [acc \in Answers |-> Visit(p, limit, b, acc, g)]]
             h == [x \in T \X (1..depth) |-> Deeper(x[1])]
             At0(f, d) == [p \in Spots |-> [acc \in Answers |->
                              IF d = 0 THEN acc ELSE Visit(p, limit, b, acc, f[d - 1])]]
             Is(f) == f = [d \in 0..depth |-> At0(f, d)]
             into == CHOOSE f : Is(f)
             none == [out |-> <<>>, refused |-> FALSE]
  <1>1. base \in T
    OBVIOUS
  <1>2. ASSUME NEW g \in T, NEW d \in 1..depth
        PROVE  h[<<g, d>>] \in T /\ h[<<g, d>>] = Deeper(g)
    <2>1. h[<<g, d>>] = Deeper(g)
      <3> HIDE DEF T, Deeper
      <3> QED
        OBVIOUS
    <2>2. ASSUME NEW p \in Spots, NEW acc \in Answers
          PROVE  Visit(p, limit, b, acc, g) \in Answers
      <3>1. PICK f : Visits(f, p, limit, b, acc, g)
        BY VisitIs
      <3>2. Len(Names) \in 0..Len(Names)
        BY RankIs
      <3> QED
        BY <3>1, <3>2 DEF Visits
    <2>3. Deeper(g) \in T
      BY <2>2
    <2> HIDE DEF h, Deeper
    <2> QED
      BY <2>1, <2>3
  <1>3. PICK g : Recurs(g, depth, T, base, h)
    <2> HIDE DEF h, T, base
    <2> QED
      BY <1>1, <1>2, RecursionExists
  <1> HIDE DEF h
  <1>3a. \A f : At0(f, 0) = base /\ \A d \in 1..depth : At0(f, d) = Deeper(f[d - 1])
    <2>1. \A d \in 1..depth : d # 0
      OBVIOUS
    <2> QED
      BY <2>1
  <1>4. \E f : Is(f)
    <2>1. \A d \in 0..depth : g[d] = At0(g, d)
      <3>1. /\ g[0] = base /\ \A d \in 0..depth : g[d] \in T
            /\ \A d \in 1..depth : g[d] = h[<<g[d - 1], d>>]
        BY <1>3 DEF Recurs
      <3>2. \A d \in 0..depth : d = 0 \/ (d \in 1..depth /\ d - 1 \in 0..depth)
        OBVIOUS
      <3> HIDE DEF At0, Deeper, base, T
      <3>3. At0(g, 0) = base /\ \A d \in 1..depth : At0(g, d) = Deeper(g[d - 1])
        BY <1>3a, Zenon
      <3> QED
        BY <1>2, <3>1, <3>2, <3>3
    <2>2. g = [d \in 0..depth |-> g[d]]
      BY <1>3 DEF Recurs
    <2>3. g = [d \in 0..depth |-> At0(g, d)]
      <3> HIDE DEF At0
      <3> QED
        BY <2>1, <2>2, Zenon
    <2>4. Is(g)
      BY <2>3
    <2> QED
      BY <2>4
  <1>5. Is(into)
    <2> HIDE DEF Is
    <2> QED
      BY <1>4
  <1>6. Walk(top, depth, limit, b) = into[depth][top][none]
    BY DEF Walk, Spots
  <1> HIDE DEF into
  <1>7. /\ into = [d \in 0..depth |-> into[d]] /\ into[0] = base
        /\ \A d \in 1..depth : into[d] = Deeper(into[d - 1])
    <2>1. 0 \in 0..depth /\ \A d \in 1..depth : d \in 0..depth /\ d # 0
      OBVIOUS
    <2> HIDE DEF At0, Deeper, base
    <2>2. \A d \in 0..depth : into[d] = At0(into, d)
      BY <1>5
    <2>3. into[0] = base /\ \A d \in 1..depth : into[d] = Deeper(into[d - 1])
      BY <1>3a, <2>1, <2>2
    <2>4. into = [d \in 0..depth |-> into[d]]
      BY <1>5
    <2> QED
      BY <2>3, <2>4
  <1>8. Recurs(into, depth, T, base, h)
    <2> HIDE DEF T, base, Deeper
    <2> QED
      BY <1>1, <1>2, <1>7, RecursionIsTyped
  <1> DEFINE S == {d \in 0..depth : WalksOn(into[d], d, limit, b, top)}
  <1>9. 0 \in S
    <2>1. ASSUME NEW p \in Spots
          PROVE  Visible(p, 0, b) = {}
      <3>1. p \in Parts /\ Len(p) \in Nat
        BY TreeIs, PathsAreParts DEF Spots, Parts
      <3>2. \A x \in DOMAIN fs : Len(x) \in Nat
        BY TreeIs DEF Parts
      <3> QED
        BY <3>1, <3>2, VisibleIs
    <2>2. \A p \in Spots, acc \in Answers : into[0][p][acc] = acc
      BY <1>7
    <2>3. \A V : V \cup {} = V
      OBVIOUS
    <2>4. WalksOn(into[0], 0, limit, b, top)
      BY <2>1, <2>2, <2>3 DEF WalksOn
    <2> QED
      BY <2>4
  <1>10. ASSUME NEW d \in 0..(depth - 1), d \in S
         PROVE  d + 1 \in S
    <2>1. d \in 0..depth /\ d + 1 \in 1..depth /\ d + 1 \in Nat \ {0} /\ (d + 1) - 1 = d
      OBVIOUS
    <2>2. into[d] \in T
      BY <1>8, <2>1 DEF Recurs
    <2>3. WalksOn(into[d], (d + 1) - 1, limit, b, top)
      BY <1>10, <2>1
    <2>4. \A p \in Spots, acc \in Answers : into[d + 1][p][acc] = Visit(p, limit, b, acc, into[d])
      <3>1. into[d + 1] = Deeper(into[d])
        <4> HIDE DEF Deeper
        <4> QED
          BY <1>7, <2>1
      <3> QED
        BY <3>1
    <2>5. ASSUME NEW p \in Spots, NEW acc \in Answers, NEW V \in SUBSET DOMAIN fs,
                 Lists(acc, V, limit, top), p = top \/ p \in ToSet(acc.out),
                 \A v \in V, x \in Visible(p, d + 1, b) : Before(v, x)
          PROVE  /\ Lists(into[d + 1][p][acc], V \cup Visible(p, d + 1, b), limit, top)
                 /\ ToSet(acc.out) \subseteq ToSet(into[d + 1][p][acc].out)
      <3>1. /\ Lists(Visit(p, limit, b, acc, into[d]), V \cup Visible(p, d + 1, b), limit, top)
            /\ ToSet(acc.out) \subseteq ToSet(Visit(p, limit, b, acc, into[d]).out)
        BY <2>1, <2>2, <2>3, <2>5, VisitLists
      <3> QED
        BY <2>4, <3>1
    <2>6. WalksOn(into[d + 1], d + 1, limit, b, top)
      BY <2>5 DEF WalksOn
    <2> QED
      BY <2>1, <2>6
  <1>11. WalksOn(into[depth], depth, limit, b, top)
    <2>1. \A d \in 0..depth : d \in S
      <3> HIDE DEF S
      <3> QED
        BY <1>9, <1>10, UpTo
    <2> QED
      BY <2>1
  <1>12. Lists(none, {}, limit, top) /\ none \in Answers
    <2>1. Cardinality({}) = 0 /\ IsFiniteSet({})
      BY FS_EmptySet
    <2>2. FirstOf({}, limit) = <<>>
      <3>1. Len(FirstOf({}, limit)) = 0 /\ FirstOf({}, limit) \in Seq({Nth({}, i) : i \in 1..Cardinality({})})
        BY <2>1, FirstIs
      <3> QED
        BY <3>1, EmptySeq
    <2>3. <<>> \in Seq({}) /\ <<>> \in Seq(DOMAIN fs) /\ Len(<<>>) = 0
      BY EmptySeq
    <2>4. IsListing(none, {}, limit)
      BY <2>1, <2>2 DEF IsListing
    <2> QED
      BY <2>3, <2>4 DEF Lists, Answers
  <1>13. Lists(into[depth][top][none], {} \cup Visible(top, depth, b), limit, top)
    <2> HIDE DEF none
    <2> QED
      BY <1>11, <1>12 DEF WalksOn
  <1>14. {} \cup Visible(top, depth, b) = Visible(top, depth, b)
    OBVIOUS
  <1> QED
    <2> HIDE DEF none
    <2> QED
      BY <1>6, <1>13, <1>14

-----------------------------------------------------------------------------
(* The brief's preview of the tree.                                        *)

\* The tree that the preview gets: in order, and with the directory of each path.
IsTree(tree) ==
    /\ tree \in Seq(DOMAIN fs)
    /\ \A j, k \in 1..Len(tree) : j < k => Before(tree[j], tree[k])
    /\ \A k \in 1..Len(tree) : Front(tree[k]) = Root \/ Front(tree[k]) \in ToSet(tree)

\* What it has down to depth d below p, and of that, what is under its first i entries.
Deep(tree, p, d) ==
    {x \in ToSet(tree) : Begins(p, x) /\ Len(p) < Len(x) /\ Len(x) <= Len(p) + d}
IsChild(q, p) == Len(q) = Len(p) + 1 /\ Begins(p, q)
DeepUnder(tree, p, d, i) ==
    {x \in Deep(tree, p, d) : \E j \in 1..i : IsChild(tree[j], p) /\ Begins(tree[j], x)}

LEMMA TreeHas ==
  ASSUME WsInv, NEW tree, IsTree(tree)
  PROVE  /\ ToSet(tree) \subseteq DOMAIN fs /\ ToSet(tree) = {tree[i] : i \in 1..Len(tree)}
         /\ Len(tree) \in Nat /\ \A i \in 1..Len(tree) : tree[i] \in ToSet(tree)
         /\ \A x \in ToSet(tree) : x \in Parts /\ Len(x) \in Nat
         /\ \A p \in Parts, d \in Nat : Deep(tree, p, d) \in SUBSET DOMAIN fs
  <1>1. tree \in Seq(DOMAIN fs)
    BY DEF IsTree
  <1>2. ToSet(tree) \subseteq DOMAIN fs /\ ToSet(tree) = {tree[i] : i \in 1..Len(tree)} /\ Len(tree) \in Nat
    BY <1>1 DEF ToSet
  <1>3. \A x \in ToSet(tree) : x \in Parts /\ Len(x) \in Nat
    BY <1>2, TreeIs DEF Parts
  <1> QED
    BY <1>2, <1>3 DEF Deep

LEMMA DeepEnds ==
  ASSUME WsInv, NEW tree, IsTree(tree), NEW p \in Parts, NEW d \in Nat
  PROVE  DeepUnder(tree, p, d, 0) = {} /\ DeepUnder(tree, p, d, Len(tree)) = Deep(tree, p, d)
  <1>1. ASSUME NEW x \in Deep(tree, p, d)
        PROVE  \E j \in 1..Len(tree) : IsChild(tree[j], p) /\ Begins(tree[j], x)
    <2> DEFINE n == Len(p) + 1
               q == SubSeq(x, 1, n)
    <2>1. x \in ToSet(tree) /\ x \in Parts /\ Begins(p, x) /\ Len(p) < Len(x) /\ Len(x) \in Nat /\ Len(p) \in Nat
      BY TreeHas DEF Deep, Parts
    <2>2. n \in 0..Len(x)
      BY <2>1
    <2>3. q \in Parts /\ Len(q) = n /\ \A i \in 1..n : q[i] = x[i]
      <3> HIDE DEF n
      <3> QED
        BY <2>1, <2>2, Beginning DEF Parts
    <2> HIDE DEF q
    <2>4. IsChild(q, p) /\ Begins(q, x)
      BY <2>1, <2>3 DEF IsChild, Begins
    <2>5. q \in Prefixes(x) /\ q # Root
      BY <2>1, <2>3, <2>4, PrefixesBegin DEF Parts, Root
    <2>6. ToSet(tree) \in SUBSET Paths /\ \A y \in ToSet(tree) : Front(y) = Root \/ Front(y) \in ToSet(tree)
      <3>1. ToSet(tree) \subseteq DOMAIN fs /\ ToSet(tree) = {tree[i] : i \in 1..Len(tree)}
        BY TreeHas
      <3>2. ToSet(tree) \in SUBSET Paths
        BY <3>1, TreeIs
      <3>3. \A i \in 1..Len(tree) : Front(tree[i]) = Root \/ Front(tree[i]) \in ToSet(tree)
        BY DEF IsTree
      <3> QED
        BY <3>1, <3>2, <3>3
    <2>7. q \in ToSet(tree)
      BY <2>1, <2>5, <2>6, AboveAreIn
    <2> QED
      BY <2>4, <2>7, TreeHas
  <1> QED
    BY <1>1 DEF DeepUnder

LEMMA ChildPassed ==
  ASSUME WsInv, NEW tree, IsTree(tree), NEW p \in Parts, NEW d \in Nat \ {0}, NEW k \in 1..Len(tree)
  PROVE  DeepUnder(tree, p, d, k) = DeepUnder(tree, p, d, k - 1)
            \cup (IF IsChild(tree[k], p) THEN {tree[k]} \cup Deep(tree, tree[k], d - 1) ELSE {})
  <1> DEFINE q == tree[k]
  <1>1. /\ q \in ToSet(tree) /\ q \in Parts /\ Len(q) \in Nat /\ Len(p) \in Nat /\ Len(tree) \in Nat
        /\ \A x \in ToSet(tree) : x \in Parts /\ Len(x) \in Nat
    BY TreeHas DEF Parts
  <1> HIDE DEF q
  <1>2. ASSUME IsChild(q, p), NEW x \in ToSet(tree)
        PROVE  x \in Deep(tree, p, d) /\ Begins(q, x) <=> x = q \/ x \in Deep(tree, q, d - 1)
    <2>1. Begins(q, x) => (x = q <=> Len(x) = Len(q))
      BY <1>1, SeqEqual DEF Begins, Parts
    <2>2. Begins(q, x) => Begins(p, x) /\ Len(q) <= Len(x)
      BY <1>1, <1>2 DEF Begins, IsChild
    <2>3. Begins(q, q) /\ Len(q) = Len(p) + 1
      BY <1>1, <1>2 DEF Begins, IsChild
    <2> QED
      BY <1>1, <2>1, <2>2, <2>3 DEF Deep
  <1>3. \A j : j \in 1..k <=> j \in 1..(k - 1) \/ j = k
    BY <1>1
  <1>4. DeepUnder(tree, p, d, k) = DeepUnder(tree, p, d, k - 1)
          \cup {x \in Deep(tree, p, d) : IsChild(q, p) /\ Begins(q, x)}
    BY <1>3 DEF DeepUnder, q
  <1>5. {x \in Deep(tree, p, d) : IsChild(q, p) /\ Begins(q, x)}
          = IF IsChild(q, p) THEN {q} \cup Deep(tree, q, d - 1) ELSE {}
    <2>1. Deep(tree, p, d) \subseteq ToSet(tree) /\ Deep(tree, q, d - 1) \subseteq ToSet(tree)
      BY DEF Deep
    <2> QED
      BY <1>1, <1>2, <2>1
  <1> QED
    BY <1>4, <1>5 DEF q

LEMMA ChildFollows ==
  ASSUME WsInv, NEW tree, IsTree(tree), NEW p \in Parts, NEW d \in Nat \ {0}, NEW k \in 1..Len(tree),
         NEW V, \A v \in V, x \in Deep(tree, p, d) : Before(v, x),
         IsChild(tree[k], p)
  PROVE  LET q == tree[k]
             U == V \cup DeepUnder(tree, p, d, k - 1)
         IN  /\ \A v \in U : Before(v, q)
             /\ \A v \in U \cup {q}, x \in Deep(tree, q, d - 1) : Before(v, x)
  <1> DEFINE q == tree[k]
             n == Len(p) + 1
  <1>1. /\ q \in ToSet(tree) /\ q \in Parts /\ Len(q) \in Nat /\ Len(p) \in Nat /\ Len(tree) \in Nat
        /\ \A x \in ToSet(tree) : x \in Parts /\ Len(x) \in Nat
        /\ Len(q) = n /\ Begins(p, q)
    BY TreeHas DEF Parts, IsChild
  <1>2. \A x \in {q} \cup Deep(tree, q, d - 1) : x \in Deep(tree, p, d)
    <2>1. DeepUnder(tree, p, d, k) \subseteq Deep(tree, p, d)
      BY DEF DeepUnder
    <2>2. DeepUnder(tree, p, d, k) = DeepUnder(tree, p, d, k - 1) \cup {q} \cup Deep(tree, q, d - 1)
      BY ChildPassed
    <2> QED
      BY <2>1, <2>2
  <1>3. ASSUME NEW x \in {q} \cup Deep(tree, q, d - 1)
        PROVE  x \in Parts /\ Len(x) \in Nat /\ n <= Len(x) /\ Begins(q, x)
    <2>1. CASE x = q
      BY <1>1, <2>1 DEF Begins
    <2>2. CASE x \in Deep(tree, q, d - 1)
      BY <1>1, <2>2 DEF Deep, Begins
    <2> QED
      BY <1>3, <2>1, <2>2
  <1>4. ASSUME NEW v \in DeepUnder(tree, p, d, k - 1), NEW x \in {q} \cup Deep(tree, q, d - 1)
        PROVE  Before(v, x)
    <2>1. PICK j \in 1..(k - 1) : IsChild(tree[j], p) /\ Begins(tree[j], v)
      BY DEF DeepUnder
    <2> DEFINE r == tree[j]
    <2>2. j \in 1..Len(tree) /\ j < k
      BY <1>1, <2>1
    <2>3. Before(r, q) /\ r \in Parts /\ Len(r) = n /\ Begins(p, r) /\ Begins(r, v)
      BY <2>1, <2>2, TreeHas DEF IsTree, IsChild
    <2> HIDE DEF r, q
    <2>4. v \in Parts /\ Len(v) \in Nat
      BY <1>1 DEF DeepUnder, Deep
    <2>5. \A i \in 1..Len(p) : r[i] = q[i]
      BY <1>1, <2>3 DEF Begins
    <2>6. Rank(r[n]) < Rank(q[n])
      <3>1. ~(Len(r) < Len(q))
        BY <1>1, <2>3
      <3>2. PICK i \in 1..Len(r) : Rank(r[i]) < Rank(q[i])
        BY <1>1, <2>3, <3>1, BeforeIs
      <3>3. Rank(q[i]) \in Nat
        <4>1. q[i] \in ToSet(Names)
          BY <1>1, <2>3, <3>2 DEF Parts
        <4> QED
          BY <4>1, RankIs
      <3>4. i \notin 1..Len(p)
        BY <2>5, <3>2, <3>3
      <3>5. i = n
        BY <1>1, <2>3, <3>2, <3>4
      <3> QED
        BY <3>2, <3>5
    <2>7. x \in Parts /\ Len(x) \in Nat /\ n <= Len(x) /\ \A i \in 1..n : x[i] = q[i]
      BY <1>1, <1>3 DEF Begins
    <2>8. n <= Len(v) /\ \A i \in 1..n : v[i] = r[i]
      BY <1>1, <2>3 DEF Begins
    <2>9. n \in 1..Len(v) /\ n \in 1..n /\ \A i \in 1..(n - 1) : v[i] = x[i]
      BY <1>1, <2>4, <2>5, <2>7, <2>8
    <2>10. Rank(v[n]) < Rank(x[n])
      BY <2>6, <2>7, <2>8, <2>9
    <2> HIDE DEF n
    <2> QED
      BY <2>4, <2>7, <2>9, <2>10, BeforeIs
  <1>5. ASSUME NEW x \in Deep(tree, q, d - 1)
        PROVE  Before(q, x)
    <2>1. Begins(q, x) /\ Len(q) < Len(x) /\ x \in Parts
      BY <1>1 DEF Deep
    <2> QED
      BY <1>1, <2>1, BeforeIs
  <1> HIDE DEF q
  <1> QED
    BY <1>2, <1>4, <1>5 DEF q

\* What the preview has made of the paths V that it has passed.
Shows(lines, V) ==
    /\ lines \in Seq(DOMAIN fs) /\ V \subseteq DOMAIN fs
    /\ Len(lines) < BriefLines => lines = FirstOf(V, BriefLines) /\ Cardinality(V) < BriefLines
    /\ Len(lines) >= BriefLines =>
            SubSeq(lines, 1, BriefLines) = FirstOf(V, BriefLines) /\ BriefLines <= Cardinality(V)

LEMMA NothingShown == WsInv => Shows(<<>>, {})
  <1> SUFFICES ASSUME WsInv
               PROVE  Shows(<<>>, {})
    OBVIOUS
  <1>1. Cardinality({}) = 0 /\ IsFiniteSet({}) /\ BriefLines \in Nat
    BY FS_EmptySet, WorkspaceAssumption
  <1>2. FirstOf({}, BriefLines) = <<>>
    <2>0. (IF BriefLines <= 0 THEN BriefLines ELSE 0) = 0
      BY <1>1
    <2>1. /\ Len(FirstOf({}, BriefLines)) = 0
          /\ FirstOf({}, BriefLines) \in Seq({Nth({}, i) : i \in 1..Cardinality({})})
      BY <1>1, <2>0, FirstIs
    <2> QED
      BY <2>1, EmptySeq
  <1>3. <<>> \in Seq(DOMAIN fs) /\ Len(<<>>) = 0
    BY EmptySeq
  <1>4. BriefLines = 0 => SubSeq(<<>>, 1, BriefLines) = <<>>
    BY SubSeqEmpty
  <1>5. CASE BriefLines = 0
    <2>1. Len(<<>>) >= BriefLines /\ ~(Len(<<>>) < BriefLines) /\ BriefLines <= Cardinality({})
      BY <1>1, <1>3, <1>5
    <2>2. SubSeq(<<>>, 1, BriefLines) = FirstOf({}, BriefLines)
      BY <1>2, <1>4, <1>5
    <2> QED
      BY <1>3, <2>1, <2>2 DEF Shows
  <1>6. CASE BriefLines # 0
    <2>1. ~(Len(<<>>) >= BriefLines) /\ Len(<<>>) < BriefLines /\ Cardinality({}) < BriefLines
      BY <1>1, <1>3, <1>6
    <2> QED
      BY <1>2, <1>3, <2>1 DEF Shows
  <1> QED
    BY <1>5, <1>6

LEMMA FullShows ==
  ASSUME WsInv, NEW lines, NEW V, Shows(lines, V),
         NEW X \in SUBSET DOMAIN fs, \A v \in V, x \in X : Before(v, x),
         Len(lines) >= BriefLines \/ X = {}
  PROVE  Shows(lines, V \cup X)
  <1>1. V \in SUBSET Parts /\ X \in SUBSET Parts /\ IsFiniteSet(V) /\ IsFiniteSet(X) /\ BriefLines \in Nat
    BY TreeIs, FS_Subset, WorkspaceAssumption DEF Shows
  <1>2. CASE X = {}
    <2>1. V \cup X = V
      BY <1>2
    <2> QED
      BY <2>1
  <1>3. CASE Len(lines) >= BriefLines
    <2>1. BriefLines <= Cardinality(V)
      BY <1>3 DEF Shows
    <2>2. FirstOf(V \cup X, BriefLines) = FirstOf(V, BriefLines) /\ BriefLines <= Cardinality(V \cup X)
      BY <1>1, <2>1, FirstsAreEnough
    <2>3. ~(Len(lines) < BriefLines)
      <3>1. Len(lines) \in Nat
        BY DEF Shows
      <3> QED
        BY <1>1, <1>3, <3>1
    <2> QED
      BY <1>3, <2>2, <2>3 DEF Shows
  <1> QED
    BY <1>2, <1>3

LEMMA AppendShows ==
  ASSUME WsInv, NEW lines, NEW V, Shows(lines, V),
         NEW q \in DOMAIN fs, \A v \in V : Before(v, q)
  PROVE  Shows(Append(lines, q), V \cup {q})
  <1> DEFINE B == BriefLines
             W == V \cup {q}
             shown == Append(lines, q)
             D == DOMAIN fs
  <1>1. /\ V \in SUBSET Parts /\ q \in Parts /\ {q} \in SUBSET Parts /\ IsFiniteSet(V) /\ IsFiniteSet({q})
        /\ B \in Nat /\ W \subseteq D /\ Cardinality(V) \in Nat
    BY TreeIs, FS_Subset, FS_Singleton, FS_CardinalityType, WorkspaceAssumption DEF Shows
  <1>2. lines \in Seq(D) /\ Len(lines) \in Nat
    BY DEF Shows
  <1>3. /\ shown \in Seq(D) /\ Len(shown) = Len(lines) + 1
        /\ \A i \in 1..Len(lines) : shown[i] = lines[i]
    BY <1>2, AppendProperties
  <1>4. CASE Len(lines) < B
    <2>1. lines = FirstOf(V, B) /\ Cardinality(V) < B
      BY <1>4 DEF Shows
    <2>2. FirstOf(W, B) = shown /\ Len(lines) = Cardinality(V) /\ Cardinality(W) = Cardinality(V) + 1
      BY <1>1, <2>1, LastOfFirsts
    <2>3. Len(shown) = B => SubSeq(shown, 1, B) = shown
      BY <1>3, SubSeqFull
    <2> HIDE DEF shown, W
    <2>4. ~(Len(shown) > B) /\ Cardinality(W) = Len(shown) /\ Len(shown) \in Nat
      BY <1>1, <1>2, <1>3, <1>4, <2>2
    <2>5. Shows(shown, W)
      BY <1>1, <1>3, <2>2, <2>3, <2>4 DEF Shows
    <2> QED
      BY <2>5 DEF shown, W
  <1>5. CASE Len(lines) >= B
    <2>1. SubSeq(lines, 1, B) = FirstOf(V, B) /\ B <= Cardinality(V)
      BY <1>5 DEF Shows
    <2>2. FirstOf(W, B) = FirstOf(V, B) /\ B <= Cardinality(W)
      <3>1. \A v \in V, x \in {q} : Before(v, x)
        OBVIOUS
      <3> QED
        BY <1>1, <2>1, <3>1, FirstsAreEnough
    <2> HIDE DEF shown, W
    <2>3. SubSeq(shown, 1, B) = SubSeq(lines, 1, B)
      <3>1. B \in 0..Len(lines) /\ B \in 0..Len(shown)
        BY <1>1, <1>2, <1>3, <1>5
      <3>2. /\ SubSeq(shown, 1, B) \in Seq(D) /\ Len(SubSeq(shown, 1, B)) = B
            /\ \A i \in 1..B : SubSeq(shown, 1, B)[i] = shown[i]
        BY <1>3, <3>1, Beginning
      <3>3. /\ SubSeq(lines, 1, B) \in Seq(D) /\ Len(SubSeq(lines, 1, B)) = B
            /\ \A i \in 1..B : SubSeq(lines, 1, B)[i] = lines[i]
        BY <1>2, <3>1, Beginning
      <3>4. \A i \in 1..B : SubSeq(shown, 1, B)[i] = SubSeq(lines, 1, B)[i]
        BY <1>1, <1>2, <1>3, <1>5, <3>2, <3>3
      <3> QED
        BY <3>2, <3>3, <3>4, SeqEqual
    <2>4. Len(shown) >= B /\ ~(Len(shown) < B)
      BY <1>1, <1>2, <1>3, <1>5
    <2>5. Shows(shown, W)
      BY <1>1, <1>3, <2>1, <2>2, <2>3, <2>4 DEF Shows
    <2> QED
      BY <2>5 DEF shown, W
  <1> QED
    BY <1>1, <1>2, <1>4, <1>5

\* What becomes of the lines r at the k-th path of the tree.
Growing(r, tree, p, k, deeper, below) ==
    LET q == tree[k]
        shown == Append(r, q)
    IN  IF Len(q) # Len(p) + 1 \/ ~IsPrefix(p, q) THEN r
        ELSE IF IsDir(q) /\ deeper THEN below[q][shown]
        ELSE shown

Grows(f, tree, p, lines, deeper, below) ==
    /\ f \in [0..Len(tree) -> Seq(DOMAIN fs)] /\ f[0] = lines
    /\ \A k \in 1..Len(tree) : f[k] = Growing(f[k - 1], tree, p, k, deeper, below)
    /\ Children(tree, p, lines, deeper, below) = f[Len(tree)]

LEMMA ChildrenAre ==
  ASSUME NEW tree \in Seq(DOMAIN fs), NEW p, NEW lines \in Seq(DOMAIN fs), NEW deeper,
         NEW below \in [Spots -> [Seq(DOMAIN fs) -> Seq(DOMAIN fs)]]
  PROVE  \E f : Grows(f, tree, p, lines, deeper, below)
  <1> DEFINE n == Len(tree)
             T == Seq(DOMAIN fs)
             h == [x \in T \X (1..n) |-> Growing(x[1], tree, p, x[2], deeper, below)]
             Is(f) == f = [i \in 0..n |-> IF i = 0 THEN lines ELSE Growing(f[i - 1], tree, p, i, deeper, below)]
             after == CHOOSE f : Is(f)
  <1>1. n \in Nat
    OBVIOUS
  <1>2. ASSUME NEW r \in T, NEW i \in 1..n
        PROVE  h[<<r, i>>] \in T /\ h[<<r, i>>] = Growing(r, tree, p, i, deeper, below)
    <2>1. h[<<r, i>>] = Growing(r, tree, p, i, deeper, below)
      <3> HIDE DEF T, n
      <3> QED
        OBVIOUS
    <2>2. tree[i] \in DOMAIN fs
      OBVIOUS
    <2>3. PICK s \in T : s = Append(r, tree[i])
      BY <2>2, AppendProperties
    <2>4. below[tree[i]][s] \in T
      <3>1. tree[i] \in Spots
        BY <2>2 DEF Spots
      <3>2. below[tree[i]] \in [T -> T]
        BY <3>1
      <3> HIDE DEF T
      <3> QED
        BY <3>2
    <2> HIDE DEF T, h, n
    <2>5. Growing(r, tree, p, i, deeper, below) \in T
      BY <2>3, <2>4 DEF Growing
    <2> QED
      BY <2>1, <2>5
  <1>3. PICK g : Recurs(g, n, T, lines, h)
    <2> HIDE DEF h, n
    <2> QED
      BY <1>1, <1>2, RecursionExists
  <1> HIDE DEF h, T
  <1>4. \E f : Is(f)
    <2>1. \A i \in 0..n : g[i] = IF i = 0 THEN lines ELSE Growing(g[i - 1], tree, p, i, deeper, below)
      <3>1. /\ g[0] = lines /\ \A i \in 0..n : g[i] \in T
            /\ \A i \in 1..n : g[i] = h[<<g[i - 1], i>>]
        BY <1>3 DEF Recurs
      <3>2. \A i \in 0..n : i = 0 \/ (i \in 1..n /\ i - 1 \in 0..n)
        BY <1>1
      <3> HIDE DEF n
      <3> QED
        BY <1>2, <3>1, <3>2
    <2>2. g = [i \in 0..n |-> g[i]]
      BY <1>3 DEF Recurs
    <2> HIDE DEF n
    <2>3. Is(g)
      BY <2>1, <2>2, Zenon
    <2> QED
      BY <2>3
  <1>5. Is(after)
    <2> HIDE DEF Is
    <2> QED
      BY <1>4
  <1>6. Children(tree, p, lines, deeper, below) = after[n]
    BY DEF Children, Growing
  <1> HIDE DEF after, n
  <1>7. /\ after = [i \in 0..n |-> after[i]] /\ after[0] = lines
        /\ \A i \in 1..n : after[i] = Growing(after[i - 1], tree, p, i, deeper, below)
    <2>1. 0 \in 0..n /\ \A i \in 1..n : i \in 0..n /\ i # 0
      BY <1>1
    <2> QED
      BY <1>5, <2>1
  <1>8. Recurs(after, n, T, lines, h)
    <2>1. lines \in T
      BY DEF T
    <2> QED
      BY <1>1, <1>2, <1>7, <2>1, RecursionIsTyped
  <1> QED
    BY <1>6, <1>7, <1>8 DEF Recurs, n, Grows, T

\* That g[p] shows what the tree has down to depth d below p, after what was passed before.
ShowsOn(g, tree, d) ==
    \A p \in Spots, lines \in Seq(DOMAIN fs), V \in SUBSET DOMAIN fs :
        (Shows(lines, V) /\ \A v \in V, x \in Deep(tree, p, d) : Before(v, x))
        => Shows(g[p][lines], V \cup Deep(tree, p, d))

LEMMA NoneDeeper ==
  ASSUME WsInv, NEW tree, IsTree(tree), NEW q \in DOMAIN fs, NEW d \in Nat, ~IsDir(q) \/ d = 0
  PROVE  Deep(tree, q, d) = {}
  <1> SUFFICES ASSUME NEW x \in Deep(tree, q, d)
               PROVE  FALSE
    OBVIOUS
  <1>1. /\ x \in DOMAIN fs /\ x \in Parts /\ q \in Parts /\ q # Root /\ Len(x) \in Nat /\ Len(q) \in Nat
        /\ Begins(q, x) /\ Len(q) < Len(x) /\ Len(x) <= Len(q) + d
    <2>1. x \in ToSet(tree) /\ Begins(q, x) /\ Len(q) < Len(x) /\ Len(x) <= Len(q) + d
      BY DEF Deep
    <2>2. q \in Parts /\ q # Root
      BY TreeIs DEF Paths
    <2> QED
      BY <2>1, <2>2, TreeHas DEF Parts
  <1>2. q \in Prefixes(x) /\ q # x
    BY <1>1, PrefixesBegin DEF Parts
  <1>3. fs[q] = "dir"
    BY <1>1, <1>2, AboveAreDirs
  <1> QED
    BY <1>1, <1>3 DEF IsDir

LEMMA ChildrenShow ==
  ASSUME WsInv, NEW tree, IsTree(tree), NEW d \in Nat \ {0},
         NEW below \in [Spots -> [Seq(DOMAIN fs) -> Seq(DOMAIN fs)]], ShowsOn(below, tree, d - 1),
         NEW p \in Spots, NEW lines, NEW V, Shows(lines, V),
         \A v \in V, x \in Deep(tree, p, d) : Before(v, x)
  PROVE  Shows(Children(tree, p, lines, d > 1, below), V \cup Deep(tree, p, d))
  <1> DEFINE n == Len(tree)
             D == DOMAIN fs
  <1>1. /\ p \in Parts /\ n \in Nat /\ d - 1 \in Nat /\ V \subseteq D
        /\ lines \in Seq(D) /\ tree \in Seq(D)
    BY TreeIs, PathsAreParts, TreeHas DEF Spots, Shows, IsTree
  <1>2. PICK f : Grows(f, tree, p, lines, d > 1, below)
    BY <1>1, ChildrenAre
  <1>3. /\ f \in [0..n -> Seq(D)] /\ f[0] = lines
        /\ \A k \in 1..n : f[k] = Growing(f[k - 1], tree, p, k, d > 1, below)
        /\ Children(tree, p, lines, d > 1, below) = f[n]
    BY <1>2 DEF Grows
  <1> DEFINE S == {i \in 0..n : Shows(f[i], V \cup DeepUnder(tree, p, d, i))}
  <1>4. DeepUnder(tree, p, d, 0) = {} /\ DeepUnder(tree, p, d, n) = Deep(tree, p, d)
    BY <1>1, DeepEnds
  <1>5. 0 \in S
    <2>1. V \cup DeepUnder(tree, p, d, 0) = V /\ 0 \in 0..n
      BY <1>1, <1>4
    <2>2. Shows(f[0], V \cup DeepUnder(tree, p, d, 0))
      BY <1>3, <2>1
    <2> QED
      BY <2>1, <2>2
  <1>6. ASSUME NEW i \in 0..(n - 1), i \in S
        PROVE  i + 1 \in S
    <2> DEFINE k == i + 1
               q == tree[k]
               U == V \cup DeepUnder(tree, p, d, i)
               W == V \cup DeepUnder(tree, p, d, k)
               X == Deep(tree, q, d - 1)
               shown == Append(f[i], q)
    <2>1. k \in 1..n /\ k \in 0..n /\ k - 1 = i
      BY <1>1
    <2>2. f[k] = Growing(f[i], tree, p, k, d > 1, below)
      BY <1>3, <2>1
    <2>3. Shows(f[i], U)
      BY <1>6
    <2> HIDE DEF k
    <2>4. q \in D /\ q \in Parts /\ q \in Spots
      BY <1>1, <2>1, TreeHas, TreeIs DEF Spots
    <2>5. IsChild(q, p) <=> ~(Len(q) # Len(p) + 1 \/ ~IsPrefix(p, q))
      BY <1>1, <2>4, PrefixBegins DEF IsChild, Parts
    <2>6. DeepUnder(tree, p, d, k) = DeepUnder(tree, p, d, i)
            \cup (IF IsChild(q, p) THEN {q} \cup X ELSE {})
      BY <1>1, <2>1, ChildPassed
    <2>7. Shows(f[k], W)
      <3>1. CASE ~IsChild(q, p)
        <4>1. f[k] = f[i]
          BY <2>2, <2>5, <3>1 DEF Growing
        <4>2. W = U
          BY <2>6, <3>1
        <4> HIDE DEF W, U
        <4> QED
          BY <2>3, <4>1, <4>2
      <3>2. CASE IsChild(q, p)
        <4>1. (\A v \in U : Before(v, q)) /\ \A v \in U \cup {q}, x \in X : Before(v, x)
          BY <1>1, <2>1, <3>2, ChildFollows
        <4>2. W = (U \cup {q}) \cup X
          BY <2>6, <3>2
        <4>3. f[k] = IF IsDir(q) /\ d > 1 THEN below[q][shown] ELSE shown
          BY <2>2, <2>5, <3>2 DEF Growing
        <4> HIDE DEF W, U, X, q
        <4>4. Shows(shown, U \cup {q})
          BY <2>3, <2>4, <4>1, AppendShows
        <4> HIDE DEF shown
        <4>5. shown \in Seq(D) /\ U \cup {q} \subseteq D
          BY <4>4 DEF Shows
        <4>6. CASE IsDir(q) /\ d > 1
          <5>1. Shows(below[q][shown], (U \cup {q}) \cup X)
            BY <2>4, <4>1, <4>4, <4>5 DEF ShowsOn, X
          <5> QED
            BY <4>2, <4>3, <4>6, <5>1
        <4>7. CASE ~(IsDir(q) /\ d > 1)
          <5>1. X = {}
            <6>1. ~(d > 1) => d - 1 = 0
              OBVIOUS
            <6> QED
              BY <1>1, <2>4, <4>7, <6>1, NoneDeeper DEF X
          <5>2. W = U \cup {q}
            BY <4>2, <5>1
          <5> QED
            BY <4>3, <4>4, <4>7, <5>2
        <4> QED
          BY <4>6, <4>7
      <3> QED
        BY <3>1, <3>2
    <2>8. k \in S
      BY <2>1, <2>7
    <2> QED
      BY <2>8 DEF k
  <1>7. \A i \in 0..n : i \in S
    <2> HIDE DEF S, n
    <2> QED
      BY <1>1, <1>5, <1>6, UpTo
  <1>8. n \in S
    <2> HIDE DEF S
    <2> QED
      BY <1>1, <1>7
  <1>9. Shows(f[n], V \cup DeepUnder(tree, p, d, n))
    BY <1>8
  <1> HIDE DEF n
  <1> QED
    BY <1>3, <1>4, <1>9

LEMMA PreviewShows ==
  ASSUME WsInv, NEW tree, IsTree(tree)
  PROVE  Shows(Preview(tree), Deep(tree, Root, BriefDepth))
  <1> DEFINE L == Seq(DOMAIN fs)
             T == [Spots -> [L -> L]]
             depth == BriefDepth
             One(p, lines, d, g) == IF Len(lines) >= BriefLines THEN lines
                                    ELSE Children(tree, p, lines, d > 1, g)
             base == [p \in Spots |-> [lines \in L |-> lines]]
             Deeper(g, d) == [p \in Spots |-> [lines \in L |-> One(p, lines, d, g)]]
             h == [x \in T \X (1..depth) |-> Deeper(x[1], x[2])]
             At0(f, d) == [p \in Spots |-> [lines \in L |->
                              IF d = 0 \/ Len(lines) >= BriefLines THEN lines
                              ELSE Children(tree, p, lines, d > 1, f[d - 1])]]
             Is(f) == f = [d \in 0..depth |-> At0(f, d)]
             into == CHOOSE f : Is(f)
  <1>0. depth \in Nat
    BY WorkspaceAssumption
  <1>1. base \in T
    OBVIOUS
  <1>2. ASSUME NEW g \in T, NEW d \in 1..depth
        PROVE  h[<<g, d>>] \in T /\ h[<<g, d>>] = Deeper(g, d)
    <2>1. h[<<g, d>>] = Deeper(g, d)
      <3> HIDE DEF T, Deeper, depth
      <3> QED
        OBVIOUS
    <2>2. ASSUME NEW p \in Spots, NEW lines \in L
          PROVE  One(p, lines, d, g) \in L
      <3>1. tree \in L /\ Len(tree) \in 0..Len(tree)
        BY TreeHas DEF IsTree
      <3>2. PICK f : Grows(f, tree, p, lines, d > 1, g)
        BY <3>1, ChildrenAre
      <3>3. Children(tree, p, lines, d > 1, g) \in L
        <4>1. f \in [0..Len(tree) -> L] /\ Children(tree, p, lines, d > 1, g) = f[Len(tree)]
          BY <3>2 DEF Grows
        <4> HIDE DEF L
        <4> QED
          BY <3>1, <4>1
      <3> QED
        BY <3>3
    <2>3. Deeper(g, d) \in T
      <3> HIDE DEF One, L
      <3> QED
        BY <2>2
    <2> HIDE DEF h, Deeper
    <2> QED
      BY <2>1, <2>3
  <1>3. PICK g : Recurs(g, depth, T, base, h)
    <2> HIDE DEF h, T, base, depth
    <2> QED
      BY <1>0, <1>1, <1>2, RecursionExists
  <1> HIDE DEF h, depth
  <1>3a. \A f : At0(f, 0) = base /\ \A d \in 1..depth : At0(f, d) = Deeper(f[d - 1], d)
    <2>1. \A d \in 1..depth : d # 0
      BY <1>0
    <2> QED
      BY <2>1
  <1>4. \E f : Is(f)
    <2>1. \A d \in 0..depth : g[d] = At0(g, d)
      <3>1. /\ g[0] = base /\ \A d \in 0..depth : g[d] \in T
            /\ \A d \in 1..depth : g[d] = h[<<g[d - 1], d>>]
        BY <1>3 DEF Recurs
      <3>2. \A d \in 0..depth : d = 0 \/ (d \in 1..depth /\ d - 1 \in 0..depth)
        BY <1>0
      <3> HIDE DEF At0, Deeper, base, T
      <3>3. At0(g, 0) = base /\ \A d \in 1..depth : At0(g, d) = Deeper(g[d - 1], d)
        BY <1>3a, Zenon
      <3> QED
        BY <1>2, <3>1, <3>2, <3>3
    <2>2. g = [d \in 0..depth |-> g[d]]
      BY <1>3 DEF Recurs
    <2>3. g = [d \in 0..depth |-> At0(g, d)]
      <3> HIDE DEF At0
      <3> QED
        BY <2>1, <2>2, Zenon
    <2>4. Is(g)
      BY <2>3
    <2> QED
      BY <2>4
  <1>5. Is(into)
    <2> HIDE DEF Is
    <2> QED
      BY <1>4
  <1>6. Preview(tree) = into[depth][Root][<<>>]
    BY DEF Preview, Spots, depth
  <1> HIDE DEF into
  <1>7. /\ into = [d \in 0..depth |-> into[d]] /\ into[0] = base
        /\ \A d \in 1..depth : into[d] = Deeper(into[d - 1], d)
    <2>1. 0 \in 0..depth /\ \A d \in 1..depth : d \in 0..depth /\ d # 0
      BY <1>0
    <2> HIDE DEF At0, Deeper, base
    <2>2. \A d \in 0..depth : into[d] = At0(into, d)
      BY <1>5
    <2>3. into[0] = base /\ \A d \in 1..depth : into[d] = Deeper(into[d - 1], d)
      BY <1>3a, <2>1, <2>2
    <2>4. into = [d \in 0..depth |-> into[d]]
      BY <1>5
    <2> QED
      BY <2>3, <2>4
  <1>8. Recurs(into, depth, T, base, h)
    <2> HIDE DEF T, base, Deeper
    <2> QED
      BY <1>0, <1>1, <1>2, <1>7, RecursionIsTyped
  <1> DEFINE S == {d \in 0..depth : ShowsOn(into[d], tree, d)}
  <1>9. 0 \in S
    <2>1. ASSUME NEW p \in Spots
          PROVE  Deep(tree, p, 0) = {}
      <3>1. Len(p) \in Nat
        BY TreeIs, PathsAreParts DEF Spots, Parts
      <3> QED
        BY <3>1, TreeHas DEF Deep
    <2>2. \A p \in Spots, lines \in L : into[0][p][lines] = lines
      BY <1>7
    <2>3. \A V : V \cup {} = V
      OBVIOUS
    <2>4. ShowsOn(into[0], tree, 0)
      BY <2>1, <2>2, <2>3 DEF ShowsOn
    <2> QED
      BY <1>0, <2>4
  <1>10. ASSUME NEW d \in 0..(depth - 1), d \in S
         PROVE  d + 1 \in S
    <2>1. d \in 0..depth /\ d + 1 \in 1..depth /\ d + 1 \in 0..depth /\ d + 1 \in Nat \ {0} /\ (d + 1) - 1 = d
      BY <1>0
    <2>2. into[d] \in T
      BY <1>8, <2>1 DEF Recurs
    <2>3. ShowsOn(into[d], tree, (d + 1) - 1)
      BY <1>10, <2>1
    <2>4. \A p \in Spots, lines \in L : into[d + 1][p][lines] = One(p, lines, d + 1, into[d])
      <3>1. into[d + 1] = Deeper(into[d], d + 1)
        <4> HIDE DEF Deeper
        <4> QED
          BY <1>7, <2>1
      <3> QED
        BY <3>1
    <2>5. ASSUME NEW p \in Spots, NEW lines \in L, NEW V \in SUBSET DOMAIN fs, Shows(lines, V),
                 \A v \in V, x \in Deep(tree, p, d + 1) : Before(v, x)
          PROVE  Shows(into[d + 1][p][lines], V \cup Deep(tree, p, d + 1))
      <3>1. CASE Len(lines) >= BriefLines
        <4>1. Deep(tree, p, d + 1) \in SUBSET DOMAIN fs
          BY <2>1, TreeHas, TreeIs, PathsAreParts DEF Spots
        <4>2. Shows(lines, V \cup Deep(tree, p, d + 1))
          BY <2>5, <3>1, <4>1, FullShows
        <4>3. into[d + 1][p][lines] = lines
          BY <2>4, <3>1
        <4> QED
          BY <4>2, <4>3
      <3>2. CASE ~(Len(lines) >= BriefLines)
        <4>1. Shows(Children(tree, p, lines, d + 1 > 1, into[d]), V \cup Deep(tree, p, d + 1))
          BY <2>1, <2>2, <2>3, <2>5, ChildrenShow
        <4>2. into[d + 1][p][lines] = Children(tree, p, lines, d + 1 > 1, into[d])
          BY <2>4, <3>2
        <4> QED
          BY <4>1, <4>2
      <3> QED
        BY <3>1, <3>2
    <2>6. ShowsOn(into[d + 1], tree, d + 1)
      BY <2>5 DEF ShowsOn
    <2> QED
      BY <2>1, <2>6
  <1>11. ShowsOn(into[depth], tree, depth)
    <2>1. \A d \in 0..depth : d \in S
      <3> HIDE DEF S
      <3> QED
        BY <1>0, <1>9, <1>10, UpTo
    <2> QED
      BY <1>0, <2>1
  <1>12. Shows(into[depth][Root][<<>>], {} \cup Deep(tree, Root, depth))
    <2>1. Shows(<<>>, {}) /\ <<>> \in Seq(DOMAIN fs) /\ Root \in Spots
      BY NothingShown, EmptySeq DEF Spots
    <2> QED
      BY <1>11, <2>1 DEF ShowsOn
  <1>13. {} \cup Deep(tree, Root, depth) = Deep(tree, Root, depth)
    OBVIOUS
  <1> QED
    BY <1>6, <1>12, <1>13 DEF depth

-----------------------------------------------------------------------------
(* What is shown is there.                                                 *)

LEMMA ListingsHold == WsInv => ListingsAreExact
  <1> SUFFICES ASSUME WsInv
               PROVE  ListingsAreExact
    OBVIOUS
  <1> DEFINE tree == BuildTree.out
             B == BriefLines
             lines == Preview(tree)
             V == {p \in ToSet(tree) : Len(p) <= BriefDepth}
  <1>1. TreeEntries \in Nat /\ ListEntries \in Nat /\ TreeDepth \in Nat /\ BriefDepth \in Nat /\ B \in Nat
    BY WorkspaceAssumption
  <1>2. Lists(BuildTree, Visible(Root, TreeDepth, TRUE), TreeEntries, Root)
    BY <1>1, WalkLists DEF BuildTree, Spots
  <1>3. ASSUME NEW p \in DOMAIN fs \cup {Root}, NEW depth \in 1..TreeDepth
        PROVE  IsListing(ListDir(p, depth), Visible(p, depth, FALSE), ListEntries)
    <2>1. p \in Spots /\ depth \in Nat
      BY <1>1 DEF Spots
    <2> QED
      BY <1>1, <2>1, WalkLists DEF ListDir, Lists
  <1>4. BriefTree = FirstOf(V, B)
    <2>1. IsTree(tree)
      <3>1. tree \in Seq(DOMAIN fs)
        BY <1>2 DEF Lists, Answers
      <3> QED
        BY <1>2, <3>1 DEF IsTree, Lists
    <2> HIDE DEF tree
    <2>2. Deep(tree, Root, BriefDepth) = V
      <3>1. \A x \in ToSet(tree) : x \in Paths /\ Len(x) \in Nat \ {0}
        BY <2>1, TreeHas, TreeIs, PathsAreParts
      <3>2. Len(Root) = 0 /\ \A x : Len(x) \in Nat => Begins(Root, x)
        BY DEF Root, Begins
      <3> QED
        BY <1>1, <3>1, <3>2 DEF Deep
    <2>3. Shows(lines, V)
      BY <2>1, <2>2, PreviewShows
    <2> HIDE DEF lines, V
    <2>4. lines \in Seq(DOMAIN fs) /\ Len(lines) \in Nat
      BY <2>3 DEF Shows
    <2>5. Min({Len(lines), B}) = IF Len(lines) < B THEN Len(lines) ELSE B
      <3>1. PICK m \in Nat : m = IF Len(lines) < B THEN Len(lines) ELSE B
        BY <1>1, <2>4
      <3>2. m \in {Len(lines), B} /\ \A y \in {Len(lines), B} : m <= y
        BY <1>1, <2>4, <3>1
      <3>3. \A x \in {Len(lines), B} : (\A y \in {Len(lines), B} : x <= y) => x = m
        BY <1>1, <2>4, <3>1
      <3> QED
        BY <3>1, <3>2, <3>3 DEF Min
    <2>6. SubSeq(lines, 1, Min({Len(lines), B})) = FirstOf(V, B)
      <3>1. CASE Len(lines) < B
        BY <2>3, <2>4, <2>5, <3>1, SubSeqFull DEF Shows
      <3>2. CASE ~(Len(lines) < B)
        <4>1. Len(lines) >= B
          BY <1>1, <2>4, <3>2
        <4>2. SubSeq(lines, 1, B) = FirstOf(V, B)
          BY <2>3, <4>1 DEF Shows, B
        <4> QED
          BY <2>5, <3>2, <4>2
      <3> QED
        BY <3>1, <3>2
    <2> QED
      BY <2>6 DEF BriefTree, lines, tree
  <1> QED
    BY <1>2, <1>3, <1>4 DEF ListingsAreExact, Lists

-----------------------------------------------------------------------------
(* What is found can be read.                                              *)

LEMMA TextIs ==
  ASSUME WsInv, NEW p \in Found
  PROVE  /\ p \in DOMAIN fs /\ p \in Paths /\ p \in Parts /\ p \in DOMAIN text /\ ~IsDir(p)
         /\ text[p] \in Seq(Lines) /\ DOMAIN text[p] = 1..Len(text[p]) /\ Len(text[p]) \in Nat
  BY PathsAreParts DEF WsInv, IsClone, Found, IsFile, IsDir, Root, Paths

\* A slice of one line.
LEMMA OneLine ==
  ASSUME NEW S, NEW t \in Seq(S), NEW i \in 1..Len(t)
  PROVE  SubSeq(t, i, i) = <<t[i]>>
  <1>1. i \in Int /\ i - i + 1 = 1 /\ i + 1 - 1 = i /\ t[i] \in S
    OBVIOUS
  <1>2. \A j \in i..i : t[j] \in S
    BY <1>1
  <1>3. /\ SubSeq(t, i, i) \in Seq(S) /\ Len(SubSeq(t, i, i)) = 1
        /\ SubSeq(t, i, i)[1] = t[i]
    BY <1>1, <1>2, SubSeqProperties
  <1> DEFINE w == <<t[i]>>
  <1>4. w \in Seq(S) /\ Len(w) = 1 /\ w[1] = t[i]
    BY <1>1
  <1> HIDE DEF w
  <1>5. \A j \in 1..Len(w) : SubSeq(t, i, i)[j] = w[j]
    BY <1>3, <1>4
  <1> QED
    <2>1. SubSeq(t, i, i) = w
      BY <1>3, <1>4, <1>5, SeqEqual
    <2> QED
      BY <2>1 DEF w

\* A line of a file with no link above it, asked for by its number.
LEMMA FoundReads ==
  ASSUME WsInv, NEW p \in Found, Last(p) \notin Binary, NEW i \in DOMAIN Split(text[p])
  PROVE  ReadFile(p, i, i) = <<Split(text[p])[i]>>
  <1> DEFINE lines == Split(text[p])
  <1>1. /\ lines \in Seq(Lines) /\ Len(lines) \in Nat /\ i \in 1..Len(lines)
        /\ p \in Parts /\ ReadLines \in Nat \ {0}
    <2>1. text[p] \in Seq(Lines) /\ p \in Parts
      BY TextIs
    <2>2. lines \in Seq(Lines)
      BY <2>1, ReadIsText
    <2> HIDE DEF lines
    <2>3. Len(lines) \in Nat /\ DOMAIN lines = 1..Len(lines)
      BY <2>2
    <2> QED
      BY <2>1, <2>2, <2>3, WorkspaceAssumption DEF lines
  <1> HIDE DEF lines
  <1>2. ".." \notin ToSet(p)
    <2>1. \A j \in DOMAIN p : p[j] \in ToSet(Names)
      BY <1>1 DEF Parts
    <2> QED
      BY <2>1, WorkspaceAssumption DEF ToSet
  <1>3. Accepts(Relative(p)) /\ IsFile(p)
    BY <1>2 DEF Accepts, Relative, Found
  <1>4. Min({i, Len(lines), i + ReadLines - 1}) = i
    <2> DEFINE S == {i, Len(lines), i + ReadLines - 1}
    <2>1. i \in S /\ \A y \in S : i <= y
      BY <1>1
    <2>2. \A x \in S : (\A y \in S : x <= y) => x = i
      BY <1>1
    <2> QED
      BY <2>1, <2>2 DEF Min
  <1>5. SubSeq(lines, i, i) = <<lines[i]>>
    BY <1>1, OneLine
  <1>6. ~(i < i)
    BY <1>1
  <1>7. ReadFile(p, i, i) = SubSeq(lines, i, Min({i, Len(lines), i + ReadLines - 1}))
    BY <1>3, <1>6 DEF ReadFile, lines
  <1> QED
    BY <1>4, <1>5, <1>7 DEF lines

LEMMA SymbolIsFound ==
  ASSUME WsInv, NEW d \in DOMAIN Symbols, NEW hit \in FindSymbol(Symbols[d].name, {Symbols[d].kind})
  PROVE  /\ hit[1] \in Found /\ Last(hit[1]) \notin Binary /\ hit[2] \in DOMAIN Numbered(hit[1])
         /\ Numbered(hit[1])[hit[2]] \in DOMAIN Symbols /\ Symbols[Numbered(hit[1])[hit[2]]] = Symbols[d]
  <1>1. PICK m \in Index.modules :
            hit = <<m[1], m[2]>> /\ m[3].name = Symbols[d].name /\ m[3].kind = Symbols[d].kind
    BY DEF FindSymbol
  <1>2. PICK p \in Source : \E i \in Defined(p) : m = <<p, i, Symbols[Numbered(p)[i]]>>
    BY <1>1 DEF Index
  <1>3. PICK i \in Defined(p) : m = <<p, i, Symbols[Numbered(p)[i]]>>
    BY <1>2
  <1>4. p \in Found /\ Last(p) \notin Binary /\ i \in DOMAIN Numbered(p) /\ Numbered(p)[i] \in DOMAIN Symbols
    BY <1>3 DEF Source, Defined
  <1>5. Symbols[Numbered(p)[i]] = Symbols[d]
    BY <1>1, <1>3, <1>4, WorkspaceAssumption
  <1>6. hit[1] = p /\ hit[2] = i
    BY <1>1, <1>3
  <1> QED
    BY <1>4, <1>5, <1>6

LEMMA SearchIsFound ==
  ASSUME WsInv, NEW d, NEW hasRg \in BOOLEAN, NEW hit \in Search(d, hasRg)
  PROVE  hit[1] \in Found /\ hit[2] \in DOMAIN text[hit[1]] /\ text[hit[1]][hit[2]] = d
  <1>1. PICK p \in Found : \E i \in DOMAIN text[p] : text[p][i] = d /\ hit = <<p, i>>
    BY DEF Search
  <1> QED
    BY <1>1

\* What the tree shows of the source is indexed.
LEMMA ShownIsIndexed ==
  ASSUME WsInv, NEW p \in ToSet(BuildTree.out), IsFile(p), Last(p) \in Python \cup Other
  PROVE  p \in Index.skipped \/ \A i \in Defined(p) : <<p, i, Symbols[Numbered(p)[i]]>> \in Index.modules
  <1>1. p \in Visible(Root, TreeDepth, TRUE)
    <2>1. TreeEntries \in Nat /\ TreeDepth \in Nat /\ Root \in Spots
      BY WorkspaceAssumption DEF Spots
    <2>2. BuildTree.out \in Seq(Visible(Root, TreeDepth, TRUE))
      BY <2>1, WalkLists DEF BuildTree, Lists
    <2> DEFINE out == BuildTree.out
               V == Visible(Root, TreeDepth, TRUE)
    <2>3. out \in Seq(V) /\ p \in ToSet(out)
      BY <2>2
    <2> HIDE DEF out, V
    <2>4. p \in V
      BY <2>3 DEF ToSet
    <2> QED
      BY <2>4 DEF V
  <1>2. /\ p \in DOMAIN fs /\ p \in Parts /\ Root \notin DOMAIN fs /\ ~IsDir(p)
        /\ p # Root
    <2>1. p \in DOMAIN fs
      BY DEF IsFile
    <2> QED
      BY <2>1, TreeIs DEF IsFile, IsDir, Paths
  <1>3. \A q \in Prefixes(p) : Len(q) > 0 => ~Skipped(q, TRUE)
    BY <1>1 DEF Visible, Root
  <1>4. ASSUME NEW q \in Prefixes(p)
        PROVE  ~IsLink(q)
    <2>1. q \in Parts
      BY <1>2, <1>4, PrefixesBegin DEF Parts
    <2>2. CASE Len(q) > 0
      BY <1>3, <2>2 DEF Skipped
    <2>3. CASE ~(Len(q) > 0)
      <3>1. q = Root
        BY <2>1, <2>3 DEF Parts, Root
      <3> QED
        BY <1>2, <3>1 DEF IsLink
    <2> QED
      BY <2>2, <2>3
  <1>5. p \in Prefixes(p) /\ Len(p) > 0
    <2>1. p \in Prefixes(p)
      BY <1>2, PrefixesBegin DEF Begins, Parts
    <2> QED
      BY <1>2, <2>1, TreeIs, PathsAreParts
  <1>6. ~Ignored(p, FALSE) /\ Last(p) \notin Binary
    <2>1. IsDir(p) = FALSE
      BY <1>2
    <2>2. ~Ignored(p, IsDir(p)) /\ Last(p) \notin Binary
      BY <1>3, <1>5 DEF Skipped
    <2> QED
      BY <2>1, <2>2, Zenon
  <1>7. p \in Source
    BY <1>2, <1>4, <1>6 DEF Source, Found
  <1> QED
    BY <1>7 DEF Index

LEMMA FoundHolds == WsInv => FoundIsReadable
  <1> SUFFICES ASSUME WsInv
               PROVE  FoundIsReadable
    OBVIOUS
  <1>1. ASSUME NEW d \in DOMAIN Symbols, NEW hit \in FindSymbol(Symbols[d].name, {Symbols[d].kind}),
               Last(hit[1]) \in Python => Unsplit(Read(text[hit[1]]), hit[2])
        PROVE  LET read == ReadFile(hit[1], hit[2], hit[2])
               IN  Len(read) = 1 /\ read[1] \in DOMAIN Symbols /\ Symbols[read[1]] = Symbols[d]
    <2> DEFINE p == hit[1]
               i == hit[2]
    <2>1. /\ p \in Found /\ Last(p) \notin Binary /\ i \in DOMAIN Numbered(p)
          /\ Numbered(p)[i] \in DOMAIN Symbols /\ Symbols[Numbered(p)[i]] = Symbols[d]
      BY <1>1, SymbolIsFound
    <2>2. text[p] \in Seq(Lines)
      BY <2>1, TextIs
    <2>3. i \in DOMAIN Split(text[p]) /\ Split(text[p])[i] = Numbered(p)[i]
      BY <1>1, <2>1, <2>2, UnsplitReads DEF Numbered
    <2>4. ReadFile(p, i, i) = <<Numbered(p)[i]>>
      BY <2>1, <2>3, FoundReads
    <2> QED
      BY <2>1, <2>4
  <1>2. ASSUME NEW d \in Lines, NEW hasRg \in BOOLEAN, NEW hit \in Search(d, hasRg),
               Last(hit[1]) \notin Binary,
               Single(text[hit[1]], hit[2]), Unsplit(Read(text[hit[1]]), hit[2])
        PROVE  ReadFile(hit[1], hit[2], hit[2]) = Decoded[d]
    <2> DEFINE p == hit[1]
               i == hit[2]
    <2>1. p \in Found /\ i \in DOMAIN text[p] /\ text[p][i] = d
      BY <1>2, SearchIsFound
    <2>2. /\ text[p] \in Seq(Lines) /\ i \in 1..Len(text[p]) /\ i \in 0..Len(text[p]) /\ i \in 1..i
          /\ i \in Nat
      BY <2>1, TextIs
    <2>3. Len(Decoded[d]) = 1 /\ Decoded[d] \in Seq(Lines)
      BY <1>2, <2>1, <2>2, WorkspaceAssumption DEF Single
    <2>4. i \in DOMAIN Read(text[p]) /\ Read(text[p])[i] = Decoded[d][1]
      BY <1>2, <2>1, <2>2, SingleReads, ReadIsText
    <2>5. i \in DOMAIN Split(text[p]) /\ Split(text[p])[i] = Decoded[d][1]
      BY <1>2, <2>2, <2>4, UnsplitReads
    <2>6. ReadFile(p, i, i) = <<Decoded[d][1]>>
      BY <1>2, <2>1, <2>5, FoundReads
    <2>7. Decoded[d] = <<Decoded[d][1]>>
      BY <2>3
    <2> QED
      BY <2>6, <2>7, Zenon
  <1>3. \A p \in ToSet(BuildTree.out) :
            (IsFile(p) /\ Last(p) \in Python \cup Other) =>
                p \in Index.skipped \/ \A i \in Defined(p) : <<p, i, Symbols[Numbered(p)[i]]>> \in Index.modules
    BY ShownIsIndexed
  <1> QED
    BY <1>1, <1>2, <1>3 DEF FoundIsReadable

\* ShownIsThere: a listing is the first entries of what is visible, and what an index
\* or a search names can be read.
THEOREM WhatIsShownIsThere == WorkspaceSpec => []ShownIsThere
  <1>1. WorkspaceSpec => []WsInv
    BY InitWsInv, WsInductive, PTL DEF WorkspaceSpec
  <1>2. WsInv => ShownIsThere
    BY ListingsHold, FoundHolds DEF ShownIsThere
  <1> QED
    BY <1>1, <1>2, PTL
=============================================================================
