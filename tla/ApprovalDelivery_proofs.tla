----------------------- MODULE ApprovalDelivery_proofs -----------------------
(***************************************************************************)
(* Theorems about ApprovalDelivery for every set of overlapping calls,     *)
(* every number of branch names and any number of faults.                  *)
(*                                                                         *)
(* Nothing in PRService stops two calls authorised by one approval; the    *)
(* clone they share does.  A change can be committed once, so at most one  *)
(* call ever gets past its `git commit` (Past), and the remote holds at    *)
(* most what that call pushed (OneGetsPast).                               *)
(***************************************************************************)
EXTENDS ApprovalDeliveryProps, FiniteSetTheorems, WellFoundedInduction, TLAPS

\* The call c has committed and goes on to the remote.
Past(c) == pc[c] \in {"push", "pr"} \cup InStretch \/ (pc[c] = "commit" /\ acted[c])

\* Which statuses an approval record, and a stretch of the gate, go with.
GateInv ==
  /\ approval = "none" => status \notin Verdicts \cup {"PR_OPENED"}
  /\ approval = "open" => status \in Verdicts \cup {"AWAITING_APPROVAL", "HALTED"}
  /\ approval = "APPROVED" => status \in {"APPROVED", "PR_OPENED", "FAILED"}
  /\ approval = "REJECTED" => status = "REJECTED"
  /\ gate = "record" => status = "AWAITING_APPROVAL" /\ approval = "none"
  /\ gate \in Verdicts => status = gate /\ approval = "open"
  /\ late => status = "HALTED" /\ approval = "none"

\* A call exists only under an approval, names its branch before it uses it, and in a dry
\* run never reaches a command.
CallsInv ==
  \A c \in Calls :
    /\ pc[c] # "idle" => approval = "APPROVED"
    /\ acted[c] => pc[c] \in Commands
    /\ pc[c] \in {"compose"} \cup Commands \cup InStretch => branch[c] \in Names
    /\ dryRun => pc[c] \notin Commands \cup InStretch

\* One commit of the change, one call that got past it, one branch on the remote.
OneGetsPast ==
  /\ \A c \in Calls : Past(c) => tree = "committed" /\ pushed \subseteq {branch[c]}
  /\ \A c, d \in Calls : Past(c) /\ Past(d) => c = d
  /\ pushed # {} => tree = "committed"
  /\ \A m, n \in pushed : m = n

\* The pull request, its row, the status and the token, in the order they are written.
RowInv ==
  /\ row => prs # {}
  /\ status = "PR_OPENED" => row
  /\ consumed => status = "PR_OPENED"
  /\ \A c \in Calls :
       /\ pc[c] \in InStretch \/ (pc[c] = "pr" /\ acted[c]) => prs # {}
       /\ pc[c] \in {"opened", "consume"} => row
       /\ pc[c] = "consume" => status = "PR_OPENED"
       /\ Past(c) => ~consumed
       /\ Past(c) /\ row => pc[c] \in {"opened", "consume"}

Clean == local = {Default} /\ tree = "dirty" /\ pushed = {} /\ prs = {}

\* Calls that will mark the session if they fail.
Marking(c) == pc[c] \in Commands \cup {"row", "opened"}

\* The clone and the remote are touched only by a call that has still to mark the session.
CleanInv ==
  /\ approval # "APPROVED" => Clean
  /\ faults = 0 /\ status = "APPROVED" /\ ~Clean => \E c \in Calls : Marking(c)

IInv == TypeOK /\ GateInv /\ CallsInv /\ OneGetsPast /\ RowInv /\ CleanInv

-----------------------------------------------------------------------------
\* The legal moves a session's human half can meet.
LEMMA LegalMoves ==
  /\ \A from, to : CanTransition(from, to) => from \in Status /\ to \in Status
  /\ \A from \in Autonomous : \A to :
       CanTransition(from, to) =>
         to \notin Verdicts \cup {"PR_OPENED", "AWAITING_APPROVAL"}
  /\ \A from : CanTransition(from, "AWAITING_APPROVAL") => from = "SUMMARIZING"
  /\ \A from : \A to \in Verdicts : CanTransition(from, to) => from = "AWAITING_APPROVAL"
  /\ \A from : CanTransition(from, "PR_OPENED") <=> from = "APPROVED"
  /\ CanTransition("APPROVED", "FAILED")
  /\ \A to : ~CanTransition("PR_OPENED", to) /\ ~CanTransition("REJECTED", to)
             /\ ~CanTransition("FAILED", to)
  /\ \A to : CanTransition("APPROVED", to) => to \in {"PR_OPENED", "FAILED"}
  <1>1. \A from, to : CanTransition(from, to) => from \in Status /\ to \in Status
    BY DEF CanTransition, LegalTransitions, Status, Terminal
  <1>2. \A from \in Autonomous : \A to :
          CanTransition(from, to) =>
            to \notin Verdicts \cup {"PR_OPENED", "AWAITING_APPROVAL"}
    BY DEF CanTransition, LegalTransitions, Status, Terminal, Autonomous, Verdicts
  <1>3. \A from : CanTransition(from, "AWAITING_APPROVAL") => from = "SUMMARIZING"
    BY DEF CanTransition, LegalTransitions, Status, Terminal
  <1>4. \A from : \A to \in Verdicts : CanTransition(from, to) => from = "AWAITING_APPROVAL"
    BY DEF CanTransition, LegalTransitions, Status, Terminal, Verdicts
  <1>5. \A from : CanTransition(from, "PR_OPENED") <=> from = "APPROVED"
    BY DEF CanTransition, LegalTransitions, Status, Terminal
  <1>6. CanTransition("APPROVED", "FAILED")
    BY DEF CanTransition, LegalTransitions, Status, Terminal
  <1>7. \A to : /\ ~CanTransition("PR_OPENED", to) /\ ~CanTransition("REJECTED", to)
                /\ ~CanTransition("FAILED", to)
    BY DEF CanTransition, LegalTransitions, Status, Terminal
  <1>8. \A to : CanTransition("APPROVED", to) => to \in {"PR_OPENED", "FAILED"}
    BY DEF CanTransition, LegalTransitions, Status, Terminal
  <1> QED
    BY <1>1, <1>2, <1>3, <1>4, <1>5, <1>6, <1>7, <1>8

\* The first free name is a free name.
LEMMA FirstFree ==
  ASSUME NEW free \in SUBSET Names, free # {}
  PROVE  (CHOOSE n \in free : \A m \in free : n <= m) \in free
  <1>1. free \subseteq Nat
    BY ConstantsAssumption DEF Names
  <1> DEFINE below == {pair \in Nat \X Nat : pair[1] < pair[2]}
  <1>2. IsWellFoundedOn(below, Nat)
    BY NatLessThanWellFounded DEF OpToRel
  <1>3. \A m, n \in Nat : <<m, n>> \notin below => n <= m
    OBVIOUS
  <1> HIDE DEF below
  <1>4. PICK n \in free : \A m \in free : <<m, n>> \notin below
    BY <1>1, <1>2, WFMin
  <1>5. \A m \in free : n <= m
    BY <1>1, <1>3, <1>4
  <1> QED
    BY <1>5

-----------------------------------------------------------------------------
\* No approval before the gate, and nothing done without one.
LEMMA InitIInv == Init => IInv
  <1> SUFFICES ASSUME Init
               PROVE  IInv
    OBVIOUS
  <1>1. TypeOK
    <2>1. pc \in [Calls -> PC] /\ acted \in [Calls -> BOOLEAN]
      BY DEF Init, PC
    <2>2. branch \in [Calls -> Names \cup {Default}] /\ faults \in 0..MaxFaults
      BY ConstantsAssumption DEF Init
    <2>3. consumed \in BOOLEAN /\ row \in BOOLEAN
      BY DEF Init
    <2> QED
      BY <2>1, <2>2, <2>3 DEF Init, TypeOK
  <1>2. GateInv
    BY DEF Init, GateInv, Verdicts, Absent
  <1>3. CallsInv
    BY DEF Init, CallsInv, Commands, InStretch
  <1>4. OneGetsPast
    BY DEF Init, OneGetsPast, Past, InStretch
  <1>5. RowInv
    BY DEF Init, RowInv, Past, InStretch, Absent
  <1>6. CleanInv
    BY DEF Init, CleanInv, Clean
  <1> QED
    BY <1>1, <1>2, <1>3, <1>4, <1>5, <1>6 DEF IInv

\* A step of the run, the gate or a cancellation touches the status and the record only, and
\* an approved session moves by its delivery alone.
LEMMA GateKeeps ==
  ASSUME IInv, Work \/ Request \/ Cancel \/ LateFailure \/ GateCommits \/ \E verdict \in Verdicts : Decide(verdict)
  PROVE  IInv'
  <1> DEFINE Typed == /\ status' \in Status \cup {Absent}
                     /\ approval' \in {"none", "open"} \cup Verdicts
                     /\ gate' \in {"none", "record"} \cup Verdicts
                     /\ late' \in BOOLEAN
  <1>1. /\ UNCHANGED <<consumed, row, pc, acted, branch, worldVars, dryRun, slug, faults>>
        /\ Typed /\ GateInv'
    <2>1. CASE Work
      <3>1. /\ status \in Autonomous \cup {Absent} /\ approval = "none" /\ gate = "none"
            /\ late = FALSE /\ late' = FALSE
        BY <2>1 DEF Work, LoopFree, IInv, TypeOK, GateInv, Autonomous, Absent, Verdicts
      <3>2. status' \in Status /\ status' \notin Verdicts \cup {"PR_OPENED"}
        BY <2>1, LegalMoves DEF Work, Transition, Status, Terminal, Verdicts
      <3> QED
        BY <2>1, <3>1, <3>2 DEF Work, IInv, TypeOK, GateInv, recordVars, Verdicts
    <2>2. CASE Request
      <3>1. status = "SUMMARIZING" /\ status' = "AWAITING_APPROVAL" /\ gate = "none"
        BY <2>2, LegalMoves DEF Request, LoopFree, Transition
      <3>2. approval = "none"
        BY <3>1 DEF IInv, TypeOK, GateInv, Verdicts
      <3> QED
        BY <2>2, <3>1, <3>2 DEF Request, IInv, TypeOK, GateInv, recordVars, Verdicts, Status
    <2>3. CASE Cancel
      <3>1. /\ status' = "HALTED" /\ gate = "none" /\ CanTransition(status, "HALTED")
            /\ UNCHANGED <<recordVars, gate, pc, acted, branch, worldVars, dryRun, slug, faults>>
        BY <2>3 DEF Cancel, LoopFree, Transition
      <3>2. status \notin {"APPROVED", "PR_OPENED", "FAILED", "REJECTED"}
        BY <3>1, LegalMoves
      <3> QED
        BY <2>3, <3>1, <3>2 DEF Cancel, IInv, TypeOK, GateInv, recordVars, Verdicts, Status, Terminal
    <2>6. CASE LateFailure
      BY <2>6 DEF LateFailure, LoopFree, IInv, TypeOK, GateInv, recordVars, Verdicts, Status, Terminal
    <2>4. CASE GateCommits
      BY <2>4 DEF GateCommits, IInv, TypeOK, GateInv, Verdicts
    <2>5. ASSUME NEW verdict \in Verdicts, Decide(verdict)
          PROVE  /\ UNCHANGED <<consumed, row, pc, acted, branch, worldVars, dryRun, slug, faults>>
                 /\ Typed /\ GateInv'
      <3>1. status = "AWAITING_APPROVAL" /\ status' = verdict /\ gate' = verdict /\ approval = "open"
        BY <2>5, LegalMoves DEF Decide, Transition
      <3> QED
        BY <2>5, <3>1 DEF Decide, IInv, TypeOK, GateInv, recordVars, Verdicts, Status, Terminal
    <2> QED
      BY <2>1, <2>2, <2>3, <2>4, <2>5, <2>6
  <1>2. \/ approval' = approval /\ approval # "APPROVED"
        \/ approval = "open" /\ status' = status
        \/ approval = "none" /\ status' = status
    <2>1. CASE Work \/ Request \/ Cancel \/ \E verdict \in Verdicts : Decide(verdict)
      <3>1. approval' = approval
        BY <2>1 DEF Work, Request, Cancel, Decide, recordVars
      <3>2. status # "APPROVED" /\ status # "PR_OPENED" /\ status # "FAILED"
        BY <2>1, LegalMoves DEF Work, Request, Cancel, Decide, Transition, Autonomous, Absent
      <3> QED
        BY <3>1, <3>2 DEF IInv, GateInv
    <2>2. CASE GateCommits
      BY <2>2 DEF GateCommits, IInv, TypeOK, GateInv, Verdicts
    <2>3. CASE LateFailure
      BY <2>3 DEF LateFailure, recordVars, IInv, GateInv
    <2> QED
      BY <2>1, <2>2, <2>3
  <1>3. approval # "APPROVED" /\ Clean /\ ~row /\ ~consumed
    BY <1>2 DEF IInv, CleanInv, Clean, RowInv
  <1>4. \A c \in Calls : pc[c] = "idle" /\ ~acted[c]
    BY <1>3 DEF IInv, CallsInv, Commands
  <1>5. TypeOK'
    BY <1>1 DEF IInv, TypeOK, worldVars, cloneVars, remoteVars
  <1> HIDE DEF Typed
  <1>6. CallsInv'
    BY <1>1, <1>4 DEF IInv, CallsInv, Commands, InStretch
  <1>7. OneGetsPast'
    BY <1>1 DEF worldVars, cloneVars, remoteVars, IInv, OneGetsPast, Past
  <1>8. RowInv'
    <2>1. status' # "PR_OPENED"
      <3>1. status # "PR_OPENED"
        BY <1>3 DEF IInv, RowInv
      <3>2. CASE Work \/ Request \/ Cancel \/ \E verdict \in Verdicts : Decide(verdict)
        BY <3>2, LegalMoves DEF Work, Request, Cancel, Decide, Transition, Verdicts
      <3>3. CASE GateCommits
        BY <3>1, <3>3 DEF GateCommits
      <3>4. CASE LateFailure
        BY <3>4 DEF LateFailure
      <3> QED
        BY <3>2, <3>3, <3>4
    <2> QED
      BY <1>1, <1>3, <1>4, <2>1 DEF RowInv, Past, InStretch
  <1>9. CleanInv'
    BY <1>1, <1>3 DEF CleanInv, Clean, worldVars, cloneVars, remoteVars
  <1> QED
    BY <1>5, <1>1, <1>6, <1>7, <1>8, <1>9 DEF IInv

\* A call that is not past its commit, and does nothing but move on to another control point
\* before the remote, keeps everything.
LEMMA QuietMove ==
  ASSUME IInv, NEW c \in Calls, NEW next \in PC \ ({"idle"} \cup InStretch),
         Goto(c, next),
         approval = "APPROVED",
         pc[c] \notin Commands \cup InStretch,
         next \in Commands => next = "branch" /\ ~dryRun,
         branch' \in [Calls -> Names \cup {Default}],
         \A d \in Calls \ {c} : branch'[d] = branch[d],
         next \in {"compose"} \cup Commands => branch'[c] \in Names,
         UNCHANGED <<status, recordVars, gate, acted, worldVars, late, dryRun, slug, faults>>
  PROVE  IInv'
  <1>1. /\ UNCHANGED <<status, approval, consumed, row, gate, acted, late, dryRun, slug, faults>>
        /\ UNCHANGED <<local, head, carrying, tree, foreign, pushed, prs>>
    BY DEF recordVars, worldVars, cloneVars, remoteVars
  <1>2. pc \in [Calls -> PC] /\ pc'[c] = next /\ \A d \in Calls \ {c} : pc'[d] = pc[d]
    BY DEF IInv, TypeOK, Goto
  <1>3. TypeOK'
    BY <1>1, <1>2 DEF IInv, TypeOK, Goto
  <1>4. GateInv'
    BY <1>1 DEF IInv, GateInv
  <1>5. CallsInv'
    BY <1>1, <1>2 DEF IInv, CallsInv
  <1>6. ~acted[c] /\ ~acted'[c]
    BY <1>1 DEF IInv, CallsInv
  <1>7. ~Past(c) /\ ~Past(c)' /\ \A d \in Calls \ {c} : Past(d)' = Past(d)
    BY <1>1, <1>2, <1>6 DEF Past, Commands, InStretch
  <1>8. OneGetsPast'
    BY <1>1, <1>7 DEF IInv, OneGetsPast
  <1>9. RowInv'
    BY <1>1, <1>2, <1>6, <1>7 DEF IInv, RowInv, InStretch
  <1>10. CleanInv'
    BY <1>1, <1>2 DEF IInv, CleanInv, Clean, Marking, Commands, InStretch
  <1> QED
    BY <1>3, <1>4, <1>5, <1>8, <1>9, <1>10 DEF IInv

\* A call that ends with an error keeps everything, provided that it marked the session or
\* that this is one of the faults.
LEMMA LeaveKeeps ==
  ASSUME IInv, NEW c \in Calls, pc[c] \in Awaits \cup InStretch,
         Goto(c, "raised"),
         acted' \in [Calls -> BOOLEAN], ~acted'[c], \A d \in Calls \ {c} : acted'[d] = acted[d],
         status' = status \/ (status = "APPROVED" /\ status' = "FAILED"),
         faults' \in 0..MaxFaults, faults' # 0 \/ status' # "APPROVED", faults # 0 => faults' # 0,
         UNCHANGED <<approval, consumed, row, gate, branch, late, dryRun, slug>>,
         UNCHANGED <<local, head, carrying, tree, foreign, pushed, prs>>
  PROVE  IInv'
  <1>1. /\ pc \in [Calls -> PC] /\ pc' \in [Calls -> PC]
        /\ pc'[c] = "raised" /\ \A d \in Calls \ {c} : pc'[d] = pc[d]
    BY DEF Goto, IInv, TypeOK, PC
  <1>2. approval = "APPROVED"
    BY DEF IInv, CallsInv, Awaits, Commands, InStretch
  <1>3. ~Past(c)' /\ \A d \in Calls \ {c} : Past(d)' = Past(d)
    BY <1>1 DEF Past, InStretch
  <1>4. TypeOK'
    BY <1>1 DEF IInv, TypeOK, Status, Terminal
  <1>5. GateInv'
    BY <1>2 DEF IInv, GateInv, Verdicts
  <1>6. CallsInv'
    BY <1>1, <1>2 DEF IInv, CallsInv, Commands, InStretch
  <1>7. OneGetsPast'
    BY <1>3 DEF IInv, OneGetsPast
  <1>8. RowInv'
    BY <1>1, <1>3 DEF IInv, RowInv, InStretch
  <1>9. CleanInv'
    BY <1>2 DEF CleanInv
  <1> QED
    BY <1>4, <1>5, <1>6, <1>7, <1>8, <1>9 DEF IInv

\* The stretches before the first command.
LEMMA PreparationKeeps ==
  ASSUME IInv, NEW c \in Calls,
         Open(c) \/ ReviewReturns(c) \/ ListReturns(c) \/ ComposeReturns(c) \/ PreparationFails(c)
  PROVE  IInv'
  <1>0. /\ branch \in [Calls -> Names \cup {Default}]
        /\ pc[c] # "idle" => approval = "APPROVED"
        /\ pc[c] = "compose" => branch[c] \in Names
    BY DEF IInv, TypeOK, CallsInv
  <1>1. CASE Open(c)
    <2>1. /\ Goto(c, "review") /\ pc[c] = "idle" /\ approval = "APPROVED"
          /\ UNCHANGED <<status, recordVars, gate, acted, branch, worldVars, late, dryRun, slug, faults>>
      BY <1>1 DEF Open, Authorized
    <2> QED
      BY <1>0, <2>1, QuietMove DEF PC, Awaits, Commands, InStretch
  <1>2. CASE ReviewReturns(c)
    <2>1. /\ Goto(c, "list") /\ pc[c] = "review"
          /\ UNCHANGED <<status, recordVars, gate, acted, branch, worldVars, late, dryRun, slug, faults>>
      BY <1>2 DEF ReviewReturns
    <2> QED
      BY <1>0, <2>1, QuietMove DEF PC, Awaits, Commands, InStretch
  <1>3. CASE ListReturns(c)
    <2>1. PICK taken : NameBranch(c, taken)
      BY <1>3 DEF ListReturns
    <2>2. /\ pc[c] = "list"
          /\ UNCHANGED <<status, recordVars, gate, acted, worldVars, late, dryRun, slug, faults>>
      BY <1>3 DEF ListReturns
    <2>3. CASE Names \ taken # {}
      <3> DEFINE first == CHOOSE n \in Names \ taken : \A m \in Names \ taken : n <= m
      <3>1. first \in Names
        BY <2>3, FirstFree
      <3>2. branch' = [branch EXCEPT ![c] = first] /\ Goto(c, "compose")
        BY <2>1, <2>3 DEF NameBranch
      <3> HIDE DEF first
      <3> QED
        BY <1>0, <2>2, <3>1, <3>2, QuietMove DEF PC, Awaits, Commands, InStretch
    <2>4. CASE Names \ taken = {}
      <3>1. Goto(c, "raised") /\ UNCHANGED branch
        BY <2>1, <2>4 DEF NameBranch
      <3> QED
        BY <1>0, <2>2, <3>1, QuietMove DEF PC, Awaits, Commands, InStretch
    <2> QED
      BY <2>3, <2>4
  <1>4. CASE ComposeReturns(c)
    <2>1. /\ pc[c] = "compose"
          /\ UNCHANGED <<recordVars, gate, acted, branch, worldVars, late, dryRun, slug, faults>>
      BY <1>4 DEF ComposeReturns
    <2>2. CASE dryRun /\ Goto(c, "returned") /\ UNCHANGED status
      BY <1>0, <2>1, <2>2, QuietMove DEF PC, Awaits, Commands, InStretch
    <2>3. CASE ~dryRun /\ Goto(c, "branch") /\ UNCHANGED status
      BY <1>0, <2>1, <2>3, QuietMove DEF PC, Awaits, Commands, InStretch
    <2>4. CASE Goto(c, "raised") /\ MarkFailed
      <3>1. status \in {"APPROVED", "PR_OPENED", "FAILED"}
        BY <1>0, <2>1 DEF IInv, GateInv
      <3>2. IF status = "APPROVED" THEN status' = "FAILED" ELSE status' = status
        BY <2>4, <3>1, LegalMoves DEF MarkFailed, Transition
      <3>3. acted \in [Calls -> BOOLEAN] /\ ~acted[c] /\ faults \in 0..MaxFaults
        BY <2>1 DEF IInv, TypeOK, CallsInv, Commands
      <3> QED
        BY <2>1, <2>4, <3>2, <3>3, LeaveKeeps
           DEF Awaits, recordVars, worldVars, cloneVars, remoteVars
    <2> QED
      BY <1>4, <2>2, <2>3, <2>4 DEF ComposeReturns
  <1>5. CASE PreparationFails(c)
    <2>1. /\ Goto(c, "raised") /\ pc[c] \in {"review", "compose"}
          /\ UNCHANGED <<status, recordVars, gate, acted, branch, worldVars, late, dryRun, slug, faults>>
      BY <1>5 DEF PreparationFails
    <2> QED
      BY <1>0, <2>1, QuietMove DEF PC, Awaits, Commands, InStretch
  <1> QED
    BY <1>1, <1>2, <1>3, <1>4, <1>5

\* What a command that acts finds and leaves: only the call past its commit reaches the
\* remote, and the commit finds nobody past it.
LEMMA EffectTyped ==
  ASSUME IInv, NEW c \in Calls, pc[c] \in Commands, Effect(c)
  PROVE  /\ local' \in SUBSET (Names \cup {Default}) /\ head' \in local'
         /\ carrying' \in SUBSET local'
         /\ tree' \in {"dirty", "staged", "committed"}
         /\ pushed' \in SUBSET Names /\ prs' \in SUBSET pushed'
  <1>1. branch[c] \in Names
    BY DEF IInv, CallsInv
  <1>2. /\ local \in SUBSET (Names \cup {Default}) /\ head \in local /\ carrying \in SUBSET local
        /\ tree \in {"dirty", "staged", "committed"}
        /\ pushed \in SUBSET Names /\ prs \in SUBSET pushed
    BY DEF IInv, TypeOK
  <1>3. CASE Switches(branch[c])
    BY <1>1, <1>2, <1>3 DEF Switches, remoteVars
  <1>4. CASE Stages
    BY <1>2, <1>4 DEF Stages, remoteVars
  <1>5. CASE Commits
    BY <1>2, <1>5 DEF Commits, remoteVars
  <1>6. CASE Pushes(branch[c])
    BY <1>1, <1>2, <1>6 DEF Pushes, cloneVars
  <1>7. CASE OpensPr(branch[c])
    BY <1>1, <1>2, <1>7 DEF OpensPr, cloneVars
  <1> QED
    BY <1>3, <1>4, <1>5, <1>6, <1>7 DEF Effect

\* A command of a delivery takes effect: the working tree, the clone or the remote changes, the
\* records do not.
LEMMA ActsKeeps ==
  ASSUME IInv, NEW c \in Calls, CommandActs(c)
  PROVE  IInv'
  <1>1. /\ pc[c] \in Commands /\ ~acted[c] /\ Effect(c)
        /\ acted' = [acted EXCEPT ![c] = TRUE]
        /\ UNCHANGED <<status, approval, consumed, row, gate, pc, branch, foreign, late, dryRun, slug, faults>>
    BY DEF CommandActs, recordVars
  <1>2. acted' \in [Calls -> BOOLEAN] /\ acted'[c] /\ \A d \in Calls \ {c} : acted'[d] = acted[d]
    BY <1>1 DEF IInv, TypeOK
  <1>3. TypeOK'
    BY <1>1, <1>2, EffectTyped DEF IInv, TypeOK
  <1>4. GateInv'
    BY <1>1 DEF IInv, GateInv
  <1>5. CallsInv'
    BY <1>1, <1>2 DEF IInv, CallsInv
  <1>6. CleanInv'
    <2>1. approval = "APPROVED" /\ Marking(c)'
      BY <1>1 DEF IInv, CallsInv, Commands, Marking
    <2> QED
      BY <1>1, <2>1 DEF CleanInv
  <1>7. \A d \in Calls \ {c} : Past(d)' = Past(d)
    BY <1>1, <1>2 DEF Past
  <1>8. OneGetsPast' /\ RowInv'
    <2>1. CASE pc[c] \in {"branch", "stage"}
      <3>1. ~Past(c) /\ ~Past(c)'
        BY <1>1, <2>1 DEF Past, InStretch
      <3>2. UNCHANGED <<pushed, prs>> /\ (tree = "committed" => tree' = "committed")
        BY <1>1, <2>1 DEF Effect, Switches, Stages, remoteVars
      <3>3. OneGetsPast'
        BY <1>1, <1>7, <3>1, <3>2 DEF IInv, OneGetsPast
      <3>4. RowInv'
        BY <1>1, <1>2, <1>7, <2>1, <3>1, <3>2 DEF IInv, RowInv, InStretch
      <3> QED
        BY <3>3, <3>4
    <2>2. CASE pc[c] = "commit"
      <3>1. tree = "staged" /\ tree' = "committed" /\ UNCHANGED <<pushed, prs>>
        BY <1>1, <2>2 DEF Effect, Commits, remoteVars
      <3>2. pushed = {} /\ prs = {} /\ \A d \in Calls : ~Past(d)
        BY <3>1 DEF IInv, TypeOK, OneGetsPast
      <3>3. ~row /\ ~consumed /\ status # "PR_OPENED"
        BY <3>2 DEF IInv, RowInv
      <3>4. OneGetsPast'
        BY <1>1, <1>7, <3>1, <3>2 DEF OneGetsPast
      <3>5. RowInv'
        BY <1>1, <1>2, <1>7, <2>2, <3>1, <3>2, <3>3 DEF IInv, RowInv, InStretch
      <3> QED
        BY <3>4, <3>5
    <2>3. CASE pc[c] = "push"
      <3>1. Past(c) /\ Past(c)' /\ UNCHANGED <<tree, prs>> /\ pushed' = pushed \cup {branch[c]}
        BY <1>1, <2>3 DEF Past, InStretch, Effect, Pushes, cloneVars
      <3>2. pushed' = {branch[c]} /\ tree = "committed" /\ \A d \in Calls \ {c} : ~Past(d)
        BY <3>1 DEF IInv, OneGetsPast
      <3>3. OneGetsPast'
        BY <1>1, <1>7, <3>1, <3>2 DEF IInv, OneGetsPast
      <3>4. RowInv'
        BY <1>1, <1>2, <1>7, <2>3, <3>1, <3>2 DEF IInv, RowInv, InStretch
      <3> QED
        BY <3>3, <3>4
    <2>4. CASE pc[c] = "pr"
      <3>1. Past(c) /\ Past(c)' /\ UNCHANGED <<tree, pushed>> /\ prs' = prs \cup {branch[c]}
        BY <1>1, <2>4 DEF Past, InStretch, Effect, OpensPr, cloneVars
      <3>2. OneGetsPast'
        BY <1>1, <1>7, <3>1 DEF IInv, OneGetsPast
      <3>3. RowInv'
        BY <1>1, <1>2, <1>7, <2>4, <3>1 DEF IInv, RowInv, InStretch
      <3> QED
        BY <3>2, <3>3
    <2> QED
      BY <1>1, <2>1, <2>2, <2>3, <2>4 DEF Commands
  <1> QED
    BY <1>3, <1>4, <1>5, <1>6, <1>8 DEF IInv

\* A command returned: the delivery goes on to the next one, with the records untouched.
LEMMA ReturnsKeeps ==
  ASSUME IInv, NEW c \in Calls, CommandReturns(c)
  PROVE  IInv'
  <1>1. /\ Turn(c) /\ acted[c] /\ pc[c] \in Commands
        /\ UNCHANGED <<status, approval, consumed, row, gate, branch, late, dryRun, slug, faults>>
        /\ UNCHANGED <<local, head, carrying, tree, foreign, pushed, prs>>
    BY DEF CommandReturns, recordVars, worldVars, cloneVars, remoteVars, IInv, CallsInv
  <1>2. /\ pc \in [Calls -> PC] /\ pc' \in [Calls -> PC]
        /\ pc'[c] = AfterCommand[pc[c]]
        /\ \A d \in Calls \ {c} : pc'[d] = pc[d]
        /\ acted \in [Calls -> BOOLEAN] /\ acted' \in [Calls -> BOOLEAN]
        /\ ~acted'[c]
        /\ \A d \in Calls \ {c} : acted'[d] = acted[d]
    <2>1. AfterCommand[pc[c]] \in PC
      BY <1>1 DEF AfterCommand, Commands, PC, Awaits, InStretch
    <2> QED
      BY <2>1 DEF CommandReturns, Goto, IInv, TypeOK
  <1>3. \/ pc[c] = "branch" /\ pc'[c] = "stage"
        \/ pc[c] = "stage" /\ pc'[c] = "commit"
        \/ pc[c] = "commit" /\ pc'[c] = "push"
        \/ pc[c] = "push" /\ pc'[c] = "pr"
        \/ pc[c] = "pr" /\ pc'[c] = "row"
    BY <1>1, <1>2 DEF AfterCommand, Commands
  <1>4. Past(c)' = Past(c) /\ \A d \in Calls \ {c} : Past(d)' = Past(d)
    BY <1>1, <1>2, <1>3 DEF Past, InStretch
  <1>5. TypeOK'
    BY <1>1, <1>2 DEF IInv, TypeOK
  <1>6. GateInv'
    BY <1>1 DEF IInv, GateInv
  <1>7. CallsInv'
    BY <1>1, <1>2, <1>3 DEF IInv, CallsInv, Commands, InStretch
  <1>8. OneGetsPast'
    BY <1>1, <1>4 DEF IInv, OneGetsPast
  <1>9. RowInv'
    BY <1>1, <1>2, <1>3, <1>4 DEF IInv, RowInv, InStretch
  <1>10. CleanInv'
    <2>1. approval = "APPROVED" /\ Marking(c)'
      BY <1>1, <1>3 DEF IInv, CallsInv, Commands, Marking
    <2> QED
      BY <1>1, <2>1 DEF CleanInv
  <1> QED
    BY <1>5, <1>6, <1>7, <1>8, <1>9, <1>10 DEF IInv

\* A command failed: the delivery leaves, and marks the session FAILED where the status map lets
\* it.
LEMMA FailsKeeps ==
  ASSUME IInv, NEW c \in Calls, CommandFails(c)
  PROVE  IInv'
  <1>1. /\ pc[c] \in Commands /\ Goto(c, "raised") /\ acted' = [acted EXCEPT ![c] = FALSE]
        /\ UNCHANGED <<approval, consumed, row, gate, branch, late, dryRun, slug, faults>>
        /\ UNCHANGED <<local, head, carrying, tree, foreign, pushed, prs>>
    BY DEF CommandFails, recordVars, worldVars, cloneVars, remoteVars
  <1>2. status \in {"APPROVED", "PR_OPENED", "FAILED"}
    BY <1>1 DEF IInv, CallsInv, GateInv, Commands
  <1>3. IF status = "APPROVED" THEN status' = "FAILED" ELSE status' = status
    BY <1>2, LegalMoves DEF CommandFails, MarkFailed, Transition
  <1>4. /\ acted' \in [Calls -> BOOLEAN] /\ ~acted'[c]
        /\ \A d \in Calls \ {c} : acted'[d] = acted[d]
        /\ faults' \in 0..MaxFaults
    BY <1>1 DEF IInv, TypeOK
  <1> QED
    BY <1>1, <1>3, <1>4, LeaveKeeps DEF Awaits

\* A delivery leaves on an error nobody handles.
LEMMA RaisesKeeps ==
  ASSUME IInv, NEW c \in Calls, CallRaises(c)
  PROVE  IInv'
  <1>1. /\ pc[c] \in Awaits /\ Goto(c, "raised") /\ acted' = [acted EXCEPT ![c] = FALSE]
        /\ UNCHANGED <<status, approval, consumed, row, gate, branch, late, dryRun, slug>>
        /\ UNCHANGED <<local, head, carrying, tree, foreign, pushed, prs>>
    BY DEF CallRaises, recordVars, worldVars, cloneVars, remoteVars
  <1>2. /\ acted' \in [Calls -> BOOLEAN] /\ ~acted'[c]
        /\ \A d \in Calls \ {c} : acted'[d] = acted[d]
    BY <1>1 DEF IInv, TypeOK
  <1>3. faults' \in 0..MaxFaults /\ faults' # 0
    BY ConstantsAssumption DEF CallRaises, IInv, TypeOK
  <1> QED
    BY <1>1, <1>2, <1>3, LeaveKeeps

\* A commit in the middle of a stretch fails: what was committed before it stays, what was to
\* follow does not happen.
LEMMA StretchFailsKeeps ==
  ASSUME IInv, StretchFails
  PROVE  IInv'
  <1>1. /\ UNCHANGED <<status, approval, consumed, row, acted, branch, late, dryRun, slug>>
        /\ UNCHANGED <<local, head, carrying, tree, foreign, pushed, prs>>
    BY DEF StretchFails, recordVars, worldVars, cloneVars, remoteVars
  <1>2. faults' \in 0..MaxFaults /\ faults' # 0
    BY ConstantsAssumption DEF StretchFails, IInv, TypeOK
  <1>3. ASSUME gate' = "none", UNCHANGED pc
        PROVE  IInv'
    <2>1. TypeOK' /\ GateInv'
      BY <1>1, <1>2, <1>3 DEF IInv, TypeOK, GateInv, Verdicts
    <2>2. CallsInv' /\ OneGetsPast' /\ RowInv'
      BY <1>1, <1>3 DEF IInv, CallsInv, OneGetsPast, RowInv, Past
    <2>3. CleanInv'
      BY <1>1, <1>2 DEF IInv, CleanInv, Clean
    <2> QED
      BY <2>1, <2>2, <2>3 DEF IInv
  <1>4. ASSUME NEW c \in Calls, pc[c] \in InStretch, Goto(c, "raised"), UNCHANGED gate
        PROVE  IInv'
    <2>1. acted \in [Calls -> BOOLEAN] /\ ~acted[c]
      BY <1>4 DEF IInv, TypeOK, CallsInv, InStretch, Commands
    <2> QED
      BY <1>1, <1>2, <1>4, <2>1, LeaveKeeps
  <1> QED
    BY <1>3, <1>4 DEF StretchFails

\* A crash loses every call that was under way.
LEMMA CrashKeeps ==
  ASSUME IInv, Crash
  PROVE  IInv'
  <1>1. /\ UNCHANGED <<status, approval, consumed, row, branch, slug>>
        /\ UNCHANGED <<local, head, carrying, tree, foreign, pushed, prs>>
        /\ gate' = "none" /\ late' = FALSE /\ dryRun' \in BOOLEAN
    BY DEF Crash, recordVars, worldVars, cloneVars, remoteVars
  <1>2. faults' \in 0..MaxFaults /\ faults' # 0
    BY ConstantsAssumption DEF Crash, IInv, TypeOK
  <1>3. \A c \in Calls :
          /\ pc'[c] = pc[c] \/ (pc'[c] = "lost" /\ pc[c] # "idle")
          /\ pc'[c] \in PC \ (Awaits \cup InStretch)
          /\ ~acted'[c]
    BY DEF Crash, IInv, TypeOK, PC, Awaits, Commands, InStretch
  <1>4. pc' \in [Calls -> PC] /\ acted' \in [Calls -> BOOLEAN]
    BY <1>3 DEF Crash
  <1>5. \A c \in Calls : ~Past(c)' /\ pc'[c] \notin {"compose"} \cup Commands \cup InStretch
    BY <1>3 DEF Past, Awaits, Commands, InStretch
  <1>6. \A c \in Calls : pc'[c] # "idle" => pc[c] # "idle"
    BY <1>3
  <1>7. TypeOK'
    BY <1>1, <1>2, <1>4 DEF IInv, TypeOK
  <1>8. GateInv'
    BY <1>1 DEF IInv, GateInv, Verdicts
  <1>9. CallsInv'
    BY <1>1, <1>3, <1>5, <1>6 DEF IInv, CallsInv
  <1>10. OneGetsPast'
    BY <1>1, <1>5 DEF IInv, OneGetsPast
  <1>11. RowInv'
    BY <1>1, <1>3, <1>5 DEF IInv, RowInv, Commands, InStretch
  <1>12. CleanInv'
    BY <1>1, <1>2 DEF IInv, CleanInv, Clean
  <1> QED
    BY <1>7, <1>8, <1>9, <1>10, <1>11, <1>12 DEF IInv

\* The last stretch: the row, the status and the token.
LEMMA StretchKeeps ==
  ASSUME IInv, NEW c \in Calls, RecordPr(c) \/ MarkOpened(c) \/ Consume(c)
  PROVE  IInv'
  <1>1. /\ Turn(c) /\ pc[c] \in InStretch /\ ~acted[c] /\ approval = "APPROVED" /\ ~consumed
        /\ Past(c) /\ prs # {} /\ status \in {"APPROVED", "PR_OPENED", "FAILED"}
        /\ gate = "none"
    BY DEF RecordPr, MarkOpened, Consume, Turn, IInv, CallsInv, GateInv, RowInv, Past, InStretch, Commands
  <1>2. /\ UNCHANGED <<approval, gate, acted, branch, late, dryRun, slug, faults>>
        /\ UNCHANGED <<local, head, carrying, tree, foreign, pushed, prs>>
    BY DEF RecordPr, MarkOpened, Consume, recordVars, worldVars, cloneVars, remoteVars
  <1>3. \A d \in Calls \ {c} : ~Past(d)
    BY <1>1 DEF IInv, OneGetsPast
  <1>4. CASE RecordPr(c)
    <2>1. /\ pc[c] = "row" /\ row' = TRUE /\ Goto(c, "opened") /\ UNCHANGED <<status, consumed>>
      BY <1>4 DEF RecordPr
    <2>2. /\ pc' \in [Calls -> PC] /\ pc'[c] = "opened" /\ \A d \in Calls \ {c} : pc'[d] = pc[d]
      BY <2>1 DEF Goto, IInv, TypeOK, PC, InStretch
    <2>3. Past(c)' /\ \A d \in Calls \ {c} : ~Past(d)'
      BY <1>2, <1>3, <2>2 DEF Past, InStretch
    <2>4. TypeOK' /\ GateInv'
      BY <1>2, <2>1, <2>2 DEF IInv, TypeOK, GateInv
    <2>5. CallsInv'
      BY <1>1, <1>2, <2>2 DEF IInv, CallsInv, InStretch
    <2>6. OneGetsPast'
      BY <1>1, <1>2, <2>3 DEF IInv, OneGetsPast
    <2>7. RowInv'
      BY <1>1, <1>2, <2>1, <2>2, <2>3 DEF IInv, RowInv, InStretch
    <2>8. CleanInv'
      BY <1>1, <1>2, <2>2 DEF CleanInv, Marking
    <2> QED
      BY <2>4, <2>5, <2>6, <2>7, <2>8 DEF IInv
  <1>5. CASE MarkOpened(c) /\ status = "APPROVED"
    <2>1. /\ pc[c] = "opened" /\ status' = "PR_OPENED" /\ Goto(c, "consume") /\ UNCHANGED <<row, consumed>>
      BY <1>5, LegalMoves DEF MarkOpened, Transition, recordVars
    <2>2. /\ pc' \in [Calls -> PC] /\ pc'[c] = "consume" /\ \A d \in Calls \ {c} : pc'[d] = pc[d]
      BY <2>1 DEF Goto, IInv, TypeOK, PC, InStretch
    <2>3. Past(c)' /\ \A d \in Calls \ {c} : ~Past(d)'
      BY <1>2, <1>3, <2>2 DEF Past, InStretch
    <2>4. TypeOK' /\ GateInv'
      BY <1>1, <1>2, <2>1, <2>2 DEF IInv, TypeOK, GateInv, Verdicts, Status, Terminal
    <2>5. CallsInv'
      BY <1>1, <1>2, <2>2 DEF IInv, CallsInv, InStretch
    <2>6. OneGetsPast'
      BY <1>1, <1>2, <2>3 DEF IInv, OneGetsPast
    <2>7. RowInv'
      BY <1>1, <1>2, <2>1, <2>2, <2>3 DEF IInv, RowInv, InStretch
    <2>8. CleanInv'
      BY <1>1, <1>2, <2>1 DEF CleanInv
    <2> QED
      BY <2>4, <2>5, <2>6, <2>7, <2>8 DEF IInv
  <1>6. CASE MarkOpened(c) /\ status # "APPROVED"
    <2>1. Goto(c, "raised") /\ UNCHANGED <<status, row, consumed>>
      BY <1>6, LegalMoves DEF MarkOpened, Transition, recordVars
    <2>2. acted \in [Calls -> BOOLEAN] /\ faults \in 0..MaxFaults
      BY DEF IInv, TypeOK
    <2> QED
      BY <1>1, <1>2, <1>6, <2>1, <2>2, LeaveKeeps
  <1>7. CASE Consume(c)
    <2>1. /\ pc[c] = "consume" /\ consumed' = TRUE /\ Goto(c, "returned") /\ UNCHANGED <<status, row>>
      BY <1>7 DEF Consume
    <2>2. /\ pc' \in [Calls -> PC] /\ pc'[c] = "returned" /\ \A d \in Calls \ {c} : pc'[d] = pc[d]
      BY <2>1 DEF Goto, IInv, TypeOK, PC
    <2>3. ~Past(c)' /\ \A d \in Calls \ {c} : ~Past(d)'
      BY <1>2, <1>3, <2>2 DEF Past, InStretch
    <2>4. status = "PR_OPENED"
      BY <2>1 DEF IInv, RowInv
    <2>5. TypeOK' /\ GateInv'
      BY <1>2, <2>1, <2>2 DEF IInv, TypeOK, GateInv
    <2>6. CallsInv'
      BY <1>1, <1>2, <2>2 DEF IInv, CallsInv, Commands, InStretch
    <2>7. OneGetsPast'
      BY <1>2, <2>3 DEF IInv, OneGetsPast
    <2>8. RowInv'
      BY <1>1, <1>2, <2>1, <2>2, <2>3, <2>4 DEF IInv, RowInv, InStretch
    <2>9. CleanInv'
      BY <1>1, <1>2, <2>1, <2>4 DEF CleanInv
    <2> QED
      BY <2>5, <2>6, <2>7, <2>8, <2>9 DEF IInv
  <1> QED
    BY <1>4, <1>5, <1>6, <1>7

\* Somebody else pushes a branch.
LEMMA OthersKeep ==
  ASSUME IInv, OthersPush
  PROVE  IInv'
  <1>1. /\ UNCHANGED <<status, approval, consumed, row, gate, pc, acted, branch, late, dryRun, slug, faults>>
        /\ UNCHANGED <<local, head, carrying, tree, pushed, prs>>
        /\ foreign' \in SUBSET Names
    BY DEF OthersPush, recordVars, cloneVars, remoteVars, IInv, TypeOK
  <1>2. TypeOK' /\ GateInv' /\ CallsInv'
    BY <1>1 DEF IInv, TypeOK, GateInv, CallsInv
  <1>3. OneGetsPast' /\ RowInv' /\ CleanInv'
    BY <1>1 DEF IInv, OneGetsPast, RowInv, CleanInv, Clean, Marking, Past
  <1> QED
    BY <1>2, <1>3 DEF IInv

\* IInv holds in every state of every behaviour.
LEMMA NextKeepsIInv == IInv /\ [Next]_vars => IInv'
  <1> SUFFICES ASSUME IInv, [Next]_vars
               PROVE  IInv'
    OBVIOUS
  <1>1. CASE Work \/ Request \/ Cancel \/ LateFailure \/ GateCommits \/ \E verdict \in Verdicts : Decide(verdict)
    BY <1>1, GateKeeps
  <1>2. ASSUME NEW c \in Calls, Deliver(c)
        PROVE  IInv'
    <2>1. CASE Open(c) \/ ReviewReturns(c) \/ ListReturns(c) \/ ComposeReturns(c) \/ PreparationFails(c)
      BY <2>1, PreparationKeeps
    <2>2. CASE CommandActs(c)
      BY <2>2, ActsKeeps
    <2>3. CASE CommandReturns(c)
      BY <2>3, ReturnsKeeps
    <2>4. CASE CommandFails(c)
      BY <2>4, FailsKeeps
    <2>5. CASE RecordPr(c) \/ MarkOpened(c) \/ Consume(c)
      BY <2>5, StretchKeeps
    <2> QED
      BY <1>2, <2>1, <2>2, <2>3, <2>4, <2>5 DEF Deliver
  <1>3. ASSUME NEW c \in Calls, CallRaises(c)
        PROVE  IInv'
    BY <1>3, RaisesKeeps
  <1>4. CASE OthersPush \/ StretchFails \/ Crash
    BY <1>4, OthersKeep, StretchFailsKeeps, CrashKeeps
  <1>5. CASE UNCHANGED vars
    <2>1. TypeOK' /\ GateInv' /\ CallsInv'
      BY <1>5 DEF vars, recordVars, worldVars, cloneVars, remoteVars, IInv, TypeOK, GateInv, CallsInv
    <2>2. OneGetsPast' /\ RowInv' /\ CleanInv'
      BY <1>5 DEF vars, recordVars, worldVars, cloneVars, remoteVars,
                  IInv, OneGetsPast, RowInv, CleanInv, Clean, Marking, Past
    <2> QED
      BY <2>1, <2>2 DEF IInv
  <1> QED
    BY <1>1, <1>2, <1>3, <1>4, <1>5 DEF Next

\* The inductive invariant holds throughout.
LEMMA Inductive == Spec => []IInv
  BY InitIInv, NextKeepsIInv, PTL DEF Spec

-----------------------------------------------------------------------------
\* The session's status, its approval and its pull request never contradict each other,
\* wherever a crash or a failed commit cuts a stretch (ApprovalService, PRService).
THEOREM RecordsConsistent == Spec => []RecordsAgree
  <1>1. IInv => RecordsAgree
    BY DEF IInv, GateInv, RowInv, RecordsAgree, VerdictMatchesStatus, SpentMeansDelivered, Verdicts
  <1> QED
    BY Inductive, <1>1, PTL

\* A set without two different members has at most one.
LEMMA AtMostOne ==
  ASSUME NEW S, \A m, n \in S : m = n
  PROVE  Cardinality(S) <= 1
  <1>1. CASE S = {}
    BY <1>1, FS_EmptySet
  <1>2. ASSUME NEW x \in S
        PROVE  Cardinality(S) <= 1
    <2>1. S = {x}
      BY <1>2
    <2> QED
      BY <2>1, FS_Singleton
  <1> QED
    BY <1>1, <1>2

\* One approval brings at most one branch and one pull request to the remote, however many
\* calls it authorised (RemoteOperationGuard.authorize(), open_draft_pr()).
THEOREM SingleUse == Spec => []AtMostOnePullRequest
  <1>1. IInv => AtMostOnePullRequest
    <2> SUFFICES ASSUME IInv
                 PROVE  AtMostOnePullRequest
      OBVIOUS
    <2>1. (\A m, n \in pushed : m = n) /\ prs \subseteq pushed
      BY DEF IInv, OneGetsPast, TypeOK
    <2> QED
      BY <2>1, AtMostOne DEF AtMostOnePullRequest
  <1> QED
    BY Inductive, <1>1, PTL

\* Without a fault, a delivery that leaves the session APPROVED has left the clone and the
\* remote as it found them (_mark_failed()).
THEOREM RetryIsClean == Spec => []RetryableIsClean
  <1>1. IInv => RetryableIsClean
    BY DEF IInv, CleanInv, Clean, Marking, Commands, RetryableIsClean, Resting
  <1> QED
    BY Inductive, <1>1, PTL

\* The remote changes only by a command that acts.
LEMMA RemoteByCommand ==
  ASSUME [Next]_vars, remoteVars' # remoteVars
  PROVE  \E c \in Calls : CommandActs(c) /\ pc[c] \in {"push", "pr"}
  <1>1. PICK c \in Calls : CommandActs(c)
    BY DEF Next, Work, Request, Cancel, LateFailure, GateCommits, Decide, Deliver, Open, ReviewReturns,
           ListReturns, ComposeReturns, PreparationFails, CommandReturns, CommandFails,
           RecordPr, MarkOpened, Consume, CallRaises, OthersPush, StretchFails, Crash,
           worldVars, vars
  <1>2. pc[c] \in {"push", "pr"}
    BY <1>1 DEF CommandActs, Effect, Switches, Stages, Commits
  <1> QED
    BY <1>1, <1>2

\* Whenever the remote changes the record says APPROVED and the token is unspent, many
\* awaits after the guard looked (authorize()).
THEOREM RemoteIsAuthorized == Spec => RemoteNeedsLiveApproval
  <1>1. IInv /\ [Next]_vars =>
          [remoteVars' # remoteVars => approval = "APPROVED" /\ ~consumed]_vars
    <2> SUFFICES ASSUME IInv, [Next]_vars, remoteVars' # remoteVars
                 PROVE  approval = "APPROVED" /\ ~consumed
      OBVIOUS
    <2>1. PICK c \in Calls : pc[c] \in {"push", "pr"}
      BY RemoteByCommand
    <2> QED
      BY <2>1 DEF IInv, CallsInv, RowInv, Past
  <1> QED
    BY Inductive, <1>1, PTL DEF Spec, RemoteNeedsLiveApproval

\* A dry run of an approved session changes neither the clone, nor the remote, nor a record;
\* it moves the status only to FAILED, and only for a URL _repo_slug() refuses
\* (open_draft_pr(), create_draft_pr()).
THEOREM DryRunIsDry == Spec => DryRunDeliversNothing
  <1> DEFINE Dry == /\ UNCHANGED <<cloneVars, remoteVars, consumed, row>>
                    /\ status' # status => status' = "FAILED" /\ ~slug
  <1>1. IInv /\ [Next]_vars => [dryRun /\ status = "APPROVED" => Dry]_vars
    <2> SUFFICES ASSUME IInv, Next, dryRun, status = "APPROVED"
                 PROVE  Dry
      OBVIOUS
    <2>1. \A c \in Calls : pc[c] \notin Commands \cup InStretch /\ ~acted[c]
      BY DEF IInv, CallsInv
    <2>2. \A c \in Calls : /\ ~CommandActs(c) /\ ~CommandReturns(c) /\ ~CommandFails(c)
                           /\ ~RecordPr(c) /\ ~MarkOpened(c) /\ ~Consume(c)
      BY <2>1 DEF CommandActs, CommandReturns, CommandFails, RecordPr, MarkOpened, Consume, InStretch
    <2>3. /\ ~Work /\ ~Request /\ ~Cancel /\ ~LateFailure
          /\ \A verdict \in Verdicts : ~Decide(verdict)
      BY LegalMoves DEF Work, Request, Cancel, LateFailure, Decide, Transition, Autonomous, Absent,
                        Verdicts, IInv, GateInv
    <2>4. CASE GateCommits \/ OthersPush \/ StretchFails \/ Crash
      BY <2>4 DEF GateCommits, OthersPush, StretchFails, Crash, recordVars, worldVars
    <2>5. ASSUME NEW c \in Calls, CallRaises(c)
          PROVE  Dry
      BY <2>5 DEF CallRaises, recordVars, worldVars
    <2>6. ASSUME NEW c \in Calls, ComposeReturns(c)
          PROVE  Dry
      BY <2>6 DEF ComposeReturns, MarkFailed, Transition, recordVars, worldVars
    <2>7. ASSUME NEW c \in Calls, Deliver(c), ~ComposeReturns(c)
          PROVE  Dry
      BY <2>2, <2>7 DEF Deliver, Open, ReviewReturns, ListReturns,
                        PreparationFails, recordVars, worldVars
    <2> QED
      BY <2>3, <2>4, <2>5, <2>6, <2>7 DEF Next
  <1> QED
    BY Inductive, <1>1, PTL DEF Spec, DryRunDeliversNothing

-----------------------------------------------------------------------------
\* SessionContract's life-cycle map is this module's.
LEMMA SameMap ==
  /\ Contract!Absent = Absent
  /\ Contract!Status = Status
  /\ \A from, to : Contract!CanTransition(from, to) <=> CanTransition(from, to)
  BY DEF Contract!Absent, Absent, Contract!Status, Status, Contract!Terminal, Terminal,
         Contract!CanTransition, CanTransition, Contract!LegalTransitions, LegalTransitions

\* The seven things a step can do to what the contract sees.
Creates == /\ status = Absent /\ status' = "CREATED"
           /\ UNCHANGED <<approval, prs, late>>
Advances == /\ CanTransition(status, status') /\ (status' = "PR_OPENED" => prs # {})
            /\ UNCHANGED <<approval, prs>>
            /\ \/ UNCHANGED late
               \/ status = "INGESTING" /\ status' = "HALTED" /\ late' = TRUE
FailsLate == /\ late /\ status = "HALTED" /\ status' = "FAILED" /\ late' = FALSE
             /\ UNCHANGED <<approval, prs>>
Settles == late' = FALSE /\ UNCHANGED <<status, approval, prs>>
Signs == /\ status = "APPROVED" /\ approval # "APPROVED" /\ approval' = "APPROVED"
         /\ UNCHANGED <<status, prs, late>>
Delivers == /\ approval = "APPROVED" /\ prs = {} /\ prs' # {}
            /\ UNCHANGED <<status, approval, late>>
Stutters == /\ (approval' = "APPROVED") <=> (approval = "APPROVED")
            /\ prs' = {} <=> prs = {}
            /\ UNCHANGED <<status, late>>

\* A step before or at the approval gate is a creation, an advance, a late failure or a
\* signature of the contract, or none.
LEMMA GateMoves ==
  ASSUME IInv, Work \/ Request \/ Cancel \/ LateFailure \/ GateCommits \/ \E verdict \in Verdicts : Decide(verdict)
  PROVE  Creates \/ Advances \/ FailsLate \/ Signs \/ Stutters
  <1>1. UNCHANGED prs
    BY DEF Work, Request, Cancel, LateFailure, GateCommits, Decide, worldVars, remoteVars
  <1>2. CASE Work /\ status = Absent
    BY <1>1, <1>2 DEF Work, Creates, recordVars, Absent, Autonomous
  <1>3. CASE (Work /\ status # Absent) \/ Request \/ Cancel \/ \E verdict \in Verdicts : Decide(verdict)
    <2>1. CanTransition(status, status') /\ UNCHANGED approval
      BY <1>3 DEF Work, Request, Cancel, Decide, Transition, recordVars
    <2>2. status' = "PR_OPENED" => status = "APPROVED"
      BY <2>1, LegalMoves
    <2>3. status # "APPROVED"
      BY <1>3, LegalMoves DEF Work, Request, Cancel, Decide, Transition, Autonomous
    <2>4. \/ UNCHANGED late
          \/ status = "INGESTING" /\ status' = "HALTED" /\ late' = TRUE
      <3>1. CASE Cancel
        <4>1. status' = "HALTED" /\ late' = (status = "INGESTING") /\ CanTransition(status, "HALTED")
          BY <3>1 DEF Cancel, Transition
        <4>2. ~late
          BY <4>1, LegalMoves DEF IInv, GateInv, CanTransition, LegalTransitions
        <4> QED
          BY <4>1, <4>2 DEF IInv, TypeOK
      <3> QED
        BY <1>3, <3>1 DEF Work, Request, Decide
    <2> QED
      BY <1>1, <2>1, <2>2, <2>3, <2>4 DEF Advances
  <1>5. CASE LateFailure
    BY <1>1, <1>5 DEF LateFailure, FailsLate, recordVars, IInv, GateInv
  <1>4. CASE GateCommits
    <2>1. UNCHANGED <<status, late>> /\ approval' = (IF gate = "record" THEN "open" ELSE gate)
      BY <1>4 DEF GateCommits
    <2>2. approval # "APPROVED" /\ (approval' = "APPROVED" => status = "APPROVED")
      BY <1>4, <2>1 DEF GateCommits, IInv, TypeOK, GateInv, Verdicts
    <2> QED
      BY <1>1, <2>1, <2>2 DEF Signs, Stutters
  <1> QED
    BY <1>2, <1>3, <1>4, <1>5

\* A step of a delivery is an advance or the delivery of the contract, or none.
LEMMA DeliveryMoves ==
  ASSUME IInv, NEW c \in Calls, Deliver(c) \/ CallRaises(c)
  PROVE  Advances \/ Delivers \/ Stutters
  <1>1. UNCHANGED <<approval, late>>
    BY DEF Deliver, Open, ReviewReturns, ListReturns, ComposeReturns, PreparationFails, CommandActs,
           CommandReturns, CommandFails, RecordPr, MarkOpened, Consume, CallRaises, recordVars
  <1>2. CASE CommandActs(c)
    <2>1. UNCHANGED status /\ pc[c] \in Commands /\ Effect(c)
      BY <1>2 DEF CommandActs
    <2>2. approval = "APPROVED"
      BY <2>1 DEF IInv, CallsInv, Commands
    <2>3. prs' = prs \/ prs' = prs \cup {branch[c]}
      BY <2>1 DEF Effect, Switches, Stages, Commits, Pushes, OpensPr, remoteVars
    <2> QED
      BY <1>1, <2>1, <2>2, <2>3 DEF Delivers, Stutters
  <1>3. CASE CommandFails(c) \/ ComposeReturns(c)
    <2>1. /\ UNCHANGED prs
          /\ \/ CanTransition(status, status') /\ status' = "FAILED"
             \/ UNCHANGED status
      BY <1>3 DEF CommandFails, ComposeReturns, MarkFailed, Transition, worldVars, remoteVars
    <2> QED
      BY <1>1, <2>1 DEF Advances, Stutters
  <1>4. CASE MarkOpened(c)
    <2>1. UNCHANGED prs /\ (CanTransition(status, status') \/ UNCHANGED status) /\ pc[c] = "opened"
      BY <1>4 DEF MarkOpened, Transition, worldVars, remoteVars
    <2>2. prs # {}
      BY <2>1 DEF IInv, RowInv, InStretch
    <2> QED
      BY <1>1, <2>1, <2>2 DEF Advances, Stutters
  <1>5. CASE \/ Open(c) \/ ReviewReturns(c) \/ ListReturns(c) \/ PreparationFails(c)
             \/ CommandReturns(c) \/ RecordPr(c) \/ Consume(c) \/ CallRaises(c)
    <2>1. UNCHANGED <<status, prs>>
      BY <1>5 DEF Open, ReviewReturns, ListReturns, PreparationFails, CommandReturns, RecordPr,
                  Consume, CallRaises, worldVars, remoteVars
    <2> QED
      BY <1>1, <2>1 DEF Stutters
  <1> QED
    BY <1>2, <1>3, <1>4, <1>5 DEF Deliver

\* ApprovalDelivery does with a session only what SessionContract allows.
THEOREM Refinement == Spec => ImplementsContract
  <1>1. Init => Contract!Init
    BY SameMap DEF Init, Contract!Init
  <1>2. IInv /\ [Next]_vars => [Contract!Next]_(Contract!vars)
    <2> DEFINE contractStatus == [s \in {"session"} |-> status]
               cancelled == IF late THEN {"session"} ELSE {}
               signed == IF approval = "APPROVED" THEN {"session"} ELSE {}
               delivered == IF prs = {} THEN {} ELSE {"session"}
    <2> SUFFICES ASSUME IInv, [Next]_vars
                 PROVE  Contract!Next \/ UNCHANGED <<contractStatus, cancelled, signed, delivered>>
      BY DEF Contract!vars
    <2>1. Creates \/ Advances \/ FailsLate \/ Settles \/ Signs \/ Delivers \/ Stutters
      <3>1. CASE OthersPush \/ StretchFails \/ UNCHANGED vars
        <4>1. UNCHANGED <<status, approval, prs, late>>
          BY <3>1 DEF OthersPush, StretchFails, vars, recordVars, worldVars, remoteVars
        <4> QED
          BY <4>1 DEF Stutters
      <3>2. CASE Crash
        BY <3>2 DEF Crash, Settles, recordVars, worldVars, remoteVars
      <3> QED
        BY <3>1, <3>2, GateMoves, DeliveryMoves DEF Next
    <2>2. CASE Creates
      <3>1. Contract!Create("session")
        BY <2>2, SameMap DEF Creates, Contract!Create
      <3> QED
        BY <3>1 DEF Contract!Next
    <2>3. CASE Advances
      <3>1. Contract!Advance("session", status')
        BY <2>3, SameMap DEF Advances, Contract!Advance
      <3>2. status' \in Contract!Status
        BY <2>3, SameMap, LegalMoves DEF Advances
      <3> QED
        BY <3>1, <3>2 DEF Contract!Next
    <2>4. CASE Signs
      <3>1. Contract!Sign("session")
        BY <2>4 DEF Signs, Contract!Sign
      <3> QED
        BY <3>1 DEF Contract!Next
    <2>5. CASE Delivers
      <3>1. Contract!Deliver("session")
        BY <2>5 DEF Delivers, Contract!Deliver
      <3> QED
        BY <3>1 DEF Contract!Next
    <2>6. CASE Stutters
      BY <2>6 DEF Stutters
    <2>7. CASE FailsLate
      <3>1. Contract!FailLate("session")
        BY <2>7 DEF FailsLate, Contract!FailLate
      <3> QED
        BY <3>1 DEF Contract!Next
    <2>8. CASE Settles
      <3>1. Contract!Settle
        BY <2>8 DEF Settles, Contract!Settle
      <3> QED
        BY <3>1 DEF Contract!Next
    <2> QED
      BY <2>1, <2>2, <2>3, <2>4, <2>5, <2>6, <2>7, <2>8
  <1> QED
    BY <1>1, <1>2, Inductive, PTL DEF Spec, ImplementsContract, Contract!Spec
=============================================================================
