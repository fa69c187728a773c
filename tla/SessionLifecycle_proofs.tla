---------------------- MODULE SessionLifecycle_proofs ----------------------
(***************************************************************************)
(* Theorems about SessionLifecycle for every set of sessions, every retry  *)
(* budget, every number of slots and every number of faults.               *)
(*                                                                         *)
(* PhaseMatchesStatus is not inductive alone.  A released slot goes to the *)
(* head of the queue, so the queue must hold only sessions that wait, each *)
(* once; and a failed append throws its run out of the stretch it is in,   *)
(* so an event a run still has to append must be the event of a run that   *)
(* holds a slot.  IInv adds those two facts (QueueInv) and the types.      *)
(*                                                                         *)
(* Three invariants rest on IInv.  HeldInv says what a run at each await   *)
(* holds, a sandbox and a slot.  LedgerInv counts the retries of a run at  *)
(* each await, those in the log and the one still to append.  ReplayInv    *)
(* replays the moves of a log up to the one still to append.               *)
(***************************************************************************)
EXTENDS SessionLifecycleProps, FiniteSetTheorems, TLAPS

NotesOf(s, by) == [s : {s}, by : {by}, entry : Entries]

WaitersInv ==
  /\ \A i \in 1..Len(waiters) : pc[waiters[i]] = "waiting"
  /\ \A i, j \in 1..Len(waiters) : waiters[i] = waiters[j] => i = j

UnloggedInv ==
  \A i \in 1..Len(unlogged) :
    /\ unlogged[i].by = "run" => pc[unlogged[i].s] \in Holding
    /\ unlogged[i].by = "create" => pc[unlogged[i].s] = "posted"

QueueInv == WaitersInv /\ UnloggedInv

\* The retry loop is entered with an attempt left, the shortcut without a suite only there.
JobInv ==
  \A s \in Sessions :
    /\ pc[s] \in {"retry", "increment", "retrydiff", "retryedit", "retrycheck"}
         => attempt[s] < MaxFixAttempts
    /\ pc[s] = "nosuite" => ~hasSuite[s]

IInv == TypeOK /\ PhaseMatchesStatus /\ QueueInv /\ JobInv /\ VerifiedBeforeSummarizing

\* The part of IInv about status, pc and the two queues.
CoreInv ==
  /\ status \in [Sessions -> Status \cup {Absent}]
  /\ pc \in [Sessions -> PC]
  /\ unlogged \in Seq(Notes)
  /\ waiters \in Seq(Sessions)
  /\ PhaseMatchesStatus
  /\ QueueInv

\* The session s moves to control point p with status st.
Stepped(s, st, p) ==
  /\ status' = [status EXCEPT ![s] = st]
  /\ pc' = [pc EXCEPT ![s] = p]

-----------------------------------------------------------------------------
\* Every event the model writes is an entry of the log.
LEMMA NoteTyped ==
  ASSUME NEW s \in Sessions, NEW by \in Writers
  PROVE  /\ \A from, to \in Status : Note(s, by, Changed(from, to)) \in NotesOf(s, by)
         /\ \A kind \in {"SESSION_CREATED", "SESSION_FAILED", "FIX_ATTEMPT"} :
              Note(s, by, Plain(kind)) \in NotesOf(s, by)
  <1>1. ASSUME NEW entry \in Entries
        PROVE  Note(s, by, entry) \in NotesOf(s, by)
    BY DEF Note, NotesOf
  <1>2. \A from, to \in Status : Changed(from, to) \in Entries
    BY DEF Changed, Entries
  <1>3. \A kind \in {"SESSION_CREATED", "SESSION_FAILED", "FIX_ATTEMPT"} :
          Plain(kind) \in Entries
    BY DEF Plain, Entries
  <1> QED
    BY <1>1, <1>2, <1>3

\* The notes of one writer are notes.
LEMMA NotesOfAreNotes ==
  ASSUME NEW s \in Sessions, NEW by \in Writers, NEW q \in Seq(NotesOf(s, by))
  PROVE  /\ q \in Seq(Notes)
         /\ \A i \in 1..Len(q) : q[i].s = s /\ q[i].by = by
  <1>1. \A n \in NotesOf(s, by) : n \in Notes /\ n.s = s /\ n.by = by
    BY DEF NotesOf, Notes
  <1>2. \A i \in 1..Len(q) : q[i] \in NotesOf(s, by)
    OBVIOUS
  <1> QED
    BY <1>1, <1>2

\* A legal move leads to a status of the enum.
LEMMA LegalMovesStayInStatus ==
  ASSUME NEW from, NEW to, CanTransition(from, to)
  PROVE  from \in Status /\ to \in Status
  BY DEF CanTransition, LegalTransitions, Status, Terminal

\* Every status a run works in may end FAILED, and HALTED allows nothing more.
LEMMA WorkMayFail ==
  /\ \A st \in {"CREATED", "INGESTING", "PLANNING", "INVESTIGATING", "EDITING", "TESTING"} :
       CanTransition(st, "FAILED")
  /\ \A to : ~CanTransition("HALTED", to)
  BY DEF CanTransition, LegalTransitions, Status, Terminal

\* A transition moves the status of one session and leaves typed events to append, also
\* when the status it read is not the one in the database.
LEMMA TransitionTyped ==
  ASSUME NEW s \in Sessions, NEW seen, NEW to, NEW by \in Writers,
         NEW more \in Seq(NotesOf(s, by)), TransitionFrom(s, seen, to, by, more)
  PROVE  /\ to \in Status
         /\ status' = [status EXCEPT ![s] = to]
         /\ unlogged' \in Seq(NotesOf(s, by))
  <1>1. seen \in Status /\ to \in Status
    BY LegalMovesStayInStatus DEF TransitionFrom
  <1>2. Note(s, by, Changed(seen, to)) \in NotesOf(s, by)
    BY <1>1, NoteTyped
  <1> QED
    BY <1>1, <1>2 DEF TransitionFrom

\* _fail() of a run at work leaves the session at rest and the run on its way out, whether
\* it reads the status anew or has it from before the ingestion.
LEMMA FailEffect ==
  ASSUME IInv, NEW s \in Sessions, NEW seen \in {status[s], "INGESTING"}, Fail(s, seen),
         pc[s] \in {"starting", "failing", "nosuite", "exhaust", "retry"} \cup Awaits
  PROVE  /\ unlogged' \in Seq(NotesOf(s, "run"))
         /\ \E st \in Terminal, p \in {"cleanup", "return"} : Stepped(s, st, p)
  <1> DEFINE failed == Note(s, "run", Plain("SESSION_FAILED"))
  <1>1. failed \in NotesOf(s, "run")
    BY NoteTyped DEF Writers
  <1>2. PICK p \in {"cleanup", "return"} : pc' = [pc EXCEPT ![s] = p]
    BY DEF Fail, Goto, Finally
  <1>3. CASE TransitionFrom(s, seen, "FAILED", "run", <<failed>>)
    <2>1. <<failed>> \in Seq(NotesOf(s, "run"))
      BY <1>1
    <2>2. /\ status' = [status EXCEPT ![s] = "FAILED"]
          /\ unlogged' \in Seq(NotesOf(s, "run"))
      BY <1>3, <2>1, TransitionTyped DEF Writers
    <2> QED
      BY <1>2, <2>2 DEF Stepped, Terminal
  <1>4. CASE /\ ~CanTransition(seen, "FAILED")
             /\ unlogged' = <<failed>>
             /\ UNCHANGED status
    <2>1. status[s] = "HALTED"
      BY <1>4, WorkMayFail DEF IInv, PhaseMatchesStatus, Coherent, Awaits
    <2>2. status' = [status EXCEPT ![s] = "HALTED"]
      BY <1>4, <2>1 DEF IInv, TypeOK
    <2>3. Stepped(s, "HALTED", p) /\ "HALTED" \in Terminal
      BY <1>2, <2>2 DEF Stepped, Terminal
    <2> QED
      BY <1>1, <1>4, <2>3
  <1> QED
    BY <1>3, <1>4 DEF Fail

\* A transition of run() either goes through or ends the run as _fail() does.
LEMMA ProceedEffect ==
  ASSUME IInv, NEW s \in Sessions, NEW to, NEW next, Proceed(s, to, next),
         pc[s] \in {"starting", "failing", "nosuite", "exhaust", "retry"} \cup Awaits
  PROVE  /\ unlogged' \in Seq(NotesOf(s, "run"))
         /\ \/ CanTransition(status[s], to) /\ Stepped(s, to, next)
            \/ \E st \in Terminal, p \in {"cleanup", "return"} : Stepped(s, st, p)
  <1>1. CASE Transition(s, to, "run", <<>>) /\ Goto(s, next)
    <2>1. <<>> \in Seq(NotesOf(s, "run"))
      OBVIOUS
    <2>2. /\ status' = [status EXCEPT ![s] = to]
          /\ unlogged' \in Seq(NotesOf(s, "run"))
      BY <1>1, <2>1, TransitionTyped DEF Transition, Writers
    <2> QED
      BY <1>1, <2>2 DEF Transition, TransitionFrom, Goto, Stepped
  <1>2. CASE Fail(s, status[s])
    BY <1>2, FailEffect
  <1> QED
    BY <1>1, <1>2 DEF Proceed

\* A step of the run of s, which holds a slot, keeps CoreInv if it ends coherently.
LEMMA RunStep ==
  ASSUME IInv, NEW s \in Sessions, Turn(s), pc[s] \in Holding,
         NEW st \in Status, NEW p \in Holding, Coherent(p, st), Stepped(s, st, p),
         unlogged' \in Seq(NotesOf(s, "run")), UNCHANGED waiters
  PROVE  CoreInv'
  <1> USE DEF IInv, TypeOK
  <1>1. /\ status' \in [Sessions -> Status \cup {Absent}]
        /\ pc' \in [Sessions -> PC]
    BY DEF Stepped, PC
  <1>2. /\ unlogged' \in Seq(Notes)
        /\ \A i \in 1..Len(unlogged') : unlogged'[i].s = s /\ unlogged'[i].by = "run"
    BY NotesOfAreNotes DEF Writers
  <1>3. PhaseMatchesStatus'
    BY DEF PhaseMatchesStatus, Stepped
  <1>4. \A i \in 1..Len(waiters) : waiters[i] # s
    BY DEF QueueInv, WaitersInv, Holding, Awaits, InStretch
  <1>5. QueueInv'
    <2>1. \A i \in 1..Len(waiters) : waiters[i] \in Sessions
      OBVIOUS
    <2>2. pc'[s] = p /\ \A t \in Sessions \ {s} : pc'[t] = pc[t]
      BY DEF Stepped
    <2>3. WaitersInv'
      BY <1>4, <2>1, <2>2 DEF QueueInv, WaitersInv
    <2>4. UnloggedInv'
      BY <1>2, <2>2 DEF UnloggedInv
    <2> QED
      BY <2>3, <2>4 DEF QueueInv
  <1> QED
    BY <1>1, <1>2, <1>3, <1>5 DEF CoreInv

\* The same without events: unlogged stays empty.
LEMMA QuietStep ==
  ASSUME IInv, NEW s \in Sessions, Turn(s), pc[s] \in Holding,
         NEW p \in Holding, Coherent(p, status[s]), pc' = [pc EXCEPT ![s] = p],
         UNCHANGED <<status, unlogged, waiters>>
  PROVE  CoreInv'
  <1>1. status[s] \in Status
    BY DEF IInv, TypeOK, PhaseMatchesStatus, Coherent, Holding, Awaits, InStretch, Status, Terminal
  <1>2. Stepped(s, status[s], p)
    BY DEF Stepped, IInv, TypeOK
  <1>3. unlogged' \in Seq(NotesOf(s, "run"))
    BY DEF Turn
  <1> QED
    BY <1>1, <1>2, <1>3, RunStep

\* A transition of run() to a coherent end keeps CoreInv.
LEMMA ProceedStep ==
  ASSUME IInv, NEW s \in Sessions, Turn(s), UNCHANGED waiters,
         NEW to \in Status, NEW next \in Holding, Coherent(next, to), Proceed(s, to, next),
         pc[s] \in {"starting", "failing", "nosuite", "exhaust", "retry"} \cup Awaits
  PROVE  CoreInv'
  <1>1. pc[s] \in Holding
    BY DEF Holding, InStretch
  <1>2. CASE Stepped(s, to, next)
    BY <1>1, <1>2, ProceedEffect, RunStep
  <1>3. ASSUME NEW st \in Terminal, NEW p \in {"cleanup", "return"}, Stepped(s, st, p)
        PROVE  CoreInv'
    <2>1. Coherent(p, st) /\ p \in Holding /\ st \in Status
      BY DEF Coherent, Holding, InStretch, Status
    <2> QED
      BY <1>1, <1>3, <2>1, ProceedEffect, RunStep
  <1> QED
    BY <1>2, <1>3, ProceedEffect

-----------------------------------------------------------------------------
\* The rest of IInv: the types of the other variables, the loop's bookkeeping and the verdict.
RestTypes ==
  /\ log \in [Sessions -> Seq(Entries)]
  /\ fixAttempts \in [Sessions -> Nat]
  /\ attempt \in [Sessions -> 0..MaxFixAttempts]
  /\ targets \in [Sessions -> BOOLEAN]
  /\ hasSuite \in [Sessions -> BOOLEAN]
  /\ verified \in [Sessions -> BOOLEAN]
  /\ sandbox \in [Sessions -> BOOLEAN]
  /\ workbench \in [Sessions -> BOOLEAN]
  /\ slots \in Nat
  /\ faults \in 0..MaxFaults

\* What a stretch of s must see to for its own job; nobody else's changes.
JobStep(s, st, p) ==
  /\ \A t \in Sessions \ {s} :
       attempt'[t] = attempt[t] /\ hasSuite'[t] = hasSuite[t] /\ verified'[t] = verified[t]
  /\ p = "nosuite" => ~hasSuite'[s]
  /\ p \in {"retry", "increment", "retrydiff", "retryedit", "retrycheck"}
       => attempt'[s] < MaxFixAttempts
  /\ st = "SUMMARIZING" /\ hasSuite'[s] => verified'[s]

\* Any step of one session that sees to its job keeps the bookkeeping of all.
LEMMA SteppedJob ==
  ASSUME IInv, NEW s \in Sessions, NEW st, NEW p, Stepped(s, st, p), JobStep(s, st, p)
  PROVE  JobInv' /\ VerifiedBeforeSummarizing'
  <1>1. JobInv'
    BY DEF IInv, TypeOK, JobInv, Stepped, JobStep
  <1>2. VerifiedBeforeSummarizing'
    BY DEF IInv, TypeOK, VerifiedBeforeSummarizing, Stepped, JobStep
  <1> QED
    BY <1>1, <1>2

\* A transition of run() that sees to its job keeps it, also when it fails.
LEMMA ProceedJob ==
  ASSUME IInv, NEW s \in Sessions, NEW to \in Status, NEW next \in Holding,
         Proceed(s, to, next), JobStep(s, to, next),
         pc[s] \in {"starting", "failing", "nosuite", "exhaust", "retry"} \cup Awaits
  PROVE  JobInv' /\ VerifiedBeforeSummarizing'
  <1>1. CASE Stepped(s, to, next)
    BY <1>1, SteppedJob
  <1>2. ASSUME NEW st \in Terminal, NEW p \in {"cleanup", "return"}, Stepped(s, st, p)
        PROVE  JobInv' /\ VerifiedBeforeSummarizing'
    <2>1. JobStep(s, st, p)
      BY DEF JobStep, Terminal
    <2> QED
      BY <1>2, <2>1, SteppedJob
  <1> QED
    BY <1>1, <1>2, ProceedEffect

-----------------------------------------------------------------------------
\* Each stretch of run() keeps IInv.  A transition's control points:
LEMMA TransitionTargets ==
  /\ Coherent("ingest", "INGESTING") /\ Coherent("plan", "PLANNING")
  /\ Coherent("build", "INVESTIGATING") /\ Coherent("edit", "EDITING")
  /\ Coherent("test", "TESTING") /\ Coherent("nosuite", "TESTING")
  /\ Coherent("increment", "EDITING")
  /\ Coherent("cleanup", "SUMMARIZING") /\ Coherent("cleanup", "EXHAUSTED")
  /\ {"INGESTING", "PLANNING", "INVESTIGATING", "EDITING", "TESTING", "SUMMARIZING",
      "EXHAUSTED", "FAILED"} \subseteq Status
  /\ {"ingest", "plan", "build", "edit", "test", "nosuite", "increment", "cleanup"}
       \subseteq Holding
  BY DEF Coherent, Status, Terminal, Holding, Awaits, InStretch

\* A legal transition to a status a control point is coherent with keeps the core invariant.
LEMMA TransitionSteps ==
  ASSUME IInv, NEW s \in Sessions,
         Begin(s) \/ IngestReturns(s) \/ PlanReturns(s) \/ InvestigateReturns(s)
           \/ DiffReturns(s) \/ NoSuite(s) \/ Exhaust(s) \/ Retry(s) \/ RetryCheckReturns(s)
  PROVE  IInv'
  <1> USE DEF IInv, TypeOK
  <1>1. CASE Begin(s)
    <2>1. JobStep(s, "INGESTING", "ingest")
      BY <1>1 DEF Begin, jobVars, JobStep
    <2>2. JobInv' /\ VerifiedBeforeSummarizing'
      BY <1>1, <2>1, ProceedJob, TransitionTargets DEF Begin
    <2>3. CoreInv'
      BY <1>1, ProceedStep, TransitionTargets DEF Begin, semVars
    <2>4. RestTypes'
      BY <1>1 DEF Begin, RestTypes, jobVars, boxVars, semVars
    <2> QED
      BY <2>2, <2>3, <2>4 DEF CoreInv, RestTypes
  <1>2. CASE IngestReturns(s)
    <2>1. JobStep(s, "PLANNING", "plan")
      BY <1>2 DEF IngestReturns, JobStep
    <2>2. JobInv' /\ VerifiedBeforeSummarizing'
      BY <1>2, <2>1, ProceedJob, TransitionTargets DEF IngestReturns, Awaits
    <2>3. CoreInv'
      BY <1>2, ProceedStep, TransitionTargets DEF IngestReturns, semVars, Awaits
    <2>4. RestTypes'
      BY <1>2 DEF IngestReturns, RestTypes, boxVars, semVars
    <2> QED
      BY <2>2, <2>3, <2>4 DEF CoreInv, RestTypes
  <1>3. CASE PlanReturns(s)
    <2>1. JobStep(s, "INVESTIGATING", "build")
      BY <1>3 DEF PlanReturns, jobVars, JobStep
    <2>2. JobInv' /\ VerifiedBeforeSummarizing'
      BY <1>3, <2>1, ProceedJob, TransitionTargets DEF PlanReturns, Awaits
    <2>3. CoreInv'
      BY <1>3, ProceedStep, TransitionTargets DEF PlanReturns, semVars, Awaits
    <2>4. RestTypes'
      BY <1>3 DEF PlanReturns, RestTypes, jobVars, boxVars, semVars
    <2> QED
      BY <2>2, <2>3, <2>4 DEF CoreInv, RestTypes
  <1>4. CASE InvestigateReturns(s)
    <2>1. JobStep(s, "EDITING", "edit")
      BY <1>4 DEF InvestigateReturns, jobVars, JobStep
    <2>2. JobInv' /\ VerifiedBeforeSummarizing'
      BY <1>4, <2>1, ProceedJob, TransitionTargets DEF InvestigateReturns, Awaits
    <2>3. CoreInv'
      BY <1>4, ProceedStep, TransitionTargets DEF InvestigateReturns, semVars, Awaits
    <2>4. RestTypes'
      BY <1>4 DEF InvestigateReturns, RestTypes, jobVars, boxVars, semVars
    <2> QED
      BY <2>2, <2>3, <2>4 DEF CoreInv, RestTypes
  <1>5. CASE DiffReturns(s)
    <2> DEFINE next == IF hasSuite[s] THEN "test" ELSE "nosuite"
    <2>0. next \in Holding /\ Coherent(next, "TESTING")
      BY TransitionTargets
    <2>1. JobStep(s, "TESTING", next)
      BY <1>5 DEF DiffReturns, JobStep
    <2>2. JobInv' /\ VerifiedBeforeSummarizing'
      BY <1>5, <2>0, <2>1, ProceedJob, TransitionTargets DEF DiffReturns, Awaits
    <2>3. CoreInv'
      BY <1>5, <2>0, ProceedStep, TransitionTargets DEF DiffReturns, semVars, Awaits
    <2>4. RestTypes'
      BY <1>5, ConstantsAssumption DEF DiffReturns, RestTypes, boxVars, semVars
    <2> QED
      BY <2>2, <2>3, <2>4 DEF CoreInv, RestTypes
  <1>6. CASE NoSuite(s)
    <2>1. JobStep(s, "SUMMARIZING", "cleanup")
      BY <1>6 DEF NoSuite, jobVars, JobStep, JobInv
    <2>2. JobInv' /\ VerifiedBeforeSummarizing'
      BY <1>6, <2>1, ProceedJob, TransitionTargets DEF NoSuite
    <2>3. CoreInv'
      BY <1>6, ProceedStep, TransitionTargets DEF NoSuite, semVars
    <2>4. RestTypes'
      BY <1>6 DEF NoSuite, RestTypes, jobVars, boxVars, semVars
    <2> QED
      BY <2>2, <2>3, <2>4 DEF CoreInv, RestTypes
  <1>7. CASE Exhaust(s)
    <2>1. JobStep(s, "EXHAUSTED", "cleanup")
      BY <1>7 DEF Exhaust, jobVars, JobStep
    <2>2. JobInv' /\ VerifiedBeforeSummarizing'
      BY <1>7, <2>1, ProceedJob, TransitionTargets DEF Exhaust
    <2>3. CoreInv'
      BY <1>7, ProceedStep, TransitionTargets DEF Exhaust, semVars
    <2>4. RestTypes'
      BY <1>7 DEF Exhaust, RestTypes, jobVars, boxVars, semVars
    <2> QED
      BY <2>2, <2>3, <2>4 DEF CoreInv, RestTypes
  <1>8. CASE Retry(s)
    <2>1. JobStep(s, "EDITING", "increment")
      BY <1>8 DEF Retry, jobVars, JobStep, JobInv
    <2>2. JobInv' /\ VerifiedBeforeSummarizing'
      BY <1>8, <2>1, ProceedJob, TransitionTargets DEF Retry
    <2>3. CoreInv'
      BY <1>8, ProceedStep, TransitionTargets DEF Retry, semVars
    <2>4. RestTypes'
      BY <1>8 DEF Retry, RestTypes, jobVars, boxVars, semVars
    <2> QED
      BY <2>2, <2>3, <2>4 DEF CoreInv, RestTypes
  <1>9. CASE RetryCheckReturns(s)
    <2>1. JobStep(s, "TESTING", "test")
      BY <1>9 DEF RetryCheckReturns, JobStep
    <2>2. JobInv' /\ VerifiedBeforeSummarizing'
      BY <1>9, <2>1, ProceedJob, TransitionTargets DEF RetryCheckReturns, Awaits
    <2>3. CoreInv'
      BY <1>9, ProceedStep, TransitionTargets DEF RetryCheckReturns, semVars, Awaits
    <2>4. attempt[s] < MaxFixAttempts
      BY <1>9 DEF RetryCheckReturns, JobInv
    <2>5. RestTypes'
      BY <1>9, <2>4, ConstantsAssumption DEF RetryCheckReturns, RestTypes, boxVars, semVars
    <2> QED
      BY <2>2, <2>3, <2>5 DEF CoreInv, RestTypes
  <1> QED
    BY <1>1, <1>2, <1>3, <1>4, <1>5, <1>6, <1>7, <1>8, <1>9

-----------------------------------------------------------------------------
\* A stretch that changes no status and logs nothing keeps IInv.
LEMMA QuietRun ==
  ASSUME IInv, NEW s \in Sessions, Turn(s), pc[s] \in Holding,
         NEW p \in Holding, Coherent(p, status[s]), pc' = [pc EXCEPT ![s] = p],
         UNCHANGED <<status, unlogged, waiters>>, JobStep(s, status[s], p), RestTypes'
  PROVE  IInv'
  <1>1. CoreInv'
    BY QuietStep
  <1>2. Stepped(s, status[s], p)
    BY DEF Stepped, IInv, TypeOK
  <1>3. JobInv' /\ VerifiedBeforeSummarizing'
    BY <1>2, SteppedJob
  <1> QED
    BY <1>1, <1>3 DEF IInv, TypeOK, CoreInv, RestTypes

\* The stretches between the transitions: setup, install, baseline, phases, counters, cleanup.
LEMMA QuietSteps ==
  ASSUME IInv, NEW s \in Sessions,
         SetupReturns(s) \/ InstallReturns(s) \/ BaselineReturns(s) \/ PhaseCancelled(s)
           \/ EditReturns(s) \/ Increment(s) \/ RetryDiffReturns(s) \/ RetryEditReturns(s)
           \/ CleanupReturns(s) \/ CleanupFails(s) \/ RunRaises(s)
  PROVE  IInv'
  <1> USE DEF JobStep
  <1>0. /\ Coherent(pc[s], status[s])
        /\ pc[s] \in PC /\ status[s] \in Status \cup {Absent}
        /\ pc[s] \in {"retry", "increment", "retrydiff", "retryedit", "retrycheck"}
             => attempt[s] < MaxFixAttempts
        /\ status[s] = "SUMMARIZING" /\ hasSuite[s] => verified[s]
    BY DEF IInv, TypeOK, PhaseMatchesStatus, JobInv, VerifiedBeforeSummarizing
  <1>1. CASE SetupReturns(s)
    <2>1. RestTypes'
      BY <1>1 DEF IInv, TypeOK, SetupReturns, RestTypes, jobVars, semVars
    <2>2. Coherent("install", status[s]) /\ "install" \in Holding /\ pc[s] \in Holding
      BY <1>0, <1>1 DEF SetupReturns, Coherent, Holding, Awaits
    <2> QED
      BY <1>0, <1>1, <2>1, <2>2, QuietRun DEF SetupReturns, Goto, jobVars, semVars
  <1>2. CASE InstallReturns(s)
    <2>1. RestTypes'
      BY <1>2 DEF IInv, TypeOK, InstallReturns, RestTypes, jobVars, semVars
    <2>2. PICK p \in {"baseline", "cleanup", "investigate"} :
            pc' = [pc EXCEPT ![s] = p] /\ (p = "cleanup" => status[s] = "HALTED")
      BY <1>2 DEF InstallReturns, Goto
    <2>3. Coherent(p, status[s]) /\ p \in Holding /\ pc[s] \in Holding
      BY <1>0, <1>2, <2>2 DEF InstallReturns, Coherent, Holding, Awaits, Terminal
    <2> QED
      BY <1>0, <1>2, <2>1, <2>2, <2>3, QuietRun DEF InstallReturns, jobVars, semVars
  <1>3. CASE BaselineReturns(s) \/ RetryDiffReturns(s)
    <2>1. RestTypes'
      BY <1>3 DEF IInv, TypeOK, BaselineReturns, RetryDiffReturns, RestTypes, jobVars, boxVars,
                  semVars
    <2>2. PICK p \in {"cleanup", "return", "investigate", "retryedit"} :
            /\ pc' = [pc EXCEPT ![s] = p]
            /\ p \in {"cleanup", "return"} => status[s] = "HALTED"
            /\ p = "investigate" => pc[s] = "baseline"
            /\ p = "retryedit" => pc[s] = "retrydiff"
      BY <1>3 DEF BaselineReturns, RetryDiffReturns, EnterPhase, Goto, Finally
    <2>3. Coherent(p, status[s]) /\ p \in Holding /\ pc[s] \in Holding
      BY <1>0, <1>3, <2>2 DEF BaselineReturns, RetryDiffReturns, Coherent, Holding, Awaits,
                              InStretch, Terminal
    <2> QED
      BY <1>0, <1>3, <2>1, <2>2, <2>3, QuietRun
         DEF BaselineReturns, RetryDiffReturns, jobVars, semVars
  <1>4. CASE PhaseCancelled(s)
    <2>1. RestTypes'
      BY <1>4 DEF IInv, TypeOK, PhaseCancelled, RestTypes, jobVars, boxVars, semVars
    <2>2. PICK p \in {"cleanup", "return"} : pc' = [pc EXCEPT ![s] = p]
      BY <1>4 DEF PhaseCancelled, Goto, Finally
    <2>3. Coherent(p, status[s]) /\ p \in Holding /\ pc[s] \in Holding
      BY <1>0, <1>4, <2>2 DEF PhaseCancelled, Coherent, Holding, Awaits, InStretch, Terminal,
                              Phases
    <2> QED
      BY <1>0, <1>4, <2>1, <2>2, <2>3, QuietRun DEF PhaseCancelled, jobVars, semVars
  <1>5. CASE EditReturns(s) \/ RetryEditReturns(s)
    <2>1. RestTypes'
      BY <1>5 DEF IInv, TypeOK, EditReturns, RetryEditReturns, RestTypes, boxVars, semVars
    <2>2. PICK p \in {"diff", "retrycheck"} :
            /\ pc' = [pc EXCEPT ![s] = p]
            /\ pc[s] = IF p = "diff" THEN "edit" ELSE "retryedit"
      BY <1>5 DEF EditReturns, RetryEditReturns, Goto
    <2>3. /\ Coherent(p, status[s]) /\ p \in Holding /\ pc[s] \in Holding
          /\ status[s] # "SUMMARIZING"
      BY <1>0, <1>5, <2>2 DEF Coherent, Holding, Awaits, Terminal
    <2>4. JobStep(s, status[s], p)
      BY <1>0, <1>5, <2>2, <2>3 DEF EditReturns, RetryEditReturns, IInv, TypeOK
    <2> QED
      BY <1>5, <2>1, <2>2, <2>3, <2>4, QuietRun DEF EditReturns, RetryEditReturns, semVars
  <1>6. CASE Increment(s)
    <2>1. RestTypes'
      BY <1>6 DEF IInv, TypeOK, Increment, RestTypes, boxVars, semVars
    <2>2. Coherent("retrydiff", status[s]) /\ "retrydiff" \in Holding /\ pc[s] \in Holding
      BY <1>0, <1>6 DEF Increment, Coherent, Holding, Awaits, InStretch
    <2> QED
      BY <1>0, <1>6, <2>1, <2>2, QuietRun DEF Increment, Goto, semVars
  <1>7. CASE CleanupReturns(s) \/ CleanupFails(s)
    <2>1. RestTypes'
      <3>1. CASE CleanupReturns(s)
        BY <3>1 DEF IInv, TypeOK, CleanupReturns, RestTypes, jobVars, semVars
      <3>2. CASE CleanupFails(s)
        BY <3>2, ConstantsAssumption
           DEF IInv, TypeOK, CleanupFails, RestTypes, jobVars, boxVars, semVars
      <3> QED
        BY <1>7, <3>1, <3>2
    <2>2. PICK p \in {"return", "raise"} :
            /\ pc' = [pc EXCEPT ![s] = p]
            /\ pc[s] = IF p = "return" THEN "cleanup" ELSE "unwind"
      BY <1>7 DEF CleanupReturns, CleanupFails, Goto
    <2>3. Coherent(p, status[s]) /\ p \in Holding /\ pc[s] \in Holding
      BY <1>0, <2>2 DEF Coherent, Holding, InStretch, Terminal
    <2> QED
      BY <1>0, <1>7, <2>1, <2>2, <2>3, QuietRun
         DEF CleanupReturns, CleanupFails, jobVars, boxVars, semVars
  <1>8. CASE RunRaises(s)
    <2>1. RestTypes'
      BY <1>8, ConstantsAssumption
         DEF IInv, TypeOK, RunRaises, RestTypes, jobVars, boxVars, semVars
    <2>2. PICK p \in {"unwind", "raise"} : pc' = [pc EXCEPT ![s] = p]
      BY <1>8 DEF RunRaises, Goto, Finally
    <2>3. pc[s] \in Holding /\ pc[s] # "idle"
      BY <1>8 DEF RunRaises, Holding, Awaits, InStretch
    <2>4. Coherent(p, status[s]) /\ p \in Holding
      BY <1>0, <2>2, <2>3 DEF Coherent, Holding, InStretch, Status, Terminal
    <2> QED
      BY <1>0, <1>8, <2>1, <2>2, <2>3, <2>4, QuietRun DEF RunRaises, jobVars, semVars
  <1> QED
    BY <1>1, <1>2, <1>3, <1>4, <1>5, <1>6, <1>7, <1>8

-----------------------------------------------------------------------------
\* A stretch that only throws, or only reports, keeps IInv.
LEMMA FailSteps ==
  ASSUME IInv, NEW s \in Sessions, Failing(s) \/ RunFails(s)
  PROVE  IInv'
  <1>1. /\ Turn(s) /\ Fail(s, Seen(s)) /\ UNCHANGED <<log, jobVars, boxVars, semVars, faults>>
        /\ pc[s] \in {"failing"} \cup Awaits
        /\ Seen(s) \in {status[s], "INGESTING"}
    BY DEF Failing, RunFails, Seen
  <1>2. PICK st \in Terminal, p \in {"cleanup", "return"} : Stepped(s, st, p)
    BY <1>1, FailEffect
  <1>3. /\ Coherent(p, st) /\ p \in Holding /\ st \in Status /\ pc[s] \in Holding
        /\ st # "SUMMARIZING"
    BY <1>1 DEF Coherent, Holding, Awaits, InStretch, Status, Terminal
  <1>4. CoreInv'
    BY <1>1, <1>2, <1>3, FailEffect, RunStep DEF semVars
  <1>5. JobStep(s, st, p)
    BY <1>1, <1>3 DEF JobStep, jobVars
  <1>6. JobInv' /\ VerifiedBeforeSummarizing'
    BY <1>2, <1>5, SteppedJob
  <1>7. RestTypes'
    BY <1>1 DEF IInv, TypeOK, RestTypes, jobVars, boxVars, semVars
  <1> QED
    BY <1>4, <1>6, <1>7 DEF IInv, TypeOK, CoreInv, RestTypes

\* ingest() reporting its own failure keeps IInv.
LEMMA IngestFailsStep ==
  ASSUME IInv, NEW s \in Sessions, IngestFails(s)
  PROVE  IInv'
  <1>1. /\ status[s] \in Status /\ Coherent("failing", status[s]) /\ "failing" \in Holding
        /\ pc[s] \in Holding /\ status[s] # "SUMMARIZING"
    BY DEF IngestFails, IInv, TypeOK, PhaseMatchesStatus, Coherent, Holding, Awaits,
           InStretch, Status, Terminal
  <1>2. Stepped(s, status[s], "failing")
    BY DEF IngestFails, Stepped, Goto, IInv, TypeOK
  <1>3. unlogged' \in Seq(NotesOf(s, "run"))
    <2>1. Note(s, "run", Plain("SESSION_FAILED")) \in NotesOf(s, "run")
      BY NoteTyped DEF Writers
    <2> QED
      BY <2>1 DEF IngestFails
  <1>4. CoreInv'
    BY <1>1, <1>2, <1>3, RunStep DEF IngestFails, semVars
  <1>5. JobStep(s, status[s], "failing")
    BY <1>1 DEF IngestFails, JobStep, jobVars
  <1>6. JobInv' /\ VerifiedBeforeSummarizing'
    BY <1>2, <1>5, SteppedJob
  <1>7. RestTypes'
    BY DEF IngestFails, IInv, TypeOK, RestTypes, jobVars, boxVars, semVars
  <1> QED
    BY <1>4, <1>6, <1>7 DEF IInv, TypeOK, CoreInv, RestTypes

\* The two verdicts keep IInv: green moves on with the tree verified, red goes round or ends.
LEMMA VerdictSteps ==
  ASSUME IInv, NEW s \in Sessions, TestReturns(s) \/ ConfirmReturns(s)
  PROVE  IInv'
  <1>1. /\ Turn(s) /\ pc[s] \in {"test", "confirm"}
        /\ UNCHANGED <<log, attempt, targets, hasSuite, fixAttempts, boxVars, semVars, faults>>
    BY DEF TestReturns, ConfirmReturns
  <1>2. /\ Coherent(pc[s], status[s]) /\ status[s] \in Status \cup {Absent}
    BY DEF IInv, TypeOK, PhaseMatchesStatus
  <1>3. /\ status[s] \in {"TESTING", "HALTED"} /\ pc[s] \in Holding \cap Awaits
    BY <1>1, <1>2 DEF Coherent, Holding, Awaits, Terminal
  <1>4. CASE targets[s] /\ Goto(s, "confirm") /\ UNCHANGED <<status, unlogged, verified>>
    <2>1. RestTypes'
      BY <1>1, <1>4 DEF IInv, TypeOK, RestTypes, boxVars, semVars
    <2>2. Coherent("confirm", status[s]) /\ "confirm" \in Holding
      BY <1>3 DEF Coherent, Holding, Awaits
    <2>3. JobStep(s, status[s], "confirm")
      BY <1>1, <1>3, <1>4 DEF JobStep
    <2> QED
      BY <1>1, <1>3, <1>4, <2>1, <2>2, <2>3, QuietRun DEF Goto, semVars
  <1>5. CASE GreenVerdict(s)
    <2>1. JobStep(s, "SUMMARIZING", "cleanup")
      BY <1>1, <1>5 DEF GreenVerdict, JobStep, IInv, TypeOK
    <2>2. JobInv' /\ VerifiedBeforeSummarizing'
      BY <1>3, <1>5, <2>1, ProceedJob, TransitionTargets DEF GreenVerdict
    <2>3. CoreInv'
      BY <1>1, <1>3, <1>5, ProceedStep, TransitionTargets DEF GreenVerdict, semVars
    <2>4. RestTypes'
      BY <1>1, <1>5 DEF GreenVerdict, IInv, TypeOK, RestTypes, boxVars, semVars
    <2> QED
      BY <2>2, <2>3, <2>4 DEF IInv, TypeOK, CoreInv, RestTypes
  <1>6. CASE RedVerdict(s)
    <2>1. PICK p \in {"retry", "exhaust"} :
            /\ pc' = [pc EXCEPT ![s] = p]
            /\ p = "retry" => attempt[s] < MaxFixAttempts
      BY <1>6 DEF RedVerdict, Goto
    <2>2. Stepped(s, status[s], p)
      BY <1>6, <2>1 DEF RedVerdict, Stepped, IInv, TypeOK
    <2>3. unlogged' \in Seq(NotesOf(s, "run"))
      <3>1. Note(s, "run", Plain("FIX_ATTEMPT")) \in NotesOf(s, "run")
        BY NoteTyped DEF Writers
      <3> QED
        BY <1>6, <3>1 DEF RedVerdict
    <2>4. Coherent(p, status[s]) /\ p \in Holding /\ status[s] \in Status
      BY <1>3 DEF Coherent, Holding, InStretch, Status, Terminal
    <2>5. CoreInv'
      BY <1>1, <1>3, <2>2, <2>3, <2>4, RunStep DEF semVars
    <2>6. JobStep(s, status[s], p)
      BY <1>1, <1>3, <1>6, <2>1 DEF RedVerdict, JobStep
    <2>7. JobInv' /\ VerifiedBeforeSummarizing'
      BY <2>2, <2>6, SteppedJob
    <2>8. RestTypes'
      BY <1>1, <1>6 DEF RedVerdict, IInv, TypeOK, RestTypes, boxVars, semVars
    <2> QED
      BY <2>5, <2>7, <2>8 DEF IInv, TypeOK, CoreInv, RestTypes
  <1> QED
    BY <1>4, <1>5, <1>6 DEF TestReturns, ConfirmReturns

-----------------------------------------------------------------------------
\* A step of an API call about s, which moves no task that holds a slot or waits.
LEMMA ApiSteps ==
  ASSUME IInv, NEW s \in Sessions, Create(s) \/ Cancel(s)
  PROVE  IInv'
  <1>1. PICK st \in {"CREATED", "HALTED"}, p \in PC :
          /\ Stepped(s, st, p) /\ Coherent(p, st)
          /\ p = pc[s] \/ (pc[s] = "idle" /\ p = "posted")
    <2>1. CASE Create(s)
      BY <2>1 DEF Create, Goto, Stepped, Coherent, PC
    <2>2. CASE Cancel(s)
      <3>1. status[s] # Absent /\ status' = [status EXCEPT ![s] = "HALTED"]
        BY <2>2 DEF Cancel, Transition, TransitionFrom, CanTransition, Absent, Status, Terminal
      <3>2. Coherent(pc[s], "HALTED") /\ pc' = [pc EXCEPT ![s] = pc[s]] /\ pc[s] \in PC
        BY <2>2, <3>1 DEF Cancel, LoopFree, InStretch, IInv, TypeOK, PhaseMatchesStatus, Coherent
      <3> QED
        BY <3>1, <3>2 DEF Stepped
    <2> QED
      BY <2>1, <2>2
  <1>2. PICK by \in {"create", "cancel"} :
          unlogged' \in Seq(NotesOf(s, by)) /\ (by = "create" => pc'[s] = "posted")
    <2>1. CASE Create(s)
      <3>1. Note(s, "create", Plain("SESSION_CREATED")) \in NotesOf(s, "create")
        BY NoteTyped DEF Writers
      <3> QED
        BY <2>1, <3>1 DEF Create, Goto, IInv, TypeOK
    <2>2. CASE Cancel(s)
      <3>1. <<>> \in Seq(NotesOf(s, "cancel"))
        OBVIOUS
      <3> QED
        BY <2>2, <3>1, TransitionTyped DEF Cancel, Transition, Writers
    <2> QED
      BY <2>1, <2>2
  <1>3. UNCHANGED <<log, jobVars, boxVars, semVars, faults>>
    BY DEF Create, Cancel
  <1>4. /\ unlogged' \in Seq(Notes)
        /\ \A i \in 1..Len(unlogged') : unlogged'[i].by = by /\ unlogged'[i].s = s
    BY <1>2, NotesOfAreNotes DEF Writers
  <1>5. PhaseMatchesStatus' /\ status' \in [Sessions -> Status \cup {Absent}]
          /\ pc' \in [Sessions -> PC]
    BY <1>1 DEF Stepped, IInv, TypeOK, PhaseMatchesStatus, Status, Terminal
  <1>6. QueueInv'
    <2>1. \A r \in Sessions : pc[r] = "waiting" => pc'[r] = "waiting"
      BY <1>1 DEF Stepped, IInv, TypeOK
    <2>2. \A i \in 1..Len(waiters) : waiters[i] \in Sessions
      BY DEF IInv, TypeOK
    <2>3. WaitersInv'
      BY <1>3, <2>1, <2>2 DEF IInv, QueueInv, WaitersInv, semVars
    <2>4. UnloggedInv'
      BY <1>2, <1>4 DEF UnloggedInv
    <2> QED
      BY <2>3, <2>4 DEF QueueInv
  <1>7. JobStep(s, st, p)
    BY <1>1, <1>3 DEF JobStep, jobVars, IInv, JobInv
  <1>8. JobInv' /\ VerifiedBeforeSummarizing'
    BY <1>1, <1>7, SteppedJob
  <1>9. RestTypes' /\ waiters' \in Seq(Sessions)
    BY <1>3 DEF IInv, TypeOK, RestTypes, jobVars, boxVars, semVars
  <1> QED
    BY <1>4, <1>5, <1>6, <1>8, <1>9 DEF IInv, TypeOK, RestTypes

\* A queue without repetitions, its tail and its extension by a newcomer.
LEMMA QueueTail ==
  ASSUME NEW S, NEW q \in Seq(S), q # <<>>,
         \A i, j \in 1..Len(q) : q[i] = q[j] => i = j
  PROVE  /\ Head(q) \in S /\ Head(q) = q[1] /\ 1 \in 1..Len(q)
         /\ Tail(q) \in Seq(S)
         /\ \A i \in 1..Len(Tail(q)) :
              /\ Tail(q)[i] \in S \ {Head(q)}
              /\ \E k \in 1..Len(q) : Tail(q)[i] = q[k]
         /\ \A i, j \in 1..Len(Tail(q)) : Tail(q)[i] = Tail(q)[j] => i = j
  <1>1. /\ Tail(q) \in Seq(S) /\ Len(Tail(q)) = Len(q) - 1 /\ Len(q) \in Nat \ {0}
        /\ Head(q) = q[1] /\ 1 \in 1..Len(q) /\ Head(q) \in S
        /\ \A i \in 1..Len(Tail(q)) : Tail(q)[i] = q[i + 1]
    OBVIOUS
  <1>2. \A i \in 1..Len(Tail(q)) : i + 1 \in 1..Len(q) /\ i + 1 # 1 /\ i \in Nat
    BY <1>1
  <1>3. ASSUME NEW i \in 1..Len(Tail(q))
        PROVE  Tail(q)[i] \in S \ {Head(q)} /\ \E k \in 1..Len(q) : Tail(q)[i] = q[k]
    <2>1. q[i + 1] \in S /\ q[i + 1] # q[1]
      BY <1>1, <1>2
    <2> QED
      BY <1>1, <1>2, <2>1
  <1>4. ASSUME NEW i \in 1..Len(Tail(q)), NEW j \in 1..Len(Tail(q)), Tail(q)[i] = Tail(q)[j]
        PROVE  i = j
    <2>1. i + 1 = j + 1
      BY <1>1, <1>2, <1>4
    <2> QED
      BY <1>2, <2>1
  <1> QED
    BY <1>1, <1>3, <1>4

\* Appending a session that was not in the queue adds it to the queue and nothing else.
LEMMA QueueAppend ==
  ASSUME NEW S, NEW q \in Seq(S), NEW x \in S, \A i \in 1..Len(q) : q[i] # x,
         \A i, j \in 1..Len(q) : q[i] = q[j] => i = j
  PROVE  /\ Append(q, x) \in Seq(S)
         /\ \A i \in 1..Len(Append(q, x)) :
              Append(q, x)[i] = x \/ \E k \in 1..Len(q) : Append(q, x)[i] = q[k]
         /\ \A i, j \in 1..Len(Append(q, x)) : Append(q, x)[i] = Append(q, x)[j] => i = j
  <1> DEFINE r == Append(q, x)
  <1>1. /\ r \in Seq(S) /\ Len(r) = Len(q) + 1 /\ Len(q) \in Nat
        /\ r[Len(q) + 1] = x /\ \A i \in 1..Len(q) : r[i] = q[i]
    OBVIOUS
  <1>2. \A i \in 1..Len(r) : i \in 1..Len(q) \/ i = Len(q) + 1
    BY <1>1
  <1>3. ASSUME NEW i \in 1..Len(r), NEW j \in 1..Len(r), r[i] = r[j]
        PROVE  i = j
    <2>1. CASE i \in 1..Len(q) /\ j \in 1..Len(q)
      BY <1>1, <1>3, <2>1
    <2>2. CASE i = Len(q) + 1 \/ j = Len(q) + 1
      BY <1>1, <1>2, <1>3, <2>2
    <2> QED
      BY <1>2, <2>1, <2>2
  <1> QED
    BY <1>1, <1>2, <1>3

\* Joining and leaving the semaphore: waiting sessions stand in the queue, each once.
LEMMA SlotSteps ==
  ASSUME IInv, NEW s \in Sessions, Launch(s) \/ Release(s)
  PROVE  IInv'
  <1>1. /\ UNCHANGED <<status, log, jobVars, boxVars, unlogged, faults>>
        /\ unlogged = <<>> /\ unlogged' = <<>>
    BY DEF Launch, Release, LoopFree, Turn
  <1>2. UnloggedInv'
    BY <1>1 DEF UnloggedInv
  <1>3. /\ waiters \in Seq(Sessions) /\ pc \in [Sessions -> PC] /\ slots \in Nat
        /\ \A i \in 1..Len(waiters) : waiters[i] \in Sessions
        /\ \A i \in 1..Len(waiters) : pc[waiters[i]] = "waiting"
        /\ \A i, j \in 1..Len(waiters) : waiters[i] = waiters[j] => i = j
        /\ \A r \in Sessions : Coherent(pc[r], status[r])
    BY DEF IInv, TypeOK, QueueInv, WaitersInv, PhaseMatchesStatus
  \* What is left to show of a step.
  <1>4. ASSUME waiters' \in Seq(Sessions), slots' \in Nat, pc' \in [Sessions -> PC], WaitersInv',
               \A r \in Sessions : Coherent(pc'[r], status[r]),
               \A r \in Sessions : pc'[r] = pc[r] \/ pc'[r] \notin InStretch \cup Awaits
        PROVE  IInv'
    <2>1. TypeOK'
      BY <1>1, <1>4 DEF IInv, TypeOK, jobVars, boxVars
    <2>2. PhaseMatchesStatus'
      BY <1>1, <1>4 DEF PhaseMatchesStatus
    <2>3. JobInv' /\ VerifiedBeforeSummarizing'
      BY <1>1, <1>4 DEF IInv, JobInv, VerifiedBeforeSummarizing, jobVars, InStretch, Awaits
    <2> QED
      BY <1>2, <1>4, <2>1, <2>2, <2>3 DEF IInv, QueueInv
  <1>5. CASE Launch(s)
    <2>1. pc[s] = "posted" /\ Coherent("posted", status[s])
      BY <1>3, <1>5 DEF Launch
    <2>2. CASE /\ slots > 0 /\ waiters = <<>> /\ slots' = slots - 1
               /\ Goto(s, "starting") /\ UNCHANGED waiters
      <3>1. /\ pc' \in [Sessions -> PC] /\ slots' \in Nat
            /\ pc'[s] = "starting" /\ \A r \in Sessions \ {s} : pc'[r] = pc[r]
        BY <1>3, <2>2 DEF Goto, PC, Holding
      <3>2. WaitersInv'
        BY <2>2 DEF WaitersInv
      <3>3. Coherent("starting", status[s])
        BY <2>1 DEF Coherent
      <3> QED
        BY <1>3, <1>4, <2>2, <3>1, <3>2, <3>3 DEF InStretch, Awaits
    <2>3. CASE waiters' = Append(waiters, s) /\ Goto(s, "waiting") /\ UNCHANGED slots
      <3>1. /\ pc' \in [Sessions -> PC]
            /\ pc'[s] = "waiting" /\ \A r \in Sessions \ {s} : pc'[r] = pc[r]
        BY <1>3, <2>3 DEF Goto, PC
      <3>2. \A i \in 1..Len(waiters) : waiters[i] # s
        BY <1>3, <2>1
      <3>3. /\ waiters' \in Seq(Sessions)
            /\ \A i \in 1..Len(waiters') :
                 waiters'[i] = s \/ \E k \in 1..Len(waiters) : waiters'[i] = waiters[k]
            /\ \A i, j \in 1..Len(waiters') : waiters'[i] = waiters'[j] => i = j
        BY <1>3, <2>3, <3>2, QueueAppend
      <3>4. \A i \in 1..Len(waiters') : pc'[waiters'[i]] = "waiting"
        BY <1>3, <3>1, <3>3
      <3>5. WaitersInv'
        BY <3>3, <3>4 DEF WaitersInv
      <3>6. Coherent("waiting", status[s])
        BY <2>1 DEF Coherent
      <3> QED
        BY <1>3, <1>4, <2>3, <3>1, <3>3, <3>5, <3>6 DEF InStretch, Awaits
    <2> QED
      BY <1>5, <2>2, <2>3 DEF Launch
  <1>6. CASE Release(s)
    <2>1. PICK end \in {"done", "crashed"} :
            LeaveSlot(s, end) /\ pc[s] = (IF end = "done" THEN "return" ELSE "raise")
      BY <1>6 DEF Release
    <2>2. Coherent(end, status[s]) /\ end \in PC
      BY <1>3, <2>1 DEF Coherent, PC, Ended, Terminal
    <2>3. CASE waiters = <<>> /\ slots' = slots + 1 /\ Goto(s, end) /\ UNCHANGED waiters
      <3>1. /\ pc' \in [Sessions -> PC] /\ slots' \in Nat
            /\ pc'[s] = end /\ \A r \in Sessions \ {s} : pc'[r] = pc[r]
        BY <1>3, <2>2, <2>3 DEF Goto
      <3>2. WaitersInv'
        BY <2>3 DEF WaitersInv
      <3> QED
        BY <1>3, <1>4, <2>2, <2>3, <3>1, <3>2 DEF InStretch, Awaits
    <2>4. CASE /\ waiters # <<>> /\ waiters' = Tail(waiters)
               /\ pc' = [pc EXCEPT ![s] = end, ![Head(waiters)] = "starting"]
               /\ UNCHANGED slots
      <3> DEFINE next == Head(waiters)
      <3>1. /\ next \in Sessions /\ waiters' \in Seq(Sessions)
            /\ next = waiters[1] /\ 1 \in 1..Len(waiters)
            /\ \A i \in 1..Len(waiters') :
                 /\ waiters'[i] \in Sessions \ {next}
                 /\ \E k \in 1..Len(waiters) : waiters'[i] = waiters[k]
            /\ \A i, j \in 1..Len(waiters') : waiters'[i] = waiters'[j] => i = j
        BY <1>3, <2>4, QueueTail
      <3>2. pc[next] = "waiting" /\ pc[s] # "waiting" /\ next # s
        BY <1>3, <2>1, <3>1
      <3> HIDE DEF next
      <3>3. /\ pc' \in [Sessions -> PC] /\ pc'[s] = end /\ pc'[next] = "starting"
            /\ \A r \in Sessions \ {s, next} : pc'[r] = pc[r]
        BY <1>3, <2>2, <2>4, <3>1, <3>2 DEF next, PC, Holding
      <3>4. Coherent("starting", status[next])
        BY <1>3, <3>1, <3>2 DEF Coherent
      <3>5. \A i \in 1..Len(waiters') : pc[waiters'[i]] = "waiting" /\ waiters'[i] # next
        BY <1>3, <3>1
      <3>6. \A i \in 1..Len(waiters') : pc'[waiters'[i]] = "waiting"
        BY <3>1, <3>2, <3>3, <3>5
      <3>7. WaitersInv'
        BY <3>1, <3>6 DEF WaitersInv
      <3> QED
        BY <1>3, <1>4, <2>2, <2>4, <3>1, <3>3, <3>4, <3>7 DEF InStretch, Awaits
    <2> QED
      BY <2>1, <2>3, <2>4 DEF LeaveSlot
  <1> QED
    BY <1>5, <1>6

\* The next event that waits to be appended, and the ones behind it.
LEMMA UnloggedHead ==
  ASSUME unlogged \in Seq(Notes), unlogged # <<>>
  PROVE  /\ Head(unlogged) \in Notes /\ Head(unlogged) = unlogged[1] /\ 1 \in 1..Len(unlogged)
         /\ Tail(unlogged) \in Seq(Notes)
         /\ \A i \in 1..Len(Tail(unlogged)) :
              i + 1 \in 1..Len(unlogged) /\ Tail(unlogged)[i] = unlogged[i + 1]
  OBVIOUS

\* Draining the events keeps IInv.
LEMMA AppendEventStep ==
  ASSUME IInv, AppendEvent
  PROVE  IInv'
  <1> DEFINE e == Head(unlogged)
  <1>1. /\ e \in Notes /\ unlogged' \in Seq(Notes)
        /\ \A i \in 1..Len(unlogged') :
             i + 1 \in 1..Len(unlogged) /\ unlogged'[i] = unlogged[i + 1]
    BY UnloggedHead DEF AppendEvent, IInv, TypeOK
  <1>2. /\ UNCHANGED <<status, pc, jobVars, boxVars, semVars, faults>>
        /\ log' = [log EXCEPT ![e.s] = Append(@, e.entry)]
    BY DEF AppendEvent
  <1>3. log' \in [Sessions -> Seq(Entries)]
    <2>1. e.s \in Sessions /\ e.entry \in Entries
      BY <1>1 DEF Notes
    <2>2. log \in [Sessions -> Seq(Entries)]
      BY DEF IInv, TypeOK
    <2>3. Append(log[e.s], e.entry) \in Seq(Entries)
      BY <2>1, <2>2
    <2> QED
      BY <1>2, <2>1, <2>2, <2>3
  <1>4. TypeOK'
    BY <1>1, <1>2, <1>3 DEF IInv, TypeOK, jobVars, boxVars, semVars
  <1>5. QueueInv'
    <2>1. UnloggedInv'
      BY <1>1, <1>2 DEF IInv, QueueInv, UnloggedInv
    <2> QED
      BY <1>2, <2>1 DEF IInv, QueueInv, WaitersInv, semVars
  <1>6. PhaseMatchesStatus' /\ JobInv' /\ VerifiedBeforeSummarizing'
    BY <1>2 DEF IInv, PhaseMatchesStatus, JobInv, VerifiedBeforeSummarizing, jobVars
  <1> QED
    BY <1>4, <1>5, <1>6 DEF IInv

\* What a fault must see to: it moves tasks out of their work and touches no job.
LEMMA FaultStep ==
  ASSUME IInv, faults < MaxFaults, faults' = faults + 1, unlogged' = <<>>,
         UNCHANGED <<status, log, jobVars, boxVars>>,
         slots' \in Nat, waiters' \in Seq(Sessions), WaitersInv', pc' \in [Sessions -> PC],
         \A s \in Sessions :
           \/ pc'[s] = pc[s]
           \/ pc'[s] \in {"unwind", "raise", "lost"} /\ pc[s] # "idle"
  PROVE  IInv'
  <1>1. TypeOK'
    <2>1. faults' \in 0..MaxFaults
      BY ConstantsAssumption DEF IInv, TypeOK
    <2>2. unlogged' \in Seq(Notes)
      OBVIOUS
    <2> QED
      BY <2>1, <2>2 DEF IInv, TypeOK, jobVars, boxVars
  <1>2. PhaseMatchesStatus'
    <2>1. SUFFICES ASSUME NEW s \in Sessions
                   PROVE  Coherent(pc'[s], status[s])
      BY DEF PhaseMatchesStatus
    <2>2. Coherent(pc[s], status[s]) /\ status[s] \in Status \cup {Absent}
      BY DEF IInv, TypeOK, PhaseMatchesStatus
    <2>3. pc[s] # "idle" => status[s] \in Status
      BY <2>2 DEF Coherent, Status, Terminal
    <2> QED
      BY <2>2, <2>3 DEF Coherent
  <1>3. QueueInv'
    <2>1. UnloggedInv'
      BY DEF UnloggedInv
    <2> QED
      BY <2>1 DEF QueueInv
  <1>4. JobInv' /\ VerifiedBeforeSummarizing'
    BY DEF IInv, JobInv, VerifiedBeforeSummarizing, jobVars
  <1> QED
    BY <1>1, <1>2, <1>3, <1>4 DEF IInv

\* A failed append and the death of the process keep IInv.
LEMMA FaultSteps ==
  ASSUME IInv, AppendFails \/ Crash
  PROVE  IInv'
  <1>1. /\ waiters \in Seq(Sessions) /\ pc \in [Sessions -> PC] /\ slots \in Nat
        /\ \A i \in 1..Len(waiters) : waiters[i] \in Sessions
        /\ \A i \in 1..Len(waiters) : pc[waiters[i]] = "waiting"
        /\ WaitersInv
    BY DEF IInv, TypeOK, QueueInv, WaitersInv
  <1>2. CASE AppendFails
    <2> DEFINE e == Head(unlogged)
    <2>1. e \in Notes /\ e = unlogged[1] /\ 1 \in 1..Len(unlogged)
      BY <1>2, UnloggedHead DEF AppendFails, IInv, TypeOK
    <2>2. /\ e.s \in Sessions
          /\ e.by = "run" => pc[e.s] \in Holding
          /\ e.by = "create" => pc[e.s] = "posted"
      BY <2>1 DEF Notes, IInv, QueueInv, UnloggedInv
    <2>3. PICK p \in PC :
            /\ pc' = [pc EXCEPT ![e.s] = p]
            /\ \/ p = pc[e.s]
               \/ p \in {"unwind", "raise", "lost"} /\ pc[e.s] \notin {"idle", "waiting"}
      <3>1. CASE e.by = "run" /\ Goto(e.s, Finally(e.s, FALSE))
        BY <2>2, <3>1 DEF Goto, Finally, PC, Holding, Awaits, InStretch
      <3>2. CASE e.by = "create" /\ Goto(e.s, "lost")
        BY <2>2, <3>2 DEF Goto, PC, Ended
      <3>3. CASE e.by = "cancel" /\ UNCHANGED pc
        BY <1>1, <2>2, <3>3
      <3> QED
        BY <1>2, <3>1, <3>2, <3>3 DEF AppendFails
    <2> HIDE DEF e
    <2>4. \A r \in Sessions : pc[r] = "waiting" => pc'[r] = "waiting"
      BY <1>1, <2>2, <2>3
    <2>5. WaitersInv'
      BY <1>1, <1>2, <2>4 DEF WaitersInv, AppendFails, semVars
    <2>6. \A s \in Sessions :
            \/ pc'[s] = pc[s]
            \/ pc'[s] \in {"unwind", "raise", "lost"} /\ pc[s] # "idle"
      BY <1>1, <2>2, <2>3
    <2>7. pc' \in [Sessions -> PC]
      BY <1>1, <2>3
    <2> QED
      BY <1>1, <1>2, <2>5, <2>6, <2>7, FaultStep DEF AppendFails, semVars
  <1>3. CASE Crash
    <2>1. /\ pc' \in [Sessions -> PC]
          /\ \A s \in Sessions :
               \/ pc'[s] = pc[s]
               \/ pc'[s] \in {"unwind", "raise", "lost"} /\ pc[s] # "idle"
      BY <1>1, <1>3 DEF Crash, PC, Ended
    <2>2. WaitersInv'
      BY <1>3 DEF Crash, WaitersInv
    <2>3. slots' \in Nat /\ waiters' \in Seq(Sessions)
      BY <1>3, ConstantsAssumption DEF Crash
    <2> QED
      BY <1>3, <2>1, <2>2, <2>3, FaultStep DEF Crash
  <1> QED
    BY <1>2, <1>3

-----------------------------------------------------------------------------
\* IInv holds in the initial state.
LEMMA InitIInv == Init => IInv
  <1> SUFFICES ASSUME Init
               PROVE  IInv
    OBVIOUS
  <1>1. TypeOK
    <2>1. /\ unlogged \in Seq(Notes) /\ waiters \in Seq(Sessions)
          /\ log \in [Sessions -> Seq(Entries)]
      BY DEF Init
    <2>2. slots \in Nat /\ faults \in 0..MaxFaults /\ attempt \in [Sessions -> 0..MaxFixAttempts]
      BY ConstantsAssumption DEF Init
    <2> QED
      BY <2>1, <2>2 DEF Init, TypeOK, PC
  <1>2. PhaseMatchesStatus
    BY DEF Init, PhaseMatchesStatus, Coherent
  <1>3. QueueInv
    BY DEF Init, QueueInv, WaitersInv, UnloggedInv
  <1>4. JobInv /\ VerifiedBeforeSummarizing
    BY DEF Init, JobInv, VerifiedBeforeSummarizing, Absent
  <1> QED
    BY <1>1, <1>2, <1>3, <1>4 DEF IInv

\* Every step of the system keeps IInv.
LEMMA NextKeepsIInv == IInv /\ [Next]_vars => IInv'
  <1> SUFFICES ASSUME IInv, [Next]_vars
               PROVE  IInv'
    OBVIOUS
  <1>1. ASSUME NEW s \in Sessions, Create(s) \/ Cancel(s)
        PROVE  IInv'
    BY <1>1, ApiSteps
  <1>2. ASSUME NEW s \in Sessions, Run(s)
        PROVE  IInv'
    BY <1>2, SlotSteps, TransitionSteps, QuietSteps, FailSteps, IngestFailsStep, VerdictSteps
       DEF Run
  <1>3. ASSUME NEW s \in Sessions, RunRaises(s) \/ CleanupFails(s)
        PROVE  IInv'
    BY <1>3, QuietSteps
  <1>4. CASE AppendEvent \/ AppendFails \/ Crash
    BY <1>4, AppendEventStep, FaultSteps
  <1>5. CASE UNCHANGED vars
    BY <1>5 DEF vars, jobVars, boxVars, semVars, IInv, TypeOK, PhaseMatchesStatus, QueueInv,
                WaitersInv, UnloggedInv, JobInv, VerifiedBeforeSummarizing
  <1> QED
    BY <1>1, <1>2, <1>3, <1>4, <1>5 DEF Next

\* IInv is an invariant of SessionLifecycle.
THEOREM Inductive == Spec => []IInv
  BY InitIInv, NextKeepsIInv, PTL DEF Spec

\* Every variable keeps its type, the attempt counter its bound included.
THEOREM TypeCorrect == Spec => []TypeOK
  <1>1. IInv => TypeOK
    BY DEF IInv
  <1> QED
    BY <1>1, Inductive, PTL

\* The status column tells the truth about the running task, through cancellations,
\* failed commits and restarts.
THEOREM StatusTruthful == Spec => []PhaseMatchesStatus
  <1>1. IInv => PhaseMatchesStatus
    BY DEF IInv
  <1> QED
    BY <1>1, Inductive, PTL

\* A repository with a suite reaches the approval gate only with the whole suite green on
\* the tree as it stands.
THEOREM NothingUnverified == Spec => []VerifiedBeforeSummarizing
  <1>1. IInv => VerifiedBeforeSummarizing
    BY DEF IInv
  <1> QED
    BY <1>1, Inductive, PTL

-----------------------------------------------------------------------------
\* The contract reads the same map of moves.
LEMMA SameMap ==
  /\ Contract!Absent = Absent
  /\ Contract!Status = Status
  /\ \A from, to : Contract!CanTransition(from, to) <=> CanTransition(from, to)
  BY DEF Contract!Absent, Absent, Contract!Status, Status, Contract!Terminal, Terminal,
         Contract!CanTransition, CanTransition, Contract!LegalTransitions, LegalTransitions

Ingesting == {"ingest", "failing"}

\* No status changes, and no session comes to be ingested.
Rests == UNCHANGED status /\ \A t \in Sessions : pc'[t] \in Ingesting => pc[t] \in Ingesting

\* One session enters the system or moves, its own run with it: along the map, short of
\* PR_OPENED, or to FAILED where its ingestion had been cancelled.
RunMoves(s) ==
  /\ \A t \in Sessions \ {s} : pc'[t] = pc[t]
  /\ \/ status[s] = Absent /\ status' = [status EXCEPT ![s] = "CREATED"]
     \/ \E to \in Status \ {"PR_OPENED", "HALTED"} :
          CanTransition(status[s], to) /\ status' = [status EXCEPT ![s] = to]
     \/ s \in CancelledIngesting /\ status' = [status EXCEPT ![s] = "FAILED"]

\* One session is cancelled.
Halts(s) ==
  /\ UNCHANGED pc
  /\ CanTransition(status[s], "HALTED") /\ status' = [status EXCEPT ![s] = "HALTED"]

StatusMoves == Rests \/ \E s \in Sessions : RunMoves(s) \/ Halts(s)

\* A transition of run(), failed or not, is such a move.
LEMMA ProceedMoves ==
  ASSUME pc \in [Sessions -> PC], NEW s \in Sessions, NEW to, to \notin {"PR_OPENED", "HALTED"},
         NEW next,
         \/ Proceed(s, to, next) \/ Fail(s, status[s])
         \/ s \in CancelledIngesting /\ Fail(s, "INGESTING")
  PROVE  StatusMoves
  <1>1. ASSUME NEW st, st \notin {"PR_OPENED", "HALTED"}, NEW by, NEW more, NEW p,
               Transition(s, st, by, more), Goto(s, p)
        PROVE  StatusMoves
    <2>1. st \in Status \ {"PR_OPENED", "HALTED"} /\ CanTransition(status[s], st)
      BY <1>1, LegalMovesStayInStatus DEF Transition, TransitionFrom
    <2>2. RunMoves(s)
      BY <1>1, <2>1 DEF Transition, TransitionFrom, Goto, RunMoves
    <2> QED
      BY <2>2 DEF StatusMoves
  <1>2. ASSUME NEW seen, Fail(s, seen), UNCHANGED status
        PROVE  StatusMoves
    <2>1. \A t \in Sessions : pc'[t] \in Ingesting => pc[t] \in Ingesting
      BY <1>2 DEF Fail, Goto, Finally, Ingesting
    <2> QED
      BY <1>2, <2>1 DEF StatusMoves, Rests
  <1>3. CASE Fail(s, status[s])
    <2>1. "FAILED" \notin {"PR_OPENED", "HALTED"}
      OBVIOUS
    <2> QED
      BY <1>1, <1>2, <1>3, <2>1 DEF Fail, Transition
  <1>4. CASE s \in CancelledIngesting /\ Fail(s, "INGESTING")
    <2>1. CASE UNCHANGED status
      BY <1>2, <1>4, <2>1
    <2>2. CASE status' = [status EXCEPT ![s] = "FAILED"]
      <3>1. RunMoves(s)
        BY <1>4, <2>2 DEF Fail, Goto, RunMoves
      <3> QED
        BY <3>1 DEF StatusMoves
    <2> QED
      BY <1>4, <2>1, <2>2 DEF Fail, TransitionFrom
  <1> QED
    BY <1>1, <1>3, <1>4 DEF Proceed

\* _fail() knows the status, unless it was cancelled under the ingestion that fails.
LEMMA FailSeesStatus ==
  ASSUME IInv, NEW s \in Sessions, Failing(s) \/ RunFails(s)
  PROVE  Fail(s, status[s]) \/ (s \in CancelledIngesting /\ Fail(s, "INGESTING"))
  <1>1. Coherent(pc[s], status[s])
    BY DEF IInv, PhaseMatchesStatus
  <1>2. Fail(s, Seen(s))
    BY DEF Failing, RunFails
  <1>3. CASE pc[s] \in {"ingest", "failing"}
    <2>1. status[s] \in {"INGESTING", "HALTED"}
      BY <1>1, <1>3 DEF Coherent
    <2> QED
      BY <1>2, <1>3, <2>1 DEF Seen, CancelledIngesting
  <1>4. CASE pc[s] \notin {"ingest", "failing"}
    BY <1>2, <1>4 DEF Seen
  <1> QED
    BY <1>3, <1>4

\* Nothing but Create, a checked transition and such a failure touches the status column.
LEMMA NextMoves ==
  ASSUME IInv, [Next]_vars
  PROVE  StatusMoves
  <1>0. pc \in [Sessions -> PC]
    BY DEF IInv, TypeOK
  <1>1. ASSUME NEW s \in Sessions, Create(s)
        PROVE  StatusMoves
    <2>1. status[s] = Absent
      BY <1>1 DEF Create, IInv, PhaseMatchesStatus, Coherent
    <2>2. RunMoves(s)
      BY <1>0, <1>1, <2>1 DEF Create, Goto, RunMoves
    <2> QED
      BY <2>2 DEF StatusMoves
  <1>2. ASSUME NEW s \in Sessions, Cancel(s)
        PROVE  StatusMoves
    <2>1. Halts(s)
      BY <1>2 DEF Cancel, Transition, TransitionFrom, Halts
    <2> QED
      BY <2>1 DEF StatusMoves
  <1>3. ASSUME NEW s \in Sessions, Run(s)
        PROVE  StatusMoves
    <2>1. CASE \/ Begin(s) \/ IngestReturns(s) \/ PlanReturns(s) \/ InvestigateReturns(s)
               \/ DiffReturns(s) \/ NoSuite(s) \/ Exhaust(s) \/ Retry(s)
               \/ RetryCheckReturns(s)
      <3>1. PICK to \in {"INGESTING", "PLANNING", "INVESTIGATING", "EDITING", "TESTING",
                         "SUMMARIZING", "EXHAUSTED"}, next \in PC :
              Proceed(s, to, next)
        BY <2>1
           DEF Begin, IngestReturns, PlanReturns, InvestigateReturns, DiffReturns, NoSuite,
               Exhaust, Retry, RetryCheckReturns, PC, Holding, Awaits, InStretch
      <3>2. to \notin {"PR_OPENED", "HALTED"}
        BY <3>1
      <3> QED
        BY <1>0, <3>1, <3>2, ProceedMoves
    <2>2. CASE Failing(s) \/ RunFails(s)
      <3>1. Fail(s, status[s]) \/ (s \in CancelledIngesting /\ Fail(s, "INGESTING"))
        BY <2>2, FailSeesStatus
      <3>2. "FAILED" \notin {"PR_OPENED", "HALTED"}
        OBVIOUS
      <3> QED
        BY <1>0, <3>1, <3>2, ProceedMoves
    <2>3. CASE TestReturns(s) \/ ConfirmReturns(s)
      <3>1. \/ Proceed(s, "SUMMARIZING", "cleanup")
            \/ UNCHANGED status /\ \E p \in {"confirm", "retry", "exhaust"} : Goto(s, p)
        BY <2>3 DEF TestReturns, ConfirmReturns, GreenVerdict, RedVerdict
      <3>2. "SUMMARIZING" \notin {"PR_OPENED", "HALTED"}
        OBVIOUS
      <3>3. ASSUME UNCHANGED status, NEW p \in {"confirm", "retry", "exhaust"}, Goto(s, p)
            PROVE  StatusMoves
        BY <1>0, <3>3 DEF Goto, StatusMoves, Rests, Ingesting
      <3> QED
        BY <1>0, <3>1, <3>2, <3>3, ProceedMoves
    <2>4. CASE \/ SetupReturns(s) \/ InstallReturns(s) \/ BaselineReturns(s)
               \/ PhaseCancelled(s) \/ EditReturns(s) \/ Increment(s) \/ RetryDiffReturns(s)
               \/ RetryEditReturns(s) \/ CleanupReturns(s) \/ IngestFails(s)
      <3>1. UNCHANGED status
        BY <2>4 DEF SetupReturns, InstallReturns, BaselineReturns, IngestFails,
                    PhaseCancelled, EditReturns, Increment, RetryDiffReturns, RetryEditReturns,
                    CleanupReturns
      <3>2. \E p : /\ pc' = [pc EXCEPT ![s] = p]
                   /\ p \in Ingesting => pc[s] \in Ingesting
        BY <2>4 DEF SetupReturns, InstallReturns, BaselineReturns, IngestFails,
                    PhaseCancelled, EditReturns, Increment, RetryDiffReturns, RetryEditReturns,
                    CleanupReturns, EnterPhase, Goto, Finally, Ingesting
      <3> QED
        BY <1>0, <3>1, <3>2 DEF StatusMoves, Rests
    <2>5. CASE Launch(s) \/ Release(s)
      <3>1. UNCHANGED status
        BY <2>5 DEF Launch, Release
      <3>2. \A t \in Sessions : pc'[t] \in Ingesting => pc[t] \in Ingesting
        BY <1>0, <2>5 DEF Launch, Release, LeaveSlot, Goto, Ingesting
      <3> QED
        BY <3>1, <3>2 DEF StatusMoves, Rests
    <2> QED
      BY <1>3, <2>1, <2>2, <2>3, <2>4, <2>5 DEF Run
  <1>4. ASSUME NEW s \in Sessions, RunRaises(s) \/ CleanupFails(s)
        PROVE  StatusMoves
    BY <1>0, <1>4 DEF RunRaises, CleanupFails, StatusMoves, Rests, Goto, Finally, Ingesting
  <1>5. CASE AppendFails
    BY <1>0, <1>5 DEF AppendFails, StatusMoves, Rests, Goto, Finally, Ingesting
  <1>6. CASE Crash
    BY <1>6 DEF Crash, StatusMoves, Rests, Ingesting
  <1>7. CASE AppendEvent \/ UNCHANGED vars
    BY <1>7 DEF AppendEvent, vars, StatusMoves, Rests
  <1> QED
    BY <1>1, <1>2, <1>3, <1>4, <1>5, <1>6, <1>7 DEF Next

\* The whole machinery, crashes and failed commits included, makes no move the session
\* contract does not allow: it implements the contract's part before the approval gate, and
\* overrules a cancellation only where the ingestion fails that it met.
THEOREM Refinement == Spec => ImplementsContract
  <1>1. Init => Contract!Init
    BY SameMap DEF Init, Contract!Init, CancelledIngesting
  <1>2. IInv /\ [Next]_vars => [Contract!Next]_(Contract!vars)
    <2> SUFFICES ASSUME IInv, [Next]_vars
                 PROVE  Contract!Next
      OBVIOUS
    <2>0. status \in [Sessions -> Status \cup {Absent}]
      BY DEF IInv, TypeOK
    <2>1. StatusMoves
      BY NextMoves
    <2>2. CASE Rests
      <3>1. CancelledIngesting' \in SUBSET CancelledIngesting
        BY <2>2 DEF Rests, CancelledIngesting, Ingesting
      <3>2. Contract!Settle
        BY <2>2, <3>1 DEF Rests, Contract!Settle
      <3> QED
        BY <3>2 DEF Contract!Next
    <2>3. ASSUME NEW s \in Sessions, RunMoves(s)
          PROVE  Contract!Next
      <3>1. \A t \in Sessions \ {s} : pc'[t] = pc[t] /\ status'[t] = status[t]
        BY <2>0, <2>3 DEF RunMoves
      <3>2. CASE status[s] = Absent /\ status' = [status EXCEPT ![s] = "CREATED"]
        <4>1. status'[s] = "CREATED" /\ status[s] # "HALTED"
          BY <2>0, <3>2 DEF Absent
        <4>2. CancelledIngesting' = CancelledIngesting
          BY <3>1, <4>1 DEF CancelledIngesting
        <4>3. Contract!Create(s)
          BY <3>2, <4>2, SameMap DEF Contract!Create
        <4> QED
          BY <4>3 DEF Contract!Next
      <3>3. ASSUME NEW to \in Status \ {"PR_OPENED", "HALTED"}, CanTransition(status[s], to),
                   status' = [status EXCEPT ![s] = to]
            PROVE  Contract!Next
        <4>1. status'[s] = to /\ status[s] # "HALTED"
          BY <2>0, <3>3, WorkMayFail
        <4>2. CancelledIngesting' = CancelledIngesting
          BY <3>1, <4>1 DEF CancelledIngesting
        <4>3. Contract!Advance(s, to) /\ to \in Contract!Status
          BY <3>3, <4>2, SameMap DEF Contract!Advance
        <4> QED
          BY <4>3 DEF Contract!Next
      <3>4. CASE s \in CancelledIngesting /\ status' = [status EXCEPT ![s] = "FAILED"]
        <4>1. status'[s] = "FAILED"
          BY <2>0, <3>4
        <4>2. CancelledIngesting' = CancelledIngesting \ {s}
          BY <3>1, <4>1 DEF CancelledIngesting
        <4>3. status[s] = "HALTED"
          BY <3>4 DEF CancelledIngesting
        <4>4. Contract!FailLate(s)
          BY <3>4, <4>2, <4>3 DEF Contract!FailLate
        <4> QED
          BY <4>4 DEF Contract!Next
      <3> QED
        BY <2>3, <3>2, <3>3, <3>4 DEF RunMoves
    <2>4. ASSUME NEW s \in Sessions, Halts(s)
          PROVE  Contract!Next
      <3>1. /\ status'[s] = "HALTED" /\ status[s] # "HALTED" /\ UNCHANGED pc
            /\ \A t \in Sessions \ {s} : status'[t] = status[t]
        BY <2>0, <2>4, WorkMayFail DEF Halts
      <3>2. pc[s] \in {"ingest", "failing"} => status[s] = "INGESTING"
        BY <3>1 DEF IInv, PhaseMatchesStatus, Coherent
      <3>3. \/ CancelledIngesting' = CancelledIngesting
            \/ status[s] = "INGESTING" /\ CancelledIngesting' = CancelledIngesting \cup {s}
        <4>1. CASE pc[s] \in {"ingest", "failing"}
          <5>1. CancelledIngesting' = CancelledIngesting \cup {s}
            BY <3>1, <4>1 DEF CancelledIngesting
          <5> QED
            BY <3>2, <4>1, <5>1
        <4>2. CASE pc[s] \notin {"ingest", "failing"}
          BY <3>1, <4>2 DEF CancelledIngesting
        <4> QED
          BY <4>1, <4>2
      <3>4. "HALTED" \in Contract!Status /\ "HALTED" # "PR_OPENED"
        BY SameMap DEF Status, Terminal
      <3>5. Contract!Advance(s, "HALTED")
        BY <2>4, <3>3, <3>4, SameMap DEF Halts, Contract!Advance
      <3> QED
        BY <3>4, <3>5 DEF Contract!Next
    <2> QED
      BY <2>1, <2>2, <2>3, <2>4 DEF StatusMoves
  <1> QED
    BY <1>1, <1>2, Inductive, PTL DEF Spec, ImplementsContract, Contract!Spec
-----------------------------------------------------------------------------
(***************************************************************************)
(* What a run takes, it gives back.  NothingHeld says so of the semaphore  *)
(* and of a run that has ended; HeldInv says for every place of a run what *)
(* it has in hand there.                                                   *)
(***************************************************************************)
BeforeBox == {"idle", "posted", "waiting", "starting", "ingest", "failing", "plan", "build"}
Equipped == {"baseline", "investigate", "edit", "diff", "test", "confirm", "retrydiff", "retryedit",
             "retrycheck", "nosuite", "exhaust", "retry", "increment", "cleanup", "unwind"}

\* A run at p may have a sandbox (box) and hold a workbench (bench) after n faults.
Boxed(p, box, bench, n) ==
  /\ p \in BeforeBox => ~box /\ ~bench
  /\ p = "install" => ~bench
  /\ p \in Equipped => bench
  /\ p \in {"return", "done"} /\ n = 0 => ~box
  /\ p \in {"unwind", "raise", "crashed"} => n # 0
  /\ p \in {"raise", "crashed"} /\ n = 1 /\ bench => ~box

BoxInv == \A s \in Sessions : Boxed(pc[s], sandbox[s], workbench[s], faults)

Holders == {s \in Sessions : pc[s] \in Holding}

SlotInv ==
  /\ IsFiniteSet(Holders) /\ slots + Cardinality(Holders) = MaxConcurrent
  /\ waiters # <<>> => slots = 0
  /\ \A s \in Sessions : pc[s] = "waiting" => \E i \in 1..Len(waiters) : waiters[i] = s

HeldInv == BoxInv /\ SlotInv

\* A stretch of s takes it to p, with what it then has in hand, and leaves the slots alone.
Glide(s, p, box, bench) ==
  /\ \/ pc[s] \in Holding /\ p \in Holding
     \/ pc[s] \in {"idle", "posted"} /\ p \in {"posted", "lost"}
  /\ pc' = [pc EXCEPT ![s] = p]
  /\ sandbox' = [sandbox EXCEPT ![s] = box] /\ workbench' = [workbench EXCEPT ![s] = bench]
  /\ faults' \in {faults, faults + 1}
  /\ UNCHANGED semVars
  /\ Boxed(p, box, bench, faults')

\* One more fault makes no demand on a run that had none to do with it.
LEMMA BoxedAfterFault ==
  ASSUME NEW p, NEW box \in BOOLEAN, NEW bench \in BOOLEAN, NEW n \in Nat, NEW m \in {n, n + 1},
         Boxed(p, box, bench, n)
  PROVE  Boxed(p, box, bench, m)
  <1>1. (m = 0 => n = 0) /\ (n # 0 => m # 0) /\ (n # 0 /\ m = 1 => n = 1)
    OBVIOUS
  <1> QED
    BY <1>1 DEF Boxed

\* Such a stretch keeps the slot, and everyone else what they had.
LEMMA GlideKeeps ==
  ASSUME IInv, HeldInv, NEW s \in Sessions, NEW p, NEW box, NEW bench, Glide(s, p, box, bench)
  PROVE  HeldInv'
  <1>1. /\ pc'[s] = p /\ sandbox'[s] = box /\ workbench'[s] = bench
        /\ \A t \in Sessions \ {s} :
             pc'[t] = pc[t] /\ sandbox'[t] = sandbox[t] /\ workbench'[t] = workbench[t]
    BY DEF Glide, IInv, TypeOK
  <1>2. BoxInv'
    <2>1. ASSUME NEW t \in Sessions \ {s}
          PROVE  Boxed(pc[t], sandbox[t], workbench[t], faults')
      <3>1. Boxed(pc[t], sandbox[t], workbench[t], faults)
        BY DEF HeldInv, BoxInv
      <3>2. sandbox[t] \in BOOLEAN /\ workbench[t] \in BOOLEAN /\ faults \in Nat
        BY DEF IInv, TypeOK
      <3>3. faults' \in {faults, faults + 1}
        BY DEF Glide
      <3> QED
        BY <3>1, <3>2, <3>3, BoxedAfterFault
    <2>2. Boxed(p, box, bench, faults')
      BY DEF Glide
    <2> QED
      BY <1>1, <2>1, <2>2 DEF BoxInv
  <1>3. Holders' = Holders
    BY <1>1 DEF Holders, Glide, Holding, Awaits, InStretch
  <1>4. \A t \in Sessions : pc'[t] = "waiting" => pc[t] = "waiting"
    BY <1>1 DEF Glide, Holding, Awaits, InStretch
  <1>5. UNCHANGED <<slots, waiters>>
    BY DEF Glide, semVars
  <1>6. SlotInv'
    BY <1>3, <1>4, <1>5 DEF HeldInv, SlotInv
  <1> QED
    BY <1>2, <1>6 DEF HeldInv

\* What a run has in hand where it stands.
LEMMA InHand ==
  ASSUME IInv, HeldInv, NEW s \in Sessions
  PROVE  /\ Boxed(pc[s], sandbox[s], workbench[s], faults) /\ faults \in Nat
         /\ pc \in [Sessions -> PC]
         /\ sandbox' = sandbox => sandbox' = [sandbox EXCEPT ![s] = sandbox[s]]
         /\ workbench' = workbench => workbench' = [workbench EXCEPT ![s] = workbench[s]]
  BY DEF IInv, TypeOK, HeldInv, BoxInv

\* A run on its way to its end without an exception takes the way round by the cleanup if it
\* has anything to clean up.
LEMMA QuietEnd ==
  ASSUME NEW s, NEW n, Boxed(pc[s], sandbox[s], workbench[s], n),
         pc[s] \in BeforeBox \cup (Equipped \ {"unwind"})
  PROVE  Boxed(Finally(s, TRUE), sandbox[s], workbench[s], n)
  BY DEF Boxed, Finally, BeforeBox, Equipped

\* A transition takes the run on, or to that end.
LEMMA ProceedGlides ==
  ASSUME IInv, HeldInv, NEW s \in Sessions, NEW to, NEW next \in Holding,
         Proceed(s, to, next) \/ \E seen : Fail(s, seen),
         Boxed(next, sandbox[s], workbench[s], faults),
         pc[s] \in Holding \cap (BeforeBox \cup (Equipped \ {"unwind"})),
         UNCHANGED <<boxVars, semVars, faults>>
  PROVE  HeldInv'
  <1>1. PICK p \in {next, Finally(s, TRUE)} : pc' = [pc EXCEPT ![s] = p]
    BY DEF Proceed, Fail, Goto
  <1>2. Boxed(p, sandbox[s], workbench[s], faults)
    <2>1. Boxed(pc[s], sandbox[s], workbench[s], faults)
      BY InHand
    <2>2. pc[s] \in BeforeBox \cup (Equipped \ {"unwind"})
      OBVIOUS
    <2>3. Boxed(Finally(s, TRUE), sandbox[s], workbench[s], faults)
      BY <2>1, <2>2, QuietEnd
    <2> QED
      BY <1>1, <2>3
  <1>3. p \in Holding
    BY <1>1 DEF Finally, Holding, InStretch
  <1>4. UNCHANGED <<sandbox, workbench, faults>>
    BY DEF boxVars
  <1>5. Glide(s, p, sandbox[s], workbench[s])
    BY <1>1, <1>2, <1>3, <1>4, InHand DEF Glide
  <1> QED
    BY <1>5, GlideKeeps

\* The transitions of run(), and its failures.
LEMMA TransitionsHeld ==
  ASSUME IInv, HeldInv, NEW s \in Sessions,
         \/ Begin(s) \/ IngestReturns(s) \/ PlanReturns(s) \/ InvestigateReturns(s)
         \/ DiffReturns(s) \/ NoSuite(s) \/ Exhaust(s) \/ Retry(s) \/ RetryCheckReturns(s)
         \/ Failing(s) \/ RunFails(s)
  PROVE  HeldInv'
  <1>1. Boxed(pc[s], sandbox[s], workbench[s], faults)
    BY InHand
  <1>2. UNCHANGED <<boxVars, semVars, faults>>
    BY DEF Begin, IngestReturns, PlanReturns, InvestigateReturns, DiffReturns, NoSuite, Exhaust,
           Retry, RetryCheckReturns, Failing, RunFails
  <1>3. PICK to \in Status, next \in Holding :
          /\ Proceed(s, to, next) \/ \E seen : Fail(s, seen)
          /\ \/ pc[s] \in {"starting", "ingest", "plan"} /\ next \in {"ingest", "plan", "build"}
             \/ pc[s] \in Equipped /\ next \in Equipped \ {"unwind"}
             \/ next = pc[s]
    <2>1. CASE Begin(s) \/ IngestReturns(s) \/ PlanReturns(s)
      BY <2>1, TransitionTargets DEF Begin, IngestReturns, PlanReturns
    <2>2. CASE InvestigateReturns(s) \/ NoSuite(s) \/ Exhaust(s) \/ Retry(s) \/ RetryCheckReturns(s)
      BY <2>2, TransitionTargets
         DEF InvestigateReturns, NoSuite, Exhaust, Retry, RetryCheckReturns, Equipped
    <2>3. CASE DiffReturns(s)
      BY <2>3, TransitionTargets DEF DiffReturns, Equipped
    <2>4. CASE Failing(s) \/ RunFails(s)
      <3>1. pc[s] \in Holding /\ \E seen : Fail(s, seen)
        BY <2>4 DEF Failing, RunFails, Holding, InStretch
      <3> QED
        BY <3>1, TransitionTargets
    <2> QED
      BY <2>1, <2>2, <2>3, <2>4
  <1>4. Boxed(next, sandbox[s], workbench[s], faults)
    BY <1>1, <1>3 DEF Boxed, BeforeBox, Equipped
  <1>5. pc[s] \in Holding \cap (BeforeBox \cup (Equipped \ {"unwind"}))
    BY DEF Begin, IngestReturns, PlanReturns, InvestigateReturns, DiffReturns, NoSuite, Exhaust,
           Retry, RetryCheckReturns, Failing, RunFails, Holding, Awaits, InStretch, BeforeBox,
           Equipped
  <1> QED
    BY <1>2, <1>3, <1>4, <1>5, ProceedGlides

\* The stretches between the transitions.
LEMMA QuietHeld ==
  ASSUME IInv, HeldInv, NEW s \in Sessions,
         \/ IngestFails(s) \/ SetupReturns(s) \/ InstallReturns(s) \/ BaselineReturns(s)
         \/ PhaseCancelled(s) \/ EditReturns(s) \/ Increment(s) \/ RetryDiffReturns(s)
         \/ RetryEditReturns(s) \/ TestReturns(s) \/ ConfirmReturns(s)
  PROVE  HeldInv'
  <1>1. /\ Boxed(pc[s], sandbox[s], workbench[s], faults) /\ faults \in Nat
        /\ sandbox' = sandbox => sandbox' = [sandbox EXCEPT ![s] = sandbox[s]]
        /\ workbench' = workbench => workbench' = [workbench EXCEPT ![s] = workbench[s]]
    BY InHand
  <1>2. CASE SetupReturns(s)
    <2>1. Boxed("install", TRUE, workbench[s], faults)
      BY <1>1, <1>2 DEF SetupReturns, Boxed, BeforeBox, Equipped
    <2>2. Glide(s, "install", TRUE, workbench[s])
      BY <1>1, <1>2, <2>1 DEF SetupReturns, Goto, Glide, Holding, Awaits
    <2> QED
      BY <2>2, GlideKeeps
  <1>3. CASE InstallReturns(s)
    <2>1. PICK p \in {"baseline", "cleanup", "investigate"} : pc' = [pc EXCEPT ![s] = p]
      BY <1>3 DEF InstallReturns, Goto
    <2>2. Boxed(p, sandbox[s], TRUE, faults)
      BY <2>1 DEF Boxed, BeforeBox, Equipped
    <2>3. p \in Holding
      BY <2>1 DEF Holding, Awaits
    <2>4. Glide(s, p, sandbox[s], TRUE)
      BY <1>1, <1>3, <2>1, <2>2, <2>3 DEF InstallReturns, Glide, Holding, Awaits
    <2> QED
      BY <2>4, GlideKeeps
  <1>4. CASE TestReturns(s) \/ ConfirmReturns(s)
    <2>1. /\ pc[s] \in Equipped \ {"unwind"} /\ pc[s] \in Holding
          /\ UNCHANGED <<boxVars, semVars, faults>>
      BY <1>4 DEF TestReturns, ConfirmReturns, Equipped, Holding, Awaits
    <2>2. CASE Proceed(s, "SUMMARIZING", "cleanup")
      <3>1. Boxed("cleanup", sandbox[s], workbench[s], faults) /\ "cleanup" \in Holding
        BY <1>1, <2>1 DEF Boxed, BeforeBox, Equipped, Holding
      <3> QED
        BY <2>1, <2>2, <3>1, ProceedGlides
    <2>3. ASSUME NEW p \in {"confirm", "retry", "exhaust"}, pc' = [pc EXCEPT ![s] = p]
          PROVE  HeldInv'
      <3>1. Boxed(p, sandbox[s], workbench[s], faults)
        BY <1>1, <2>1 DEF Boxed, BeforeBox, Equipped
      <3>2. p \in Holding
        BY DEF Holding, Awaits, InStretch
      <3>3. Glide(s, p, sandbox[s], workbench[s])
        BY <1>1, <2>1, <2>3, <3>1, <3>2 DEF Glide, boxVars
      <3> QED
        BY <3>3, GlideKeeps
    <2> QED
      BY <1>4, <2>2, <2>3 DEF TestReturns, ConfirmReturns, GreenVerdict, RedVerdict, Goto
  <1>5. CASE \/ IngestFails(s) \/ BaselineReturns(s) \/ PhaseCancelled(s) \/ EditReturns(s)
             \/ Increment(s) \/ RetryDiffReturns(s) \/ RetryEditReturns(s)
    <2>1. UNCHANGED <<sandbox, workbench, semVars, faults>> /\ pc[s] \in Holding
      BY <1>5 DEF IngestFails, BaselineReturns, PhaseCancelled, EditReturns, Increment,
                  RetryDiffReturns, RetryEditReturns, boxVars, Phases, Holding, Awaits, InStretch
    <2>2. PICK p \in {"failing", "investigate", "diff", "retrydiff", "retryedit", "retrycheck",
                      Finally(s, TRUE)} :
            /\ pc' = [pc EXCEPT ![s] = p]
            /\ IF p = "failing" THEN pc[s] = "ingest" ELSE pc[s] \in Equipped \ {"unwind"}
      BY <1>5 DEF IngestFails, BaselineReturns, PhaseCancelled, EditReturns, Increment,
                  RetryDiffReturns, RetryEditReturns, EnterPhase, Goto, Phases, Equipped, Finally
    <2>3. Boxed(p, sandbox[s], workbench[s], faults)
      BY <1>1, <2>2 DEF Boxed, BeforeBox, Equipped, Finally
    <2>4. p \in Holding
      BY <2>2 DEF Finally, Holding, Awaits, InStretch
    <2>5. Glide(s, p, sandbox[s], workbench[s])
      BY <1>1, <2>1, <2>2, <2>3, <2>4 DEF Glide
    <2> QED
      BY <2>5, GlideKeeps
  <1> QED
    BY <1>2, <1>3, <1>4, <1>5

\* The cleanup, which may leave the sandbox up only at the cost of a fault, and an exception.
LEMMA LeavingHeld ==
  ASSUME IInv, HeldInv, NEW s \in Sessions,
         CleanupReturns(s) \/ CleanupFails(s) \/ RunRaises(s)
  PROVE  HeldInv'
  <1>1. /\ Boxed(pc[s], sandbox[s], workbench[s], faults) /\ faults \in Nat
        /\ sandbox' = sandbox => sandbox' = [sandbox EXCEPT ![s] = sandbox[s]]
        /\ workbench' = workbench => workbench' = [workbench EXCEPT ![s] = workbench[s]]
    BY InHand
  <1>2. faults + 1 # 0 /\ (faults # 0 => faults + 1 # 1)
    BY <1>1
  <1>3. CASE CleanupReturns(s)
    <2>1. PICK p \in {"return", "raise"} :
            pc' = [pc EXCEPT ![s] = p] /\ pc[s] = IF p = "return" THEN "cleanup" ELSE "unwind"
      BY <1>3 DEF CleanupReturns, Goto
    <2>2. Boxed(p, FALSE, workbench[s], faults)
      BY <1>1, <2>1 DEF Boxed, BeforeBox, Equipped
    <2>3. p \in Holding /\ pc[s] \in Holding
      BY <2>1 DEF Holding, InStretch
    <2>4. Glide(s, p, FALSE, workbench[s])
      BY <1>1, <1>3, <2>1, <2>2, <2>3 DEF CleanupReturns, Glide
    <2> QED
      BY <2>4, GlideKeeps
  <1>4. CASE CleanupFails(s)
    <2>1. PICK p \in {"return", "raise"} :
            pc' = [pc EXCEPT ![s] = p] /\ pc[s] = IF p = "return" THEN "cleanup" ELSE "unwind"
      BY <1>4 DEF CleanupFails, Goto
    <2>2. Boxed(p, sandbox[s], workbench[s], faults + 1)
      BY <1>1, <1>2, <2>1 DEF Boxed, BeforeBox, Equipped
    <2>3. p \in Holding /\ pc[s] \in Holding
      BY <2>1 DEF Holding, InStretch
    <2>4. Glide(s, p, sandbox[s], workbench[s])
      BY <1>1, <1>4, <2>1, <2>2, <2>3 DEF CleanupFails, Glide, boxVars
    <2> QED
      BY <2>4, GlideKeeps
  <1>5. CASE RunRaises(s)
    <2>1. pc' = [pc EXCEPT ![s] = Finally(s, FALSE)]
      BY <1>5 DEF RunRaises, Goto
    <2>2. Boxed(Finally(s, FALSE), sandbox[s], workbench[s], faults + 1)
      BY <1>2 DEF Finally, Boxed, BeforeBox, Equipped
    <2>3. Finally(s, FALSE) \in Holding
      BY DEF Finally, Holding, InStretch
    <2>4. pc[s] \in Holding
      BY <1>5 DEF RunRaises, Holding
    <2>5. Glide(s, Finally(s, FALSE), sandbox[s], workbench[s])
      BY <1>1, <1>5, <2>1, <2>2, <2>3, <2>4 DEF RunRaises, Glide, boxVars
    <2> QED
      BY <2>5, GlideKeeps
  <1> QED
    BY <1>3, <1>4, <1>5

\* Creating, cancelling and appending hold nothing; a failed append is an exception of the run
\* it belongs to, or loses a session that had nothing yet.
LEMMA OutsideHeld ==
  ASSUME IInv, HeldInv,
         (\E s \in Sessions : Create(s) \/ Cancel(s)) \/ AppendEvent \/ AppendFails
  PROVE  HeldInv'
  <1>1. ASSUME NEW s \in Sessions, Create(s)
        PROVE  HeldInv'
    <2>1. /\ Boxed(pc[s], sandbox[s], workbench[s], faults)
          /\ sandbox' = [sandbox EXCEPT ![s] = sandbox[s]]
          /\ workbench' = [workbench EXCEPT ![s] = workbench[s]]
      BY <1>1, InHand DEF Create, boxVars
    <2>2. Boxed("posted", sandbox[s], workbench[s], faults)
      BY <1>1, <2>1 DEF Create, Boxed, BeforeBox, Equipped
    <2>3. Glide(s, "posted", sandbox[s], workbench[s])
      BY <1>1, <2>1, <2>2 DEF Create, Goto, Glide
    <2> QED
      BY <2>3, GlideKeeps
  <1>2. ASSUME UNCHANGED <<pc, boxVars, semVars, faults>>
        PROVE  HeldInv'
    BY <1>2 DEF HeldInv, BoxInv, SlotInv, Holders, boxVars, semVars
  <1>3. CASE AppendFails
    <2> DEFINE e == Head(unlogged)
    <2>1. e \in Notes /\ e = unlogged[1] /\ 1 \in 1..Len(unlogged)
      BY <1>3, UnloggedHead DEF AppendFails, IInv, TypeOK
    <2>2. PICK s \in Sessions : s = e.s
      BY <2>1 DEF Notes
    <2>3. /\ e.by = "run" => pc[s] \in Holding
          /\ e.by = "create" => pc[s] = "posted"
      BY <2>1, <2>2 DEF IInv, QueueInv, UnloggedInv
    <2>4. /\ faults \in Nat /\ pc' = pc => pc' = [pc EXCEPT ![s] = pc[s]]
          /\ Boxed(pc[s], sandbox[s], workbench[s], faults)
          /\ sandbox' = [sandbox EXCEPT ![s] = sandbox[s]]
          /\ workbench' = [workbench EXCEPT ![s] = workbench[s]]
      BY <1>3, InHand DEF AppendFails, boxVars
    <2>5. faults' = faults + 1 /\ faults + 1 # 0 /\ UNCHANGED semVars
      <3>1. faults \in Nat
        BY DEF IInv, TypeOK
      <3>2. faults' = faults + 1 /\ UNCHANGED semVars
        BY <1>3 DEF AppendFails
      <3> QED
        BY <3>1, <3>2
    <2>6. CASE e.by = "run" /\ pc' = [pc EXCEPT ![s] = Finally(s, FALSE)]
      <3>1. Boxed(Finally(s, FALSE), sandbox[s], workbench[s], faults + 1)
        BY <2>5 DEF Finally, Boxed, BeforeBox, Equipped
      <3>2. Finally(s, FALSE) \in Holding /\ pc[s] \in Holding
        BY <2>3, <2>6 DEF Finally, Holding, InStretch
      <3>3. Glide(s, Finally(s, FALSE), sandbox[s], workbench[s])
        BY <2>4, <2>5, <2>6, <3>1, <3>2 DEF Glide
      <3> QED
        BY <3>3, GlideKeeps
    <2>7. CASE e.by = "create" /\ pc' = [pc EXCEPT ![s] = "lost"]
      <3>1. Boxed("lost", sandbox[s], workbench[s], faults + 1)
        BY DEF Boxed, BeforeBox, Equipped
      <3>2. Glide(s, "lost", sandbox[s], workbench[s])
        BY <2>3, <2>4, <2>5, <2>7, <3>1 DEF Glide
      <3> QED
        BY <3>2, GlideKeeps
    <2>8. CASE UNCHANGED pc
      <3>1. BoxInv'
        <4> SUFFICES ASSUME NEW t \in Sessions
                     PROVE  Boxed(pc[t], sandbox[t], workbench[t], faults + 1)
          BY <1>3, <2>5, <2>8 DEF BoxInv, AppendFails, boxVars
        <4>1. sandbox[t] \in BOOLEAN /\ workbench[t] \in BOOLEAN /\ faults \in Nat
          BY DEF IInv, TypeOK
        <4>2. Boxed(pc[t], sandbox[t], workbench[t], faults)
          BY DEF HeldInv, BoxInv
        <4> QED
          BY <4>1, <4>2, BoxedAfterFault
      <3>2. SlotInv'
        BY <2>5, <2>8 DEF HeldInv, SlotInv, Holders, semVars
      <3> QED
        BY <3>1, <3>2 DEF HeldInv
    <2> QED
      BY <1>3, <2>2, <2>6, <2>7, <2>8 DEF AppendFails, Goto
  <1> QED
    BY <1>1, <1>2, <1>3 DEF Cancel, AppendEvent

\* A session that gets a slot counts for one; a crash starts the count anew.
LEMMA SlotsHeld ==
  ASSUME IInv, HeldInv, (\E s \in Sessions : Launch(s) \/ Release(s)) \/ Crash
  PROVE  HeldInv'
  <1> DEFINE N == Cardinality(Holders)
  <1>1. /\ IsFiniteSet(Holders) /\ N \in Nat /\ slots \in Nat /\ slots + N = MaxConcurrent
        /\ waiters # <<>> => slots = 0
        /\ \A r \in Sessions : pc[r] = "waiting" => \E i \in 1..Len(waiters) : waiters[i] = r
        /\ waiters \in Seq(Sessions) /\ pc \in [Sessions -> PC] /\ faults \in Nat
    BY FS_CardinalityType DEF HeldInv, SlotInv, IInv, TypeOK
  <1>2. \A r \in Sessions : Boxed(pc[r], sandbox[r], workbench[r], faults)
    BY DEF HeldInv, BoxInv
  <1>3. ASSUME NEW s \in Sessions, Launch(s)
        PROVE  HeldInv'
    <2>1. pc[s] = "posted" /\ s \notin Holders /\ UNCHANGED <<sandbox, workbench, faults>>
      BY <1>3 DEF Launch, boxVars, Holders, Holding, Awaits, InStretch
    <2>2. CASE /\ slots > 0 /\ waiters = <<>> /\ slots' = slots - 1
               /\ Goto(s, "starting") /\ UNCHANGED waiters
      <3>1. pc'[s] = "starting" /\ \A r \in Sessions \ {s} : pc'[r] = pc[r]
        BY <1>1, <2>2 DEF Goto
      <3>2. Holders' = Holders \cup {s}
        BY <3>1 DEF Holders, Holding
      <3>3. IsFiniteSet(Holders') /\ Cardinality(Holders') = N + 1
        BY <1>1, <2>1, <3>2, FS_AddElement
      <3>4. slots' + Cardinality(Holders') = MaxConcurrent
        BY <1>1, <2>2, <3>3
      <3>5. SlotInv'
        BY <1>1, <2>2, <3>1, <3>3, <3>4 DEF SlotInv
      <3>6. BoxInv'
        BY <1>2, <2>1, <3>1 DEF BoxInv, Boxed, BeforeBox, Equipped
      <3> QED
        BY <3>5, <3>6 DEF HeldInv
    <2>3. CASE /\ ~(slots > 0 /\ waiters = <<>>) /\ waiters' = Append(waiters, s)
               /\ Goto(s, "waiting") /\ UNCHANGED slots
      <3>1. pc'[s] = "waiting" /\ \A r \in Sessions \ {s} : pc'[r] = pc[r]
        BY <1>1, <2>3 DEF Goto
      <3>2. Holders' = Holders
        BY <2>1, <3>1 DEF Holders, Holding, Awaits, InStretch
      <3>3. slots = 0
        BY <1>1, <2>3
      <3>4. /\ Len(waiters') = Len(waiters) + 1 /\ Len(waiters) \in Nat
            /\ waiters'[Len(waiters) + 1] = s
            /\ \A i \in 1..Len(waiters) : waiters'[i] = waiters[i]
        BY <1>1, <2>3
      <3>5. ASSUME NEW r \in Sessions, pc'[r] = "waiting"
            PROVE  \E i \in 1..Len(waiters') : waiters'[i] = r
        <4>1. CASE r = s
          BY <3>4, <4>1
        <4>2. CASE r # s
          <5>1. PICK i \in 1..Len(waiters) : waiters[i] = r
            BY <1>1, <3>1, <3>5, <4>2
          <5>2. i \in 1..Len(waiters') /\ waiters'[i] = r
            BY <3>4, <5>1
          <5> QED
            BY <5>2
        <4> QED
          BY <4>1, <4>2
      <3>6. SlotInv'
        BY <1>1, <2>3, <3>2, <3>3, <3>5 DEF SlotInv
      <3>7. BoxInv'
        BY <1>2, <2>1, <3>1 DEF BoxInv, Boxed, BeforeBox, Equipped
      <3> QED
        BY <3>6, <3>7 DEF HeldInv
    <2> QED
      BY <1>3, <2>2, <2>3 DEF Launch
  <1>4. ASSUME NEW s \in Sessions, Release(s)
        PROVE  HeldInv'
    <2>1. PICK end \in {"done", "crashed"} :
            LeaveSlot(s, end) /\ pc[s] = (IF end = "done" THEN "return" ELSE "raise")
      BY <1>4 DEF Release
    <2>2. /\ s \in Holders /\ end \notin Holding /\ end # "waiting"
          /\ UNCHANGED <<sandbox, workbench, faults>>
      BY <1>4, <2>1 DEF Release, boxVars, Holders, Holding, Awaits, InStretch
    <2>3. Boxed(end, sandbox[s], workbench[s], faults)
      BY <1>2, <2>1 DEF Boxed, BeforeBox, Equipped
    <2>4. IsFiniteSet(Holders \ {s}) /\ Cardinality(Holders \ {s}) = N - 1
      BY <1>1, <2>2, FS_RemoveElement
    <2>5. CASE waiters = <<>> /\ slots' = slots + 1 /\ Goto(s, end) /\ UNCHANGED waiters
      <3>1. pc'[s] = end /\ \A r \in Sessions \ {s} : pc'[r] = pc[r]
        BY <1>1, <2>5 DEF Goto
      <3>2. Holders' = Holders \ {s}
        BY <2>2, <3>1 DEF Holders
      <3>3. SlotInv'
        BY <1>1, <2>2, <2>4, <2>5, <3>1, <3>2 DEF SlotInv
      <3>4. BoxInv'
        BY <1>2, <2>2, <2>3, <3>1 DEF BoxInv
      <3> QED
        BY <3>3, <3>4 DEF HeldInv
    <2>6. CASE /\ waiters # <<>> /\ waiters' = Tail(waiters)
               /\ pc' = [pc EXCEPT ![s] = end, ![Head(waiters)] = "starting"]
               /\ UNCHANGED slots
      <3>1. PICK next \in Sessions : next = Head(waiters) /\ next = waiters[1]
        BY <1>1, <2>6
      <3>2. pc[next] = "waiting"
        <4>1. 1 \in 1..Len(waiters)
          BY <1>1, <2>6
        <4> QED
          BY <3>1, <4>1 DEF IInv, QueueInv, WaitersInv
      <3>3. next # s
        BY <2>1, <3>2
      <3>4. /\ pc'[s] = end /\ pc'[next] = "starting"
            /\ \A r \in Sessions \ {s, next} : pc'[r] = pc[r]
        BY <1>1, <2>6, <3>1, <3>3
      <3>5. Holders' = (Holders \ {s}) \cup {next} /\ next \notin Holders \ {s}
        BY <2>2, <3>2, <3>3, <3>4 DEF Holders, Holding, Awaits, InStretch
      <3>6. IsFiniteSet(Holders') /\ Cardinality(Holders') = N - 1 + 1
        BY <2>4, <3>5, FS_AddElement
      <3>7. slots' + Cardinality(Holders') = MaxConcurrent /\ slots' = 0
        BY <1>1, <2>6, <3>6
      <3>8. ASSUME NEW r \in Sessions, pc'[r] = "waiting"
            PROVE  \E i \in 1..Len(waiters') : waiters'[i] = r
        <4>1. r # next /\ pc[r] = "waiting"
          BY <2>2, <3>3, <3>4, <3>8
        <4>2. PICK i \in 1..Len(waiters) : waiters[i] = r
          BY <1>1, <4>1
        <4>3. i # 1
          BY <3>1, <4>1, <4>2
        <4>4. i - 1 \in 1..Len(Tail(waiters)) /\ Tail(waiters)[i - 1] = waiters[i]
          BY <1>1, <2>6, <4>2, <4>3
        <4> QED
          BY <2>6, <4>2, <4>4
      <3>9. SlotInv'
        BY <3>6, <3>7, <3>8 DEF SlotInv
      <3>10. Boxed("starting", sandbox[next], workbench[next], faults)
        BY <1>2, <3>2 DEF Boxed, BeforeBox, Equipped
      <3>11. BoxInv'
        BY <1>2, <2>2, <2>3, <3>4, <3>10 DEF BoxInv
      <3> QED
        BY <3>9, <3>11 DEF HeldInv
    <2> QED
      BY <2>1, <2>5, <2>6 DEF LeaveSlot
  <1>5. CASE Crash
    <2>1. /\ slots' = MaxConcurrent /\ waiters' = <<>> /\ faults' = faults + 1
          /\ UNCHANGED <<sandbox, workbench>>
          /\ \A r \in Sessions :
               \/ pc'[r] = "lost"
               \/ pc'[r] = pc[r] /\ pc[r] \in {"idle"} \cup Ended
      BY <1>5 DEF Crash, boxVars
    <2>2. Holders' = {}
      BY <2>1 DEF Holders, Holding, Awaits, InStretch, Ended
    <2>3. IsFiniteSet(Holders') /\ Cardinality(Holders') = 0
      BY <2>2, FS_EmptySet
    <2>4. \A r \in Sessions : pc'[r] # "waiting"
      BY <2>1 DEF Ended
    <2>5. SlotInv'
      BY <2>1, <2>3, <2>4, ConstantsAssumption DEF SlotInv
    <2>6. ASSUME NEW r \in Sessions
          PROVE  Boxed(pc'[r], sandbox[r], workbench[r], faults + 1)
      <3>1. sandbox[r] \in BOOLEAN /\ workbench[r] \in BOOLEAN
        BY DEF IInv, TypeOK
      <3>2. Boxed(pc[r], sandbox[r], workbench[r], faults + 1)
        BY <1>1, <1>2, <3>1, BoxedAfterFault
      <3>3. Boxed("lost", sandbox[r], workbench[r], faults + 1)
        BY DEF Boxed, BeforeBox, Equipped
      <3> QED
        BY <2>1, <3>2, <3>3
    <2>7. BoxInv'
      BY <2>1, <2>6 DEF BoxInv
    <2> QED
      BY <2>5, <2>7 DEF HeldInv
  <1> QED
    BY <1>3, <1>4, <1>5

\* Nothing is held at the start.
LEMMA InitHeld == Init => HeldInv
  <1> SUFFICES ASSUME Init PROVE HeldInv
    OBVIOUS
  <1>1. Holders = {}
    BY DEF Init, Holders, Holding, Awaits, InStretch
  <1>2. SlotInv
    BY <1>1, FS_EmptySet, ConstantsAssumption DEF Init, SlotInv
  <1>3. BoxInv
    BY DEF Init, BoxInv, Boxed, BeforeBox, Equipped
  <1> QED
    BY <1>2, <1>3 DEF HeldInv

\* Every step of the system keeps account.
LEMMA NextKeepsHeld == IInv /\ HeldInv /\ [Next]_vars => HeldInv'
  <1> SUFFICES ASSUME IInv, HeldInv, [Next]_vars PROVE HeldInv'
    OBVIOUS
  <1>1. ASSUME NEW s \in Sessions, Run(s)
        PROVE  HeldInv'
    BY <1>1, SlotsHeld, TransitionsHeld, QuietHeld, LeavingHeld DEF Run
  <1>2. ASSUME NEW s \in Sessions, Create(s) \/ Cancel(s) \/ RunRaises(s) \/ CleanupFails(s)
        PROVE  HeldInv'
    BY <1>2, OutsideHeld, LeavingHeld
  <1>3. CASE AppendEvent \/ AppendFails \/ Crash
    BY <1>3, OutsideHeld, SlotsHeld
  <1>4. CASE UNCHANGED vars
    BY <1>4 DEF vars, boxVars, semVars, HeldInv, BoxInv, SlotInv, Holders
  <1> QED
    BY <1>1, <1>2, <1>3, <1>4 DEF Next

\* What a run takes it gives back on every way out of it: no slot is lost or invented by any
\* number of sessions, and no sandbox outlives a run that nothing disturbed.
THEOREM EverythingGivenBack == Spec => []NothingHeld
  <1>1. IInv /\ HeldInv => NothingHeld
    <2> SUFFICES ASSUME IInv, HeldInv PROVE NothingHeld
      OBVIOUS
    <2>1. ToSet(waiters) = {s \in Sessions : pc[s] = "waiting"}
      <3>1. ToSet(waiters) = {waiters[i] : i \in 1..Len(waiters)}
        <4>1. waiters \in Seq(Sessions)
          BY DEF IInv, TypeOK
        <4>2. DOMAIN waiters = 1..Len(waiters)
          BY <4>1
        <4> QED
          BY <4>2 DEF ToSet
      <3>2. \A i \in 1..Len(waiters) : waiters[i] \in Sessions /\ pc[waiters[i]] = "waiting"
        BY DEF IInv, TypeOK, QueueInv, WaitersInv
      <3>3. \A s \in Sessions : pc[s] = "waiting" => \E i \in 1..Len(waiters) : waiters[i] = s
        BY DEF HeldInv, SlotInv
      <3> QED
        BY <3>1, <3>2, <3>3
    <2>2. SlotsConserved
      BY <2>1 DEF HeldInv, SlotInv, Holders, SlotsConserved
    <2>3. SandboxReleased
      BY DEF HeldInv, BoxInv, Boxed, SandboxReleased
    <2> QED
      BY <2>2, <2>3 DEF NothingHeld
  <1>2. Init => IInv /\ HeldInv
    BY InitIInv, InitHeld
  <1>3. IInv /\ HeldInv /\ [Next]_vars => (IInv /\ HeldInv)'
    BY NextKeepsIInv, NextKeepsHeld
  <1> QED
    BY <1>1, <1>2, <1>3, PTL DEF Spec

-----------------------------------------------------------------------------
\* A transition of a halted session's run takes it to the end.
LEMMA HaltedProceeds ==
  ASSUME NEW s \in Sessions, status[s] = "HALTED", pc \in [Sessions -> PC], NEW to, NEW next,
         Proceed(s, to, next) \/ \E seen : Fail(s, seen)
  PROVE  pc'[s] \notin Phases
  <1>1. ~(Transition(s, to, "run", <<>>) /\ Goto(s, next))
    BY WorkMayFail DEF Transition, TransitionFrom
  <1>2. PICK seen : Fail(s, seen)
    BY <1>1 DEF Proceed
  <1> QED
    BY <1>2 DEF Fail, Goto, Finally, Phases

\* No stretch of its own run takes a halted session into a phase.
LEMMA HaltedRunStays ==
  ASSUME IInv, NEW s \in Sessions, status[s] = "HALTED", pc[s] \notin Phases,
         Run(s) \/ RunRaises(s) \/ CleanupFails(s)
  PROVE  pc'[s] \notin Phases
  <1>1. pc \in [Sessions -> PC]
    BY DEF IInv, TypeOK
  <1>2. CASE \/ Begin(s) \/ IngestReturns(s) \/ PlanReturns(s) \/ InvestigateReturns(s)
             \/ DiffReturns(s) \/ NoSuite(s) \/ Exhaust(s) \/ Retry(s) \/ RetryCheckReturns(s)
             \/ Failing(s) \/ RunFails(s)
    <2>1. PICK to, next : Proceed(s, to, next) \/ \E seen : Fail(s, seen)
      BY <1>2 DEF Begin, IngestReturns, PlanReturns, InvestigateReturns, DiffReturns, NoSuite,
                  Exhaust, Retry, RetryCheckReturns, Failing, RunFails
    <2> QED
      BY <1>1, <2>1, HaltedProceeds
  <1>3. CASE TestReturns(s) \/ ConfirmReturns(s)
    <2>1. \/ Proceed(s, "SUMMARIZING", "cleanup")
          \/ \E p \in {"confirm", "retry", "exhaust"} : pc' = [pc EXCEPT ![s] = p]
      BY <1>3 DEF TestReturns, ConfirmReturns, GreenVerdict, RedVerdict, Goto
    <2> QED
      BY <1>1, <2>1, HaltedProceeds DEF Phases
  <1>4. CASE \/ IngestFails(s) \/ SetupReturns(s) \/ InstallReturns(s) \/ BaselineReturns(s)
             \/ PhaseCancelled(s) \/ EditReturns(s) \/ Increment(s) \/ RetryDiffReturns(s)
             \/ RetryEditReturns(s) \/ CleanupReturns(s) \/ RunRaises(s) \/ CleanupFails(s)
    <2>1. \E p \in {"failing", "install", "baseline", "cleanup", "return", "unwind", "raise", "diff",
                    "retrydiff", "retrycheck"} : pc' = [pc EXCEPT ![s] = p]
      BY <1>4 DEF IngestFails, SetupReturns, InstallReturns, BaselineReturns, PhaseCancelled,
                  EditReturns, Increment, RetryDiffReturns, RetryEditReturns, CleanupReturns,
                  RunRaises, CleanupFails, EnterPhase, Goto, Finally
    <2> QED
      BY <1>1, <2>1 DEF Phases
  <1>5. CASE Launch(s)
    BY <1>1, <1>5 DEF Launch, Goto, Phases
  <1>6. CASE Release(s)
    BY <1>1, <1>6 DEF Release, LeaveSlot, Goto, Phases
  <1> QED
    BY <1>2, <1>3, <1>4, <1>5, <1>6 DEF Run

\* Nor does another session's, which at most hands it a slot.
LEMMA OthersRunStays ==
  ASSUME IInv, NEW s \in Sessions, NEW t \in Sessions \ {s}, pc[s] \notin Phases,
         Run(t) \/ RunRaises(t) \/ CleanupFails(t)
  PROVE  pc'[s] \notin Phases
  <1>1. pc \in [Sessions -> PC]
    BY DEF IInv, TypeOK
  <1>2. CASE Release(t)
    BY <1>1, <1>2 DEF Release, LeaveSlot, Goto, Phases
  <1>3. CASE \E p : pc' = [pc EXCEPT ![t] = p]
    BY <1>1, <1>3
  <1>4. ASSUME NEW to, NEW next, Proceed(t, to, next) \/ \E seen : Fail(t, seen)
        PROVE  \E p : pc' = [pc EXCEPT ![t] = p]
    BY <1>4 DEF Proceed, Fail, Goto
  <1>5. CASE \/ Begin(t) \/ IngestReturns(t) \/ PlanReturns(t) \/ InvestigateReturns(t)
             \/ DiffReturns(t) \/ NoSuite(t) \/ Exhaust(t) \/ Retry(t) \/ RetryCheckReturns(t)
             \/ Failing(t) \/ RunFails(t)
    <2>1. PICK to, next : Proceed(t, to, next) \/ \E seen : Fail(t, seen)
      BY <1>5 DEF Begin, IngestReturns, PlanReturns, InvestigateReturns, DiffReturns, NoSuite,
                  Exhaust, Retry, RetryCheckReturns, Failing, RunFails
    <2> QED
      BY <1>3, <1>4, <2>1
  <1>6. CASE TestReturns(t) \/ ConfirmReturns(t)
    BY <1>3, <1>4, <1>6 DEF TestReturns, ConfirmReturns, GreenVerdict, RedVerdict, Goto
  <1>7. CASE \/ IngestFails(t) \/ SetupReturns(t) \/ InstallReturns(t) \/ BaselineReturns(t)
             \/ PhaseCancelled(t) \/ EditReturns(t) \/ Increment(t) \/ RetryDiffReturns(t)
             \/ RetryEditReturns(t) \/ CleanupReturns(t) \/ RunRaises(t) \/ CleanupFails(t)
             \/ Launch(t)
    <2>1. \E p : pc' = [pc EXCEPT ![t] = p]
      BY <1>7 DEF IngestFails, SetupReturns, InstallReturns, BaselineReturns, PhaseCancelled,
                  EditReturns, Increment, RetryDiffReturns, RetryEditReturns, CleanupReturns,
                  RunRaises, CleanupFails, Launch, EnterPhase, Goto
    <2> QED
      BY <1>3, <2>1
  <1> QED
    BY <1>2, <1>5, <1>6, <1>7 DEF Run

\* No agent phase starts on a session that was cancelled before it: not by its own run, not by
\* another's, and not by a fault.
THEOREM HaltedStartsNoPhase == Spec => NoPhaseAfterHalt
  <1>1. IInv /\ [Next]_vars =>
          [\A s \in Sessions :
             status[s] = "HALTED" /\ pc[s] \notin Phases => pc'[s] \notin Phases]_vars
    <2> SUFFICES ASSUME IInv, Next, NEW s \in Sessions, status[s] = "HALTED", pc[s] \notin Phases
                 PROVE  pc'[s] \notin Phases
      OBVIOUS
    <2>1. pc \in [Sessions -> PC]
      BY DEF IInv, TypeOK
    <2>2. ASSUME NEW t \in Sessions, Run(t) \/ RunRaises(t) \/ CleanupFails(t)
          PROVE  pc'[s] \notin Phases
      BY <2>2, HaltedRunStays, OthersRunStays
    <2>3. ASSUME NEW t \in Sessions, Create(t) \/ Cancel(t)
          PROVE  pc'[s] \notin Phases
      BY <2>1, <2>3 DEF Create, Cancel, Goto, Phases
    <2>4. CASE AppendEvent
      BY <2>4 DEF AppendEvent
    <2>5. CASE AppendFails
      BY <2>1, <2>5 DEF AppendFails, Goto, Finally, Phases
    <2>6. CASE Crash
      BY <2>6 DEF Crash, Phases
    <2> QED
      BY <2>2, <2>3, <2>4, <2>5, <2>6 DEF Next
  <1> QED
    BY <1>1, Inductive, PTL DEF Spec, NoPhaseAfterHalt
-----------------------------------------------------------------------------
(***************************************************************************)
(* The log is true.  A status and its event are two commits, so what the    *)
(* log says is compared with the status and the events still to append: of  *)
(* those only the first can be a move, and only HALTED one that is not of   *)
(* the run (MoveInv).  LedgerInv counts the retries at every place of a     *)
(* run, ReplayInv replays the moves.                                        *)
(***************************************************************************)
MoveInv ==
  \A i \in 1..Len(unlogged) :
    IsMove(unlogged[i].entry) =>
      i = 1 /\ (unlogged[i].by # "run" => unlogged[i].entry.to = "HALTED")

\* The first event to append is one of s.
Heads(s) == unlogged # <<>> /\ Head(unlogged).s = s

\* Retries of s that are made but not yet in the log.
Pending(s) == IF Heads(s) /\ Head(unlogged).entry = Changed("TESTING", "EDITING") THEN 1 ELSE 0

BeforeLoop ==
  {"idle", "posted", "waiting", "starting", "ingest", "failing", "plan", "build", "install",
   "baseline", "investigate", "edit", "diff", "nosuite"}
Leaving == {"cleanup", "unwind", "return", "raise"} \cup Ended

\* A run at p on attempt a has its retries counted as f, n of them in the log and q to append,
\* after k faults.
Reckoned(p, a, f, n, q, k) ==
  /\ p \in BeforeLoop => f = 0 /\ n = 0 /\ q = 0
  /\ p \in {"test", "confirm", "exhaust", "retry"} => f = a - 1 /\ n = a - 1 /\ q = 0
  /\ p = "increment" => f = a - 1 /\ n + q = a
  /\ p \in {"retrydiff", "retryedit", "retrycheck"} => f = a /\ n = a /\ q = 0
  /\ p \in Leaving => f <= n /\ q = 0 /\ (k = 0 => f = n)
  /\ n < MaxFixAttempts

RetryInv ==
  \A s \in Sessions :
    Reckoned(pc[s], attempt[s], fixAttempts[s], Retries(s), Pending(s), faults)

LedgerInv == MoveInv /\ RetryInv

\* The log of s replays, with a move that is still to append, to the status.
Replays(s) ==
  /\ \A i \in DOMAIN log[s] : IsMove(log[s][i]) => Follows(log[s], i - 1, log[s][i])
  /\ status[s] = Absent => log[s] = <<>> /\ ~Heads(s)
  /\ status[s] # Absent =>
       IF Heads(s) /\ IsMove(Head(unlogged).entry)
       THEN /\ Head(unlogged).entry.to = status[s]
            /\ Follows(log[s], Len(log[s]), Head(unlogged).entry)
       ELSE Leading(log[s], Len(log[s]), status[s])

ReplayInv ==
  faults = 0 =>
    /\ \A s \in Sessions : Replays(s)
    /\ \A i \in 1..Len(unlogged) : status[unlogged[i].s] # Absent

\* A stretch of s leaves e to append first, and behind it nothing that is a move.
Queues(s, e) ==
  /\ unlogged' \in Seq(Notes) /\ unlogged' # <<>> /\ Head(unlogged') = e
  /\ \A i \in 1..Len(unlogged') :
       /\ unlogged'[i].s = s
       /\ IsMove(unlogged'[i].entry) =>
            i = 1 /\ (unlogged'[i].by # "run" => unlogged'[i].entry.to = "HALTED")

Moves(s, from, to) ==
  /\ CanTransition(from, to) /\ status' = [status EXCEPT ![s] = to]
  /\ \E by \in Writers : Queues(s, Note(s, by, Changed(from, to)))

Kinds == {"SESSION_CREATED", "SESSION_FAILED", "FIX_ATTEMPT"}
Reports(s) == \E by \in Writers, kind \in Kinds : Queues(s, Note(s, by, Plain(kind)))

\* A move says from where to where; the other events are no moves.
LEMMA EventsWritten ==
  /\ \A from, to : /\ IsMove(Changed(from, to))
                   /\ Changed(from, to).from = from /\ Changed(from, to).to = to
                   /\ from \in Status /\ to \in Status => Changed(from, to) \in Entries
  /\ \A kind \in Kinds : ~IsMove(Plain(kind)) /\ Plain(kind) \in Entries
  BY DEF IsMove, Changed, Plain, Kinds, Entries

\* What a stretch writes first, and SESSION_FAILED behind it if it failed.
LEMMA NotesQueue ==
  ASSUME NEW s \in Sessions, NEW by \in Writers, NEW entry \in Entries,
         NEW more \in {<<>>, <<Note(s, by, Plain("SESSION_FAILED"))>>},
         unlogged' = <<Note(s, by, entry)>> \o more,
         IsMove(entry) /\ by # "run" => entry.to = "HALTED"
  PROVE  Queues(s, Note(s, by, entry))
  <1> DEFINE n == Note(s, by, entry)
             m == Note(s, by, Plain("SESSION_FAILED"))
  <1>1. Plain("SESSION_FAILED") \in Entries /\ ~IsMove(Plain("SESSION_FAILED"))
    BY EventsWritten DEF Kinds
  <1>2. /\ n \in Notes /\ n.s = s /\ n.by = by /\ n.entry = entry
        /\ m \in Notes /\ m.s = s /\ m.by = by /\ m.entry = Plain("SESSION_FAILED")
    BY <1>1 DEF Note, Notes
  <1> HIDE DEF n, m
  <1>3. /\ <<n>> \in Seq(Notes) /\ Len(<<n>>) = 1 /\ <<n>>[1] = n
        /\ <<m>> \in Seq(Notes) /\ Len(<<m>>) = 1 /\ <<m>>[1] = m
    BY <1>2
  <1>4. CASE more = <<>>
    <2> DEFINE q == <<n>>
    <2>1. unlogged' = q
      <3>1. <<n>> \o <<>> = <<n>>
        BY <1>3
      <3> QED
        BY <1>4, <3>1 DEF n
    <2>4. q \in Seq(Notes) /\ q # <<>> /\ Head(q) = n /\ Len(q) = 1 /\ q[1] = n
      BY <1>3
    <2> HIDE DEF q
    <2>2. /\ unlogged' \in Seq(Notes) /\ unlogged' # <<>> /\ Head(unlogged') = n
          /\ Len(unlogged') = 1 /\ unlogged'[1] = n
      BY <2>1, <2>4
    <2>3. \A i \in 1..Len(unlogged') : i = 1
      BY <2>2
    <2> QED
      BY <1>2, <2>2, <2>3 DEF Queues, n
  <1>5. CASE more = <<m>>
    <2>1. unlogged' = <<n>> \o <<m>>
      BY <1>5 DEF n
    <2> DEFINE q == <<n>> \o <<m>>
    <2>2. /\ q \in Seq(Notes) /\ q # <<>> /\ Head(q) = n
          /\ Len(q) = 2 /\ q[1] = n /\ q[2] = m
      <3>1. q \in Seq(Notes) /\ Len(q) = 2
        BY <1>3
      <3>2. q[1] = n /\ q[2] = m
        BY <1>3
      <3> QED
        BY <3>1, <3>2
    <2> HIDE DEF q
    <2>4. unlogged' = q
      BY <2>1 DEF q
    <2>3. \A i \in 1..Len(unlogged') : i = 1 \/ i = 2
      BY <2>2, <2>4
    <2> QED
      BY <1>1, <1>2, <2>2, <2>3, <2>4 DEF Queues, n
  <1> QED
    BY <1>4, <1>5 DEF m

\* transition() moves, a cancellation to HALTED.
LEMMA TransitionQueues ==
  ASSUME NEW s \in Sessions, NEW seen, NEW to, NEW by \in Writers,
         NEW more \in {<<>>, <<Note(s, by, Plain("SESSION_FAILED"))>>},
         TransitionFrom(s, seen, to, by, more), by = "run" \/ to = "HALTED"
  PROVE  Moves(s, seen, to)
  <1>1. Changed(seen, to) \in Entries /\ Changed(seen, to).to = to
    BY LegalMovesStayInStatus, EventsWritten DEF TransitionFrom
  <1>2. Queues(s, Note(s, by, Changed(seen, to)))
    BY <1>1, NotesQueue DEF TransitionFrom
  <1> QED
    BY <1>2 DEF TransitionFrom, Moves

\* An event that is no move, alone.
LEMMA PlainQueues ==
  ASSUME NEW s \in Sessions, NEW by \in Writers, NEW kind \in Kinds,
         unlogged' = <<Note(s, by, Plain(kind))>>
  PROVE  Reports(s)
  <1>1. Plain(kind) \in Entries /\ ~IsMove(Plain(kind))
    BY EventsWritten
  <1>2. unlogged' = <<Note(s, by, Plain(kind))>> \o <<>>
    OBVIOUS
  <1>3. Queues(s, Note(s, by, Plain(kind)))
    BY <1>1, <1>2, NotesQueue
  <1> QED
    BY <1>3 DEF Reports

\* _fail() moves to FAILED or only reports, and takes the run to its end.
LEMMA FailWrites ==
  ASSUME NEW s \in Sessions, NEW seen, Fail(s, seen)
  PROVE  /\ Moves(s, seen, "FAILED") \/ (UNCHANGED status /\ Reports(s))
         /\ pc' = [pc EXCEPT ![s] = Finally(s, TRUE)]
  <1>1. "run" \in Writers /\ "SESSION_FAILED" \in Kinds
    BY DEF Writers, Kinds
  <1> DEFINE failed == <<Note(s, "run", Plain("SESSION_FAILED"))>>
  <1>2. ASSUME TransitionFrom(s, seen, "FAILED", "run", failed)
        PROVE  Moves(s, seen, "FAILED")
    BY <1>1, <1>2, TransitionQueues
  <1>3. ASSUME unlogged' = failed
        PROVE  Reports(s)
    BY <1>1, <1>3, PlainQueues
  <1> QED
    BY <1>2, <1>3 DEF Fail, Goto

\* A transition of run() moves and goes on, or fails.
LEMMA ProceedWrites ==
  ASSUME NEW s \in Sessions, NEW to, NEW next, Proceed(s, to, next)
  PROVE  \/ Moves(s, status[s], to) /\ pc' = [pc EXCEPT ![s] = next]
         \/ Fail(s, status[s])
  <1>1. "run" \in Writers
    BY DEF Writers
  <1> QED
    BY <1>1, TransitionQueues DEF Proceed, Transition, Goto

\* What is then to append: a retry only of s, and only if e is one.
LEMMA QueuesPending ==
  ASSUME NEW s \in Sessions, NEW e, Queues(s, e)
  PROVE  /\ MoveInv' /\ \A t \in Sessions \ {s} : Pending(t)' = 0
         /\ Pending(s)' = IF e.entry = Changed("TESTING", "EDITING") THEN 1 ELSE 0
  <1>1. Head(unlogged').s = s /\ Head(unlogged') = e /\ unlogged' # <<>>
    <2>1. unlogged' \in Seq(Notes) /\ unlogged' # <<>>
      BY DEF Queues
    <2>2. 1 \in 1..Len(unlogged') /\ Head(unlogged') = unlogged'[1]
      BY <2>1
    <2> QED
      BY <2>1, <2>2 DEF Queues
  <1>2. MoveInv'
    BY DEF Queues, MoveInv
  <1> QED
    BY <1>1, <1>2 DEF Pending, Heads

\* Nothing to append.
LEMMA NothingPending ==
  /\ unlogged = <<>> => MoveInv /\ \A t : Pending(t) = 0
  /\ unlogged' = <<>> => MoveInv' /\ \A t : Pending(t)' = 0
  <1>1. Len(<<>>) = 0
    OBVIOUS
  <1> QED
    BY <1>1 DEF Pending, Heads, MoveInv

\* There are finitely many retries in a log.
LEMMA RetriesFinite ==
  ASSUME IInv, NEW s \in Sessions
  PROVE  IsFiniteSet({i \in DOMAIN log[s] : log[s][i] = Changed("TESTING", "EDITING")})
  <1>1. log[s] \in Seq(Entries)
    BY DEF IInv, TypeOK
  <1>2. Len(log[s]) \in Int /\ 1 \in Int /\ DOMAIN log[s] = 1..Len(log[s])
    BY <1>1
  <1>3. IsFiniteSet(1..Len(log[s]))
    BY <1>2, FS_Interval
  <1> QED
    BY <1>2, <1>3, FS_Subset

\* The numbers that are reckoned with.
LEMMA RetriesTyped ==
  ASSUME IInv, NEW s \in Sessions
  PROVE  /\ Retries(s) \in Nat /\ Pending(s) \in {0, 1}
         /\ attempt[s] \in Int /\ attempt[s] <= MaxFixAttempts
         /\ fixAttempts[s] \in Nat /\ faults \in Nat /\ MaxFixAttempts \in Nat
  <1>1. attempt[s] \in 0..MaxFixAttempts /\ fixAttempts[s] \in Nat
    BY DEF IInv, TypeOK
  <1>2. Retries(s) \in Nat
    BY RetriesFinite, FS_CardinalityType DEF Retries
  <1>3. faults \in Nat /\ MaxFixAttempts \in Nat
    BY ConstantsAssumption DEF IInv, TypeOK
  <1> QED
    BY <1>1, <1>2, <1>3 DEF Pending

\* One more fault makes no demand on a run that had none to do with it.
LEMMA ReckonedAfterFault ==
  ASSUME NEW p, NEW a, NEW f, NEW n, NEW q, NEW k \in Nat, NEW m \in {k, k + 1},
         Reckoned(p, a, f, n, q, k)
  PROVE  Reckoned(p, a, f, n, q, m)
  <1>1. m = 0 => k = 0
    OBVIOUS
  <1> QED
    BY <1>1 DEF Reckoned

\* A step that takes s to p with the right count, and leaves the others' counts alone.
LEMMA LedgerStep ==
  ASSUME IInv, LedgerInv, NEW s \in Sessions, NEW p, pc' = [pc EXCEPT ![s] = p], UNCHANGED log,
         \A t \in Sessions \ {s} :
           /\ attempt'[t] = attempt[t] /\ fixAttempts'[t] = fixAttempts[t]
           /\ Pending(t) = 0,
         faults' \in {faults, faults + 1},
         unlogged' = <<>> \/ \E e : Queues(s, e),
         Reckoned(p, attempt'[s], fixAttempts'[s], Retries(s), Pending(s)', faults')
  PROVE  LedgerInv'
  <1>1. MoveInv' /\ \A t \in Sessions \ {s} : Pending(t)' = 0
    BY NothingPending, QueuesPending
  <1>2. \A t : Retries(t)' = Retries(t)
    BY DEF Retries
  <1>3. pc'[s] = p /\ \A t \in Sessions \ {s} : pc'[t] = pc[t]
    BY DEF IInv, TypeOK
  <1>4. ASSUME NEW t \in Sessions \ {s}
        PROVE  Reckoned(pc[t], attempt[t], fixAttempts[t], Retries(t), 0, faults')
    <2>1. Reckoned(pc[t], attempt[t], fixAttempts[t], Retries(t), 0, faults)
      BY DEF LedgerInv, RetryInv
    <2>2. faults \in Nat
      BY RetriesTyped
    <2> QED
      BY <2>1, <2>2, ReckonedAfterFault
  <1>5. RetryInv'
    BY <1>1, <1>2, <1>3, <1>4 DEF RetryInv
  <1> QED
    BY <1>1, <1>5 DEF LedgerInv

\* What is reckoned for a run, and that nobody else has a retry to append while it has its turn.
LEMMA Reckoning ==
  ASSUME IInv, LedgerInv, NEW s \in Sessions
  PROVE  /\ Reckoned(pc[s], attempt[s], fixAttempts[s], Retries(s), Pending(s), faults)
         /\ unlogged = <<>> => \A t \in Sessions : Pending(t) = 0
  BY NothingPending DEF LedgerInv, RetryInv

\* Where a retry is not half made, a run that ends has its retries counted.
Settled == BeforeLoop \cup {"test", "confirm", "exhaust", "retry", "retrydiff", "retryedit",
                            "retrycheck"}

\* An end from there.
LEMMA Closes ==
  ASSUME NEW p \in Settled, NEW a \in Int, NEW b, NEW f \in Nat, NEW n \in Nat, NEW q, NEW k,
         Reckoned(p, a, f, n, q, k), NEW g \in Leaving
  PROVE  Reckoned(g, b, f, n, 0, k)
  <1>1. f = n /\ n < MaxFixAttempts
    BY DEF Reckoned, Settled
  <1>2. g \notin BeforeLoop \cup {"test", "confirm", "exhaust", "retry", "increment", "retrydiff",
                                  "retryedit", "retrycheck"}
    BY DEF Leaving, Ended, BeforeLoop
  <1> QED
    BY <1>1, <1>2 DEF Reckoned

\* _fail() keeps the count.
LEMMA FailLedger ==
  ASSUME IInv, LedgerInv, NEW s \in Sessions, NEW seen, Fail(s, seen), unlogged = <<>>,
         pc[s] \in Settled,
         \A t \in Sessions \ {s} : attempt'[t] = attempt[t],
         UNCHANGED <<log, fixAttempts, faults>>
  PROVE  LedgerInv'
  <1>1. /\ pc' = [pc EXCEPT ![s] = Finally(s, TRUE)]
        /\ Moves(s, seen, "FAILED") \/ Reports(s)
    BY FailWrites
  <1>2. Finally(s, TRUE) \in Leaving
    BY DEF Finally, Leaving
  <1>3. PICK e : Queues(s, e) /\ e.entry # Changed("TESTING", "EDITING")
    <2>1. Changed(seen, "FAILED") # Changed("TESTING", "EDITING")
      BY DEF Changed
    <2>2. \A kind \in Kinds : Plain(kind) # Changed("TESTING", "EDITING")
      BY EventsWritten
    <2>3. \A by, entry : Note(s, by, entry).entry = entry
      BY DEF Note
    <2> QED
      BY <1>1, <2>1, <2>2, <2>3 DEF Moves, Reports
  <1>4. Pending(s)' = 0
    BY <1>3, QueuesPending
  <1>5. Reckoned(Finally(s, TRUE), attempt'[s], fixAttempts[s], Retries(s), 0, faults)
    <2>1. Reckoned(pc[s], attempt[s], fixAttempts[s], Retries(s), Pending(s), faults)
      BY Reckoning
    <2>2. attempt[s] \in Int /\ fixAttempts[s] \in Nat /\ Retries(s) \in Nat
      BY RetriesTyped
    <2> QED
      BY <1>2, <2>1, <2>2, Closes
  <1> QED
    BY <1>1, <1>3, <1>4, <1>5, Reckoning, LedgerStep

\* A transition of run() keeps the count if it is right where the run goes on.
LEMMA ProceedLedger ==
  ASSUME IInv, LedgerInv, NEW s \in Sessions, NEW to, NEW next, Proceed(s, to, next),
         unlogged = <<>>, pc[s] \in Settled,
         \A t \in Sessions \ {s} : attempt'[t] = attempt[t],
         UNCHANGED <<log, fixAttempts, faults>>,
         CanTransition(status[s], to) =>
           Reckoned(next, attempt'[s], fixAttempts[s], Retries(s),
                    IF status[s] = "TESTING" /\ to = "EDITING" THEN 1 ELSE 0, faults)
  PROVE  LedgerInv'
  <1>1. CASE Fail(s, status[s])
    BY <1>1, FailLedger
  <1>2. CASE Moves(s, status[s], to) /\ pc' = [pc EXCEPT ![s] = next]
    <2>1. PICK by \in Writers : Queues(s, Note(s, by, Changed(status[s], to)))
      BY <1>2 DEF Moves
    <2>2. Pending(s)' = IF status[s] = "TESTING" /\ to = "EDITING" THEN 1 ELSE 0
      <3>1. Pending(s)' = IF Changed(status[s], to) = Changed("TESTING", "EDITING") THEN 1 ELSE 0
        BY <2>1, QueuesPending DEF Note
      <3> QED
        BY <3>1 DEF Changed
    <2>3. CanTransition(status[s], to)
      BY <1>2 DEF Moves
    <2> QED
      BY <1>2, <2>1, <2>2, <2>3, Reckoning, LedgerStep
  <1> QED
    BY <1>1, <1>2, ProceedWrites

\* The transitions of run().
LEMMA TransitionsLedger ==
  ASSUME IInv, LedgerInv, NEW s \in Sessions,
         \/ Begin(s) \/ IngestReturns(s) \/ PlanReturns(s) \/ InvestigateReturns(s)
         \/ DiffReturns(s) \/ NoSuite(s) \/ Exhaust(s) \/ Retry(s) \/ RetryCheckReturns(s)
  PROVE  LedgerInv'
  <1> DEFINE n == Retries(s)
             f == fixAttempts[s]
             a == attempt[s]
  <1>1. /\ Reckoned(pc[s], a, f, n, 0, faults) /\ unlogged = <<>>
        /\ n \in Nat /\ f \in Nat /\ a \in Int /\ attempt \in [Sessions -> 0..MaxFixAttempts]
    <2>1. unlogged = <<>>
      BY DEF Turn, Begin, IngestReturns, PlanReturns, InvestigateReturns, DiffReturns, NoSuite,
             Exhaust, Retry, RetryCheckReturns
    <2>2. attempt \in [Sessions -> 0..MaxFixAttempts]
      BY DEF IInv, TypeOK
    <2> QED
      BY <2>1, <2>2, Reckoning, RetriesTyped
  <1>2. Coherent(pc[s], status[s])
    BY DEF IInv, PhaseMatchesStatus
  <1> HIDE DEF n, f, a
  <1>3. ASSUME NEW to, NEW next, Proceed(s, to, next), pc[s] \in Settled,
               UNCHANGED <<log, jobVars, faults>>,
               to # "EDITING" \/ status[s] # "TESTING",
               Reckoned(next, a, f, n, 0, faults)
        PROVE  LedgerInv'
    BY <1>1, <1>3, ProceedLedger DEF jobVars, n, f, a
  <1>4. CASE Begin(s) \/ IngestReturns(s) \/ PlanReturns(s)
    <2>1. PICK to \in {"INGESTING", "PLANNING", "INVESTIGATING"}, next \in {"ingest", "plan", "build"} :
            Proceed(s, to, next)
      BY <1>4 DEF Begin, IngestReturns, PlanReturns
    <2>2. /\ pc[s] \in BeforeLoop
          /\ UNCHANGED <<log, attempt, fixAttempts, faults>>
      BY <1>4 DEF Begin, IngestReturns, PlanReturns, BeforeLoop, jobVars
    <2>3. Reckoned(next, a, f, n, 0, faults)
      BY <1>1, <2>2 DEF Reckoned, BeforeLoop, Leaving, Ended
    <2> QED
      BY <1>1, <2>1, <2>2, <2>3, ProceedLedger DEF Settled, n, f, a
  <1>5. CASE InvestigateReturns(s)
    <2>1. /\ Proceed(s, "EDITING", "edit") /\ pc[s] = "investigate"
          /\ UNCHANGED <<log, jobVars, faults>>
      BY <1>5 DEF InvestigateReturns
    <2>2. status[s] # "TESTING"
      BY <1>2, <2>1 DEF Coherent
    <2>3. Reckoned("edit", a, f, n, 0, faults)
      BY <1>1, <2>1 DEF Reckoned, BeforeLoop, Leaving, Ended
    <2> QED
      BY <1>3, <2>1, <2>2, <2>3 DEF Settled, BeforeLoop
  <1>6. CASE DiffReturns(s)
    <2>1. PICK next \in {"test", "nosuite"} : Proceed(s, "TESTING", next)
      BY <1>6 DEF DiffReturns
    <2>2. /\ pc[s] = "diff" /\ UNCHANGED <<log, fixAttempts, faults>>
          /\ attempt' = [attempt EXCEPT ![s] = 1]
      BY <1>6 DEF DiffReturns
    <2>3. attempt'[s] = 1 /\ \A t \in Sessions \ {s} : attempt'[t] = attempt[t]
      BY <1>1, <2>2
    <2>4. Reckoned(next, 1, f, n, 0, faults)
      BY <1>1, <2>2 DEF Reckoned, BeforeLoop, Leaving, Ended
    <2> QED
      BY <1>1, <2>1, <2>2, <2>3, <2>4, ProceedLedger DEF Settled, BeforeLoop, n, f
  <1>7. CASE NoSuite(s) \/ Exhaust(s)
    <2>1. /\ \E to \in {"SUMMARIZING", "EXHAUSTED"} : Proceed(s, to, "cleanup")
          /\ pc[s] \in {"nosuite", "exhaust"} /\ UNCHANGED <<log, jobVars, faults>>
      BY <1>7 DEF NoSuite, Exhaust
    <2>2. pc[s] \in Settled /\ "cleanup" \in Leaving
      BY <2>1 DEF Settled, BeforeLoop, Leaving
    <2>3. Reckoned("cleanup", a, f, n, 0, faults)
      BY <1>1, <2>2, Closes
    <2> QED
      BY <1>3, <2>1, <2>2, <2>3
  <1>8. CASE Retry(s)
    <2>1. /\ Proceed(s, "EDITING", "increment") /\ pc[s] = "retry"
          /\ UNCHANGED <<log, jobVars, faults>>
      BY <1>8 DEF Retry
    <2>2. CanTransition(status[s], "EDITING") => status[s] = "TESTING"
      BY <1>2, <2>1, WorkMayFail DEF Coherent
    <2>3. f = a - 1 /\ n = a - 1 /\ n < MaxFixAttempts
      BY <1>1, <2>1 DEF Reckoned
    <2>4. n + 1 = a
      BY <1>1, <2>3
    <2>5. Reckoned("increment", a, f, n, 1, faults)
      BY <2>3, <2>4 DEF Reckoned, BeforeLoop, Leaving, Ended
    <2> QED
      BY <1>1, <2>1, <2>2, <2>5, ProceedLedger DEF Settled, jobVars, n, f, a
  <1>9. CASE RetryCheckReturns(s)
    <2>1. /\ Proceed(s, "TESTING", "test") /\ pc[s] = "retrycheck"
          /\ UNCHANGED <<log, fixAttempts, faults>>
          /\ attempt' = [attempt EXCEPT ![s] = @ + 1]
      BY <1>9 DEF RetryCheckReturns
    <2>2. attempt'[s] = a + 1 /\ \A t \in Sessions \ {s} : attempt'[t] = attempt[t]
      BY <1>1, <2>1 DEF a
    <2>3. f = a /\ n = a /\ n < MaxFixAttempts
      BY <1>1, <2>1 DEF Reckoned
    <2>4. f = (a + 1) - 1 /\ n = (a + 1) - 1
      BY <1>1, <2>3
    <2>5. Reckoned("test", a + 1, f, n, 0, faults)
      BY <2>3, <2>4 DEF Reckoned, BeforeLoop, Leaving, Ended
    <2> QED
      BY <1>1, <2>1, <2>2, <2>5, ProceedLedger DEF Settled, n, f
  <1> QED
    BY <1>4, <1>5, <1>6, <1>7, <1>8, <1>9

\* Failing and reporting a failure.
LEMMA FailuresLedger ==
  ASSUME IInv, LedgerInv, NEW s \in Sessions, Failing(s) \/ RunFails(s) \/ IngestFails(s)
  PROVE  LedgerInv'
  <1>1. unlogged = <<>> /\ UNCHANGED <<log, jobVars, faults>>
    BY DEF Failing, RunFails, IngestFails, Turn
  <1>2. CASE Failing(s) \/ RunFails(s)
    <2>1. pc[s] \in Settled /\ Fail(s, Seen(s))
      BY <1>2 DEF Failing, RunFails, Settled, BeforeLoop, Awaits
    <2> QED
      BY <1>1, <2>1, FailLedger DEF jobVars
  <1>3. CASE IngestFails(s)
    <2>1. /\ pc[s] = "ingest" /\ pc' = [pc EXCEPT ![s] = "failing"]
          /\ unlogged' = <<Note(s, "run", Plain("SESSION_FAILED"))>>
      BY <1>3 DEF IngestFails, Goto
    <2>2. "run" \in Writers /\ "SESSION_FAILED" \in Kinds
      BY DEF Writers, Kinds
    <2>3. PICK by \in Writers, kind \in Kinds : Queues(s, Note(s, by, Plain(kind)))
      BY <2>1, <2>2, PlainQueues DEF Reports
    <2>4. Pending(s)' = 0
      BY <2>3, QueuesPending, EventsWritten DEF Note
    <2>5. Reckoned("failing", attempt[s], fixAttempts[s], Retries(s), 0, faults)
      BY <1>1, <2>1, Reckoning DEF Reckoned, BeforeLoop, Leaving, Ended
    <2> QED
      BY <1>1, <2>1, <2>3, <2>4, <2>5, Reckoning, LedgerStep DEF jobVars
  <1> QED
    BY <1>2, <1>3

\* The verdict of a test run.
LEMMA VerdictsLedger ==
  ASSUME IInv, LedgerInv, NEW s \in Sessions, TestReturns(s) \/ ConfirmReturns(s)
  PROVE  LedgerInv'
  <1>1. /\ unlogged = <<>> /\ UNCHANGED <<log, attempt, fixAttempts, faults>>
        /\ pc[s] \in {"test", "confirm"}
    BY DEF TestReturns, ConfirmReturns, Turn
  <1>2. /\ Reckoned(pc[s], attempt[s], fixAttempts[s], Retries(s), 0, faults)
        /\ attempt[s] \in Int /\ fixAttempts[s] \in Nat /\ Retries(s) \in Nat
    BY <1>1, Reckoning, RetriesTyped
  <1>3. \A p \in {"confirm", "retry", "exhaust"} :
          Reckoned(p, attempt[s], fixAttempts[s], Retries(s), 0, faults)
    BY <1>1, <1>2 DEF Reckoned, BeforeLoop, Leaving, Ended
  <1>4. CASE Proceed(s, "SUMMARIZING", "cleanup")
    <2>1. pc[s] \in Settled /\ "cleanup" \in Leaving
      BY <1>1 DEF Settled, Leaving
    <2>2. Reckoned("cleanup", attempt[s], fixAttempts[s], Retries(s), 0, faults)
      BY <1>2, <2>1, Closes
    <2> QED
      BY <1>1, <1>4, <2>1, <2>2, ProceedLedger
  <1>5. CASE Goto(s, "confirm") /\ UNCHANGED unlogged
    <2>1. Pending(s)' = 0 /\ unlogged' = <<>>
      BY <1>1, <1>5, NothingPending
    <2> QED
      BY <1>1, <1>3, <1>5, <2>1, Reckoning, LedgerStep DEF Goto
  <1>6. CASE RedVerdict(s)
    <2>1. PICK p \in {"retry", "exhaust"} : pc' = [pc EXCEPT ![s] = p]
      BY <1>6 DEF RedVerdict, Goto
    <2>2. unlogged' = <<Note(s, "run", Plain("FIX_ATTEMPT"))>>
      BY <1>6 DEF RedVerdict
    <2>3. "run" \in Writers /\ "FIX_ATTEMPT" \in Kinds
      BY DEF Writers, Kinds
    <2>4. PICK by \in Writers, kind \in Kinds : Queues(s, Note(s, by, Plain(kind)))
      BY <2>2, <2>3, PlainQueues DEF Reports
    <2>5. Pending(s)' = 0
      BY <2>4, QueuesPending, EventsWritten DEF Note
    <2> QED
      BY <1>1, <1>3, <2>1, <2>4, <2>5, Reckoning, LedgerStep
  <1> QED
    BY <1>4, <1>5, <1>6 DEF TestReturns, ConfirmReturns, GreenVerdict

\* The stretches of a run that write nothing.
LEMMA QuietLedger ==
  ASSUME IInv, LedgerInv, NEW s \in Sessions,
         \/ SetupReturns(s) \/ InstallReturns(s) \/ BaselineReturns(s) \/ PhaseCancelled(s)
         \/ EditReturns(s) \/ Increment(s) \/ RetryDiffReturns(s) \/ RetryEditReturns(s)
         \/ CleanupReturns(s) \/ Launch(s) \/ RunRaises(s) \/ CleanupFails(s)
  PROVE  LedgerInv'
  <1>1. unlogged = <<>> /\ unlogged' = <<>> /\ UNCHANGED <<log, attempt>>
    BY DEF SetupReturns, InstallReturns, BaselineReturns, PhaseCancelled, EditReturns, Increment,
           RetryDiffReturns, RetryEditReturns, CleanupReturns, Launch, RunRaises, CleanupFails, Turn,
           LoopFree, jobVars
  <1>2. Pending(s)' = 0 /\ \A t \in Sessions : Pending(t) = 0
    BY <1>1, NothingPending
  <1>3. /\ Reckoned(pc[s], attempt[s], fixAttempts[s], Retries(s), 0, faults)
        /\ attempt[s] \in Int /\ fixAttempts[s] \in Nat /\ Retries(s) \in Nat /\ faults \in Nat
    BY <1>1, Reckoning, RetriesTyped
  <1>4. ASSUME NEW p, pc' = [pc EXCEPT ![s] = p], UNCHANGED <<fixAttempts, faults>>,
               Reckoned(p, attempt[s], fixAttempts[s], Retries(s), 0, faults)
        PROVE  LedgerInv'
    BY <1>1, <1>2, <1>4, LedgerStep
  <1>5. ASSUME NEW p \in Leaving, pc' = [pc EXCEPT ![s] = p], UNCHANGED <<fixAttempts, faults>>,
               pc[s] \in Settled
        PROVE  LedgerInv'
    BY <1>3, <1>4, <1>5, Closes
  <1>6. CASE \/ SetupReturns(s) \/ InstallReturns(s) \/ BaselineReturns(s) \/ PhaseCancelled(s)
             \/ EditReturns(s) \/ Launch(s)
    <2>1. PICK p : pc' = [pc EXCEPT ![s] = p]
      BY <1>6 DEF SetupReturns, InstallReturns, BaselineReturns, PhaseCancelled, EditReturns, Launch,
                  EnterPhase, Goto
    <2>2. UNCHANGED <<fixAttempts, faults>>
      BY <1>6 DEF SetupReturns, InstallReturns, BaselineReturns, PhaseCancelled, EditReturns, Launch,
                  jobVars
    <2>3. \/ pc[s] \in BeforeLoop \/ pc[s] = "retryedit"
      BY <1>6 DEF SetupReturns, InstallReturns, BaselineReturns, PhaseCancelled, EditReturns, Launch,
                  BeforeLoop, Phases
    <2>4. \/ pc[s] \in BeforeLoop /\ p \in BeforeLoop
          \/ p \in {"cleanup", "return"}
      <3>1. pc \in [Sessions -> PC]
        BY DEF IInv, TypeOK
      <3>2. \/ Goto(s, p) /\ p \in BeforeLoop /\ pc[s] \in BeforeLoop
            \/ pc'[s] \in {"cleanup", "return"}
        BY <1>6, <2>1, <3>1
           DEF SetupReturns, InstallReturns, BaselineReturns, PhaseCancelled, EditReturns, Launch,
               EnterPhase, Goto, BeforeLoop, Phases, Finally
      <3> QED
        BY <2>1, <3>1, <3>2
    <2>5. CASE pc[s] \in BeforeLoop /\ p \in BeforeLoop
      <3>1. Reckoned(p, attempt[s], fixAttempts[s], Retries(s), 0, faults)
        BY <1>3, <2>5 DEF Reckoned, BeforeLoop, Leaving, Ended
      <3> QED
        BY <1>4, <2>1, <2>2, <3>1
    <2>6. CASE p \in {"cleanup", "return"}
      BY <1>5, <2>1, <2>2, <2>3, <2>6 DEF Leaving, Settled
    <2> QED
      BY <2>4, <2>5, <2>6
  <1>7. CASE RetryDiffReturns(s) \/ RetryEditReturns(s)
    <2>1. PICK p \in {"retryedit", "retrycheck", "cleanup", "return"} : pc' = [pc EXCEPT ![s] = p]
      BY <1>7 DEF RetryDiffReturns, RetryEditReturns, EnterPhase, Goto, Finally
    <2>2. pc[s] \in {"retrydiff", "retryedit"} /\ UNCHANGED <<fixAttempts, faults>>
      BY <1>7 DEF RetryDiffReturns, RetryEditReturns, jobVars
    <2>3. CASE p \in {"retryedit", "retrycheck"}
      <3>1. Reckoned(p, attempt[s], fixAttempts[s], Retries(s), 0, faults)
        BY <1>3, <2>2, <2>3 DEF Reckoned, BeforeLoop, Leaving, Ended
      <3> QED
        BY <1>4, <2>1, <2>2, <3>1
    <2>4. CASE p \in {"cleanup", "return"}
      BY <1>5, <2>1, <2>2, <2>4 DEF Leaving, Settled
    <2> QED
      BY <2>1, <2>3, <2>4
  <1>8. CASE Increment(s)
    <2>1. /\ pc[s] = "increment" /\ pc' = [pc EXCEPT ![s] = "retrydiff"] /\ UNCHANGED faults
          /\ fixAttempts' = [fixAttempts EXCEPT ![s] = @ + 1]
      BY <1>8 DEF Increment, Goto
    <2>2. /\ fixAttempts'[s] = fixAttempts[s] + 1
          /\ \A t \in Sessions \ {s} : fixAttempts'[t] = fixAttempts[t]
      BY <2>1 DEF IInv, TypeOK
    <2>3. /\ fixAttempts[s] = attempt[s] - 1 /\ Retries(s) + 0 = attempt[s]
          /\ Retries(s) < MaxFixAttempts
      BY <1>3, <2>1 DEF Reckoned
    <2>4. fixAttempts[s] + 1 = attempt[s] /\ Retries(s) = attempt[s]
      BY <1>3, <2>3
    <2>5. Reckoned("retrydiff", attempt[s], fixAttempts[s] + 1, Retries(s), 0, faults)
      BY <2>3, <2>4 DEF Reckoned, BeforeLoop, Leaving, Ended
    <2> QED
      BY <1>1, <1>2, <2>1, <2>2, <2>5, LedgerStep
  <1>9. CASE CleanupReturns(s) \/ CleanupFails(s)
    <2>1. PICK p \in {"return", "raise"} : pc' = [pc EXCEPT ![s] = p]
      BY <1>9 DEF CleanupReturns, CleanupFails, Goto
    <2>2. /\ pc[s] \in {"cleanup", "unwind"} /\ UNCHANGED fixAttempts
          /\ faults' \in {faults, faults + 1}
      BY <1>9 DEF CleanupReturns, CleanupFails, jobVars
    <2>3. Reckoned(p, attempt[s], fixAttempts[s], Retries(s), 0, faults)
      BY <1>3, <2>2 DEF Reckoned, BeforeLoop, Leaving, Ended
    <2>4. Reckoned(p, attempt[s], fixAttempts[s], Retries(s), 0, faults')
      BY <1>3, <2>2, <2>3, ReckonedAfterFault
    <2> QED
      BY <1>1, <1>2, <2>1, <2>2, <2>4, LedgerStep
  <1>10. CASE RunRaises(s)
    <2>1. PICK p \in {"unwind", "raise"} : pc' = [pc EXCEPT ![s] = p]
      BY <1>10 DEF RunRaises, Goto, Finally
    <2>2. /\ pc[s] \in {"starting"} \cup Awaits \cup (InStretch \ {"return", "raise"})
          /\ faults' = faults + 1 /\ UNCHANGED fixAttempts
      BY <1>10 DEF RunRaises, jobVars
    <2>3. pc[s] \in Settled \cup {"increment"}
      BY <2>2 DEF Awaits, InStretch, Settled, BeforeLoop
    <2>4. faults' # 0
      BY <1>3, <2>2
    <2>5. fixAttempts[s] <= Retries(s) /\ Retries(s) < MaxFixAttempts
      BY <1>3, <2>3 DEF Reckoned, Settled
    <2>6. Reckoned(p, attempt[s], fixAttempts[s], Retries(s), 0, faults')
      BY <2>4, <2>5 DEF Reckoned, BeforeLoop, Leaving, Ended
    <2> QED
      BY <1>1, <1>2, <2>1, <2>2, <2>6, LedgerStep
  <1> QED
    BY <1>6, <1>7, <1>8, <1>9, <1>10

\* Creating and cancelling.
LEMMA ApiLedger ==
  ASSUME IInv, LedgerInv, NEW s \in Sessions, Create(s) \/ Cancel(s)
  PROVE  LedgerInv'
  <1>1. unlogged = <<>> /\ UNCHANGED <<log, attempt, fixAttempts, faults>>
    BY DEF Create, Cancel, LoopFree, jobVars
  <1>2. Reckoned(pc[s], attempt[s], fixAttempts[s], Retries(s), 0, faults)
    BY <1>1, Reckoning
  <1>3. CASE Create(s)
    <2>1. /\ pc[s] = "idle" /\ pc' = [pc EXCEPT ![s] = "posted"]
          /\ unlogged' = <<Note(s, "create", Plain("SESSION_CREATED"))>>
      BY <1>3 DEF Create, Goto
    <2>2. "create" \in Writers /\ "SESSION_CREATED" \in Kinds
      BY DEF Writers, Kinds
    <2>3. PICK by \in Writers, kind \in Kinds : Queues(s, Note(s, by, Plain(kind)))
      BY <2>1, <2>2, PlainQueues DEF Reports
    <2>4. Pending(s)' = 0
      BY <2>3, QueuesPending, EventsWritten DEF Note
    <2>5. Reckoned("posted", attempt[s], fixAttempts[s], Retries(s), 0, faults)
      BY <1>2, <2>1 DEF Reckoned, BeforeLoop, Leaving, Ended
    <2> QED
      BY <1>1, <2>1, <2>3, <2>4, <2>5, Reckoning, LedgerStep
  <1>4. CASE Cancel(s)
    <2>1. /\ TransitionFrom(s, status[s], "HALTED", "cancel", <<>>) /\ UNCHANGED pc
          /\ "cancel" \in Writers
      BY <1>4 DEF Cancel, Transition, Writers
    <2>2. PICK by \in Writers : Queues(s, Note(s, by, Changed(status[s], "HALTED")))
      BY <2>1, TransitionQueues DEF Moves
    <2>3. Pending(s)' = 0
      <3>1. Changed(status[s], "HALTED") # Changed("TESTING", "EDITING")
        BY DEF Changed
      <3> QED
        BY <2>2, <3>1, QueuesPending DEF Note
    <2>4. pc' = [pc EXCEPT ![s] = pc[s]]
      BY <2>1 DEF IInv, TypeOK
    <2> QED
      BY <1>1, <1>2, <2>2, <2>3, <2>4, Reckoning, LedgerStep
  <1> QED
    BY <1>3, <1>4

\* The end of a run, which hands its slot to a session that has not begun.
LEMMA ReleaseLedger ==
  ASSUME IInv, LedgerInv, NEW s \in Sessions, Release(s)
  PROVE  LedgerInv'
  <1>1. /\ unlogged = <<>> /\ unlogged' = <<>>
        /\ UNCHANGED <<log, attempt, fixAttempts, faults>>
    BY DEF Release, Turn, jobVars
  <1>2. \A t \in Sessions : Pending(t)' = 0 /\ Retries(t)' = Retries(t)
    BY <1>1, NothingPending DEF Retries
  <1>3. \A t \in Sessions : Reckoned(pc[t], attempt[t], fixAttempts[t], Retries(t), 0, faults)
    BY <1>1, Reckoning
  <1>4. ASSUME NEW t \in Sessions
        PROVE  \/ pc'[t] = pc[t]
               \/ pc[t] \in {"return", "raise"} /\ pc'[t] \in {"done", "crashed"}
               \/ pc[t] = "waiting" /\ pc'[t] = "starting"
    <2>1. PICK end \in {"done", "crashed"} : LeaveSlot(s, end) /\ pc[s] \in {"return", "raise"}
      BY DEF Release
    <2>2. pc \in [Sessions -> PC] /\ waiters \in Seq(Sessions)
      BY DEF IInv, TypeOK
    <2>3. waiters # <<>> => Head(waiters) \in Sessions /\ pc[Head(waiters)] = "waiting"
      <3>1. waiters # <<>> => 1 \in 1..Len(waiters) /\ Head(waiters) = waiters[1]
        BY <2>2
      <3> QED
        BY <2>2, <3>1 DEF IInv, QueueInv, WaitersInv
    <2> QED
      BY <2>1, <2>2, <2>3 DEF LeaveSlot, Goto
  <1>5. ASSUME NEW t \in Sessions
        PROVE  Reckoned(pc'[t], attempt[t], fixAttempts[t], Retries(t), 0, faults)
    BY <1>3, <1>4 DEF Reckoned, BeforeLoop, Leaving, Ended
  <1>6. RetryInv'
    BY <1>1, <1>2, <1>5 DEF RetryInv
  <1> QED
    BY <1>1, <1>6, NothingPending DEF LedgerInv

\* A log with one event more.
LEMMA Logged ==
  ASSUME IInv, AppendEvent
  PROVE  /\ Head(unlogged) \in Notes /\ Head(unlogged).s \in Sessions
         /\ LET s == Head(unlogged).s
                e == Head(unlogged).entry
            IN  /\ Len(log[s]) \in Nat /\ Len(log'[s]) = Len(log[s]) + 1
                /\ DOMAIN log[s] = 1..Len(log[s]) /\ DOMAIN log'[s] = 1..(Len(log[s]) + 1)
                /\ \A i \in 1..Len(log[s]) : log'[s][i] = log[s][i]
                /\ log'[s][Len(log[s]) + 1] = e
                /\ \A t \in Sessions \ {s} : log'[t] = log[t]
  <1> DEFINE s == Head(unlogged).s
             e == Head(unlogged).entry
  <1>1. Head(unlogged) \in Notes
    BY UnloggedHead DEF AppendEvent, IInv, TypeOK
  <1>2. s \in Sessions /\ e \in Entries
    BY <1>1 DEF Notes
  <1>3. log \in [Sessions -> Seq(Entries)] /\ log' = [log EXCEPT ![s] = Append(@, e)]
    BY DEF AppendEvent, IInv, TypeOK
  <1> HIDE DEF s, e
  <1>4. log'[s] = Append(log[s], e) /\ \A t \in Sessions \ {s} : log'[t] = log[t]
    BY <1>2, <1>3
  <1>5. log[s] \in Seq(Entries)
    BY <1>2, <1>3
  <1>6. /\ Len(log[s]) \in Nat /\ Len(log'[s]) = Len(log[s]) + 1
        /\ DOMAIN log[s] = 1..Len(log[s]) /\ DOMAIN log'[s] = 1..(Len(log[s]) + 1)
        /\ \A i \in 1..Len(log[s]) : log'[s][i] = log[s][i]
        /\ log'[s][Len(log[s]) + 1] = e
    BY <1>2, <1>4, <1>5
  <1> QED
    BY <1>1, <1>2, <1>4, <1>6 DEF s, e

\* Behind the event that is appended there is no move to append.
LEMMA NoMoveBehind ==
  ASSUME IInv, MoveInv, AppendEvent
  PROVE  /\ MoveInv' /\ \A i \in 1..Len(unlogged') : ~IsMove(unlogged'[i].entry)
         /\ unlogged' # <<>> => ~IsMove(Head(unlogged').entry)
  <1>1. /\ unlogged' \in Seq(Notes)
        /\ \A i \in 1..Len(unlogged') :
             i + 1 \in 1..Len(unlogged) /\ unlogged'[i] = unlogged[i + 1]
    BY UnloggedHead DEF AppendEvent, IInv, TypeOK
  <1>2. Len(unlogged') \in Nat
    BY <1>1
  <1>3. \A i \in 1..Len(unlogged') : ~IsMove(unlogged'[i].entry)
    <2>1. ASSUME NEW i \in 1..Len(unlogged')
          PROVE  i + 1 # 1
      BY <1>2
    <2> QED
      BY <1>1, <2>1 DEF MoveInv
  <1>4. unlogged' # <<>> => 1 \in 1..Len(unlogged') /\ Head(unlogged') = unlogged'[1]
    BY <1>1
  <1> QED
    BY <1>3, <1>4 DEF MoveInv

\* Appending an event counts it: from then on it is in the log, and no more to append.
LEMMA AppendLedger ==
  ASSUME IInv, LedgerInv, AppendEvent
  PROVE  LedgerInv'
  <1>1. UNCHANGED <<pc, attempt, fixAttempts, faults>> /\ unlogged # <<>>
    BY DEF AppendEvent, jobVars
  <1>2. PICK s \in Sessions, e \in Entries : s = Head(unlogged).s /\ e = Head(unlogged).entry
    BY Logged DEF Notes
  <1>3. MoveInv' /\ \A t \in Sessions : Pending(t)' = 0
    <2>1. MoveInv' /\ (unlogged' # <<>> => ~IsMove(Head(unlogged').entry))
      BY NoMoveBehind DEF LedgerInv
    <2>2. IsMove(Changed("TESTING", "EDITING"))
      BY EventsWritten
    <2> QED
      BY <2>1, <2>2 DEF Pending, Heads
  <1>4. ASSUME NEW t \in Sessions \ {s}
        PROVE  Retries(t)' = Retries(t) /\ Pending(t) = 0
    BY <1>2, Logged DEF Retries, Pending, Heads
  <1>5. Retries(s)' = Retries(s) + Pending(s) /\ Retries(s) \in Nat /\ Pending(s) \in {0, 1}
    <2> DEFINE R == {i \in DOMAIN log[s] : log[s][i] = Changed("TESTING", "EDITING")}
               S == {i \in DOMAIN log'[s] : log'[s][i] = Changed("TESTING", "EDITING")}
    <2>1. Retries(s) \in Nat /\ Pending(s) \in {0, 1}
      BY RetriesTyped
    <2>2. Pending(s) = IF e = Changed("TESTING", "EDITING") THEN 1 ELSE 0
      BY <1>1, <1>2 DEF Pending, Heads
    <2>3. /\ Len(log[s]) \in Nat /\ DOMAIN log[s] = 1..Len(log[s])
          /\ DOMAIN log'[s] = 1..(Len(log[s]) + 1)
          /\ \A i \in 1..Len(log[s]) : log'[s][i] = log[s][i]
          /\ log'[s][Len(log[s]) + 1] = e
      BY <1>2, Logged
    <2>4. IsFiniteSet(R)
      BY RetriesFinite
    <2>5. Retries(s) = Cardinality(R) /\ Retries(s)' = Cardinality(S)
      BY DEF Retries
    <2>6. S = IF e = Changed("TESTING", "EDITING") THEN R \cup {Len(log[s]) + 1} ELSE R
      BY <2>3
    <2>7. Len(log[s]) + 1 \notin R
      BY <2>3
    <2> HIDE DEF R, S
    <2>8. Cardinality(R \cup {Len(log[s]) + 1}) = Cardinality(R) + 1
      BY <2>4, <2>7, FS_AddElement
    <2> QED
      BY <2>1, <2>2, <2>5, <2>6, <2>8
  <1>6. Reckoned(pc[s], attempt[s], fixAttempts[s], Retries(s) + Pending(s), 0, faults)
    <2>1. Reckoned(pc[s], attempt[s], fixAttempts[s], Retries(s), Pending(s), faults)
      BY Reckoning
    <2>2. CASE Pending(s) = 0
      <3>1. Retries(s) + 0 = Retries(s)
        BY <1>5
      <3> QED
        BY <2>1, <2>2, <3>1
    <2>3. CASE Pending(s) = 1
      <3>1. pc[s] \in PC
        BY DEF IInv, TypeOK
      <3>2. pc[s] = "increment"
        BY <2>1, <2>3, <3>1
           DEF Reckoned, BeforeLoop, Leaving, Ended, PC, Holding, Awaits, InStretch
      <3>3. attempt[s] < MaxFixAttempts
        BY <3>2 DEF IInv, JobInv
      <3>4. fixAttempts[s] = attempt[s] - 1 /\ Retries(s) + 1 = attempt[s]
        BY <2>1, <2>3, <3>2 DEF Reckoned
      <3>5. Retries(s) + 1 + 0 = attempt[s] /\ Retries(s) + 1 < MaxFixAttempts
        BY <1>5, <3>3, <3>4, RetriesTyped
      <3> QED
        BY <2>3, <3>2, <3>4, <3>5 DEF Reckoned, BeforeLoop, Leaving, Ended
    <2> QED
      BY <1>5, <2>2, <2>3
  <1>7. RetryInv'
    <2>1. ASSUME NEW t \in Sessions \ {s}
          PROVE  Reckoned(pc[t], attempt[t], fixAttempts[t], Retries(t), 0, faults)
      BY <1>4, Reckoning
    <2> QED
      BY <1>1, <1>3, <1>4, <1>5, <1>6, <2>1 DEF RetryInv
  <1> QED
    BY <1>3, <1>7 DEF LedgerInv

\* A failed append loses its event, and its run; a crash loses all of both.
LEMMA LossLedger ==
  ASSUME IInv, LedgerInv, AppendFails \/ Crash
  PROVE  LedgerInv'
  <1>1. /\ unlogged' = <<>> /\ UNCHANGED <<log, attempt, fixAttempts>> /\ faults' = faults + 1
    BY DEF AppendFails, Crash, jobVars
  <1>2. faults \in Nat /\ faults' # 0
    <2>1. faults \in Nat
      BY DEF IInv, TypeOK
    <2> QED
      BY <1>1, <2>1
  <1>3. \A t \in Sessions : Pending(t)' = 0
    BY <1>1, NothingPending
  <1>4. ASSUME NEW t \in Sessions, NEW p \in Leaving
        PROVE  Reckoned(p, attempt[t], fixAttempts[t], Retries(t), 0, faults')
    <2>1. Reckoned(pc[t], attempt[t], fixAttempts[t], Retries(t), Pending(t), faults)
      BY Reckoning
    <2>2. /\ pc[t] \in PC /\ attempt[t] \in Int /\ fixAttempts[t] \in Nat
          /\ Retries(t) \in Nat /\ Pending(t) \in {0, 1}
      BY RetriesTyped DEF IInv, TypeOK
    <2>3. pc[t] \in Settled \cup Leaving \cup {"increment"}
      BY <2>2 DEF Settled, BeforeLoop, Leaving, Ended, PC, Holding, Awaits, InStretch
    <2>4. CASE pc[t] \in Settled
      <3>1. Reckoned(p, attempt[t], fixAttempts[t], Retries(t), 0, faults)
        BY <2>1, <2>2, <2>4, Closes
      <3> QED
        BY <1>1, <1>2, <3>1, ReckonedAfterFault
    <2>5. CASE pc[t] = "increment"
      <3>1. /\ fixAttempts[t] = attempt[t] - 1 /\ Retries(t) + Pending(t) = attempt[t]
            /\ Retries(t) < MaxFixAttempts
        BY <2>1, <2>5 DEF Reckoned
      <3>2. fixAttempts[t] <= Retries(t)
        BY <2>2, <3>1
      <3> QED
        BY <1>2, <3>1, <3>2 DEF Reckoned, BeforeLoop, Leaving, Ended
    <2>6. CASE pc[t] \in Leaving
      <3>1. fixAttempts[t] <= Retries(t) /\ Retries(t) < MaxFixAttempts
        BY <2>1, <2>6 DEF Reckoned
      <3> QED
        BY <1>2, <3>1 DEF Reckoned, BeforeLoop, Leaving, Ended
    <2>7. CASE fixAttempts[t] <= Retries(t) /\ Retries(t) < MaxFixAttempts
      BY <1>2, <2>7 DEF Reckoned, BeforeLoop, Leaving, Ended
    <2> QED
      BY <2>3, <2>4, <2>5, <2>6
  <1>5. CASE AppendFails
    <2>1. PICK s \in Sessions : s = Head(unlogged).s
      BY <1>5, UnloggedHead DEF AppendFails, IInv, TypeOK, Notes
    <2>2. \A t \in Sessions \ {s} : Pending(t) = 0
      BY <2>1 DEF Pending, Heads
    <2>3. PICK p : /\ pc' = [pc EXCEPT ![s] = p]
                   /\ \/ p \in Leaving
                      \/ p = pc[s] /\ Pending(s) = 0
      <3>1. CASE \E p \in Leaving : pc' = [pc EXCEPT ![s] = p]
        BY <3>1
      <3>2. CASE Head(unlogged).by = "cancel" /\ UNCHANGED pc
        <4>1. pc' = [pc EXCEPT ![s] = pc[s]]
          BY <3>2 DEF IInv, TypeOK
        <4>2. Head(unlogged) = unlogged[1] /\ 1 \in 1..Len(unlogged)
          BY <1>5, UnloggedHead DEF AppendFails, IInv, TypeOK
        <4>3. IsMove(Head(unlogged).entry) => Head(unlogged).entry.to = "HALTED"
          BY <3>2, <4>2 DEF LedgerInv, MoveInv
        <4>4. Head(unlogged).entry # Changed("TESTING", "EDITING")
          BY <4>3, EventsWritten
        <4> QED
          BY <4>1, <4>4 DEF Pending
      <3> QED
        BY <1>5, <2>1, <3>1, <3>2 DEF AppendFails, Goto, Finally, Leaving, Ended
    <2>4. Reckoned(p, attempt[s], fixAttempts[s], Retries(s), 0, faults')
      <3>1. CASE p \in Leaving
        BY <1>4, <3>1
      <3>2. CASE p = pc[s] /\ Pending(s) = 0
        BY <1>1, <1>2, <3>2, Reckoning, ReckonedAfterFault
      <3> QED
        BY <2>3, <3>1, <3>2
    <2> QED
      BY <1>1, <1>3, <2>2, <2>3, <2>4, LedgerStep
  <1>6. CASE Crash
    <2>1. \A t \in Sessions :
            \/ pc'[t] = "lost"
            \/ pc'[t] = pc[t] /\ pc[t] \in {"idle"} \cup Ended
      BY <1>6 DEF Crash
    <2>2. ASSUME NEW t \in Sessions
          PROVE  Reckoned(pc'[t], attempt[t], fixAttempts[t], Retries(t), 0, faults')
      <3>1. CASE pc'[t] \in Leaving
        BY <1>4, <3>1
      <3>2. CASE pc'[t] = "idle" /\ pc[t] = "idle"
        <4>1. /\ Reckoned(pc[t], attempt[t], fixAttempts[t], Retries(t), Pending(t), faults)
          BY Reckoning
        <4> QED
          BY <3>2, <4>1 DEF Reckoned, BeforeLoop, Leaving, Ended
      <3> QED
        BY <2>1, <3>1, <3>2 DEF Leaving, Ended
    <2>3. \A t \in Sessions : Retries(t)' = Retries(t)
      BY <1>1 DEF Retries
    <2>4. RetryInv'
      BY <1>1, <1>3, <2>2, <2>3 DEF RetryInv
    <2> QED
      BY <1>1, <2>4, NothingPending DEF LedgerInv
  <1> QED
    BY <1>5, <1>6

\* Nothing is counted at the start.
LEMMA InitLedger == Init => LedgerInv
  <1> SUFFICES ASSUME Init PROVE LedgerInv
    OBVIOUS
  <1>1. MoveInv /\ \A s \in Sessions : Pending(s) = 0
    BY NothingPending DEF Init
  <1>2. ASSUME NEW s \in Sessions
        PROVE  Retries(s) = 0
    <2>1. {i \in DOMAIN log[s] : log[s][i] = Changed("TESTING", "EDITING")} = {}
      BY DEF Init
    <2> QED
      BY <2>1, FS_EmptySet DEF Retries
  <1>3. ASSUME NEW s \in Sessions
        PROVE  Reckoned("idle", 0, 0, 0, 0, 0)
    BY ConstantsAssumption DEF Reckoned, BeforeLoop, Leaving, Ended
  <1>4. RetryInv
    BY <1>1, <1>2, <1>3 DEF Init, RetryInv
  <1> QED
    BY <1>1, <1>4 DEF LedgerInv

\* Every step of the system keeps the count.
LEMMA NextKeepsLedger == IInv /\ LedgerInv /\ [Next]_vars => LedgerInv'
  <1> SUFFICES ASSUME IInv, LedgerInv, [Next]_vars PROVE LedgerInv'
    OBVIOUS
  <1>1. ASSUME NEW s \in Sessions, Run(s)
        PROVE  LedgerInv'
    BY <1>1, TransitionsLedger, FailuresLedger, VerdictsLedger, QuietLedger, ReleaseLedger DEF Run
  <1>2. ASSUME NEW s \in Sessions, Create(s) \/ Cancel(s) \/ RunRaises(s) \/ CleanupFails(s)
        PROVE  LedgerInv'
    BY <1>2, ApiLedger, QuietLedger
  <1>3. CASE AppendEvent \/ AppendFails \/ Crash
    BY <1>3, AppendLedger, LossLedger
  <1>4. CASE UNCHANGED vars
    BY <1>4 DEF vars, jobVars, LedgerInv, MoveInv, RetryInv, Retries, Pending, Heads
  <1> QED
    BY <1>1, <1>2, <1>3, <1>4 DEF Next

\* The counter an operator sees never runs ahead of the retries in the log, the retries never
\* reach the budget, and where nothing has failed the two are the same, cancelled or not.
THEOREM AttemptsCounted == Spec => []FixAttemptsMatchLog
  <1>1. IInv /\ LedgerInv => FixAttemptsMatchLog
    <2> SUFFICES ASSUME IInv, LedgerInv, NEW s \in Sessions
                 PROVE  /\ fixAttempts[s] <= Retries(s)
                        /\ Retries(s) < MaxFixAttempts
                        /\ faults = 0 /\ LoopFree => fixAttempts[s] = Retries(s)
      BY DEF FixAttemptsMatchLog
    <2>1. Reckoned(pc[s], attempt[s], fixAttempts[s], Retries(s), Pending(s), faults)
      BY Reckoning
    <2>2. /\ pc[s] \in PC /\ attempt[s] \in Int /\ fixAttempts[s] \in Nat
          /\ Retries(s) \in Nat /\ Pending(s) \in {0, 1}
      BY RetriesTyped DEF IInv, TypeOK
    <2>3. pc[s] \in Settled \cup Leaving \cup {"increment"}
      BY <2>2 DEF Settled, BeforeLoop, Leaving, Ended, PC, Holding, Awaits, InStretch
    <2>4. CASE pc[s] \in Settled
      BY <2>1, <2>2, <2>4 DEF Reckoned, Settled
    <2>5. CASE pc[s] = "increment"
      <3>1. /\ fixAttempts[s] = attempt[s] - 1 /\ Retries(s) + Pending(s) = attempt[s]
            /\ Retries(s) < MaxFixAttempts
        BY <2>1, <2>5 DEF Reckoned
      <3>2. fixAttempts[s] <= Retries(s)
        BY <2>2, <3>1
      <3>3. ~LoopFree
        BY <2>5 DEF LoopFree, InStretch
      <3> QED
        BY <3>1, <3>2, <3>3
    <2>6. CASE pc[s] \in Leaving
      BY <2>1, <2>6 DEF Reckoned
    <2> QED
      BY <2>3, <2>4, <2>5, <2>6
  <1>2. Init => IInv /\ LedgerInv
    BY InitIInv, InitLedger
  <1>3. IInv /\ LedgerInv /\ [Next]_vars => (IInv /\ LedgerInv)'
    BY NextKeepsIInv, NextKeepsLedger
  <1> QED
    BY <1>1, <1>2, <1>3, PTL DEF Spec


-----------------------------------------------------------------------------
\* A step that writes: an event about a session that exists, or exists from now on, or a move
\* together with its event.
Writes(s) ==
  /\ unlogged = <<>> /\ UNCHANGED log
  /\ \/ Reports(s) /\ UNCHANGED status /\ status[s] # Absent
     \/ Reports(s) /\ status[s] = Absent /\ status' = [status EXCEPT ![s] = "CREATED"]
     \/ \E to \in Status : Moves(s, status[s], to)
     \/ status[s] = "HALTED" /\ Moves(s, "INGESTING", "FAILED")

StepWrites ==
  \/ UNCHANGED <<status, log, unlogged>>
  \/ AppendEvent
  \/ \E s \in Sessions : Writes(s)

\* A transition of run(), failed or not, is such a step.
LEMMA ProceedStepWrites ==
  ASSUME IInv, NEW s \in Sessions, NEW to \in Status, NEW next,
         \/ Proceed(s, to, next) \/ Fail(s, status[s])
         \/ s \in CancelledIngesting /\ Fail(s, "INGESTING"),
         Turn(s), pc[s] # "idle", UNCHANGED log
  PROVE  StepWrites
  <1>1. unlogged = <<>>
    BY DEF Turn
  <1>2. status[s] # Absent
    BY DEF IInv, PhaseMatchesStatus, Coherent, Absent, Terminal, Status
  <1>3. "FAILED" \in Status
    BY DEF Status, Terminal
  <1>4. \/ \E st \in Status : Moves(s, status[s], st)
        \/ UNCHANGED status /\ Reports(s)
        \/ status[s] = "HALTED" /\ Moves(s, "INGESTING", "FAILED")
    BY <1>3, FailWrites, ProceedWrites DEF CancelledIngesting
  <1> QED
    BY <1>1, <1>2, <1>4 DEF StepWrites, Writes

\* So is a verdict.
LEMMA VerdictsWrite ==
  ASSUME IInv, NEW s \in Sessions, TestReturns(s) \/ ConfirmReturns(s)
  PROVE  StepWrites
  <1>1. Turn(s) /\ unlogged = <<>> /\ UNCHANGED log /\ pc[s] \in {"test", "confirm"}
    BY DEF TestReturns, ConfirmReturns, Turn
  <1>2. CASE GreenVerdict(s)
    <2>1. Proceed(s, "SUMMARIZING", "cleanup") /\ "SUMMARIZING" \in Status
      BY <1>2 DEF GreenVerdict, Status
    <2> QED
      BY <1>1, <2>1, ProceedStepWrites
  <1>3. CASE RedVerdict(s)
    <2>1. "run" \in Writers /\ "FIX_ATTEMPT" \in Kinds
      BY DEF Writers, Kinds
    <2>2. Reports(s)
      BY <1>3, <2>1, PlainQueues DEF RedVerdict
    <2>3. status[s] # Absent
      BY <1>1 DEF IInv, PhaseMatchesStatus, Coherent, Absent, Terminal
    <2> QED
      BY <1>1, <1>3, <2>2, <2>3 DEF RedVerdict, StepWrites, Writes
  <1>4. CASE UNCHANGED <<status, unlogged>>
    BY <1>1, <1>4 DEF StepWrites
  <1> QED
    BY <1>2, <1>3, <1>4 DEF TestReturns, ConfirmReturns

\* Where nothing fails every step is one of these three.
LEMMA NextWrites ==
  ASSUME IInv, [Next]_vars, faults' = 0
  PROVE  StepWrites
  <1>1. ASSUME NEW s \in Sessions
        PROVE  Coherent(pc[s], status[s])
    BY DEF IInv, PhaseMatchesStatus
  <1>2. ASSUME NEW s \in Sessions, Create(s)
        PROVE  StepWrites
    <2>1. status[s] = Absent
      BY <1>1, <1>2 DEF Create, Coherent
    <2>2. "create" \in Writers /\ "SESSION_CREATED" \in Kinds
      BY DEF Writers, Kinds
    <2>3. Reports(s)
      BY <1>2, <2>2, PlainQueues DEF Create
    <2> QED
      BY <1>2, <2>1, <2>3 DEF Create, LoopFree, StepWrites, Writes
  <1>3. ASSUME NEW s \in Sessions, Cancel(s)
        PROVE  StepWrites
    <2>1. "cancel" \in Writers /\ "HALTED" \in Status
      BY DEF Writers, Status, Terminal
    <2>2. Moves(s, status[s], "HALTED")
      BY <1>3, <2>1, TransitionQueues DEF Cancel, Transition
    <2> QED
      BY <1>3, <2>1, <2>2 DEF Cancel, LoopFree, StepWrites, Writes
  <1>4. ASSUME NEW s \in Sessions,
               \/ Begin(s) \/ IngestReturns(s) \/ PlanReturns(s) \/ InvestigateReturns(s)
               \/ DiffReturns(s) \/ NoSuite(s) \/ Exhaust(s) \/ Retry(s)
               \/ RetryCheckReturns(s) \/ Failing(s) \/ RunFails(s)
        PROVE  StepWrites
    <2>1. PICK to \in {"INGESTING", "PLANNING", "INVESTIGATING", "EDITING", "TESTING",
                       "SUMMARIZING", "EXHAUSTED"}, next \in PC :
            \/ Proceed(s, to, next) \/ Fail(s, status[s])
            \/ s \in CancelledIngesting /\ Fail(s, "INGESTING")
      BY <1>4, FailSeesStatus
         DEF Begin, IngestReturns, PlanReturns, InvestigateReturns, DiffReturns, NoSuite,
             Exhaust, Retry, RetryCheckReturns, PC, Holding, Awaits, InStretch
    <2>2. Turn(s) /\ UNCHANGED log
      BY <1>4 DEF Begin, IngestReturns, PlanReturns, InvestigateReturns, DiffReturns, NoSuite,
                  Exhaust, Retry, RetryCheckReturns, Failing, RunFails
    <2>3. pc[s] # "idle"
      BY <1>4 DEF Begin, IngestReturns, PlanReturns, InvestigateReturns, DiffReturns, NoSuite,
                  Exhaust, Retry, RetryCheckReturns, Failing, RunFails, Awaits
    <2>4. to \in Status
      BY <2>1 DEF Status, Terminal
    <2> QED
      BY <2>1, <2>2, <2>3, <2>4, ProceedStepWrites
  <1>5. ASSUME NEW s \in Sessions, IngestFails(s)
        PROVE  StepWrites
    <2>1. "run" \in Writers /\ "SESSION_FAILED" \in Kinds
      BY DEF Writers, Kinds
    <2>2. Reports(s)
      BY <1>5, <2>1, PlainQueues DEF IngestFails
    <2>3. status[s] # Absent
      BY <1>1, <1>5 DEF IngestFails, Coherent, Absent
    <2> QED
      BY <1>5, <2>2, <2>3 DEF IngestFails, Turn, StepWrites, Writes
  <1>6. ASSUME NEW s \in Sessions,
               \/ Launch(s) \/ Release(s) \/ SetupReturns(s) \/ InstallReturns(s)
               \/ BaselineReturns(s) \/ PhaseCancelled(s) \/ EditReturns(s) \/ Increment(s)
               \/ RetryDiffReturns(s) \/ RetryEditReturns(s) \/ CleanupReturns(s)
        PROVE  StepWrites
    BY <1>6 DEF Launch, Release, SetupReturns, InstallReturns, BaselineReturns, PhaseCancelled,
                EditReturns, Increment, RetryDiffReturns, RetryEditReturns, CleanupReturns,
                StepWrites
  <1>7. ASSUME faults' = faults + 1
        PROVE  FALSE
    <2>1. faults \in Nat
      BY DEF IInv, TypeOK
    <2> QED
      BY <1>7, <2>1
  <1>8. ASSUME NEW s \in Sessions, RunRaises(s) \/ CleanupFails(s)
        PROVE  StepWrites
    BY <1>7, <1>8 DEF RunRaises, CleanupFails
  <1>9. CASE AppendFails \/ Crash
    BY <1>7, <1>9 DEF AppendFails, Crash
  <1>10. CASE AppendEvent \/ UNCHANGED vars
    BY <1>10 DEF vars, StepWrites
  <1> QED
    BY <1>2, <1>3, <1>4, <1>5, <1>6, <1>8, <1>9, <1>10, VerdictsWrite DEF Next, Run

\* One event more leads on, if it is a move, and nowhere else, if it is none.
LEMMA LongerLogLeads ==
  ASSUME NEW l, NEW m, NEW N \in Nat, NEW e, \A i \in 1..N : m[i] = l[i], m[N + 1] = e
  PROVE  /\ \A n \in 0..N : \A st : Leading(m, n, st) <=> Leading(l, n, st)
         /\ IsMove(e) => Leading(m, N + 1, e.to)
         /\ ~IsMove(e) => \A st : Leading(l, N, st) => Leading(m, N + 1, st)
  <1>1. ASSUME NEW n \in 0..N, NEW st
        PROVE  Leading(m, n, st) <=> Leading(l, n, st)
    <2>1. \A i \in 1..n : i \in 1..N /\ \A k \in (i + 1)..n : k \in 1..N
      OBVIOUS
    <2>2. /\ \A i \in 1..n : m[i] = l[i]
          /\ \A i \in 1..n : \A k \in (i + 1)..n : m[k] = l[k]
      BY <2>1
    <2> QED
      BY <2>2 DEF Leading
  <1>2. ASSUME IsMove(e)
        PROVE  Leading(m, N + 1, e.to)
    <2>1. N + 1 \in 1..(N + 1) /\ (N + 1 + 1)..(N + 1) = {}
      OBVIOUS
    <2>2. \A k \in (N + 1 + 1)..(N + 1) : ~IsMove(m[k])
      BY <2>1
    <2> QED
      BY <1>2, <2>1, <2>2 DEF Leading
  <1>3. ASSUME ~IsMove(e), NEW st, Leading(l, N, st)
        PROVE  Leading(m, N + 1, st)
    <2>1. \A k \in 1..(N + 1) : k \in 1..N \/ k = N + 1
      OBVIOUS
    <2>2. CASE st = "CREATED" /\ \A i \in 1..N : ~IsMove(l[i])
      BY <1>3, <2>1, <2>2 DEF Leading
    <2>3. ASSUME NEW i \in 1..N, IsMove(l[i]), l[i].to = st,
                 \A k \in (i + 1)..N : ~IsMove(l[k])
          PROVE  Leading(m, N + 1, st)
      <3>1. i \in 1..(N + 1)
        OBVIOUS
      <3>2. \A k \in (i + 1)..(N + 1) : (k \in (i + 1)..N /\ k \in 1..N) \/ k = N + 1
        OBVIOUS
      <3>3. \A k \in (i + 1)..(N + 1) : ~IsMove(m[k])
        BY <1>3, <2>3, <3>2
      <3> QED
        BY <2>3, <3>1, <3>3 DEF Leading
    <2> QED
      BY <1>3, <2>2, <2>3 DEF Leading
  <1> QED
    BY <1>1, <1>2, <1>3

\* A write is of the session whose event it queues.
LEMMA QueuesHead ==
  ASSUME NEW s \in Sessions, NEW e, Queues(s, e)
  PROVE  /\ Heads(s)' /\ Head(unlogged)' = e /\ \A t \in Sessions \ {s} : ~Heads(t)'
         /\ \A i \in 1..Len(unlogged') : unlogged'[i].s = s
  <1>1. unlogged' \in Seq(Notes) /\ unlogged' # <<>>
    BY DEF Queues
  <1>2. 1 \in 1..Len(unlogged') /\ Head(unlogged') = unlogged'[1]
    BY <1>1
  <1>3. Head(unlogged').s = s
    BY <1>2 DEF Queues
  <1> QED
    BY <1>1 DEF Queues, Heads

\* A write leaves the logs replaying, with the new event behind them.
LEMMA WriteReplays ==
  ASSUME IInv, faults = 0, ReplayInv, NEW s \in Sessions, Writes(s)
  PROVE  ReplayInv'
  <1>1. /\ unlogged = <<>> /\ log' = log /\ \A t \in Sessions : ~Heads(t) /\ Replays(t)
        /\ status \in [Sessions -> Status \cup {Absent}]
    BY DEF Writes, Heads, ReplayInv, IInv, TypeOK
  <1>2. PICK e : Queues(s, e)
    BY DEF Writes, Reports, Moves
  <1>4. /\ status'[s] # Absent /\ \A t \in Sessions \ {s} : status'[t] = status[t]
    BY <1>1 DEF Writes, Moves, CanTransition, LegalTransitions, Absent, Status, Terminal
  <1>5. \A i \in 1..Len(unlogged') : status'[unlogged'[i].s] # Absent
    BY <1>2, <1>4, QueuesHead
  <1>6. ASSUME NEW t \in Sessions \ {s}
        PROVE  Replays(t)'
    <2>1. ~Heads(t)' /\ ~Heads(t) /\ Replays(t) /\ status'[t] = status[t]
      BY <1>1, <1>2, <1>4, QueuesHead
    <2> QED
      BY <1>1, <2>1 DEF Replays
  <1>7. Replays(s)'
    <2>1. \A i \in DOMAIN log'[s] : IsMove(log'[s][i]) => Follows(log'[s], i - 1, log'[s][i])
      BY <1>1 DEF Replays
    <2>2. CASE Reports(s) /\ UNCHANGED status /\ status[s] # Absent
      <3>1. Heads(s)' /\ ~IsMove(Head(unlogged').entry)
        BY <2>2, QueuesHead, EventsWritten DEF Reports, Note
      <3>2. Leading(log[s], Len(log[s]), status[s])
        BY <1>1, <2>2 DEF Replays
      <3> QED
        BY <1>1, <1>4, <2>1, <2>2, <3>1, <3>2 DEF Replays
    <2>3. CASE Reports(s) /\ status[s] = Absent /\ status' = [status EXCEPT ![s] = "CREATED"]
      <3>1. Heads(s)' /\ ~IsMove(Head(unlogged').entry)
        BY <2>3, QueuesHead, EventsWritten DEF Reports, Note
      <3>2. log[s] = <<>> /\ status'[s] = "CREATED"
        BY <1>1, <2>3 DEF Replays
      <3>3. Leading(log'[s], Len(log'[s]), "CREATED")
        <4>1. Len(log'[s]) = 0 /\ 1..0 = {}
          BY <1>1, <3>2
        <4>2. \A i \in 1..Len(log'[s]) : ~IsMove(log'[s][i])
          BY <4>1
        <4> QED
          BY <4>2 DEF Leading
      <3> QED
        BY <1>4, <2>1, <3>1, <3>2, <3>3 DEF Replays
    <2>4. ASSUME NEW to \in Status, Moves(s, status[s], to)
          PROVE  Replays(s)'
      <3>1. PICK by \in Writers : Queues(s, Note(s, by, Changed(status[s], to)))
        BY <2>4 DEF Moves
      <3>2. /\ Heads(s)' /\ IsMove(Head(unlogged').entry)
            /\ Head(unlogged').entry.to = to /\ Head(unlogged').entry.from = status[s]
        BY <3>1, QueuesHead, EventsWritten DEF Note
      <3>3. status'[s] = to /\ status[s] # Absent
        BY <1>1, <2>4 DEF Moves, CanTransition, Absent, Status, Terminal
      <3>4. Leading(log[s], Len(log[s]), status[s])
        BY <1>1, <3>3 DEF Replays
      <3>5. Follows(log'[s], Len(log'[s]), Head(unlogged').entry)
        BY <1>1, <3>2, <3>4 DEF Follows
      <3> QED
        BY <1>1, <1>4, <2>1, <3>2, <3>3, <3>5 DEF Replays
    <2>5. ASSUME status[s] = "HALTED", Moves(s, "INGESTING", "FAILED")
          PROVE  Replays(s)'
      <3>1. PICK by \in Writers : Queues(s, Note(s, by, Changed("INGESTING", "FAILED")))
        BY <2>5 DEF Moves
      <3>2. /\ Heads(s)' /\ IsMove(Head(unlogged').entry)
            /\ Head(unlogged').entry.to = "FAILED"
            /\ Head(unlogged').entry = Changed("INGESTING", "FAILED")
        BY <3>1, QueuesHead, EventsWritten DEF Note
      <3>3. status'[s] = "FAILED" /\ status[s] # Absent
        BY <1>1, <2>5 DEF Moves, Absent
      <3>4. Leading(log[s], Len(log[s]), "HALTED")
        BY <1>1, <2>5, <3>3 DEF Replays
      <3>5. Follows(log'[s], Len(log'[s]), Head(unlogged').entry)
        BY <1>1, <3>2, <3>4 DEF Follows
      <3> QED
        BY <1>1, <1>4, <2>1, <3>2, <3>3, <3>5 DEF Replays
    <2> QED
      BY <2>2, <2>3, <2>4, <2>5 DEF Writes
  <1> QED
    BY <1>5, <1>6, <1>7 DEF ReplayInv

\* Appending the event leaves them replaying, with the event in its log.
LEMMA AppendReplays ==
  ASSUME IInv, MoveInv, faults = 0, ReplayInv, AppendEvent
  PROVE  ReplayInv'
  <1>1. /\ UNCHANGED status /\ unlogged # <<>> /\ \A t \in Sessions : Replays(t)
        /\ \A i \in 1..Len(unlogged) : status[unlogged[i].s] # Absent
    BY DEF AppendEvent, ReplayInv
  <1>2. PICK s \in Sessions, e \in Entries : s = Head(unlogged).s /\ e = Head(unlogged).entry
    BY Logged DEF Notes
  <1>3. PICK N \in Nat : N = Len(log[s])
    BY <1>2, Logged
  <1>4. /\ DOMAIN log[s] = 1..N /\ DOMAIN log'[s] = 1..(N + 1) /\ Len(log'[s]) = N + 1
        /\ \A i \in 1..N : log'[s][i] = log[s][i]
        /\ log'[s][N + 1] = e
        /\ \A t \in Sessions \ {s} : log'[t] = log[t]
    BY <1>2, <1>3, Logged
  <1>5. unlogged' # <<>> => ~IsMove(Head(unlogged').entry)
    BY NoMoveBehind
  <1>6. /\ unlogged \in Seq(Notes) /\ unlogged' \in Seq(Notes)
        /\ 1 \in 1..Len(unlogged) /\ Head(unlogged) = unlogged[1]
        /\ \A i \in 1..Len(unlogged') : i + 1 \in 1..Len(unlogged) /\ unlogged'[i] = unlogged[i + 1]
    BY UnloggedHead DEF AppendEvent, IInv, TypeOK
  <1>7. \A i \in 1..Len(unlogged') : status'[unlogged'[i].s] # Absent
    BY <1>1, <1>6
  <1>8. \A t \in Sessions : Heads(t)' => status'[t] # Absent
    <2>1. unlogged' # <<>> => 1 \in 1..Len(unlogged') /\ Head(unlogged') = unlogged'[1]
      BY <1>6
    <2> QED
      BY <1>7, <2>1 DEF Heads
  <1>9. ASSUME NEW t \in Sessions \ {s}
        PROVE  Replays(t)'
    <2>2. ~Heads(t) /\ Replays(t) /\ log'[t] = log[t]
      BY <1>1, <1>2, <1>4 DEF Heads
    <2>3. ~(Heads(t)' /\ IsMove(Head(unlogged').entry))
      BY <1>5 DEF Heads
    <2> QED
      BY <1>1, <1>8, <2>2, <2>3 DEF Replays
  <1>10. Replays(s)'
    <2>1. Heads(s) /\ Replays(s) /\ Head(unlogged).entry = e /\ status'[s] = status[s]
      BY <1>1, <1>2 DEF Heads
    <2>2. status[s] # Absent
      BY <1>1, <1>2, <1>6
    <2>3. ~(Heads(s)' /\ IsMove(Head(unlogged').entry))
      BY <1>5 DEF Heads
    <2>4. /\ \A n \in 0..N : \A st : Leading(log'[s], n, st) <=> Leading(log[s], n, st)
          /\ IsMove(e) => Leading(log'[s], N + 1, e.to)
          /\ ~IsMove(e) => \A st : Leading(log[s], N, st) => Leading(log'[s], N + 1, st)
      <3> DEFINE l == log[s]
                 m == log'[s]
      <3>1. (\A i \in 1..N : m[i] = l[i]) /\ m[N + 1] = e
        BY <1>4
      <3> HIDE DEF l, m
      <3>2. /\ \A n \in 0..N : \A st : Leading(m, n, st) <=> Leading(l, n, st)
            /\ IsMove(e) => Leading(m, N + 1, e.to)
            /\ ~IsMove(e) => \A st : Leading(l, N, st) => Leading(m, N + 1, st)
        BY <3>1, LongerLogLeads
      <3> QED
        BY <3>2 DEF l, m
    <2>5. IF IsMove(e) THEN e.to = status[s] /\ Follows(log[s], N, e)
                       ELSE Leading(log[s], N, status[s])
      BY <1>3, <2>1, <2>2 DEF Replays
    <2>6. Leading(log'[s], N + 1, status[s])
      BY <2>4, <2>5
    <2>7. ASSUME NEW i \in 1..(N + 1), IsMove(log'[s][i])
          PROVE  Follows(log'[s], i - 1, log'[s][i])
      <3>1. CASE i = N + 1
        <4>1. i - 1 = N /\ N \in 0..N /\ log'[s][i] = e
          BY <1>4, <3>1
        <4>2. IsMove(e)
          BY <2>7, <4>1
        <4>3. Follows(log'[s], N, e)
          BY <2>4, <2>5, <4>1, <4>2 DEF Follows
        <4> QED
          BY <4>1, <4>3
      <3>2. CASE i \in 1..N
        <4>1. i - 1 \in 0..N
          BY <3>2
        <4>2. log'[s][i] = log[s][i]
          BY <1>4, <3>2
        <4>3. Follows(log[s], i - 1, log[s][i])
          BY <1>4, <2>1, <2>7, <3>2, <4>2 DEF Replays
        <4> QED
          BY <2>4, <4>1, <4>2, <4>3 DEF Follows
      <3> QED
        BY <3>1, <3>2
    <2> QED
      BY <1>4, <2>1, <2>2, <2>3, <2>6, <2>7 DEF Replays
  <1> QED
    BY <1>7, <1>9, <1>10 DEF ReplayInv

\* At the start no log says anything.
LEMMA InitReplays == Init => ReplayInv
  <1> SUFFICES ASSUME Init PROVE ReplayInv
    OBVIOUS
  <1>1. /\ unlogged = <<>> /\ Len(unlogged) = 0 /\ 1..0 = {}
        /\ \A s \in Sessions : log[s] = <<>> /\ status[s] = Absent /\ ~Heads(s)
    BY DEF Init, Heads
  <1>2. ASSUME NEW s \in Sessions
        PROVE  Replays(s)
    <2>1. DOMAIN log[s] = {}
      BY <1>1
    <2> QED
      BY <1>1, <2>1 DEF Replays
  <1> QED
    BY <1>1, <1>2 DEF ReplayInv

\* Every step that does not fail keeps the logs replaying.
LEMMA NextReplays ==
  ASSUME IInv, LedgerInv, ReplayInv, [Next]_vars
  PROVE  ReplayInv'
  <1>1. CASE faults' = 0
    <2>1. faults = 0
      <3>1. faults \in Nat /\ (faults' = faults \/ faults' = faults + 1)
        <4>1. faults \in Nat
          BY DEF IInv, TypeOK
        <4>2. ASSUME NEW s \in Sessions, Run(s) \/ Create(s) \/ Cancel(s)
              PROVE  faults' = faults
          BY <4>2 DEF Create, Cancel, Run, Launch, Begin, Release, IngestReturns, IngestFails,
                      Failing, PlanReturns, SetupReturns, InstallReturns, BaselineReturns,
                      PhaseCancelled, InvestigateReturns, EditReturns, DiffReturns, NoSuite,
                      TestReturns, ConfirmReturns, Exhaust, Retry, Increment, RetryDiffReturns,
                      RetryEditReturns, RetryCheckReturns, RunFails, CleanupReturns
        <4> QED
          BY <4>1, <4>2 DEF Next, RunRaises, CleanupFails, AppendEvent, AppendFails, Crash, vars
      <3> QED
        BY <1>1, <3>1
    <2>2. StepWrites
      BY <1>1, NextWrites
    <2>3. CASE UNCHANGED <<status, log, unlogged>>
      <3>1. \A s \in Sessions : Replays(s)' <=> Replays(s)
        BY <2>3 DEF Replays, Heads
      <3> QED
        BY <1>1, <2>1, <2>3, <3>1 DEF ReplayInv
    <2>4. CASE AppendEvent
      BY <2>1, <2>4, AppendReplays DEF LedgerInv
    <2>5. ASSUME NEW s \in Sessions, Writes(s)
          PROVE  ReplayInv'
      BY <2>1, <2>5, WriteReplays
    <2> QED
      BY <2>2, <2>3, <2>4, <2>5 DEF StepWrites
  <1>2. CASE faults' # 0
    BY <1>2 DEF ReplayInv
  <1> QED
    BY <1>1, <1>2

\* The log an operator reads is true: unless a commit is lost between a status and its event,
\* the STATE_CHANGED events of a session lead edge by edge to the status it has (an ingestion
\* that fails after it was cancelled leads from HALTED, and says from INGESTING), and its
\* counter is the retries they tell of.
THEOREM LogTrue == Spec => []LogIsTrue
  <1>1. ReplayInv => LogReplaysStatus
    <2> SUFFICES ASSUME ReplayInv, faults = 0, unlogged = <<>>, NEW s \in Sessions
                 PROVE  /\ \A i \in DOMAIN log[s] :
                             IsMove(log[s][i]) => Follows(log[s], i - 1, log[s][i])
                        /\ IF status[s] = Absent THEN log[s] = <<>>
                                                 ELSE Leading(log[s], Len(log[s]), status[s])
      BY DEF LogReplaysStatus
    <2>1. Replays(s) /\ ~Heads(s)
      BY DEF ReplayInv, Heads
    <2> QED
      BY <2>1 DEF Replays
  <1>2. Init => IInv /\ LedgerInv /\ ReplayInv
    BY InitIInv, InitLedger, InitReplays
  <1>3. IInv /\ LedgerInv /\ ReplayInv /\ [Next]_vars => (IInv /\ LedgerInv /\ ReplayInv)'
    BY NextKeepsIInv, NextKeepsLedger, NextReplays
  <1> QED
    BY <1>1, <1>2, <1>3, AttemptsCounted, PTL DEF Spec, LogIsTrue
=============================================================================
