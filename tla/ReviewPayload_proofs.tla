------------------------ MODULE ReviewPayload_proofs ------------------------
(***************************************************************************)
(* Theorems about ReviewPayload for any files, test runs, GETs, deliveries *)
(* and crashes.                                                            *)
(*                                                                         *)
(* Nothing changes the working tree once the first payload is being built  *)
(* (LateInv), the index is what the agent left in it or what a delivery    *)
(* stages (TreeInv), and a payload tells the truth of its tree as long as  *)
(* no delivery has its branch; the one that a human signed tells it for    *)
(* ever, and so does that of the delivery that has the branch, unless      *)
(* another session has pushed a branch of its name (SoundInv).             *)
(***************************************************************************)
EXTENDS ReviewPayloadProps, SequenceTheorems, FiniteSetTheorems, TLAPS

Statuses == {"EDITING", "TESTING", "SUMMARIZING", "AWAITING_APPROVAL", "APPROVED", "REJECTED",
             "PR_OPENED", "FAILED", "EXHAUSTED"}
GetPlaces == {"idle", "summary", "model", "diff", "stats", "tests", "answered", "raised"}
DeliveryPlaces == {"idle", "summary", "model", "diff", "stats", "tests", "compose", "branch",
                   "stage", "commit", "push", "opened", "raised"}
Hunks == UNION {[D -> Nat] : D \in SUBSET Files}
Diffs == [hunks : Hunks, truncated : BOOLEAN]
Payloads == [evidence : [final : {None, "green", "red"}, unverified : BOOLEAN],
             basis : Diffs, blind : BOOLEAN, hunks : Hunks, truncated : BOOLEAN,
             stats : SUBSET Files, testsOnly : BOOLEAN, misread : BOOLEAN]

TypeOK ==
  /\ status \in Statuses /\ suite \in BOOLEAN /\ approved \in BOOLEAN /\ runs \in Seq(BOOLEAN)
  /\ work \in Tree /\ index \in Tree /\ commit \in Tree /\ own \in Tree /\ tested \in Tree
  /\ branched \in BOOLEAN /\ foreign \in BOOLEAN
  /\ pc \in [Builds -> GetPlaces \cup DeliveryPlaces]
  /\ \A b \in Gets : pc[b] \in GetPlaces
  /\ \A b \in Deliveries : pc[b] \in DeliveryPlaces
  /\ payload \in [Builds -> Payloads]
  /\ seen \in {None} \cup Gets /\ signed \in {None} \cup Gets /\ body \in {None} \cup Deliveries
  /\ faults \in Nat

\* A payload is built after the run, a delivery begins after the approval.
LateInv ==
  /\ status \in {"EDITING", "TESTING", "SUMMARIZING"} => \A b \in Builds : pc[b] = "idle"
  /\ status \in {"EDITING", "TESTING", "SUMMARIZING", "AWAITING_APPROVAL"} =>
       ~branched /\ ~approved /\ \A b \in Deliveries : pc[b] = "idle"

\* What a delivery stages: AddAll of the agent's index, however often it is done.
Final == AddAll(own)

\* The index is the agent's until a delivery has staged, and HEAD is what was staged from the
\* commit on.
TreeInv ==
  /\ ~branched => index = own
  /\ index \in {own, Final}
  /\ \A b \in Builds :
       /\ pc[b] \in {"stage", "commit", "push", "opened"} => branched
       /\ pc[b] \in {"commit", "push", "opened"} => index = Final
       /\ pc[b] \in {"push", "opened"} => commit = Final

\* A session that comes to the gate is verified by its last run, or has no suite to run.
VerdictInv ==
  /\ ~suite => runs = <<>>
  /\ (\/ status \in {"SUMMARIZING", "AWAITING_APPROVAL"} \/ approved
      \/ \E b \in Builds : pc[b] # "idle")
       /\ suite => Evidence.final = "green" /\ \A f \in Files \ Artefacts : tested[f] = work[f]

HistoryInv ==
  /\ seen # None => pc[seen] = "answered"
  /\ signed # None => pc[signed] = "answered"
  /\ body # None => pc[body] = "opened"

\* The change, as a reader of the files in the agent's index sees it.
Change == {f \in Files : own[f] # 0 /\ work[f] # own[f]}

\* What unified_diff() makes of it.
Truth == Shown([f \in Change |-> work[f]])

\* What is so of every payload: the evidence is the row's, and the summary was made from the
\* change, from nothing, or from a diff that could not be read.
Known(b) ==
  /\ pc[b] \notin {"idle", "raised"} => payload[b].evidence = Evidence
  /\ pc[b] \notin {"idle", "raised", "summary"} => payload[b].blind \/ payload[b].basis \in {Truth, NoDiff}

\* What is so of one read while nothing was staged.
Sound(b) ==
  /\ pc[b] \notin {"idle", "raised", "summary"} => payload[b].blind \/ payload[b].basis = Truth
  /\ pc[b] \in {"stats", "tests", "answered"} =>
       \/ payload[b].misread
       \/ payload[b].hunks = Truth.hunks /\ payload[b].truncated = Truth.truncated
  /\ pc[b] \in {"tests", "answered"} => payload[b].misread \/ payload[b].stats = Change
  /\ pc[b] = "answered" => payload[b].misread \/ payload[b].testsOnly = TestsOnly(Change)

\* Those that were read before anything was staged.
Trusted(b) ==
  ~branched \/ b = signed \/ (~foreign /\ pc[b] \in {"stage", "commit", "push", "opened"})

SoundInv == \A b \in Builds : Known(b) /\ (Trusted(b) => Sound(b))

IInv == TypeOK /\ LateInv /\ TreeInv /\ VerdictInv /\ HistoryInv /\ SoundInv

-----------------------------------------------------------------------------
(***************************************************************************)
(* Types                                                                   *)
(***************************************************************************)

\* The evidence read from the rows is one a payload may hold.
LEMMA EvidenceTyped == TypeOK => Evidence \in [final : {None, "green", "red"}, unverified : BOOLEAN]
  BY DEF TypeOK, Evidence

\* A diff of some of the files, capped, is a diff of some of the files.
LEMMA ShownTyped ==
  ASSUME NEW D \in SUBSET Files, NEW d \in [D -> Nat]
  PROVE  Shown(d).hunks \in Hunks /\ Shown(d).truncated \in BOOLEAN
<1> DEFINE E == {g \in DOMAIN d : Cardinality({h \in DOMAIN d : h < g}) < MaxShown}
           H == [f \in E |-> d[f]]
<1>1. E \in SUBSET Files
  OBVIOUS
<1>2. H \in [E -> Nat]
  OBVIOUS
<1>3. H \in Hunks
  BY <1>1, <1>2 DEF Hunks
<1>4. Shown(d).hunks = H
  BY DEF Shown
<1>5. Shown(d).truncated \in BOOLEAN
  BY DEF Shown
<1> QED
  BY <1>3, <1>4, <1>5

\* What git diff shows is such a diff.
LEMMA GitDiffTyped == TypeOK => Changed \in SUBSET Files /\ GitDiff \in [Changed -> Nat]
  BY ConstantsAssumption DEF TypeOK, Tree, GitDiff, Changed, Tracked

\* Nothing has been read.
LEMMA EmptyTyped == Empty \in Payloads /\ NoDiff \in Diffs
<1>1. <<>> \in [{} -> Nat]
  OBVIOUS
<1>2. <<>> \in Hunks
  BY <1>1 DEF Hunks
<1> QED
  BY <1>2 DEF Empty, NoDiff, Payloads, Diffs

\* What a delivery stages is a tree, and staging it again changes nothing.
LEMMA Restaged ==
  ASSUME own \in Tree, work \in Tree
  PROVE  Final \in Tree /\ AddAll(own) = Final /\ AddAll(Final) = Final
<1>1. Final \in Tree /\ \A f \in Files : Final[f] = IF f \in Ignored /\ own[f] = 0 THEN 0 ELSE work[f]
  BY DEF Final, AddAll, Tree
<1>2. AddAll(Final) = [f \in Files |-> IF f \in Ignored /\ Final[f] = 0 THEN 0 ELSE work[f]]
  BY DEF AddAll
<1>3. \A f \in Files : (IF f \in Ignored /\ Final[f] = 0 THEN 0 ELSE work[f]) = Final[f]
  BY <1>1
<1>4. Final = [f \in Files |-> Final[f]]
  BY <1>1 DEF Tree
<1>5. AddAll(Final) = [f \in Files |-> Final[f]]
  BY <1>2, <1>3
<1> QED
  BY <1>1, <1>4, <1>5 DEF Final

\* Before anything is staged git diff shows the change, and afterwards nothing.
LEMMA GitDiffShows ==
  ASSUME TypeOK
  PROVE  /\ index = own => Changed = Change /\ Shown(GitDiff) = Truth
         /\ index = Final => Shown(GitDiff) = NoDiff
<1>1. ASSUME index = own
      PROVE  Changed = Change /\ Shown(GitDiff) = Truth
  <2>1. Changed = Change
    BY <1>1 DEF Changed, Change, Tracked
  <2> QED
    BY <2>1 DEF Truth, GitDiff
<1>2. ASSUME index = Final
      PROVE  Shown(GitDiff) = NoDiff
  <2>1. Changed = {}
    BY <1>2 DEF Changed, Tracked, Final, AddAll, TypeOK, Tree
  <2>2. DOMAIN GitDiff = {}
    BY <2>1 DEF GitDiff
  <2>3. Cardinality(DOMAIN GitDiff) = 0
    BY <2>2, FS_EmptySet
  <2> DEFINE none == {g \in DOMAIN GitDiff : Cardinality({h \in DOMAIN GitDiff : h < g}) < MaxShown}
  <2>4. none = {}
    BY <2>2
  <2>5. [f \in none |-> GitDiff[f]] = <<>>
    BY <2>4
  <2>6. ~(Cardinality(DOMAIN GitDiff) > MaxShown)
    BY <2>3, ConstantsAssumption
  <2>7. (Cardinality(DOMAIN GitDiff) > MaxShown) = FALSE
    BY <2>6
  <2>8. Shown(GitDiff) = [hunks |-> [f \in none |-> GitDiff[f]],
                          truncated |-> Cardinality(DOMAIN GitDiff) > MaxShown]
    BY DEF Shown
  <2> HIDE DEF none
  <2> QED
    BY <2>5, <2>7, <2>8, Zenon DEF NoDiff
<1> QED
  BY <1>1, <1>2

-----------------------------------------------------------------------------
(***************************************************************************)
(* What a step of one build or delivery is                                 *)
(***************************************************************************)

Moves(b, next, q) ==
  /\ pc' = [pc EXCEPT ![b] = next]
  /\ payload' = [payload EXCEPT ![b] = q]
  /\ UNCHANGED <<suite, approved, runs, work, own, foreign, tested, signed>>

\* The truth about a tree that nothing changes stays what it is.
LEMMA TruthStays ==
  UNCHANGED <<suite, runs, work, own>> => UNCHANGED <<Change, Truth, Evidence, Final>>
  BY DEF Change, Truth, Evidence, Shown, Final, AddAll

\* A step of b leaves the payloads of the others as sound as they were.
LEMMA OthersStaySound ==
  ASSUME TypeOK, SoundInv, NEW b \in Builds, NEW next, NEW q, Moves(b, next, q),
         branched => branched', Known(b)', Trusted(b)' => Sound(b)'
  PROVE  SoundInv'
<1> SUFFICES ASSUME NEW a \in Builds, a # b
             PROVE  Known(a)' /\ (Trusted(a)' => Sound(a)')
  BY DEF SoundInv
<1>1. pc'[a] = pc[a] /\ payload'[a] = payload[a]
  BY DEF Moves, TypeOK
<1>2. UNCHANGED <<Change, Truth, Evidence>>
  BY TruthStays DEF Moves
<1>3. Trusted(a)' => Trusted(a)
  BY <1>1 DEF Trusted, Moves
<1>4. Known(a) /\ (Trusted(a) => Sound(a))
  BY DEF SoundInv
<1> QED
  BY <1>1, <1>2, <1>3, <1>4 DEF Sound, Known, TestsOnly, NoDiff

\* A step of b that carries on the evidence and the summary keeps what is known of them.
LEMMA CarriesOn ==
  ASSUME TypeOK, NEW b \in Builds, NEW next, NEW q, Moves(b, next, q),
         pc[b] \notin {"idle", "raised", "summary"}, next \notin {"stats", "tests", "answered"},
         q.evidence = payload[b].evidence, q.basis = payload[b].basis, q.blind = payload[b].blind
  PROVE  (Known(b) => Known(b)') /\ (Sound(b) => Sound(b)')
<1>1. pc'[b] = next /\ payload'[b] = q
  BY DEF Moves, TypeOK
<1>2. UNCHANGED <<Change, Truth, Evidence>>
  BY TruthStays DEF Moves
<1> QED
  BY <1>1, <1>2 DEF Sound, Known, NoDiff

\* A build that ends in an exception has nothing to be known.
LEMMA RaisedIsSound ==
  ASSUME NEW b, pc'[b] = "raised"
  PROVE  Known(b)' /\ Sound(b)'
  BY DEF Known, Sound

\* What such a step may do beside: where b may be, and to the status, the clone and the
\* histories.
MayMove(b, next) ==
  /\ next \in IF b \in Gets THEN GetPlaces \ {"idle"} ELSE DeliveryPlaces \ {"idle"}
  /\ \/ pc[b] # "idle" \/ approved
     \/ status = "AWAITING_APPROVAL" /\ b \in Gets
  /\ pc[b] \notin {"answered", "opened"}
  /\ status' = status \/ (status = "APPROVED" /\ status' \in {"PR_OPENED", "FAILED"})
  /\ faults' \in Nat
  /\ seen' = seen \/ (b \in Gets /\ seen' = b /\ next = "answered")
  /\ body' = body \/ (b \in Deliveries /\ body' = b /\ next = "opened")

MayChangeClone(b, next) ==
  /\ index' \in {index, Final} /\ commit' \in {commit, Final}
  /\ branched' = branched \/ (branched' /\ b \in Deliveries /\ (pc[b] # "idle" \/ approved))
  /\ ~branched' => index' = index
  /\ next \in {"stage", "commit", "push", "opened"} => branched'
  /\ next \in {"commit", "push", "opened"} => index' = Final
  /\ next \in {"push", "opened"} => commit' = Final

\* Such a step keeps the invariant if the payload it leaves is sound where it is trusted.
LEMMA StepKeeps ==
  ASSUME IInv, NEW b \in Builds, NEW next, NEW q \in Payloads,
         Moves(b, next, q), MayMove(b, next), MayChangeClone(b, next),
         Known(b)', Trusted(b)' => Sound(b)'
  PROVE  IInv'
<1> USE ConstantsAssumption DEF Builds
<1>1. /\ pc'[b] = next /\ payload'[b] = q
      /\ \A a \in Builds \ {b} : pc'[a] = pc[a] /\ payload'[a] = payload[a]
  BY DEF Moves, IInv, TypeOK
<1>0. Final \in Tree /\ Final' = Final
  BY Restaged, TruthStays DEF IInv, TypeOK, Moves
<1>2. TypeOK'
  <2>1. status' \in Statuses /\ faults' \in Nat
    BY DEF IInv, TypeOK, MayMove, Statuses
  <2>2. /\ suite' \in BOOLEAN /\ approved' \in BOOLEAN /\ runs' \in Seq(BOOLEAN)
        /\ work' \in Tree /\ own' \in Tree /\ tested' \in Tree /\ foreign' \in BOOLEAN
        /\ signed' \in {None} \cup Gets
    BY DEF IInv, TypeOK, Moves
  <2>3. index' \in Tree /\ commit' \in Tree
    BY <1>0 DEF IInv, TypeOK, MayChangeClone
  <2>4. branched' \in BOOLEAN
    BY DEF IInv, TypeOK, MayChangeClone
  <2>5. seen' \in {None} \cup Gets /\ body' \in {None} \cup Deliveries
    BY DEF IInv, TypeOK, MayMove
  <2>6. next \in GetPlaces \cup DeliveryPlaces
    BY DEF MayMove
  <2>7. pc' \in [Builds -> GetPlaces \cup DeliveryPlaces]
    BY <2>6 DEF IInv, TypeOK, Moves
  <2>8. payload' \in [Builds -> Payloads]
    BY DEF IInv, TypeOK, Moves
  <2>9. /\ \A a \in Gets : pc'[a] \in GetPlaces
        /\ \A a \in Deliveries : pc'[a] \in DeliveryPlaces
    BY <1>1 DEF IInv, TypeOK, MayMove
  <2> QED
    BY <2>1, <2>2, <2>3, <2>4, <2>5, <2>7, <2>8, <2>9 DEF TypeOK
<1>3. LateInv'
  <2>1. approved' = approved
    BY DEF Moves
  <2> QED
    BY <1>1, <2>1 DEF IInv, LateInv, MayMove, MayChangeClone
<1>4. TreeInv'
  <2>1. index \in {own, Final} /\ own' = own
    BY DEF IInv, TreeInv, Moves
  <2>2. ~branched' => index' = own'
    BY <2>1 DEF IInv, TreeInv, MayChangeClone
  <2>3. \A a \in Builds :
          /\ pc'[a] \in {"stage", "commit", "push", "opened"} => branched'
          /\ pc'[a] \in {"commit", "push", "opened"} => index' = Final
          /\ pc'[a] \in {"push", "opened"} => commit' = Final
    BY <1>1 DEF IInv, TreeInv, MayChangeClone
  <2>4. index' \in {own, Final}
    BY <2>1 DEF MayChangeClone
  <2> QED
    BY <1>0, <2>1, <2>2, <2>3, <2>4 DEF TreeInv
<1>5. VerdictInv'
  <2>1. \/ status \in {"SUMMARIZING", "AWAITING_APPROVAL"} \/ approved
        \/ \E a \in Builds : pc[a] # "idle"
    BY DEF MayMove
  <2>2. UNCHANGED <<Evidence, suite, runs, work, tested>>
    BY TruthStays DEF Moves
  <2> QED
    BY <2>1, <2>2 DEF IInv, VerdictInv
<1>6. HistoryInv'
  BY <1>1 DEF IInv, TypeOK, HistoryInv, MayMove, Moves, None
<1>7. SoundInv'
  BY OthersStaySound DEF IInv, MayChangeClone
<1> QED
  BY <1>2, <1>3, <1>4, <1>5, <1>6, <1>7 DEF IInv

-----------------------------------------------------------------------------
(***************************************************************************)
(* The initial states, the run and the gate                                *)
(***************************************************************************)

\* Nothing has happened.
LEMMA InitIInv == Init => IInv
<1> SUFFICES ASSUME Init PROVE IInv
  OBVIOUS
<1> USE ConstantsAssumption
<1>1. BaseTree \in Tree
  BY DEF BaseTree, Tree
<1>2. TypeOK
  <2>1. pc \in [Builds -> GetPlaces \cup DeliveryPlaces] /\ payload \in [Builds -> Payloads]
    BY EmptyTyped DEF Init, GetPlaces, DeliveryPlaces
  <2>2. /\ \A b \in Gets : pc[b] \in GetPlaces
        /\ \A b \in Deliveries : pc[b] \in DeliveryPlaces
    BY DEF Init, GetPlaces, DeliveryPlaces, Builds
  <2>3. runs \in Seq(BOOLEAN)
    BY EmptySeq DEF Init
  <2> QED
    BY <1>1, <2>1, <2>2, <2>3 DEF Init, TypeOK, Statuses
<1>3. LateInv /\ TreeInv /\ VerdictInv /\ HistoryInv
  BY DEF Init, LateInv, TreeInv, VerdictInv, HistoryInv, Builds, Evidence
<1>4. SoundInv
  BY DEF Init, SoundInv, Sound, Known
<1> QED
  BY <1>2, <1>3, <1>4 DEF IInv

\* While no build has begun, no payload can be unsound.
LEMMA IdleIsSound ==
  ASSUME TypeOK, \A b \in Builds : pc[b] = "idle", pc' = pc
  PROVE  SoundInv'
  BY DEF SoundInv, Sound, Known

\* The agent works before anything is shown or staged.
LEMMA EditKeeps == IInv /\ Edit => IInv'
<1> SUFFICES ASSUME IInv, Edit PROVE IInv'
  OBVIOUS
<1> USE ConstantsAssumption DEF rowVars, history
<1>1. work' \in Tree
  <2>1. PICK f \in Files, v \in Nat : work' = [work EXCEPT ![f] = v]
    BY DEF Edit
  <2> QED
    BY <2>1 DEF IInv, TypeOK, Tree
<1>2. TypeOK'
  BY <1>1 DEF IInv, TypeOK, Edit
<1>3. /\ ~branched /\ \A b \in Builds : pc[b] = "idle"
      /\ status = "EDITING"
  BY DEF IInv, LateInv, Edit
<1>4. LateInv' /\ HistoryInv'
  BY DEF IInv, LateInv, HistoryInv, Edit
<1>5. TreeInv'
  BY <1>3 DEF IInv, TreeInv, Edit
<1>6. VerdictInv'
  BY <1>3 DEF IInv, VerdictInv, LateInv, Edit
<1>7. SoundInv'
  BY <1>3, IdleIsSound DEF IInv, Edit
<1> QED
  BY <1>2, <1>4, <1>5, <1>6, <1>7 DEF IInv

\* What it does with git is its own index and its own commit.
LEMMA AgentGitKeeps == IInv /\ AgentGit => IInv'
<1> SUFFICES ASSUME IInv, AgentGit PROVE IInv'
  OBVIOUS
<1> USE ConstantsAssumption DEF rowVars
<1>1. index' \in Tree /\ commit' \in Tree /\ own' = index'
  <2>1. CASE \E f \in GitFiles : \E v \in {work[f], 0, commit[f]} : index' = [index EXCEPT ![f] = v]
    <3>1. PICK f \in Files, v \in Nat : index' = [index EXCEPT ![f] = v]
      BY <2>1 DEF IInv, TypeOK, Tree
    <3>2. index' \in Tree
      BY <3>1 DEF IInv, TypeOK, Tree
    <3>3. commit' \in {commit, index}
      BY DEF AgentGit
    <3> QED
      BY <3>2, <3>3 DEF IInv, TypeOK, AgentGit
  <2>2. CASE commit' = index /\ UNCHANGED index
    BY <2>2 DEF IInv, TypeOK, AgentGit
  <2> QED
    BY <2>1, <2>2 DEF AgentGit
<1>2. TypeOK'
  BY <1>1 DEF IInv, TypeOK, AgentGit
<1>3. /\ ~branched /\ \A b \in Builds : pc[b] = "idle"
      /\ status = "EDITING"
  BY DEF IInv, LateInv, AgentGit
<1>4. LateInv' /\ HistoryInv'
  BY DEF IInv, LateInv, HistoryInv, AgentGit
<1>5. TreeInv'
  BY <1>1, <1>3 DEF TreeInv, AgentGit
<1>6. VerdictInv'
  BY <1>3 DEF IInv, VerdictInv, LateInv, AgentGit
<1>7. SoundInv'
  BY <1>3, IdleIsSound DEF IInv, AgentGit
<1> QED
  BY <1>2, <1>4, <1>5, <1>6, <1>7 DEF IInv

\* So does the end of its phase, with the first look at git diff.
LEMMA EditingEndsKeeps == IInv /\ EditingEnds => IInv'
<1> SUFFICES ASSUME IInv, EditingEnds PROVE IInv'
  OBVIOUS
<1> USE ConstantsAssumption DEF cloneVars, history
<1>1. status' \in {"FAILED", "TESTING"}
  BY DEF EditingEnds
<1>2. TypeOK'
  BY <1>1 DEF IInv, TypeOK, EditingEnds, Statuses
<1>3. ~branched /\ \A b \in Builds : pc[b] = "idle"
  BY DEF IInv, LateInv, EditingEnds
<1>4. LateInv' /\ HistoryInv'
  BY <1>1, <1>3 DEF IInv, LateInv, HistoryInv, EditingEnds
<1>5. TreeInv'
  BY <1>3 DEF IInv, TreeInv, EditingEnds
<1>6. VerdictInv'
  BY <1>1, <1>3 DEF IInv, VerdictInv, LateInv, EditingEnds
<1>7. SoundInv'
  BY <1>3, IdleIsSound DEF IInv, EditingEnds
<1> QED
  BY <1>2, <1>4, <1>5, <1>6, <1>7 DEF IInv

\* A session without a suite has no test run, and says so.
LEMMA SkipTestsKeeps == IInv /\ SkipTests => IInv'
<1> SUFFICES ASSUME IInv, SkipTests PROVE IInv'
  OBVIOUS
<1> USE ConstantsAssumption DEF cloneVars, history
<1>1. TypeOK'
  BY DEF IInv, TypeOK, SkipTests, Statuses
<1>2. ~branched /\ \A b \in Builds : pc[b] = "idle"
  BY DEF IInv, LateInv, SkipTests
<1>3. LateInv' /\ HistoryInv'
  BY <1>2 DEF IInv, LateInv, HistoryInv, SkipTests
<1>4. TreeInv'
  BY <1>2 DEF IInv, TreeInv, SkipTests
<1>5. VerdictInv'
  BY DEF IInv, VerdictInv, SkipTests
<1>6. SoundInv'
  BY <1>2, IdleIsSound DEF IInv, SkipTests
<1> QED
  BY <1>1, <1>3, <1>4, <1>5, <1>6 DEF IInv

\* A test run that is green is the last, and ran on the tree but for what it left there.
LEMMA TestKeeps == IInv /\ Test => IInv'
<1> SUFFICES ASSUME IInv, Test PROVE IInv'
  OBVIOUS
<1> USE ConstantsAssumption
<1>1. PICK green \in BOOLEAN :
        /\ runs' = Append(runs, green)
        /\ status' = IF green THEN "SUMMARIZING"
                     ELSE IF Len(runs') < MaxRuns THEN "EDITING" ELSE "EXHAUSTED"
  BY DEF Test
<1>2. PICK left : /\ \A f \in Artefacts : left[f] \in Contents[f]
                  /\ work' = [f \in Files |-> IF f \in Artefacts THEN left[f] ELSE work[f]]
  BY DEF Test
<1>3. status' \in {"SUMMARIZING", "EDITING", "EXHAUSTED"} /\ (status' = "SUMMARIZING" => green)
  BY <1>1
<1>4. work' \in Tree /\ \A f \in Files \ Artefacts : work'[f] = work[f]
  BY <1>2 DEF IInv, TypeOK, Tree
<1>5. runs' \in Seq(BOOLEAN) /\ runs' # <<>> /\ Last(runs') = green
  <2>1. runs \in Seq(BOOLEAN)
    BY DEF IInv, TypeOK
  <2>2. Last(runs') = runs'[Len(runs')]
    BY DEF Last
  <2> QED
    BY <1>1, <2>1, <2>2, AppendProperties
<1>6. TypeOK'
  BY <1>3, <1>4, <1>5 DEF IInv, TypeOK, Test, Statuses
<1>7. ~branched /\ \A b \in Builds : pc[b] = "idle"
  BY DEF IInv, LateInv, Test
<1>8. LateInv' /\ HistoryInv'
  BY <1>3, <1>7 DEF IInv, LateInv, HistoryInv, Test
<1>9. TreeInv'
  BY <1>7 DEF IInv, TreeInv, Test
<1>10. VerdictInv'
  <2>1. suite' /\ tested' = work /\ pc' = pc /\ ~approved'
    BY DEF Test, IInv, LateInv
  <2>2. status' = "SUMMARIZING" => Evidence'.final = "green"
    BY <1>3, <1>5 DEF Evidence
  <2> QED
    BY <1>3, <1>4, <1>7, <2>1, <2>2 DEF VerdictInv
<1>11. SoundInv'
  BY <1>7, IdleIsSound DEF IInv, Test
<1> QED
  BY <1>6, <1>8, <1>9, <1>10, <1>11 DEF IInv

\* The request shows nothing yet.
LEMMA RequestKeeps == IInv /\ Request => IInv'
<1> SUFFICES ASSUME IInv, Request PROVE IInv'
  OBVIOUS
<1> USE ConstantsAssumption DEF cloneVars, history
<1>1. TypeOK'
  BY DEF IInv, TypeOK, Request, Statuses
<1>2. ~branched /\ \A b \in Builds : pc[b] = "idle"
  BY DEF IInv, LateInv, Request
<1>3. LateInv' /\ HistoryInv'
  BY <1>2 DEF IInv, LateInv, HistoryInv, Request, Builds
<1>4. TreeInv'
  BY <1>2 DEF IInv, TreeInv, Request
<1>5. VerdictInv'
  BY TruthStays DEF IInv, VerdictInv, Request
<1>6. SoundInv'
  BY <1>2, IdleIsSound DEF IInv, Request
<1> QED
  BY <1>1, <1>3, <1>4, <1>5, <1>6 DEF IInv

\* What the human signs was read while nothing was staged: every payload is sound then.
LEMMA DecideKeeps == IInv /\ Decide => IInv'
<1> SUFFICES ASSUME IInv, Decide PROVE IInv'
  OBVIOUS
<1> USE ConstantsAssumption DEF cloneVars
<1>1. /\ status = "AWAITING_APPROVAL" /\ status' \in {"APPROVED", "REJECTED"}
      /\ signed' \in {seen, signed} /\ approved' \in BOOLEAN
      /\ UNCHANGED <<suite, runs, cloneVars, foreign, own, tested, seen, body, pc, payload, faults>>
  BY DEF Decide, IInv, TypeOK
<1>2. ~branched
  BY <1>1 DEF IInv, LateInv
<1>3. TypeOK'
  BY <1>1 DEF IInv, TypeOK, Statuses
<1>4. LateInv' /\ HistoryInv'
  BY <1>1 DEF IInv, LateInv, HistoryInv
<1>5. UNCHANGED <<Change, Truth, Evidence, Final>>
  BY <1>1, TruthStays
<1>6. TreeInv'
  BY <1>1, <1>2, <1>5 DEF IInv, TreeInv
<1>7. VerdictInv'
  BY <1>1, <1>5 DEF IInv, VerdictInv
<1>8. SoundInv'
  <2>1. \A b \in Builds : Known(b) /\ Sound(b)
    BY <1>2 DEF IInv, SoundInv, Trusted
  <2> QED
    BY <1>1, <1>5, <2>1 DEF SoundInv, Sound, Known, TestsOnly, NoDiff
<1> QED
  BY <1>3, <1>4, <1>6, <1>7, <1>8 DEF IInv

\* A branch of another session's can only make a payload less trusted.
LEMMA OthersPushKeeps == IInv /\ OthersPush => IInv'
<1> SUFFICES ASSUME IInv, OthersPush PROVE IInv'
  OBVIOUS
<1>1. /\ foreign'
      /\ UNCHANGED <<status, suite, approved, runs, work, index, commit, branched, own, tested,
                     seen, signed, body, pc, payload, faults>>
  BY DEF OthersPush, rowVars, cloneVars, history
<1>2. UNCHANGED <<Change, Truth, Evidence, Final>>
  BY <1>1, TruthStays
<1>3. TypeOK' /\ LateInv' /\ HistoryInv'
  BY <1>1 DEF IInv, TypeOK, LateInv, HistoryInv
<1>4. TreeInv' /\ VerdictInv'
  BY <1>1, <1>2 DEF IInv, TreeInv, VerdictInv
<1>5. \A b \in Builds : Trusted(b)' => Trusted(b)
  BY <1>1 DEF Trusted
<1>6. SoundInv'
  BY <1>1, <1>2, <1>5 DEF IInv, SoundInv, Sound, Known, TestsOnly, NoDiff
<1> QED
  BY <1>3, <1>4, <1>6 DEF IInv

-----------------------------------------------------------------------------
(***************************************************************************)
(* The build of a payload                                                  *)
(***************************************************************************)

\* What the rows say is read at once.
LEMMA ReadRowsKeeps ==
  ASSUME IInv, NEW b \in Builds, ReadRows(b),
         approved \/ (status = "AWAITING_APPROVAL" /\ b \in Gets)
  PROVE  IInv'
<1> DEFINE q == [payload[b] EXCEPT !.evidence = Evidence]
<1>1. payload[b] \in Payloads
  BY DEF IInv, TypeOK
<1>2. q \in Payloads
  BY <1>1, EvidenceTyped DEF IInv, Payloads
<1>3. q.evidence = Evidence
  BY <1>1 DEF Payloads
<1>4. payload' = [payload EXCEPT ![b] = q]
  BY DEF ReadRows
<1> HIDE DEF q
<1>5. Moves(b, "summary", q)
  BY <1>4 DEF ReadRows, Goto, Moves, rowVars, cloneVars, history
<1>6. MayMove(b, "summary")
  BY DEF ReadRows, MayMove, GetPlaces, DeliveryPlaces, history, rowVars, IInv, TypeOK
<1>7. MayChangeClone(b, "summary")
  BY DEF ReadRows, MayChangeClone, cloneVars
<1>8. Known(b)' /\ Sound(b)'
  <2>1. pc'[b] = "summary" /\ payload'[b] = q
    BY <1>5 DEF Moves, IInv, TypeOK
  <2>2. Evidence' = Evidence
    BY <1>5, TruthStays DEF Moves
  <2> QED
    BY <1>3, <2>1, <2>2 DEF Sound, Known
<1> QED
  BY <1>2, <1>5, <1>6, <1>7, <1>8, StepKeeps

\* A payload that is trusted after an await of its build was so before it, when nothing was
\* staged: git diff then showed the change.
LEMMA TrustedBuild ==
  ASSUME IInv, NEW b \in Builds, pc[b] \in {"summary", "model", "diff", "stats", "tests"},
         pc'[b] \in {"model", "diff", "stats", "tests", "answered", "compose"},
         UNCHANGED <<branched, foreign, signed>>, Trusted(b)'
  PROVE  Sound(b) /\ Changed = Change /\ Shown(GitDiff) = Truth
<1>1. ~branched
  BY ConstantsAssumption DEF IInv, HistoryInv, Trusted, None, Builds
<1>2. index = own
  BY <1>1 DEF IInv, TreeInv
<1>3. Changed = Change /\ Shown(GitDiff) = Truth
  BY <1>2, GitDiffShows DEF IInv
<1>4. Sound(b)
  BY <1>1 DEF IInv, SoundInv, Trusted
<1> QED
  BY <1>3, <1>4

\* An await of the build, seen from the rest of the system.
LEMMA AwaitMoves ==
  ASSUME IInv, NEW b \in Builds, NEW awaited \in {"summary", "model", "diff", "stats", "tests"},
         NEW next \in {"model", "diff", "stats", "tests", "raised", "answered", "compose"},
         next = "answered" => b \in Gets, next = "compose" => b \in Deliveries,
         Reads(b, awaited, next), faults' \in Nat,
         seen' = seen \/ (b \in Gets /\ seen' = b /\ next = "answered")
  PROVE  MayMove(b, next) /\ MayChangeClone(b, next)
<1>1. MayMove(b, next)
  BY ConstantsAssumption DEF Reads, Goto, MayMove, GetPlaces, DeliveryPlaces, rowVars, Builds, IInv, TypeOK
<1>2. MayChangeClone(b, next)
  BY DEF Reads, MayChangeClone, cloneVars
<1> QED
  BY <1>1, <1>2

\* The same of its payload.
LEMMA ReadsMoves ==
  ASSUME IInv, NEW b \in Builds, NEW awaited, NEW next, NEW q,
         Reads(b, awaited, next), payload' = [payload EXCEPT ![b] = q]
  PROVE  /\ Moves(b, next, q) /\ pc[b] = awaited /\ pc'[b] = next /\ payload'[b] = q
         /\ UNCHANGED <<branched, foreign, signed, Change, Truth, Evidence>>
<1>1. Moves(b, next, q)
  BY DEF Reads, Goto, Moves, rowVars, cloneVars
<1>2. UNCHANGED <<Change, Truth, Evidence>>
  BY <1>1, TruthStays DEF Moves
<1> QED
  BY <1>1, <1>2 DEF Reads, Goto, cloneVars, IInv, TypeOK

\* What an await of the build hands to the payload: what it read, or the mark that it failed.
LEMMA Reading ==
  ASSUME IInv, NEW b \in Builds, NEW r, NEW m, Honestly(b, r) \/ Misread(b, m)
  PROVE  faults' \in Nat /\ \E q \in {r, m} : payload' = [payload EXCEPT ![b] = q]
  BY DEF Honestly, Misread, IInv, TypeOK

\* The diff that the summary is written from.
LEMMA BasisReturnsKeeps ==
  ASSUME IInv, NEW b \in Builds, BasisReturns(b)
  PROVE  IInv'
<1> DEFINE cut == Shown(GitDiff)
           r == [payload[b] EXCEPT !.basis = cut]
           m == [payload[b] EXCEPT !.blind = TRUE]
<1>1. payload[b] \in Payloads /\ cut \in Diffs
  <2>1. cut.hunks \in Hunks /\ cut.truncated \in BOOLEAN
    BY GitDiffTyped, ShownTyped DEF IInv, TypeOK
  <2>2. cut = [hunks |-> cut.hunks, truncated |-> cut.truncated]
    BY DEF Shown
  <2> QED
    BY <2>1, <2>2 DEF IInv, TypeOK, Diffs
<1> HIDE DEF cut
<1>2. /\ r \in Payloads /\ r.basis = cut /\ r.evidence = payload[b].evidence
      /\ m \in Payloads /\ m.blind /\ m.evidence = payload[b].evidence
  BY <1>1 DEF Payloads
<1>3. Reads(b, "summary", "model") /\ seen' = seen /\ (Honestly(b, r) \/ Misread(b, m))
  BY DEF BasisReturns, cut
<1> HIDE DEF r, m
<1>4. faults' \in Nat
  BY <1>3, Reading
<1>5. PICK q \in {r, m} : payload' = [payload EXCEPT ![b] = q]
  BY <1>3, Reading
<1>6. /\ Moves(b, "model", q) /\ pc[b] = "summary" /\ pc'[b] = "model" /\ payload'[b] = q
      /\ UNCHANGED <<branched, foreign, signed, Change, Truth, Evidence>>
  BY <1>3, <1>5, ReadsMoves
<1>7. MayMove(b, "model") /\ MayChangeClone(b, "model")
  BY <1>3, <1>4, AwaitMoves
<1>8. Known(b)'
  <2>1. cut \in {Truth, NoDiff}
    BY GitDiffShows DEF cut, IInv, TreeInv
  <2>2. payload[b].evidence = Evidence
    BY <1>6 DEF IInv, SoundInv, Known
  <2> QED
    BY <1>2, <1>5, <1>6, <2>1, <2>2 DEF Known, NoDiff
<1>9. Trusted(b)' => Sound(b)'
  <2> SUFFICES ASSUME Trusted(b)' PROVE Sound(b)'
    OBVIOUS
  <2>1. cut = Truth
    BY <1>6, TrustedBuild DEF cut
  <2> QED
    BY <1>2, <1>5, <1>6, <2>1 DEF Sound
<1> QED
  BY <1>2, <1>5, <1>6, <1>7, <1>8, <1>9, StepKeeps

\* The model's answer, or the error there is instead.
LEMMA SummaryReturnsKeeps ==
  ASSUME IInv, NEW b \in Builds, SummaryReturns(b)
  PROVE  IInv'
<1>1. payload[b] \in Payloads /\ faults' \in Nat /\ seen' = seen
  BY DEF SummaryReturns, IInv, TypeOK
<1>2. CASE Reads(b, "model", "diff") /\ UNCHANGED payload
  <2>1. payload' = [payload EXCEPT ![b] = payload[b]]
    BY <1>2 DEF IInv, TypeOK
  <2>2. /\ Moves(b, "diff", payload[b]) /\ pc[b] = "model" /\ pc'[b] = "diff"
        /\ UNCHANGED <<branched, foreign, signed>>
    BY <1>2, <2>1, ReadsMoves
  <2>3. MayMove(b, "diff") /\ MayChangeClone(b, "diff")
    BY <1>1, <1>2, AwaitMoves
  <2>4. Known(b)' /\ (Sound(b) => Sound(b)')
    BY <2>2, CarriesOn DEF IInv, SoundInv
  <2>5. Trusted(b)' => Sound(b)'
    BY <2>2, <2>4, TrustedBuild
  <2> QED
    BY <1>1, <2>2, <2>3, <2>4, <2>5, StepKeeps
<1>3. CASE Reads(b, "model", "raised") /\ Forget(b)
  <2>1. Moves(b, "raised", Empty) /\ pc'[b] = "raised"
    BY <1>3, ReadsMoves DEF Forget
  <2>2. MayMove(b, "raised") /\ MayChangeClone(b, "raised")
    BY <1>1, <1>3, AwaitMoves
  <2> QED
    BY <2>1, <2>2, RaisedIsSound, EmptyTyped, StepKeeps
<1> QED
  BY <1>2, <1>3 DEF SummaryReturns

\* What a later await keeps of the payload.
SameHead(q, p) == q.evidence = p.evidence /\ q.basis = p.basis /\ q.blind = p.blind
SameDiff(q, p) == q.hunks = p.hunks /\ q.truncated = p.truncated

\* The rest of the build leaves the evidence and the summary alone.
LEMMA LaterAwait ==
  ASSUME IInv, NEW b \in Builds, NEW awaited \in {"diff", "stats", "tests"},
         NEW next \in {"stats", "tests", "answered", "compose"}, NEW q \in Payloads,
         next = "answered" => b \in Gets, next = "compose" => b \in Deliveries,
         Reads(b, awaited, next), faults' \in Nat, payload' = [payload EXCEPT ![b] = q],
         seen' = seen \/ (b \in Gets /\ seen' = b /\ next = "answered"),
         SameHead(q, payload[b]),
         ASSUME Sound(b), Changed = Change, Shown(GitDiff) = Truth, pc[b] = awaited
         PROVE  /\ next \in {"stats", "tests", "answered"} =>
                     q.misread \/ (q.hunks = Truth.hunks /\ q.truncated = Truth.truncated)
                /\ next \in {"tests", "answered"} => q.misread \/ q.stats = Change
                /\ next = "answered" => q.misread \/ q.testsOnly = TestsOnly(Change)
  PROVE  IInv'
<1>1. /\ Moves(b, next, q) /\ pc[b] = awaited /\ pc'[b] = next /\ payload'[b] = q
      /\ UNCHANGED <<branched, foreign, signed, Change, Truth, Evidence>>
  BY ReadsMoves
<1>2. MayMove(b, next) /\ MayChangeClone(b, next)
  BY AwaitMoves
<1>3. Known(b)'
  <2>1. Known(b)
    BY DEF IInv, SoundInv
  <2> QED
    BY <1>1, <2>1 DEF Known, SameHead, NoDiff
<1>4. Trusted(b)' => Sound(b)'
  <2> SUFFICES ASSUME Trusted(b)' PROVE Sound(b)'
    OBVIOUS
  <2>1. Sound(b) /\ Changed = Change /\ Shown(GitDiff) = Truth
    BY <1>1, TrustedBuild
  <2>2. /\ next \in {"stats", "tests", "answered"} =>
             q.misread \/ (q.hunks = Truth.hunks /\ q.truncated = Truth.truncated)
        /\ next \in {"tests", "answered"} => q.misread \/ q.stats = Change
        /\ next = "answered" => q.misread \/ q.testsOnly = TestsOnly(Change)
    BY <1>1, <2>1
  <2>3. (TestsOnly(Change))' = TestsOnly(Change)
    BY <1>1 DEF TestsOnly
  <2>4. q.blind \/ q.basis = Truth
    BY <1>1, <2>1 DEF Sound, SameHead
  <2> QED
    BY <1>1, <2>2, <2>3, <2>4 DEF Sound
<1> QED
  BY <1>1, <1>2, <1>3, <1>4, StepKeeps

\* The diff, cut to what is shown.
LEMMA DiffReturnsKeeps ==
  ASSUME IInv, NEW b \in Builds, DiffReturns(b)
  PROVE  IInv'
<1> DEFINE cut == Shown(GitDiff)
           r == [payload[b] EXCEPT !.hunks = cut.hunks, !.truncated = cut.truncated]
           m == [payload[b] EXCEPT !.misread = TRUE]
<1>1. payload[b] \in Payloads /\ cut.hunks \in Hunks /\ cut.truncated \in BOOLEAN
  BY GitDiffTyped, ShownTyped DEF IInv, TypeOK
<1> HIDE DEF cut
<1>2. /\ r \in Payloads /\ r.hunks = cut.hunks /\ r.truncated = cut.truncated
      /\ SameHead(r, payload[b])
      /\ m \in Payloads /\ m.misread /\ SameHead(m, payload[b])
  BY <1>1 DEF Payloads, SameHead
<1>3. Reads(b, "diff", "stats") /\ seen' = seen /\ (Honestly(b, r) \/ Misread(b, m))
  BY DEF DiffReturns, cut
<1> HIDE DEF r, m
<1>4. faults' \in Nat
  BY <1>3, Reading
<1>5. PICK q \in {r, m} : payload' = [payload EXCEPT ![b] = q]
  BY <1>3, Reading
<1>6. q \in Payloads /\ SameHead(q, payload[b])
  BY <1>2, <1>5
<1>7. ASSUME Shown(GitDiff) = Truth
      PROVE  q.misread \/ (q.hunks = Truth.hunks /\ q.truncated = Truth.truncated)
  BY <1>2, <1>5, <1>7 DEF cut
<1> QED
  BY <1>3, <1>4, <1>5, <1>6, <1>7, LaterAwait

\* The per-file list.
LEMMA StatsReturnKeeps ==
  ASSUME IInv, NEW b \in Builds, StatsReturn(b)
  PROVE  IInv'
<1> DEFINE r == [payload[b] EXCEPT !.stats = Changed]
           m == [payload[b] EXCEPT !.misread = TRUE]
<1>1. payload[b] \in Payloads /\ Changed \in SUBSET Files
  BY GitDiffTyped DEF IInv, TypeOK
<1>2. /\ r \in Payloads /\ r.stats = Changed /\ r.misread = payload[b].misread
      /\ SameHead(r, payload[b]) /\ SameDiff(r, payload[b])
      /\ m \in Payloads /\ m.misread /\ SameHead(m, payload[b])
  BY <1>1 DEF Payloads, SameHead, SameDiff
<1>3. Reads(b, "stats", "tests") /\ seen' = seen /\ (Honestly(b, r) \/ Misread(b, m))
  BY DEF StatsReturn
<1> HIDE DEF r, m
<1>4. faults' \in Nat
  BY <1>3, Reading
<1>5. PICK q \in {r, m} : payload' = [payload EXCEPT ![b] = q]
  BY <1>3, Reading
<1>6. q \in Payloads /\ SameHead(q, payload[b])
  BY <1>2, <1>5
<1>7. ASSUME Sound(b), Changed = Change, pc[b] = "stats"
      PROVE  /\ q.misread \/ (q.hunks = Truth.hunks /\ q.truncated = Truth.truncated)
             /\ q.misread \/ q.stats = Change
  BY <1>2, <1>5, <1>7 DEF Sound, SameDiff
<1> QED
  BY <1>3, <1>4, <1>5, <1>6, <1>7, LaterAwait

\* The last await.
LEMMA TestsOnlyReturnsKeeps ==
  ASSUME IInv, NEW b \in Builds, TestsOnlyReturns(b)
  PROVE  IInv'
<1> DEFINE next == IF b \in Gets THEN "answered" ELSE "compose"
           r == [payload[b] EXCEPT !.testsOnly = TestsOnly(Changed)]
           m == [payload[b] EXCEPT !.misread = TRUE]
<1>1. payload[b] \in Payloads /\ TestsOnly(Changed) \in BOOLEAN
  BY DEF IInv, TypeOK, TestsOnly
<1>2. /\ r \in Payloads /\ r.testsOnly = TestsOnly(Changed) /\ r.misread = payload[b].misread
      /\ SameHead(r, payload[b]) /\ SameDiff(r, payload[b]) /\ r.stats = payload[b].stats
      /\ m \in Payloads /\ m.misread /\ SameHead(m, payload[b])
  BY <1>1 DEF Payloads, SameHead, SameDiff
<1>3. /\ Reads(b, "tests", next) /\ (Honestly(b, r) \/ Misread(b, m))
      /\ seen' = IF b \in Gets THEN b ELSE seen
  BY DEF TestsOnlyReturns
<1> HIDE DEF r, m
<1>4. faults' \in Nat
  BY <1>3, Reading
<1>5. PICK q \in {r, m} : payload' = [payload EXCEPT ![b] = q]
  BY <1>3, Reading
<1>6. q \in Payloads /\ SameHead(q, payload[b])
  BY <1>2, <1>5
<1>7. /\ next \in {"answered", "compose"} /\ (next = "answered" => b \in Gets)
      /\ (next = "compose" => b \in Deliveries)
  BY DEF Builds
<1>8. seen' = seen \/ (b \in Gets /\ seen' = b /\ next = "answered")
  BY <1>3
<1> HIDE DEF next
<1>9. ASSUME Sound(b), Changed = Change, pc[b] = "tests"
      PROVE  /\ q.misread \/ (q.hunks = Truth.hunks /\ q.truncated = Truth.truncated)
             /\ q.misread \/ q.stats = Change
             /\ q.misread \/ q.testsOnly = TestsOnly(Change)
  BY <1>2, <1>5, <1>9 DEF Sound, SameDiff
<1> QED
  BY <1>3, <1>4, <1>5, <1>6, <1>7, <1>8, <1>9, LaterAwait

-----------------------------------------------------------------------------
(***************************************************************************)
(* The rest of a delivery                                                  *)
(***************************************************************************)

\* A delivery's step on a payload that is complete carries its head on, or drops it.
LEMMA DeliveryMoves ==
  ASSUME IInv, NEW b \in Deliveries, NEW next, MayMove(b, next), MayChangeClone(b, next),
         Goto(b, next), pc[b] \in {"compose", "branch", "stage", "commit", "push"},
         UNCHANGED <<suite, approved, runs, work, own, foreign, tested, signed>>,
         \/ /\ next \notin {"stats", "tests", "answered"} /\ (Trusted(b)' => Trusted(b))
            /\ UNCHANGED payload \/ payload' = [payload EXCEPT ![b] = Written(@)]
         \/ Forget(b) /\ next = "raised"
  PROVE  IInv'
<1>1. b \in Builds /\ payload[b] \in Payloads /\ pc'[b] = next
  BY DEF Builds, IInv, TypeOK, Goto
<1>2. CASE /\ next \notin {"stats", "tests", "answered"} /\ (Trusted(b)' => Trusted(b))
           /\ UNCHANGED payload \/ payload' = [payload EXCEPT ![b] = Written(@)]
  <2>1. Written(payload[b]) \in Payloads /\ SameHead(Written(payload[b]), payload[b])
    BY <1>1, EmptyTyped DEF Written, Empty, Payloads, SameHead
  <2>2. PICK q \in {payload[b], Written(payload[b])} : payload' = [payload EXCEPT ![b] = q]
    BY <1>2 DEF IInv, TypeOK
  <2>3. q \in Payloads /\ SameHead(q, payload[b])
    BY <1>1, <2>1, <2>2 DEF SameHead
  <2>4. Moves(b, next, q)
    BY <2>2 DEF Moves, Goto
  <2>5. Known(b) /\ (Trusted(b) => Sound(b))
    BY <1>1 DEF IInv, SoundInv
  <2>6. (Known(b) => Known(b)') /\ (Sound(b) => Sound(b)')
    BY <1>1, <1>2, <2>3, <2>4, CarriesOn DEF IInv, SameHead
  <2> QED
    BY <1>1, <1>2, <2>3, <2>4, <2>5, <2>6, StepKeeps
<1>3. CASE Forget(b) /\ next = "raised"
  <2>1. Moves(b, next, Empty)
    BY <1>3 DEF Moves, Goto, Forget
  <2> QED
    BY <1>1, <1>3, <2>1, RaisedIsSound, EmptyTyped, StepKeeps
<1> QED
  BY <1>2, <1>3

\* Every step of a delivery after its payload is such a step.
LEMMA DeliveryKeeps ==
  ASSUME IInv, NEW b \in Deliveries,
         ComposeReturns(b) \/ Branches(b) \/ Stages(b) \/ Commits(b) \/ Opens(b) \/ CommandFails(b)
  PROVE  IInv'
<1> USE ConstantsAssumption DEF rowVars, cloneVars, history
<1>1. b \notin Gets /\ b \in Builds /\ faults \in Nat
  BY DEF Builds, IInv, TypeOK
<1>2. CASE ComposeReturns(b)
  <2>1. PICK next \in {"branch", "raised"} :
          /\ Goto(b, next)
          /\ \/ next = "branch" /\ payload' = [payload EXCEPT ![b] = Written(@)]
             \/ Forget(b) /\ next = "raised"
    BY <1>2 DEF ComposeReturns
  <2>2. /\ pc[b] = "compose" /\ pc'[b] = next
        /\ UNCHANGED <<rowVars, cloneVars, foreign, history, faults>>
    BY <1>1, <1>2, <2>1 DEF ComposeReturns, Goto, IInv, TypeOK
  <2>3. MayMove(b, next) /\ MayChangeClone(b, next)
    BY <1>1, <2>2 DEF MayMove, MayChangeClone, DeliveryPlaces
  <2>4. Trusted(b)' => Trusted(b)
    BY <2>2 DEF Trusted
  <2> QED
    BY <2>1, <2>2, <2>3, <2>4, DeliveryMoves
<1>3. CASE Branches(b)
  <2>1. /\ pc[b] = "branch" /\ (branched => foreign) /\ branched' /\ Goto(b, "stage")
        /\ UNCHANGED <<rowVars, work, index, commit, foreign, history, payload, faults>>
    BY <1>3 DEF Branches
  <2>2. MayMove(b, "stage") /\ MayChangeClone(b, "stage")
    BY <1>1, <2>1 DEF MayMove, MayChangeClone, DeliveryPlaces
  <2>3. Trusted(b)' => Trusted(b)
    BY <2>1 DEF Trusted
  <2> QED
    BY <2>1, <2>2, <2>3, DeliveryMoves
<1>4. CASE Stages(b)
  <2>1. /\ pc[b] = "stage" /\ index' = AddAll(index) /\ Goto(b, "commit")
        /\ UNCHANGED <<rowVars, work, commit, branched, foreign, history, payload, faults>>
    BY <1>4 DEF Stages
  <2>2. branched /\ index \in {own, Final}
    BY <1>1, <2>1 DEF IInv, TreeInv
  <2>3. index' = Final
    BY <2>1, <2>2, Restaged DEF IInv, TypeOK
  <2>4. MayMove(b, "commit") /\ MayChangeClone(b, "commit")
    BY <1>1, <2>1, <2>2, <2>3 DEF MayMove, MayChangeClone, DeliveryPlaces
  <2>5. Trusted(b)' => Trusted(b)
    BY <2>1 DEF Trusted
  <2> QED
    BY <2>1, <2>4, <2>5, DeliveryMoves
<1>5. CASE Commits(b)
  <2>1. /\ pc[b] = "commit" /\ commit' = index /\ Goto(b, "push")
        /\ UNCHANGED <<rowVars, work, index, branched, foreign, history, payload, faults>>
    BY <1>5 DEF Commits
  <2>2. branched /\ index = Final
    BY <1>1, <2>1 DEF IInv, TreeInv
  <2>3. MayMove(b, "push") /\ MayChangeClone(b, "push")
    BY <1>1, <2>1, <2>2 DEF MayMove, MayChangeClone, DeliveryPlaces
  <2>4. Trusted(b)' => Trusted(b)
    BY <2>1 DEF Trusted
  <2> QED
    BY <2>1, <2>3, <2>4, DeliveryMoves
<1>6. CASE Opens(b)
  <2>1. /\ pc[b] = "push" /\ body' = b /\ Goto(b, "opened")
        /\ status' = status \/ (status = "APPROVED" /\ status' = "PR_OPENED")
        /\ UNCHANGED <<suite, approved, runs, cloneVars, foreign, own, tested, seen, signed,
                       payload, faults>>
    BY <1>6 DEF Opens
  <2>2. branched /\ index = Final /\ commit = Final
    BY <1>1, <2>1 DEF IInv, TreeInv
  <2>3. MayMove(b, "opened") /\ MayChangeClone(b, "opened")
    BY <1>1, <2>1, <2>2 DEF MayMove, MayChangeClone, DeliveryPlaces
  <2>4. Trusted(b)' => Trusted(b)
    BY <2>1 DEF Trusted
  <2> QED
    BY <2>1, <2>3, <2>4, DeliveryMoves
<1>7. CASE CommandFails(b)
  <2>1. /\ pc[b] \in {"branch", "stage", "commit", "push"} /\ Goto(b, "raised") /\ Forget(b)
        /\ status' = status \/ (status = "APPROVED" /\ status' = "FAILED")
        /\ UNCHANGED <<suite, approved, runs, cloneVars, foreign, history, faults>>
    BY <1>7 DEF CommandFails
  <2>2. MayMove(b, "raised") /\ MayChangeClone(b, "raised")
    BY <1>1, <2>1 DEF MayMove, MayChangeClone, DeliveryPlaces
  <2> QED
    BY <2>1, <2>2, DeliveryMoves
<1> QED
  BY <1>2, <1>3, <1>4, <1>5, <1>6, <1>7

-----------------------------------------------------------------------------
\* A crash drops what was being built.
LEMMA CrashKeeps == IInv /\ Crash => IInv'
<1> SUFFICES ASSUME IInv, Crash PROVE IInv'
  OBVIOUS
<1> USE ConstantsAssumption
<1> DEFINE resting == {b \in Builds : pc[b] \in {"idle", "answered", "opened", "raised"}}
<1>1. /\ faults' = faults + 1
      /\ pc' = [b \in Builds |-> IF b \in resting THEN pc[b] ELSE "raised"]
      /\ payload' = [b \in Builds |-> IF b \in resting THEN payload[b] ELSE Empty]
      /\ UNCHANGED <<status, suite, approved, runs, work, index, commit, branched, foreign, own,
                     tested, seen, signed, body>>
  BY DEF Crash, rowVars, cloneVars, history
<1>2. \A b \in Builds : \/ pc'[b] = pc[b] /\ payload'[b] = payload[b]
                        \/ pc[b] \notin {"idle", "answered", "opened"} /\ pc'[b] = "raised"
  <2> TAKE b \in Builds
  <2>1. b \in resting => pc'[b] = pc[b] /\ payload'[b] = payload[b]
    BY <1>1
  <2>2. b \notin resting => pc[b] \notin {"idle", "answered", "opened"} /\ pc'[b] = "raised"
    BY <1>1
  <2> QED
    BY <2>1, <2>2
<1>3. TypeOK'
  <2>1. pc' \in [Builds -> GetPlaces \cup DeliveryPlaces]
    BY <1>1 DEF IInv, TypeOK, GetPlaces
  <2>2. payload' \in [Builds -> Payloads]
    BY <1>1, EmptyTyped DEF IInv, TypeOK
  <2>3. /\ \A b \in Gets : pc'[b] \in GetPlaces
        /\ \A b \in Deliveries : pc'[b] \in DeliveryPlaces
    BY <1>2 DEF IInv, TypeOK, Builds, GetPlaces, DeliveryPlaces
  <2>4. faults' \in Nat
    BY <1>1 DEF IInv, TypeOK
  <2> QED
    BY <1>1, <2>1, <2>2, <2>3, <2>4 DEF IInv, TypeOK
<1>4. LateInv'
  BY <1>1, <1>2 DEF IInv, LateInv, Builds
<1>6. UNCHANGED <<Change, Truth, Evidence, Final>>
  BY <1>1, TruthStays
<1>5. TreeInv'
  BY <1>1, <1>2, <1>6 DEF IInv, TreeInv
<1>7. VerdictInv'
  BY <1>1, <1>2, <1>6 DEF IInv, VerdictInv
<1>8. HistoryInv'
  BY <1>1, <1>2 DEF IInv, TypeOK, HistoryInv, None, Builds
<1>9. SoundInv'
  <2> SUFFICES ASSUME NEW b \in Builds, pc'[b] # "raised"
               PROVE  Known(b)' /\ (Trusted(b)' => Sound(b)')
    BY RaisedIsSound DEF SoundInv
  <2>1. pc'[b] = pc[b] /\ payload'[b] = payload[b]
    BY <1>2
  <2>2. Known(b) /\ (Trusted(b)' => Sound(b))
    BY <1>1, <2>1 DEF IInv, SoundInv, Trusted
  <2> QED
    BY <1>1, <1>6, <2>1, <2>2 DEF Sound, Known, TestsOnly, NoDiff
<1> QED
  BY <1>3, <1>4, <1>5, <1>7, <1>8, <1>9 DEF IInv

\* No step leaves the invariant.
LEMMA Inductive == IInv /\ [Next]_vars => IInv'
<1> SUFFICES ASSUME IInv, [Next]_vars PROVE IInv'
  OBVIOUS
<1>1. CASE Edit \/ AgentGit \/ EditingEnds \/ SkipTests \/ Test \/ Request \/ Decide
  BY <1>1, EditKeeps, AgentGitKeeps, EditingEndsKeeps, SkipTestsKeeps, TestKeeps, RequestKeeps, DecideKeeps
<1>2. CASE \E b \in Gets : Get(b)
  BY <1>2, ReadRowsKeeps DEF Get, Builds
<1>3. ASSUME NEW b \in Builds, Build(b)
      PROVE  IInv'
  BY <1>3, BasisReturnsKeeps, SummaryReturnsKeeps, DiffReturnsKeeps, StatsReturnKeeps, TestsOnlyReturnsKeeps DEF Build
<1>4. ASSUME NEW b \in Deliveries, Deliver(b)
      PROVE  IInv'
  BY <1>4, ReadRowsKeeps DEF Deliver, Builds
<1>5. ASSUME NEW b \in Deliveries,
             \/ ComposeReturns(b) \/ Branches(b) \/ Stages(b) \/ Commits(b) \/ Opens(b)
             \/ CommandFails(b)
      PROVE  IInv'
  BY <1>5, DeliveryKeeps
<1>6. CASE OthersPush \/ Crash
  BY <1>6, OthersPushKeeps, CrashKeeps
<1>7. CASE UNCHANGED vars
  <2>1. UNCHANGED <<status, suite, approved, runs, work, index, commit, branched, foreign, own,
                    tested, seen, signed, body, pc, payload, faults>>
    BY <1>7 DEF vars, rowVars, cloneVars, history
  <2>2. TypeOK' /\ LateInv' /\ HistoryInv'
    BY <2>1 DEF IInv, TypeOK, LateInv, HistoryInv
  <2>3. UNCHANGED <<Change, Truth, Evidence, Final>>
    BY <2>1, TruthStays
  <2>4. TreeInv' /\ VerdictInv'
    BY <2>1, <2>3 DEF IInv, TreeInv, VerdictInv
  <2>5. SoundInv'
    BY <2>1, <2>3 DEF IInv, SoundInv, Sound, Known, Trusted, TestsOnly, NoDiff
  <2> QED
    BY <2>2, <2>4, <2>5 DEF IInv
<1> QED
  BY <1>1, <1>2, <1>3, <1>4, <1>5, <1>6, <1>7 DEF Next

\* It holds in every state the program reaches.
LEMMA Invariant == Spec => []IInv
  BY InitIInv, Inductive, PTL DEF Spec

-----------------------------------------------------------------------------
(***************************************************************************)
(* What the review is to the delivery                                      *)
(***************************************************************************)

\* A diff that does not say it is cut shows every file: in a finite set of paths in git's
\* order, fewer come before any one than there are.
LEMMA UncutShowsAll ==
  ASSUME NEW D \in SUBSET Files, NEW d, DOMAIN d = D
  PROVE  Shown(d).truncated \/ DOMAIN Shown(d).hunks = D
<1> SUFFICES ASSUME ~Shown(d).truncated, NEW g \in D
             PROVE  Cardinality({h \in D : h < g}) < MaxShown
  BY DEF Shown
<1> DEFINE before == {h \in D : h < g}
<1>1. IsFiniteSet(D) /\ Cardinality(D) \in Nat
  BY ConstantsAssumption, FS_Subset, FS_CardinalityType
<1>2. ~(Cardinality(D) > MaxShown) /\ MaxShown \in Nat
  BY ConstantsAssumption DEF Shown
<1>3. IsFiniteSet(D \ {g}) /\ Cardinality(D \ {g}) = Cardinality(D) - 1
  BY <1>1, FS_RemoveElement
<1>4. before \subseteq D \ {g}
  BY ConstantsAssumption
<1>5. Cardinality(before) <= Cardinality(D \ {g}) /\ Cardinality(before) \in Nat
  BY <1>3, <1>4, FS_Subset, FS_CardinalityType
<1> QED
  BY <1>1, <1>2, <1>3, <1>5

\* What a payload that tells the truth shows of a delivered tree.
LEMMA TruthShown ==
  ASSUME TypeOK, commit = Final
  PROVE  /\ Delivered = Change
         /\ \A f \in DOMAIN Truth.hunks : commit[f] = Truth.hunks[f]
         /\ DOMAIN Truth.hunks \subseteq Delivered
         /\ Truth.truncated \/ DOMAIN Truth.hunks = Delivered
         /\ Truth.truncated \/ Truth.hunks = [f \in Delivered |-> commit[f]]
<1> DEFINE d == [f \in Change |-> work[f]]
<1>1. \A f \in Files : own[f] # 0 => commit[f] = work[f]
  BY DEF Final, AddAll
<1>2. Delivered = Change
  BY <1>1 DEF Delivered, Change
<1>3. Truth = Shown(d) /\ DOMAIN d = Change /\ Change \in SUBSET Files
  BY DEF Truth, Change
<1>4. /\ \A f \in DOMAIN Truth.hunks : Truth.hunks[f] = work[f] /\ f \in Change
      /\ Truth.hunks = [f \in DOMAIN Truth.hunks |-> Truth.hunks[f]]
  BY DEF Truth, Shown
<1> HIDE DEF d
<1>5. Truth.truncated \/ DOMAIN Truth.hunks = Change
  BY <1>3, UncutShowsAll
<1>6. \A f \in Change : commit[f] = work[f]
  BY <1>1 DEF Change
<1>7. \A f \in DOMAIN Truth.hunks : commit[f] = Truth.hunks[f]
  BY <1>4, <1>6
<1>8. DOMAIN Truth.hunks = Change => Truth.hunks = [f \in Delivered |-> commit[f]]
  BY <1>2, <1>4, <1>7
<1> QED
  BY <1>2, <1>4, <1>5, <1>7, <1>8

\* Once a pull request is open, HEAD is what a delivery stages; the signed payload is sound,
\* and so is the opened one's summary if no other session has pushed the branch's name.
LEMMA OpenedIsSound ==
  ASSUME IInv, Opened
  PROVE  /\ commit = Final
         /\ body \in Builds /\ pc[body] = "opened" /\ Known(body) /\ (foreign \/ Sound(body))
         /\ signed # None =>
              signed \in Builds /\ pc[signed] = "answered" /\ Known(signed) /\ Sound(signed)
<1>1. body \in Builds /\ pc[body] = "opened"
  BY DEF IInv, TypeOK, HistoryInv, Opened, Builds
<1>2. commit = Final
  BY <1>1 DEF IInv, TreeInv
<1>3. Known(body) /\ (foreign \/ Sound(body))
  BY <1>1 DEF IInv, SoundInv, Trusted
<1>4. signed # None => signed \in Builds /\ pc[signed] = "answered"
  BY DEF IInv, TypeOK, HistoryInv, Builds
<1>5. signed # None => Known(signed) /\ Sound(signed)
  BY <1>4 DEF IInv, SoundInv, Trusted
<1> QED
  BY <1>1, <1>2, <1>3, <1>4, <1>5

\* What the human signed is what leaves the machine, of the files in the agent's index:
\* whoever edited, used git, reviewed or delivered in between, and wherever a command failed
\* or the process died.
THEOREM SignedIsWhatLeaves == Spec => []SignedIsDelivered
<1>1. IInv => SignedIsDelivered
  <2> SUFFICES ASSUME IInv, Opened, signed # None, ~payload[signed].misread
               PROVE  SignedIsDelivered
    BY DEF SignedIsDelivered
  <2> DEFINE p == payload[signed]
  <2>1. TypeOK /\ commit = Final /\ pc[signed] = "answered" /\ Sound(signed)
    BY OpenedIsSound DEF IInv
  <2>2. /\ p.hunks = Truth.hunks /\ p.truncated = Truth.truncated /\ p.stats = Change
        /\ p.testsOnly = TestsOnly(Change) /\ (p.blind \/ p.basis = Truth)
    BY <2>1 DEF Sound
  <2>3. /\ Delivered = Change
        /\ \A f \in DOMAIN Truth.hunks : commit[f] = Truth.hunks[f]
        /\ DOMAIN Truth.hunks \subseteq Delivered
        /\ Truth.truncated \/ DOMAIN Truth.hunks = Delivered
    BY <2>1, TruthShown
  <2>4. Truth = [hunks |-> Truth.hunks, truncated |-> Truth.truncated]
    BY DEF Truth, Shown
  <2>5. /\ \A f \in DOMAIN p.hunks : commit[f] = p.hunks[f]
        /\ IF p.truncated THEN DOMAIN p.hunks \subseteq Delivered ELSE DOMAIN p.hunks = Delivered
        /\ p.stats = Delivered
        /\ p.blind \/ p.basis = [hunks |-> p.hunks, truncated |-> p.truncated]
    BY <2>2, <2>3, <2>4
  <2>6. "tests_only" \in Warnings(p) <=> (p.hunks # <<>> \/ p.truncated) /\ p.testsOnly
    BY DEF Warnings
  <2>7. Delivered # {} => p.hunks # <<>> \/ p.truncated
    <3>1. DOMAIN <<>> = {}
      OBVIOUS
    <3> QED
      BY <2>5, <3>1
  <2>8. "tests_only" \in Warnings(p) <=> Delivered # {} /\ Delivered \subseteq TestFiles
    BY <2>2, <2>3, <2>6, <2>7 DEF TestsOnly
  <2> QED
    BY <2>5, <2>8 DEF SignedIsDelivered
<1> QED
  BY <1>1, Invariant, PTL

\* The body is written from the diff of what is committed, whatever a crash, a failure or a
\* delivery beside it had staged; only a branch of another session's can leave it empty.
THEOREM BodyIsTrue == Spec => []BodyDescribesCommit
<1>1. IInv => BodyDescribesCommit
  <2> SUFFICES ASSUME IInv, Opened PROVE BodyDescribesCommit
    BY DEF BodyDescribesCommit
  <2> DEFINE p == payload[body]
  <2>1. /\ TypeOK /\ commit = Final /\ pc[body] = "opened" /\ body \in Builds /\ Known(body)
        /\ foreign \/ Sound(body)
    BY OpenedIsSound DEF IInv
  <2>2. p.blind \/ p.basis = Truth \/ (foreign /\ p.basis = NoDiff)
    BY <2>1 DEF Sound, Known
  <2>3. Truth.truncated \/ Truth.hunks = [f \in Delivered |-> commit[f]]
    BY <2>1, TruthShown
  <2>4. \/ p.blind \/ p.basis.truncated
        \/ p.basis.hunks = [f \in Delivered |-> commit[f]]
        \/ foreign /\ p.basis.hunks = <<>>
    BY <2>2, <2>3 DEF NoDiff
  <2>5. p.evidence = Evidence
    BY <2>1 DEF Known
  <2>6. p.evidence.unverified \/ p.evidence.final = "green"
    <3>1. suite => Evidence.final = "green"
      BY <2>1 DEF IInv, VerdictInv
    <3>2. ~suite => Evidence.unverified
      BY DEF Evidence
    <3> QED
      BY <2>1, <2>5, <3>1, <3>2 DEF TypeOK
  <2> QED
    BY <2>4, <2>6 DEF BodyDescribesCommit
<1> QED
  BY <1>1, Invariant, PTL

\* The evidence that was signed is that of the delivered tree, but for what the test run
\* itself wrote and what .gitignore keeps out.
THEOREM EvidenceFits == Spec => []EvidenceIsCurrent
<1>1. IInv => EvidenceIsCurrent
  <2> SUFFICES ASSUME IInv, Opened, signed # None PROVE EvidenceIsCurrent
    BY DEF EvidenceIsCurrent
  <2>1. /\ commit = Final /\ signed \in Builds /\ pc[signed] = "answered" /\ Known(signed)
    BY OpenedIsSound
  <2>2. payload[signed].evidence = Evidence
    BY <2>1 DEF Known
  <2>3. CASE suite
    <3>1. Evidence.final = "green" /\ \A f \in Files \ Artefacts : tested[f] = work[f]
      BY <2>1, <2>3 DEF IInv, VerdictInv
    <3>2. \A f \in Files : commit[f] = work[f] \/ (commit[f] = 0 /\ f \in Ignored)
      BY <2>1 DEF Final, AddAll
    <3> QED
      BY <2>2, <3>1, <3>2 DEF EvidenceIsCurrent
  <2>4. CASE ~suite
    <3>1. runs = <<>>
      BY <2>4 DEF IInv, VerdictInv
    <3>2. Evidence.unverified
      BY <2>4 DEF Evidence
    <3> QED
      BY <2>2, <3>1, <3>2 DEF EvidenceIsCurrent, Warnings
  <2> QED
    BY <2>3, <2>4 DEF IInv, TypeOK
<1> QED
  BY <1>1, Invariant, PTL
=============================================================================
