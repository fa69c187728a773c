--------------------------- MODULE SelfCorrection ---------------------------
(***************************************************************************)
(* What SessionLifecycle leaves to chance: how the verdict on a test run   *)
(* comes about.  TestExecutionService runs the suite or the tests that     *)
(* failed last, PytestOutputParser reads what the sandbox kept of the      *)
(* output, the failures that were there before the first edit are          *)
(* subtracted, and                                                         *)
(* SelfCorrectionController compares the run with the one before it.       *)
(*                                                                         *)
(* An edit may change any test's outcome, or remove or add tests; a run    *)
(* may time out or end without a summary.  Otherwise a test's outcome is   *)
(* a function of the tree: flaky tests are not modelled.                   *)
(***************************************************************************)
EXTENDS PytestOutputParser

CONSTANT
  MaxAttempts    \* Settings.max_fix_attempts

ASSUME AttemptsAssumption == MaxAttempts \in Nat \ {0}

VARIABLES
  tree,       \* outcome of each test in the tree as it stands, and whether it collects
  origin,     \* history: the tree before the first edit
  baseline,   \* raw report of the baseline's test_runs row
  rows,       \* the last two rows of attempts_for_session(): nothing reads an older one
  attempt,    \* the loop variable of _run_testing_phase
  targets,    \* its `targets`: node ids to narrow the next run to
  verdict,    \* the last CorrectionAction
  pc

vars == <<tree, origin, baseline, rows, attempt, targets, verdict, pc>>

Trees == [outcome : [Tests -> {"absent", "pass"} \cup Exceptions], collects : BOOLEAN]

Red(t) == {n \in Tests : t.outcome[n] \in Exceptions}

-----------------------------------------------------------------------------
\* Reports

\* What one pytest process may do on tree t: selected = {} means the whole suite.  A node
\* id that does not exist is a usage error and nothing runs at all.  A module that does not
\* import breaks a full run, and a narrowed one that selects from it.  Or the process dies,
\* or is killed.
Outcomes(t, selected) ==
  LET chosen == IF selected = {} THEN Tests ELSE selected
      broken == [n \in Red(t) \cap chosen |-> t.outcome[n]]
      missing == \E n \in selected : t.outcome[n] = "absent"
  IN  {Killed, Printed(<<Other>>)}
        \cup (IF t.collects \/ selected # {}
                THEN {IF missing THEN Printed(<<NoTests>>) ELSE Printed(SuiteOutput(broken))}
                ELSE {})
        \cup (IF t.collects THEN {} ELSE {Printed(CollectionOutput)})

\* _subtract() that keeps pytest's count.
SubtractKeepsCount(raw, preExisting) ==
  LET kept == {f \in raw.failures : Node(f) \notin preExisting} IN
    IF preExisting = {} \/ raw.mode = "collection" THEN raw
    ELSE [raw EXCEPT !.failures = kept, !.signature = SignatureFor(kept)]

\* TestExecutionService._subtract()
Subtract(raw, preExisting) ==
  LET kept == {f \in raw.failures : Node(f) \notin preExisting} IN
    IF preExisting = {} \/ raw.mode = "collection" THEN raw
    ELSE [raw EXCEPT !.failures = kept,
                     !.failed = Cardinality(kept),
                     !.signature = SignatureFor(kept)]

PreExisting == Nodes(baseline.failures)

\* TestFailureReport.succeeded that forgets the runs that never finished.
SucceededByCount(report) == report.failed = 0

\* TestFailureReport.succeeded
Succeeded(report) == report.failed = 0 /\ report.mode = "ran"

-----------------------------------------------------------------------------
\* SelfCorrectionController.decide()

\* A comparison of the modes of the runs only.
NoProgressByMode(runs) ==
  Len(runs) = 2 /\ runs[2].report.mode = runs[1].report.mode

\* The signature of the run before the one just persisted is the same.
NoProgress(runs) ==
  Len(runs) = 2 /\ runs[2].report.signature = runs[1].report.signature

Decision(runs, n) ==
  IF Succeeded(Last(runs).report) THEN "SUCCEEDED"
  ELSE IF n >= MaxAttempts \/ NoProgress(runs) THEN "EXHAUSTED"
  ELSE "RETRY"

-----------------------------------------------------------------------------
Init ==
  /\ origin \in {t \in Trees : \A n \in Tests : t.outcome[n] # "absent"}
  /\ tree = origin
  /\ baseline = Parse(Printed(SuiteOutput(<<>>)))
  /\ rows = <<>>
  /\ attempt = 1
  /\ targets = {}
  /\ verdict = "none"
  /\ pc = "baseline"

\* run_baseline(): the raw report is the one that is kept.
BaselineReturns ==
  /\ pc = "baseline"
  /\ \E o \in Outcomes(tree, {}) : baseline' = Parse(o)
  /\ pc' = "edit"
  /\ UNCHANGED <<tree, origin, rows, attempt, targets, verdict>>

EditReturns ==
  /\ pc = "edit"
  /\ tree' \in Trees
  /\ pc' = "test"
  /\ UNCHANGED <<origin, baseline, rows, attempt, targets, verdict>>

\* A run is persisted with its effective report; `full` and `raw` are in it as well.
Persist(o, selected) ==
  LET row == [full |-> selected = {}, raw |-> Parse(o), report |-> Subtract(Parse(o), PreExisting)]
  IN  rows' = IF rows = <<>> THEN <<row>> ELSE <<Last(rows), row>>

\* decide() on the run just persisted.
Decide ==
  /\ verdict' = Decision(rows', attempt)
  /\ pc' = IF verdict' = "RETRY" THEN "retryedit" ELSE "done"

\* _run_testing_phase() that takes a narrowed green for the verdict.
TestReturnsUnconfirmed ==
  /\ pc = "test"
  /\ \E o \in Outcomes(tree, targets) : Persist(o, targets)
  /\ Decide
  /\ UNCHANGED <<tree, origin, baseline, attempt, targets>>

\* svc.run(): a narrowed green is confirmed, everything else is decided on.
TestReturns ==
  /\ pc = "test"
  /\ \E o \in Outcomes(tree, targets) : Persist(o, targets)
  /\ \/ /\ targets # {} /\ Succeeded(Last(rows').report)
        /\ pc' = "confirm"
        /\ UNCHANGED verdict
     \/ ~(targets # {} /\ Succeeded(Last(rows').report)) /\ Decide
  /\ UNCHANGED <<tree, origin, baseline, attempt, targets>>

ConfirmReturns ==
  /\ pc = "confirm"
  /\ \E o \in Outcomes(tree, {}) : Persist(o, {})
  /\ Decide
  /\ UNCHANGED <<tree, origin, baseline, attempt, targets>>

\* The retry's EDITING phase; then either the next round of the loop or its end.
RetryEditReturns ==
  /\ pc = "retryedit"
  /\ tree' \in Trees
  /\ targets' = Nodes(Last(rows).report.failures)
  /\ attempt' = attempt + 1
  /\ pc' = IF attempt < MaxAttempts THEN "test" ELSE "fellthrough"
  /\ UNCHANGED <<origin, baseline, rows, verdict>>

Next ==
  \/ BaselineReturns \/ EditReturns \/ TestReturns \/ ConfirmReturns \/ RetryEditReturns

Spec == Init /\ [][Next]_vars
=============================================================================
