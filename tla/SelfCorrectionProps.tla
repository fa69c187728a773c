------------------------- MODULE SelfCorrectionProps -------------------------
(***************************************************************************)
(* What SelfCorrection must satisfy.                                       *)
(***************************************************************************)
EXTENDS SelfCorrection

Failures == Tests \X (Exceptions \cup {"None"})
Modes    == {"ran", "timeout", "unparseable", "collection"}
Reports  ==
  [mode : Modes, failed : 0..Cardinality(Tests), failures : SUBSET Failures,
   signature : [mode : Modes, failures : SUBSET Failures]]

\* Every variable has its type; a report lists no more failures than the ceiling, and the
\* loop counter stays within the budget.
TypeOK ==
  /\ tree \in Trees
  /\ origin \in Trees
  /\ baseline \in Reports
  /\ \A i \in DOMAIN rows :
       /\ rows[i] \in [full : BOOLEAN, raw : Reports, report : Reports]
       /\ Cardinality(rows[i].report.failures) <= MaxItems
  /\ Len(rows) <= 2
  /\ attempt \in 1..MaxAttempts
  /\ targets \in SUBSET Tests
  /\ verdict \in {"none", "SUCCEEDED", "EXHAUSTED", "RETRY"}
  /\ pc \in {"baseline", "edit", "test", "confirm", "retryedit", "done"}

LastRow == Last(rows)

\* A report can list this many failures: there is room in it, and the header of the summary,
\* a row for each and the counts are in the tail that is kept of an output.
CanList(n) == n <= MaxItems /\ n + 2 <= MaxLines - MaxLines \div 2

\* A green verdict is about the tree that is handed over, all of it: unless the last run
\* had more failures than a report can list, nothing is red there that was not red before
\* the first edit, although narrowed runs came between and tests may have disappeared.
GreenIsClean ==
  verdict = "SUCCEEDED" /\ CanList(Cardinality(Red(tree))) => Red(tree) \subseteq Red(origin)

\* The failures that were there before are never held against the agent: a red verdict on
\* a run that finished means some other test is red, unless the clean checkout already had
\* more failures than its report could list, or no finished baseline at all.
RedIsDeserved ==
  verdict \in {"RETRY", "EXHAUSTED"} /\ pc \in {"retryedit", "done"}
    /\ LastRow.report.mode = "ran"
    /\ baseline.mode = "ran" /\ CanList(Cardinality(Red(origin)))
    => Red(tree) \ Red(origin) # {}

\* The session gives up before its budget is spent only if two consecutive runs failed
\* alike: the same tests with the same exceptions beyond the baseline, and, where nothing
\* was subtracted, for the same reason.  That the first of them did fail takes failures
\* that can be listed: see NoProgressIsOfAFailure.
ExhaustionIsEarned ==
  verdict = "EXHAUSTED" /\ attempt < MaxAttempts =>
    /\ attempt > 1
    /\ rows[1].report.failures = rows[2].report.failures
    /\ PreExisting = {} => rows[1].report.mode = rows[2].report.mode
    /\ PreExisting = {} /\ CanList(Cardinality(Red(tree))) => ~Succeeded(rows[1].report)

\* The loop neither runs past its budget nor stops short of it without cause.
WithinBudget == TypeOK /\ ExhaustionIsEarned

-----------------------------------------------------------------------------
\* "The verdict: a real run whose only-the-agent's-fault failures are all gone"
\* (schemas/test_execution.py:146).
GreenMeansNoRegression == verdict = "SUCCEEDED" => Red(tree) \subseteq Red(origin)

\* "An identical signature means the last edit changed nothing that mattered"
\* (self_correction_controller.py:15-16), and "a report with no failures is never compared
\* for no-progress" (schemas/test_execution.py:83-84): where the loop gives up early, the
\* run with which the last one is compared was red as well.
NoProgressIsOfAFailure ==
  verdict = "EXHAUSTED" /\ attempt < MaxAttempts => ~Succeeded(rows[1].report)

\* "Insensitive to ordering and to line-number drift, sensitive to a genuinely different
\* failure" (schemas/test_execution.py:79-80): when one test fails in two ways that pytest
\* names differently, the two runs have different signatures.
SignatureTellsFailuresApart ==
  \A n \in Tests : \A e1, e2 \in Exceptions \ Untyped :
    Parse(Printed(SuiteOutput([f \in {n} |-> e1]))).signature
      = Parse(Printed(SuiteOutput([f \in {n} |-> e2]))).signature => e1 = e2
=============================================================================
