------------------------- MODULE ReviewPayloadProps -------------------------
(***************************************************************************)
(* What the review must be to the delivery.                                *)
(***************************************************************************)
EXTENDS ReviewPayload

Opened == body # None

\* What the pull request changes of the files the agent left in git's index, as against that
\* index.  An agent that ran no git of its own left the base commit's files there.
Delivered == {f \in Files : own[f] # 0 /\ commit[f] # own[f]}

\* What the human signed is what leaves the machine, as far as git diff can tell: whoever
\* edited, reviewed or delivered in between, the diff shows the contents that were committed
\* for every file of Delivered, unless it says it is cut, and for no other; the per-file list
\* is complete; the tests-only warning is there exactly when it applies to the delivered
\* change; and the summary above it was written from the same diff.  (A payload read while a git command
\* failed is excepted: nothing looks at the exit code.  What git diff cannot tell is
\* NothingUnseen.)
SignedIsDelivered ==
  Opened /\ signed # None =>
    LET p == payload[signed] IN
      p.misread \/
        /\ \A f \in DOMAIN p.hunks : commit[f] = p.hunks[f]
        /\ IF p.truncated THEN DOMAIN p.hunks \subseteq Delivered ELSE DOMAIN p.hunks = Delivered
        /\ p.stats = Delivered
        /\ "tests_only" \in Warnings(p) <=> Delivered # {} /\ Delivered \subseteq TestFiles
        /\ p.blind \/ p.basis = [hunks |-> p.hunks, truncated |-> p.truncated]

\* The body of the pull request is written from the delivery's own summary and evidence, read
\* after the approval.  A crash, a failure or a delivery beside it may have staged the change
\* before, which empties `git diff`; still the summary's diff is that of the commit, unless it
\* says it is cut.  Only when another session has pushed the branch's name can a pull request
\* be opened on an emptied diff, and never on a part of one.  The evidence is that of a green
\* last run, or says that there is no suite.
BodyDescribesCommit ==
  Opened =>
    LET p == payload[body] IN
      /\ \/ p.blind \/ p.basis.truncated
         \/ p.basis.hunks = [f \in Delivered |-> commit[f]]
         \/ foreign /\ p.basis.hunks = <<>>
      /\ p.evidence.unverified \/ p.evidence.final = "green"

\* The evidence belongs to the delivered tree: either the payload says no suite ran, or its
\* final run is green and ran on exactly the contents that are delivered, but for files the
\* run itself wrote and for files that .gitignore keeps out of the commit altogether.
EvidenceIsCurrent ==
  Opened /\ signed # None =>
    LET e == payload[signed].evidence IN
      \/ "unverified" \in Warnings(payload[signed]) /\ runs = <<>>
      \/ /\ e.final = "green"
         /\ \A f \in Files \ Artefacts : commit[f] = tested[f] \/ (commit[f] = 0 /\ f \in Ignored)

-----------------------------------------------------------------------------
\* "Nothing is committed before the approval gate, so the working-tree diff (git diff) is
\* the diff against the base commit" (services/diff_service.py:15-16): no file the
\* pull request changes goes unseen, unless the signed payload is cut or a test run wrote it.
NothingUnseen ==
  Opened /\ signed # None =>
    LET p == payload[signed] IN
      \/ p.misread \/ p.truncated
      \/ {f \in Files \ Artefacts : commit[f] # BaseTree[f]} \subseteq DOMAIN p.hunks
=============================================================================
