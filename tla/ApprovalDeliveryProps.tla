------------------------ MODULE ApprovalDeliveryProps ------------------------
(***************************************************************************)
(* What ApprovalDelivery must satisfy.                                     *)
(***************************************************************************)
EXTENDS ApprovalDelivery

\* Every variable has its type; in particular a branch is only ever given a name of the
\* namer's range.
TypeOK ==
  /\ status \in Status \cup {Absent}
  /\ approval \in {"none", "open"} \cup Verdicts
  /\ consumed \in BOOLEAN
  /\ row \in BOOLEAN
  /\ gate \in {"none", "record"} \cup Verdicts
  /\ pc \in [Calls -> PC]
  /\ acted \in [Calls -> BOOLEAN]
  /\ branch \in [Calls -> Names \cup {Default}]
  /\ local \in SUBSET (Names \cup {Default})
  /\ head \in local
  /\ carrying \in SUBSET local
  /\ tree \in {"dirty", "staged", "committed"}
  /\ foreign \in SUBSET Names
  /\ pushed \in SUBSET Names
  /\ prs \in SUBSET pushed
  /\ late \in BOOLEAN
  /\ dryRun \in BOOLEAN
  /\ slug \in BOOLEAN
  /\ faults \in 0..MaxFaults

Contract ==
  INSTANCE SessionContract WITH
    Sessions  <- {"session"},
    status    <- [s \in {"session"} |-> status],
    late      <- IF late THEN {"session"} ELSE {},
    signed    <- IF approval = "APPROVED" THEN {"session"} ELSE {},
    delivered <- IF prs = {} THEN {} ELSE {"session"}

\* From the POST to the pull request a session does only what the contract allows: its
\* status moves legally, a signature needs the APPROVED status, a pull request needs the
\* signature, and PR_OPENED needs the pull request.
ImplementsContract == Contract!Spec

\* The record and the status never contradict each other, wherever a crash or a failed
\* commit cut a stretch in two: an APPROVED record belongs to no halted or rejected
\* session, a REJECTED one to no other.
VerdictMatchesStatus ==
  /\ approval = "APPROVED" => status \in {"APPROVED", "PR_OPENED", "FAILED"}
  /\ approval = "REJECTED" => status = "REJECTED"
  /\ status \in {"APPROVED", "REJECTED", "PR_OPENED"} => approval # "none"

\* SI-4, "approval is single-use": one approval brings at most one branch and one pull
\* request to the remote.  Calls authorised together, retries after a failure and restarts
\* all hold a live authorisation; what stops the second is the clone they share.
AtMostOnePullRequest == Cardinality(pushed) <= 1 /\ Cardinality(prs) <= 1

\* A spent token means a delivered session, and a session that says PR_OPENED has its pull
\* request both on the remote and in the table.
SpentMeansDelivered ==
  /\ consumed => status = "PR_OPENED"
  /\ status = "PR_OPENED" => row
  /\ row => prs # {}

\* The three records of a decision, the session's status, the approval and the pull request,
\* never contradict each other.
RecordsAgree == TypeOK /\ VerdictMatchesStatus /\ SpentMeansDelivered

\* SI-3 holds at the write, not only at the guard many awaits before it: whenever the
\* remote changes, the record says APPROVED and the token is not yet spent.
RemoteNeedsLiveApproval ==
  [][remoteVars' # remoteVars => approval = "APPROVED" /\ ~consumed]_vars

Resting(c) == pc[c] \in {"idle", "returned", "raised"}

\* A delivery that ends and leaves the session APPROVED is "retryable rather than
\* half-delivered" (pr_service.py:115-117): nothing was branched, committed or pushed.
RetryableIsClean ==
  faults = 0 /\ status = "APPROVED" /\ (\A c \in Calls : Resting(c)) =>
    local = {Default} /\ tree = "dirty" /\ pushed = {} /\ prs = {}

\* A dry run of an approved session delivers nothing, whatever overlaps, fails or crashes:
\* neither the clone, nor the remote, nor a record changes.  The approval stays usable for
\* the real run, except that a URL gh cannot be given marks the session FAILED.
DryRunDeliversNothing ==
  [][dryRun /\ status = "APPROVED" =>
       /\ UNCHANGED <<cloneVars, remoteVars, consumed, row>>
       /\ status' # status => status' = "FAILED" /\ ~slug]_vars

-----------------------------------------------------------------------------
\* "AWAITING_APPROVAL is a durable state.  The process can restart; the session waits"
\* (docs/01-solution-design.md:174): what waits is a record a human can decide.
AwaitingIsDecidable == status = "AWAITING_APPROVAL" /\ gate = "none" => approval = "open"

\* "consumed_at is set exactly once, by PRService immediately after a PR is opened"
\* (models/approval.py:21-24): once the calls under way have ended and if nothing crashed,
\* a recorded pull request means a spent token.
OpenedMeansSpent ==
  faults = 0 /\ row /\ (\A c \in Calls : Resting(c)) => consumed

\* "`settings.dry_run` short-circuits every remote step [...] and nothing is persisted or
\* transitioned" (pr_service.py:22-24): a dry run leaves the status alone.
DryRunMovesNothing == [][dryRun /\ status = "APPROVED" => UNCHANGED status]_vars
=============================================================================
