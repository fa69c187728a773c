-------------------------- MODULE SessionContract --------------------------
(***************************************************************************)
(* What DevMind promises about a session, whatever its machinery does:     *)
(*                                                                         *)
(*   - a status moves along the legal map only, and a terminal status is   *)
(*     final, with one exception: a session that was cancelled while its   *)
(*     repository was being ingested may still be called FAILED, by the    *)
(*     ingestion that fails after it, once;                                *)
(*   - a human's approval is recorded only while the session is APPROVED;  *)
(*   - a pull request exists on the remote only for a session with such a  *)
(*     recorded approval, and at most one exists per session;              *)
(*   - PR_OPENED is reached only once that pull request exists.            *)
(*                                                                         *)
(* SessionLifecycle implements the part before the approval gate and       *)
(* ApprovalDelivery the part from the gate on.                             *)
(***************************************************************************)
EXTENDS SessionStatus

CONSTANT Sessions

Absent == "ABSENT"         \* no row yet

VARIABLES
  status,      \* [Sessions -> Status \cup {Absent}]
  late,        \* cancelled sessions whose ingestion has still to end
  signed,      \* sessions whose approval record says APPROVED
  delivered    \* sessions whose pull request exists on the remote

vars == <<status, late, signed, delivered>>

Init ==
  /\ status = [s \in Sessions |-> Absent]
  /\ late = {}
  /\ signed = {}
  /\ delivered = {}

Create(s) ==
  /\ status[s] = Absent
  /\ status' = [status EXCEPT ![s] = "CREATED"]
  /\ UNCHANGED <<late, signed, delivered>>

Advance(s, to) ==
  /\ CanTransition(status[s], to)
  /\ to = "PR_OPENED" => s \in delivered
  /\ status' = [status EXCEPT ![s] = to]
  /\ \/ UNCHANGED late
     \/ status[s] = "INGESTING" /\ to = "HALTED" /\ late' = late \cup {s}
  /\ UNCHANGED <<signed, delivered>>

\* A cancelled ingestion fails, and does not know that it was cancelled.
FailLate(s) ==
  /\ s \in late /\ status[s] = "HALTED"
  /\ status' = [status EXCEPT ![s] = "FAILED"]
  /\ late' = late \ {s}
  /\ UNCHANGED <<signed, delivered>>

\* Cancelled ingestions end otherwise, or with the process.
Settle ==
  /\ late' \in SUBSET late
  /\ UNCHANGED <<status, signed, delivered>>

\* The human's verdict becomes durable.
Sign(s) ==
  /\ status[s] = "APPROVED"
  /\ signed' = signed \cup {s}
  /\ UNCHANGED <<status, late, delivered>>

\* The one remote write of a session's life.  It needs the signature, not the
\* status: a delivery that failed half-way may already have marked the session.
Deliver(s) ==
  /\ s \in signed \ delivered
  /\ delivered' = delivered \cup {s}
  /\ UNCHANGED <<status, late, signed>>

Next ==
  \/ \E s \in Sessions :
       \/ Create(s)
       \/ \E to \in Status : Advance(s, to)
       \/ FailLate(s)
       \/ Sign(s)
       \/ Deliver(s)
  \/ Settle

Spec == Init /\ [][Next]_vars
=============================================================================
