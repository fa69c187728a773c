--------------------------- MODULE SessionStatus ---------------------------
(***************************************************************************)
(* The life cycle of one session: the values of the SessionStatus enum and *)
(* the map of legal moves between them (core/enums.py).  Pure data: the    *)
(* modules that act on a status are SessionLifecycle and ApprovalDelivery. *)
(***************************************************************************)

\* Statuses a session never leaves.
Terminal == {"PR_OPENED", "REJECTED", "EXHAUSTED", "FAILED", "HALTED"}

Status ==
  {"CREATED", "INGESTING", "PLANNING", "INVESTIGATING", "EDITING", "TESTING",
   "SUMMARIZING", "AWAITING_APPROVAL", "APPROVED"} \cup Terminal

\* _LEGAL_TRANSITIONS; a status without an entry accepts nothing.
LegalTransitions ==
  [st \in Status |->
     CASE st = "CREATED"           -> {"INGESTING", "FAILED", "HALTED"}
       [] st = "INGESTING"         -> {"PLANNING", "FAILED", "HALTED"}
       [] st = "PLANNING"          -> {"INVESTIGATING", "FAILED", "HALTED"}
       [] st = "INVESTIGATING"     -> {"EDITING", "FAILED", "HALTED"}
       [] st = "EDITING"           -> {"TESTING", "FAILED", "HALTED"}
       [] st = "TESTING"           -> {"EDITING", "SUMMARIZING", "EXHAUSTED",
                                       "FAILED", "HALTED"}
       [] st = "SUMMARIZING"       -> {"AWAITING_APPROVAL", "FAILED", "HALTED"}
       [] st = "AWAITING_APPROVAL" -> {"APPROVED", "REJECTED", "HALTED"}
       [] st = "APPROVED"          -> {"PR_OPENED", "FAILED"}
       [] OTHER                    -> {}]

\* SessionStatus.can_transition_to()
CanTransition(from, to) == from \in Status /\ to \in LegalTransitions[from]
=============================================================================
