------------------------- MODULE MCApprovalDelivery -------------------------
(***************************************************************************)
(* Three deliveries of one session: two that overlap and a retry, or three *)
(* that overlap.  Three branch names, so that the remote can be full.      *)
(***************************************************************************)
EXTENDS ApprovalDeliveryProps, TLC

CONSTANTS c1, c2, c3

MCCalls == {c1, c2, c3}
Symmetry == Permutations(MCCalls)
=============================================================================
