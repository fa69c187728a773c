-------------------------- MODULE MCReviewPayload --------------------------
(***************************************************************************)
(* A test file of the base commit that a test run rewrites too, a source   *)
(* file of it that the agent may name to git, and a file the agent may     *)
(* create, which .gitignore matches in one run; a diff has room for one    *)
(* file.  Two test runs, so that evidence has a first and a last; a GET    *)
(* and two deliveries; one crash or failed git command.                    *)
(***************************************************************************)
EXTENDS ReviewPayloadProps, TLC

CONSTANTS g1, d1, d2

MCFiles == 1..3
MCContents == <<0..1, 0..2, 0..1>>
MCTests == {1}
MCBase == {1, 2}
MCArtefacts == {1}
MCGitFiles == {2}
MCGets == {g1}
MCDeliveries == {d1, d2}
Symmetry == Permutations(MCDeliveries)
=============================================================================
