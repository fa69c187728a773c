-------------------------- MODULE MCSelfCorrection --------------------------
(***************************************************************************)
(* Two tests, a function and a method, one of which a report can list.     *)
(* The function may fail in two ways pytest names and in one it does not,  *)
(* so that the same test may fail differently; of the output of two        *)
(* failures the sandbox cuts the middle.  Three attempts.                  *)
(***************************************************************************)
EXTENDS SelfCorrectionProps

MCTests == 1..2
MCName == <<"test_f", "test_m">>
MCTitle == <<"test_f", "TestC.test_m">>
MCExceptions == {"KeyError", "ValueError", "assert"}
MCUntyped == {"assert"}
=============================================================================
