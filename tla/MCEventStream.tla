---------------------------- MODULE MCEventStream ----------------------------
(***************************************************************************)
(* Five events, batches and pages of two: the log is longer than a batch,  *)
(* and two connections may be lost.                                        *)
(***************************************************************************)
EXTENDS EventStreamProps
=============================================================================
