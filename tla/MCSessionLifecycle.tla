------------------------- MODULE MCSessionLifecycle -------------------------
(***************************************************************************)
(* Two sessions compete for one slot; a third attempt leaves room for the  *)
(* no-progress verdict before the budget; one fault.                       *)
(***************************************************************************)
EXTENDS SessionLifecycleProps

CONSTANTS s1, s2

MCSessions == {s1, s2}
=============================================================================
