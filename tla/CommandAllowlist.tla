--------------------------- MODULE CommandAllowlist ---------------------------
(* CommandAllowlist.  An argv is a sequence of tokens [name, meta, control]:   *)
(* the base name, and whether it has shell metacharacters or control          *)
(* characters.                                                              *)
EXTENDS Sequences

CONSTANT Binaries   \* ALLOWED_COMMAND_BINARIES

\* validate() returns.
Valid(argv) ==
    /\ argv # <<>>
    /\ ~argv[1].meta /\ argv[1].name \in Binaries
    /\ \A i \in DOMAIN argv : ~argv[i].control
=============================================================================
