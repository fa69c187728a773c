------------------------------ MODULE MCSandbox ------------------------------
(***************************************************************************)
(* Three commands, at once or one after the other, so that a third can run *)
(* in what two recoveries leave, and a fourth that is refused; two calls to *)
(* the daemon may fail.                                                    *)
(***************************************************************************)
EXTENDS SandboxProps

CONSTANTS a, b, c, d

Token(n) == [name |-> n, meta |-> FALSE, control |-> FALSE]
MCBinaries == {"python", "git"}
MCCommands == {a, b, c, d}
MCArgv == [x \in MCCommands |-> IF x = d THEN <<Token("curl")>>
                                        ELSE <<Token("python"), Token("-m")>>]
=============================================================================
