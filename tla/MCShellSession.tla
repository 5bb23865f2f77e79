--------------------------- MODULE MCShellSession ---------------------------
(* A command that asks for input, beside the init lines of the session's   *)
(* two connections, which are commands for the same shell.                 *)
EXTENDS ShellSession

CONSTANTS a, i1, i2

MCInits == <<i1, i2>>
=============================================================================
