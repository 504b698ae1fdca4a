--------------------------- MODULE MCForgeRuntime ---------------------------
(* An instance of ForgeRuntime for TLC: two rooms, three engines. *)
EXTENDS ForgeRuntime

CONSTANTS r1, r2, e1, e2, e3
=============================================================================
