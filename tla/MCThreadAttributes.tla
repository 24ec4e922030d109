-------------------------- MODULE MCThreadAttributes --------------------------
(***************************************************************************)
(* Three threads, of which the first may create the second, with the       *)
(* source's own numbers: the process runs at 0x2C and 0x3F is the lowest.  *)
(***************************************************************************)
EXTENDS ThreadAttributes

MCCores == 0..2
MCPriorities == {-1, 0, 10, 16, 31}
==============================================================================
