------------------------------ MODULE StdioMC -------------------------------
(***************************************************************************)
(* Stdio on small instances.                                               *)
(***************************************************************************)
EXTENDS Stdio

SomeSizes == {0, 3}
SomeOffsets == {-1, 0, 1}
=============================================================================
