------------------------ MODULE MCMemorySizeManager -------------------------
(* Constants for model checking MemorySizeManager.                         *)
EXTENDS MemorySizeManager

DefaultTable == [i \in 0 .. Size - 1 |-> i]
=============================================================================
