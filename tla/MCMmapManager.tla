--------------------------- MODULE MCMmapManager ----------------------------
(* Bounds for model checking MmapManager; the states do not depend on the  *)
(* names of the threads other than the main one.                           *)
EXTENDS MmapManager, TLC

Symmetry == Permutations(Thread \ {MainThread})
=============================================================================
