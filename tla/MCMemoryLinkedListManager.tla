--------------------- MODULE MCMemoryLinkedListManager ----------------------
(* Symmetry for model checking MemoryLinkedListManager.                    *)
EXTENDS MemoryLinkedListManager, TLC

Symmetry == Permutations(Chunk) \cup Permutations(Manager)
=============================================================================
