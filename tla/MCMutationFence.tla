--------------------------- MODULE MCMutationFence ---------------------------
(* Calls, processes, keys and parameters are interchangeable.              *)
EXTENDS MutationFence, TLC
Symmetry == Permutations(Calls) \cup Permutations(Processes)
            \cup Permutations(Keys) \cup Permutations(Prints)
=============================================================================
