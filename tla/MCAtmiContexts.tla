--------------------------- MODULE MCAtmiContexts ---------------------------
(* Small instances of AtmiContexts for TLC. *)
EXTENDS AtmiContexts, TLC

\* Threads, objects and addresses are interchangeable.
Symmetry == Permutations(Threads) \cup Permutations(Objs \ Wrappers) \cup Permutations(Ctxs)
=============================================================================
