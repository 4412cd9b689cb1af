--------------------------- MODULE MCJniCallbacks ---------------------------
(* Small instances of JniCallbacks for TLC. *)
EXTENDS JniCallbacks, TLC

\* Java threads, contexts and buffers are interchangeable.
Symmetry == Permutations(JThreads) \cup Permutations(Ctxs) \cup Permutations(Ubfs)
=============================================================================
