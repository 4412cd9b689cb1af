------------------------------ MODULE MCServer ------------------------------
(* Small instances of Server for TLC. *)
EXTENDS Server, TLC

\* Java threads, contexts, objects and requests are interchangeable.
Symmetry == Permutations(JThreads) \cup Permutations(Ctxs) \cup Permutations(Objs)
                \cup Permutations(Reqs)
=============================================================================
