--------------------------- MODULE MCTypedBuffers ---------------------------
(* Small instances of TypedBuffers for TLC. *)
EXTENDS TypedBuffers, TLC

\* Threads, objects, addresses and the supported types are interchangeable.
Symmetry == Permutations(Threads) \cup Permutations(Objs) \cup Permutations(Ptrs)
                \cup Permutations(Supported)
=============================================================================
