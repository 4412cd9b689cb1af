------------------------------ MODULE MCExjld ------------------------------
(* Small instances of Exjld for TLC. *)
EXTENDS Exjld, TLC

CONSTANTS c1, c2, c3, r1, e1, e2, e3

\* Two paths that give the same class name (a/b.class and a.b.class), another
\* class, a resource, and includes with names of their own.
AllNames == c1 :> 1 @@ c2 :> 1 @@ c3 :> 0 @@ r1 :> 1 @@ e1 :> 5 @@ e2 :> 6 @@ e3 :> 7

MCName == [f \in Files \cup Includes |-> AllNames[f]]

\* Workers and jars are interchangeable.
Symmetry == Permutations(Workers) \cup Permutations(Jars)
=============================================================================
