---------------------------- MODULE LinkContract ----------------------------
(***************************************************************************)
(* What exjld promises to its user, who knows neither of the pool of       *)
(* workers nor of the work directory: the link fails, or it ends with a    *)
(* binary whose table holds each class of the jars once, ordered by name.  *)
(***************************************************************************)
EXTENDS Naturals, Sequences

CONSTANTS Jars, Files, ClassFiles, Name

VARIABLES contents,  \* what the jars hold
          state,     \* of the link
          table      \* of classes in the binary, once it is built

Classes == (UNION {contents[j] : j \in Jars}) \cap ClassFiles

\* Each member of S once, ordered by name.
Listed(s, S) ==
    /\ s \in Seq(S)
    /\ \A c \in S : \E a \in DOMAIN s : s[a] = c
    /\ \A a, b \in DOMAIN s : s[a] = s[b] => a = b
    /\ \A a, b \in DOMAIN s : a < b => Name[s[a]] <= Name[s[b]]

Init ==
    /\ contents \in [Jars -> SUBSET Files]
    /\ state = "linking"
    /\ table = <<>>

Build ==
    /\ state = "linking" /\ state' = "built"
    /\ Listed(table', Classes)
    /\ UNCHANGED contents

Fail ==
    /\ state = "linking" /\ state' = "failed"
    /\ UNCHANGED <<contents, table>>

Spec == Init /\ [][Build \/ Fail]_<<contents, state, table>>
=============================================================================
