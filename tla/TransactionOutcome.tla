------------------------- MODULE TransactionOutcome -------------------------
(***************************************************************************)
(* What the transaction manager may rely on: a branch that it was told to  *)
(* be prepared stays so until there is a decision, and then goes the way   *)
(* of the decision.  Work that is not prepared may be lost at any time.    *)
(***************************************************************************)
CONSTANT Xids

VARIABLES outcome,  \* of each branch
          decision  \* commit or roll back, once decided

Init == outcome = [x \in Xids |-> "working"] /\ decision = "none"

Move(x, from, to) == outcome[x] = from /\ outcome' = [outcome EXCEPT ![x] = to]

\* Branches S, of which no work is prepared, are rolled back.
Lose(S) ==
    /\ \A x \in S : outcome[x] = "working"
    /\ outcome' = [x \in Xids |-> IF x \in S THEN "lost" ELSE outcome[x]]
    /\ UNCHANGED decision

Prepare(x) ==
    /\ decision = "none"
    /\ Move(x, "working", "prepared") \/ Move(x, "working", "readonly")
    /\ UNCHANGED decision

Decide(d) ==
    /\ decision = "none" /\ decision' = d
    /\ d = "commit" => \A x \in Xids : outcome[x] \in {"prepared", "readonly"}
    /\ UNCHANGED outcome

\* The database may also decide against a prepared branch, on its own.
Commit(x) ==
    /\ decision = "commit"
    /\ Move(x, "prepared", "committed") \/ Move(x, "prepared", "heuristic")
    /\ UNCHANGED decision

Rollback(x) ==
    /\ decision = "rollback"
    /\ Move(x, "prepared", "lost")
    /\ UNCHANGED decision

Forget(x) == Move(x, "heuristic", "forgotten") /\ UNCHANGED decision

Next ==
    \/ \E S \in SUBSET Xids : Lose(S)
    \/ \E x \in Xids : Prepare(x) \/ Commit(x) \/ Rollback(x) \/ Forget(x)
    \/ \E d \in {"commit", "rollback"} : Decide(d)

Spec == Init /\ [][Next]_<<outcome, decision>>
=============================================================================
