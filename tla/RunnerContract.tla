--------------------------- MODULE RunnerContract ---------------------------
(***************************************************************************)
(* What a program that installs a termination handler may rely on: runs of *)
(* the Runnable follow one another, each run is of the Runnable that is    *)
(* installed then, and it is replaced only between two runs.               *)
(***************************************************************************)
CONSTANTS Refs, NoRef

VARIABLES runner,  \* the Runnable installed last
          active   \* what is being run: nothing or one Runnable

Init == runner = NoRef /\ active = {}

Replace(r) == active = {} /\ runner' = r /\ UNCHANGED active

Begin == active = {} /\ active' = {runner} /\ UNCHANGED runner

End == active # {} /\ active' = {} /\ UNCHANGED runner

Next == (\E r \in Refs \cup {NoRef} : Replace(r)) \/ Begin \/ End

Spec == Init /\ [][Next]_<<runner, active>>
=============================================================================
