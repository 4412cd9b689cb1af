--------------------------- MODULE LibraryContract ---------------------------
(***************************************************************************)
(* What libexjavald promises to the Java side: a native method runs its    *)
(* function of libexjava while the library is up; otherwise it may end     *)
(* with an exception instead, and while the library is up it never does.   *)
(***************************************************************************)
CONSTANTS Threads, Funcs, None

VARIABLES up,   \* the library is up
          req   \* req[t]: the method t has called, and how far it is

Calls == [fn : Funcs, st : {"asked", "running", "failed"}]

Init == up = FALSE /\ req = [t \in Threads |-> None]

Ask(t) ==
    /\ req[t] = None
    /\ \E f \in Funcs : req' = [req EXCEPT ![t] = [fn |-> f, st |-> "asked"]]
    /\ UNCHANGED up

\* A method called when the library is up runs at once.
AskUp(t) ==
    /\ req[t] = None /\ up
    /\ \E f \in Funcs : req' = [req EXCEPT ![t] = [fn |-> f, st |-> "running"]]
    /\ UNCHANGED up

Open == ~up /\ up' = TRUE /\ UNCHANGED req

\* The library is unloaded only when nobody is inside.
Close == up /\ req = [t \in Threads |-> None] /\ up' = FALSE /\ UNCHANGED req

Run(t) ==
    /\ up /\ req[t] \in Calls /\ req[t].st = "asked"
    /\ req' = [req EXCEPT ![t].st = "running"]
    /\ UNCHANGED up

Fail(t) ==
    /\ ~up /\ req[t] \in Calls /\ req[t].st = "asked"
    /\ req' = [req EXCEPT ![t].st = "failed"]
    /\ UNCHANGED up

Return(t) ==
    /\ req[t] \in Calls /\ req[t].st # "asked"
    /\ req' = [req EXCEPT ![t] = None]
    /\ UNCHANGED up

Next == Open \/ Close \/ \E t \in Threads : Ask(t) \/ AskUp(t) \/ Run(t) \/ Fail(t) \/ Return(t)

Spec == Init /\ [][Next]_<<up, req>>
=============================================================================
