----------------------------- MODULE ClassIndex -----------------------------
(***************************************************************************)
(* The run-time lookup of a linked binary: StaticClassLoader asks C code   *)
(* for the bytes of a class or a resource, getIndexBytes looks the name up *)
(* by binary search in the table that exjld generated, and the loader      *)
(* falls back to the class path when it is not there.                      *)
(*                                                                         *)
(* Names are numbers, ordered as strcmp orders them.                       *)
(***************************************************************************)
EXTENDS Integers

CONSTANTS MaxLen,  \* bound: length of the table
          MaxName  \* bound: names are 0 .. MaxName

ASSUME IndexAssumption == MaxLen \in Nat /\ MaxName \in Nat

VARIABLES
    len,     \* M_class_index_len or M_res_index_len
    index,   \* the names in the table, from 0
    utf,     \* the name looked up
    first, last, middle,
    pc,      \* "enter", "loop" or "done"
    ret      \* position of the bytes returned, -1 for NULL

vars == <<len, index, utf, first, last, middle, pc, ret>>

Names == 0..MaxName

Sorted(n, f) == \A i, j \in 0..(n - 1) : i <= j => f[i] <= f[j]

\* Type invariant.
TypeOK ==
    /\ len \in 0..MaxLen
    /\ index \in [0..(len - 1) -> Names]
    /\ utf \in Names
    /\ first \in Int /\ last \in Int /\ middle \in Int
    /\ pc \in {"enter", "loop", "done"}
    /\ ret \in -1..(len - 1)

\* Division of C, which truncates: (0 + -1) / 2 is 0.
half(n) == IF n >= 0 THEN n \div 2 ELSE -((-n) \div 2)

Init ==
    /\ len \in 0..MaxLen
    /\ index \in {f \in [0..(len - 1) -> Names] : Sorted(len, f)}
    /\ utf \in Names
    /\ first = 0 /\ last = 0 /\ middle = 0
    /\ pc = "enter"
    /\ ret = -1

-----------------------------------------------------------------------------
getIndexBytes_enter ==
    /\ pc = "enter"
    /\ first' = 0
    /\ last' = len - 1
    /\ middle' = half(0 + (len - 1))
    /\ pc' = "loop"
    /\ UNCHANGED <<len, index, utf, ret>>

\* Mutation of getIndexBytes_after: the middle stays in the range.
getIndexBytes_after_middle ==
    /\ pc = "loop" /\ first <= last
    /\ index[middle] < utf
    /\ first' = middle
    /\ middle' = half(middle + last)
    /\ UNCHANGED <<len, index, utf, last, pc, ret>>

\* strcmp < 0: the entry in the middle is before the name.
getIndexBytes_after ==
    /\ pc = "loop" /\ first <= last
    /\ index[middle] < utf
    /\ first' = middle + 1
    /\ middle' = half(middle + 1 + last)
    /\ UNCHANGED <<len, index, utf, last, pc, ret>>

\* strcmp > 0.
getIndexBytes_before ==
    /\ pc = "loop" /\ first <= last
    /\ index[middle] > utf
    /\ last' = middle - 1
    /\ middle' = half(first + (middle - 1))
    /\ UNCHANGED <<len, index, utf, first, pc, ret>>

getIndexBytes_found ==
    /\ pc = "loop" /\ first <= last
    /\ index[middle] = utf
    /\ ret' = middle
    /\ pc' = "done"
    /\ UNCHANGED <<len, index, utf, first, last, middle>>

\* Mutation of getIndexBytes_missing: the loop runs while first < last.
getIndexBytes_missing_early ==
    /\ pc = "loop" /\ first >= last
    /\ pc' = "done"
    /\ UNCHANGED <<len, index, utf, first, last, middle, ret>>

\* Mutation of getIndexBytes_missing: the insertion point is returned.
getIndexBytes_missing_first ==
    /\ pc = "loop" /\ first > last
    /\ ret' = first
    /\ pc' = "done"
    /\ UNCHANGED <<len, index, utf, first, last, middle>>

\* "not found - fallback to URL".
getIndexBytes_missing ==
    /\ pc = "loop" /\ first > last
    /\ pc' = "done"
    /\ UNCHANGED <<len, index, utf, first, last, middle, ret>>

\* loadClass, getResource and getResourceAsStream return; the next lookup.
loadClass(name) ==
    /\ pc = "done"
    /\ utf' = name
    /\ ret' = -1
    /\ pc' = "enter"
    /\ UNCHANGED <<len, index, first, last, middle>>

-----------------------------------------------------------------------------
Step ==
    \/ getIndexBytes_enter
    \/ getIndexBytes_after
    \/ getIndexBytes_before
    \/ getIndexBytes_found
    \/ getIndexBytes_missing

Next == Step \/ \E name \in Names : loadClass(name)

Spec == Init /\ [][Next]_vars

-----------------------------------------------------------------------------
(* Properties. *)

\* The search never reads outside the table, also for an empty table and for
\* names before the first or after the last entry.
InRange == pc = "loop" /\ first <= last => middle \in 0..(len - 1)

\* The bytes returned are those of the name, and NULL means that the name is
\* not in the table.
Correct ==
    pc = "done" =>
        IF ret = -1 THEN \A i \in 0..(len - 1) : index[i] # utf
        ELSE ret \in 0..(len - 1) /\ index[ret] = utf

\* Every step of the loop makes the range searched smaller.
Shrinks ==
    [][pc = "loop" /\ pc' = "loop" => last' - first' < last - first]_vars
=============================================================================
