--------------------------- MODULE ExceptionCache ---------------------------
(***************************************************************************)
(* The dynamic cache of exception classes and the functions that throw.    *)
(* An error code gives the name of a class.  ndrxj_ubf_throw and           *)
(* ndrxj_nstd_throw need the class only, ndrxj_atmi_throw also its         *)
(* constructor and its fields.  The look-up and the insertion take         *)
(* M_dyn_cache_lock separately, and an entry is used without the lock.     *)
(*                                                                         *)
(* The members of an exception class exist: Java and C part are of one     *)
(* release.                                                                *)
(***************************************************************************)
EXTENDS NativeLibrary

CONSTANTS Excs,  \* names of exception classes
          Atmi,  \* those of ATMI errors
          Diag   \* the one of TPEDIAGNOSTIC

ASSUME ExceptionAssumption == Atmi \subseteq Excs /\ Diag \in Atmi /\ None \notin Excs

VARIABLES
    cache,   \* M_exj_dyn_cache
    thr,     \* thr[t]: where t is in a throw function
    want,    \* want[t]: the class of the error code
    held,    \* held[t]: cached, the entry t works with
    aborted  \* the process has called abort()

excvars == <<cache, thr, want, held, aborted>>

\* What ndrxj_atmi_throw uses of an entry; the others use the class alone.
Needed(e) == IF e \notin Atmi THEN {}
             ELSE {"mid1", "fid2"} \cup (IF e = Diag THEN {"fid1"} ELSE {})

\* An entry is the memory that one thread allocated for one class.
Entries == [cls : Excs, by : Threads, ids : SUBSET {"mid1", "fid1", "fid2"}]

\* Type invariant.
ExcTypeOK ==
    /\ cache \subseteq Entries
    /\ thr \in [Threads -> {"none", "find", "add", "new", "thrown"}]
    /\ want \in [Threads -> Excs \cup {None}]
    /\ held \in [Threads -> Entries \cup {None}]
    /\ aborted \in BOOLEAN

ExcInit ==
    /\ cache = {}
    /\ thr = [t \in Threads |-> "none"]
    /\ want = [t \in Threads |-> None]
    /\ held = [t \in Threads |-> None]
    /\ aborted = FALSE

abort == aborted' = TRUE /\ UNCHANGED <<cache, thr, want, held>>

-----------------------------------------------------------------------------
\* ndrxj_caches_get for the class of the error.
caches_get(t, e) ==
    /\ thr[t] = "none"
    /\ want' = [want EXCEPT ![t] = e]
    /\ \/ /\ \A x \in cache : x.cls # e
          /\ thr' = [thr EXCEPT ![t] = "find"]
          /\ UNCHANGED held
       \/ \E x \in cache :
             /\ x.cls = e
             /\ held' = [held EXCEPT ![t] = x]
             /\ thr' = [thr EXCEPT ![t] = "new"]
    /\ UNCHANGED <<cache, aborted>>

\* The error code of the failed call gives the class.
ndrxj_atmi_throw(t) == \E e \in Atmi : caches_get(t, e)

\* ndrxj_nstd_throw does the same.
ndrxj_ubf_throw(t) == \E e \in Excs \ Atmi : caches_get(t, e)

\* NullPointerException is of the static cache.
ndrxj_nullptr_throw(t) ==
    /\ thr[t] = "none"
    /\ thr' = [thr EXCEPT ![t] = "thrown"]
    /\ UNCHANGED <<cache, want, held, aborted>>

\* FindClass; there is no way to go on without the class.
throw_find(t) ==
    /\ thr[t] = "find"
    /\ \/ thr' = [thr EXCEPT ![t] = "add"] /\ UNCHANGED <<cache, want, held, aborted>>
       \/ abort

\* Mutation of caches_add: the entry holds the class alone.
caches_add_single(t) ==
    /\ thr[t] = "add"
    /\ LET x == [cls |-> want[t], by |-> t, ids |-> {}]
       IN  /\ cache' = cache \cup {x}
           /\ held' = [held EXCEPT ![t] = x]
    /\ thr' = [thr EXCEPT ![t] = "new"]
    /\ UNCHANGED <<want, aborted>>

\* ndrxj_caches_add: another thread may have added the same class meanwhile,
\* then there are two entries.
caches_add(t) ==
    /\ thr[t] = "add"
    /\ LET x == [cls |-> want[t], by |-> t, ids |-> Needed(want[t])]
       IN  /\ cache' = cache \cup {x}
           /\ held' = [held EXCEPT ![t] = x]
    /\ thr' = [thr EXCEPT ![t] = "new"]
    /\ UNCHANGED <<want, aborted>>

\* malloc or NewWeakGlobalRef fails.
caches_add_fail(t) == thr[t] = "add" /\ abort

\* The exception object is made from the entry and thrown.
throw_new(t) ==
    /\ thr[t] = "new"
    /\ thr' = [thr EXCEPT ![t] = "thrown"]
    /\ UNCHANGED <<cache, want, held, aborted>>

\* The native method returns and Java sees the exception.
throw_return(t) ==
    /\ thr[t] = "thrown"
    /\ thr' = [thr EXCEPT ![t] = "none"]
    /\ want' = [want EXCEPT ![t] = None]
    /\ held' = [held EXCEPT ![t] = None]
    /\ UNCHANGED <<cache, aborted>>

\* Nobody is inside the library.
caches_unload == cache' = {} /\ UNCHANGED <<thr, want, held, aborted>>

ThrowStep(t) ==
    throw_find(t) \/ caches_add(t) \/ caches_add_fail(t) \/ throw_new(t)

-----------------------------------------------------------------------------
(* Properties. *)

\* The entry an exception is made from is still in the cache, is of the class
\* of the error, and has every id that the throw function uses, whichever
\* thread and whichever function has added it.
ThrowsRequested ==
    \A t \in Threads : thr[t] = "new" =>
        /\ held[t] \in cache
        /\ held[t].cls = want[t]
        /\ Needed(want[t]) \subseteq held[t].ids
=============================================================================
