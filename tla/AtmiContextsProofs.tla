------------------------- MODULE AtmiContextsProofs -------------------------
(***************************************************************************)
(* Proofs about AtmiContexts: contexts are freed once and by their owner   *)
(* for any number of threads, objects and addresses.                       *)
(***************************************************************************)
EXTENDS AtmiContexts, TLAPS

Inside == {"get", "free", "remove"}

\* Which steps a thread can be at; an object is at hand exactly in a step or
\* in a call.
PcInv ==
    /\ pc[Hook] \in {"idle", "each", "done"} /\ arg[Hook] = NoObj
    /\ use[Finalizer] = Null
    /\ \A t \in Cleaners :
          /\ pc[t] \in {"idle", "register", "lock"} \cup Inside
          /\ pc[t] # "idle" \/ use[t] # Null => arg[t] \in obj
          /\ pc[t] = "idle" /\ use[t] = Null => arg[t] = NoObj
    /\ reach \subseteq obj

\* The mutex is held exactly by the thread inside a critical section.
MutexInv ==
    /\ \A t \in Cleaners : pc[t] \in Inside <=> mutex = t
    /\ pc[Hook] = "each" <=> mutex = Hook

\* A constructor that has not registered its context is alone with it.
RegisterInv ==
    \A t \in Cleaners : pc[t] = "register" =>
        /\ arg[t] \in reach \ Wrappers
        /\ ctx[arg[t]] \in alloc /\ maker[ctx[arg[t]]] = arg[t]
        /\ \A u \in Cleaners \ {t} : arg[u] # arg[t]

\* A call is alone with its object, and works on the object's context.
UseInv ==
    \A t \in Cleaners : use[t] # Null =>
        /\ pc[t] = "idle" /\ use[t] = ctx[arg[t]]
        /\ \A u \in Cleaners \ {t} : arg[u] # arg[t]

\* The finalizer is alone with its object.
FinalizerInv ==
    pc[Finalizer] # "idle" =>
        /\ arg[Finalizer] \notin reach
        /\ \A u \in Threads : arg[u] # arg[Finalizer]

\* c was made by AtmiCtx() and its registration is done.
Registered(c) ==
    /\ c \in alloc /\ maker[c] \notin Wrappers
    /\ \A t \in Cleaners : pc[t] = "register" => ctx[arg[t]] # c

\* ctxMap holds the registered contexts, and the one that cleanup() has
\* freed and not removed yet.  That address may be in use again already, but
\* not registered.
MapInv ==
    /\ \A c \in Ctxs :
          IF \E t \in Cleaners : pc[t] = "remove" /\ ctx[arg[t]] = c
          THEN c \in ctxMap /\ ~Registered(c)
          ELSE c \in ctxMap <=> Registered(c)
    /\ \A t \in Cleaners : pc[t] \in {"free", "remove"} => ctx[arg[t]] \in ctxMap
    /\ it \subseteq ctxMap
    /\ pc[Hook] # "each" => it = {}

\* Until the hook runs, an object's context is its own, unless cleanup() has
\* just freed it.
OwnInv ==
    pc[Hook] = "idle" =>
        \A o \in obj :
            ctx[o] # Null /\ (\A t \in Cleaners : pc[t] = "remove" => arg[t] # o)
                => ctx[o] \in alloc /\ maker[ctx[o]] = o

\* The inductive invariant.
IndInv ==
    /\ TypeOK
    /\ PcInv /\ MutexInv /\ RegisterInv /\ UseInv /\ FinalizerInv
    /\ MapInv
    /\ OwnInv

-----------------------------------------------------------------------------
(* Every action keeps the invariant. *)

\* A new context is not registered yet, even if its address has just been
\* freed and is still in the map.
LEMMA AtmiCtx_new_keeps ==
    ASSUME IndInv, NEW t \in Threads, NEW o \in Objs, NEW c \in Ctxs, AtmiCtx_new(t, o, c)
    PROVE  IndInv'
<1> USE ContextAssumption DEF Cleaners, AllThreads, Inside, IndInv, AtmiCtx_new, Goto
<1>1. TypeOK'
  BY DEF TypeOK, Steps
<1>2. PcInv'
  BY DEF TypeOK, PcInv
<1>3. RegisterInv'
  BY DEF TypeOK, PcInv, RegisterInv
<1>4. UseInv'
  BY DEF TypeOK, PcInv, UseInv
<1>5. FinalizerInv'
  BY DEF PcInv, FinalizerInv
<1>6. MapInv'
  BY DEF TypeOK, PcInv, Registered, MapInv
<1>7. OwnInv'
  BY DEF TypeOK, OwnInv
<1>8. MutexInv'
  BY DEF MutexInv
<1> QED
  BY <1>1, <1>2, <1>3, <1>4, <1>5, <1>6, <1>7, <1>8

\* A wrapped context is never registered.
LEMMA AtmiCtx_wrap_keeps ==
    ASSUME IndInv, NEW t \in Threads, NEW o \in Objs, NEW c \in Ctxs, AtmiCtx_wrap(t, o, c)
    PROVE  IndInv'
<1> USE ContextAssumption DEF Cleaners, AllThreads, Inside, IndInv, AtmiCtx_wrap
<1>1. TypeOK'
  BY DEF TypeOK
<1>2. UseInv'
  BY DEF PcInv, UseInv
<1>3. FinalizerInv'
  BY DEF PcInv, FinalizerInv
<1>4. MapInv'
  BY DEF TypeOK, PcInv, Registered, MapInv
<1>5. OwnInv'
  BY DEF TypeOK, OwnInv
<1>6. PcInv' /\ MutexInv' /\ RegisterInv'
  BY DEF PcInv, MutexInv, RegisterInv
<1> QED
  BY <1>1, <1>2, <1>3, <1>4, <1>5, <1>6

\* The constructor adds its context to the map while nobody is inside.
LEMMA AtmiCtx_register_keeps ==
    ASSUME IndInv, NEW t \in Threads, AtmiCtx_register(t)
    PROVE  IndInv'
<1> USE ContextAssumption DEF Cleaners, AllThreads, Inside, IndInv, AtmiCtx_register, Goto
<1>1. TypeOK'
  BY DEF TypeOK, Steps, RegisterInv
<1>2. PcInv'
  BY DEF TypeOK, UseInv, PcInv
<1>3. RegisterInv'
  BY DEF TypeOK, RegisterInv
<1>4. UseInv'
  BY DEF TypeOK, PcInv, UseInv
<1>5. FinalizerInv'
  BY DEF TypeOK, PcInv, FinalizerInv
<1>6. MapInv'
  BY DEF TypeOK, MutexInv, RegisterInv, Registered, MapInv
<1>7. MutexInv' /\ OwnInv'
  BY DEF MutexInv, OwnInv
<1> QED
  BY <1>1, <1>2, <1>3, <1>4, <1>5, <1>6, <1>7

\* A call gives its object back.
LEMMA call_end_keeps ==
    ASSUME IndInv, NEW t \in Threads, call_end(t)
    PROVE  IndInv'
<1> USE ContextAssumption DEF Cleaners, AllThreads, Inside, IndInv, call_end
<1>1. TypeOK'
  BY DEF TypeOK
<1>2. PcInv'
  BY DEF TypeOK, UseInv, PcInv
<1>3. RegisterInv'
  BY DEF TypeOK, UseInv, RegisterInv
<1>4. UseInv'
  BY DEF TypeOK, PcInv, UseInv
<1>5. FinalizerInv'
  BY DEF TypeOK, PcInv, FinalizerInv
<1>6. MapInv'
  BY DEF UseInv, Registered, MapInv
<1>7. OwnInv'
  BY DEF UseInv, OwnInv
<1>8. MutexInv'
  BY DEF MutexInv
<1> QED
  BY <1>1, <1>2, <1>3, <1>4, <1>5, <1>6, <1>7, <1>8

\* A call begins on an object nobody works on.
LEMMA call_begin_keeps ==
    ASSUME IndInv, NEW t \in Threads, NEW o \in Objs, call_begin(t, o)
    PROVE  IndInv'
<1> USE ContextAssumption DEF Cleaners, AllThreads, Inside, IndInv, call_begin, Exclusive
<1>1. TypeOK'
  BY DEF TypeOK
<1>2. PcInv'
  BY DEF TypeOK, PcInv
<1>3. UseInv'
  BY DEF TypeOK, UseInv
<1>4. MutexInv' /\ RegisterInv' /\ FinalizerInv' /\ MapInv' /\ OwnInv'
  BY DEF MutexInv, RegisterInv, FinalizerInv, MapInv, OwnInv, Registered
<1> QED
  BY <1>1, <1>2, <1>3, <1>4

\* cleanup() starts on an object without a call or a constructor.
LEMMA cleanup_test_keeps ==
    ASSUME IndInv, NEW t \in Threads, NEW o \in Objs, cleanup_test(t, o)
    PROVE  IndInv'
<1> USE ContextAssumption DEF Cleaners, AllThreads, Inside, IndInv, cleanup_test, Goto
<1>1. TypeOK'
  BY DEF TypeOK, Steps
<1>2. PcInv'
  BY DEF TypeOK, PcInv
<1>3. UseInv'
  BY DEF TypeOK, PcInv, UseInv
<1>4. MutexInv' /\ RegisterInv' /\ FinalizerInv' /\ MapInv' /\ OwnInv'
  BY DEF MutexInv, RegisterInv, FinalizerInv, MapInv, OwnInv, Registered
<1> QED
  BY <1>1, <1>2, <1>3, <1>4

\* Dropping a reference touches neither contexts nor map.
LEMMA Drop_keeps ==
    ASSUME IndInv, NEW o \in Objs, Drop(o)
    PROVE  IndInv'
<1> USE ContextAssumption DEF Cleaners, AllThreads, Inside, IndInv, Drop
<1>1. TypeOK'
  BY DEF TypeOK
<1>2. RegisterInv'
  BY DEF FinalizerInv, RegisterInv
<1>3. PcInv' /\ MutexInv' /\ UseInv' /\ FinalizerInv' /\ MapInv' /\ OwnInv'
  BY DEF PcInv, MutexInv, UseInv, FinalizerInv, MapInv, OwnInv, Registered
<1> QED
  BY <1>1, <1>2, <1>3

\* The finalizer takes an object that nobody can reach.
LEMMA finalize_keeps ==
    ASSUME IndInv, NEW o \in Objs, finalize(o)
    PROVE  IndInv'
<1> USE ContextAssumption DEF Cleaners, AllThreads, Inside, IndInv, finalize, Goto, Exclusive
<1>1. TypeOK'
  BY DEF TypeOK, Steps
<1>2. PcInv'
  BY DEF TypeOK, PcInv
<1>3. MutexInv'
  BY DEF TypeOK, MutexInv
<1>4. RegisterInv'
  BY DEF TypeOK, RegisterInv
<1>5. UseInv'
  BY DEF TypeOK, PcInv, UseInv
<1>6. FinalizerInv'
  BY DEF TypeOK, FinalizerInv
<1>7. MapInv'
  BY DEF TypeOK, Registered, MapInv
<1>8. OwnInv'
  BY DEF TypeOK, OwnInv
<1> QED
  BY <1>1, <1>2, <1>3, <1>4, <1>5, <1>6, <1>7, <1>8

\* cleanup() enters the critical section.
LEMMA cleanup_lock_keeps ==
    ASSUME IndInv, NEW t \in Cleaners, cleanup_lock(t)
    PROVE  IndInv'
<1> USE ContextAssumption DEF Cleaners, AllThreads, Inside, IndInv, cleanup_lock, Goto
<1>1. TypeOK'
  BY DEF TypeOK, Steps
<1>2. MutexInv'
  BY DEF TypeOK, MutexInv
<1>3. PcInv' /\ RegisterInv' /\ UseInv' /\ FinalizerInv' /\ MapInv' /\ OwnInv'
  BY SMTT(30), Zenon DEF PcInv, RegisterInv, UseInv, FinalizerInv, MapInv, OwnInv, Registered
<1> QED
  BY <1>1, <1>2, <1>3

\* cleanup() goes on with a registered context, or leaves.
LEMMA cleanup_get_keeps ==
    ASSUME IndInv, NEW t \in Cleaners, cleanup_get(t)
    PROVE  IndInv'
<1> USE ContextAssumption DEF Cleaners, AllThreads, Inside, IndInv, cleanup_get, Goto, Leave
<1>1. TypeOK'
  BY DEF TypeOK, Steps
<1>2. PcInv'
  BY DEF TypeOK, UseInv, FinalizerInv, PcInv
<1>3. MutexInv'
  BY DEF TypeOK, MutexInv
<1>4. RegisterInv'
  BY DEF TypeOK, RegisterInv
<1>5. UseInv'
  BY DEF TypeOK, PcInv, UseInv
<1>6. FinalizerInv'
  BY DEF TypeOK, PcInv, FinalizerInv
<1>7. MapInv'
  BY DEF TypeOK, MutexInv, RegisterInv, Registered, MapInv
<1>8. OwnInv'
  BY DEF TypeOK, OwnInv
<1> QED
  BY <1>1, <1>2, <1>3, <1>4, <1>5, <1>6, <1>7, <1>8

\* cleanup() frees a registered context, which stays in the map.
LEMMA cleanup_free_keeps ==
    ASSUME IndInv, NEW t \in Cleaners, cleanup_free(t)
    PROVE  IndInv'
<1> USE ContextAssumption DEF Cleaners, AllThreads, Inside, IndInv, cleanup_free, Goto
<1>1. TypeOK'
  BY DEF TypeOK, Steps
<1>2. RegisterInv'
  BY DEF TypeOK, MutexInv, MapInv, Registered, RegisterInv
<1>3. MapInv'
  BY DEF TypeOK, Registered, MapInv
<1>4. OwnInv'
  BY DEF TypeOK, PcInv, MutexInv, OwnInv
<1>5. PcInv' /\ MutexInv' /\ UseInv' /\ FinalizerInv'
  BY DEF PcInv, MutexInv, UseInv, FinalizerInv
<1> QED
  BY <1>1, <1>2, <1>3, <1>4, <1>5

\* cleanup() removes the entry and forgets the address.
LEMMA cleanup_remove_keeps ==
    ASSUME IndInv, NEW t \in Cleaners, cleanup_remove(t)
    PROVE  IndInv'
<1> USE ContextAssumption DEF Cleaners, AllThreads, Inside, IndInv, cleanup_remove, Goto, Leave
<1>1. TypeOK'
  BY Zenon DEF TypeOK, Steps
<1>2. PcInv'
  BY DEF TypeOK, UseInv, FinalizerInv, PcInv
<1>3. MutexInv'
  BY DEF TypeOK, MutexInv
<1>4. RegisterInv'
  BY DEF TypeOK, RegisterInv
<1>5. UseInv'
  BY DEF TypeOK, PcInv, UseInv
<1>6. FinalizerInv'
  BY DEF TypeOK, PcInv, FinalizerInv
<1>7. MapInv'
  BY DEF TypeOK, MutexInv, RegisterInv, Registered, MapInv
<1>8. OwnInv'
  BY DEF TypeOK, OwnInv
<1> QED
  BY <1>1, <1>2, <1>3, <1>4, <1>5, <1>6, <1>7, <1>8

\* The hook enters the critical section with all entries to visit.
LEMMA destructAll_lock_keeps ==
    ASSUME IndInv, destructAll_lock
    PROVE  IndInv'
<1> USE ContextAssumption DEF Cleaners, AllThreads, Inside, IndInv, destructAll_lock, Goto
<1>1. TypeOK'
  BY DEF TypeOK, Steps
<1>2. MutexInv'
  BY DEF TypeOK, MutexInv
<1>3. MapInv'
  BY DEF TypeOK, Registered, MapInv
<1>4. PcInv' /\ RegisterInv' /\ UseInv' /\ FinalizerInv' /\ OwnInv'
  BY SMTT(30), Zenon DEF PcInv, RegisterInv, UseInv, FinalizerInv, OwnInv
<1> QED
  BY <1>1, <1>2, <1>3, <1>4

\* The hook frees a registered context and removes it.
LEMMA destructAll_each_keeps ==
    ASSUME IndInv, NEW c \in Ctxs, destructAll_each(c)
    PROVE  IndInv'
<1> USE ContextAssumption DEF Cleaners, AllThreads, Inside, IndInv, destructAll_each
<1>1. TypeOK'
  BY SMTT(30), Zenon DEF TypeOK
<1>2. RegisterInv'
  BY DEF MutexInv, MapInv, Registered, RegisterInv
<1>3. MapInv'
  BY DEF MutexInv, Registered, MapInv
<1>4. PcInv' /\ MutexInv' /\ UseInv' /\ FinalizerInv' /\ OwnInv'
  BY DEF PcInv, MutexInv, UseInv, FinalizerInv, OwnInv
<1> QED
  BY <1>1, <1>2, <1>3, <1>4

\* The hook leaves.
LEMMA destructAll_unlock_keeps ==
    ASSUME IndInv, destructAll_unlock
    PROVE  IndInv'
<1> USE ContextAssumption DEF Cleaners, AllThreads, Inside, IndInv, destructAll_unlock, Goto
<1>1. TypeOK'
  BY DEF TypeOK, Steps
<1>2. MutexInv'
  BY DEF TypeOK, MutexInv
<1>3. PcInv' /\ RegisterInv' /\ UseInv' /\ FinalizerInv' /\ MapInv' /\ OwnInv'
  BY DEF PcInv, RegisterInv, UseInv, FinalizerInv, MapInv, OwnInv, Registered
<1> QED
  BY <1>1, <1>2, <1>3

\* Nothing is allocated at first.
LEMMA Init_IndInv == Init => IndInv
<1> SUFFICES ASSUME Init
             PROVE  IndInv
  OBVIOUS
<1> USE ContextAssumption DEF Init, Cleaners, AllThreads
<1>1. TypeOK
  BY DEF TypeOK, Steps
<1>2. PcInv /\ MutexInv
  BY DEF PcInv, MutexInv, Inside
<1>3. RegisterInv /\ UseInv /\ FinalizerInv
  BY DEF RegisterInv, UseInv, FinalizerInv
<1>4. MapInv /\ OwnInv
  BY DEF MapInv, OwnInv, Registered
<1> QED
  BY <1>1, <1>2, <1>3, <1>4 DEF IndInv

\* Every step keeps the invariant.
LEMMA Next_IndInv == IndInv /\ [Next]_vars => IndInv'
<1> SUFFICES ASSUME IndInv, [Next]_vars
             PROVE  IndInv'
  OBVIOUS
<1>1. CASE UNCHANGED vars
  BY <1>1 DEF vars, IndInv, TypeOK, PcInv, MutexInv, RegisterInv, UseInv, FinalizerInv,
      MapInv, Registered, OwnInv
<1>2. ASSUME NEW t \in Threads, NEW o \in Objs, NEW c \in Ctxs,
             AtmiCtx_new(t, o, c) \/ AtmiCtx_wrap(t, o, c)
      PROVE  IndInv'
  BY <1>2, AtmiCtx_new_keeps, AtmiCtx_wrap_keeps
<1>3. ASSUME NEW t \in Threads, AtmiCtx_register(t) \/ call_end(t)
      PROVE  IndInv'
  BY <1>3, AtmiCtx_register_keeps, call_end_keeps
<1>4. ASSUME NEW t \in Threads, NEW o \in Objs, call_begin(t, o) \/ cleanup_test(t, o)
      PROVE  IndInv'
  BY <1>4, call_begin_keeps, cleanup_test_keeps
<1>5. ASSUME NEW o \in Objs, Drop(o) \/ finalize(o)
      PROVE  IndInv'
  BY <1>5, Drop_keeps, finalize_keeps
<1>6. ASSUME NEW t \in Cleaners, Cleanup(t)
      PROVE  IndInv'
  BY <1>6, cleanup_lock_keeps, cleanup_get_keeps, cleanup_free_keeps, cleanup_remove_keeps
     DEF Cleanup
<1>7. CASE DestructAll
  BY <1>7, destructAll_lock_keeps, destructAll_each_keeps, destructAll_unlock_keeps
     DEF DestructAll
<1> QED
  BY <1>1, <1>2, <1>3, <1>4, <1>5, <1>6, <1>7 DEF Next

-----------------------------------------------------------------------------
(* What follows from it. *)

\* The invariant holds in every reachable state.
THEOREM Invariance == Spec => []IndInv
  BY Init_IndInv, Next_IndInv, PTL DEF Spec

\* cleanup() and the shutdown hook never free a context twice, in whatever
\* order constructors, cleanup() calls, finalizer and hook run.
THEOREM ContextFreedOnce == Spec => []NoDoubleFree
<1>1. IndInv => NoDoubleFree
  BY ContextAssumption DEF IndInv, TypeOK, PcInv, MutexInv, MapInv, Registered, Inside, Cleaners,
      AllThreads, NoDoubleFree
<1> QED
  BY <1>1, Invariance, PTL

\* Until the hook runs, cleanup() frees only what its object allocated.
THEOREM OwnContextFreed == Spec => []FreesOwnContext
<1>1. IndInv => FreesOwnContext
  BY ContextAssumption DEF IndInv, TypeOK, PcInv, MutexInv, MapInv, Registered, OwnInv, Inside,
      Cleaners, AllThreads, FreesOwnContext
<1> QED
  BY <1>1, Invariance, PTL

\* Until the hook runs, no ATMI call works on a freed context.
THEOREM CallOnLiveContext == Spec => []NoUseAfterFree
<1>1. IndInv => NoUseAfterFree
  BY ContextAssumption DEF IndInv, TypeOK, PcInv, UseInv, OwnInv, Cleaners, AllThreads,
      NoUseAfterFree
<1> QED
  BY <1>1, Invariance, PTL

\* Outside the critical sections ctxMap holds exactly the registered contexts.
THEOREM MapIsExact == Spec => []MapExact
<1>1. IndInv => MapExact
  <2> SUFFICES ASSUME IndInv, mutex = NoThread
               PROVE  MapExact
    BY DEF MapExact
  <2>1. \A t \in Cleaners : pc[t] # "remove"
    BY ContextAssumption DEF IndInv, MutexInv, Inside, Cleaners
  <2>2. \A c \in Ctxs : c \in ctxMap <=> Registered(c)
    BY <2>1 DEF IndInv, MapInv
  <2>3. pc[Finalizer] # "register"
    BY DEF IndInv, PcInv, RegisterInv, FinalizerInv, Cleaners
  <2> QED
    BY <2>2, <2>3 DEF IndInv, TypeOK, MapExact, Registered, Cleaners
<1> QED
  BY <1>1, Invariance, PTL

\* The mutex is released on every way out of cleanup() and destructAll().
THEOREM MutexIsReleased == Spec => []MutexReleased
<1>1. IndInv => MutexReleased
  BY DEF IndInv, MutexInv, MutexReleased, Inside
<1> QED
  BY <1>1, Invariance, PTL
=============================================================================
