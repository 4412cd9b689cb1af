---------------------------- MODULE AtmiContexts ----------------------------
(***************************************************************************)
(* Life time of the C contexts behind AtmiCtx objects.  AtmiCtx() creates  *)
(* a C context and registers its address in the static ctxMap; cleanup(),  *)
(* called by the program or by the finalizer thread, and destructAll(),    *)
(* called by the JVM shutdown hook, free it.  Only ctxMapMutex orders      *)
(* them, and the C library may give a freed address to the next context.   *)
(* AtmiCtx(long) wraps a context that C code owns and registers nothing.   *)
(***************************************************************************)
EXTENDS Naturals, FiniteSets

CONSTANTS Threads,    \* threads of the program
          Finalizer,  \* the JVM's finalizer thread
          Hook,       \* the shutdown hook's thread
          Objs,       \* identities of AtmiCtx objects
          Wrappers,   \* the objects that C code makes with AtmiCtx(long)
          Ctxs,       \* addresses of C contexts
          Null,       \* the address 0
          NoObj,      \* no object
          NoThread    \* nobody holds the mutex

ASSUME ContextAssumption ==
    /\ Finalizer \notin Threads /\ Hook \notin Threads /\ Finalizer # Hook
    /\ NoThread \notin Threads \cup {Finalizer, Hook}
    /\ Null \notin Ctxs /\ NoObj \notin Objs /\ Wrappers \subseteq Objs

Cleaners == Threads \cup {Finalizer}
AllThreads == Cleaners \cup {Hook}

VARIABLES
    alloc,    \* allocated C contexts
    maker,    \* maker[c]: the object that was made with c
    obj,      \* constructed objects that are not collected
    ctx,      \* AtmiCtx.ctx
    reach,    \* objects the program still refers to
    ctxMap,   \* the keys of AtmiCtx.ctxMap
    mutex,    \* holder of ctxMapMutex
    pc,       \* what a thread does next
    arg,      \* the object a thread works on
    use,      \* use[t]: the C context t runs an ATMI call with
    it,       \* entries that destructAll has not visited
    thrown    \* threads that left cleanup() with a NullPointerException

vars == <<alloc, maker, obj, ctx, reach, ctxMap, mutex, pc, arg, use, it, thrown>>

Steps == {"idle", "register", "lock", "get", "free", "remove", "each", "done"}

\* Type invariant.
TypeOK ==
    /\ alloc \in SUBSET Ctxs
    /\ maker \in [Ctxs -> Objs \cup {NoObj}]
    /\ obj \in SUBSET Objs
    /\ ctx \in [Objs -> Ctxs \cup {Null}]
    /\ reach \in SUBSET Objs
    /\ ctxMap \in SUBSET Ctxs
    /\ mutex \in AllThreads \cup {NoThread}
    /\ pc \in [AllThreads -> Steps]
    /\ arg \in [AllThreads -> Objs \cup {NoObj}]
    /\ use \in [AllThreads -> Ctxs \cup {Null}]
    /\ it \in SUBSET Ctxs
    /\ thrown \in SUBSET AllThreads

Init ==
    /\ alloc = {}
    /\ maker = [c \in Ctxs |-> NoObj]
    /\ obj = {}
    /\ ctx = [o \in Objs |-> Null]
    /\ reach = {}
    /\ ctxMap = {}
    /\ mutex = NoThread
    /\ pc = [t \in AllThreads |-> "idle"]
    /\ arg = [t \in AllThreads |-> NoObj]
    /\ use = [t \in AllThreads |-> Null]
    /\ it = {}
    /\ thrown = {}

Goto(t, s) == pc' = [pc EXCEPT ![t] = s]

\* No other thread works on o: an AtmiCtx is used by one thread at a time.
Exclusive(t, o) == \A u \in AllThreads \ {t} : arg[u] # o

-----------------------------------------------------------------------------
(* Construction. *)

\* AtmiCtx(): ctx = tpnewctxt().
AtmiCtx_new(t, o, c) ==
    /\ pc[t] = "idle" /\ arg[t] = NoObj
    /\ o \notin obj \cup Wrappers /\ c \notin alloc
    /\ alloc' = alloc \cup {c}
    /\ maker' = [maker EXCEPT ![c] = o]
    /\ obj' = obj \cup {o}
    /\ ctx' = [ctx EXCEPT ![o] = c]
    /\ reach' = reach \cup {o}
    /\ arg' = [arg EXCEPT ![t] = o]
    /\ Goto(t, "register")
    /\ UNCHANGED <<ctxMap, mutex, use, it, thrown>>

\* AtmiCtx(): ctxMap.put under the mutex.
AtmiCtx_register(t) ==
    /\ pc[t] = "register" /\ mutex = NoThread
    /\ ctxMap' = ctxMap \cup {ctx[arg[t]]}
    /\ arg' = [arg EXCEPT ![t] = NoObj]
    /\ Goto(t, "idle")
    /\ UNCHANGED <<alloc, maker, obj, ctx, reach, mutex, use, it, thrown>>

\* Mutation of AtmiCtx_wrap: the context of the C thread is registered too.
AtmiCtx_wrap_registered(t, o, c) ==
    /\ pc[t] = "idle" /\ arg[t] = NoObj
    /\ o \in Wrappers \ obj /\ c \notin alloc
    /\ alloc' = alloc \cup {c}
    /\ maker' = [maker EXCEPT ![c] = o]
    /\ obj' = obj \cup {o}
    /\ ctx' = [ctx EXCEPT ![o] = c]
    /\ reach' = reach \cup {o}
    /\ ctxMap' = ctxMap \cup {c}
    /\ UNCHANGED <<mutex, pc, arg, use, it, thrown>>

\* ndrxj_alloc_context: AtmiCtx(long) for the context of a C thread.  The
\* global reference it takes is never deleted.
AtmiCtx_wrap(t, o, c) ==
    /\ pc[t] = "idle" /\ arg[t] = NoObj
    /\ o \in Wrappers \ obj /\ c \notin alloc
    /\ alloc' = alloc \cup {c}
    /\ maker' = [maker EXCEPT ![c] = o]
    /\ obj' = obj \cup {o}
    /\ ctx' = [ctx EXCEPT ![o] = c]
    /\ reach' = reach \cup {o}
    /\ UNCHANGED <<ctxMap, mutex, pc, arg, use, it, thrown>>

-----------------------------------------------------------------------------
(* An ATMI call: ndrxj_get_ctx refuses a null context, else the call runs   *)
(* with the address it read until it returns.                               *)

call_begin(t, o) ==
    /\ pc[t] = "idle" /\ arg[t] = NoObj
    /\ o \in reach /\ Exclusive(t, o) /\ ctx[o] # Null
    /\ arg' = [arg EXCEPT ![t] = o]
    /\ use' = [use EXCEPT ![t] = ctx[o]]
    /\ UNCHANGED <<alloc, maker, obj, ctx, reach, ctxMap, mutex, pc, it, thrown>>

call_end(t) ==
    /\ use[t] # Null
    /\ arg' = [arg EXCEPT ![t] = NoObj]
    /\ use' = [use EXCEPT ![t] = Null]
    /\ UNCHANGED <<alloc, maker, obj, ctx, reach, ctxMap, mutex, pc, it, thrown>>

-----------------------------------------------------------------------------
(* cleanup(), by the program or by the finalizer. *)

\* The program drops its reference.
Drop(o) ==
    /\ o \in reach \ Wrappers
    /\ \A t \in Threads : arg[t] # o
    /\ reach' = reach \ {o}
    /\ UNCHANGED <<alloc, maker, obj, ctx, ctxMap, mutex, pc, arg, use, it, thrown>>

\* cleanup() tests the field without the mutex.  Several threads may clean
\* up one object.
cleanup_test(t, o) ==
    /\ pc[t] = "idle" /\ arg[t] = NoObj
    /\ o \in reach /\ \A u \in AllThreads : use[u] # Null => arg[u] # o
    /\ \A u \in AllThreads : pc[u] = "register" => arg[u] # o
    /\ ctx[o] # Null
    /\ arg' = [arg EXCEPT ![t] = o]
    /\ Goto(t, "lock")
    /\ UNCHANGED <<alloc, maker, obj, ctx, reach, ctxMap, mutex, use, it, thrown>>

\* The collector found the object unreachable and runs finalize().
finalize(o) ==
    /\ pc[Finalizer] = "idle"
    /\ o \in obj \ reach /\ Exclusive(Finalizer, o)
    /\ IF ctx[o] = Null
       THEN obj' = obj \ {o} /\ UNCHANGED <<pc, arg>>
       ELSE /\ arg' = [arg EXCEPT ![Finalizer] = o]
            /\ Goto(Finalizer, "lock")
            /\ UNCHANGED obj
    /\ UNCHANGED <<alloc, maker, ctx, reach, ctxMap, mutex, use, it, thrown>>

cleanup_lock(t) ==
    /\ pc[t] = "lock" /\ mutex = NoThread
    /\ mutex' = t
    /\ Goto(t, "get")
    /\ UNCHANGED <<alloc, maker, obj, ctx, reach, ctxMap, arg, use, it, thrown>>

\* Mutation of Leave: the object keeps the address of the freed context.
Leave_stale(t) ==
    /\ mutex' = NoThread
    /\ arg' = [arg EXCEPT ![t] = NoObj]
    /\ obj' = IF t = Finalizer THEN obj \ {arg[t]} ELSE obj
    /\ Goto(t, "idle")
    /\ UNCHANGED ctx

\* The finally block, and the return.
Leave(t) ==
    /\ ctx' = [ctx EXCEPT ![arg[t]] = Null]
    /\ mutex' = NoThread
    /\ arg' = [arg EXCEPT ![t] = NoObj]
    /\ obj' = IF t = Finalizer THEN obj \ {arg[t]} ELSE obj
    /\ Goto(t, "idle")

\* Mutation of cleanup_get: the exception skips the finally block.
cleanup_get_locked(t) ==
    /\ pc[t] = "get"
    /\ IF ctx[arg[t]] \in ctxMap
       THEN Goto(t, "free") /\ UNCHANGED <<arg, thrown>>
       ELSE /\ thrown' = thrown \cup {t}
            /\ arg' = [arg EXCEPT ![t] = NoObj]
            /\ Goto(t, "idle")
    /\ UNCHANGED <<alloc, maker, obj, ctx, reach, ctxMap, mutex, use, it>>

\* ctxMap.get((Long)ctx) != 0: an absent key unboxes null.
cleanup_get(t) ==
    /\ pc[t] = "get"
    /\ \/ /\ ctx[arg[t]] \in ctxMap
          /\ Goto(t, "free")
          /\ UNCHANGED <<obj, ctx, mutex, arg, thrown>>
       \/ /\ ctx[arg[t]] \notin ctxMap
          /\ thrown' = thrown \cup {t}
          /\ Leave(t)
    /\ UNCHANGED <<alloc, maker, reach, ctxMap, use, it>>

\* finalizeC(ctx): tpfreectxt.
cleanup_free(t) ==
    /\ pc[t] = "free"
    /\ alloc' = alloc \ {ctx[arg[t]]}
    /\ Goto(t, "remove")
    /\ UNCHANGED <<maker, obj, ctx, reach, ctxMap, mutex, arg, use, it, thrown>>

\* Mutation of cleanup_remove: the entry stays in the map.
cleanup_remove_kept(t) ==
    /\ pc[t] = "remove"
    /\ Leave(t)
    /\ UNCHANGED <<alloc, maker, reach, ctxMap, use, it, thrown>>

cleanup_remove(t) ==
    /\ pc[t] = "remove"
    /\ ctxMap' = ctxMap \ {ctx[arg[t]]}
    /\ Leave(t)
    /\ UNCHANGED <<alloc, maker, reach, use, it, thrown>>

-----------------------------------------------------------------------------
(* destructAll(), by the shutdown hook, while the program goes on. *)

destructAll_lock ==
    /\ pc[Hook] = "idle" /\ mutex = NoThread
    /\ mutex' = Hook
    /\ it' = ctxMap
    /\ Goto(Hook, "each")
    /\ UNCHANGED <<alloc, maker, obj, ctx, reach, ctxMap, arg, use, thrown>>

\* finalizeC(key), then it.remove().
destructAll_each(c) ==
    /\ pc[Hook] = "each" /\ c \in it
    /\ alloc' = alloc \ {c}
    /\ ctxMap' = ctxMap \ {c}
    /\ it' = it \ {c}
    /\ UNCHANGED <<maker, obj, ctx, reach, mutex, pc, arg, use, thrown>>

destructAll_unlock ==
    /\ pc[Hook] = "each" /\ it = {}
    /\ mutex' = NoThread
    /\ Goto(Hook, "done")
    /\ UNCHANGED <<alloc, maker, obj, ctx, reach, ctxMap, arg, use, it, thrown>>

-----------------------------------------------------------------------------
Cleanup(t) == cleanup_lock(t) \/ cleanup_get(t) \/ cleanup_free(t) \/ cleanup_remove(t)

DestructAll == destructAll_lock \/ destructAll_unlock \/ \E c \in Ctxs : destructAll_each(c)

Next ==
    \/ \E t \in Threads, o \in Objs, c \in Ctxs :
          AtmiCtx_new(t, o, c) \/ AtmiCtx_wrap(t, o, c)
    \/ \E t \in Threads : AtmiCtx_register(t) \/ call_end(t)
    \/ \E t \in Threads, o \in Objs : call_begin(t, o) \/ cleanup_test(t, o)
    \/ \E o \in Objs : Drop(o) \/ finalize(o)
    \/ \E t \in Cleaners : Cleanup(t)
    \/ DestructAll

Spec == Init /\ [][Next]_vars

-----------------------------------------------------------------------------
(* Properties. *)

\* finalizeC is only ever called with the address of an allocated context,
\* although cleanup() may race with other cleanup() calls, with the shutdown
\* hook and with constructors that are given a freed address.
NoDoubleFree ==
    /\ \A t \in Cleaners : pc[t] = "free" => ctx[arg[t]] \in alloc
    /\ it \subseteq alloc

\* Until the shutdown hook runs, cleanup() frees the context that its own
\* object allocated, never one that C code or another object owns.
FreesOwnContext ==
    pc[Hook] = "idle" =>
        \A t \in Cleaners :
            pc[t] = "free" => maker[ctx[arg[t]]] = arg[t] /\ arg[t] \notin Wrappers

\* Until the shutdown hook runs, no ATMI call runs on a freed context.
NoUseAfterFree ==
    pc[Hook] = "idle" => \A t \in Threads : use[t] # Null => use[t] \in alloc

\* While nobody is inside the critical section, ctxMap holds exactly the
\* allocated contexts that an AtmiCtx() constructor has registered: the hook
\* neither misses one nor frees one twice.
MapExact ==
    mutex = NoThread =>
        ctxMap = {c \in alloc :
                     /\ maker[c] \notin Wrappers
                     /\ \A t \in Threads : pc[t] = "register" => ctx[arg[t]] # c}

\* ctxMapMutex is held only by a thread that is inside a critical section
\* and goes on there: it is released on every path out of cleanup() and
\* destructAll(), also when the test of ctxMap throws.
MutexReleased ==
    /\ \A t \in Cleaners : mutex = t => pc[t] \in {"get", "free", "remove"}
    /\ mutex = Hook => pc[Hook] = "each"

\* cleanup() skips a context that the shutdown hook has removed ("Contexts
\* can be removed by shutdown hooks...", the comment on its test of ctxMap):
\* it never ends with an exception.
SkipsRemoved == thrown = {}
=============================================================================
