---------------------------- MODULE NativeLibrary ----------------------------
(***************************************************************************)
(* libexjavald: the library that Java loads.  Every native method is a     *)
(* generated stub that calls through a pointer into libexjava.  The        *)
(* pointers are resolved by ndrxj_lib_init, once, under a mutex; a stub    *)
(* tests M_lib_init without the mutex.  JNI_OnLoad resolves them too and   *)
(* then fills the cache of classes and members, one class after the other. *)
(*                                                                         *)
(* A function is a position of M_funcmap, a class one of M_classes.  The   *)
(* stores of one thread become visible to the others in order.             *)
(***************************************************************************)
EXTENDS Naturals

CONSTANTS Threads,
          None,     \* no thread
          NFuncs,   \* entries of M_funcmap
          NClasses, \* entries of M_classes
          Global    \* the classes of M_classes that are kept (GLOB)

ASSUME LibraryAssumption ==
    /\ None \notin Threads
    /\ NFuncs \in Nat /\ NClasses \in Nat
    /\ Global \subseteq 1..NClasses

VARIABLES
    M_lib_init,
    M_lib_init_lock,  \* the thread that holds the mutex, or None
    funcptr,          \* the functions whose pointer is set
    at,               \* at[t]: where thread t is
    fn,               \* fn[t]: the function called, 0 in JNI_OnLoad
    i,                \* i[t]: the loop variable of t
    clazz,            \* clazz[c]: what the class variable holds
    members,          \* the tables of ids that are filled
    loaded            \* JNI_OnLoad has succeeded

libvars == <<M_lib_init, M_lib_init_lock, funcptr, at, fn, i, clazz, members, loaded>>

Funcs == 1..NFuncs
Classes == 1..NClasses

\* The tables M_methods and M_fields.
Members == {"methods", "fields"}

InOnLoad(t) == fn[t] = 0 /\ at[t] # "idle"
Goto(t, p) == at' = [at EXCEPT ![t] = p]

\* Return to Java: the locals of the call are gone.
Leave(t) ==
    /\ Goto(t, "idle")
    /\ fn' = [fn EXCEPT ![t] = 0]
    /\ i' = [i EXCEPT ![t] = 0]

Places == {"idle", "lock", "open", "map", "out", "fail", "call", "thrown", "class",
           "fields", "release"}

\* Type invariant.
LibTypeOK ==
    /\ M_lib_init \in BOOLEAN
    /\ M_lib_init_lock \in Threads \cup {None}
    /\ funcptr \subseteq Funcs
    /\ at \in [Threads -> Places]
    /\ fn \in [Threads -> 0..NFuncs]
    /\ i \in [Threads -> Nat]
    /\ clazz \in [Classes -> {"null", "local", "weak", "dead"}]
    /\ members \subseteq Members
    /\ loaded \in BOOLEAN

\* The pointers and the variables of the class cache, as the libraries are
\* brought into memory.
PointersInit == M_lib_init = FALSE /\ M_lib_init_lock = None /\ funcptr = {}

CachesInit == clazz = [c \in Classes |-> "null"] /\ members = {}

LibInit ==
    /\ PointersInit /\ CachesInit
    /\ at = [t \in Threads |-> "idle"]
    /\ fn = [t \in Threads |-> 0]
    /\ i = [t \in Threads |-> 0]
    /\ loaded = FALSE

-----------------------------------------------------------------------------
(* The generated stubs. *)

\* Mutation of stub: the pointer is tested instead of the flag.
stub_pointer(t, f) ==
    /\ at[t] = "idle"
    /\ fn' = [fn EXCEPT ![t] = f]
    /\ Goto(t, IF funcptr # {} THEN "call" ELSE "lock")
    /\ UNCHANGED <<M_lib_init, M_lib_init_lock, funcptr, i, clazz, members, loaded>>

\* Java calls native method f.
stub(t, f) ==
    /\ at[t] = "idle"
    /\ fn' = [fn EXCEPT ![t] = f]
    /\ Goto(t, IF M_lib_init THEN "call" ELSE "lock")
    /\ UNCHANGED <<M_lib_init, M_lib_init_lock, funcptr, i, clazz, members, loaded>>

\* The function, or the stub that failed, returns to Java.
stub_return(t) ==
    /\ at[t] \in {"call", "thrown"}
    /\ Leave(t)
    /\ UNCHANGED <<M_lib_init, M_lib_init_lock, funcptr, clazz, members, loaded>>

-----------------------------------------------------------------------------
(* ndrxj_lib_init. *)

lib_init_lock(t) ==
    /\ at[t] = "lock" /\ M_lib_init_lock = None
    /\ M_lib_init_lock' = t
    /\ Goto(t, IF M_lib_init THEN "out" ELSE "open")
    /\ UNCHANGED <<M_lib_init, funcptr, fn, i, clazz, members, loaded>>

\* The library is in the process already, or dlopen brings it in, or fails.
lib_init_dlopen(t) ==
    /\ at[t] = "open"
    /\ \/ Goto(t, "map") /\ i' = [i EXCEPT ![t] = 1]
       \/ Goto(t, "fail") /\ UNCHANGED i
    /\ UNCHANGED <<M_lib_init, M_lib_init_lock, funcptr, fn, clazz, members, loaded>>

\* One turn of the loop; a symbol that is missing stores a null pointer.
lib_init_dlsym(t) ==
    /\ at[t] = "map" /\ i[t] \in Funcs
    /\ \/ /\ funcptr' = funcptr \cup {i[t]}
          /\ i' = [i EXCEPT ![t] = @ + 1]
          /\ UNCHANGED at
       \/ /\ funcptr' = funcptr \ {i[t]}
          /\ Goto(t, "fail")
          /\ UNCHANGED i
    /\ UNCHANGED <<M_lib_init, M_lib_init_lock, fn, clazz, members, loaded>>

\* Mutation of lib_init_done: the last entry of M_funcmap is left out.
lib_init_done_short(t) ==
    /\ at[t] = "map" /\ i[t] >= NFuncs
    /\ M_lib_init' = TRUE
    /\ Goto(t, "out")
    /\ UNCHANGED <<M_lib_init_lock, funcptr, fn, i, clazz, members, loaded>>

lib_init_done(t) ==
    /\ at[t] = "map" /\ i[t] \notin Funcs
    /\ M_lib_init' = TRUE
    /\ Goto(t, "out")
    /\ UNCHANGED <<M_lib_init_lock, funcptr, fn, i, clazz, members, loaded>>

lib_init_out(t) ==
    /\ at[t] = "out"
    /\ M_lib_init_lock' = None
    /\ Goto(t, IF fn[t] = 0 THEN "class" ELSE "call")
    /\ i' = [i EXCEPT ![t] = 1]
    /\ UNCHANGED <<M_lib_init, funcptr, fn, clazz, members, loaded>>

\* An exception is pending; JNI_OnLoad returns JNI_ERR.
lib_init_fail(t) ==
    /\ at[t] = "fail"
    /\ M_lib_init_lock' = None
    /\ IF fn[t] = 0 THEN Leave(t) ELSE Goto(t, "thrown") /\ UNCHANGED <<fn, i>>
    /\ UNCHANGED <<M_lib_init, funcptr, clazz, members, loaded>>

-----------------------------------------------------------------------------
(* JNI_OnLoad, and ndrxj_caches_load inside it. *)

\* The virtual machine loads a library once, one thread at a time.
JNI_OnLoad(t) ==
    /\ at[t] = "idle" /\ ~loaded
    /\ \A u \in Threads : ~InOnLoad(u)
    /\ fn' = [fn EXCEPT ![t] = 0]
    /\ Goto(t, "lock")
    /\ UNCHANGED <<M_lib_init, M_lib_init_lock, funcptr, i, clazz, members, loaded>>

\* Back in Java the local references are gone; the variables keep them.
Dead(refs) == [c \in Classes |-> IF refs[c] = "local" THEN "dead" ELSE refs[c]]

OnLoadFails(t, refs) ==
    /\ clazz' = Dead(refs)
    /\ Leave(t)

\* FindClass of the next class; a GLOB class gets a weak reference.
caches_class(t, found) ==
    /\ at[t] = "class" /\ i[t] \in Classes
    /\ IF found
       THEN /\ clazz' = [clazz EXCEPT ![i[t]] = IF i[t] \in Global THEN "weak" ELSE "local"]
            /\ i' = [i EXCEPT ![t] = @ + 1]
            /\ UNCHANGED <<at, fn>>
       ELSE OnLoadFails(t, [clazz EXCEPT ![i[t]] = "null"])
    /\ UNCHANGED <<M_lib_init, M_lib_init_lock, funcptr, members, loaded>>

\* The loop over M_methods.
caches_methods(t) ==
    /\ at[t] = "class" /\ i[t] \notin Classes
    /\ \/ /\ members' = members \cup {"methods"}
          /\ Goto(t, "fields") /\ UNCHANGED <<clazz, fn, i>>
       \/ members' = members \ {"methods"} /\ OnLoadFails(t, clazz)
    /\ UNCHANGED <<M_lib_init, M_lib_init_lock, funcptr, loaded>>

\* Mutation of caches_fields: a missing field is logged only.
caches_fields_logged(t) ==
    /\ at[t] = "fields"
    /\ members' \in {members \cup {"fields"}, members \ {"fields"}}
    /\ Goto(t, "release")
    /\ UNCHANGED <<M_lib_init, M_lib_init_lock, funcptr, fn, i, clazz, loaded>>

\* The loop over M_fields.
caches_fields(t) ==
    /\ at[t] = "fields"
    /\ \/ /\ members' = members \cup {"fields"}
          /\ Goto(t, "release") /\ UNCHANGED <<clazz, fn, i>>
       \/ members' = members \ {"fields"} /\ OnLoadFails(t, clazz)
    /\ UNCHANGED <<M_lib_init, M_lib_init_lock, funcptr, loaded>>

\* The LOCL references are deleted; JNI_OnLoad succeeds.
caches_release(t) ==
    /\ at[t] = "release"
    /\ clazz' = Dead(clazz)
    /\ loaded' = TRUE
    /\ Leave(t)
    /\ UNCHANGED <<M_lib_init, M_lib_init_lock, funcptr, members>>

\* The virtual machine unloads the library when its class loader is gone:
\* nobody can be inside.  The image of libexjavald goes, libexjava stays.
JNI_OnUnload ==
    /\ loaded /\ \A t \in Threads : at[t] = "idle"
    /\ clazz' = [c \in Classes |-> "dead"]
    /\ M_lib_init' = FALSE
    /\ funcptr' = {}
    /\ loaded' = FALSE
    /\ UNCHANGED <<M_lib_init_lock, at, fn, i, members>>

-----------------------------------------------------------------------------
Stub(t) == \E f \in Funcs : stub(t, f)

LibStep(t) ==
    \/ lib_init_lock(t) \/ lib_init_dlopen(t) \/ lib_init_dlsym(t)
    \/ lib_init_done(t) \/ lib_init_out(t) \/ lib_init_fail(t)

CachesStep(t) ==
    \/ \E found \in BOOLEAN : caches_class(t, found)
    \/ caches_methods(t) \/ caches_fields(t)
    \/ caches_release(t)

LibNext ==
    \/ \E t \in Threads :
          Stub(t) \/ stub_return(t) \/ LibStep(t) \/ JNI_OnLoad(t) \/ CachesStep(t)
    \/ JNI_OnUnload

LibSpec == LibInit /\ [][LibNext]_libvars

-----------------------------------------------------------------------------
(* Properties. *)

\* A stub never calls through a null pointer, however the threads interleave
\* and whatever attempts to load the library failed half way before.
NoNullCall == \A t \in Threads : at[t] = "call" => fn[t] \in funcptr

\* Once JNI_OnLoad has succeeded, the class cache is whole: every id is set and
\* every class that C code uses is held by a reference, also when earlier
\* attempts failed half way or the library was unloaded in between.
CacheWhole ==
    loaded => members = Members /\ \A c \in Global : clazz[c] = "weak"

\* The request of each thread, as the contract sees it.
Request ==
    [t \in Threads |->
        CASE fn[t] = 0 -> None
          [] fn[t] # 0 /\ at[t] = "call" -> [fn |-> fn[t], st |-> "running"]
          [] fn[t] # 0 /\ at[t] = "thrown" -> [fn |-> fn[t], st |-> "failed"]
          [] OTHER -> [fn |-> fn[t], st |-> "asked"]]

Contract == INSTANCE LibraryContract WITH up <- M_lib_init, req <- Request

\* libexjavald implements its contract: while the flag is set no native method
\* fails, and none runs when it is not.
KeepsContract == Contract!Spec
=============================================================================
