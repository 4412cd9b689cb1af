----------------------------- MODULE JavaProcess -----------------------------
(***************************************************************************)
(* The start of a process that uses endurox-java.  A binary linked by      *)
(* exjld and an Enduro/X process that loads the JDBC switch (tmsrv) create *)
(* the virtual machine and the static class loader themselves, on the boot *)
(* thread; then the one runs its main class, the other initialises the XA  *)
(* driver.  A java program has its machine already.  The first use of      *)
(* AtmiCtx runs its static block, which loads libexjavald; JNI_OnLoad      *)
(* looks up the classes of its cache through the same class loader.        *)
(*                                                                         *)
(* Name 0 is the main class, name c the class c of M_classes, and AtmiCtx  *)
(* is the first of these.                                                  *)
(***************************************************************************)
EXTENDS ClassIndex, ExceptionCache

CONSTANT Boot   \* the thread that starts the virtual machine

ASSUME ProcessAssumption == Boot \in Threads /\ NClasses \in 1..MaxName

VARIABLES
    form,      \* "binary", "tmsrv" or "java"
    path,      \* the names found through the class path only
    urls,      \* M_classpath_url: "null", "list" or "freed"
    vm,        \* the virtual machine: "none", "up" or "down"
    ldrClass,  \* M_classLoaderClass is set
    ldr,       \* M_classLoader is set
    boot,      \* how far the boot thread is
    finder,    \* the thread whose loadClass is in C, or None
    known,     \* classes that findLoadedClass knows
    ctxInit,   \* initialisation of class AtmiCtx: "no", "busy", "ok" or "error"
    initBy,    \* the thread that initialises it
    xa,        \* xa[t]: where t is in an XA entry
    xaMid      \* xaMid[t]: the method id that t has read there

indexvars == vars
startvars == <<form, path, urls, vm, ldrClass, ldr>>
classvars == <<finder, known, ctxInit, initBy>>
xavars == <<xa, xaMid>>
procvars == <<indexvars, libvars, excvars, startvars, boot, classvars, xavars>>

AtmiCtx == 1
MainClass == 0

\* Type invariant.
ProcessTypeOK ==
    /\ TypeOK /\ LibTypeOK /\ ExcTypeOK
    /\ form \in {"binary", "tmsrv", "java"} /\ path \subseteq Names
    /\ urls \in {"null", "list", "freed"}
    /\ vm \in {"none", "up", "down"}
    /\ ldrClass \in BOOLEAN /\ ldr \in BOOLEAN
    /\ boot \in {"start", "options", "create", "define", "natives", "urls", "object",
                 "ready", "find", "running", "context", "driver", "serving", "failed", "done"}
    /\ finder \in Threads \cup {None} /\ known \subseteq Names
    /\ ctxInit \in {"no", "busy", "ok", "error"} /\ initBy \in Threads \cup {None}
    /\ xa \in [Threads -> {"out", "alloc", "java"}]
    /\ xaMid \in [Threads -> {"null", "set"}]

\* Only a linked binary has a table (tmsrv: M_dum).
ProcessInit ==
    /\ form \in {"binary", "tmsrv", "java"}
    /\ Init /\ (form # "binary" => len = 0)
    /\ utf = IF form = "binary" THEN MainClass ELSE AtmiCtx
    /\ LibInit /\ ExcInit
    /\ path \in SUBSET (Names \ {index[k] : k \in 0..(len - 1)})
    /\ urls = "null"
    /\ vm = IF form = "java" THEN "up" ELSE "none"
    /\ ldrClass = FALSE /\ ldr = FALSE
    /\ boot = IF form = "java" THEN "running" ELSE "start"
    /\ finder = None /\ known = {}
    /\ ctxInit = "no" /\ initBy = None
    /\ xa = [t \in Threads |-> "out"] /\ xaMid = [t \in Threads |-> "null"]

-----------------------------------------------------------------------------
(* ndrxj_ldr_getvm. *)

Freed == IF urls = "list" THEN "freed" ELSE urls

\* ndrxj_cp_proc: is a line of the configuration a class path?  The blank after
\* the tag is looked for as if the line had none before it.
cp_proc(tag, blankBefore) == ~blankBefore /\ tag \in {"-cp", "-classpath"}

\* The configuration is read, and each option is passed on.
getvm_config ==
    /\ boot = "start"
    /\ boot' = "options"
    /\ UNCHANGED <<indexvars, libvars, excvars, startvars, classvars, xavars>>

getvm_option ==
    /\ boot = "options"
    /\ \E tag \in {"-cp", "-classpath", "-X"}, blankBefore \in BOOLEAN :
          urls' = IF cp_proc(tag, blankBefore) THEN "list" ELSE urls
    /\ UNCHANGED <<indexvars, libvars, excvars, form, path, vm, ldrClass, ldr, boot, classvars, xavars>>

\* CLASSPATH, if set, is appended.
getvm_classpath ==
    /\ boot = "options"
    /\ urls' \in {urls, "list"}
    /\ path' = IF urls' = "list" THEN path ELSE {}
    /\ boot' = "create"
    /\ UNCHANGED <<indexvars, libvars, excvars, form, vm, ldrClass, ldr, classvars, xavars>>

getvm_create ==
    /\ boot = "create"
    /\ vm' = "up" /\ boot' = "define"
    /\ UNCHANGED <<indexvars, libvars, excvars, form, path, urls, ldrClass, ldr, classvars, xavars>>

\* The configuration cannot be read, or memory or JNI_CreateJavaVM fails.
getvm_fails ==
    /\ boot \in {"start", "options", "create"}
    /\ boot' = "failed" /\ urls' = Freed
    /\ UNCHANGED <<indexvars, libvars, excvars, form, path, vm, ldrClass, ldr, classvars, xavars>>

\* create_loader: the three embedded classes are defined.
create_loader_class ==
    /\ boot = "define"
    /\ ldrClass' = TRUE /\ boot' = "natives"
    /\ UNCHANGED <<indexvars, libvars, excvars, form, path, urls, vm, ldr, classvars, xavars>>

\* getResourceBytes and getClassBytes are registered.
create_loader_natives ==
    /\ boot = "natives" /\ ldrClass
    /\ boot' = "urls"
    /\ UNCHANGED <<indexvars, libvars, excvars, startvars, classvars, xavars>>

\* The class path becomes an array, one element per entry, empty without any.
build_classpath_urls ==
    /\ boot = "urls" /\ urls # "freed"
    /\ boot' = "object"
    /\ UNCHANGED <<indexvars, libvars, excvars, startvars, classvars, xavars>>

\* The loader object; ndrxj_ldr_getvm frees the list and returns.
create_loader_object ==
    /\ boot = "object"
    /\ ldr' = TRUE /\ boot' = "ready" /\ urls' = Freed
    /\ UNCHANGED <<indexvars, libvars, excvars, form, path, vm, ldrClass, classvars, xavars>>

\* Any of these fails: the machine stays up and the caller gets NULL.
create_loader_fails ==
    /\ boot \in {"define", "natives", "urls", "object"}
    /\ boot' = "failed" /\ urls' = Freed
    /\ UNCHANGED <<indexvars, libvars, excvars, form, path, vm, ldrClass, ldr, classvars, xavars>>

-----------------------------------------------------------------------------
(* StaticClassLoader.loadClass: the linked table, then the class path. *)

\* The first call finds the search as Init leaves it.
BeginFind(t, name) ==
    /\ finder = None
    /\ finder' = t
    /\ IF pc = "enter" THEN utf = name /\ UNCHANGED indexvars ELSE loadClass(name)

Search ==
    /\ finder # None /\ Step
    /\ UNCHANGED <<libvars, excvars, startvars, boot, classvars, xavars>>

Found == ret # -1 \/ utf \in path

EndFind(t) ==
    /\ finder = t /\ pc = "done"
    /\ finder' = None
    /\ known' = IF Found THEN known \cup {utf} ELSE known
    /\ UNCHANGED indexvars

-----------------------------------------------------------------------------
(* ndrxj_run_main. *)

run_ldr_main ==
    /\ boot = "ready" /\ form = "binary"
    /\ BeginFind(Boot, MainClass)
    /\ boot' = "find"
    /\ UNCHANGED <<libvars, excvars, startvars, known, ctxInit, initBy, xavars>>

\* ndrxj_ldr_get_static_handler; without the main class the machine goes down.
get_static_handler ==
    /\ boot = "find"
    /\ EndFind(Boot)
    /\ boot' = IF Found THEN "running" ELSE "failed"
    /\ vm' = IF Found THEN vm ELSE "down"
    /\ UNCHANGED <<libvars, excvars, form, path, urls, ldrClass, ldr, ctxInit, initBy, xavars>>

\* main returns or throws; DestroyJavaVM waits for the other threads.
main_returns ==
    /\ boot = "running"
    /\ \A t \in Threads : at[t] = "idle" /\ thr[t] = "none" /\ finder # t /\ initBy # t
    /\ boot' = "done" /\ vm' = "down"
    /\ UNCHANGED <<indexvars, libvars, excvars, form, path, urls, ldrClass, ldr, classvars, xavars>>

-----------------------------------------------------------------------------
(* Class AtmiCtx and its static block. *)

\* Java code runs on t, or C on its behalf asks for class AtmiCtx.
JavaRuns(t) ==
    \/ boot = "running"
    \/ boot = "serving"
    \/ t = Boot /\ boot = "context"

\* The first use of AtmiCtx by any thread.
AtmiCtx_find(t) ==
    /\ JavaRuns(t) /\ ctxInit = "no" /\ initBy = None /\ at[t] = "idle"
    /\ BeginFind(t, AtmiCtx)
    /\ initBy' = t
    /\ UNCHANGED <<libvars, excvars, startvars, boot, known, ctxInit, xavars>>

\* The class is found, and its static block loads the library.
AtmiCtx_clinit(t) ==
    /\ initBy = t /\ ctxInit = "no" /\ Found
    /\ EndFind(t)
    /\ ctxInit' = "busy"
    /\ JNI_OnLoad(t)
    /\ UNCHANGED <<excvars, startvars, boot, initBy, xavars>>

AtmiCtx_missing(t) ==
    /\ initBy = t /\ ctxInit = "no" /\ ~Found
    /\ EndFind(t)
    /\ initBy' = None
    /\ boot' = IF t = Boot /\ boot = "context" THEN "failed" ELSE boot
    /\ UNCHANGED <<libvars, excvars, startvars, ctxInit, xavars>>

\* The static block has ended; an error stays with the class.
AtmiCtx_done(t) ==
    /\ initBy = t /\ ctxInit = "busy" /\ at[t] = "idle"
    /\ ctxInit' = IF loaded THEN "ok" ELSE "error"
    /\ initBy' = None
    /\ UNCHANGED <<indexvars, libvars, excvars, startvars, boot, finder, known, xavars>>

\* The static blocks of TypedBuffer and TypedUbf load the library, too.
TypedBuffer_clinit(t) ==
    /\ JavaRuns(t) /\ ctxInit = "error" /\ initBy = None
    /\ JNI_OnLoad(t)
    /\ UNCHANGED <<indexvars, excvars, startvars, boot, classvars, xavars>>

\* FindClass inside ndrxj_caches_load.
caches_find(t) ==
    /\ at[t] = "class" /\ i[t] \in Classes \ known
    /\ BeginFind(t, i[t])
    /\ UNCHANGED <<libvars, excvars, startvars, boot, known, ctxInit, initBy, xavars>>

caches_found(t) ==
    /\ at[t] = "class" /\ i[t] \in Classes
    /\ \/ EndFind(t) /\ caches_class(t, Found)
       \/ i[t] \in known /\ caches_class(t, TRUE) /\ UNCHANGED <<indexvars, finder, known>>
    /\ UNCHANGED <<excvars, startvars, boot, ctxInit, initBy, xavars>>

\* The library alone: stubs, ndrxj_lib_init and the end of JNI_OnLoad.
Library(t) ==
    /\ \/ LibStep(t) \/ caches_methods(t) \/ caches_fields(t) \/ caches_release(t)
       \/ JavaRuns(t) /\ initBy # t /\ finder # t /\ Stub(t)
       \/ at[t] = "thrown" /\ stub_return(t)
    /\ UNCHANGED <<indexvars, excvars, startvars, boot, classvars, xavars>>

\* The class loader of a java program is collected, and all its classes.
Unload ==
    /\ form = "java" /\ ctxInit = "ok"
    /\ JNI_OnUnload
    /\ caches_unload
    /\ known' = {} /\ ctxInit' = "no"
    /\ UNCHANGED <<indexvars, startvars, boot, finder, initBy, xavars>>

-----------------------------------------------------------------------------
(* A native function that ends with or without an exception. *)

Throw(t) ==
    /\ at[t] = "call"
    /\ \/ ndrxj_atmi_throw(t) \/ ndrxj_ubf_throw(t) \/ ThrowStep(t)
       \/ loaded /\ ndrxj_nullptr_throw(t)
    /\ UNCHANGED <<indexvars, libvars, startvars, boot, classvars, xavars>>

Return(t) ==
    /\ at[t] = "call" /\ stub_return(t)
    /\ \/ thr[t] = "none" /\ UNCHANGED excvars
       \/ throw_return(t)
    /\ UNCHANGED <<indexvars, startvars, boot, classvars, xavars>>

-----------------------------------------------------------------------------
(* The XA switch of an Enduro/X process. *)

\* Mutation of get_xa_switch: the driver is left to the first entry.
get_xa_switch_lazy ==
    /\ boot = "ready" /\ form = "tmsrv"
    /\ boot' = "serving"
    /\ UNCHANGED <<indexvars, libvars, excvars, startvars, classvars, xavars>>

\* ndrx_get_xa_switch goes on to ndrxj_xa_init, which asks for a context.
get_xa_switch ==
    /\ boot = "ready" /\ form = "tmsrv"
    /\ boot' = "context"
    /\ UNCHANGED <<indexvars, libvars, excvars, startvars, classvars, xavars>>

\* ndrxj_alloc_context and the driver's class succeed, or there is no switch.
xa_init ==
    /\ boot = "context" /\ ctxInit \in {"ok", "error"}
    /\ \/ ctxInit = "ok" /\ boot' = "serving"
       \/ boot' = "failed"
    /\ UNCHANGED <<indexvars, libvars, excvars, startvars, classvars, xavars>>

\* An entry reads the method id first, as an argument of xa_info_entry.
xa_info_entry(t) ==
    /\ boot = "serving" /\ xa[t] = "out" /\ at[t] = "idle" /\ initBy # t
    /\ xaMid' = [xaMid EXCEPT ![t] = IF members = Members THEN "set" ELSE "null"]
    /\ xa' = [xa EXCEPT ![t] = "alloc"]
    /\ UNCHANGED <<indexvars, libvars, excvars, startvars, boot, classvars>>

\* The context of the thread is made, and Java is called with the id.
xa_info_call(t) ==
    /\ xa[t] = "alloc" /\ ctxInit = "ok"
    /\ xa' = [xa EXCEPT ![t] = "java"]
    /\ UNCHANGED <<indexvars, libvars, excvars, startvars, boot, classvars, xaMid>>

\* XAER_RMFAIL, or the answer of Java.
xa_info_out(t) ==
    /\ xa[t] # "out" /\ at[t] = "idle"
    /\ xa' = [xa EXCEPT ![t] = "out"]
    /\ xaMid' = [xaMid EXCEPT ![t] = "null"]
    /\ UNCHANGED <<indexvars, libvars, excvars, startvars, boot, classvars>>

-----------------------------------------------------------------------------
GetVm ==
    \/ getvm_config \/ getvm_option \/ getvm_classpath \/ getvm_create \/ getvm_fails
    \/ create_loader_class \/ create_loader_natives \/ build_classpath_urls
    \/ create_loader_object \/ create_loader_fails

Classload(t) ==
    \/ AtmiCtx_find(t) \/ AtmiCtx_clinit(t) \/ AtmiCtx_missing(t) \/ AtmiCtx_done(t)
    \/ TypedBuffer_clinit(t) \/ caches_find(t) \/ caches_found(t)

ProcessNext ==
    /\ ~aborted
    /\ \/ GetVm \/ run_ldr_main \/ get_static_handler \/ main_returns
       \/ get_xa_switch \/ xa_init \/ Search \/ Unload
       \/ \E t \in Threads :
             \/ Classload(t) \/ Library(t) \/ Throw(t) \/ Return(t)
             \/ xa_info_entry(t) \/ xa_info_call(t) \/ xa_info_out(t)

ProcessSpec == ProcessInit /\ [][ProcessNext]_procvars

\* The search of the class loader goes on.
FairProcess == ProcessSpec /\ WF_procvars(Search)

-----------------------------------------------------------------------------
(* Properties. *)

\* An XA entry never calls Java with a method id that it read before the
\* class cache was filled.
MidsResolved == \A t \in Threads : xa[t] = "java" => xaMid[t] = "set"

\* A look-up that a thread waits for ends, unless another one aborts.
FindEnds == finder # None ~> pc = "done" \/ aborted
=============================================================================
