--------------------------- MODULE TermSigHandler ---------------------------
(***************************************************************************)
(* installTermSigHandler and the threads that run a Java Runnable when the *)
(* process gets SIGTERM, SIGINT or SIGHUP.  An installer takes the lock,   *)
(* sets the signal handler, starts a thread that waits for signals and     *)
(* replaces the global reference to the Runnable.  The handler, which may  *)
(* run on any thread, passes the signal on to the thread started last.     *)
(***************************************************************************)
EXTENDS Naturals, FiniteSets

CONSTANTS Installers,  \* Java threads that call installTermSigHandler
          Monitors,    \* identities for the threads it starts
          Refs,        \* JNI global references
          NoRef,       \* NULL
          NoThread,    \* no thread
          MaxSignals   \* bound: signals the operating system sends

ASSUME SignalAssumption ==
    /\ NoRef \notin Refs
    /\ NoThread \notin Installers \cup Monitors
    /\ Installers \cap Monitors = {}
    /\ MaxSignals \in Nat

VARIABLES
    lock,      \* holder of M_is_set_lock
    handler,   \* is sig_handler installed
    target,    \* M_signal_thread
    started,   \* monitor threads that run
    pending,   \* monitors with a pending signal; equal signals coalesce
    mon,       \* what a monitor does
    inst,      \* what an installer does
    runner,    \* M_runner
    refs,      \* global references that exist
    using,     \* using[m]: the reference m runs
    signals    \* signals sent so far

vars == <<lock, handler, target, started, pending, mon, inst, runner, refs, using, signals>>

\* Type invariant.
TypeOK ==
    /\ lock \in Installers \cup Monitors \cup {NoThread}
    /\ handler \in BOOLEAN
    /\ target \in Monitors \cup {NoThread}
    /\ started \in SUBSET Monitors
    /\ pending \in SUBSET Monitors
    /\ mon \in [Monitors -> {"wait", "got", "run"}]
    /\ inst \in [Installers -> {"idle", "locked", "signals", "runner"}]
    /\ runner \in Refs \cup {NoRef}
    /\ refs \in SUBSET Refs
    /\ using \in [Monitors -> Refs \cup {NoRef}]
    /\ signals \in 0..MaxSignals

Init ==
    /\ lock = NoThread
    /\ handler = FALSE
    /\ target = NoThread
    /\ started = {}
    /\ pending = {}
    /\ mon = [m \in Monitors |-> "wait"]
    /\ inst = [i \in Installers |-> "idle"]
    /\ runner = NoRef
    /\ refs = {}
    /\ using = [m \in Monitors |-> NoRef]
    /\ signals = 0

-----------------------------------------------------------------------------
(* installTermSigHandler.  M_is_set is never set, so every call takes the   *)
(* path of the first one.                                                   *)

\* Mutation of install_lock: the lock is not waited for.
install_lock_free(i) ==
    /\ inst[i] = "idle"
    /\ inst' = [inst EXCEPT ![i] = "locked"]
    /\ UNCHANGED <<lock, handler, target, started, pending, mon, runner, refs, using, signals>>

install_lock(i) ==
    /\ inst[i] = "idle" /\ lock = NoThread
    /\ lock' = i
    /\ inst' = [inst EXCEPT ![i] = "locked"]
    /\ UNCHANGED <<handler, target, started, pending, mon, runner, refs, using, signals>>

\* The three calls of sigaction.
install_sigaction(i) ==
    /\ inst[i] = "locked"
    /\ handler' = TRUE
    /\ inst' = [inst EXCEPT ![i] = "signals"]
    /\ UNCHANGED <<lock, target, started, pending, mon, runner, refs, using, signals>>

\* GetJavaVM fails: an exception, the old thread and runner stay.
install_no_vm(i) ==
    /\ inst[i] = "signals"
    /\ lock' = NoThread
    /\ inst' = [inst EXCEPT ![i] = "idle"]
    /\ UNCHANGED <<handler, target, started, pending, mon, runner, refs, using, signals>>

\* pthread_create of sig_thread.
install_thread(i, m) ==
    /\ inst[i] = "signals"
    /\ m \notin started
    /\ started' = started \cup {m}
    /\ target' = m
    /\ inst' = [inst EXCEPT ![i] = "runner"]
    /\ UNCHANGED <<lock, handler, pending, mon, runner, refs, using, signals>>

\* pthread_create fails, which nobody notices: M_signal_thread is unspecified.
install_no_thread(i) ==
    /\ inst[i] = "signals"
    /\ target' \in {target, NoThread}
    /\ inst' = [inst EXCEPT ![i] = "runner"]
    /\ UNCHANGED <<lock, handler, started, pending, mon, runner, refs, using, signals>>

\* Mutation of install_runner: the old reference is not deleted.
install_runner_kept(i, r) ==
    /\ inst[i] = "runner"
    /\ r \notin refs
    /\ refs' = refs \cup ({r} \ {NoRef})
    /\ runner' = r
    /\ lock' = NoThread
    /\ inst' = [inst EXCEPT ![i] = "idle"]
    /\ UNCHANGED <<handler, target, started, pending, mon, using, signals>>

\* DeleteGlobalRef of the old runner, NewGlobalRef of the new one, if any.
install_runner(i, r) ==
    /\ inst[i] = "runner"
    /\ r \notin refs \ {runner}
    /\ refs' = (refs \ {runner}) \cup ({r} \ {NoRef})
    /\ runner' = r
    /\ lock' = NoThread
    /\ inst' = [inst EXCEPT ![i] = "idle"]
    /\ UNCHANGED <<handler, target, started, pending, mon, using, signals>>

-----------------------------------------------------------------------------
(* Signals. *)

\* sig_handler, on whatever thread the signal interrupts, forwards it.  Before
\* the first thread exists M_signal_thread is zero and the signal is dropped.
sig_handler ==
    /\ handler /\ signals < MaxSignals
    /\ signals' = signals + 1
    /\ pending' = pending \cup ({target} \ {NoThread})
    /\ UNCHANGED <<lock, handler, target, started, mon, inst, runner, refs, using>>

\* The kernel gives the signal to a monitor in sigwait instead.
sig_direct(m) ==
    /\ handler /\ signals < MaxSignals
    /\ m \in started /\ mon[m] = "wait"
    /\ signals' = signals + 1
    /\ pending' = pending \cup {m}
    /\ UNCHANGED <<lock, handler, target, started, mon, inst, runner, refs, using>>

-----------------------------------------------------------------------------
(* sig_thread. *)

\* sigwait returns.
sig_thread_wait(m) ==
    /\ m \in started /\ mon[m] = "wait" /\ m \in pending
    /\ pending' = pending \ {m}
    /\ mon' = [mon EXCEPT ![m] = "got"]
    /\ UNCHANGED <<lock, handler, target, started, inst, runner, refs, using, signals>>

\* Mutation of sig_thread_run: the Runnable is called without the lock.
sig_thread_run_unlocked(m) ==
    /\ mon[m] = "got"
    /\ using' = [using EXCEPT ![m] = runner]
    /\ mon' = [mon EXCEPT ![m] = "run"]
    /\ UNCHANGED <<lock, handler, target, started, pending, inst, runner, refs, signals>>

\* M_runner is read and called under the lock.
sig_thread_run(m) ==
    /\ mon[m] = "got" /\ lock = NoThread
    /\ lock' = m
    /\ using' = [using EXCEPT ![m] = runner]
    /\ mon' = [mon EXCEPT ![m] = "run"]
    /\ UNCHANGED <<handler, target, started, pending, inst, runner, refs, signals>>

\* Mutation of sig_thread_done: the lock is not released.
sig_thread_done_locked(m) ==
    /\ mon[m] = "run"
    /\ using' = [using EXCEPT ![m] = NoRef]
    /\ mon' = [mon EXCEPT ![m] = "wait"]
    /\ UNCHANGED <<lock, handler, target, started, pending, inst, runner, refs, signals>>

sig_thread_done(m) ==
    /\ mon[m] = "run"
    /\ lock' = NoThread
    /\ using' = [using EXCEPT ![m] = NoRef]
    /\ mon' = [mon EXCEPT ![m] = "wait"]
    /\ UNCHANGED <<handler, target, started, pending, inst, runner, refs, signals>>

-----------------------------------------------------------------------------
Install(i) ==
    \/ install_sigaction(i)
    \/ install_no_vm(i)
    \/ install_no_thread(i)
    \/ \E m \in Monitors : install_thread(i, m)
    \/ \E r \in Refs \cup {NoRef} : install_runner(i, r)

Monitor(m) == sig_thread_wait(m) \/ sig_thread_run(m) \/ sig_thread_done(m)

Next ==
    \/ \E i \in Installers : install_lock(i) \/ Install(i)
    \/ sig_handler
    \/ \E m \in Monitors : sig_direct(m) \/ Monitor(m)

Spec == Init /\ [][Next]_vars

\* A thread inside the library goes on; a thread that waits for the lock gets
\* it some day; the Runnable returns.
FairSpec ==
    /\ Spec
    /\ \A i \in Installers : WF_vars(Install(i))
    /\ \A m \in Monitors :
          /\ WF_vars(sig_thread_wait(m)) /\ WF_vars(sig_thread_done(m))
          /\ SF_vars(sig_thread_run(m))

-----------------------------------------------------------------------------
(* Properties. *)

\* The Runnable that a monitor is executing is not deleted under it by a
\* thread that installs another one.
RunnerAlive == \A m \in Monitors : using[m] # NoRef => using[m] \in refs

\* Replacing the Runnable neither leaks nor deletes the wrong reference: the
\* only global reference is the one in M_runner.
RefsExact == refs = {runner} \ {NoRef}

\* The Runnable is executed by one thread at a time, although every call of
\* installTermSigHandler leaves a monitor thread behind.
OneRun == \A m, n \in Monitors : mon[m] = "run" /\ mon[n] = "run" => m = n

\* A signal passed on to a monitor makes it run whatever Runnable is then
\* installed, also when a newer monitor replaced it meanwhile.
SignalHandled == \A m \in Monitors : m \in pending ~> mon[m] = "run"
=============================================================================
