------------------------ MODULE TermSigHandlerProofs ------------------------
(***************************************************************************)
(* Proofs about TermSigHandler: the Runnable and its global reference are  *)
(* safe for any number of installers, monitor threads and signals.         *)
(***************************************************************************)
EXTENDS TermSigHandler, TLAPS

\* A monitor that runs the Runnable holds the lock and runs what M_runner
\* still names; no other monitor holds a reference.
MonitorInv ==
    \A m \in Monitors :
        /\ mon[m] = "run" => lock = m /\ using[m] = runner
        /\ mon[m] # "run" => using[m] = NoRef

\* An installer inside installTermSigHandler holds the lock.
InstallerInv == \A i \in Installers : inst[i] # "idle" => lock = i

\* The inductive invariant.
IndInv == TypeOK /\ RefsExact /\ MonitorInv /\ InstallerInv

\* No thread is inside at first.
LEMMA Init_IndInv == Init => IndInv
<1> SUFFICES ASSUME Init
             PROVE  IndInv
  OBVIOUS
<1>1. TypeOK
  <2>1. signals \in 0..MaxSignals
    BY SignalAssumption DEF Init
  <2>2. mon \in [Monitors -> {"wait", "got", "run"}] /\ using \in [Monitors -> Refs \cup {NoRef}]
    BY DEF Init
  <2>3. inst \in [Installers -> {"idle", "locked", "signals", "runner"}]
    BY DEF Init
  <2>4. handler \in BOOLEAN
    BY Zenon DEF Init
  <2> QED
    BY <2>1, <2>2, <2>3, <2>4 DEF Init, TypeOK
<1>2. RefsExact
  BY DEF Init, RefsExact
<1>3. MonitorInv /\ InstallerInv
  BY DEF Init, MonitorInv, InstallerInv
<1> QED
  BY <1>1, <1>2, <1>3 DEF IndInv

\* Every step of installTermSigHandler keeps the invariant: the reference is
\* replaced under the lock, so no monitor runs it.
LEMMA install_keeps ==
    ASSUME IndInv, NEW i \in Installers, install_lock(i) \/ Install(i)
    PROVE  IndInv'
<1> USE SignalAssumption DEF IndInv, TypeOK, MonitorInv, InstallerInv, RefsExact
<1>1. CASE install_lock(i)
  BY <1>1 DEF install_lock
<1>2. CASE install_sigaction(i)
  BY <1>2 DEF install_sigaction
<1>3. CASE install_no_vm(i)
  BY <1>3 DEF install_no_vm
<1>4. CASE install_no_thread(i)
  BY <1>4 DEF install_no_thread
<1>5. ASSUME NEW m \in Monitors, install_thread(i, m)
      PROVE  IndInv'
  BY <1>5 DEF install_thread
<1>6. ASSUME NEW r \in Refs \cup {NoRef}, install_runner(i, r)
      PROVE  IndInv'
  <2>1. lock = i /\ \A m \in Monitors : mon[m] # "run" /\ using[m] = NoRef
    BY <1>6 DEF install_runner
  <2>2. refs' = {r} \ {NoRef} /\ runner' = r
    BY <1>6 DEF install_runner
  <2> QED
    BY <1>6, <2>1, <2>2 DEF install_runner
<1> QED
  BY <1>1, <1>2, <1>3, <1>4, <1>5, <1>6 DEF Install

\* A signal only makes a monitor ready.
LEMMA signal_keeps ==
    ASSUME IndInv, sig_handler \/ \E m \in Monitors : sig_direct(m)
    PROVE  IndInv'
<1> USE SignalAssumption DEF IndInv, TypeOK, MonitorInv, InstallerInv, RefsExact
<1>1. CASE sig_handler
  BY <1>1 DEF sig_handler
<1>2. CASE \E m \in Monitors : sig_direct(m)
  BY <1>2 DEF sig_direct
<1> QED
  BY <1>1, <1>2

\* A monitor reads M_runner under the lock and keeps the lock while it runs.
LEMMA monitor_keeps ==
    ASSUME IndInv, NEW m \in Monitors, Monitor(m)
    PROVE  IndInv'
<1> USE SignalAssumption DEF IndInv, TypeOK, MonitorInv, InstallerInv, RefsExact
<1>1. CASE sig_thread_wait(m)
  BY <1>1 DEF sig_thread_wait
<1>2. CASE sig_thread_run(m)
  BY <1>2 DEF sig_thread_run
<1>3. CASE sig_thread_done(m)
  BY <1>3 DEF sig_thread_done
<1> QED
  BY <1>1, <1>2, <1>3 DEF Monitor

\* Every step keeps the invariant.
LEMMA Next_IndInv == IndInv /\ [Next]_vars => IndInv'
<1> SUFFICES ASSUME IndInv, [Next]_vars
             PROVE  IndInv'
  OBVIOUS
<1>1. CASE UNCHANGED vars
  BY <1>1 DEF vars, IndInv, TypeOK, RefsExact, MonitorInv, InstallerInv
<1>2. CASE Next
  BY <1>2, install_keeps, signal_keeps, monitor_keeps DEF Next
<1> QED
  BY <1>1, <1>2

\* The invariant holds in every reachable state.
THEOREM Invariance == Spec => []IndInv
  BY Init_IndInv, Next_IndInv, PTL DEF Spec

\* Type correctness of the handler's state, for any number of threads.
THEOREM TypeCorrect == Spec => []TypeOK
<1>1. IndInv => TypeOK
  BY DEF IndInv
<1> QED
  BY <1>1, Invariance, PTL

\* The reference that a monitor calls is not deleted meanwhile (sig_thread
\* against the replacement in installTermSigHandler).
THEOREM RunnerStaysAlive == Spec => []RunnerAlive
<1>1. IndInv => RunnerAlive
  BY DEF IndInv, TypeOK, MonitorInv, RefsExact, RunnerAlive
<1> QED
  BY <1>1, Invariance, PTL

\* installTermSigHandler neither leaks a global reference nor deletes a wrong
\* one.
THEOREM NoReferenceLeak == Spec => []RefsExact
<1>1. IndInv => RefsExact
  BY DEF IndInv
<1> QED
  BY <1>1, Invariance, PTL

\* However many monitor threads there are, one at a time runs the Runnable.
THEOREM RunsExclude == Spec => []OneRun
<1>1. IndInv => OneRun
  BY DEF IndInv, MonitorInv, OneRun
<1> QED
  BY <1>1, Invariance, PTL

-----------------------------------------------------------------------------
(* What a program sees of installers, monitors and the lock. *)

\* What the monitors run.
Active == {using[m] : m \in {k \in Monitors : mon[k] = "run"}}

Contract == INSTANCE RunnerContract WITH active <- Active

CStep == Contract!Next \/ UNCHANGED <<runner, Active>>

\* A step that changes neither the Runnable nor who runs it is a stutter.
LEMMA SameRuns ==
    ASSUME UNCHANGED <<runner, mon, using>>
    PROVE  CStep
  BY DEF CStep, Active

\* The Runnable is replaced by the holder of the lock: no monitor runs it.
LEMMA ReplaceBetweenRuns ==
    ASSUME IndInv, NEW i \in Installers, NEW r \in Refs \cup {NoRef}, install_runner(i, r)
    PROVE  Contract!Replace(r)
<1>1. \A m \in Monitors : mon[m] # "run"
  BY SignalAssumption DEF IndInv, MonitorInv, InstallerInv, install_runner
<1>2. Active = {} /\ UNCHANGED <<mon, using>> /\ runner' = r
  BY <1>1, Zenon DEF Active, install_runner
<1>3. Active' = Active
  BY <1>2 DEF Active
<1> QED BY <1>2, <1>3 DEF Contract!Replace

\* A monitor that gets the lock runs the Runnable of that moment, alone.
LEMMA RunBegins ==
    ASSUME IndInv, NEW m \in Monitors, sig_thread_run(m)
    PROVE  Contract!Begin
<1>1. \A n \in Monitors : mon[n] # "run"
  BY SignalAssumption DEF IndInv, MonitorInv, sig_thread_run
<1>2. Active = {} /\ runner' = runner
  BY <1>1 DEF Active, sig_thread_run
<1>3. \A n \in Monitors : mon'[n] = "run" <=> n = m
  BY <1>1 DEF IndInv, TypeOK, sig_thread_run
<1>4. using'[m] = runner
  BY DEF IndInv, TypeOK, sig_thread_run
<1>5. Active' = {runner}
  BY <1>3, <1>4 DEF Active
<1> QED BY <1>2, <1>5 DEF Contract!Begin

\* The monitor that ends its run was the only one.
LEMMA RunEnds ==
    ASSUME IndInv, NEW m \in Monitors, sig_thread_done(m)
    PROVE  Contract!End
<1>1. mon[m] = "run" /\ \A n \in Monitors : mon[n] = "run" => n = m
  BY DEF IndInv, MonitorInv, sig_thread_done
<1>2. using[m] \in Active /\ runner' = runner
  BY <1>1 DEF Active, sig_thread_done
<1>3. \A n \in Monitors : mon'[n] # "run"
  BY <1>1 DEF IndInv, TypeOK, sig_thread_done
<1>4. Active' = {}
  BY <1>3 DEF Active
<1> QED BY <1>2, <1>4 DEF Contract!End

\* Every step is one of the contract, or none.
LEMMA NextContract == IndInv /\ [Next]_vars => CStep
<1> SUFFICES ASSUME IndInv, [Next]_vars PROVE CStep
  OBVIOUS
<1>1. CASE UNCHANGED vars \/ sig_handler
  BY <1>1, SameRuns DEF vars, sig_handler
<1>2. ASSUME NEW i \in Installers, install_lock(i) \/ Install(i)
      PROVE  CStep
  <2>1. ASSUME NEW r \in Refs \cup {NoRef}, install_runner(i, r)
        PROVE  CStep
    BY <2>1, ReplaceBetweenRuns DEF CStep, Contract!Next
  <2>2. CASE \/ install_lock(i) \/ install_sigaction(i) \/ install_no_vm(i) \/ install_no_thread(i)
             \/ \E m \in Monitors : install_thread(i, m)
    BY <2>2, SameRuns, Zenon DEF install_lock, install_sigaction, install_no_vm, install_no_thread,
       install_thread
  <2> QED BY <1>2, <2>1, <2>2, Zenon DEF Install
<1>3. ASSUME NEW m \in Monitors, sig_direct(m) \/ sig_thread_wait(m)
      PROVE  CStep
  <2>1. CASE sig_direct(m)
    BY <2>1, SameRuns DEF sig_direct
  <2>2. CASE sig_thread_wait(m)
    <3>1. mon[m] = "wait" /\ mon' = [mon EXCEPT ![m] = "got"] /\ UNCHANGED <<runner, using>>
      BY <2>2 DEF sig_thread_wait
    <3>2. \A n \in Monitors : mon'[n] = "run" <=> mon[n] = "run"
      BY <3>1 DEF IndInv, TypeOK
    <3>3. Active' = Active
      BY <3>1, <3>2 DEF Active
    <3> QED BY <3>1, <3>3 DEF CStep
  <2> QED BY <1>3, <2>1, <2>2
<1>4. ASSUME NEW m \in Monitors, sig_thread_run(m) \/ sig_thread_done(m)
      PROVE  CStep
  BY <1>4, RunBegins, RunEnds DEF CStep, Contract!Next
<1> QED BY <1>1, <1>2, <1>3, <1>4, Zenon DEF Next, Monitor

\* installTermSigHandler, the signal handler and any number of monitor threads
\* together keep the contract of a single Runnable: its runs do not overlap,
\* each is of the Runnable installed at its begin, and installTermSigHandler
\* waits for a run to end before it replaces it.
THEOREM HandlerImplements == Spec => Contract!Spec
<1>1. Init => Contract!Init
  BY DEF Init, Contract!Init, Active
<1>2. IndInv /\ [Next]_vars => [Contract!Next]_<<runner, Active>>
  BY NextContract DEF CStep
<1> QED BY <1>1, <1>2, Invariance, PTL DEF Spec, Contract!Spec
=============================================================================
