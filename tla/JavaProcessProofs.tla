-------------------------- MODULE JavaProcessProofs --------------------------
(***************************************************************************)
(* Proofs about a process that uses endurox-java, for tables, threads,     *)
(* functions, classes and exceptions of any number: first its two halves   *)
(* on their own, the class loader's search and libexjavald, then the       *)
(* process, whose steps are steps of both.                                 *)
(***************************************************************************)
EXTENDS JavaProcess, TLAPS

-----------------------------------------------------------------------------
(* The search of the class loader. *)

\* Entries before first are smaller than the name, entries after last are
\* greater: what is left to search is between them.
SearchInv ==
    pc = "loop" =>
        /\ first \in 0..len /\ last \in (-1)..(len - 1) /\ first <= last + 1
        /\ middle = half(first + last)
        /\ \A k \in 0..(len - 1) :
              /\ k < first => index[k] < utf
              /\ k > last => index[k] > utf

\* The inductive invariant.  The table never changes, so it stays sorted.
IndexInv ==
    /\ TypeOK
    /\ Sorted(len, index)
    /\ SearchInv
    /\ Correct
    /\ pc # "done" => ret = -1

\* The middle of a range that is not empty lies in it.
LEMMA HalfBetween ==
    ASSUME NEW a \in Nat, NEW b \in Int, a <= b
    PROVE  half(a + b) \in a..b
BY DEF half

\* The search starts with the whole table, empty or not.
LEMMA HalfInt ==
    ASSUME NEW n \in Int
    PROVE  half(n) \in Int
BY DEF half

\* Any sorted table may be linked in.
LEMMA IndexInit == Init => IndexInv
BY IndexAssumption DEF Init, IndexInv, TypeOK, SearchInv, Correct

\* What the loop reads is inside the table.
LEMMA MiddleInRange ==
    ASSUME IndexInv, pc = "loop", first <= last
    PROVE  middle \in first..last /\ middle \in 0..(len - 1)
           /\ len \in Nat /\ index[middle] \in Names
<1>1. first \in Nat /\ last \in Int /\ len \in Nat /\ last <= len - 1
  BY IndexAssumption DEF IndexInv, TypeOK, SearchInv
<1>2. middle \in first..last
  BY <1>1, HalfBetween, Zenon DEF IndexInv, SearchInv
<1>3. middle \in 0..(len - 1)
  BY <1>1, <1>2
<1> QED
  BY <1>1, <1>2, <1>3 DEF IndexInv, TypeOK

\* The loop begins: nothing is excluded yet.
LEMMA enter_keeps == IndexInv /\ getIndexBytes_enter => IndexInv'
<1> SUFFICES ASSUME IndexInv, getIndexBytes_enter PROVE IndexInv'
  OBVIOUS
<1>1. len \in Nat /\ half(0 + (len - 1)) \in Int
  BY IndexAssumption, HalfInt DEF IndexInv, TypeOK
<1>2. TypeOK'
  BY <1>1 DEF IndexInv, TypeOK, getIndexBytes_enter
<1>3. SearchInv'
  BY <1>1 DEF SearchInv, getIndexBytes_enter
<1> QED
  BY <1>2, <1>3 DEF IndexInv, getIndexBytes_enter, Correct, Sorted

\* The lower half, middle included, is smaller than the name.
LEMMA after_keeps == IndexInv /\ getIndexBytes_after => IndexInv'
<1> SUFFICES ASSUME IndexInv, getIndexBytes_after PROVE IndexInv'
  OBVIOUS
<1>1. /\ middle \in first..last /\ middle \in 0..(len - 1)
      /\ len \in Nat /\ index[middle] \in Names
  BY MiddleInRange DEF getIndexBytes_after
<1>2. /\ first \in Nat /\ last \in Int /\ last <= len - 1
      /\ half(middle + 1 + last) \in Int
  BY <1>1, HalfInt DEF IndexInv, SearchInv, getIndexBytes_after
<1>3. TypeOK'
  BY <1>1, <1>2 DEF IndexInv, TypeOK, getIndexBytes_after
<1>4. ASSUME NEW k \in 0..(len - 1), k < middle + 1
      PROVE  index[k] < utf
  <2>1. index[k] <= index[middle]
    BY <1>1, <1>4 DEF IndexInv, Sorted
  <2> QED
    BY <1>1, <2>1 DEF IndexInv, TypeOK, Names, getIndexBytes_after
<1>5. SearchInv'
  BY <1>1, <1>2, <1>4 DEF IndexInv, SearchInv, getIndexBytes_after
<1> QED
  BY <1>3, <1>5 DEF IndexInv, getIndexBytes_after, Correct, Sorted

\* The upper half, middle included, is greater than the name.
LEMMA before_keeps == IndexInv /\ getIndexBytes_before => IndexInv'
<1> SUFFICES ASSUME IndexInv, getIndexBytes_before PROVE IndexInv'
  OBVIOUS
<1>1. /\ middle \in first..last /\ middle \in 0..(len - 1)
      /\ len \in Nat /\ index[middle] \in Names
  BY MiddleInRange DEF getIndexBytes_before
<1>2. /\ first \in Nat /\ last \in Int /\ last <= len - 1
      /\ half(first + (middle - 1)) \in Int
  BY <1>1, HalfInt DEF IndexInv, SearchInv, getIndexBytes_before
<1>3. TypeOK'
  BY <1>1, <1>2 DEF IndexInv, TypeOK, getIndexBytes_before
<1>4. ASSUME NEW k \in 0..(len - 1), k > middle - 1
      PROVE  index[k] > utf
  <2>1. index[middle] <= index[k]
    BY <1>1, <1>4 DEF IndexInv, Sorted
  <2> QED
    BY <1>1, <2>1 DEF IndexInv, TypeOK, Names, getIndexBytes_before
<1>5. SearchInv'
  BY <1>1, <1>2, <1>4 DEF IndexInv, SearchInv, getIndexBytes_before
<1> QED
  BY <1>3, <1>5 DEF IndexInv, getIndexBytes_before, Correct, Sorted

\* The position found is one of the table.
LEMMA found_keeps == IndexInv /\ getIndexBytes_found => IndexInv'
<1> SUFFICES ASSUME IndexInv, getIndexBytes_found PROVE IndexInv'
  OBVIOUS
<1>1. middle \in 0..(len - 1) /\ len \in Nat
  BY MiddleInRange DEF getIndexBytes_found
<1>2. TypeOK' /\ Correct'
  BY <1>1 DEF IndexInv, TypeOK, Correct, getIndexBytes_found
<1> QED
  BY <1>2 DEF IndexInv, getIndexBytes_found, SearchInv, Sorted

\* Nothing is left to search: every entry is smaller or greater.
LEMMA missing_keeps == IndexInv /\ getIndexBytes_missing => IndexInv'
<1> SUFFICES ASSUME IndexInv, getIndexBytes_missing PROVE IndexInv'
  OBVIOUS
<1>1. TypeOK'
  BY DEF IndexInv, TypeOK, getIndexBytes_missing
<1>2. ASSUME NEW k \in 0..(len - 1)
      PROVE  index[k] # utf
  <2>1. k < first \/ k > last
    BY IndexAssumption DEF IndexInv, TypeOK, SearchInv, getIndexBytes_missing
  <2>2. index[k] < utf \/ index[k] > utf
    BY <2>1 DEF IndexInv, SearchInv, getIndexBytes_missing
  <2> QED
    BY <2>2 DEF IndexInv, TypeOK, Names
<1>3. Correct'
  BY <1>2 DEF IndexInv, Correct, getIndexBytes_missing
<1> QED
  BY <1>1, <1>3 DEF IndexInv, getIndexBytes_missing, SearchInv, Sorted

\* Every step keeps the invariant.
LEMMA IndexNext == IndexInv /\ [Next]_vars => IndexInv'
<1> SUFFICES ASSUME IndexInv, [Next]_vars PROVE IndexInv'
  OBVIOUS
<1>1. CASE Step
  BY <1>1, enter_keeps, after_keeps, before_keeps, found_keeps, missing_keeps DEF Step
<1>2. ASSUME NEW name \in Names, loadClass(name)
      PROVE  IndexInv'
  BY <1>2 DEF IndexInv, TypeOK, SearchInv, Correct, Sorted, loadClass
<1>3. CASE UNCHANGED vars
  BY <1>3 DEF IndexInv, TypeOK, SearchInv, Correct, Sorted, vars
<1> QED
  BY <1>1, <1>2, <1>3 DEF Next

\* The inductive invariant holds in every state.
THEOREM IndexInvariance == Spec => []IndexInv
BY IndexInit, IndexNext, PTL DEF Spec

\* getIndexBytes returns the bytes of the name looked up, and NULL only when
\* the table has no such name.
THEOREM LookupCorrect == Spec => []Correct
<1>1. IndexInv => Correct
  BY DEF IndexInv
<1> QED
  BY <1>1, IndexInvariance, PTL

\* getIndexBytes reads no entry outside the table.
THEOREM LookupInRange == Spec => []InRange
<1>1. IndexInv => InRange
  BY MiddleInRange DEF InRange
<1> QED
  BY <1>1, IndexInvariance, PTL

\* The range searched shrinks with every comparison.
THEOREM LookupShrinks == Spec => Shrinks
<1>1. IndexInv /\ [Next]_vars =>
        [pc = "loop" /\ pc' = "loop" => last' - first' < last - first]_vars
  <2> SUFFICES ASSUME IndexInv, Next, pc = "loop", pc' = "loop"
               PROVE  last' - first' < last - first
    OBVIOUS
  <2>1. getIndexBytes_after \/ getIndexBytes_before
    BY DEF Next, Step, getIndexBytes_enter, getIndexBytes_found, getIndexBytes_missing, loadClass
  <2>2. /\ middle \in first..last
        /\ first \in Int /\ last \in Int
    BY <2>1, MiddleInRange DEF IndexInv, TypeOK, getIndexBytes_after, getIndexBytes_before
  <2> QED
    BY <2>1, <2>2 DEF getIndexBytes_after, getIndexBytes_before
<1> QED
  BY <1>1, IndexInvariance, PTL DEF Spec, Shrinks

-----------------------------------------------------------------------------
(* libexjavald. *)

\* The mutex is held by the thread inside ndrxj_lib_init and by no other; the
\* pointers before the loop variable are set; the flag says that all are.
Mutex ==
    \A t \in Threads : (at[t] \in {"open", "map", "out", "fail"}) <=> (M_lib_init_lock = t)

Resolving ==
    \A t \in Threads :
        /\ at[t] \in {"open", "map", "fail"} => ~M_lib_init
        /\ at[t] = "map" => i[t] > 0 /\ \A f \in Funcs : f < i[t] => f \in funcptr
        /\ at[t] = "out" => M_lib_init

Resolved == M_lib_init => Funcs \subseteq funcptr

Running ==
    \A t \in Threads :
        /\ at[t] = "call" => M_lib_init
        /\ at[t] \in {"call", "thrown"} => fn[t] # 0
        /\ at[t] \in {"idle", "class", "fields", "release"} => fn[t] = 0

LibInv == LibTypeOK /\ Mutex /\ Resolving /\ Resolved /\ Running

\* The invariant holds before the library is used.
LEMMA InitInv == LibInit => LibInv
<1> SUFFICES ASSUME LibInit PROVE LibInv
  OBVIOUS
<1>1. LibTypeOK
  <2>1. at \in [Threads -> Places]
    BY DEF LibInit, PointersInit, CachesInit, Places
  <2>2. fn \in [Threads -> 0..NFuncs] /\ i \in [Threads -> Nat]
    BY LibraryAssumption DEF LibInit, PointersInit, CachesInit
  <2>3. clazz \in [Classes -> {"null", "local", "weak", "dead"}]
    BY DEF LibInit, PointersInit, CachesInit
  <2> QED BY <2>1, <2>2, <2>3, Zenon DEF LibInit, PointersInit, CachesInit, LibTypeOK
<1>2. Mutex
  BY LibraryAssumption, Zenon DEF LibInit, PointersInit, CachesInit, Mutex
<1>3. Resolving /\ Resolved /\ Running
  BY DEF LibInit, PointersInit, CachesInit, Resolving, Resolved, Running
<1> QED BY <1>1, <1>2, <1>3 DEF LibInv

\* Every step preserves the types.
LEMMA StepType == LibTypeOK /\ [LibNext]_libvars => LibTypeOK'
<1> SUFFICES ASSUME LibTypeOK, [LibNext]_libvars PROVE LibTypeOK'
  OBVIOUS
<1>0. 0 \in 0..NFuncs
  BY LibraryAssumption
<1> USE LibraryAssumption DEF LibTypeOK, Funcs, Classes, Places
<1>1. ASSUME NEW t \in Threads, Stub(t) PROVE LibTypeOK'
  BY <1>1 DEF Stub, stub, Goto
<1>2. ASSUME NEW t \in Threads, stub_return(t) PROVE LibTypeOK'
  BY <1>2 DEF stub_return, Leave, Goto
<1>3. ASSUME NEW t \in Threads, LibStep(t) PROVE LibTypeOK'
  <2>1. CASE lib_init_lock(t)
    BY <2>1 DEF lib_init_lock, Goto
  <2>2. CASE lib_init_dlopen(t)
    <3>1. at' \in [Threads -> Places]
      BY <2>2, Zenon DEF lib_init_dlopen, Goto
    <3>2. i' \in [Threads -> Nat]
      BY <2>2 DEF lib_init_dlopen
    <3> QED BY <2>2, <3>1, <3>2 DEF lib_init_dlopen
  <2>3. CASE lib_init_dlsym(t)
    <3>1. at' \in [Threads -> Places]
      BY <2>3, Zenon DEF lib_init_dlsym, Goto
    <3>2. i' \in [Threads -> Nat]
      <4>1. i' = i \/ i' = [i EXCEPT ![t] = i[t] + 1]
        BY <2>3 DEF lib_init_dlsym
      <4>2. i[t] + 1 \in Nat
        OBVIOUS
      <4> QED BY <4>1, <4>2, Zenon
    <3>3. funcptr' \subseteq Funcs
      BY <2>3, Zenon DEF lib_init_dlsym
    <3> QED BY <2>3, <3>1, <3>2, <3>3 DEF lib_init_dlsym
  <2>4. CASE lib_init_done(t)
    BY <2>4 DEF lib_init_done, Goto
  <2>5. CASE lib_init_out(t)
    BY <2>5 DEF lib_init_out, Goto
  <2>6. CASE lib_init_fail(t)
    <3>1. at' \in [Threads -> Places]
      BY <2>6, Zenon DEF lib_init_fail, Leave, Goto
    <3>2. i' \in [Threads -> Nat]
      <4>1. i' = i \/ i' = [i EXCEPT ![t] = 0]
        BY <2>6 DEF lib_init_fail, Leave
      <4> QED BY <4>1
    <3>3. fn' \in [Threads -> 0..NFuncs]
      <4>1. fn' = fn \/ fn' = [fn EXCEPT ![t] = 0]
        BY <2>6 DEF lib_init_fail, Leave
      <4> QED BY <4>1, <1>0, SMTT(30), Zenon
    <3> QED BY <2>6, <3>1, <3>2, <3>3, SMTT(30), Zenon DEF lib_init_fail
  <2> QED BY <1>3, <2>1, <2>2, <2>3, <2>4, <2>5, <2>6, SMTT(30), Zenon DEF LibStep
<1>4. ASSUME NEW t \in Threads, JNI_OnLoad(t) PROVE LibTypeOK'
  BY <1>4 DEF JNI_OnLoad, Goto
<1>5. ASSUME NEW t \in Threads, CachesStep(t) PROVE LibTypeOK'
  <2>1. ASSUME NEW found \in BOOLEAN, caches_class(t, found) PROVE LibTypeOK'
    <3>1. at' \in [Threads -> Places]
      BY <2>1 DEF caches_class, OnLoadFails, Leave, Goto
    <3>2. i' \in [Threads -> Nat]
      <4>1. CASE found
        <5>1. i' = [i EXCEPT ![t] = i[t] + 1]
          BY <2>1, <4>1 DEF caches_class
        <5> QED BY <5>1
      <4>2. CASE ~found
        <5>1. i' = [i EXCEPT ![t] = 0]
          BY <2>1, <4>2 DEF caches_class, OnLoadFails, Leave
        <5> QED BY <5>1
      <4> QED BY <4>1, <4>2
    <3>5. fn' \in [Threads -> 0..NFuncs]
      <4>1. fn' = fn \/ fn' = [fn EXCEPT ![t] = 0]
        BY <2>1 DEF caches_class, OnLoadFails, Leave
      <4> QED BY <4>1, <1>0, Zenon
    <3>3. clazz' \in [Classes -> {"null", "local", "weak", "dead"}]
      BY <2>1, Zenon DEF caches_class, OnLoadFails, Dead
    <3> QED BY <2>1, <3>1, <3>2, <3>3, <3>5 DEF caches_class
  <2>2. CASE caches_methods(t)
    <3>1. at' \in [Threads -> Places]
      BY <2>2, Zenon DEF caches_methods, OnLoadFails, Leave, Goto
    <3>2. i' \in [Threads -> Nat]
      <4>1. i' = i \/ i' = [i EXCEPT ![t] = 0]
        BY <2>2 DEF caches_methods, OnLoadFails, Leave
      <4> QED BY <4>1
    <3>5. fn' \in [Threads -> 0..NFuncs]
      <4>1. fn' = fn \/ fn' = [fn EXCEPT ![t] = 0]
        BY <2>2 DEF caches_methods, OnLoadFails, Leave
      <4> QED BY <4>1, <1>0, Zenon
    <3>3. clazz' \in [Classes -> {"null", "local", "weak", "dead"}]
      BY <2>2 DEF caches_methods, OnLoadFails, Dead
    <3>4. members' \subseteq Members
      BY <2>2, Zenon DEF caches_methods, Members
    <3> QED BY <2>2, <3>1, <3>2, <3>3, <3>4, <3>5 DEF caches_methods
  <2>4. CASE caches_fields(t)
    <3>1. at' \in [Threads -> Places]
      BY <2>4, Zenon DEF caches_fields, OnLoadFails, Leave, Goto
    <3>2. i' \in [Threads -> Nat]
      <4>1. i' = i \/ i' = [i EXCEPT ![t] = 0]
        BY <2>4 DEF caches_fields, OnLoadFails, Leave
      <4> QED BY <4>1
    <3>5. fn' \in [Threads -> 0..NFuncs]
      <4>1. fn' = fn \/ fn' = [fn EXCEPT ![t] = 0]
        BY <2>4 DEF caches_fields, OnLoadFails, Leave
      <4> QED BY <4>1, <1>0, Zenon
    <3>3. clazz' \in [Classes -> {"null", "local", "weak", "dead"}]
      BY <2>4 DEF caches_fields, OnLoadFails, Dead
    <3>4. members' \subseteq Members
      BY <2>4, Zenon DEF caches_fields, Members
    <3> QED BY <2>4, <3>1, <3>2, <3>3, <3>4, <3>5 DEF caches_fields
  <2>3. CASE caches_release(t)
    BY <2>3 DEF caches_release, Dead, Leave, Goto
  <2> QED BY <1>5, <2>1, <2>2, <2>3, <2>4, SMTT(30), Zenon DEF CachesStep
<1>6. CASE JNI_OnUnload
  BY <1>6, Zenon DEF JNI_OnUnload
<1>7. CASE UNCHANGED libvars
  BY <1>7 DEF libvars
<1> QED BY <1>1, <1>2, <1>3, <1>4, <1>5, <1>6, <1>7 DEF LibNext

\* Every step of ndrxj_lib_init, and every other, keeps the mutex with the
\* thread inside.
LEMMA StepMutex == LibTypeOK /\ Mutex /\ [LibNext]_libvars => Mutex'
<1> SUFFICES ASSUME LibTypeOK, Mutex, [LibNext]_libvars PROVE Mutex'
  OBVIOUS
<1> USE LibraryAssumption DEF LibTypeOK, Mutex
<1>1. ASSUME NEW t \in Threads, Stub(t) PROVE Mutex'
  BY <1>1 DEF Stub, stub, Goto
<1>2. ASSUME NEW t \in Threads, stub_return(t) PROVE Mutex'
  BY <1>2 DEF stub_return, Leave, Goto
<1>3. ASSUME NEW t \in Threads, LibStep(t) PROVE Mutex'
  <2>1. CASE lib_init_lock(t)
    BY <2>1 DEF lib_init_lock, Goto
  <2>2. CASE lib_init_dlopen(t)
    BY <2>2 DEF lib_init_dlopen, Goto
  <2>3. CASE lib_init_dlsym(t)
    BY <2>3 DEF lib_init_dlsym, Goto
  <2>4. CASE lib_init_done(t)
    BY <2>4 DEF lib_init_done, Goto
  <2>5. CASE lib_init_out(t)
    BY <2>5 DEF lib_init_out, Goto
  <2>6. CASE lib_init_fail(t)
    BY <2>6 DEF lib_init_fail, Leave, Goto
  <2> QED BY <1>3, <2>1, <2>2, <2>3, <2>4, <2>5, <2>6 DEF LibStep
<1>4. ASSUME NEW t \in Threads, JNI_OnLoad(t) PROVE Mutex'
  BY <1>4 DEF JNI_OnLoad, Goto
<1>5. ASSUME NEW t \in Threads, CachesStep(t) PROVE Mutex'
  <2>1. ASSUME NEW found \in BOOLEAN, caches_class(t, found) PROVE Mutex'
    BY <2>1 DEF caches_class, OnLoadFails, Leave, Goto
  <2>2. CASE caches_methods(t)
    BY <2>2 DEF caches_methods, OnLoadFails, Leave, Goto
  <2>4. CASE caches_fields(t)
    BY <2>4 DEF caches_fields, OnLoadFails, Leave, Goto
  <2>3. CASE caches_release(t)
    BY <2>3 DEF caches_release, Leave, Goto
  <2> QED BY <1>5, <2>1, <2>2, <2>3, <2>4 DEF CachesStep
<1>6. CASE JNI_OnUnload
  BY <1>6 DEF JNI_OnUnload
<1>7. CASE UNCHANGED libvars
  BY <1>7, SMTT(30), Zenon DEF libvars
<1> QED BY <1>1, <1>2, <1>3, <1>4, <1>5, <1>6, <1>7 DEF LibNext

\* The rest of the invariant, one action at a time.
Rest == Resolving /\ Resolved /\ Running

\* Every step keeps the pointers behind the loop variable and behind the flag.
LEMMA StepRest == LibInv /\ [LibNext]_libvars => Rest'
<1> SUFFICES ASSUME LibInv, [LibNext]_libvars PROVE Rest'
  OBVIOUS
<1> USE LibraryAssumption DEF LibInv, LibTypeOK, Mutex, Resolving, Resolved, Running, Rest, Funcs
<1>1. ASSUME NEW t \in Threads, Stub(t) PROVE Rest'
  BY <1>1 DEF Stub, stub, Goto
<1>2. ASSUME NEW t \in Threads, stub_return(t) PROVE Rest'
  BY <1>2 DEF stub_return, Leave, Goto
<1>3. ASSUME NEW t \in Threads, LibStep(t) PROVE Rest'
  <2>1. CASE lib_init_lock(t)
    BY <2>1 DEF lib_init_lock, Goto
  <2>2. CASE lib_init_dlopen(t)
    BY <2>2 DEF lib_init_dlopen, Goto
  <2>3. CASE lib_init_dlsym(t)
    BY <2>3 DEF lib_init_dlsym, Goto
  <2>4. CASE lib_init_done(t)
    BY <2>4 DEF lib_init_done, Goto
  <2>5. CASE lib_init_out(t)
    BY <2>5 DEF lib_init_out, Goto
  <2>6. CASE lib_init_fail(t)
    BY <2>6 DEF lib_init_fail, Leave, Goto
  <2> QED BY <1>3, <2>1, <2>2, <2>3, <2>4, <2>5, <2>6, Zenon DEF LibStep
<1>4. ASSUME NEW t \in Threads, JNI_OnLoad(t) PROVE Rest'
  BY <1>4 DEF JNI_OnLoad, Goto
<1>5. ASSUME NEW t \in Threads, CachesStep(t) PROVE Rest'
  <2>1. ASSUME NEW found \in BOOLEAN, caches_class(t, found) PROVE Rest'
    BY <2>1 DEF caches_class, OnLoadFails, Leave, Goto
  <2>2. CASE caches_methods(t)
    BY <2>2 DEF caches_methods, OnLoadFails, Leave, Goto
  <2>4. CASE caches_fields(t)
    BY <2>4 DEF caches_fields, OnLoadFails, Leave, Goto
  <2>3. CASE caches_release(t)
    BY <2>3 DEF caches_release, Leave, Goto
  <2> QED BY <1>5, <2>1, <2>2, <2>3, <2>4, Zenon DEF CachesStep
<1>6. CASE JNI_OnUnload
  BY <1>6 DEF JNI_OnUnload
<1>7. CASE UNCHANGED libvars
  BY <1>7 DEF libvars
<1> QED BY <1>1, <1>2, <1>3, <1>4, <1>5, <1>6, <1>7 DEF LibNext

\* Type correctness, for every state of the library.
THEOREM LibraryTypeCorrect == LibSpec => []LibTypeOK
<1>1. LibInit => LibTypeOK
  BY InitInv DEF LibInv
<1> QED BY <1>1, StepType, PTL DEF LibSpec

\* The invariant holds whenever stubs, loads and unloads interleave.
LEMMA LibInvariant == LibSpec => []LibInv
<1>1. LibInv /\ [LibNext]_libvars => LibInv'
  BY StepType, StepMutex, StepRest DEF LibInv, Rest
<1> QED BY <1>1, InitInv, PTL DEF LibSpec

\* A stub never calls through a null pointer: NoNullCall for any number of
\* threads and functions.
THEOREM StubsResolved == LibSpec => []NoNullCall
<1>1. LibInv => NoNullCall
  BY LibraryAssumption DEF LibInv, LibTypeOK, Resolved, Running, NoNullCall, Funcs
<1> QED BY <1>1, LibInvariant, PTL

-----------------------------------------------------------------------------
(* The class cache. *)

\* One thread at a time is inside JNI_OnLoad; what its loops have passed is
\* filled in, and stays so until the library is unloaded.
Filling ==
    /\ loaded => \A t \in Threads : ~InOnLoad(t)
    /\ \A t, u \in Threads : InOnLoad(t) /\ InOnLoad(u) => t = u
    /\ \A t \in Threads :
          /\ at[t] = "class" => i[t] > 0 /\ \A c \in Global : c < i[t] => clazz[c] = "weak"
          /\ at[t] \in {"fields", "release"} => \A c \in Global : clazz[c] = "weak"
          /\ at[t] = "fields" => "methods" \in members
          /\ at[t] = "release" => members = Members
    /\ CacheWhole

\* A loop variable of ndrxj_caches_load behind the table has passed every
\* class.
LEMMA LoopPassed ==
    ASSUME NEW n \in Nat, n > 0, n \notin Classes
    PROVE  \A c \in Global : c < n
  BY LibraryAssumption DEF Classes

\* The caches are empty at first.
LEMMA InitFilling == LibInit => Filling
  BY DEF LibInit, PointersInit, CachesInit, Filling, CacheWhole, InOnLoad

\* A step inside JNI_OnLoad keeps Filling if the one thread inside has filled
\* what its place says.
LEMMA OnlyLoader ==
    ASSUME NEW t \in Threads, loaded' = FALSE,
           \A u \in Threads \ {t} : ~InOnLoad(u)',
           \/ at'[t] = "idle"
           \/ at'[t] = "fields" /\ "methods" \in members' /\ \A c \in Global : clazz'[c] = "weak"
           \/ at'[t] = "release" /\ members' = Members /\ \A c \in Global : clazz'[c] = "weak",
           \A u \in Threads \ {t} : at'[u] \notin {"class", "fields", "release"}
    PROVE  Filling'
  BY Zenon DEF Filling, CacheWhole, InOnLoad

\* Every step of JNI_OnLoad fills what its loops have passed; no other
\* step takes anything out.
LEMMA StepFilling == LibInv /\ Filling /\ [LibNext]_libvars => Filling'
<1> SUFFICES ASSUME LibInv, Filling, [LibNext]_libvars PROVE Filling'
  OBVIOUS
<1> USE LibraryAssumption DEF LibInv, LibTypeOK, Running, Filling, CacheWhole, InOnLoad
<1>1. ASSUME NEW t \in Threads, Stub(t) PROVE Filling'
  BY <1>1 DEF Stub, stub, Goto, Funcs
<1>2. ASSUME NEW t \in Threads, stub_return(t) PROVE Filling'
  BY <1>2 DEF stub_return, Leave, Goto
<1>3. ASSUME NEW t \in Threads, LibStep(t) PROVE Filling'
  <2>1. CASE lib_init_lock(t)
    BY <2>1 DEF lib_init_lock, Goto
  <2>2. CASE lib_init_dlopen(t)
    BY <2>2 DEF lib_init_dlopen, Goto
  <2>3. CASE lib_init_dlsym(t)
    BY <2>3 DEF lib_init_dlsym, Goto
  <2>4. CASE lib_init_done(t)
    BY <2>4 DEF lib_init_done, Goto
  <2>5. CASE lib_init_out(t)
    BY <2>5 DEF lib_init_out, Goto
  <2>6. CASE lib_init_fail(t)
    BY <2>6 DEF lib_init_fail, Leave, Goto
  <2> QED BY <1>3, <2>1, <2>2, <2>3, <2>4, <2>5, <2>6, Zenon DEF LibStep
<1>4. ASSUME NEW t \in Threads, JNI_OnLoad(t) PROVE Filling'
  BY <1>4 DEF JNI_OnLoad, Goto
<1>5. ASSUME NEW t \in Threads, CachesStep(t) PROVE Filling'
  <2>1. ASSUME NEW found \in BOOLEAN, caches_class(t, found) PROVE Filling'
    <3>1. /\ at[t] = "class" /\ loaded' = loaded /\ members' = members
          /\ \A u \in Threads \ {t} : at'[u] = at[u] /\ fn'[u] = fn[u]
      BY <2>1 DEF caches_class, OnLoadFails, Leave, Goto
    <3>2. loaded = FALSE /\ \A u \in Threads \ {t} : ~InOnLoad(u)
      BY <3>1
    <3>3. CASE found
      <4>1. /\ at' = at /\ fn' = fn /\ i' = [i EXCEPT ![t] = i[t] + 1]
            /\ clazz' = [clazz EXCEPT ![i[t]] = IF i[t] \in Global THEN "weak" ELSE "local"]
            /\ i[t] \in Classes
        BY <2>1, <3>3 DEF caches_class
      <4>2. \A c \in Global : c < i'[t] => clazz'[c] = "weak"
        BY <3>1, <4>1 DEF Classes
      <4> QED BY <3>1, <3>2, <4>1, <4>2
    <3>4. CASE ~found
      <4>1. at'[t] = "idle"
        BY <2>1, <3>4, SMTT(30), Zenon DEF caches_class, OnLoadFails, Leave, Goto
      <4> QED BY <3>1, <3>2, <4>1
    <3> QED BY <3>3, <3>4, Zenon
  <2>2. CASE caches_methods(t)
    <3>1. /\ at[t] = "class" /\ i[t] \notin Classes /\ loaded' = loaded
          /\ \A u \in Threads \ {t} : at'[u] = at[u] /\ fn'[u] = fn[u]
      BY <2>2, SMTT(30), Zenon DEF caches_methods, OnLoadFails, Leave, Goto
    <3>2. loaded = FALSE /\ \A u \in Threads \ {t} : ~InOnLoad(u)
      BY <3>1
    <3>3. \/ at'[t] = "idle"
          \/ at'[t] = "fields" /\ "methods" \in members' /\ clazz' = clazz
      BY <2>2 DEF caches_methods, OnLoadFails, Leave, Goto
    <3>4. \A c \in Global : clazz[c] = "weak"
      <4>1. i[t] \in Nat /\ i[t] > 0 /\ i[t] \notin Classes
        BY <3>1
      <4>2. \A c \in Global : c < i[t] => clazz[c] = "weak"
        BY <3>1
      <4>3. \A c \in Global : c < i[t]
        BY <4>1, LoopPassed, Zenon
      <4> QED BY <4>2, <4>3, Zenon
    <3>5. \A u \in Threads \ {t} : /\ ~InOnLoad(u)'
                                  /\ at'[u] \notin {"class", "fields", "release"}
      BY <3>1, <3>2, ZenonT(30)
    <3>6. /\ loaded' = FALSE
          /\ at'[t] = "fields" => \A c \in Global : clazz'[c] = "weak"
      BY <3>1, <3>2, <3>3, <3>4, Zenon
    <3> QED BY <3>3, <3>5, <3>6, OnlyLoader, ZenonT(30)
  <2>3. CASE caches_fields(t)
    <3>1. /\ at[t] = "fields" /\ loaded' = loaded
          /\ \A u \in Threads \ {t} : at'[u] = at[u] /\ fn'[u] = fn[u]
      BY <2>3 DEF caches_fields, OnLoadFails, Leave, Goto
    <3>2. loaded = FALSE /\ \A u \in Threads \ {t} : ~InOnLoad(u)
      BY <3>1
    <3>3. \/ at'[t] = "idle"
          \/ at'[t] = "release" /\ members' = members \cup {"fields"} /\ clazz' = clazz
      BY <2>3 DEF caches_fields, OnLoadFails, Leave, Goto
    <3>4. at'[t] = "release" => members' = Members
      BY <3>1, <3>3, ZenonT(30) DEF Members
    <3>5. \A u \in Threads \ {t} : /\ ~InOnLoad(u)'
                                  /\ at'[u] \notin {"class", "fields", "release"}
      BY <3>1, <3>2, ZenonT(30)
    <3>6. /\ loaded' = FALSE
          /\ at'[t] = "release" => \A c \in Global : clazz'[c] = "weak"
      BY <3>1, <3>2, <3>3, Zenon
    <3> QED BY <3>3, <3>4, <3>5, <3>6, OnlyLoader, ZenonT(30)
  <2>4. CASE caches_release(t)
    BY <2>4 DEF caches_release, Dead, Leave, Goto, Classes
  <2> QED BY <1>5, <2>1, <2>2, <2>3, <2>4, Zenon DEF CachesStep
<1>6. CASE JNI_OnUnload
  BY <1>6 DEF JNI_OnUnload
<1>7. CASE UNCHANGED libvars
  BY <1>7 DEF libvars
<1> QED BY <1>1, <1>2, <1>3, <1>4, <1>5, <1>6, <1>7, Zenon DEF LibNext

\* After JNI_OnLoad has succeeded every id is set and every kept class is held:
\* CacheWhole for any number of threads and classes, whatever failed before.
THEOREM CacheComplete == LibSpec => []CacheWhole
<1>1. Filling => CacheWhole
  BY DEF Filling
<1> QED BY <1>1, InitFilling, StepFilling, LibInvariant, PTL DEF LibSpec

-----------------------------------------------------------------------------
(* The refinement: every step is a step of the contract or changes nothing   *)
(* that the contract sees.                                                   *)

\* A library that is not loaded is a contract that is not up.
LEMMA ContractInit == LibInit => Contract!Init
  BY DEF LibInit, PointersInit, CachesInit, Contract!Init, Request

CStep == Contract!Next \/ UNCHANGED <<M_lib_init, Request>>

\* Only the request of thread t changes.
LEMMA OtherRequests ==
    ASSUME NEW t \in Threads, LibTypeOK, LibTypeOK',
           \A u \in Threads \ {t} : at'[u] = at[u] /\ fn'[u] = fn[u]
    PROVE  Request' = [Request EXCEPT ![t] = Request'[t]]
  BY ZenonT(30) DEF Request

\* The request of a thread, by the place it is at.
LEMMA RequestAt ==
    ASSUME NEW t \in Threads
    PROVE  /\ fn[t] = 0 => Request[t] = None
           /\ fn[t] # 0 /\ at[t] = "call" => Request[t] = [fn |-> fn[t], st |-> "running"]
           /\ fn[t] # 0 /\ at[t] = "thrown" => Request[t] = [fn |-> fn[t], st |-> "failed"]
           /\ fn[t] # 0 /\ at[t] \notin {"call", "thrown"}
                 => Request[t] = [fn |-> fn[t], st |-> "asked"]
  BY DEF Request

\* A step of t that leaves its request and the flag alone.
LEMMA Silent ==
    ASSUME NEW t \in Threads, LibTypeOK, LibTypeOK',
           \A u \in Threads \ {t} : at'[u] = at[u] /\ fn'[u] = fn[u],
           Request'[t] = Request[t], M_lib_init' = M_lib_init
    PROVE  CStep
<1>1. Request' = [Request EXCEPT ![t] = Request[t]]
  BY OtherRequests
<1>2. Request = [Request EXCEPT ![t] = Request[t]]
  BY DEF Request
<1> QED BY <1>1, <1>2 DEF CStep

\* The entry of a stub asks, or asks and runs at once.
LEMMA StubContract ==
    ASSUME LibInv, LibTypeOK', NEW t \in Threads, Stub(t)
    PROVE  CStep
<1> PICK f \in Funcs : stub(t, f)
  BY DEF Stub
<1>1. /\ at[t] = "idle" /\ fn[t] = 0 /\ fn'[t] = f /\ f # 0
      /\ at'[t] = (IF M_lib_init THEN "call" ELSE "lock")
      /\ M_lib_init' = M_lib_init
  BY LibraryAssumption DEF LibInv, LibTypeOK, Running, stub, Goto, Funcs
<1>2. \A u \in Threads \ {t} : at'[u] = at[u] /\ fn'[u] = fn[u]
  BY DEF LibInv, LibTypeOK, stub, Goto
<1>3. Request' = [Request EXCEPT ![t] = Request'[t]]
  BY <1>2, OtherRequests DEF LibInv
<1>4. Request[t] = None
  BY <1>1, RequestAt, Zenon
<1>5. CASE M_lib_init
  <2>1. Request'[t] = [fn |-> f, st |-> "running"]
    BY <1>1, <1>5 DEF Request
  <2>2. Contract!AskUp(t)
    BY <1>1, <1>3, <1>4, <1>5, <2>1 DEF Contract!AskUp
  <2> QED BY <2>2 DEF CStep, Contract!Next
<1>6. CASE ~M_lib_init
  <2>1. Request'[t] = [fn |-> f, st |-> "asked"]
    BY <1>1, <1>6 DEF Request
  <2>2. Contract!Ask(t)
    BY <1>1, <1>3, <1>4, <2>1 DEF Contract!Ask
  <2> QED BY <2>2 DEF CStep, Contract!Next
<1> QED BY <1>5, <1>6

\* The end of a stub is the end of the operation.
LEMMA ReturnContract ==
    ASSUME LibInv, LibTypeOK', NEW t \in Threads, stub_return(t)
    PROVE  CStep
<1>1. /\ at[t] \in {"call", "thrown"} /\ fn[t] \in Funcs /\ fn'[t] = 0
      /\ M_lib_init' = M_lib_init
  BY LibraryAssumption DEF LibInv, LibTypeOK, Running, stub_return, Leave, Funcs
<1>2. \A u \in Threads \ {t} : at'[u] = at[u] /\ fn'[u] = fn[u]
  BY DEF LibInv, LibTypeOK, stub_return, Leave, Goto
<1>3. Request' = [Request EXCEPT ![t] = Request'[t]]
  BY <1>2, OtherRequests DEF LibInv
<1>4. Request[t] \in Contract!Calls /\ Request[t].st # "asked"
  <2>1. fn[t] # 0
    BY <1>1, LibraryAssumption DEF Funcs
  <2>2. CASE at[t] = "call"
    <3>1. Request[t] = [fn |-> fn[t], st |-> "running"]
      BY <2>1, <2>2, RequestAt, Zenon
    <3> QED BY <1>1, <3>1 DEF Contract!Calls
  <2>3. CASE at[t] = "thrown"
    <3>1. Request[t] = [fn |-> fn[t], st |-> "failed"]
      BY <2>1, <2>3, RequestAt, Zenon
    <3> QED BY <1>1, <3>1 DEF Contract!Calls
  <2> QED BY <1>1, <2>2, <2>3
<1>5. Request'[t] = None
  BY <1>1 DEF Request
<1>6. Contract!Return(t)
  BY <1>1, <1>3, <1>4, <1>5 DEF Contract!Return
<1> QED BY <1>6 DEF CStep, Contract!Next

\* The flag that ndrxj_lib_init sets opens the contract; it runs or fails the
\* operation that waits, and changes nothing else the contract sees.
LEMMA LibStepContract ==
    ASSUME LibInv, LibTypeOK', NEW t \in Threads, LibStep(t)
    PROVE  CStep
<1> USE DEF LibInv
<1>1. CASE lib_init_lock(t)
  <2>1. \A u \in Threads \ {t} : at'[u] = at[u] /\ fn'[u] = fn[u]
    BY <1>1 DEF LibTypeOK, lib_init_lock, Goto
  <2>2. Request'[t] = Request[t]
    BY <1>1 DEF LibTypeOK, lib_init_lock, Goto, Request
  <2> QED BY <1>1, <2>1, <2>2, Silent DEF lib_init_lock
<1>2. CASE lib_init_dlopen(t)
  <2>1. \A u \in Threads \ {t} : at'[u] = at[u] /\ fn'[u] = fn[u]
    BY <1>2 DEF LibTypeOK, lib_init_dlopen, Goto
  <2>2. Request'[t] = Request[t]
    BY <1>2 DEF LibTypeOK, lib_init_dlopen, Goto, Request
  <2> QED BY <1>2, <2>1, <2>2, Silent DEF lib_init_dlopen
<1>3. CASE lib_init_dlsym(t)
  <2>1. \A u \in Threads \ {t} : at'[u] = at[u] /\ fn'[u] = fn[u]
    BY <1>3 DEF LibTypeOK, lib_init_dlsym, Goto
  <2>2. Request'[t] = Request[t]
    BY <1>3 DEF LibTypeOK, lib_init_dlsym, Goto, Request
  <2> QED BY <1>3, <2>1, <2>2, Silent DEF lib_init_dlsym
<1>4. CASE lib_init_done(t)
  <2>1. \A u \in Threads \ {t} : at'[u] = at[u] /\ fn'[u] = fn[u]
    BY <1>4 DEF LibTypeOK, lib_init_done, Goto
  <2>2. Request'[t] = Request[t]
    BY <1>4 DEF LibTypeOK, lib_init_done, Goto, Request
  <2>3. Request' = Request
    BY <2>1, <2>2 DEF Request
  <2>4. Contract!Open
    BY <1>4, <2>3 DEF lib_init_done, Resolving, Contract!Open
  <2> QED BY <2>4 DEF CStep, Contract!Next
<1>5. CASE lib_init_out(t)
  <2>1. \A u \in Threads \ {t} : at'[u] = at[u] /\ fn'[u] = fn[u]
    BY <1>5, SMTT(30), Zenon DEF LibTypeOK, lib_init_out, Goto
  <2>2. CASE fn[t] = 0
    <3>1. Request'[t] = Request[t]
      BY <1>5, <2>2 DEF LibTypeOK, lib_init_out, Goto, Request
    <3> QED BY <1>5, <2>1, <3>1, Silent DEF lib_init_out
  <2>3. CASE fn[t] # 0
    <3>1. Request' = [Request EXCEPT ![t] = Request'[t]]
      BY <2>1, OtherRequests
    <3>2. M_lib_init /\ M_lib_init' = M_lib_init /\ fn[t] \in Funcs /\ fn'[t] = fn[t]
      BY <1>5, <2>3, LibraryAssumption DEF LibTypeOK, lib_init_out, Resolving, Funcs
    <3>3. Request[t] = [fn |-> fn[t], st |-> "asked"]
      BY <1>5, <2>3, RequestAt, Zenon DEF lib_init_out
    <3>4. Request'[t] = [fn |-> fn[t], st |-> "running"]
      BY <1>5, <2>3, <3>2 DEF LibTypeOK, lib_init_out, Goto, Request
    <3>5. Contract!Run(t)
      BY <3>1, <3>2, <3>3, <3>4 DEF Contract!Run, Contract!Calls
    <3> QED BY <3>5 DEF CStep, Contract!Next
  <2> QED BY <2>2, <2>3
<1>6. CASE lib_init_fail(t)
  <2>1. \A u \in Threads \ {t} : at'[u] = at[u] /\ fn'[u] = fn[u]
    BY <1>6 DEF LibTypeOK, lib_init_fail, Leave, Goto
  <2>2. CASE fn[t] = 0
    <3>1. Request'[t] = Request[t]
      BY <1>6, <2>2 DEF LibTypeOK, lib_init_fail, Leave, Request
    <3> QED BY <1>6, <2>1, <3>1, Silent, Zenon DEF lib_init_fail
  <2>3. CASE fn[t] # 0
    <3>1. Request' = [Request EXCEPT ![t] = Request'[t]]
      BY <2>1, OtherRequests
    <3>2. ~M_lib_init /\ M_lib_init' = M_lib_init /\ fn[t] \in Funcs /\ fn'[t] = fn[t]
      BY <1>6, <2>3, LibraryAssumption DEF LibTypeOK, lib_init_fail, Resolving, Funcs
    <3>3. Request[t] = [fn |-> fn[t], st |-> "asked"]
      BY <1>6, <2>3, RequestAt, Zenon DEF lib_init_fail
    <3>4. Request'[t] = [fn |-> fn[t], st |-> "failed"]
      BY <1>6, <2>3, <3>2 DEF LibTypeOK, lib_init_fail, Goto, Request
    <3>5. Contract!Fail(t)
      BY <3>1, <3>2, <3>3, <3>4 DEF Contract!Fail, Contract!Calls
    <3> QED BY <3>5 DEF CStep, Contract!Next
  <2> QED BY <2>2, <2>3
<1> QED BY <1>1, <1>2, <1>3, <1>4, <1>5, <1>6, SMTT(30), Zenon DEF LibStep

\* Filling the class cache is not seen by the contract.
LEMMA CachesContract ==
    ASSUME LibInv, LibTypeOK', NEW t \in Threads, JNI_OnLoad(t) \/ CachesStep(t)
    PROVE  CStep
<1> USE DEF LibInv
<1>1. fn[t] = 0 /\ fn'[t] = 0 /\ M_lib_init' = M_lib_init
  <2>1. CASE JNI_OnLoad(t)
    BY <2>1 DEF LibTypeOK, Running, JNI_OnLoad
  <2>2. ASSUME NEW found \in BOOLEAN, caches_class(t, found)
        PROVE fn[t] = 0 /\ fn'[t] = 0 /\ M_lib_init' = M_lib_init
    BY <2>2 DEF LibTypeOK, Running, caches_class, OnLoadFails, Leave
  <2>3. CASE caches_methods(t)
    BY <2>3 DEF LibTypeOK, Running, caches_methods, OnLoadFails, Leave
  <2>5. CASE caches_fields(t)
    BY <2>5 DEF LibTypeOK, Running, caches_fields, OnLoadFails, Leave
  <2>4. CASE caches_release(t)
    BY <2>4 DEF LibTypeOK, Running, caches_release, Leave
  <2> QED BY <2>1, <2>2, <2>3, <2>4, <2>5 DEF CachesStep
<1>2. \A u \in Threads \ {t} : at'[u] = at[u] /\ fn'[u] = fn[u]
  <2>1. CASE JNI_OnLoad(t)
    BY <2>1 DEF LibTypeOK, JNI_OnLoad, Goto
  <2>2. ASSUME NEW found \in BOOLEAN, caches_class(t, found)
        PROVE \A u \in Threads \ {t} : at'[u] = at[u] /\ fn'[u] = fn[u]
    BY <2>2 DEF LibTypeOK, caches_class, OnLoadFails, Leave, Goto
  <2>3. CASE caches_methods(t)
    BY <2>3 DEF LibTypeOK, caches_methods, OnLoadFails, Leave, Goto
  <2>5. CASE caches_fields(t)
    BY <2>5 DEF LibTypeOK, caches_fields, OnLoadFails, Leave, Goto
  <2>4. CASE caches_release(t)
    BY <2>4 DEF LibTypeOK, caches_release, Leave, Goto
  <2> QED BY <2>1, <2>2, <2>3, <2>4, <2>5, Zenon DEF CachesStep
<1>3. Request'[t] = Request[t]
  BY <1>1 DEF Request
<1> QED BY <1>1, <1>2, <1>3, Silent

\* Every step is a step of the contract or not seen by it.
LEMMA StepContract == LibInv /\ LibInv' /\ [LibNext]_libvars => CStep
<1> SUFFICES ASSUME LibInv, LibInv', [LibNext]_libvars PROVE CStep
  OBVIOUS
<1>1. LibTypeOK'
  BY DEF LibInv
<1>2. CASE UNCHANGED libvars
  BY <1>2 DEF libvars, CStep, Request
<1>3. ASSUME NEW t \in Threads,
             Stub(t) \/ stub_return(t) \/ LibStep(t) \/ JNI_OnLoad(t) \/ CachesStep(t)
      PROVE  CStep
  BY <1>1, <1>3, StubContract, ReturnContract, LibStepContract, CachesContract
<1>4. CASE JNI_OnUnload
  <2>1. Request' = Request
    BY <1>4 DEF JNI_OnUnload, Request
  <2>2. CASE M_lib_init
    <3>1. Request = [t \in Threads |-> None]
      BY <1>4 DEF LibInv, Running, JNI_OnUnload, Request
    <3>2. Contract!Close
      BY <1>4, <2>1, <2>2, <3>1 DEF JNI_OnUnload, Contract!Close
    <3> QED BY <3>2 DEF CStep, Contract!Next
  <2>3. CASE ~M_lib_init
    <3>1. M_lib_init = FALSE
      BY <2>3 DEF LibInv, LibTypeOK
    <3> QED BY <1>4, <2>1, <3>1, Zenon DEF JNI_OnUnload, CStep
  <2> QED BY <2>2, <2>3
<1> QED BY <1>2, <1>3, <1>4 DEF LibNext

\* libexjavald implements its contract, for any number of threads and
\* functions: no native method fails while the flag is set, none runs otherwise.
THEOREM LibraryImplements == LibSpec => KeepsContract
<1>1. LibInv /\ LibInv' /\ [LibNext]_libvars => [Contract!Next]_<<M_lib_init, Request>>
  BY StepContract DEF CStep
<1> QED BY <1>1, ContractInit, LibInvariant, PTL DEF LibSpec, KeepsContract, Contract!Spec

-----------------------------------------------------------------------------
(* The process takes steps of its two halves. *)

\* The names of the classes that ndrxj_caches_load looks up are names.
LEMMA NamesOfClasses == MainClass \in Names /\ AtmiCtx \in Names /\ Classes \subseteq Names
  BY IndexAssumption, ProcessAssumption, LibraryAssumption DEF MainClass, AtmiCtx, Names, Classes

\* A look-up begins, goes on or ends as in ClassIndex.
LEMMA BeginFindStep ==
    ASSUME NEW t, NEW name \in Names, BeginFind(t, name)
    PROVE  [Next]_vars
  BY DEF BeginFind, Next, indexvars

\* What the loader does to its search, whoever asked.
LEMMA ProcessIndexStep == [ProcessNext]_procvars => [Next]_vars
<1> SUFFICES ASSUME [ProcessNext]_procvars PROVE [Next]_vars
  OBVIOUS
<1>1. CASE UNCHANGED indexvars
  BY <1>1 DEF indexvars
<1>2. CASE GetVm \/ get_static_handler \/ main_returns \/ get_xa_switch \/ xa_init \/ Unload
  BY <1>1, <1>2, Zenon DEF GetVm, getvm_config, getvm_option, getvm_classpath, getvm_create, getvm_fails,
     create_loader_class, create_loader_natives, build_classpath_urls, create_loader_object,
     create_loader_fails, get_static_handler, EndFind, main_returns, get_xa_switch, xa_init, Unload
<1>3. CASE run_ldr_main
  BY <1>3, NamesOfClasses, BeginFindStep DEF run_ldr_main
<1>4. CASE Search
  BY <1>4 DEF Search, Next
<1>5. ASSUME NEW t \in Threads, Classload(t)
      PROVE  [Next]_vars
  <2>1. CASE AtmiCtx_find(t)
    BY <2>1, NamesOfClasses, BeginFindStep DEF AtmiCtx_find
  <2>2. CASE caches_find(t)
    BY <2>2, NamesOfClasses, BeginFindStep DEF caches_find
  <2>3. CASE AtmiCtx_clinit(t) \/ AtmiCtx_missing(t) \/ AtmiCtx_done(t) \/ TypedBuffer_clinit(t) \/ caches_found(t)
    BY <1>1, <2>3, Zenon DEF AtmiCtx_clinit, AtmiCtx_missing, AtmiCtx_done, TypedBuffer_clinit,
       caches_found, EndFind
  <2> QED BY <1>5, <2>1, <2>2, <2>3 DEF Classload
<1>6. ASSUME NEW t \in Threads,
             \/ Library(t) \/ Throw(t) \/ Return(t)
             \/ xa_info_entry(t) \/ xa_info_call(t) \/ xa_info_out(t)
      PROVE  [Next]_vars
  BY <1>1, <1>6, Zenon DEF Library, Throw, Return, xa_info_entry, xa_info_call, xa_info_out
<1>7. CASE UNCHANGED procvars
  BY <1>1, <1>7 DEF procvars
<1> QED BY <1>2, <1>3, <1>4, <1>5, <1>6, <1>7, Zenon DEF ProcessNext

\* What the process does to the library, whichever thread asks for it.
LEMMA ProcessLibraryStep == [ProcessNext]_procvars => [LibNext]_libvars
<1> SUFFICES ASSUME [ProcessNext]_procvars PROVE [LibNext]_libvars
  OBVIOUS
<1>1. CASE UNCHANGED libvars
  BY <1>1
<1>2. CASE \/ GetVm \/ run_ldr_main \/ get_static_handler \/ main_returns \/ get_xa_switch
           \/ xa_init \/ Search
  BY <1>1, <1>2, Zenon DEF GetVm, getvm_config, getvm_option, getvm_classpath, getvm_create, getvm_fails,
     create_loader_class, create_loader_natives, build_classpath_urls, create_loader_object,
     create_loader_fails, run_ldr_main, get_static_handler, main_returns, get_xa_switch, xa_init, Search
<1>3. CASE Unload
  BY <1>3, Zenon DEF Unload, LibNext
<1>4. ASSUME NEW t \in Threads, Classload(t)
      PROVE  [LibNext]_libvars
  <2>1. CASE AtmiCtx_find(t) \/ AtmiCtx_missing(t) \/ AtmiCtx_done(t) \/ caches_find(t)
    BY <1>1, <2>1, Zenon DEF AtmiCtx_find, AtmiCtx_missing, AtmiCtx_done, caches_find
  <2>2. CASE AtmiCtx_clinit(t) \/ TypedBuffer_clinit(t)
    BY <2>2, Zenon DEF AtmiCtx_clinit, TypedBuffer_clinit, LibNext
  <2>3. CASE caches_found(t)
    <3>1. Found \in BOOLEAN
      BY DEF Found
    <3>2. \E found \in BOOLEAN : caches_class(t, found)
      BY <2>3, <3>1, Zenon DEF caches_found
    <3> QED BY <3>2, Zenon DEF CachesStep, LibNext
  <2> QED BY <1>4, <2>1, <2>2, <2>3, Zenon DEF Classload
<1>5. ASSUME NEW t \in Threads, Library(t)
      PROVE  [LibNext]_libvars
  BY <1>5, Zenon DEF Library, CachesStep, LibNext
<1>6. ASSUME NEW t \in Threads, Throw(t) \/ xa_info_entry(t) \/ xa_info_call(t) \/ xa_info_out(t)
      PROVE  [LibNext]_libvars
  BY <1>1, <1>6, Zenon DEF Throw, xa_info_entry, xa_info_call, xa_info_out
<1>7. ASSUME NEW t \in Threads, Return(t)
      PROVE  [LibNext]_libvars
  BY <1>7, Zenon DEF Return, LibNext
<1>8. CASE UNCHANGED procvars
  BY <1>1, <1>8 DEF procvars
<1> QED BY <1>2, <1>3, <1>4, <1>5, <1>6, <1>7, <1>8, Zenon DEF ProcessNext

\* The class loader of the process is the ClassIndex of its table, whatever
\* the start of the process, the library and other threads do in between.
THEOREM ProcessSearches == ProcessSpec => Spec
<1>1. ProcessInit => Init
  BY DEF ProcessInit
<1> QED BY <1>1, ProcessIndexStep, PTL DEF ProcessSpec, Spec

\* The library in the process is the NativeLibrary: class loading, exceptions
\* and XA entries add no behaviour to it.
THEOREM ProcessLoads == ProcessSpec => LibSpec
<1>1. ProcessInit => LibInit
  BY DEF ProcessInit
<1> QED BY <1>1, ProcessLibraryStep, PTL DEF ProcessSpec, LibSpec

\* In the process getIndexBytes returns the bytes of the class asked for.
THEOREM ProcessFindsRight == ProcessSpec => []Correct
BY ProcessSearches, LookupCorrect, PTL

\* In the process no stub calls through a null pointer.
THEOREM ProcessStubsResolved == ProcessSpec => []NoNullCall
BY ProcessLoads, StubsResolved, PTL

\* In the process the class cache is whole once JNI_OnLoad has succeeded, also
\* when FindClass in the middle of it went through the class loader's search.
THEOREM ProcessCacheComplete == ProcessSpec => []CacheWhole
BY ProcessLoads, CacheComplete, PTL

\* In the process the library keeps its contract.
THEOREM ProcessKeepsContract == ProcessSpec => KeepsContract
BY ProcessLoads, LibraryImplements, PTL

-----------------------------------------------------------------------------
(* Exceptions. *)

\* Every entry of the cache has the ids its class needs; only a native function
\* throws, so nobody holds an entry when the library is unloaded.
ThrowInv ==
    /\ ExcTypeOK
    /\ \A x \in cache : Needed(x.cls) \subseteq x.ids
    /\ \A t \in Threads : thr[t] # "none" => at[t] = "call"
    /\ \A t \in Threads : thr[t] \in {"find", "add"} => want[t] # None
    /\ ThrowsRequested

\* Nothing is thrown at first.
LEMMA ThrowInit == ProcessInit => ThrowInv
<1> SUFFICES ASSUME ProcessInit PROVE ThrowInv
  OBVIOUS
<1>1. ExcTypeOK
  BY Zenon DEF ProcessInit, ExcInit, ExcTypeOK
<1>2. cache = {} /\ \A t \in Threads : thr[t] = "none"
  BY DEF ProcessInit, ExcInit
<1> QED BY <1>1, <1>2 DEF ThrowInv, ThrowsRequested

\* The library moves threads, but none that is in a native function.
LEMMA ThrowersStay ==
    ASSUME ThrowInv, UNCHANGED excvars,
           \A t \in Threads : at[t] = "call" => at'[t] = "call"
    PROVE  ThrowInv'
<1>1. ExcTypeOK'
  BY DEF ThrowInv, ExcTypeOK, excvars
<1>2. ThrowsRequested'
  BY SMTT(30), Zenon DEF ThrowInv, ThrowsRequested, excvars
<1> QED BY <1>1, <1>2, SMTT(30), Zenon DEF ThrowInv, excvars

\* Thread t looks its class up in the cache.
LEMMA GetKeeps ==
    ASSUME ThrowInv, NEW t \in Threads, NEW e \in Excs, caches_get(t, e), at[t] = "call", at' = at
    PROVE  ThrowInv'
<1> USE DEF ThrowInv
<1>1. /\ cache' = cache /\ aborted' = aborted
      /\ want' = [want EXCEPT ![t] = e]
      /\ \/ thr' = [thr EXCEPT ![t] = "find"] /\ held' = held
         \/ \E x \in cache : /\ x.cls = e
                             /\ held' = [held EXCEPT ![t] = x]
                             /\ thr' = [thr EXCEPT ![t] = "new"]
  BY DEF caches_get
<1>2. ExcTypeOK'
  <2>1. thr' \in [Threads -> {"none", "find", "add", "new", "thrown"}]
    BY <1>1 DEF ExcTypeOK
  <2>2. want' \in [Threads -> Excs \cup {None}]
    BY <1>1 DEF ExcTypeOK
  <2>3. held' \in [Threads -> Entries \cup {None}]
    BY <1>1 DEF ExcTypeOK
  <2> QED BY <1>1, <2>1, <2>2, <2>3 DEF ExcTypeOK
<1>3. \A u \in Threads \ {t} : thr'[u] = thr[u] /\ want'[u] = want[u] /\ held'[u] = held[u]
  BY <1>1 DEF ExcTypeOK
<1>4. want'[t] = e /\ e # None
  BY <1>1, ExceptionAssumption DEF ExcTypeOK
<1>5. thr'[t] = "new" => held'[t] \in cache /\ held'[t].cls = e
  BY <1>1, SMTT(30), Zenon DEF ExcTypeOK
<1>6. ThrowsRequested'
  <2>1. ASSUME NEW u \in Threads \ {t}, thr'[u] = "new"
        PROVE  /\ held'[u] \in cache' /\ held'[u].cls = want'[u]
               /\ Needed(want'[u]) \subseteq held'[u].ids
    BY <1>1, <1>3, <2>1, Zenon DEF ThrowsRequested
  <2>2. ASSUME thr'[t] = "new"
        PROVE  /\ held'[t] \in cache' /\ held'[t].cls = want'[t]
               /\ Needed(want'[t]) \subseteq held'[t].ids
    <3>1. held'[t] \in cache /\ held'[t].cls = e /\ want'[t] = e
      BY <1>4, <1>5, <2>2, Zenon
    <3>2. Needed(e) \subseteq held'[t].ids
      BY <3>1, Zenon
    <3> QED BY <1>1, <3>1, <3>2, Zenon
  <2> QED BY <2>1, <2>2, Zenon DEF ThrowsRequested
<1>7. \A u \in Threads : thr'[u] # "none" => at'[u] = "call"
  BY <1>3
<1>8. \A u \in Threads : thr'[u] \in {"find", "add"} => want'[u] # None
  BY <1>3, <1>4, SMTT(30), Zenon
<1> QED BY <1>1, <1>2, <1>6, <1>7, <1>8, SMTT(30), Zenon

\* The cache only grows: what others hold stays in it.
LEMMA AddKeeps ==
    ASSUME ThrowInv, NEW t \in Threads, caches_add(t), at' = at
    PROVE  ThrowInv'
<1> USE DEF ThrowInv
<1> DEFINE x == [cls |-> want[t], by |-> t, ids |-> Needed(want[t])]
<1>0. cache' = cache \cup {x}
  BY Zenon DEF caches_add
<1>1. /\ thr[t] = "add" /\ cache' = cache \cup {x} /\ held' = [held EXCEPT ![t] = x]
      /\ thr' = [thr EXCEPT ![t] = "new"] /\ want' = want /\ aborted' = aborted
  BY Zenon DEF caches_add
<1>2. want[t] \in Excs
  BY <1>1, SMTT(30), Zenon DEF ExcTypeOK
<1>3. Needed(want[t]) \in SUBSET {"mid1", "fid1", "fid2"}
  BY SMTT(30), Zenon DEF Needed
<1>4. x \in Entries /\ x.cls = want[t] /\ x.ids = Needed(want[t])
  BY <1>2, <1>3 DEF Entries
<1> HIDE DEF x
<1>5. ExcTypeOK'
  <2>1. cache' \subseteq Entries
    BY <1>1, <1>4 DEF ExcTypeOK
  <2>2. held' \in [Threads -> Entries \cup {None}]
    BY <1>1, <1>4 DEF ExcTypeOK
  <2>3. thr' \in [Threads -> {"none", "find", "add", "new", "thrown"}]
    BY <1>1, Zenon DEF ExcTypeOK
  <2> QED BY <1>1, <2>1, <2>2, <2>3, Zenon DEF ExcTypeOK
<1>6. \A u \in Threads \ {t} : thr'[u] = thr[u] /\ held'[u] = held[u]
  BY <1>1, SMTT(30), Zenon DEF ExcTypeOK
<1>7. thr'[t] = "new" /\ held'[t] = x
  BY <1>1 DEF ExcTypeOK
<1>8. ThrowsRequested'
  <2>1. /\ held'[t] \in cache' /\ held'[t].cls = want'[t]
        /\ Needed(want'[t]) \subseteq held'[t].ids
    <3>1. x \in cache' /\ want'[t] = want[t]
      BY <1>1, Zenon
    <3> QED BY <1>4, <1>7, <3>1, Zenon
  <2>2. ASSUME NEW u \in Threads \ {t}, thr'[u] = "new"
        PROVE  /\ held'[u] \in cache' /\ held'[u].cls = want'[u]
               /\ Needed(want'[u]) \subseteq held'[u].ids
    <3>1. thr[u] = "new" /\ held'[u] = held[u] /\ want'[u] = want[u]
      BY <1>1, <1>6, <2>2, Zenon
    <3>2. held[u] \in cache /\ held[u].cls = want[u] /\ Needed(want[u]) \subseteq held[u].ids
      BY <3>1, Zenon DEF ThrowsRequested
    <3>3. held'[u] \in cache'
      <4>1. cache \subseteq cache'
        BY <1>0, Zenon
      <4> QED BY <3>1, <3>2, <4>1, Zenon
    <3>4. held'[u].cls = want'[u]
      BY <3>1, <3>2, Zenon
    <3>5. Needed(want'[u]) \subseteq held'[u].ids
      BY <3>1, <3>2, Zenon
    <3> QED BY <3>3, <3>4, <3>5, ZenonT(30)
  <2> QED BY <2>1, <2>2, ZenonT(30) DEF ThrowsRequested
<1>9. \A y \in cache' : Needed(y.cls) \subseteq y.ids
  BY <1>1, <1>4, SMTT(30), Zenon
<1>10. \A u \in Threads : /\ thr'[u] # "none" => at'[u] = "call"
                          /\ thr'[u] \in {"find", "add"} => want'[u] # None
  BY <1>1, <1>6, <1>7, SMTT(30), Zenon
<1> QED BY <1>5, <1>8, <1>9, <1>10

\* The other steps of a throw: the class is found, the process aborts, the
\* exception is made.
LEMMA ThrowMoves ==
    ASSUME ThrowInv, NEW t \in Threads, at' = at, UNCHANGED <<cache, want, held>>, aborted' \in BOOLEAN,
           \/ thr' = thr
           \/ thr[t] = "find" /\ thr' = [thr EXCEPT ![t] = "add"]
           \/ at[t] = "call" /\ thr' = [thr EXCEPT ![t] = "thrown"]
    PROVE  ThrowInv'
<1> USE DEF ThrowInv
<1>1. thr' \in [Threads -> {"none", "find", "add", "new", "thrown"}]
  BY SMTT(30), Zenon DEF ExcTypeOK
<1>2. ExcTypeOK'
  BY <1>1, SMTT(30), Zenon DEF ExcTypeOK
<1>3. \A u \in Threads : \/ thr'[u] = thr[u]
                         \/ u = t /\ thr[t] = "find" /\ thr'[u] = "add"
                         \/ u = t /\ at[t] = "call" /\ thr'[u] = "thrown"
  BY SMTT(30), Zenon DEF ExcTypeOK
<1>4. ThrowsRequested'
  BY <1>3, SMTT(30), Zenon DEF ThrowsRequested
<1>5. \A u \in Threads : /\ thr'[u] # "none" => at'[u] = "call"
                         /\ thr'[u] \in {"find", "add"} => want'[u] # None
  BY <1>3
<1> QED BY <1>2, <1>4, <1>5, SMTT(30), Zenon

\* A native function returns: its throw is over.
LEMMA ReturnKeeps ==
    ASSUME ThrowInv, LibTypeOK, NEW t \in Threads, Return(t)
    PROVE  ThrowInv'
<1> USE DEF ThrowInv
<1>1. \A u \in Threads \ {t} : at'[u] = at[u]
  BY Zenon DEF Return, stub_return, Leave, Goto, LibTypeOK
<1>2. CASE thr[t] = "none" /\ UNCHANGED excvars
  <2>1. ExcTypeOK' /\ ThrowsRequested'
    BY <1>2 DEF excvars, ExcTypeOK, ThrowsRequested
  <2>2. \A u \in Threads : thr'[u] # "none" => at'[u] = "call"
    BY <1>1, <1>2 DEF excvars
  <2> QED BY <1>2, <2>1, <2>2, Zenon DEF excvars
<1>3. CASE throw_return(t)
  <2>1. /\ cache' = cache /\ aborted' = aborted /\ thr' = [thr EXCEPT ![t] = "none"]
        /\ want' = [want EXCEPT ![t] = None] /\ held' = [held EXCEPT ![t] = None]
    BY <1>3, ZenonT(30) DEF throw_return
  <2>2. ExcTypeOK'
    BY <2>1, SMTT(30), Zenon DEF ExcTypeOK
  <2>3. /\ thr'[t] = "none"
        /\ \A u \in Threads \ {t} : thr'[u] = thr[u] /\ want'[u] = want[u] /\ held'[u] = held[u]
    BY <2>1, SMTT(30), Zenon DEF ExcTypeOK
  <2>4. ThrowsRequested'
    <3>1. ASSUME NEW u \in Threads, thr'[u] = "new"
          PROVE  /\ held'[u] \in cache' /\ held'[u].cls = want'[u]
                 /\ Needed(want'[u]) \subseteq held'[u].ids
      <4>1. u # t
        BY <2>3, <3>1, Zenon
      <4>2. thr[u] = "new" /\ held'[u] = held[u] /\ want'[u] = want[u] /\ cache' = cache
        BY <2>1, <2>3, <3>1, <4>1, Zenon
      <4>3. held[u] \in cache /\ held[u].cls = want[u] /\ Needed(want[u]) \subseteq held[u].ids
        BY <4>2, Zenon DEF ThrowsRequested
      <4> QED BY <4>2, <4>3, Zenon
    <3> QED BY <3>1, Zenon DEF ThrowsRequested
  <2>5. \A u \in Threads : /\ thr'[u] # "none" => at'[u] = "call"
                           /\ thr'[u] \in {"find", "add"} => want'[u] # None
    BY <1>1, <2>3, Zenon
  <2> QED BY <2>1, <2>2, <2>4, <2>5, Zenon
<1> QED BY <1>2, <1>3, Zenon DEF Return

\* The library is unloaded when nobody throws.
LEMMA UnloadKeeps ==
    ASSUME ThrowInv, Unload
    PROVE  ThrowInv'
<1> USE DEF ThrowInv
<1>1. cache' = {} /\ UNCHANGED <<thr, want, held, aborted>> /\ at' = at
  BY Zenon DEF Unload, caches_unload, JNI_OnUnload
<1>2. \A t \in Threads : thr[t] = "none"
  BY SMTT(30), Zenon DEF Unload, JNI_OnUnload
<1>3. ExcTypeOK'
  BY <1>1 DEF ExcTypeOK
<1> QED BY <1>1, <1>2, <1>3 DEF ThrowsRequested

\* No step of the library takes a thread out of a native function, but its
\* return.
LEMMA CallStays ==
    ASSUME LibTypeOK, NEW t \in Threads, NEW u \in Threads, at[u] = "call",
           \/ Stub(t) \/ LibStep(t) \/ JNI_OnLoad(t) \/ CachesStep(t)
           \/ at[t] = "thrown" /\ stub_return(t)
    PROVE  at'[u] = "call"
<1> USE DEF LibTypeOK, Goto, Leave
<1>1. CASE Stub(t)
  BY <1>1 DEF Stub, stub
<1>2. CASE LibStep(t)
  BY <1>2, Zenon DEF LibStep, lib_init_lock, lib_init_dlopen, lib_init_dlsym, lib_init_done, lib_init_out, lib_init_fail
<1>3. CASE JNI_OnLoad(t)
  BY <1>3 DEF JNI_OnLoad
<1>4. CASE CachesStep(t)
  BY <1>4, Zenon DEF CachesStep, caches_class, caches_methods, caches_fields, caches_release, OnLoadFails
<1>5. CASE at[t] = "thrown" /\ stub_return(t)
  BY <1>5 DEF stub_return
<1> QED BY <1>1, <1>2, <1>3, <1>4, <1>5

\* Each step of the process keeps what a throw relies on.
LEMMA ThrowNext == ThrowInv /\ LibTypeOK /\ [ProcessNext]_procvars => ThrowInv'
<1> SUFFICES ASSUME ThrowInv, LibTypeOK, [ProcessNext]_procvars PROVE ThrowInv'
  OBVIOUS
<1>1. CASE UNCHANGED <<libvars, excvars>>
  <2>1. UNCHANGED excvars /\ at' = at
    BY <1>1 DEF libvars
  <2> QED BY <2>1, ThrowersStay
<1>2. CASE \/ GetVm \/ run_ldr_main \/ get_static_handler \/ main_returns \/ get_xa_switch
           \/ xa_init \/ Search
  BY <1>1, <1>2, Zenon DEF GetVm, getvm_config, getvm_option, getvm_classpath, getvm_create, getvm_fails,
     create_loader_class, create_loader_natives, build_classpath_urls, create_loader_object,
     create_loader_fails, run_ldr_main, get_static_handler, main_returns, get_xa_switch, xa_init, Search
<1>3. CASE Unload
  BY <1>3, UnloadKeeps
<1>4. ASSUME NEW t \in Threads, Classload(t)
      PROVE  ThrowInv'
  <2>1. CASE AtmiCtx_find(t) \/ AtmiCtx_missing(t) \/ AtmiCtx_done(t) \/ caches_find(t)
    BY <1>1, <2>1, Zenon DEF AtmiCtx_find, AtmiCtx_missing, AtmiCtx_done, caches_find
  <2>2. CASE AtmiCtx_clinit(t) \/ TypedBuffer_clinit(t)
    <3>1. JNI_OnLoad(t) /\ UNCHANGED excvars
      BY <2>2, Zenon DEF AtmiCtx_clinit, TypedBuffer_clinit
    <3> QED BY <3>1, CallStays, ThrowersStay, Zenon
  <2>3. CASE caches_found(t)
    <3>1. Found \in BOOLEAN
      BY DEF Found
    <3>2. CachesStep(t) /\ UNCHANGED excvars
      BY <2>3, <3>1, Zenon DEF caches_found, CachesStep
    <3> QED BY <3>2, CallStays, ThrowersStay, Zenon
  <2> QED BY <1>4, <2>1, <2>2, <2>3, Zenon DEF Classload
<1>5. ASSUME NEW t \in Threads, Library(t)
      PROVE  ThrowInv'
  <2>1. /\ UNCHANGED excvars
        /\ \/ Stub(t) \/ LibStep(t) \/ CachesStep(t)
           \/ at[t] = "thrown" /\ stub_return(t)
    BY <1>5, Zenon DEF Library, CachesStep
  <2> QED BY <2>1, CallStays, ThrowersStay, Zenon
<1>6. ASSUME NEW t \in Threads, Throw(t)
      PROVE  ThrowInv'
  <2>1. at[t] = "call" /\ at' = at
    BY <1>6 DEF Throw, libvars
  <2>2. CASE ndrxj_atmi_throw(t) \/ ndrxj_ubf_throw(t)
    <3>1. PICK e \in Excs : caches_get(t, e)
      BY <2>2, ExceptionAssumption DEF ndrxj_atmi_throw, ndrxj_ubf_throw
    <3> QED BY <2>1, <3>1, GetKeeps
  <2>3. CASE caches_add(t)
    BY <2>1, <2>3, AddKeeps
  <2>4. CASE throw_find(t) \/ caches_add_fail(t) \/ throw_new(t) \/ ndrxj_nullptr_throw(t)
    <3>1. aborted' \in BOOLEAN /\ UNCHANGED <<cache, want, held>>
      BY <2>4, Zenon DEF throw_find, caches_add_fail, throw_new, ndrxj_nullptr_throw, abort, ThrowInv, ExcTypeOK
    <3>2. \/ thr' = thr
          \/ thr[t] = "find" /\ thr' = [thr EXCEPT ![t] = "add"]
          \/ at[t] = "call" /\ thr' = [thr EXCEPT ![t] = "thrown"]
      BY <2>1, <2>4 DEF throw_find, caches_add_fail, throw_new, ndrxj_nullptr_throw, abort
    <3> QED BY <2>1, <3>1, <3>2, ThrowMoves
  <2> QED BY <1>6, <2>2, <2>3, <2>4, Zenon DEF Throw, ThrowStep
<1>7. ASSUME NEW t \in Threads, Return(t)
      PROVE  ThrowInv'
  BY <1>7, ReturnKeeps
<1>8. ASSUME NEW t \in Threads, xa_info_entry(t) \/ xa_info_call(t) \/ xa_info_out(t)
      PROVE  ThrowInv'
  BY <1>1, <1>8, Zenon DEF xa_info_entry, xa_info_call, xa_info_out
<1>9. CASE UNCHANGED procvars
  BY <1>1, <1>9 DEF procvars
<1> QED BY <1>2, <1>3, <1>4, <1>5, <1>6, <1>7, <1>8, <1>9, Zenon DEF ProcessNext

\* The types of the library and of the throws hold together.
LEMMA ThrowInvariant == ProcessSpec => []ThrowInv
BY ProcessLoads, LibraryTypeCorrect, ThrowInit, ThrowNext, PTL DEF ProcessSpec

\* Whichever threads throw at once, and whichever of them has added the entry:
\* an exception is made from an entry of the class of the error, still in the
\* cache and with every id that the throw function uses.
THEOREM ProcessThrowsRequested == ProcessSpec => []ThrowsRequested
<1>1. ThrowInv => ThrowsRequested
  BY SMTT(30), Zenon DEF ThrowInv
<1> QED BY <1>1, ThrowInvariant, PTL

-----------------------------------------------------------------------------
(* The start of the process and the XA entries. *)

\* Only tmsrv opens a switch, and it does so with the library loaded; its class
\* loader is never collected, so every entry finds the ids.
StartInv ==
    /\ boot \in {"context", "serving"} => form = "tmsrv"
    /\ boot = "serving" => loaded
    /\ ctxInit = "ok" => loaded
    /\ \A t \in Threads : xa[t] # "out" => xaMid[t] = "set"
    /\ xa \in [Threads -> {"out", "alloc", "java"}]
    /\ xaMid \in [Threads -> {"null", "set"}]

\* Nothing is served at first.
LEMMA StartInit == ProcessInit => StartInv
  BY DEF ProcessInit, StartInv

\* Steps that leave the switch alone and do not unload the library.
LEMMA StartStays ==
    ASSUME StartInv, UNCHANGED xavars, form' = form, boot' = boot \/ boot' \notin {"context", "serving"},
           ctxInit' = ctxInit \/ (ctxInit' = "ok" => loaded'),
           loaded => loaded'
    PROVE  StartInv'
  BY DEF StartInv, xavars

\* Only JNI_OnUnload resets what JNI_OnLoad has set.
LEMMA LoadedStays ==
    ASSUME NEW t \in Threads, loaded,
           \/ Stub(t) \/ stub_return(t) \/ LibStep(t) \/ JNI_OnLoad(t) \/ CachesStep(t)
    PROVE  loaded'
  BY Zenon DEF Stub, stub, stub_return, LibStep, lib_init_lock, lib_init_dlopen, lib_init_dlsym, lib_init_done,
     lib_init_out, lib_init_fail, JNI_OnLoad, CachesStep, caches_class, caches_methods, caches_fields,
     caches_release

\* Each step of the process keeps this.
LEMMA StartNext == StartInv /\ CacheWhole /\ [ProcessNext]_procvars => StartInv'
<1> SUFFICES ASSUME StartInv, CacheWhole, [ProcessNext]_procvars PROVE StartInv'
  OBVIOUS
<1>1. CASE GetVm \/ run_ldr_main \/ get_static_handler \/ main_returns \/ Search
  <2>1. UNCHANGED <<xavars, form, libvars, ctxInit>>
    BY <1>1, Zenon DEF GetVm, getvm_config, getvm_option, getvm_classpath, getvm_create, getvm_fails,
       create_loader_class, create_loader_natives, build_classpath_urls, create_loader_object,
       create_loader_fails, run_ldr_main, get_static_handler, main_returns, Search, startvars, classvars
  <2>2. boot' = boot \/ boot' \notin {"context", "serving"}
    BY <1>1, Zenon DEF GetVm, getvm_config, getvm_option, getvm_classpath, getvm_create, getvm_fails,
       create_loader_class, create_loader_natives, build_classpath_urls, create_loader_object,
       create_loader_fails, run_ldr_main, get_static_handler, main_returns, Search
  <2>3. loaded' = loaded
    BY <2>1, SMTT(30), Zenon DEF libvars
  <2> QED BY <2>1, <2>2, <2>3, StartStays
<1>2. CASE get_xa_switch \/ xa_init
  BY <1>2 DEF get_xa_switch, xa_init, StartInv, startvars, libvars, classvars, xavars
<1>3. CASE Unload
  BY <1>3 DEF Unload, StartInv, startvars, xavars
<1>4. ASSUME NEW t \in Threads, Classload(t)
      PROVE  StartInv'
  <2>1. UNCHANGED <<xavars, form>>
    BY <1>4, Zenon DEF Classload, AtmiCtx_find, AtmiCtx_missing, AtmiCtx_done, caches_find,
       AtmiCtx_clinit, TypedBuffer_clinit, caches_found, startvars
  <2>2. loaded => loaded'
    <3>1. CASE AtmiCtx_find(t) \/ AtmiCtx_missing(t) \/ AtmiCtx_done(t) \/ caches_find(t)
      BY <3>1, Zenon DEF AtmiCtx_find, AtmiCtx_missing, AtmiCtx_done, caches_find, libvars
    <3>2. CASE AtmiCtx_clinit(t) \/ TypedBuffer_clinit(t)
      BY <3>2, LoadedStays, Zenon DEF AtmiCtx_clinit, TypedBuffer_clinit
    <3>3. CASE caches_found(t)
      <4>1. loaded' = loaded
        BY <3>3, Zenon DEF caches_found, caches_class
      <4> QED BY <4>1
    <3> QED BY <1>4, <3>1, <3>2, <3>3, Zenon DEF Classload
  <2>3. boot' = boot \/ boot' \notin {"context", "serving"}
    BY <1>4, Zenon DEF Classload, AtmiCtx_find, AtmiCtx_missing, AtmiCtx_done, caches_find,
       AtmiCtx_clinit, TypedBuffer_clinit, caches_found
  <2>4. ctxInit' = ctxInit \/ (ctxInit' = "ok" => loaded')
    <3>1. CASE AtmiCtx_done(t)
      <4>1. ctxInit' = (IF loaded THEN "ok" ELSE "error") /\ loaded' = loaded
        BY <3>1 DEF AtmiCtx_done, libvars
      <4> QED BY <4>1
    <3>2. CASE AtmiCtx_clinit(t)
      BY <3>2 DEF AtmiCtx_clinit
    <3>3. CASE AtmiCtx_find(t) \/ AtmiCtx_missing(t) \/ TypedBuffer_clinit(t) \/ caches_find(t) \/ caches_found(t)
      BY <3>3, Zenon DEF AtmiCtx_find, AtmiCtx_missing, TypedBuffer_clinit, caches_find, caches_found, classvars
    <3> QED BY <1>4, <3>1, <3>2, <3>3, Zenon DEF Classload
  <2> QED BY <2>1, <2>2, <2>3, <2>4, StartStays
<1>5. ASSUME NEW t \in Threads, Library(t) \/ Throw(t) \/ Return(t)
      PROVE  StartInv'
  <2>1. UNCHANGED <<xavars, form, boot, ctxInit>>
    BY <1>5, Zenon DEF Library, Throw, Return, startvars, classvars
  <2>2. CASE Library(t) \/ Return(t)
    <3>1. Stub(t) \/ stub_return(t) \/ LibStep(t) \/ JNI_OnLoad(t) \/ CachesStep(t)
      BY <2>2, Zenon DEF Library, Return, CachesStep
    <3> QED BY <2>1, <3>1, LoadedStays, StartStays, Zenon
  <2>3. CASE Throw(t)
    <3>1. loaded' = loaded
      BY <2>3 DEF Throw, libvars
    <3> QED BY <2>1, <3>1, StartStays, Zenon
  <2> QED BY <1>5, <2>2, <2>3
<1>6. ASSUME NEW t \in Threads, xa_info_entry(t)
      PROVE  StartInv'
  <2>1. boot = "serving" /\ members = Members
    BY <1>6, SMTT(30), Zenon DEF xa_info_entry, StartInv, CacheWhole
  <2>2. /\ xaMid' = [xaMid EXCEPT ![t] = "set"] /\ xa' = [xa EXCEPT ![t] = "alloc"]
        /\ UNCHANGED <<form, boot, ctxInit, loaded>>
    BY <1>6, <2>1 DEF xa_info_entry, startvars, classvars, libvars
  <2> QED BY <2>2 DEF StartInv
<1>7. ASSUME NEW t \in Threads, xa_info_call(t)
      PROVE  StartInv'
  <2>1. /\ xa[t] = "alloc" /\ xa' = [xa EXCEPT ![t] = "java"]
        /\ UNCHANGED <<form, boot, ctxInit, loaded, xaMid>>
    BY <1>7 DEF xa_info_call, startvars, classvars, libvars
  <2> QED BY <2>1 DEF StartInv
<1>8. ASSUME NEW t \in Threads, xa_info_out(t)
      PROVE  StartInv'
  <2>1. /\ xaMid' = [xaMid EXCEPT ![t] = "null"] /\ xa' = [xa EXCEPT ![t] = "out"]
        /\ UNCHANGED <<form, boot, ctxInit, loaded>>
    BY <1>8, Zenon DEF xa_info_out, startvars, classvars, libvars
  <2> QED BY <2>1 DEF StartInv
<1>9. CASE UNCHANGED procvars
  BY <1>9 DEF procvars, startvars, classvars, libvars, xavars, StartInv
<1> QED BY <1>1, <1>2, <1>3, <1>4, <1>5, <1>6, <1>7, <1>8, <1>9, Zenon DEF ProcessNext

\* The switch is opened with the library loaded, and it stays so.
LEMMA StartInvariant == ProcessSpec => []StartInv
BY ProcessCacheComplete, StartInit, StartNext, PTL DEF ProcessSpec

\* No XA entry calls Java with a method id that it read before the class cache
\* was filled, although it reads the id before its thread has a context.
THEOREM ProcessMidsResolved == ProcessSpec => []MidsResolved
<1>1. StartInv => MidsResolved
  BY DEF StartInv, MidsResolved
<1> QED BY <1>1, StartInvariant, PTL

-----------------------------------------------------------------------------
(* Types. *)

\* What the process adds to the types of its parts.
StartType ==
    /\ form \in {"binary", "tmsrv", "java"} /\ path \subseteq Names
    /\ urls \in {"null", "list", "freed"}
    /\ vm \in {"none", "up", "down"}
    /\ ldrClass \in BOOLEAN /\ ldr \in BOOLEAN
    /\ boot \in {"start", "options", "create", "define", "natives", "urls", "object",
                 "ready", "find", "running", "context", "driver", "serving", "failed", "done"}

ClassType ==
    /\ finder \in Threads \cup {None} /\ known \subseteq Names
    /\ ctxInit \in {"no", "busy", "ok", "error"} /\ initBy \in Threads \cup {None}

\* The types at first.
LEMMA StartTypeInit == ProcessInit => StartType /\ ClassType
<1> SUFFICES ASSUME ProcessInit PROVE StartType /\ ClassType
  OBVIOUS
<1>1. StartType
  BY Zenon DEF ProcessInit, StartType
<1>2. ClassType
  BY DEF ProcessInit, ClassType
<1> QED BY <1>1, <1>2

\* A look-up adds the name of a class to those known.
LEMMA EndFindType ==
    ASSUME TypeOK, ClassType, NEW t \in Threads, EndFind(t)
    PROVE  finder' \in Threads \cup {None} /\ known' \subseteq Names
  BY DEF TypeOK, ClassType, EndFind

\* Each step of the process keeps the types of its start.
LEMMA StartTypeNext == StartType /\ [ProcessNext]_procvars => StartType'
<1> SUFFICES ASSUME StartType, [ProcessNext]_procvars PROVE StartType'
  OBVIOUS
<1>1. CASE UNCHANGED <<startvars, boot>>
  BY <1>1 DEF startvars, StartType
<1>2. CASE GetVm
  BY <1>2, Zenon DEF GetVm, getvm_config, getvm_option, getvm_classpath, getvm_create, getvm_fails,
     create_loader_class, create_loader_natives, build_classpath_urls, create_loader_object,
     create_loader_fails, Freed, StartType, startvars
<1>3. CASE run_ldr_main \/ get_static_handler \/ main_returns \/ get_xa_switch \/ xa_init
  BY <1>3, Zenon DEF run_ldr_main, get_static_handler, main_returns, get_xa_switch, xa_init, StartType, startvars
<1>4. CASE Search \/ Unload
  BY <1>1, <1>4, Zenon DEF Search, Unload
<1>5. ASSUME NEW t \in Threads, Classload(t)
      PROVE  StartType'
  <2>1. CASE AtmiCtx_missing(t)
    BY <2>1 DEF AtmiCtx_missing, StartType, startvars
  <2>2. CASE \/ AtmiCtx_find(t) \/ AtmiCtx_clinit(t) \/ AtmiCtx_done(t)
             \/ TypedBuffer_clinit(t) \/ caches_find(t) \/ caches_found(t)
    BY <1>1, <2>2, Zenon DEF AtmiCtx_find, AtmiCtx_clinit, AtmiCtx_done, TypedBuffer_clinit,
       caches_find, caches_found
  <2> QED BY <1>5, <2>1, <2>2, Zenon DEF Classload
<1>6. ASSUME NEW t \in Threads,
             \/ Library(t) \/ Throw(t) \/ Return(t)
             \/ xa_info_entry(t) \/ xa_info_call(t) \/ xa_info_out(t)
      PROVE  StartType'
  BY <1>1, <1>6, Zenon DEF Library, Throw, Return, xa_info_entry, xa_info_call, xa_info_out
<1>7. CASE UNCHANGED procvars
  BY <1>1, <1>7 DEF procvars
<1> QED BY <1>2, <1>3, <1>4, <1>5, <1>6, <1>7, Zenon DEF ProcessNext

\* Each step of the process keeps the types of its look-ups.
LEMMA ClassTypeNext == TypeOK /\ ClassType /\ [ProcessNext]_procvars => ClassType'
<1> SUFFICES ASSUME TypeOK, ClassType, [ProcessNext]_procvars PROVE ClassType'
  OBVIOUS
<1>1. CASE UNCHANGED classvars
  BY <1>1 DEF classvars, ClassType
<1>2. CASE GetVm \/ main_returns \/ get_xa_switch \/ xa_init \/ Search
  BY <1>1, <1>2, Zenon DEF GetVm, getvm_config, getvm_option, getvm_classpath, getvm_create, getvm_fails,
     create_loader_class, create_loader_natives, build_classpath_urls, create_loader_object,
     create_loader_fails, main_returns, get_xa_switch, xa_init, Search
<1>3. CASE run_ldr_main
  BY <1>3, ProcessAssumption DEF run_ldr_main, BeginFind, ClassType
<1>4. CASE get_static_handler
  <2>1. finder' \in Threads \cup {None} /\ known' \subseteq Names
    BY <1>4, ProcessAssumption, EndFindType DEF get_static_handler
  <2> QED BY <1>4, <2>1 DEF get_static_handler, ClassType
<1>5. CASE Unload
  BY <1>5 DEF Unload, ClassType
<1>6. ASSUME NEW t \in Threads, Classload(t)
      PROVE  ClassType'
  <2>1. CASE AtmiCtx_find(t) \/ caches_find(t)
    BY <2>1 DEF AtmiCtx_find, caches_find, BeginFind, ClassType
  <2>2. CASE AtmiCtx_clinit(t) \/ AtmiCtx_missing(t)
    <3>1. finder' \in Threads \cup {None} /\ known' \subseteq Names
      BY <2>2, EndFindType DEF AtmiCtx_clinit, AtmiCtx_missing
    <3> QED BY <2>2, <3>1 DEF AtmiCtx_clinit, AtmiCtx_missing, ClassType
  <2>3. CASE AtmiCtx_done(t)
    BY <2>3 DEF AtmiCtx_done, ClassType
  <2>4. CASE TypedBuffer_clinit(t)
    BY <1>1, <2>4, ZenonT(30) DEF TypedBuffer_clinit
  <2>5. CASE caches_found(t)
    <3>1. EndFind(t) \/ UNCHANGED <<finder, known>>
      BY <2>5, Zenon DEF caches_found
    <3>2. finder' \in Threads \cup {None} /\ known' \subseteq Names
      BY <3>1, EndFindType DEF ClassType
    <3> QED BY <2>5, <3>2 DEF caches_found, ClassType
  <2> QED BY <1>6, <2>1, <2>2, <2>3, <2>4, <2>5, ZenonT(30) DEF Classload
<1>7. ASSUME NEW t \in Threads,
             \/ Library(t) \/ Throw(t) \/ Return(t)
             \/ xa_info_entry(t) \/ xa_info_call(t) \/ xa_info_out(t)
      PROVE  ClassType'
  BY <1>1, <1>7, Zenon DEF Library, Throw, Return, xa_info_entry, xa_info_call, xa_info_out
<1>8. CASE UNCHANGED procvars
  BY <1>1, <1>8 DEF procvars
<1> QED BY <1>2, <1>3, <1>4, <1>5, <1>6, <1>7, <1>8, Zenon DEF ProcessNext

\* The variables of the whole process keep their types: a search is in the table
\* of the binary, and findLoadedClass knows only names of the process.
THEOREM ProcessTypeCorrect == ProcessSpec => []ProcessTypeOK
<1>1. IndexInv => TypeOK
  BY DEF IndexInv
<1>2. ProcessSpec => []TypeOK
  BY <1>1, ProcessSearches, IndexInvariance, PTL
<1>3. ProcessSpec => []LibTypeOK
  BY ProcessLoads, LibraryTypeCorrect, PTL
<1>4. ProcessSpec => []StartType
  BY StartTypeInit, StartTypeNext, PTL DEF ProcessSpec
<1>5. ProcessSpec => []ClassType
  BY <1>2, StartTypeInit, ClassTypeNext, PTL DEF ProcessSpec
<1>6. TypeOK /\ LibTypeOK /\ ThrowInv /\ StartInv /\ StartType /\ ClassType => ProcessTypeOK
  BY Zenon DEF ThrowInv, StartInv, StartType, ClassType, ProcessTypeOK
<1> QED BY <1>2, <1>3, <1>4, <1>5, <1>6, ThrowInvariant, StartInvariant, PTL
=============================================================================
