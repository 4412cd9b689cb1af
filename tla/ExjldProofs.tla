---------------------------- MODULE ExjldProofs ----------------------------
(***************************************************************************)
(* Proofs about the linker, for any number of workers, jars and files: a   *)
(* binary is built only from tables that nobody touches any more, without  *)
(* an error, that hold exactly the classes of the jars, and its class      *)
(* loader finds each of them.                                              *)
(***************************************************************************)
EXTENDS Exjld, FiniteSetTheorems, WellFoundedInduction, TLAPS

\* A job for x waits or is worked on.
Pending(x) == x \in queue \/ \E w \in Workers : job[w] = <<x>>

JobsOf == {<<>>} \cup {<<x>> : x \in Jars \cup Paths}

\* TypeOK, and that nothing but the workers has a job.
LinkType ==
    /\ contents \in [Jars -> SUBSET Files]
    /\ doTest \in BOOLEAN
    /\ main \in Stages
    /\ disk \in SUBSET Paths
    /\ walked \in SUBSET Paths
    /\ queue \in SUBSET (Jars \cup Paths)
    /\ job \in [Workers -> JobsOf]
    /\ found \in [Workers -> BOOLEAN]
    /\ hash \in SUBSET Paths
    /\ failed \in BOOLEAN

\* The jars are unpacked before the walk begins: a jar without a job is on the
\* disk, unless a job has failed.
Unpacked ==
    /\ \A j \in Jars : Pending(j) => main = "extract"
    /\ \A f \in Paths : Pending(f) => main # "extract"
    /\ disk \cap Files \subseteq Packed
    /\ main = "extract" => \A j \in Jars : Pending(j) \/ failed \/ contents[j] \subseteq disk
    /\ main \notin {"extract", "failed"} => Packed \subseteq disk

\* A file that the walk has reported has a job or is in a table, unless a job
\* has failed; and the walk does not end before it has reported every file.
Embedded ==
    /\ walked \subseteq disk
    /\ \A f \in Paths : Pending(f) => f \in walked
    /\ hash \subseteq walked
    /\ \A f \in walked : Pending(f) \/ f \in hash \/ failed
    /\ main \in {"jobs", "sort", "test", "final", "built"} => Packed \subseteq walked

\* The tables are read without workers and without errors.
Quiet == main \in {"sort", "test", "final", "built"} => PoolIdle /\ ~failed

LinkInv == LinkType /\ Unpacked /\ Embedded /\ Quiet

-----------------------------------------------------------------------------
(* Jobs. *)

\* Taking a job from the queue leaves it pending.
LEMMA TakePending ==
    ASSUME job \in [Workers -> JobsOf], NEW w \in Workers, NEW x, take(w, x)
    PROVE  \A y : Pending(y)' <=> Pending(y)
<1>1. job[w] = <<>> /\ x \in queue /\ queue' = queue \ {x} /\ job' = [job EXCEPT ![w] = <<x>>]
  BY DEF take
<1>2. job'[w] = <<x>> /\ \A u \in Workers \ {w} : job'[u] = job[u]
  BY <1>1
<1>3. SUFFICES ASSUME NEW y PROVE Pending(y)' <=> Pending(y)
  OBVIOUS
<1>4. CASE y = x
  BY <1>1, <1>2, <1>4 DEF Pending
<1>5. CASE y # x
  <2>1. job[w] # <<y>> /\ job'[w] # <<y>>
    BY <1>1, <1>2, <1>5
  <2>2. (\E u \in Workers : job'[u] = <<y>>) <=> (\E u \in Workers : job[u] = <<y>>)
    BY <1>2, <2>1
  <2> QED BY <1>1, <1>5, <2>2 DEF Pending
<1> QED BY <1>4, <1>5

\* The end of a job leaves the others pending, and adds none.
LEMMA FinishPending ==
    ASSUME job \in [Workers -> JobsOf], NEW w \in Workers, NEW x, Working(w, x), Finish(w),
           queue' = queue
    PROVE  /\ Pending(x)
           /\ \A y : Pending(y)' => Pending(y)
           /\ \A y : Pending(y) => Pending(y)' \/ y = x
<1>1. job[w] = <<x>> /\ job' = [job EXCEPT ![w] = <<>>]
  BY DEF Working, Finish
<1>2. job'[w] = <<>> /\ \A u \in Workers \ {w} : job'[u] = job[u]
  BY <1>1
<1>3. Pending(x)
  BY <1>1 DEF Pending
<1>4. ASSUME NEW y, Pending(y)' PROVE Pending(y)
  <2>1. CASE y \in queue
    BY <2>1 DEF Pending
  <2>2. CASE \E u \in Workers : job'[u] = <<y>>
    <3>1. PICK u \in Workers : job'[u] = <<y>>
      BY <2>2
    <3>2. u # w
      BY <1>2, <3>1
    <3> QED BY <1>2, <3>1, <3>2 DEF Pending
  <2> QED BY <1>4, <2>1, <2>2 DEF Pending
<1>5. ASSUME NEW y, Pending(y) PROVE Pending(y)' \/ y = x
  <2>1. CASE y \in queue
    BY <2>1 DEF Pending
  <2>2. CASE \E u \in Workers : job[u] = <<y>>
    <3>1. PICK u \in Workers : job[u] = <<y>>
      BY <2>2
    <3>2. CASE u = w
      BY <1>1, <3>1, <3>2
    <3>3. CASE u # w
      BY <1>2, <3>1, <3>3 DEF Pending
    <3> QED BY <3>2, <3>3
  <2> QED BY <1>5, <2>1, <2>2 DEF Pending
<1> QED BY <1>3, <1>4, <1>5

\* Nothing is pending when ndrx_thpool_wait returns, and no worker works.
LEMMA IdlePending ==
    /\ PoolIdle => \A x : ~Pending(x)
    /\ \A x : (\E w \in Workers : Working(w, x)) => ~PoolIdle
<1>1. \A x : <<x>> # <<>>
  OBVIOUS
<1> QED BY <1>1, Zenon DEF PoolIdle, Pending, Working

-----------------------------------------------------------------------------
(* Types. *)

\* The initial state has the types.
LEMMA InitType == Init => LinkType
<1> SUFFICES ASSUME Init PROVE LinkType
  OBVIOUS
<1>1. job \in [Workers -> JobsOf]
  BY DEF Init, JobsOf
<1> QED BY <1>1, Zenon DEF Init, LinkType, Stages, Paths

\* A worker has a job of its own, or none.
LEMMA FinishType ==
    ASSUME LinkType, NEW w \in Workers, Finish(w)
    PROVE  job' \in [Workers -> JobsOf] /\ found' \in [Workers -> BOOLEAN]
<1>1. <<>> \in JobsOf
  BY DEF JobsOf
<1> QED BY <1>1 DEF LinkType, Finish

\* Each step keeps the types.
LEMMA NextType == LinkType /\ [Next]_vars => LinkType'
<1> SUFFICES ASSUME LinkType, [Next]_vars PROVE LinkType'
  OBVIOUS
<1>1. ASSUME NEW w \in Workers, NEW x \in Jars \cup Paths, take(w, x)
      PROVE  LinkType'
  <2>1. <<x>> \in JobsOf
    BY DEF JobsOf
  <2> QED BY <1>1, <2>1 DEF take, LinkType
<1>2. ASSUME NEW w \in Workers, NEW j \in Jars, extract_done(w, j) \/ extract_fail(w, j)
      PROVE  LinkType'
  BY <1>2, FinishType, Zenon DEF extract_done, extract_fail, LinkType
<1>3. ASSUME NEW w \in Workers, NEW j \in Jars, NEW f \in Files, extract_file(w, j, f)
      PROVE  LinkType'
  BY <1>3 DEF extract_file, LinkType, Paths
<1>4. ASSUME NEW w \in Workers, NEW f \in Paths, res_find(w, f)
      PROVE  LinkType'
  BY <1>4 DEF res_find, LinkType
<1>5. ASSUME NEW w \in Workers, NEW f \in Paths, res_duplicate(w, f) \/ res_fail(w, f)
      PROVE  LinkType'
  BY <1>5, FinishType, Zenon DEF res_duplicate, res_fail, LinkType
<1>6. ASSUME NEW w \in Workers, NEW f \in Paths, NEW g \in Includes, res_add(w, f, g)
      PROVE  LinkType'
  BY <1>6, FinishType DEF res_add, LinkType, Paths
<1>7. ASSUME NEW f \in Paths, process_entry(f)
      PROVE  LinkType'
  BY <1>7 DEF process_entry, LinkType
<1>8. CASE extract_wait \/ class_build_hash \/ class_build_fail \/ class_build_wait
  BY <1>8 DEF extract_wait, class_build_hash, class_build_fail, class_build_wait, LinkType, Stages
<1>9. CASE res_sort
  BY <1>9 DEF res_sort, LinkType, Stages
<1>10. CASE codegen_test \/ codegen_final \/ codegen_fail
  BY <1>10 DEF codegen_test, codegen_final, codegen_fail, LinkType, Stages
<1>11. CASE UNCHANGED vars
  BY <1>11 DEF vars, LinkType
<1> QED BY <1>1, <1>2, <1>3, <1>4, <1>5, <1>6, <1>7, <1>8, <1>9, <1>10, <1>11, Zenon
        DEF Next, Work, Main, exit

-----------------------------------------------------------------------------
(* Unpacking. *)

\* The jars only.
LEMMA InitUnpacked == Init => Unpacked
<1> SUFFICES ASSUME Init PROVE Unpacked
  OBVIOUS
<1>1. \A x : Pending(x) <=> x \in Jars
  <2>1. \A x : <<x>> # <<>>
    OBVIOUS
  <2> QED BY <2>1 DEF Init, Pending
<1>2. Jars \cap Paths = {}
  BY LinkAssumption DEF Paths
<1> QED BY <1>1, <1>2 DEF Init, Unpacked

\* Steps that leave the disk alone, and the jars and errors as they are.
LEMMA UnpackedStays ==
    ASSUME Unpacked, UNCHANGED <<contents, disk>>, failed => failed',
           main' = main \/ (main # "extract" /\ main' \in Stages \ {"extract"} /\ main # "failed"),
           \A j \in Jars : Pending(j)' => Pending(j),
           \A j \in Jars : Pending(j) => Pending(j)' \/ failed' \/ contents[j] \subseteq disk,
           \A f \in Paths : Pending(f)' => Pending(f) \/ main # "extract"
    PROVE  Unpacked'
<1>1. Packed' = Packed
  BY DEF Packed
<1>2. \A j \in Jars : Pending(j)' => main' = "extract"
  BY DEF Unpacked
<1>3. \A f \in Paths : Pending(f)' => main' # "extract"
  BY DEF Unpacked
<1>4. (disk \cap Files \subseteq Packed)'
  BY <1>1 DEF Unpacked
<1>5. main' = "extract" => \A j \in Jars : Pending(j)' \/ failed' \/ contents'[j] \subseteq disk'
  BY DEF Unpacked
<1>6. main' \notin {"extract", "failed"} => Packed' \subseteq disk'
  BY <1>1 DEF Unpacked
<1> QED BY <1>2, <1>3, <1>4, <1>5, <1>6 DEF Unpacked

\* Steps that write a file of a jar or an include.
LEMMA UnpackedGrows ==
    ASSUME LinkType, Unpacked, NEW f \in Paths, f \in Packed \/ f \in Includes,
           disk' = disk \cup {f}, UNCHANGED <<contents, main, failed>>,
           \A j \in Jars : Pending(j)' <=> Pending(j),
           \A g \in Paths : Pending(g)' => Pending(g)
    PROVE  Unpacked'
<1>1. Packed' = Packed
  BY DEF Packed
<1>2. f \in Includes => f \notin Files
  BY LinkAssumption
<1>3. (disk \cap Files \subseteq Packed)'
  BY <1>1, <1>2 DEF Unpacked
<1>4. main' = "extract" => \A j \in Jars : Pending(j)' \/ failed' \/ contents'[j] \subseteq disk'
  BY DEF Unpacked
<1>5. main' \notin {"extract", "failed"} => Packed' \subseteq disk'
  BY <1>1 DEF Unpacked
<1> QED BY <1>3, <1>4, <1>5 DEF Unpacked

\* Each step keeps this.
LEMMA NextUnpacked == LinkType /\ Unpacked /\ [Next]_vars => Unpacked'
<1> SUFFICES ASSUME LinkType, Unpacked, [Next]_vars PROVE Unpacked'
  OBVIOUS
<1>a. job \in [Workers -> JobsOf]
  BY DEF LinkType
<1>b. \A f \in Paths : f \notin Jars
  BY LinkAssumption DEF Paths
<1>c. ASSUME UNCHANGED <<queue, job>> PROVE \A x : Pending(x)' <=> Pending(x)
  BY <1>c DEF Pending
<1>1. ASSUME NEW w \in Workers, NEW x \in Jars \cup Paths, take(w, x)
      PROVE  Unpacked'
  <2>1. UNCHANGED <<contents, disk, failed, main>>
    BY <1>1 DEF take
  <2> QED BY <1>a, <1>1, <2>1, TakePending, UnpackedStays
<1>2. ASSUME NEW w \in Workers, NEW j \in Jars, extract_done(w, j) \/ extract_fail(w, j)
      PROVE  Unpacked'
  <2>1. Working(w, j) /\ Finish(w) /\ UNCHANGED <<contents, disk, main, queue>> /\ (failed => failed')
    BY <1>2 DEF extract_done, extract_fail
  <2>2. failed' \/ contents[j] \subseteq disk
    BY <1>2 DEF extract_done, extract_fail
  <2> QED BY <1>a, <2>1, <2>2, FinishPending, UnpackedStays
<1>3. ASSUME NEW w \in Workers, NEW j \in Jars, NEW f \in Files, extract_file(w, j, f)
      PROVE  Unpacked'
  <2>1. f \in Packed /\ f \in Paths
    BY <1>3 DEF extract_file, Packed, Paths
  <2>2. disk' = disk \cup {f} /\ UNCHANGED <<contents, main, failed, queue, job>>
    BY <1>3 DEF extract_file
  <2> QED BY <1>c, <2>1, <2>2, UnpackedGrows
<1>4. ASSUME NEW w \in Workers, NEW f \in Paths, res_find(w, f)
      PROVE  Unpacked'
  <2>1. UNCHANGED <<contents, disk, failed, main, queue, job>>
    BY <1>4 DEF res_find
  <2> QED BY <1>c, <2>1, UnpackedStays
<1>5. ASSUME NEW w \in Workers, NEW f \in Paths, res_duplicate(w, f) \/ res_fail(w, f)
      PROVE  Unpacked'
  <2>1. Working(w, f) /\ Finish(w) /\ failed' /\ UNCHANGED <<contents, disk, main, queue>>
    BY <1>5 DEF res_duplicate, res_fail
  <2> QED BY <1>a, <2>1, FinishPending, UnpackedStays
<1>6. ASSUME NEW w \in Workers, NEW f \in Paths, NEW g \in Includes, res_add(w, f, g)
      PROVE  Unpacked'
  <2>1. Working(w, f) /\ Finish(w) /\ disk' = disk \cup {g} /\ UNCHANGED <<contents, main, failed, queue>>
    BY <1>6 DEF res_add
  <2>2. g \in Paths
    BY DEF Paths
  <2>3. /\ \A j \in Jars : Pending(j)' <=> Pending(j)
        /\ \A h \in Paths : Pending(h)' => Pending(h)
    BY <1>a, <1>b, <2>1, FinishPending
  <2> QED BY <2>1, <2>2, <2>3, UnpackedGrows
<1>7. ASSUME NEW f \in Paths, process_entry(f)
      PROVE  Unpacked'
  <2>1. /\ main = "walk" /\ queue' = queue \cup {f} /\ job' = job
        /\ UNCHANGED <<contents, disk, failed, main>>
    BY <1>7 DEF process_entry
  <2>2. \A j \in Jars : Pending(j)' <=> Pending(j)
    BY <1>b, <2>1 DEF Pending
  <2> QED BY <2>1, <2>2, UnpackedStays
<1>8. CASE extract_wait
  <2>1. PoolIdle /\ main = "extract" /\ main' = (IF failed THEN "failed" ELSE "walk")
        /\ UNCHANGED <<contents, disk, failed, queue, job>>
    BY <1>8 DEF extract_wait
  <2>2. \A x : ~Pending(x) /\ ~Pending(x)'
    BY <1>c, <2>1, IdlePending
  <2>3. Packed' = Packed
    BY <2>1 DEF Packed
  <2>4. ~failed => Packed \subseteq disk
    BY <2>1, <2>2 DEF Packed, Unpacked
  <2>5. (disk \cap Files \subseteq Packed)'
    BY <2>1, <2>3 DEF Unpacked
  <2>6. main' # "extract" /\ (main' \notin {"extract", "failed"} => Packed' \subseteq disk')
    BY <2>1, <2>3, <2>4
  <2> QED BY <2>2, <2>5, <2>6 DEF Unpacked
<1>9. CASE \/ class_build_hash \/ class_build_fail \/ class_build_wait \/ res_sort
           \/ codegen_test \/ codegen_final \/ codegen_fail
  <2>1. UNCHANGED <<contents, disk, failed, queue, job>>
    BY <1>9, Zenon DEF class_build_hash, class_build_fail, class_build_wait, res_sort,
       codegen_test, codegen_final, codegen_fail
  <2>2. main \notin {"extract", "failed"} /\ main' \in Stages \ {"extract"}
    BY <1>9 DEF class_build_hash, class_build_fail, class_build_wait, res_sort,
       codegen_test, codegen_final, codegen_fail, Stages
  <2> QED BY <1>c, <2>1, <2>2, UnpackedStays
<1>10. CASE UNCHANGED vars
  <2>1. UNCHANGED <<contents, disk, failed, main, queue, job>>
    BY <1>10 DEF vars
  <2> QED BY <1>c, <2>1, UnpackedStays
<1> QED BY <1>1, <1>2, <1>3, <1>4, <1>5, <1>6, <1>7, <1>8, <1>9, <1>10, Zenon
        DEF Next, Work, Main, exit

-----------------------------------------------------------------------------
(* Walking and embedding. *)

Walked == {"jobs", "sort", "test", "final", "built"}

\* Nothing is walked at first.
LEMMA InitEmbedded == Init => Embedded
<1> SUFFICES ASSUME Init PROVE Embedded
  OBVIOUS
<1>1. \A x \in Paths : ~Pending(x)
  <2>1. \A x : <<x>> # <<>>
    OBVIOUS
  <2>2. Jars \cap Paths = {}
    BY LinkAssumption DEF Paths
  <2> QED BY <2>1, <2>2 DEF Init, Pending
<1> QED BY <1>1 DEF Init, Embedded

\* Steps that walk no further and add nothing to a table.
LEMMA EmbeddedStays ==
    ASSUME LinkType, Embedded, UNCHANGED <<contents, walked, hash>>, disk \subseteq disk', failed => failed',
           main' \in Walked => main \in Walked,
           \A f \in Paths : Pending(f)' => Pending(f),
           \A f \in Paths : Pending(f) => Pending(f)' \/ failed'
    PROVE  Embedded'
<1>1. Packed' = Packed
  BY DEF Packed
<1>2. walked \subseteq Paths
  BY DEF LinkType
<1>3. \A f \in walked : Pending(f)' \/ f \in hash' \/ failed'
  BY <1>2 DEF Embedded
<1>4. main' \in Walked => Packed' \subseteq walked'
  BY <1>1 DEF Embedded, Walked
<1>5. walked' \subseteq disk' /\ hash' \subseteq walked'
  BY DEF Embedded
<1>6. \A f \in Paths : Pending(f)' => f \in walked'
  BY DEF Embedded
<1> QED BY <1>3, <1>4, <1>5, <1>6 DEF Embedded, Walked

\* Each step keeps this.
LEMMA NextEmbedded == LinkType /\ Unpacked /\ Embedded /\ [Next]_vars => Embedded'
<1> SUFFICES ASSUME LinkType, Unpacked, Embedded, [Next]_vars PROVE Embedded'
  OBVIOUS
<1>a. job \in [Workers -> JobsOf]
  BY DEF LinkType
<1>b. \A f \in Paths : f \notin Jars
  BY LinkAssumption DEF Paths
<1>c. ASSUME UNCHANGED <<queue, job>> PROVE \A x : Pending(x)' <=> Pending(x)
  BY <1>c DEF Pending
<1>1. ASSUME NEW w \in Workers, NEW x \in Jars \cup Paths, take(w, x)
      PROVE  Embedded'
  <2>1. UNCHANGED <<contents, walked, hash, disk, failed, main>>
    BY <1>1 DEF take
  <2> QED BY <1>a, <1>1, <2>1, TakePending, EmbeddedStays
<1>2. ASSUME NEW w \in Workers, NEW j \in Jars, extract_done(w, j) \/ extract_fail(w, j)
      PROVE  Embedded'
  <2>1. /\ Working(w, j) /\ Finish(w) /\ (failed => failed')
        /\ UNCHANGED <<contents, walked, hash, disk, main, queue>>
    BY <1>2 DEF extract_done, extract_fail
  <2>2. \A f \in Paths : Pending(f)' <=> Pending(f)
    BY <1>a, <1>b, <2>1, FinishPending
  <2> QED BY <2>1, <2>2, EmbeddedStays
<1>3. ASSUME NEW w \in Workers, NEW j \in Jars, NEW f \in Files, extract_file(w, j, f)
      PROVE  Embedded'
  <2>1. disk' = disk \cup {f} /\ UNCHANGED <<contents, walked, hash, main, failed, queue, job>>
    BY <1>3 DEF extract_file
  <2> QED BY <1>c, <2>1, EmbeddedStays
<1>4. ASSUME NEW w \in Workers, NEW f \in Paths, res_find(w, f)
      PROVE  Embedded'
  <2>1. UNCHANGED <<contents, walked, hash, disk, failed, main, queue, job>>
    BY <1>4 DEF res_find
  <2> QED BY <1>c, <2>1, EmbeddedStays
<1>5. ASSUME NEW w \in Workers, NEW f \in Paths, res_duplicate(w, f) \/ res_fail(w, f)
      PROVE  Embedded'
  <2>1. Working(w, f) /\ Finish(w) /\ failed' /\ UNCHANGED <<contents, walked, hash, disk, main, queue>>
    BY <1>5 DEF res_duplicate, res_fail
  <2> QED BY <1>a, <2>1, FinishPending, EmbeddedStays
<1>6. ASSUME NEW w \in Workers, NEW f \in Paths, NEW g \in Includes, res_add(w, f, g)
      PROVE  Embedded'
  <2>1. /\ Working(w, f) /\ Finish(w) /\ disk' = disk \cup {g} /\ hash' = hash \cup {f}
        /\ UNCHANGED <<contents, walked, main, failed, queue>>
    BY <1>6 DEF res_add
  <2>2. /\ Pending(f)
        /\ \A y : Pending(y)' => Pending(y)
        /\ \A y : Pending(y) => Pending(y)' \/ y = f
    BY <1>a, <2>1, FinishPending
  <2>3. hash' \subseteq walked' /\ walked' \subseteq disk'
    BY <2>1, <2>2 DEF Embedded
  <2>4. \A y \in walked' : Pending(y)' \/ y \in hash' \/ failed'
    BY <2>1, <2>2 DEF Embedded
  <2>5. \A y \in Paths : Pending(y)' => y \in walked'
    BY <2>1, <2>2 DEF Embedded
  <2>6. Packed' = Packed
    BY <2>1 DEF Packed
  <2>7. main' \in Walked => Packed' \subseteq walked'
    BY <2>1, <2>6 DEF Embedded, Walked
  <2> QED BY <2>3, <2>4, <2>5, <2>7 DEF Embedded, Walked
<1>7. ASSUME NEW f \in Paths, process_entry(f)
      PROVE  Embedded'
  <2>1. /\ main = "walk" /\ f \in disk /\ queue' = queue \cup {f} /\ job' = job /\ walked' = walked \cup {f}
        /\ UNCHANGED <<contents, hash, disk, failed, main>>
    BY <1>7 DEF process_entry
  <2>2. \A y : Pending(y)' <=> Pending(y) \/ y = f
    BY <2>1 DEF Pending
  <2> QED BY <2>1, <2>2 DEF Embedded
<1>8. CASE extract_wait \/ class_build_fail
  <2>1. UNCHANGED <<contents, walked, hash, disk, failed, queue, job>> /\ main' \in {"failed", "walk"}
    BY <1>8 DEF extract_wait, class_build_fail
  <2> QED BY <1>c, <2>1, EmbeddedStays DEF Walked
<1>9. CASE class_build_hash
  <2>1. /\ main = "walk" /\ disk \cap Files \subseteq walked
        /\ UNCHANGED <<contents, walked, hash, disk, failed, queue, job>>
    BY <1>9 DEF class_build_hash
  <2>2. Packed \subseteq Files
    BY DEF LinkType, Packed
  <2>3. Packed \subseteq walked
    BY <2>1, <2>2 DEF Unpacked
  <2>4. Packed' = Packed
    BY <2>1 DEF Packed
  <2>5. \A x : Pending(x)' <=> Pending(x)
    BY <1>c, <2>1
  <2> QED BY <2>1, <2>3, <2>4, <2>5 DEF Embedded
<1>10. CASE class_build_wait \/ res_sort \/ codegen_test \/ codegen_final \/ codegen_fail
  <2>1. UNCHANGED <<contents, walked, hash, disk, failed, queue, job>>
    BY <1>10, Zenon DEF class_build_wait, res_sort, codegen_test, codegen_final, codegen_fail
  <2>2. main \in Walked
    BY <1>10 DEF class_build_wait, res_sort, codegen_test, codegen_final, codegen_fail, Walked
  <2> QED BY <1>c, <2>1, <2>2, EmbeddedStays
<1>11. CASE UNCHANGED vars
  <2>1. UNCHANGED <<contents, walked, hash, disk, failed, main, queue, job>>
    BY <1>11 DEF vars
  <2> QED BY <1>c, <2>1, EmbeddedStays
<1> QED BY <1>1, <1>2, <1>3, <1>4, <1>5, <1>6, <1>7, <1>8, <1>9, <1>10, <1>11, Zenon
        DEF Next, Work, Main, exit

-----------------------------------------------------------------------------
(* Waiting for the pool. *)

\* Each step keeps the pool quiet once the jobs are waited for.
LEMMA NextQuiet == Quiet /\ [Next]_vars => Quiet'
<1> SUFFICES ASSUME Quiet, [Next]_vars PROVE Quiet'
  OBVIOUS
<1> DEFINE Done == {"sort", "test", "final", "built"}
<1>1. CASE \E w \in Workers : Work(w)
  <2>1. PICK w \in Workers : Work(w)
    BY <1>1
  <2>2. main' = main
    BY <2>1, Zenon DEF Work, take, extract_done, extract_fail, extract_file, res_find, res_duplicate,
       res_fail, res_add
  <2>3. ~PoolIdle
    <3>1. (\E x : x \in queue) \/ \E x : Working(w, x)
      BY <2>1, Zenon DEF Work, take, extract_done, extract_fail, extract_file, res_find, res_duplicate,
         res_fail, res_add
    <3> QED BY <3>1, IdlePending DEF PoolIdle
  <2> QED BY <2>2, <2>3 DEF Quiet
<1>2. CASE extract_wait \/ class_build_hash \/ class_build_fail \/ codegen_fail
  <2>1. main' \notin Done
    BY <1>2 DEF extract_wait, class_build_hash, class_build_fail, codegen_fail
  <2> QED BY <2>1 DEF Quiet
<1>3. ASSUME NEW f \in Paths, process_entry(f)
      PROVE  Quiet'
  <2>1. main' \notin Done
    BY <1>3 DEF process_entry
  <2> QED BY <2>1 DEF Quiet
<1>4. CASE class_build_wait
  BY <1>4 DEF class_build_wait, PoolIdle, Quiet
<1>5. CASE res_sort \/ codegen_test \/ codegen_final \/ UNCHANGED vars
  <2>1. UNCHANGED <<queue, job, failed>> /\ (main' \in Done => main \in Done)
    BY <1>5 DEF res_sort, codegen_test, codegen_final, vars
  <2> QED BY <2>1 DEF Quiet, PoolIdle
<1> QED BY <1>1, <1>2, <1>3, <1>4, <1>5, Zenon DEF Next, Main, exit

\* The inductive invariant.
LEMMA LinkInvariant == Spec => []LinkInv
<1>1. Init => LinkInv
  BY InitType, InitUnpacked, InitEmbedded DEF LinkInv, Init, Quiet
<1>2. LinkInv /\ [Next]_vars => LinkInv'
  BY NextType, NextUnpacked, NextEmbedded, NextQuiet DEF LinkInv
<1> QED BY <1>1, <1>2, PTL DEF Spec

\* A failed job stops the build, in either round of the pool.
THEOREM LinkFailureStops == Spec => []FailureStops
<1>1. LinkInv => FailureStops
  BY DEF LinkInv, Quiet, FailureStops
<1> QED BY <1>1, LinkInvariant, PTL

\* The tables are sorted and written out without a worker.
THEOREM LinkQuietTables == Spec => []QuietTables
<1>1. LinkInv => QuietTables
  BY DEF LinkInv, Quiet, QuietTables
<1> QED BY <1>1, LinkInvariant, PTL

-----------------------------------------------------------------------------
(* The table of classes. *)

InOrder == \A a, b \in DOMAIN index : a < b => Name[index[a]] <= Name[index[b]]

\* What the sort has written stays as it is.
Tabled == main \in {"test", "final", "built"} => index \in Arrangements(hash \cap ClassFiles) /\ InOrder

\* Each step keeps the table.
LEMMA NextTabled == Quiet /\ Tabled /\ [Next]_vars => Tabled'
<1> SUFFICES ASSUME Quiet, Tabled, [Next]_vars PROVE Tabled'
  OBVIOUS
<1> DEFINE Done == {"test", "final", "built"}
<1>1. CASE \E w \in Workers : Work(w)
  <2>1. PICK w \in Workers : Work(w)
    BY <1>1
  <2>2. main' = main
    BY <2>1, Zenon DEF Work, take, extract_done, extract_fail, extract_file, res_find, res_duplicate,
       res_fail, res_add
  <2>3. (\E x : x \in queue) \/ \E x : Working(w, x)
    BY <2>1, Zenon DEF Work, take, extract_done, extract_fail, extract_file, res_find, res_duplicate,
       res_fail, res_add
  <2>4. main \notin Done
    BY <2>3, IdlePending DEF PoolIdle, Quiet
  <2> QED BY <2>2, <2>4 DEF Tabled
<1>2. CASE extract_wait \/ class_build_hash \/ class_build_fail \/ class_build_wait \/ codegen_fail
  <2>1. main' \notin Done
    BY <1>2 DEF extract_wait, class_build_hash, class_build_fail, class_build_wait, codegen_fail
  <2> QED BY <2>1 DEF Tabled
<1>3. ASSUME NEW f \in Paths, process_entry(f)
      PROVE  Tabled'
  <2>1. main' \notin Done
    BY <1>3 DEF process_entry
  <2> QED BY <2>1 DEF Tabled
<1>4. CASE res_sort
  <2>1. hash' = hash /\ index' \in {s \in Arrangements(hash \cap ClassFiles) :
                                     \A a, b \in DOMAIN s : a < b => Name[s[a]] <= Name[s[b]]}
    BY <1>4, Zenon DEF res_sort
  <2>2. Arrangements(hash \cap ClassFiles)' = Arrangements(hash \cap ClassFiles)
    BY <2>1 DEF Arrangements
  <2> QED BY <2>1, <2>2, Zenon DEF Tabled, InOrder
<1>5. CASE codegen_test \/ codegen_final \/ UNCHANGED vars
  <2>1. UNCHANGED <<hash, index>> /\ (main' \in Done => main \in Done)
    BY <1>5 DEF codegen_test, codegen_final, vars
  <2>2. Arrangements(hash \cap ClassFiles)' = Arrangements(hash \cap ClassFiles)
    BY <2>1 DEF Arrangements
  <2>3. InOrder' <=> InOrder
    BY <2>1 DEF InOrder
  <2> QED BY <2>1, <2>2, <2>3, Zenon DEF Tabled
<1> QED BY <1>1, <1>2, <1>3, <1>4, <1>5, Zenon DEF Next, Main, exit

\* The table when a binary is built.
LEMMA TableInvariant == Spec => []Tabled
<1>1. Init => Tabled
  BY DEF Init, Tabled
<1>2. LinkInv => Quiet
  BY DEF LinkInv
<1> QED BY <1>1, <1>2, NextTabled, LinkInvariant, PTL DEF Spec

\* The table is a sequence of classes.
LEMMA NextIndexType == index \in Seq(ClassFiles) /\ [Next]_vars => (index \in Seq(ClassFiles))'
<1> SUFFICES ASSUME index \in Seq(ClassFiles), [Next]_vars PROVE index' \in Seq(ClassFiles)
  OBVIOUS
<1>1. CASE res_sort
  <2> DEFINE C == hash \cap ClassFiles
  <2>1. IsFiniteSet(Files) /\ C \subseteq Files
    BY LinkAssumption
  <2>2. Cardinality(C) \in Nat
    BY <2>1, FS_Subset, FS_CardinalityType
  <2>3. index' \in [1..Cardinality(C) -> C]
    BY <1>1, Zenon DEF res_sort, Arrangements
  <2>4. index' \in [1..Cardinality(C) -> ClassFiles]
    BY <2>3, Zenon
  <2> HIDE DEF C
  <2> QED BY <2>2, <2>4
<1>2. CASE UNCHANGED index
  BY <1>2
<1>3. UNCHANGED index \/ res_sort
  BY Zenon DEF Next, Work, Main, exit, vars, take, extract_done, extract_fail, extract_file, res_find,
     res_duplicate, res_fail, res_add, extract_wait, process_entry, class_build_hash, class_build_fail,
     class_build_wait, codegen_test, codegen_final, codegen_fail
<1> QED BY <1>1, <1>2, <1>3

\* Queue, tables and work directory keep their types: only jars and files become
\* jobs, and only class files are written to the table of classes.
THEOREM LinkTypeCorrect == Spec => []TypeOK
<1>1. Init => index \in Seq(ClassFiles)
  BY DEF Init
<1>2. Spec => [](index \in Seq(ClassFiles))
  BY <1>1, NextIndexType, PTL DEF Spec
<1>3. ASSUME LinkType, NEW w \in Workers PROVE job[w] = <<>> \/ job[w] \in [1..1 -> Jars \cup Paths]
  <2>1. job[w] \in JobsOf
    BY <1>3 DEF LinkType
  <2>2. CASE job[w] = <<>>
    BY <2>2
  <2>3. ASSUME NEW x \in Jars \cup Paths, job[w] = <<x>> PROVE job[w] \in [1..1 -> Jars \cup Paths]
    BY <2>3
  <2> QED BY <2>1, <2>2, <2>3, Zenon DEF JobsOf
<1>4. LinkInv /\ index \in Seq(ClassFiles) => TypeOK
  BY <1>3, Zenon DEF LinkInv, LinkType, TypeOK
<1> QED BY <1>2, <1>4, LinkInvariant, PTL

\* Without jobs and errors the tables hold the files of the jars.
LEMMA HashPacked ==
    ASSUME LinkInv, main \in {"sort", "test", "final", "built"}
    PROVE  hash \cap ClassFiles = Packed \cap ClassFiles
<1>1. PoolIdle /\ ~failed
  BY DEF LinkInv, Quiet
<1>2. \A x : ~Pending(x)
  BY <1>1, IdlePending
<1>3. walked = hash
  BY <1>1, <1>2 DEF LinkInv, Embedded
<1>4. Packed \subseteq walked
  BY DEF LinkInv, Embedded
<1>5. walked \cap Files \subseteq Packed
  BY DEF LinkInv, Embedded, Unpacked
<1>6. ClassFiles \subseteq Files
  BY LinkAssumption
<1> QED BY <1>3, <1>4, <1>5, <1>6

\* A finished build holds exactly the classes of the jars, however the workers
\* and the walk interleave.
THEOREM LinkClassesExact == Spec => []ClassesExact
<1>1. ASSUME LinkInv, Tabled, main = "built" PROVE Range(index) = Packed \cap ClassFiles
  <2>1. index \in Arrangements(hash \cap ClassFiles)
    BY <1>1 DEF Tabled
  <2>2. Range(index) = hash \cap ClassFiles
    BY <2>1 DEF Arrangements
  <2> QED BY <1>1, <2>2, HashPacked
<1>2. LinkInv /\ Tabled => ClassesExact
  BY <1>1 DEF ClassesExact
<1> QED BY <1>2, LinkInvariant, TableInvariant, PTL

-----------------------------------------------------------------------------
(* The search in the binary. *)

\* The least-number principle.
LEMMA LeastNatural ==
    ASSUME NEW T, T \subseteq Nat, T # {}
    PROVE  \E n \in T : \A m \in T : n <= m
<1>1. PICK n \in T : \A m \in T : ~(<<m, n>> \in OpToRel(<, Nat))
  BY NatLessThanWellFounded, WFMin, Zenon
<1>2. \A m \in T : <<m, n>> \in Nat \X Nat
  OBVIOUS
<1>3. \A m \in T : ~(m < n)
  BY <1>1, <1>2, Zenon DEF OpToRel
<1> QED BY <1>3

\* The ranges that the search of the binary may be in, and how many entries are
\* in one.
Ranges == (1..Len(index) + 1) \X (0..Len(index))
Width(r) == IF r[1] > r[2] THEN 0 ELSE r[2] - r[1] + 1
Middle(r) == (r[1] + r[2]) \div 2

\* One round of getIndexBytes, that goes on with f.
Round(f, r, n) ==
    IF r[1] > r[2] THEN 0
    ELSE IF Name[index[Middle(r)]] < n THEN f[<<Middle(r) + 1, r[2]>>]
    ELSE IF Name[index[Middle(r)]] > n THEN f[<<r[1], Middle(r) - 1>>]
    ELSE Middle(r)

\* The function that getIndexBytes computes.
Searched(n) == CHOOSE f : f = [r \in Ranges |-> Round(f, r, n)]

LEMMA SearchIs == \A n : getIndexBytes(n) = Searched(n)[<<1, Len(index)>>]
  BY DEF getIndexBytes, Searched, Round, Ranges, Middle

\* The halves of a range are ranges and smaller.
LEMMA Halves ==
    ASSUME Len(index) \in Nat, NEW r \in Ranges, r[1] <= r[2]
    PROVE  /\ Middle(r) \in r[1]..r[2]
           /\ <<Middle(r) + 1, r[2]>> \in Ranges /\ Width(<<Middle(r) + 1, r[2]>>) < Width(r)
           /\ <<r[1], Middle(r) - 1>> \in Ranges /\ Width(<<r[1], Middle(r) - 1>>) < Width(r)
<1>1. r[1] \in 1..Len(index) + 1 /\ r[2] \in 0..Len(index)
  BY DEF Ranges
<1>2. Middle(r) \in r[1]..r[2]
  BY <1>1 DEF Middle
<1>3. Middle(r) + 1 \in 1..Len(index) + 1 /\ Middle(r) - 1 \in 0..Len(index)
  BY <1>1, <1>2
<1> QED BY <1>1, <1>2, <1>3, SMTT(30), Zenon DEF Ranges, Width

\* The width of a range is a number of entries.
LEMMA WidthNat ==
    ASSUME Len(index) \in Nat, NEW r \in Ranges
    PROVE  Width(r) \in Nat /\ Width(r) <= Len(index)
  BY DEF Ranges, Width

\* A round looks at smaller ranges only.
LEMMA RoundAgrees ==
    ASSUME Len(index) \in Nat, NEW n, NEW f, NEW g, NEW r \in Ranges,
           \A q \in Ranges : Width(q) < Width(r) => f[q] = g[q]
    PROVE  Round(f, r, n) = Round(g, r, n)
<1>1. r[1] \in Nat /\ r[2] \in Nat
  BY DEF Ranges
<1>2. CASE r[1] > r[2]
  BY <1>2 DEF Round
<1>3. CASE r[1] <= r[2]
  <2>1. /\ f[<<Middle(r) + 1, r[2]>>] = g[<<Middle(r) + 1, r[2]>>]
        /\ f[<<r[1], Middle(r) - 1>>] = g[<<r[1], Middle(r) - 1>>]
    BY <1>3, Halves, SMTT(30), Zenon
  <2> QED BY <2>1, Zenon DEF Round
<1> QED BY <1>1, <1>2, <1>3

\* f computes the search in every range of fewer than k entries.
Solves(f, k, n) == \A r \in Ranges : Width(r) < k => f[r] = Round(f, r, n)

\* One more round.
LEMMA SolvesMore ==
    ASSUME Len(index) \in Nat, NEW n, NEW k \in Nat, NEW f, Solves(f, k, n)
    PROVE  Solves([r \in Ranges |-> Round(f, r, n)], k + 1, n)
<1> DEFINE g == [r \in Ranges |-> Round(f, r, n)]
<1>1. \A r \in Ranges : g[r] = Round(f, r, n)
  BY Zenon
<1> HIDE DEF g
<1>2. ASSUME NEW r \in Ranges, Width(r) < k + 1 PROVE g[r] = Round(g, r, n)
  <2>1. ASSUME NEW q \in Ranges, Width(q) < Width(r) PROVE f[q] = g[q]
    <3>1. Width(q) < k
      BY <1>2, <2>1, WidthNat
    <3> QED BY <1>1, <3>1 DEF Solves
  <2>2. Round(f, r, n) = Round(g, r, n)
    BY <2>1, RoundAgrees
  <2> QED BY <1>1, <2>2
<1>3. Solves(g, k + 1, n)
  BY <1>2, Zenon DEF Solves
<1> QED BY <1>3 DEF g

\* There is a solution for every width, by the least width without one.
LEMMA SolutionExists ==
    ASSUME Len(index) \in Nat, NEW n
    PROVE  \A k \in Nat : \E f : Solves(f, k, n)
<1> DEFINE T == {k \in Nat : ~ \E f : Solves(f, k, n)}
<1>1. SUFFICES ASSUME T # {} PROVE FALSE
  BY Zenon
<1>2. PICK m \in T : \A k \in T : m <= k
  BY <1>1, LeastNatural, Zenon
<1>3. m # 0
  <2>1. Solves([r \in Ranges |-> 0], 0, n)
    BY WidthNat DEF Solves
  <2> QED BY <2>1
<1>4. m - 1 \in Nat /\ m - 1 \notin T /\ (m - 1) + 1 = m
  BY <1>2, <1>3
<1>5. PICK f : Solves(f, m - 1, n)
  BY <1>4
<1>6. \E g : Solves(g, (m - 1) + 1, n)
  BY <1>4, <1>5, SolvesMore, Zenon
<1> QED BY <1>4, <1>6

\* The recursion of getIndexBytes is well defined.
LEMMA SearchUnfolds ==
    ASSUME Len(index) \in Nat, NEW n
    PROVE  \A r \in Ranges : Searched(n)[r] = Round(Searched(n), r, n)
<1>1. PICK f : Solves(f, Len(index) + 1, n)
  BY SolutionExists
<1>2. \A r \in Ranges : f[r] = Round(f, r, n)
  BY <1>1, WidthNat DEF Solves
<1> DEFINE g == [r \in Ranges |-> Round(f, r, n)]
<1>3. \A r \in Ranges : g[r] = f[r]
  BY <1>2
<1>4. \A r \in Ranges : Round(f, r, n) = Round(g, r, n)
  BY <1>3, RoundAgrees
<1>5. g = [r \in Ranges |-> Round(g, r, n)]
  BY <1>4
<1>6. \E h : h = [r \in Ranges |-> Round(h, r, n)]
  BY <1>5, Zenon
<1>7. Searched(n) = [r \in Ranges |-> Round(Searched(n), r, n)]
  BY <1>6, Zenon DEF Searched
<1> QED BY <1>7

\* x is the position of name n in the range r, or 0 when n is not in the range.
Answers(x, r, n) ==
    \/ x \in r[1]..r[2] /\ Name[index[x]] = n
    \/ x = 0 /\ \A k \in r[1]..r[2] : Name[index[k]] # n

\* In an ordered table the search answers, by the least range where it does not.
LEMMA SearchAnswers ==
    ASSUME Len(index) \in Nat, InOrder, DOMAIN index = 1..Len(index),
           \A k \in 1..Len(index) : Name[index[k]] \in Nat,
           NEW n \in Nat
    PROVE  \A r \in Ranges : Answers(Searched(n)[r], r, n)
<1> DEFINE Bad == {r \in Ranges : ~Answers(Searched(n)[r], r, n)}
           T == {k \in Nat : \E r \in Bad : Width(r) = k}
<1>1. SUFFICES ASSUME Bad # {} PROVE FALSE
  OBVIOUS
<1>2. T # {}
  BY <1>1, WidthNat
<1>3. PICK m \in T : \A k \in T : m <= k
  BY <1>2, LeastNatural, Zenon
<1>4. PICK r \in Bad : Width(r) = m
  BY <1>3
<1>5. ASSUME NEW q \in Ranges, Width(q) < Width(r) PROVE Answers(Searched(n)[q], q, n)
  BY <1>3, <1>4, <1>5, WidthNat
<1>6. r \in Ranges /\ Searched(n)[r] = Round(Searched(n), r, n)
  BY <1>4, SearchUnfolds
<1>7. r[1] \in 1..Len(index) + 1 /\ r[2] \in 0..Len(index)
  BY <1>6 DEF Ranges
<1> DEFINE S == Searched(n)
           mid == Middle(r)
<1> HIDE DEF S, mid, Bad, T
<1>8. CASE r[1] > r[2]
  <2>1. S[r] = 0
    BY <1>6, <1>8 DEF Round, S
  <2>2. Answers(S[r], r, n)
    BY <1>7, <1>8, <2>1 DEF Answers
  <2> QED BY <1>4, <2>2 DEF Bad, S
<1>9. CASE r[1] <= r[2]
  <2>1. mid \in r[1]..r[2] /\ mid \in 1..Len(index)
    <3>1. mid \in r[1]..r[2]
      BY <1>6, <1>9, Halves, Zenon DEF mid
    <3> QED BY <1>7, <3>1
  <2>2. \A k \in r[1]..mid : Name[index[k]] <= Name[index[mid]]
    BY <1>7, <2>1, SMTT(30), Zenon DEF InOrder
  <2>3. \A k \in mid..r[2] : Name[index[mid]] <= Name[index[k]]
    BY <1>7, <2>1, SMTT(30), Zenon DEF InOrder
  <2>4. Name[index[mid]] \in Nat /\ \A k \in r[1]..r[2] : Name[index[k]] \in Nat
    BY <1>7, <2>1
  <2>5. CASE Name[index[mid]] < n
    <3> DEFINE q == <<mid + 1, r[2]>>
    <3>1. q \in Ranges /\ Width(q) < Width(r)
      BY <1>6, <1>9, Halves, Zenon DEF mid
    <3>2. S[r] = S[q]
      BY <1>6, <1>7, <1>9, <2>5 DEF Round, S, mid
    <3>3. Answers(S[q], q, n)
      BY <1>5, <3>1 DEF S
    <3>4. Answers(S[r], r, n)
      BY <1>7, <2>1, <2>2, <2>4, <2>5, <3>2, <3>3, SMTT(30), Zenon DEF Answers
    <3> QED BY <1>4, <3>4 DEF Bad, S
  <2>6. CASE Name[index[mid]] > n
    <3> DEFINE q == <<r[1], mid - 1>>
    <3>1. q \in Ranges /\ Width(q) < Width(r)
      BY <1>6, <1>9, Halves, Zenon DEF mid
    <3>2. S[r] = S[q]
      BY <1>6, <1>7, <1>9, <2>4, <2>6 DEF Round, S, mid
    <3>3. Answers(S[q], q, n)
      BY <1>5, <3>1 DEF S
    <3>4. Answers(S[r], r, n)
      BY <1>7, <2>1, <2>3, <2>4, <2>6, <3>2, <3>3, SMTT(30), Zenon DEF Answers
    <3> QED BY <1>4, <3>4 DEF Bad, S
  <2>7. CASE Name[index[mid]] = n
    <3>1. S[r] = mid
      BY <1>6, <1>7, <1>9, <2>4, <2>7 DEF Round, S, mid
    <3>2. Answers(S[r], r, n)
      BY <2>1, <2>7, <3>1 DEF Answers
    <3> QED BY <1>4, <3>2 DEF Bad, S
  <2> QED BY <2>4, <2>5, <2>6, <2>7
<1> QED BY <1>7, <1>8, <1>9

\* A finished build finds each class of the jars at run time, and nothing else:
\* the order in which the linker writes the table is the one that the search of
\* the class loader relies on, also when two entries have the same name.
THEOREM LinkLoadable == Spec => []Loadable
<1>1. ASSUME LinkInv, Tabled, main = "built", NEW f \in ClassFiles
      PROVE  IF \E g \in Packed \cap ClassFiles : Name[g] = Name[f]
             THEN getIndexBytes(Name[f]) # 0 /\ Name[index[getIndexBytes(Name[f])]] = Name[f]
             ELSE getIndexBytes(Name[f]) = 0
  <2> DEFINE C == hash \cap ClassFiles
  <2>1. index \in Arrangements(C) /\ InOrder
    BY <1>1 DEF Tabled
  <2>2. IsFiniteSet(C)
    <3>1. IsFiniteSet(Files) /\ C \subseteq Files
      BY LinkAssumption
    <3> QED BY <3>1, FS_Subset
  <2>3. Cardinality(C) \in Nat
    BY <2>2, FS_CardinalityType
  <2>4. index \in [1..Cardinality(C) -> C] /\ Range(index) = C
    BY <2>1, Zenon DEF Arrangements
  <2>5. Len(index) \in Nat /\ DOMAIN index = 1..Len(index)
    BY <2>3, <2>4
  <2>6. \A g \in ClassFiles : Name[g] \in Nat
    BY LinkAssumption
  <2>7. \A k \in 1..Len(index) : index[k] \in C /\ Name[index[k]] \in Nat
    BY <2>4, <2>5, <2>6, Zenon
  <2>8. C = Packed \cap ClassFiles
    BY <1>1, HashPacked
  <2>9. \A g \in C : \E k \in 1..Len(index) : index[k] = g
    BY <2>4, <2>5, Zenon DEF Range
  <2> DEFINE r == <<1, Len(index)>>
             x == getIndexBytes(Name[f])
  <2>10. r \in Ranges
    BY <2>5 DEF Ranges
  <2>11. Answers(x, r, Name[f])
    BY <2>1, <2>5, <2>6, <2>7, <2>10, SearchAnswers, SearchIs
  <2> HIDE DEF C, x
  <2>12. (\E g \in C : Name[g] = Name[f]) <=> \E k \in 1..Len(index) : Name[index[k]] = Name[f]
    BY <2>7, <2>9
  <2>13. IF \E g \in C : Name[g] = Name[f] THEN x # 0 /\ Name[index[x]] = Name[f] ELSE x = 0
    BY <2>5, <2>11, <2>12 DEF Answers
  <2> QED BY <2>8, <2>13 DEF x
<1>2. LinkInv /\ Tabled => Loadable
  BY <1>1 DEF Loadable
<1> QED BY <1>2, LinkInvariant, TableInvariant, PTL

-----------------------------------------------------------------------------
(* What the user of exjld sees. *)

State == IF main \in {"built", "failed"} THEN main ELSE "linking"
Table == IF main = "built" THEN index ELSE <<>>

Contract == INSTANCE LinkContract WITH state <- State, table <- Table

CStep == Contract!Build \/ Contract!Fail \/ UNCHANGED <<contents, State, Table>>

\* Steps of the pool, and of the main thread before it ends, are not seen.
LEMMA SameLink ==
    ASSUME contents' = contents,
           \/ main' = main /\ index' = index
           \/ main \notin {"built", "failed"} /\ main' \notin {"built", "failed"}
    PROVE  CStep
  BY DEF CStep, State, Table

\* The link may fail at any time before the binary is there.
LEMMA LinkFails ==
    ASSUME contents' = contents, main \notin {"built", "failed"}, main' = "failed"
    PROVE  CStep
  BY DEF CStep, State, Table, Contract!Fail

\* An arrangement of a finite set repeats nothing.
LEMMA ArrangedOnce ==
    ASSUME NEW S, IsFiniteSet(S), index \in Arrangements(S), InOrder
    PROVE  Contract!Listed(index, S)
<1> DEFINE n == Cardinality(S)
<1>1. n \in Nat
  BY FS_CardinalityType
<1>2. index \in [1..n -> S] /\ \A c \in S : \E a \in 1..n : index[a] = c
  BY Zenon DEF Arrangements, Range
<1>3. IsFiniteSet(1..n) /\ Cardinality(1..n) = n
  BY <1>1, FS_Interval
<1>4. index \in Surjection(1..n, S)
  BY <1>2, Zenon DEF Surjection
<1>5. index \in Injection(1..n, S)
  BY <1>3, <1>4, FS_SurjSameCardinalityImpliesInj
<1>6. \A a, b \in DOMAIN index : index[a] = index[b] => a = b
  BY <1>5 DEF Injection, IsInjective
<1>7. \A a, b \in DOMAIN index : a < b => Name[index[a]] <= Name[index[b]]
  BY <1>2 DEF InOrder
<1> HIDE DEF n
<1> QED BY <1>1, <1>2, <1>6, <1>7 DEF Contract!Listed

\* The last build command: the table is the one of the classes in the jars.
LEMMA LinkBuilds ==
    ASSUME LinkInv, Tabled, codegen_final
    PROVE  Contract!Build
<1> DEFINE C == Packed \cap ClassFiles
<1>1. main = "final" /\ main' = "built" /\ index' = index /\ contents' = contents
  BY DEF codegen_final
<1>2. State = "linking" /\ State' = "built" /\ Table' = index
  BY <1>1 DEF State, Table
<1>3. hash \cap ClassFiles = C
  BY <1>1, HashPacked
<1>4. index \in Arrangements(C) /\ InOrder
  BY <1>1, <1>3 DEF Tabled
<1>5. Contract!Classes = C
  BY DEF Contract!Classes, Packed
<1>6. IsFiniteSet(C)
  <2>1. IsFiniteSet(Files) /\ C \subseteq Files
    BY LinkAssumption
  <2> QED BY <2>1, FS_Subset
<1> HIDE DEF C
<1>7. Contract!Listed(index, C)
  BY <1>4, <1>6, ArrangedOnce
<1>8. Contract!Listed(Table', Contract!Classes)
  BY <1>2, <1>5, <1>7
<1> QED BY <1>1, <1>2, <1>8, Zenon DEF Contract!Build

\* Every step is one of the contract, or none.
LEMMA NextContract == LinkInv /\ Tabled /\ [Next]_vars => CStep
<1> SUFFICES ASSUME LinkInv, Tabled, [Next]_vars PROVE CStep
  OBVIOUS
<1> DEFINE Ends == {"built", "failed"}
<1>1. CASE \/ \E w \in Workers : Work(w)
           \/ \E f \in Paths : process_entry(f)
           \/ UNCHANGED vars
  <2>1. UNCHANGED <<contents, main, index>>
    BY <1>1, Zenon DEF Work, take, extract_done, extract_fail, extract_file, res_find, res_duplicate,
       res_fail, res_add, process_entry, vars
  <2> QED BY <2>1, SameLink
<1>2. CASE extract_wait \/ class_build_wait
  <2>1. contents' = contents /\ main \notin Ends /\ (main' = "failed" \/ main' \notin Ends)
    BY <1>2 DEF extract_wait, class_build_wait
  <2> QED BY <2>1, SameLink, LinkFails
<1>3. CASE class_build_hash \/ res_sort \/ codegen_test
  <2>1. contents' = contents /\ main \notin Ends /\ main' \notin Ends
    BY <1>3 DEF class_build_hash, res_sort, codegen_test
  <2> QED BY <2>1, SameLink
<1>4. CASE class_build_fail \/ codegen_fail
  <2>1. contents' = contents /\ main \notin Ends /\ main' = "failed"
    BY <1>4 DEF class_build_fail, codegen_fail
  <2> QED BY <2>1, LinkFails
<1>5. CASE codegen_final
  BY <1>5, LinkBuilds DEF CStep
<1> QED BY <1>1, <1>2, <1>3, <1>4, <1>5, Zenon DEF Next, Main, exit

\* The linker with its pool of any number of workers implements a link in one
\* step: it fails, or the binary has each class of the jars once, in order.
THEOREM LinkImplements == Spec => Contract!Spec
<1>1. Init => Contract!Init
  BY DEF Init, Contract!Init, State, Table
<1>2. LinkInv /\ Tabled /\ [Next]_vars =>
          [Contract!Build \/ Contract!Fail]_<<contents, State, Table>>
  BY NextContract DEF CStep
<1> QED BY <1>1, <1>2, LinkInvariant, TableInvariant, PTL DEF Spec, Contract!Spec
=============================================================================
