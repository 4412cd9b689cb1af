------------------------------- MODULE Exjld -------------------------------
(***************************************************************************)
(* The linker exjld: worker threads unpack the jar files into a work       *)
(* directory, the main thread walks the directory and queues a job for     *)
(* every file, workers turn each file into a C include in the same         *)
(* directory and add it to the table of classes or of resources, the       *)
(* tables are sorted by name and compiled into the binary.                 *)
(***************************************************************************)
EXTENDS Naturals, FiniteSets, Sequences, Functions

CONSTANTS Workers,   \* threads of the pool
          Jars,      \* jar files of the command line
          Files,     \* files packed in them, by path
          Includes,  \* C includes that jobs generate
          ClassFiles,\* the files that end with .class
          Name       \* Name[f]: the class or resource name made from a path

ASSUME LinkAssumption ==
    /\ ClassFiles \subseteq Files
    /\ Files \cap Includes = {} /\ Jars \cap (Files \cup Includes) = {}
    /\ IsFiniteSet(Files)
    /\ Name \in [Files \cup Includes -> Nat]

Paths == Files \cup Includes

VARIABLES
    contents,  \* contents[j]: what jar j holds
    doTest,    \* ndrx_G_do_test
    main,      \* where the main thread is
    disk,      \* files in the work directory
    walked,    \* files that nftw has reported
    queue,     \* jobs nobody works on: jars to unpack, files to embed
    job,       \* job[w]: what worker w works on, a sequence of length 0 or 1
    found,     \* found[w]: has w passed the test for a duplicate
    hash,      \* files in ndrx_G_classes_hash and ndrx_G_emb_res_hash
    failed,    \* ndrx_G_thpool_error
    index      \* the table of classes in jmain.c, in order

vars == <<contents, doTest, main, disk, walked, queue, job, found, hash, failed, index>>

Stages == {"extract", "walk", "jobs", "sort", "test", "final", "built", "failed"}

\* Type invariant.
TypeOK ==
    /\ contents \in [Jars -> SUBSET Files]
    /\ doTest \in BOOLEAN
    /\ main \in Stages
    /\ disk \in SUBSET Paths
    /\ walked \in SUBSET Paths
    /\ queue \in SUBSET (Jars \cup Paths)
    /\ \A w \in Workers : job[w] = <<>> \/ job[w] \in [1..1 -> Jars \cup Paths]
    /\ found \in [Workers -> BOOLEAN]
    /\ hash \in SUBSET Paths
    /\ failed \in BOOLEAN
    /\ index \in Seq(ClassFiles)

\* exjld queues every jar before it waits for the pool.
Init ==
    /\ contents \in [Jars -> SUBSET Files]
    /\ doTest \in BOOLEAN
    /\ main = "extract"
    /\ disk = {}
    /\ walked = {}
    /\ queue = Jars
    /\ job = [w \in Workers |-> <<>>]
    /\ found = [w \in Workers |-> FALSE]
    /\ hash = {}
    /\ failed = FALSE
    /\ index = <<>>

Working(w, x) == job[w] = <<x>>

Finish(w) == job' = [job EXCEPT ![w] = <<>>] /\ found' = [found EXCEPT ![w] = FALSE]

\* ndrx_thpool_wait returns.
PoolIdle == queue = {} /\ \A w \in Workers : job[w] = <<>>

-----------------------------------------------------------------------------
(* Workers. *)

take(w, x) ==
    /\ job[w] = <<>> /\ x \in queue
    /\ queue' = queue \ {x}
    /\ job' = [job EXCEPT ![w] = <<x>>]
    /\ UNCHANGED <<contents, doTest, main, disk, walked, found, hash, failed, index>>

\* extract_jar_th: one file of the jar is written.
extract_file(w, j, f) ==
    /\ Working(w, j) /\ f \in contents[j] \ disk
    /\ disk' = disk \cup {f}
    /\ UNCHANGED <<contents, doTest, main, walked, queue, job, found, hash, failed, index>>

extract_done(w, j) ==
    /\ Working(w, j) /\ contents[j] \subseteq disk
    /\ Finish(w)
    /\ UNCHANGED <<contents, doTest, main, disk, walked, queue, hash, failed, index>>

\* zip_extract fails, at any file.
extract_fail(w, j) ==
    /\ Working(w, j)
    /\ failed' = TRUE
    /\ Finish(w)
    /\ UNCHANGED <<contents, doTest, main, disk, walked, queue, hash, index>>

\* Is there an entry of the same name in the same table?
Duplicate(f) == \E g \in hash : Name[g] = Name[f] /\ (g \in ClassFiles <=> f \in ClassFiles)

\* exljd_res_add_th: the look-up, under the hash lock, finds nothing.
res_find(w, f) ==
    /\ Working(w, f) /\ ~found[w] /\ ~Duplicate(f)
    /\ found' = [found EXCEPT ![w] = TRUE]
    /\ UNCHANGED <<contents, doTest, main, disk, walked, queue, job, hash, failed, index>>

\* "Duplicate resource name".
res_duplicate(w, f) ==
    /\ Working(w, f) /\ ~found[w] /\ Duplicate(f)
    /\ failed' = TRUE
    /\ Finish(w)
    /\ UNCHANGED <<contents, doTest, main, disk, walked, queue, hash, index>>

\* ndrx_file_gen_embed writes the include, then the entry is added under the
\* hash lock.
res_add(w, f, g) ==
    /\ Working(w, f) /\ found[w] /\ g \notin disk
    /\ disk' = disk \cup {g}
    /\ hash' = hash \cup {f}
    /\ Finish(w)
    /\ UNCHANGED <<contents, doTest, main, walked, queue, failed, index>>

\* malloc or the generator fails.
res_fail(w, f) ==
    /\ Working(w, f) /\ found[w]
    /\ failed' = TRUE
    /\ Finish(w)
    /\ UNCHANGED <<contents, doTest, main, disk, walked, queue, hash, index>>

-----------------------------------------------------------------------------
(* The main thread. *)

\* Mutation of extract_wait: the pool is not waited for.
extract_wait_early ==
    /\ main = "extract"
    /\ main' = IF failed THEN "failed" ELSE "walk"
    /\ UNCHANGED <<contents, doTest, disk, walked, queue, job, found, hash, failed, index>>

extract_wait ==
    /\ main = "extract" /\ PoolIdle
    /\ main' = IF failed THEN "failed" ELSE "walk"
    /\ UNCHANGED <<contents, doTest, disk, walked, queue, job, found, hash, failed, index>>

\* nftw reports a file, also one that a job has just written.
process_entry(f) ==
    /\ main = "walk" /\ f \in disk \ walked
    /\ walked' = walked \cup {f}
    /\ queue' = queue \cup {f}
    /\ UNCHANGED <<contents, doTest, main, disk, job, found, hash, failed, index>>

\* nftw ends: it has reported at least the files that were there at its start.
class_build_hash ==
    /\ main = "walk" /\ disk \cap Files \subseteq walked
    /\ main' = "jobs"
    /\ UNCHANGED <<contents, doTest, disk, walked, queue, job, found, hash, failed, index>>

\* nftw or an allocation in process_entry fails.
class_build_fail ==
    /\ main = "walk"
    /\ main' = "failed"
    /\ UNCHANGED <<contents, doTest, disk, walked, queue, job, found, hash, failed, index>>

\* Mutation of class_build_wait: the error of the pool is not looked at.
class_build_wait_blind ==
    /\ main = "jobs" /\ PoolIdle
    /\ main' = IF Jars = {} THEN "failed" ELSE "sort"
    /\ UNCHANGED <<contents, doTest, disk, walked, queue, job, found, hash, failed, index>>

\* Mutation of class_build_wait: the pool is not waited for.
class_build_wait_early ==
    /\ main = "jobs"
    /\ main' = IF failed \/ Jars = {} THEN "failed" ELSE "sort"
    /\ UNCHANGED <<contents, doTest, disk, walked, queue, job, found, hash, failed, index>>

class_build_wait ==
    /\ main = "jobs" /\ PoolIdle
    /\ main' = IF failed \/ Jars = {} THEN "failed" ELSE "sort"
    /\ UNCHANGED <<contents, doTest, disk, walked, queue, job, found, hash, failed, index>>

\* Every sequence of the members of S, each of them once.
Arrangements(S) == {s \in [1..Cardinality(S) -> S] : Range(s) = S}

\* Mutation of res_sort: the classes are written in descending order.
res_sort_reversed ==
    /\ main = "sort"
    /\ index' \in {s \in Arrangements(hash \cap ClassFiles) :
                     \A a, b \in DOMAIN s : a < b => Name[s[a]] >= Name[s[b]]}
    /\ main' = IF doTest THEN "test" ELSE "final"
    /\ UNCHANGED <<contents, doTest, disk, walked, queue, job, found, hash, failed>>

\* exljd_res_sort_by_resname: entries of one name stay in the order in which the
\* workers have added them, which is any.
res_sort ==
    /\ main = "sort"
    /\ index' \in {s \in Arrangements(hash \cap ClassFiles) :
                     \A a, b \in DOMAIN s : a < b => Name[s[a]] <= Name[s[b]]}
    /\ main' = IF doTest THEN "test" ELSE "final"
    /\ UNCHANGED <<contents, doTest, disk, walked, queue, job, found, hash, failed>>

\* ndrxj_codegen(EXTRUE): the build command runs, and runs again.
codegen_test ==
    /\ main = "test"
    /\ main' = "final"
    /\ UNCHANGED <<contents, doTest, disk, walked, queue, job, found, hash, failed, index>>

codegen_final ==
    /\ main = "final"
    /\ main' = "built"
    /\ UNCHANGED <<contents, doTest, disk, walked, queue, job, found, hash, failed, index>>

\* The build command fails.
codegen_fail ==
    /\ main \in {"test", "final"}
    /\ main' = "failed"
    /\ UNCHANGED <<contents, doTest, disk, walked, queue, job, found, hash, failed, index>>

\* The work directory is removed; the process ends.
exit ==
    /\ main \in {"built", "failed"}
    /\ UNCHANGED vars

-----------------------------------------------------------------------------
Work(w) ==
    \/ \E x \in Jars \cup Paths : take(w, x)
    \/ \E j \in Jars : extract_done(w, j) \/ extract_fail(w, j)
    \/ \E j \in Jars, f \in Files : extract_file(w, j, f)
    \/ \E f \in Paths : res_find(w, f) \/ res_duplicate(w, f) \/ res_fail(w, f)
    \/ \E f \in Paths, g \in Includes : res_add(w, f, g)

Main ==
    \/ extract_wait
    \/ \E f \in Paths : process_entry(f)
    \/ class_build_hash
    \/ class_build_fail
    \/ class_build_wait
    \/ res_sort
    \/ codegen_test
    \/ codegen_final
    \/ codegen_fail

Next == (\E w \in Workers : Work(w)) \/ Main \/ exit

Spec == Init /\ [][Next]_vars

-----------------------------------------------------------------------------
(* Properties. *)

Packed == UNION {contents[j] : j \in Jars}

\* A binary is built only if its class table holds exactly the classes of the
\* jars: no class is lost between the parallel jobs, and the includes that
\* the walk may meet never become classes.
ClassesExact == main = "built" => Range(index) = Packed \cap ClassFiles

\* getIndexBytes of the binary: binary search for the name n in the table, 0
\* when it is not there.
getIndexBytes(n) ==
    LET Bounds == (1..Len(index) + 1) \X (0..Len(index))
        search[r \in Bounds] ==
            LET middle == (r[1] + r[2]) \div 2
            IN  IF r[1] > r[2] THEN 0
                ELSE IF Name[index[middle]] < n THEN search[<<middle + 1, r[2]>>]
                ELSE IF Name[index[middle]] > n THEN search[<<r[1], middle - 1>>]
                ELSE middle
    IN  search[<<1, Len(index)>>]

\* A binary is built only if it finds each class of the jars, and nothing
\* else, at run time: the order that the linker writes is the one that the
\* search of the class loader relies on, also with equal names.
Loadable ==
    main = "built" =>
        \A f \in ClassFiles :
            IF \E g \in Packed \cap ClassFiles : Name[g] = Name[f]
            THEN getIndexBytes(Name[f]) # 0 /\ Name[index[getIndexBytes(Name[f])]] = Name[f]
            ELSE getIndexBytes(Name[f]) = 0

\* A job that fails, in either round of the pool, stops the build: the error
\* is neither overwritten by a later success nor read too early.
FailureStops == failed => main \notin {"sort", "test", "final", "built"}

\* No worker touches the tables while they are sorted and written out.
QuietTables == main \in {"sort", "test", "final", "built"} => PoolIdle

\* "Check that record isn't duplicate. If so return an error."
\* (exljd_res_add_th): no two classes in the binary have the same name.
NoDuplicate == main = "built" =>
    \A i, k \in 1..Len(index) : Name[index[i]] = Name[index[k]] => i = k
=============================================================================
