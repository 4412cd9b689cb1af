---------------------------- MODULE TypedBuffers ----------------------------
(***************************************************************************)
(* Ownership of XATMI buffers.  A Java TypedBuffer object carries the      *)
(* address of a C buffer (cPtr) and a flag (doFinalize) that says whether  *)
(* its destructor releases that buffer.  Buffers are created by tpalloc(), *)
(* replaced by the reply of a call, moved by tprealloc(), handed to XATMI  *)
(* by tpreturn() and released by cleanup() or by the garbage collector.    *)
(* Buffers that XATMI delivers (service requests, unsolicited messages)    *)
(* are released by XATMI itself.                                           *)
(*                                                                         *)
(* C addresses are reused: a freed address may be returned by the next     *)
(* allocation.  A JNI call that blocks in C (tpcall, tpgetrply, tprecv,    *)
(* tpdequeue) is two steps, so that finalizers, other threads and the      *)
(* unsolicited message callback run between them.                          *)
(***************************************************************************)
EXTENDS Naturals, FiniteSets

CONSTANTS Threads,    \* Java threads, each with an ATMI context of its own
          Objs,       \* identities of TypedBuffer objects
          Ptrs,       \* addresses of C buffers
          Types,      \* XATMI buffer types
          Supported,  \* the types that have a Java class
          Null,       \* the address 0
          NoObj,      \* Java null
          NoThread,   \* no thread holds a reference
          NoType      \* the type of unallocated memory, and of NULL

ASSUME BufferAssumption ==
    /\ Supported \subseteq Types
    /\ Null \notin Ptrs
    /\ NoObj \notin Objs
    /\ NoThread \notin Threads
    /\ NoType \notin Types

VARIABLES
    ctype,       \* ctype[p]: type of the C buffer at p, NoType when p is free
    xatmi,       \* xatmi[p]: at the end of what XATMI releases p, if it does
    disp,        \* disp[p]: the thread whose dispatch that is
    lost,        \* C buffers that are allocated but whose address was dropped
    obj,         \* constructed objects that are not collected yet
    doFinalize,  \* TypedBuffer.doFinalize
    cPtr,        \* TypedBuffer.cPtr
    ctx,         \* is TypedBuffer.ctx non-null
    user,        \* user[o]: the thread that may go on using o
    call,        \* call[t]: the buffer operation t is blocked in
    svc,         \* svc[t]: t runs a service and has not called tpreturn
    unsol        \* unsol[t]: t runs the unsolicited callback inside its call

heap   == <<ctype, xatmi, disp, lost>>
fields == <<obj, doFinalize, cPtr, ctx, user>>
vars   == <<ctype, xatmi, disp, lost, obj, doFinalize, cPtr, ctx, user, call, svc, unsol>>

\* "none": the buffer is released by an object's destructor, not by XATMI.
Dispatches == {"none", "svc", "unsol"}

Idle == [obj |-> NoObj, ptr |-> Null, type |-> NoType, busy |-> FALSE]

Calls == [obj : Objs \cup {NoObj}, ptr : Ptrs \cup {Null},
          type : Types \cup {NoType}, busy : BOOLEAN]

\* Type invariant.
TypeOK ==
    /\ ctype \in [Ptrs -> Types \cup {NoType}]
    /\ xatmi \in [Ptrs -> Dispatches]
    /\ disp \in [Ptrs -> Threads \cup {NoThread}]
    /\ lost \in SUBSET Ptrs
    /\ obj \in SUBSET Objs
    /\ doFinalize \in [Objs -> BOOLEAN]
    /\ cPtr \in [Objs -> Ptrs \cup {Null}]
    /\ ctx \in [Objs -> BOOLEAN]
    /\ user \in [Objs -> Threads \cup {NoThread}]
    /\ call \in [Threads -> Calls]
    /\ svc \in [Threads -> BOOLEAN]
    /\ unsol \in [Threads -> BOOLEAN]

Init ==
    /\ ctype = [p \in Ptrs |-> NoType]
    /\ xatmi = [p \in Ptrs |-> "none"]
    /\ disp = [p \in Ptrs |-> NoThread]
    /\ lost = {}
    /\ obj = {}
    /\ doFinalize = [o \in Objs |-> FALSE]
    /\ cPtr = [o \in Objs |-> Null]
    /\ ctx = [o \in Objs |-> FALSE]
    /\ user = [o \in Objs |-> NoThread]
    /\ call = [t \in Threads |-> Idle]
    /\ svc = [t \in Threads |-> FALSE]
    /\ unsol = [t \in Threads |-> FALSE]

-----------------------------------------------------------------------------
(* Helpers. *)

IsFree(p) == ctype[p] = NoType

\* Java code of t runs: outside any call, or in the callback inside one.
Running(t) == ~call[t].busy \/ unsol[t]

\* t may pass o to a method of the library.
Uses(t, o) == o \in obj /\ user[o] = t /\ Running(t)

Pinned(o) == \E t \in Threads : call[t].obj = o

\* The program, or a call in progress, still relies on o.
Held(o) == o \in obj /\ (user[o] # NoThread \/ Pinned(o))

\* The address p is released and q allocated with type ty.  The two may be
\* the same address.  q is released by whoever was to release p.
Replaced(p, q, ty) ==
    /\ q = p \/ IsFree(q)
    /\ ctype' = [r \in Ptrs |-> IF r = q THEN ty
                                ELSE IF r = p THEN NoType ELSE ctype[r]]
    /\ xatmi' = [r \in Ptrs |-> IF r = q THEN (IF p = Null THEN "none" ELSE xatmi[p])
                                ELSE IF r = p THEN "none" ELSE xatmi[r]]
    /\ disp' = [r \in Ptrs |-> IF r = q THEN (IF p = Null THEN NoThread ELSE disp[p])
                               ELSE IF r = p THEN NoThread ELSE disp[r]]

\* The addresses of S are released.
Released(S) ==
    /\ ctype' = [r \in Ptrs |-> IF r \in S THEN NoType ELSE ctype[r]]
    /\ xatmi' = [r \in Ptrs |-> IF r \in S THEN "none" ELSE xatmi[r]]
    /\ disp' = [r \in Ptrs |-> IF r \in S THEN NoThread ELSE disp[r]]

\* NewObject() at the end of ndrxj_atmi_TypedBuffer_translate: the thread t
\* gets object o for the address p.
translate(t, o, p, finalize) ==
    /\ o \in Objs \ obj
    /\ obj' = obj \cup {o}
    /\ doFinalize' = [doFinalize EXCEPT ![o] = finalize]
    /\ cPtr' = [cPtr EXCEPT ![o] = p]
    /\ ctx' = [ctx EXCEPT ![o] = TRUE]
    /\ user' = [user EXCEPT ![o] = t]

\* Objects whose buffer is released by XATMI may not be used any more.
Forget(S) == user' = [o \in Objs |-> IF cPtr[o] \in S THEN NoThread ELSE user[o]]

-----------------------------------------------------------------------------
(* Allocation and reallocation. *)

tpalloc(t, p, ty, o) ==
    /\ Running(t)
    /\ IsFree(p) /\ ty \in Supported
    /\ ctype' = [ctype EXCEPT ![p] = ty]
    /\ translate(t, o, p, TRUE)
    /\ UNCHANGED <<xatmi, disp, lost, call, svc, unsol>>

\* translate() fails with "buffer type [%s] not supported" after the C buffer
\* was allocated.
tpalloc_unsupported(t, p, ty) ==
    /\ Running(t)
    /\ IsFree(p) /\ ty \notin Supported
    /\ ctype' = [ctype EXCEPT ![p] = ty]
    /\ lost' = lost \cup {p}
    /\ UNCHANGED <<xatmi, disp, fields, call, svc, unsol>>

\* TypedBuffer.tprealloc; on failure nothing changes.
tprealloc(t, o, q) ==
    /\ Uses(t, o) /\ ctx[o] /\ cPtr[o] # Null
    /\ Replaced(cPtr[o], q, ctype[cPtr[o]])
    /\ cPtr' = [cPtr EXCEPT ![o] = q]
    /\ UNCHANGED <<lost, obj, doFinalize, ctx, user, call, svc, unsol>>

\* Mutation of set_failed: an object that has no address any more is not
\* refused.
set_failed_unchecked(t, o) ==
    /\ Uses(t, o) /\ ctx[o]
    /\ cPtr' = [cPtr EXCEPT ![o] = Null]
    /\ lost' = IF doFinalize[o] THEN lost \cup {cPtr[o]} ELSE lost
    /\ UNCHANGED <<ctype, xatmi, disp, obj, doFinalize, ctx, user, call, svc, unsol>>

\* TypedString.setString, TypedJson.setJSON and TypedCarray.setBytes when the
\* value does not fit and the reallocation inside them fails: the object
\* gives up the address.  When it succeeds they do what tprealloc does.
set_failed(t, o) ==
    /\ Uses(t, o) /\ ctx[o] /\ cPtr[o] # Null
    /\ cPtr' = [cPtr EXCEPT ![o] = Null]
    /\ lost' = IF doFinalize[o] THEN lost \cup {cPtr[o]} ELSE lost
    /\ UNCHANGED <<ctype, xatmi, disp, obj, doFinalize, ctx, user, call, svc, unsol>>

\* The program passes its buffer on to another thread.
setAtmiCtx(t, o, u) ==
    /\ Uses(t, o) /\ doFinalize[o]
    /\ ctx' = [ctx EXCEPT ![o] = TRUE]
    /\ user' = [user EXCEPT ![o] = u]
    /\ UNCHANGED <<heap, obj, doFinalize, cPtr, call, svc, unsol>>

-----------------------------------------------------------------------------
(* Calls that return a buffer: tpcall, tpgetrply, tprecv, tpdequeue. *)

\* The object argument is read and its type looked up; an object without an
\* address fails here.
call_begin(t, o) ==
    /\ ~call[t].busy
    /\ Uses(t, o) /\ cPtr[o] # Null
    /\ call' = [call EXCEPT ![t] = [obj |-> o, ptr |-> cPtr[o],
                                   type |-> ctype[cPtr[o]], busy |-> TRUE]]
    /\ user' = [user EXCEPT ![o] = NoThread]
    /\ UNCHANGED <<heap, obj, doFinalize, cPtr, ctx, svc, unsol>>

\* The program passes null.
call_begin_null(t) ==
    /\ ~call[t].busy
    /\ call' = [call EXCEPT ![t] = [obj |-> NoObj, ptr |-> Null,
                                   type |-> NoType, busy |-> TRUE]]
    /\ UNCHANGED <<heap, fields, svc, unsol>>

Returning(t) == call[t].busy /\ ~unsol[t]

Returned(t) == call' = [call EXCEPT ![t] = Idle]

\* ndrxj_atmi_TypedBuffer_result_prep, types equal: the object is reused.
result_same(t, q) ==
    /\ Returning(t) /\ call[t].obj # NoObj
    /\ Replaced(call[t].ptr, q, call[t].type)
    /\ cPtr' = [cPtr EXCEPT ![call[t].obj] = q]
    /\ user' = [user EXCEPT ![call[t].obj] = t]
    /\ Returned(t)
    /\ UNCHANGED <<lost, obj, doFinalize, ctx, svc, unsol>>

\* "null buffers always are automatic": without an input object the reply
\* gets a destructor.
finalizeOrg(i) == IF i = NoObj THEN TRUE ELSE doFinalize[i]

\* Mutation of result_other: the input object keeps its destructor.
result_other_armed(t, q, ty, n) ==
    /\ Returning(t)
    /\ ty # call[t].type /\ ty \in Supported
    /\ Replaced(call[t].ptr, q, ty)
    /\ translate(t, n, q, finalizeOrg(call[t].obj))
    /\ Returned(t)
    /\ UNCHANGED <<lost, svc, unsol>>

\* Mutation of result_other: the destructor is not passed on to the new object.
result_other_disarmed(t, q, ty, n) ==
    /\ Returning(t)
    /\ ty # call[t].type /\ ty \in Supported
    /\ Replaced(call[t].ptr, q, ty)
    /\ translate(t, n, q, FALSE)
    /\ Returned(t)
    /\ UNCHANGED <<lost, svc, unsol>>

\* result_prep, types differ: the input object loses its destructor but keeps
\* its address, the new object n inherits the destructor.
result_other(t, q, ty, n) ==
    LET i == call[t].obj
    IN  /\ Returning(t)
        /\ ty # call[t].type /\ ty \in Supported
        /\ Replaced(call[t].ptr, q, ty)
        /\ n \in Objs \ obj
        /\ obj' = obj \cup {n}
        /\ doFinalize' = [x \in Objs |-> IF x = n THEN finalizeOrg(i)
                                         ELSE IF x = i THEN FALSE ELSE doFinalize[x]]
        /\ cPtr' = [cPtr EXCEPT ![n] = q]
        /\ ctx' = [ctx EXCEPT ![n] = TRUE]
        /\ user' = [user EXCEPT ![n] = t]
        /\ Returned(t)
        /\ UNCHANGED <<lost, svc, unsol>>

\* The same for a reply of a type without a Java class: the program is left
\* with an exception and no buffer.
result_unsupported(t, q, ty) ==
    LET i == call[t].obj
    IN  /\ Returning(t)
        /\ ty \notin Supported
        /\ Replaced(call[t].ptr, q, ty)
        /\ doFinalize' = [x \in Objs |-> IF x = i THEN FALSE ELSE doFinalize[x]]
        /\ lost' = IF finalizeOrg(i) THEN lost \cup {q} ELSE lost
        /\ Returned(t)
        /\ UNCHANGED <<obj, cPtr, ctx, user, svc, unsol>>

\* Mutation of result_null: the input object keeps its destructor.
result_null_armed(t, keep) ==
    /\ Returning(t)
    /\ Released({call[t].ptr})
    /\ user' = [x \in Objs |-> IF x = call[t].obj /\ keep THEN t ELSE user[x]]
    /\ Returned(t)
    /\ UNCHANGED <<lost, obj, doFinalize, cPtr, ctx, svc, unsol>>

\* result_prep, the reply is NULL: XATMI has released the input buffer, the
\* input object loses its destructor, keeps its address, and null is returned.
\* keep: the program goes on using the input object.
result_null(t, keep) ==
    LET i == call[t].obj
    IN  /\ Returning(t)
        /\ Released({call[t].ptr})
        /\ doFinalize' = [x \in Objs |-> IF x = i THEN FALSE ELSE doFinalize[x]]
        /\ user' = [x \in Objs |-> IF x = i /\ keep THEN t ELSE user[x]]
        /\ Returned(t)
        /\ UNCHANGED <<lost, obj, cPtr, ctx, svc, unsol>>

\* Any error but TPESVCFAIL, and tpgetrply with no reply yet: the input object
\* comes back, in the exception or in the result.
call_error(t) ==
    /\ Returning(t)
    /\ user' = [x \in Objs |-> IF x = call[t].obj THEN t ELSE user[x]]
    /\ Returned(t)
    /\ UNCHANGED <<heap, obj, doFinalize, cPtr, ctx, svc, unsol>>

-----------------------------------------------------------------------------
(* Buffers delivered by XATMI. *)

\* A request is dispatched to the service code of t.
svc_begin(t, p, ty, o) ==
    /\ ~call[t].busy /\ ~svc[t]
    /\ IsFree(p) /\ ty \in Supported
    /\ ctype' = [ctype EXCEPT ![p] = ty]
    /\ xatmi' = [xatmi EXCEPT ![p] = "svc"]
    /\ disp' = [disp EXCEPT ![p] = t]
    /\ translate(t, o, p, FALSE)
    /\ svc' = [svc EXCEPT ![t] = TRUE]
    /\ UNCHANGED <<lost, call, unsol>>

OwnedBy(t, k) == {p \in Ptrs : xatmi[p] = k /\ disp[p] = t}

\* tpreturn and tpforward: the object returned is invalidated, XATMI takes its
\* buffer and releases every buffer of the request.
tpreturn(t, o) ==
    LET S == OwnedBy(t, "svc") \cup (IF o = NoObj THEN {} ELSE {cPtr[o]} \cap Ptrs)
    IN  /\ ~call[t].busy /\ svc[t]
        /\ o # NoObj => Uses(t, o)
        /\ cPtr' = [x \in Objs |-> IF x = o THEN Null ELSE cPtr[x]]
        /\ doFinalize' = [x \in Objs |-> IF x = o THEN FALSE ELSE doFinalize[x]]
        /\ Released(S)
        /\ Forget(S)
        /\ svc' = [svc EXCEPT ![t] = FALSE]
        /\ UNCHANGED <<lost, obj, ctx, call, unsol>>

\* An unsolicited message is dispatched while t is blocked in a call.
unsol_begin(t, p, ty, o) ==
    /\ Returning(t)
    /\ IsFree(p) /\ ty \in Supported
    /\ ctype' = [ctype EXCEPT ![p] = ty]
    /\ xatmi' = [xatmi EXCEPT ![p] = "unsol"]
    /\ disp' = [disp EXCEPT ![p] = t]
    /\ translate(t, o, p, FALSE)
    /\ unsol' = [unsol EXCEPT ![t] = TRUE]
    /\ UNCHANGED <<lost, call, svc>>

unsol_end(t) ==
    LET S == OwnedBy(t, "unsol")
    IN  /\ unsol[t]
        /\ Released(S)
        /\ Forget(S)
        /\ unsol' = [unsol EXCEPT ![t] = FALSE]
        /\ UNCHANGED <<lost, obj, doFinalize, cPtr, ctx, call, svc>>

-----------------------------------------------------------------------------
(* Destruction. *)

Destructed(o) == IF doFinalize[o] /\ cPtr[o] # Null THEN {cPtr[o]} ELSE {}

\* Mutation of cleanup: the address is cleared before tpfree reads it.
cleanup_cleared(t, o) ==
    /\ Uses(t, o)
    /\ ctx' = [ctx EXCEPT ![o] = FALSE]
    /\ cPtr' = [cPtr EXCEPT ![o] = IF Destructed(o) = {} THEN @ ELSE Null]
    /\ UNCHANGED <<heap, obj, doFinalize, user, call, svc, unsol>>

\* TypedBuffer.cleanup called by the program.
cleanup(t, o) ==
    /\ Uses(t, o)
    /\ Released(Destructed(o))
    /\ ctx' = [ctx EXCEPT ![o] = FALSE]
    /\ cPtr' = [cPtr EXCEPT ![o] = IF Destructed(o) = {} THEN @ ELSE Null]
    /\ UNCHANGED <<lost, obj, doFinalize, user, call, svc, unsol>>

\* The program drops its last reference.
Drop(t, o) ==
    /\ Uses(t, o)
    /\ user' = [user EXCEPT ![o] = NoThread]
    /\ UNCHANGED <<heap, obj, doFinalize, cPtr, ctx, call, svc, unsol>>

\* TypedBuffer.finalize, run by the garbage collector, calls cleanup().
finalize(o) ==
    /\ o \in obj /\ ~Held(o)
    /\ Released(Destructed(o))
    /\ obj' = obj \ {o}
    /\ doFinalize' = [doFinalize EXCEPT ![o] = FALSE]
    /\ cPtr' = [cPtr EXCEPT ![o] = Null]
    /\ ctx' = [ctx EXCEPT ![o] = FALSE]
    /\ UNCHANGED <<lost, user, call, svc, unsol>>

-----------------------------------------------------------------------------
Next ==
    \/ \E t \in Threads, p \in Ptrs, ty \in Types, o \in Objs :
          \/ tpalloc(t, p, ty, o)
          \/ svc_begin(t, p, ty, o)
          \/ unsol_begin(t, p, ty, o)
          \/ result_other(t, p, ty, o)
    \/ \E t \in Threads, q \in Ptrs, ty \in Types :
          \/ tpalloc_unsupported(t, q, ty)
          \/ result_unsupported(t, q, ty)
    \/ \E t \in Threads, o \in Objs, q \in Ptrs : tprealloc(t, o, q)
    \/ \E t \in Threads, o \in Objs :
          \/ set_failed(t, o)
          \/ call_begin(t, o)
          \/ cleanup(t, o)
          \/ Drop(t, o)
    \/ \E t, u \in Threads, o \in Objs : setAtmiCtx(t, o, u)
    \/ \E t \in Threads, o \in Objs \cup {NoObj} : tpreturn(t, o)
    \/ \E t \in Threads, q \in Ptrs : result_same(t, q)
    \/ \E t \in Threads :
          \/ call_begin_null(t)
          \/ result_null(t, FALSE)
          \/ call_error(t)
          \/ unsol_end(t)
    \/ \E o \in Objs : finalize(o)

Spec == Init /\ [][Next]_vars

\* The same program, except that it follows the rule of AtmiCtx.java: an
\* exception without a buffer means that the input buffer is still valid.
NextKeeping == Next \/ \E t \in Threads : result_null(t, TRUE)

SpecKeeping == Init /\ [][NextKeeping]_vars

-----------------------------------------------------------------------------
(* Properties. *)

\* "Only one instance of the buffer may hold the destructor for C counter
\* parts" (TypedBuffer): no two objects release the same address.
SingleDestructor ==
    \A o1, o2 \in obj :
        doFinalize[o1] /\ doFinalize[o2] /\ cPtr[o1] = cPtr[o2] /\ cPtr[o1] # Null
            => o1 = o2

\* Whenever the collector or cleanup() runs a destructor, the address it
\* frees is allocated and is not one that XATMI will release: no double free,
\* whatever calls, replies and returns came before.
DestructorSafe ==
    \A o \in obj :
        doFinalize[o] /\ cPtr[o] # Null
            => ~IsFree(cPtr[o]) /\ xatmi[cPtr[o]] = "none"

\* An object the program may still use, or a call still uses, has no dangling
\* address: its buffer is allocated, it is released by this object exactly
\* when XATMI does not release it, and no other object in use shares it.
NoDanglingUse ==
    \A o \in obj :
        Held(o) /\ cPtr[o] # Null
            => /\ ~IsFree(cPtr[o])
               /\ doFinalize[o] <=> xatmi[cPtr[o]] = "none"
               /\ \A o2 \in obj : Held(o2) /\ cPtr[o2] = cPtr[o] => o2 = o

\* Every allocated buffer is released some day: by the destructor of an
\* object, or by XATMI, except those whose address an error path dropped.
NoLeak ==
    \A p \in Ptrs :
        ~IsFree(p) /\ xatmi[p] = "none" /\ p \notin lost
            => \E o \in obj : doFinalize[o] /\ cPtr[o] = p

\* If a call fails and its exception carries no buffer, the input buffer the
\* program passed is still valid (AtmiCtx.java, error handling section).
InputStillValid ==
    \A o \in obj : user[o] # NoThread /\ cPtr[o] # Null => ~IsFree(cPtr[o])
=============================================================================
