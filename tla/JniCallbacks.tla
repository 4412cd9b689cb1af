---------------------------- MODULE JniCallbacks ----------------------------
(***************************************************************************)
(* The C context of a thread over nested calls between Java and C.  A      *)
(* native method makes the context of its object current, works in C and   *)
(* leaves no context current.  In between C may call Java: an unsolicited  *)
(* message, an XA entry, a service, a function of a Boolean expression.    *)
(* Java then runs without a context and may call native methods again, of  *)
(* the same or of another context.  A callback finds its JNIEnv, its       *)
(* AtmiCtx object and the context to come back to in the private data of   *)
(* the current context.                                                    *)
(***************************************************************************)
EXTENDS Naturals, Sequences

CONSTANTS JThreads,  \* threads that Java started
          CThreads,  \* threads of Enduro/X that call XA entries
          Ctxs,      \* C contexts
          Ubfs,      \* UBF buffer objects
          Null,      \* no context, no buffer, no thread
          MaxDepth   \* bound: native frames on a stack

ASSUME JniAssumption ==
    /\ JThreads \cap CThreads = {}
    /\ Null \notin Ctxs \cup Ubfs \cup JThreads \cup CThreads
    /\ MaxDepth \in Nat \ {0}

Threads == JThreads \cup CThreads

VARIABLES
    cur,    \* cur[t]: the current C context of thread t
    stack,  \* stack[t]: native frames, innermost last
    jenv,   \* NDRXJ_JENV of a context: the thread it belongs to
    jref,   \* NDRXJ_JATMICTX: the reference to the AtmiCtx object
    cctx,   \* NDRXJ_CCTX
    srv,    \* is NDRXJ_CTXFLAGS_SRV set
    cbUbf   \* M_cb_ubf, thread local; Null: not set or a dead local reference

vars == <<cur, stack, jenv, jref, cctx, srv, cbUbf>>

\* A frame: the context it was entered with, the operation, the callback that
\* runs inside ("c" when none does), the context that was current when the
\* callback began, the buffer of a Boolean expression and the buffer that its
\* callback was given.
Frames == [ctx : Ctxs,
           op : {"call", "bool", "native", "init", "serve", "stop", "fail"},
           at : {"c", "unsol", "xa", "bool", "svrinit", "svc", "svrdone"},
           saved : Ctxs \cup {Null},
           ub : Ubfs \cup {Null}, given : Ubfs \cup {Null}]

Frame(c, op, u) == [ctx |-> c, op |-> op, at |-> "c", saved |-> Null, ub |-> u, given |-> Null]

\* Type invariant.
TypeOK ==
    /\ cur \in [Threads -> Ctxs \cup {Null}]
    /\ DOMAIN stack = Threads /\ \A t \in Threads : stack[t] \in Seq(Frames)
    /\ jenv \in [Ctxs -> Threads \cup {Null}]
    /\ jref \in [Ctxs -> {"none", "weak", "global", "deleted"}]
    /\ cctx \in [Ctxs -> Ctxs \cup {Null}]
    /\ srv \in [Ctxs -> BOOLEAN]
    /\ cbUbf \in [Threads -> Ubfs \cup {Null}]

\* Each thread of Enduro/X runs C code on a context of its own.
Init ==
    /\ \E own \in [CThreads -> Ctxs] :
          /\ \A t, u \in CThreads : own[t] = own[u] => t = u
          /\ cur = [t \in Threads |-> IF t \in CThreads THEN own[t] ELSE Null]
          /\ stack = [t \in Threads |-> IF t \in CThreads
                                        THEN <<Frame(own[t], "native", Null)>> ELSE <<>>]
    /\ jenv = [c \in Ctxs |-> Null]
    /\ jref = [c \in Ctxs |-> "none"]
    /\ cctx = [c \in Ctxs |-> Null]
    /\ srv = [c \in Ctxs |-> FALSE]
    /\ cbUbf = [t \in Threads |-> Null]

\* The operations of a frame of tpRunC.
ServerOps == {"init", "serve", "stop", "fail"}

Top(t) == stack[t][Len(stack[t])]
InC(t) == stack[t] # <<>> /\ Top(t).at = "c"
InJava(t) == ~InC(t)

\* t may use c: no other thread works with it.
Mine(t, c) == \A u \in Threads \ {t} : \A i \in DOMAIN stack[u] : stack[u][i].ctx # c

Push(t, f) == stack' = [stack EXCEPT ![t] = Append(@, f)]
Pop(t) == stack' = [stack EXCEPT ![t] = SubSeq(@, 1, Len(@) - 1)]
SetTop(t, f) == stack' = [stack EXCEPT ![t][Len(stack[t])] = f]
SetCur(t, c) == cur' = [cur EXCEPT ![t] = c]

-----------------------------------------------------------------------------
(* Native methods. *)

\* Mutation of get_ctx: the environment is stored once.
get_ctx_once(t, c) ==
    /\ jenv' = [jenv EXCEPT ![c] = IF @ = Null THEN t ELSE @]
    /\ jref' = [jref EXCEPT ![c] = IF ~srv[c] /\ @ = "none" THEN "weak" ELSE @]
    /\ cctx' = [cctx EXCEPT ![c] = IF srv[c] THEN @ ELSE c]

\* ndrxj_get_ctx, after tpsetctxt(c): the private data of the context.
get_ctx(t, c) ==
    /\ jenv' = [jenv EXCEPT ![c] = t]
    /\ jref' = [jref EXCEPT ![c] = IF ~srv[c] /\ @ = "none" THEN "weak" ELSE @]
    /\ cctx' = [cctx EXCEPT ![c] = IF srv[c] THEN @ ELSE c]

\* A native method that calls no Java code (tpadvertise, tpreturn, tplog ...).
native(t, c) ==
    /\ InJava(t) /\ Mine(t, c)
    /\ get_ctx(t, c)
    /\ SetCur(t, Null)
    /\ UNCHANGED <<stack, srv, cbUbf>>

\* A native method inside which messages and XA entries arrive (tpcall ...).
call_begin(t, c) ==
    /\ InJava(t) /\ Mine(t, c) /\ Len(stack[t]) < MaxDepth
    /\ get_ctx(t, c)
    /\ SetCur(t, c)
    /\ Push(t, Frame(c, "call", Null))
    /\ UNCHANGED <<srv, cbUbf>>

\* Bboolev, Bfloatev and Bqboolev of buffer u.
bool_begin(t, c, u) ==
    /\ InJava(t) /\ Mine(t, c) /\ Len(stack[t]) < MaxDepth
    /\ cbUbf' = [cbUbf EXCEPT ![t] = u]
    /\ get_ctx(t, c)
    /\ SetCur(t, c)
    /\ Push(t, Frame(c, "bool", u))
    /\ UNCHANGED srv

call_end(t) ==
    /\ InC(t) /\ Top(t).op = "call"
    /\ SetCur(t, Null)
    /\ Pop(t)
    /\ UNCHANGED <<jenv, jref, cctx, srv, cbUbf>>

\* M_cb_ubf keeps a local reference that the return to Java makes invalid.
bool_end(t) ==
    /\ InC(t) /\ Top(t).op = "bool"
    /\ SetCur(t, Null)
    /\ Pop(t)
    /\ cbUbf' = [cbUbf EXCEPT ![t] = Null]
    /\ UNCHANGED <<jenv, jref, cctx, srv>>

\* tpRunC enters the server loop with a strong reference to the context.  A
\* program does not start a server inside a callback of the same context.
tpRunC(t, c) ==
    /\ InJava(t) /\ Mine(t, c) /\ Len(stack[t]) < MaxDepth
    /\ \A i \in DOMAIN stack[t] : stack[t][i].ctx # c
    /\ jenv' = [jenv EXCEPT ![c] = t]
    /\ jref' = [jref EXCEPT ![c] = "global"]
    /\ cctx' = [cctx EXCEPT ![c] = c]
    /\ srv' = [srv EXCEPT ![c] = TRUE]
    /\ SetCur(t, c)
    /\ Push(t, Frame(c, "init", Null))
    /\ UNCHANGED cbUbf

\* It fails before or in tpSvrInit, or the server has stopped.
tpRunC_end(t) ==
    /\ InC(t) /\ Top(t).op \in {"init", "stop", "fail"}
    /\ jref' = [jref EXCEPT ![Top(t).ctx] = "deleted"]
    /\ SetCur(t, Null)
    /\ Pop(t)
    /\ UNCHANGED <<jenv, cctx, srv, cbUbf>>

-----------------------------------------------------------------------------
(* Callbacks. *)

\* C calls Java: no context is current meanwhile.
Callback(t, kind, given) ==
    /\ SetCur(t, Null)
    /\ SetTop(t, [Top(t) EXCEPT !.at = kind, !.saved = cur[t], !.given = given])

ndrx_unsol_dispatcher(t) ==
    /\ InC(t) /\ Top(t).op = "call"
    /\ Callback(t, "unsol", Null)
    /\ UNCHANGED <<jenv, jref, cctx, srv, cbUbf>>

\* Mutation of xa_entry: the new context does not note its C context.
xa_entry_unset(t) ==
    /\ InC(t) /\ Top(t).op \in {"call", "serve", "native"}
    /\ IF jref[cur[t]] = "none"
       THEN /\ jenv' = [jenv EXCEPT ![cur[t]] = t]
            /\ jref' = [jref EXCEPT ![cur[t]] = "global"]
            /\ srv' = [srv EXCEPT ![cur[t]] = TRUE]
            /\ UNCHANGED cctx
       ELSE UNCHANGED <<jenv, jref, cctx, srv>>
    /\ Callback(t, "xa", Null)
    /\ UNCHANGED cbUbf

\* An XA entry; a context that Java does not know gets an AtmiCtx object
\* first (ndrxj_alloc_context).
xa_entry(t) ==
    /\ InC(t) /\ Top(t).op \in {"call", "serve", "native"}
    /\ IF jref[cur[t]] = "none"
       THEN /\ jenv' = [jenv EXCEPT ![cur[t]] = t]
            /\ cctx' = [cctx EXCEPT ![cur[t]] = cur[t]]
            /\ jref' = [jref EXCEPT ![cur[t]] = "global"]
            /\ srv' = [srv EXCEPT ![cur[t]] = TRUE]
       ELSE UNCHANGED <<jenv, jref, cctx, srv>>
    /\ Callback(t, "xa", Null)
    /\ UNCHANGED cbUbf

\* ndrxj_alloc_context fails: the thread is attached, the C context may be
\* noted, and there is no AtmiCtx object.
xa_entry_fails(t) ==
    /\ InC(t) /\ Top(t).op \in {"call", "serve", "native"} /\ jref[cur[t]] = "none"
    /\ jenv' = [jenv EXCEPT ![cur[t]] = t]
    /\ cctx' \in {cctx, [cctx EXCEPT ![cur[t]] = cur[t]]}
    /\ UNCHANGED <<cur, stack, jref, srv, cbUbf>>

\* The object is called through M_cb_ubf; a dead reference may be any object.
Bbool_callback_function(t) ==
    /\ InC(t) /\ Top(t).op = "bool"
    /\ \E u \in IF cbUbf[t] = Null THEN Ubfs \cup {Null} ELSE {cbUbf[t]} :
          Callback(t, "bool", u)
    /\ UNCHANGED <<jenv, jref, cctx, srv, cbUbf>>

tpsvrinit(t) ==
    /\ InC(t) /\ Top(t).op = "init"
    /\ Callback(t, "svrinit", Null)
    /\ UNCHANGED <<jenv, jref, cctx, srv, cbUbf>>

dispatch_call(t) ==
    /\ InC(t) /\ Top(t).op = "serve"
    /\ Callback(t, "svc", Null)
    /\ UNCHANGED <<jenv, jref, cctx, srv, cbUbf>>

tpsvrdone(t) ==
    /\ InC(t) /\ Top(t).op \in {"serve", "fail"}
    /\ Callback(t, "svrdone", Null)
    /\ UNCHANGED <<jenv, jref, cctx, srv, cbUbf>>

\* Java returns to C.  unsol and Boolean callbacks restore the context that
\* tpgetctxt gave them, the others NDRXJ_CCTX of the private data they hold.
callback_end(t) ==
    /\ stack[t] # <<>> /\ Top(t).at # "c"
    /\ LET f == Top(t)
       IN  /\ SetCur(t, IF f.at \in {"unsol", "bool"} THEN f.saved ELSE cctx[f.saved])
           /\ \E op \in CASE f.at = "svrinit" -> {"serve", "fail"}
                          [] f.at = "svrdone" -> {"stop"}
                          [] OTHER -> {f.op} :
                 SetTop(t, [f EXCEPT !.at = "c", !.saved = Null, !.given = Null, !.op = op])
    /\ UNCHANGED <<jenv, jref, cctx, srv, cbUbf>>

-----------------------------------------------------------------------------
Next ==
    \/ \E t \in Threads, c \in Ctxs : native(t, c) \/ call_begin(t, c)
    \/ \E t \in JThreads, c \in Ctxs : tpRunC(t, c)
    \/ \E t \in Threads, c \in Ctxs, u \in Ubfs : bool_begin(t, c, u)
    \/ \E t \in Threads :
          \/ call_end(t) \/ bool_end(t) \/ tpRunC_end(t)
          \/ ndrx_unsol_dispatcher(t) \/ xa_entry(t) \/ xa_entry_fails(t)
          \/ Bbool_callback_function(t)
          \/ tpsvrinit(t) \/ dispatch_call(t) \/ tpsvrdone(t) \/ callback_end(t)

Spec == Init /\ [][Next]_vars

-----------------------------------------------------------------------------
(* Properties. *)

\* However calls and callbacks nest, C code runs on the context its native
\* method was entered with, and Java code without a context.
RightContext ==
    \A t \in Threads : cur[t] = IF InC(t) THEN Top(t).ctx ELSE Null

\* Whenever C code may call back, the private data of its context is fit for
\* it: the JNIEnv is the one of this thread, although another thread may have
\* used the context before, the context to come back to is noted, and a server
\* holds its AtmiCtx object by a strong reference whatever native methods its
\* services call.  A client call has a live reference unless a server has run
\* on the context before.
CallbackReady ==
    \A t \in Threads : InC(t) =>
        LET c == Top(t).ctx
        IN  jref[c] # "none" \/ Top(t).op # "native" =>
            /\ jenv[c] = t /\ cctx[c] = c
            /\ jref[c] \in CASE Top(t).op \in ServerOps -> {"global"}
                            [] srv[c] -> {"global", "deleted"}
                            [] OTHER -> {"weak"}

\* A function of a Boolean expression is given the "UBF buffer on to which
\* evaluate is done" (Bboolcbf).
GivenEvaluated ==
    \A t \in Threads : \A i \in DOMAIN stack[t] :
        stack[t][i].at = "bool" => stack[t][i].given = stack[t][i].ub
=============================================================================
