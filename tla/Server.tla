------------------------------- MODULE Server -------------------------------
(***************************************************************************)
(* Services and their requests, on top of the native frames and callbacks  *)
(* of JniCallbacks.  The C library calls dispatch_call for an advertised   *)
(* service; AtmiCtx.tpCallDispatch looks the Service object up and answers *)
(* for a service that throws.  A service answers by tpreturn or tpforward, *)
(* or hands its request to a worker thread, which answers on a context of  *)
(* its own.  Unsolicited messages reach the UnsolCallback of a context.    *)
(***************************************************************************)
EXTENDS JniCallbacks

CONSTANTS Svcs,  \* service names
          Objs,  \* Service objects
          Reqs   \* request identities, used again once a request is over

ASSUME ServerAssumption == Null \notin Svcs \cup Objs \cup Reqs

VARIABLES
    advertised,  \* names the C library dispatches
    svcMap,      \* AtmiCtx.svcMap
    promised,    \* the object of the last tpadvertise that succeeded
    hold,        \* hold[c]: the request that C context c works for
    data,        \* data[r]: its server context data
    ans,         \* ans[r]: answers sent, 2 for more than one
    owed,        \* requests that are owed exactly one answer
    caught,      \* contexts whose service has thrown and been answered for
    unsol        \* contexts with ndrx_unsol_dispatcher registered in C

callVars == <<hold, data, ans, owed, caught>>
tableVars == <<advertised, svcMap, promised>>
serverVars == <<tableVars, callVars, unsol>>

\* Type invariant.
ServerTypeOK ==
    /\ advertised \subseteq Svcs
    /\ svcMap \in [Svcs -> Objs \cup {Null}] /\ promised \in [Svcs -> Objs \cup {Null}]
    /\ hold \in [Ctxs -> Reqs \cup {Null}]
    /\ data \in [Reqs -> {"no", "captured", "set", "freed"}]
    /\ ans \in [Reqs -> 0..2]
    /\ owed \subseteq Reqs /\ caught \subseteq Ctxs
    /\ unsol \subseteq Ctxs

ServerInit ==
    /\ Init
    /\ advertised = {}
    /\ svcMap = [s \in Svcs |-> Null] /\ promised = [s \in Svcs |-> Null]
    /\ hold = [c \in Ctxs |-> Null]
    /\ data = [r \in Reqs |-> "no"] /\ ans = [r \in Reqs |-> 0]
    /\ owed = {} /\ caught = {}
    /\ unsol = {}

Serves(t, c) == \E i \in DOMAIN stack[t] : stack[t][i].ctx = c /\ stack[t][i].op \in ServerOps
InService(t, c) == \E i \in DOMAIN stack[t] : stack[t][i].ctx = c /\ stack[t][i].at = "svc"

\* Thread t runs Java code of the program: not the end of tpCallDispatch.
Program(t) == ~(InJava(t) /\ stack[t] # <<>> /\ Top(t).at = "svc" /\ Top(t).ctx \in caught)

\* Nobody works for request r any more.
Over(r) == /\ \A c \in Ctxs : hold[c] # r
           /\ data[r] \in {"no", "freed"}

More(n) == IF n = 0 THEN 1 ELSE 2

-----------------------------------------------------------------------------
(* The server and its services. *)

\* One server at a time: the C library holds one; not on the context of a
\* worker that works for a request.
tprun(t, c) ==
    /\ Program(t) /\ hold[c] = Null
    /\ \A u \in Threads, d \in Ctxs : ~Serves(u, d)
    /\ tpRunC(t, c)
    /\ UNCHANGED serverVars

\* The C library forgets its services; svcMap is static and keeps them.
tprun_end(t) ==
    /\ tpRunC_end(t)
    /\ advertised' = {} /\ promised' = [s \in Svcs |-> Null]
    /\ UNCHANGED <<svcMap, callVars, unsol>>

\* Mutation of tpadvertise: the object is put before C is asked.
tpadvertise_first(t, c, s, o) ==
    /\ Program(t) /\ Serves(t, c)
    /\ native(t, c)
    /\ svcMap' = [svcMap EXCEPT ![s] = o]
    /\ \/ /\ advertised' = advertised \cup {s}
          /\ promised' = [promised EXCEPT ![s] = o]
       \/ UNCHANGED <<advertised, promised>>
    /\ UNCHANGED <<callVars, unsol>>

\* tpadvertiseC, then the object is put into svcMap; or tpadvertiseC throws.
tpadvertise(t, c, s, o) ==
    /\ Program(t) /\ Serves(t, c)
    /\ native(t, c)
    /\ \/ /\ advertised' = advertised \cup {s}
          /\ promised' = [promised EXCEPT ![s] = o]
          /\ svcMap' = [svcMap EXCEPT ![s] = o]
       \/ UNCHANGED tableVars
    /\ UNCHANGED <<callVars, unsol>>

\* A new request for context c.
Received(c, r) ==
    /\ Over(r)
    /\ hold' = [hold EXCEPT ![c] = r]
    /\ data' = [data EXCEPT ![r] = "no"]
    /\ ans' = [ans EXCEPT ![r] = 0]
    /\ owed' = owed \cup {r}

dispatch(t, s, r) ==
    /\ dispatch_call(t) /\ s \in advertised
    /\ Received(Top(t).ctx, r)
    /\ UNCHANGED <<tableVars, caught, unsol>>

\* The TpSvcInfo or its ClientId cannot be made: no service is called, and the
\* request is left to the C library.
TpSvcInfo_translate_fails(t, r) ==
    /\ InC(t) /\ Top(t).op = "serve" /\ advertised # {}
    /\ Over(r)
    /\ ans' = [ans EXCEPT ![r] = 0]
    /\ data' = [data EXCEPT ![r] = "no"]
    /\ owed' = owed \ {r}
    /\ UNCHANGED <<vars, tableVars, hold, caught, unsol>>

\* The request of c is answered, by a service or by a worker that is done.
Answer(t, c) ==
    /\ Program(t) /\ native(t, c)
    /\ hold[c] # Null /\ ans[hold[c]] = 0
    /\ InService(t, c) => data[hold[c]] = "no"
    /\ ans' = [ans EXCEPT ![hold[c]] = 1]
    /\ hold' = IF InService(t, c) THEN hold ELSE [hold EXCEPT ![c] = Null]
    /\ UNCHANGED <<tableVars, data, owed, caught, unsol>>

tpreturn(t, c) == Answer(t, c)
tpforward(t, c) == Answer(t, c)

\* Mutation of tpCallDispatch: the exception is logged only.
tpCallDispatch_log(t) ==
    LET c == Top(t).ctx
    IN  /\ InJava(t) /\ stack[t] # <<>> /\ Top(t).at = "svc" /\ Program(t)
        /\ native(t, c)
        /\ caught' = caught \cup {c}
        /\ UNCHANGED <<tableVars, hold, data, ans, owed, unsol>>

\* The service throws an exception, at any time: tpCallDispatch logs it and
\* answers TPFAIL, once more if the service had answered or handed over.
tpCallDispatch(t) ==
    LET c == Top(t).ctx
        r == hold[c]
    IN  /\ InJava(t) /\ stack[t] # <<>> /\ Top(t).at = "svc" /\ Program(t)
        /\ native(t, c)
        /\ caught' = caught \cup {c}
        /\ IF r = Null THEN UNCHANGED <<ans, owed>>
           ELSE /\ ans' = [ans EXCEPT ![r] = More(@)]
                /\ owed' = IF ans[r] > 0 \/ data[r] # "no" THEN owed \ {r} ELSE owed
        /\ UNCHANGED <<tableVars, hold, data, unsol>>

\* tpService returns, or throws an Error that C logs and clears.  Nothing is
\* owed for a request that the service neither answered nor handed over.
service_end(t) ==
    LET c == Top(t).ctx
        r == hold[c]
    IN  /\ callback_end(t) /\ Top(t).at = "svc"
        /\ hold' = [hold EXCEPT ![c] = Null]
        /\ caught' = caught \ {c}
        /\ owed' = IF c \notin caught /\ r # Null /\ ans[r] = 0 /\ data[r] = "no"
                   THEN owed \ {r} ELSE owed
        /\ UNCHANGED <<tableVars, data, ans, unsol>>

-----------------------------------------------------------------------------
(* Requests that a worker thread answers. *)

\* The service captures its request; allocation may fail.
tpsrvgetctxdata(t, c) ==
    /\ Program(t) /\ InService(t, c) /\ native(t, c)
    /\ hold[c] # Null /\ ans[hold[c]] = 0 /\ data[hold[c]] = "no"
    /\ data' \in {data, [data EXCEPT ![hold[c]] = "captured"]}
    /\ UNCHANGED <<tableVars, hold, ans, owed, caught, unsol>>

\* A worker makes it the request of its own context.
tpsrvsetctxdata(t, c, r) ==
    /\ Program(t) /\ native(t, c)
    /\ data[r] = "captured" /\ hold[c] = Null /\ ~Serves(t, c)
    /\ \/ /\ hold' = [hold EXCEPT ![c] = r]
          /\ data' = [data EXCEPT ![r] = "set"]
       \/ UNCHANGED <<hold, data>>
    /\ UNCHANGED <<tableVars, ans, owed, caught, unsol>>

tpsrvfreectxdata(t, c, r) ==
    /\ Program(t) /\ native(t, c)
    /\ data[r] = "set"
    /\ data' = [data EXCEPT ![r] = "freed"]
    /\ UNCHANGED <<tableVars, hold, ans, owed, caught, unsol>>

\* The service that has handed its request over goes on with the next one.
tpcontinue(t, c) ==
    /\ Program(t) /\ InService(t, c) /\ native(t, c)
    /\ hold[c] # Null /\ data[hold[c]] # "no"
    /\ hold' = [hold EXCEPT ![c] = Null]
    /\ UNCHANGED <<tableVars, data, ans, owed, caught, unsol>>

-----------------------------------------------------------------------------
(* Unsolicited messages. *)

\* Java sets unslcb first, then C registers or removes the dispatcher; when
\* tpsetunsolC throws, C keeps what it had.  unsolDispatch does nothing when
\* unslcb is null.
tpsetunsol(t, c, cb) ==
    /\ Program(t) /\ native(t, c)
    /\ unsol' \in {unsol, IF cb THEN unsol \cup {c} ELSE unsol \ {c}}
    /\ UNCHANGED <<tableVars, callVars>>

tpnotify(t, c) == Program(t) /\ native(t, c) /\ UNCHANGED serverVars
tpbroadcast(t, c) == Program(t) /\ native(t, c) /\ UNCHANGED serverVars

\* A message inside a blocking call or tpchkunsol, if C knows the dispatcher.
unsol_message(t) ==
    /\ ndrx_unsol_dispatcher(t)
    /\ Top(t).ctx \in unsol
    /\ UNCHANGED serverVars

tpchkunsol(t, c) == Program(t) /\ call_begin(t, c) /\ UNCHANGED serverVars

-----------------------------------------------------------------------------
(* What JniCallbacks has besides. *)
Others ==
    /\ \/ \E t \in Threads, c \in Ctxs :
             Program(t) /\ (native(t, c) \/ call_begin(t, c))
       \/ \E t \in Threads, c \in Ctxs, u \in Ubfs : Program(t) /\ bool_begin(t, c, u)
       \/ \E t \in Threads :
             \/ call_end(t) \/ bool_end(t)
             \/ xa_entry(t) \/ xa_entry_fails(t) \/ Bbool_callback_function(t)
             \/ tpsvrinit(t) \/ tpsvrdone(t)
             \/ callback_end(t) /\ Top(t).at # "svc"
    /\ UNCHANGED serverVars

ServerNext ==
    \/ \E t \in JThreads, c \in Ctxs : tprun(t, c)
    \/ \E t \in Threads, c \in Ctxs :
          \/ \E s \in Svcs, o \in Objs : tpadvertise(t, c, s, o)
          \/ tpreturn(t, c) \/ tpforward(t, c)
          \/ tpsrvgetctxdata(t, c) \/ tpcontinue(t, c)
          \/ \E r \in Reqs : tpsrvsetctxdata(t, c, r) \/ tpsrvfreectxdata(t, c, r)
          \/ \E cb \in BOOLEAN : tpsetunsol(t, c, cb)
          \/ tpnotify(t, c) \/ tpbroadcast(t, c) \/ tpchkunsol(t, c)
    \/ \E t \in Threads :
          \/ tprun_end(t)
          \/ \E r \in Reqs : \/ \E s \in Svcs : dispatch(t, s, r)
                             \/ TpSvcInfo_translate_fails(t, r)
          \/ tpCallDispatch(t) \/ service_end(t) \/ unsol_message(t)
    \/ Others

ServerSpec == ServerInit /\ [][ServerNext]_<<vars, serverVars>>

-----------------------------------------------------------------------------
(* Properties. *)

\* A request that its service answers, hands over or leaves by an exception
\* gets one answer: never a second one, and none is missing once nobody works
\* for it, whichever thread and context answered and wherever the exception
\* came from.  Nothing is owed when a service throws after it has answered or
\* handed over (tpCallDispatch then answers again), returns without an answer,
\* or is never called.
AnsweredOnce ==
    \A r \in owed : ans[r] <= 1 /\ (Over(r) => ans[r] = 1)

\* A request is served by the object of the last tpadvertise of its name that
\* succeeded: one that failed changes nothing, and what an earlier server of
\* the process left in the static svcMap is not used.
ServedAsAdvertised ==
    \A s \in advertised : svcMap[s] # Null /\ svcMap[s] = promised[s]
=============================================================================
