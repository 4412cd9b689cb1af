------------------------------ MODULE XaSwitch ------------------------------
(***************************************************************************)
(* The XA switch ndrxjsw: Enduro/X calls its C entry points, each calls a  *)
(* method of the AtmiCtx object of the context, which works on a JDBC      *)
(* XAConnection and its XAResource and turns exceptions into XA codes.     *)
(* The database, the transaction manager that uses the codes, and crashes  *)
(* of the process are the environment.  The branches in Xids belong to one *)
(* global transaction.                                                     *)
(***************************************************************************)
EXTENDS Naturals, FiniteSets

CONSTANTS Ctxs,    \* ATMI contexts, each of one thread
          Xids,    \* branches of the transaction
          Conns,   \* identities of database connections
          Null,    \* Java null
          Count,   \* room in the buffer that xa_recover fills
          MaxLost  \* bound: connections that error paths abandon

ASSUME XaAssumption == Null \notin Conns /\ Count \in Nat \ {0} /\ MaxLost \in Nat

VARIABLES
    sw,        \* has ndrx_get_xa_switch returned the switch
    xads,      \* the static data source: null, set up in part, or ready
    xaConn,    \* AtmiCtx.xaConn
    xaRes,     \* AtmiCtx.xaRes, named by its connection
    up,        \* connections that the database has open
    lost,      \* connections that no context refers to any more
    branch,    \* state of each branch in the database
    on,        \* the connection it is worked on, until it is prepared or ended
    told,      \* what the return codes told the transaction manager
    decision   \* its decision

vars == <<sw, xads, xaConn, xaRes, up, lost, branch, on, told, decision>>

Open == {"active", "suspended", "idle"}

\* Type invariant.
TypeOK ==
    /\ sw \in BOOLEAN
    /\ xads \in {"null", "partly", "ready"}
    /\ xaConn \in [Ctxs -> Conns \cup {Null}]
    /\ xaRes \in [Ctxs -> Conns \cup {Null}]
    /\ up \in SUBSET Conns
    /\ lost \in SUBSET Conns
    /\ branch \in [Xids -> Open \cup {"none", "prepared", "readonly", "committed",
                                      "rolledback", "heuristic", "forgotten"}]
    /\ on \in [Xids -> Conns \cup {Null}]
    /\ told \in [Xids -> {"nothing", "yes", "committed", "rolledback", "heuristic"}]
    /\ decision \in {"none", "commit", "rollback"}

Init ==
    /\ sw = FALSE
    /\ xads = "null"
    /\ xaConn = [t \in Ctxs |-> Null]
    /\ xaRes = [t \in Ctxs |-> Null]
    /\ up = {}
    /\ lost = {}
    /\ branch = [x \in Xids |-> "none"]
    /\ on = [x \in Xids |-> Null]
    /\ told = [x \in Xids |-> "nothing"]
    /\ decision = "none"

-----------------------------------------------------------------------------
(* The database. *)

\* What a call of the resource of connection c may do to branch x: its next
\* state, and how the call ends.  "return" is a normal return, "runtime" an
\* exception other than XAException, anything else the code of an
\* XAException.  A call may take effect and still fail.
XAResource(op, c, x, jflags) ==
    LET b == branch[x]
        Done(n) == {[to |-> n, ends |-> e] : e \in {"return", "runtime", "XAER_RMFAIL"}}
        Refused == {[to |-> b, ends |-> e] : e \in {"runtime", "XAER_RMFAIL", "XAER_PROTO", "XA_OK"}}
        Good == CASE op = "start" ->
                       IF \/ b = "none" /\ jflags = {}
                          \/ b = "idle" /\ jflags = {"TMJOIN"}
                          \/ b = "suspended" /\ jflags = {"TMRESUME"} /\ on[x] = c
                       THEN Done("active") ELSE {}
                  [] op = "end" ->
                       IF b # "active" \/ on[x] # c THEN {}
                       ELSE Done(IF jflags = {"TMSUSPEND"} THEN "suspended" ELSE "idle")
                  [] op = "prepare" ->
                       IF b # "idle" THEN {}
                       ELSE Done("prepared") \cup {[to |-> "readonly", ends |-> "return"],
                                                   [to |-> "rolledback", ends |-> "XA_RBROLLBACK"]}
                  [] op = "commit" ->
                       IF b # "prepared" THEN {}
                       ELSE Done("committed") \cup {[to |-> "heuristic", ends |-> "XA_HEURRB"]}
                  [] op = "rollback" ->
                       IF b \in {"idle", "prepared"} THEN Done("rolledback") ELSE {}
                  [] op = "forget" -> IF b = "heuristic" THEN Done("forgotten") ELSE {}
    IN  Refused \cup (IF c \in up THEN Good ELSE {})

\* Connections S end: what is not prepared on them is rolled back.
Dropped(S) ==
    /\ branch' = [x \in Xids |-> IF on[x] \in S THEN "rolledback" ELSE branch[x]]
    /\ on' = [x \in Xids |-> IF on[x] \in S THEN Null ELSE on[x]]

\* The network or the database ends a connection.
disconnect(c) ==
    /\ c \in up
    /\ up' = up \ {c}
    /\ lost' = lost \ {c}
    /\ Dropped({c})
    /\ UNCHANGED <<sw, xads, xaConn, xaRes, told, decision>>

\* The process dies and is started again.
crash ==
    /\ sw' = FALSE
    /\ xads' = "null"
    /\ xaConn' = [t \in Ctxs |-> Null]
    /\ xaRes' = [t \in Ctxs |-> Null]
    /\ up' = {}
    /\ lost' = {}
    /\ Dropped(Conns)
    /\ UNCHANGED <<told, decision>>

-----------------------------------------------------------------------------
(* The driver is loaded. *)

\* AtmiCtx.ndrxj_xa_init: a data source is created, then given its settings.
ndrxj_xa_init == xads' = "ready"

\* The class is missing or cannot be created, or a setting cannot be applied:
\* then the new object stays in the static field.
ndrxj_xa_init_fails == xads' \in {xads, "partly"}

ndrx_get_xa_switch ==
    /\ ~sw
    /\ ndrxj_xa_init
    /\ sw' = TRUE
    /\ UNCHANGED <<xaConn, xaRes, up, lost, branch, on, told, decision>>

\* The library, the JVM, the configuration or the data source fails.
ndrx_get_xa_switch_fails ==
    /\ ~sw
    /\ ndrxj_xa_init_fails
    /\ UNCHANGED <<sw, xaConn, xaRes, up, lost, branch, on, told, decision>>

-----------------------------------------------------------------------------
(* Codes. *)

xa_is_open(t) ==
    IF xads = "null" THEN "XAER_PROTO"
    ELSE IF xaConn[t] # Null /\ xaRes[t] # Null THEN "XA_OK" ELSE "XAER_RMERR"

\* Mutation of xa_jerror_map: a code it does not know is passed on.
xa_jerror_map_other(jerr) == jerr

\* The code of an exception; codes that are no errors become XAER_RMERR.
xa_jerror_map(jerr) ==
    IF jerr \in {"XA_HEURRB", "XA_RBROLLBACK", "XAER_PROTO", "XAER_RMFAIL"} THEN jerr
    ELSE "XAER_RMERR"

\* Flags that XAResource does not have are dropped.
xa_xaresource_flags_map(cflags) ==
    cflags \cap {"TMJOIN", "TMSUSPEND", "TMRESUME", "TMSTARTRSCAN", "TMENDRSCAN",
                 "TMSUCCESS", "TMFAIL"}

\* Mutation of xa_xid_entry: an exception other than XAException is cleared
\* and the zero that the call returned is taken for XA_OK.
xa_xid_entry_cleared(ends) ==
    IF ends \in {"return", "runtime"} THEN "XA_OK" ELSE xa_jerror_map(ends)

\* The code that C returns for a call that ends so: an XAException is mapped
\* in Java, any other exception is pending when the call returns to C.
xa_xid_entry(ends) ==
    CASE ends = "return" -> "XA_OK"
      [] ends = "runtime" -> "XAER_RMERR"
      [] OTHER -> xa_jerror_map(ends)

\* A call with an xid on an open context; otherwise an error and no effect.
\* Learn[code]: what the transaction manager makes of a code.
XidCall(t, op, x, cflags, Learn) ==
    /\ sw /\ xa_is_open(t) = "XA_OK"
    /\ \E r \in XAResource(op, xaRes[t], x, xa_xaresource_flags_map(cflags)) :
          /\ branch' = [branch EXCEPT ![x] = r.to]
          /\ on' = [on EXCEPT ![x] = IF r.to \notin Open THEN Null
                                     ELSE IF r.to # branch[x] /\ op = "start" THEN xaRes[t] ELSE @]
          /\ told' = [told EXCEPT ![x] = LET code == xa_xid_entry(r.ends)
                                         IN  IF code \in DOMAIN Learn THEN Learn[code] ELSE @]
    /\ UNCHANGED <<sw, xads, xaConn, xaRes, up, lost, decision>>

-----------------------------------------------------------------------------
(* xa_open and xa_close. *)

\* The context gets connection c; what it held before is abandoned.
Connect(t, c) ==
    /\ sw /\ xa_is_open(t) # "XA_OK" /\ xads # "null"
    /\ c \in Conns \ (up \cup {xaConn[u] : u \in Ctxs} \cup {on[x] : x \in Xids})
    /\ up' = up \cup {c}
    /\ UNCHANGED <<sw, xads, branch, on, told, decision>>

Abandoned(t) == up \cap {xaConn[t]}

xa_open_entry(t, c) ==
    /\ Connect(t, c)
    /\ Cardinality(lost \cup Abandoned(t)) <= MaxLost
    /\ xaConn' = [xaConn EXCEPT ![t] = c]
    /\ xaRes' = [xaRes EXCEPT ![t] = c]
    /\ lost' = lost \cup Abandoned(t)

\* getXAResource fails: the connection is forgotten without being closed
\* after an SQLException, and kept without a resource after any other.
xa_open_entry_fails(t, c) ==
    /\ Connect(t, c)
    /\ \/ /\ xaConn' = [xaConn EXCEPT ![t] = Null]
          /\ lost' = lost \cup Abandoned(t) \cup {c}
       \/ /\ xaConn' = [xaConn EXCEPT ![t] = c]
          /\ lost' = lost \cup Abandoned(t)
    /\ Cardinality(lost') <= MaxLost
    /\ UNCHANGED xaRes

\* Mutation of xa_close_entry: the connection is forgotten, not closed.
xa_close_entry_forgets(t) ==
    /\ sw
    /\ xaConn' = [xaConn EXCEPT ![t] = Null]
    /\ xaRes' = [xaRes EXCEPT ![t] = Null]
    /\ UNCHANGED <<sw, xads, up, lost, branch, on, told, decision>>

\* Mutation of xa_close_entry: the connection is closed, not forgotten.
xa_close_entry_keeps(t) ==
    /\ sw
    /\ up' = up \ {xaConn[t]}
    /\ Dropped({xaConn[t]} \ {Null})
    /\ UNCHANGED <<sw, xads, xaConn, xaRes, lost, told, decision>>

xa_close_entry(t) ==
    /\ sw
    /\ up' = up \ {xaConn[t]}
    /\ Dropped({xaConn[t]} \ {Null})
    /\ xaConn' = [xaConn EXCEPT ![t] = Null]
    /\ xaRes' = [xaRes EXCEPT ![t] = Null]
    /\ UNCHANGED <<sw, xads, lost, told, decision>>

\* close() fails, with or without effect: the connection stays in the context,
\* the resource too unless the exception is an SQLException.
xa_close_entry_fails(t) ==
    /\ sw /\ xaConn[t] # Null
    /\ xaRes' \in {xaRes, [xaRes EXCEPT ![t] = Null]}
    /\ \/ up' = up \ {xaConn[t]} /\ Dropped({xaConn[t]})
       \/ UNCHANGED <<up, branch, on>>
    /\ UNCHANGED <<sw, xads, xaConn, lost, told, decision>>

-----------------------------------------------------------------------------
(* The entries of a transaction, called by the transaction manager. *)

Codes(c, what) == [code \in c |-> what]

xa_start_entry(t, x, cflags) ==
    /\ decision = "none" /\ told[x] = "nothing"
    /\ XidCall(t, "start", x, cflags, Codes({}, "nothing"))

xa_end_entry(t, x, cflags) == XidCall(t, "end", x, cflags, Codes({}, "nothing"))

xa_prepare_entry(t, x) ==
    /\ decision = "none" /\ told[x] = "nothing"
    /\ XidCall(t, "prepare", x, {},
               [code \in {"XA_OK", "XA_RBROLLBACK"} |-> IF code = "XA_OK" THEN "yes" ELSE "rolledback"])

xa_commit_entry(t, x) ==
    /\ decision = "commit" /\ told[x] = "yes"
    /\ XidCall(t, "commit", x, {},
               [code \in {"XA_OK", "XA_HEURRB"} |-> IF code = "XA_OK" THEN "committed" ELSE "heuristic"])

xa_rollback_entry(t, x) ==
    /\ decision = "rollback" /\ told[x] # "rolledback"
    /\ XidCall(t, "rollback", x, {}, Codes({"XA_OK"}, "rolledback"))

xa_forget_entry(t, x) ==
    /\ told[x] = "heuristic"
    /\ XidCall(t, "forget", x, {}, Codes({}, "nothing"))

\* recover() returns the prepared branches, the first Count of them fit.  An
\* exception other than XAException leaves no object to read the result from,
\* and the process dies.
xa_recover_entry(t) ==
    /\ sw /\ xa_is_open(t) = "XA_OK"
    /\ \/ /\ xaRes[t] \in up
          /\ LET list == {x \in Xids : branch[x] = "prepared"}
             IN  \E R \in SUBSET list :
                    /\ Cardinality(R) = IF Cardinality(list) < Count THEN Cardinality(list) ELSE Count
                    /\ told' = [x \in Xids |-> IF x \in R /\ told[x] = "nothing" THEN "yes" ELSE told[x]]
          /\ UNCHANGED <<sw, xads, xaConn, xaRes, up, lost, branch, on, decision>>
       \/ crash

\* The transaction manager commits if every branch voted yes.
decide ==
    /\ decision = "none"
    /\ decision' \in IF \A x \in Xids : told[x] = "yes" THEN {"commit", "rollback"} ELSE {"rollback"}
    /\ UNCHANGED <<sw, xads, xaConn, xaRes, up, lost, branch, on, told>>

-----------------------------------------------------------------------------
Next ==
    \/ \E c \in Conns : disconnect(c)
    \/ crash
    \/ ndrx_get_xa_switch \/ ndrx_get_xa_switch_fails
    \/ \E t \in Ctxs, c \in Conns : xa_open_entry(t, c) \/ xa_open_entry_fails(t, c)
    \/ \E t \in Ctxs : xa_close_entry(t) \/ xa_close_entry_fails(t) \/ xa_recover_entry(t)
    \/ \E t \in Ctxs, x \in Xids, f \in {{}, {"TMJOIN"}, {"TMRESUME"}} : xa_start_entry(t, x, f)
    \/ \E t \in Ctxs, x \in Xids, f \in {{"TMSUCCESS"}, {"TMFAIL"}, {"TMSUSPEND"}} : xa_end_entry(t, x, f)
    \/ \E t \in Ctxs, x \in Xids :
          \/ xa_prepare_entry(t, x) \/ xa_commit_entry(t, x)
          \/ xa_rollback_entry(t, x) \/ xa_forget_entry(t, x)
    \/ decide

Spec == Init /\ [][Next]_vars

Resolved(x) == branch[x] # "prepared"

\* The transaction manager goes on trying, and a call that can succeed again
\* and again succeeds some day, in one context or another.

FairSpec ==
    /\ Spec
    /\ SF_vars(ndrx_get_xa_switch)
    /\ SF_vars(\E t \in Ctxs : xa_close_entry(t))
    /\ SF_vars(\E t \in Ctxs, c \in Conns : xa_open_entry(t, c))
    /\ \A x \in Xids :
          SF_vars(/\ \E t \in Ctxs : xa_commit_entry(t, x) \/ xa_rollback_entry(t, x)
                  /\ Resolved(x)')

-----------------------------------------------------------------------------
(* Properties. *)

\* The codes never let the transaction manager commit one branch and lose
\* another, whatever exceptions, lost answers, lost connections and crashes
\* come between prepare and commit.
Atomic ==
    \A x, y \in Xids : branch[x] = "committed" => branch[y] \notin {"rolledback", "none"} \cup Open

\* XA_OK from commit or rollback, and a vote, are true: the database has done
\* it, or holds the branch prepared, also after a crash.
Truthful ==
    \A x \in Xids :
        /\ told[x] = "committed" => branch[x] = "committed"
        /\ told[x] = "rolledback" => branch[x] = "rolledback"
        /\ told[x] = "yes" /\ decision = "none" => branch[x] \in {"prepared", "readonly"}

\* A context that passes xa_is_open works on the connection it holds, which no
\* other context holds; every connection the database has open is held by a
\* context, except those an error path abandoned.
ConnectionsHeld ==
    /\ \A t \in Ctxs : xaConn[t] # Null /\ xaRes[t] # Null => xaRes[t] = xaConn[t]
    /\ \A t, u \in Ctxs : t # u /\ xaConn[t] # Null => xaConn[t] # xaConn[u]
    /\ \A c \in up : c \in lost \/ \E t \in Ctxs : xaConn[t] = c

\* No branch stays prepared for ever once there is a decision: after failed
\* opens, failed closes and crashes a context can be opened again.
Resolves == \A x \in Xids : decision # "none" ~> Resolved(x)
=============================================================================
