--------------------------- MODULE XaSwitchProofs ---------------------------
(***************************************************************************)
(* Proofs about the XA switch: for any contexts, branches and connections  *)
(* the codes keep the transaction atomic and what the transaction manager  *)
(* was told stays true; the contexts hold the connections.                 *)
(***************************************************************************)
EXTENDS XaSwitch, TLAPS

\* What a branch may be once the transaction manager decided to commit.
Voted == {"prepared", "readonly", "committed", "heuristic", "forgotten"}

\* A branch in state b, worked on over connection o, of which the transaction
\* manager was told w, while its decision is d.
BranchOK(b, o, w, d) ==
    /\ o # Null => b \in Open
    /\ b = "committed" => d = "commit"
    /\ w = "committed" => b = "committed"
    /\ w = "rolledback" => b = "rolledback"
    /\ w = "yes" /\ d = "none" => b \in {"prepared", "readonly"}
    /\ d = "commit" => w \in {"yes", "committed", "heuristic"} /\ b \in Voted

BranchesOK == \A x \in Xids : BranchOK(branch[x], on[x], told[x], decision)

\* A context has no resource without its connection; the rest as in
\* ConnectionsHeld.
ContextsOK ==
    /\ \A t \in Ctxs : xaRes[t] # Null => xaRes[t] = xaConn[t]
    /\ \A t, u \in Ctxs : t # u /\ xaConn[t] # Null => xaConn[t] # xaConn[u]
    /\ \A c \in up : c \in lost \/ \E t \in Ctxs : xaConn[t] = c

IndInv == TypeOK /\ BranchesOK /\ ContextsOK

-----------------------------------------------------------------------------
(* Operators. *)

\* Only a normal return becomes XA_OK, and the codes of a rollback and of a
\* heuristic rollback are those of the exception.
LEMMA Code ==
    ASSUME NEW ends
    PROVE  /\ xa_xid_entry(ends) = "XA_OK" => ends = "return"
           /\ xa_xid_entry(ends) = "XA_RBROLLBACK" => ends = "XA_RBROLLBACK"
           /\ xa_xid_entry(ends) = "XA_HEURRB" => ends = "XA_HEURRB"
  BY DEF xa_xid_entry, xa_jerror_map

\* The ways a call of the resource ends: with an effect, or refused.
LEMMA StartResult ==
    ASSUME NEW c, NEW x, NEW f, NEW r \in XAResource("start", c, x, f)
    PROVE  \/ r.to = branch[x]
           \/ branch[x] \in {"none", "idle", "suspended"} /\ r.to = "active"
  BY DEF XAResource

\* The same for end ...
LEMMA EndResult ==
    ASSUME NEW c, NEW x, NEW f, NEW r \in XAResource("end", c, x, f)
    PROVE  \/ r.to = branch[x]
           \/ branch[x] = "active" /\ r.to \in {"suspended", "idle"}
  BY DEF XAResource

\* ... prepare, where a refusal never returns normally ...
LEMMA PrepareResult ==
    ASSUME NEW c, NEW x, NEW f, NEW r \in XAResource("prepare", c, x, f)
    PROVE  \/ r.to = branch[x] /\ r.ends \notin {"return", "XA_RBROLLBACK"}
           \/ /\ branch[x] = "idle" /\ r.to \in {"prepared", "readonly", "rolledback"}
              /\ r.ends = "return" => r.to \in {"prepared", "readonly"}
              /\ r.ends = "XA_RBROLLBACK" => r.to = "rolledback"
  BY DEF XAResource

\* ... commit ...
LEMMA CommitResult ==
    ASSUME NEW c, NEW x, NEW f, NEW r \in XAResource("commit", c, x, f)
    PROVE  \/ r.to = branch[x] /\ r.ends # "return"
           \/ /\ branch[x] = "prepared" /\ r.to \in {"committed", "heuristic"}
              /\ r.ends = "return" => r.to = "committed"
  BY DEF XAResource

\* ... rollback ...
LEMMA RollbackResult ==
    ASSUME NEW c, NEW x, NEW f, NEW r \in XAResource("rollback", c, x, f)
    PROVE  \/ r.to = branch[x] /\ r.ends # "return"
           \/ branch[x] \in {"idle", "prepared"} /\ r.to = "rolledback"
  BY DEF XAResource

\* ... and forget.
LEMMA ForgetResult ==
    ASSUME NEW c, NEW x, NEW f, NEW r \in XAResource("forget", c, x, f)
    PROVE  \/ r.to = branch[x]
           \/ branch[x] = "heuristic" /\ r.to = "forgotten"
  BY DEF XAResource

\* A call with an xid changes at most that branch.
LEMMA XidCallEffect ==
    ASSUME TypeOK, NEW t, NEW op, NEW x \in Xids, NEW f, NEW Learn, XidCall(t, op, x, f, Learn)
    PROVE  \E r \in XAResource(op, xaRes[t], x, xa_xaresource_flags_map(f)) :
              /\ branch'[x] = r.to
              /\ r.to \notin Open => on'[x] = Null
              /\ told'[x] = IF xa_xid_entry(r.ends) \in DOMAIN Learn THEN Learn[xa_xid_entry(r.ends)]
                            ELSE told[x]
              /\ \A y \in Xids \ {x} : branch'[y] = branch[y] /\ on'[y] = on[y] /\ told'[y] = told[y]
              /\ UNCHANGED <<sw, xads, xaConn, xaRes, up, lost, decision>>
  BY Zenon DEF XidCall, TypeOK

-----------------------------------------------------------------------------
(* Branches. *)

\* The state of other branches does not matter to a branch.
LEMMA OneBranch ==
    ASSUME BranchesOK, NEW x \in Xids,
           \A y \in Xids \ {x} : branch'[y] = branch[y] /\ on'[y] = on[y] /\ told'[y] = told[y],
           decision' = decision,
           BranchOK(branch'[x], on'[x], told'[x], decision')
    PROVE  BranchesOK'
  <1>1. SUFFICES ASSUME NEW y \in Xids
                 PROVE  BranchOK(branch'[y], on'[y], told'[y], decision')
    BY DEF BranchesOK, BranchOK
  <1>2. CASE y = x
    BY <1>2
  <1>3. CASE y # x
    BY <1>3 DEF BranchesOK
  <1> QED BY <1>2, <1>3

\* xa_start_entry works on branches of which nothing was told.
LEMMA StartKeeps ==
    ASSUME TypeOK, BranchesOK, NEW t \in Ctxs, NEW x \in Xids, NEW f, xa_start_entry(t, x, f)
    PROVE  BranchesOK'
  <1>1. PICK r \in XAResource("start", xaRes[t], x, xa_xaresource_flags_map(f)) :
              /\ branch'[x] = r.to
              /\ r.to \notin Open => on'[x] = Null
              /\ told'[x] = told[x]
              /\ \A y \in Xids \ {x} : branch'[y] = branch[y] /\ on'[y] = on[y] /\ told'[y] = told[y]
              /\ decision' = decision
    BY XidCallEffect DEF xa_start_entry, Codes
  <1>2. BranchOK(branch[x], on[x], told[x], decision) /\ decision = "none" /\ told[x] = "nothing"
    BY DEF BranchesOK, xa_start_entry
  <1>3. r.to = branch[x] \/ r.to = "active"
    BY StartResult
  <1>4. BranchOK(branch'[x], on'[x], told'[x], decision')
    BY <1>1, <1>2, <1>3 DEF BranchOK, Open
  <1> QED BY <1>1, <1>4, OneBranch

\* xa_end_entry moves a branch within the open states.
LEMMA EndKeeps ==
    ASSUME TypeOK, BranchesOK, NEW t \in Ctxs, NEW x \in Xids, NEW f, xa_end_entry(t, x, f)
    PROVE  BranchesOK'
  <1>1. PICK r \in XAResource("end", xaRes[t], x, xa_xaresource_flags_map(f)) :
              /\ branch'[x] = r.to
              /\ r.to \notin Open => on'[x] = Null
              /\ told'[x] = told[x]
              /\ \A y \in Xids \ {x} : branch'[y] = branch[y] /\ on'[y] = on[y] /\ told'[y] = told[y]
              /\ decision' = decision
    BY XidCallEffect DEF xa_end_entry, Codes
  <1>2. BranchOK(branch[x], on[x], told[x], decision)
    BY DEF BranchesOK, xa_end_entry
  <1>3. \/ r.to = branch[x]
        \/ branch[x] = "active" /\ r.to \in {"suspended", "idle"}
    BY EndResult
  <1>4. BranchOK(branch'[x], on'[x], told'[x], decision')
    BY <1>1, <1>2, <1>3 DEF BranchOK, Open, Voted
  <1> QED BY <1>1, <1>4, OneBranch

\* xa_prepare_entry: a vote, or a rollback that the code reports.
LEMMA PrepareKeeps ==
    ASSUME TypeOK, BranchesOK, NEW t \in Ctxs, NEW x \in Xids, xa_prepare_entry(t, x)
    PROVE  BranchesOK'
  <1>1. PICK r \in XAResource("prepare", xaRes[t], x, xa_xaresource_flags_map({})) :
              /\ branch'[x] = r.to
              /\ r.to \notin Open => on'[x] = Null
              /\ told'[x] = told[x] \/ (told'[x] = "yes" /\ r.ends = "return")
                                    \/ (told'[x] = "rolledback" /\ r.ends = "XA_RBROLLBACK")
              /\ \A y \in Xids \ {x} : branch'[y] = branch[y] /\ on'[y] = on[y] /\ told'[y] = told[y]
              /\ decision' = decision
    BY XidCallEffect, Code DEF xa_prepare_entry
  <1>2. BranchOK(branch[x], on[x], told[x], decision) /\ decision = "none" /\ told[x] = "nothing"
    BY DEF BranchesOK, xa_prepare_entry
  <1>3. \/ r.to = branch[x] /\ r.ends \notin {"return", "XA_RBROLLBACK"}
        \/ /\ branch[x] = "idle" /\ r.to \in {"prepared", "readonly", "rolledback"}
           /\ r.ends = "return" => r.to \in {"prepared", "readonly"}
           /\ r.ends = "XA_RBROLLBACK" => r.to = "rolledback"
    BY PrepareResult
  <1>4. BranchOK(branch'[x], on'[x], told'[x], decision')
    BY <1>1, <1>2, <1>3 DEF BranchOK, Open, Voted
  <1> QED BY <1>1, <1>4, OneBranch

\* xa_commit_entry runs after the decision, on a branch that voted.
LEMMA CommitKeeps ==
    ASSUME TypeOK, BranchesOK, NEW t \in Ctxs, NEW x \in Xids, xa_commit_entry(t, x)
    PROVE  BranchesOK'
  <1>1. PICK r \in XAResource("commit", xaRes[t], x, xa_xaresource_flags_map({})) :
              /\ branch'[x] = r.to
              /\ r.to \notin Open => on'[x] = Null
              /\ \/ told'[x] \in {told[x], "heuristic"}
                 \/ told'[x] = "committed" /\ r.ends = "return"
              /\ \A y \in Xids \ {x} : branch'[y] = branch[y] /\ on'[y] = on[y] /\ told'[y] = told[y]
              /\ decision' = decision
    BY XidCallEffect, Code DEF xa_commit_entry
  <1>2. BranchOK(branch[x], on[x], told[x], decision) /\ decision = "commit" /\ told[x] = "yes"
    BY DEF BranchesOK, xa_commit_entry
  <1>3. \/ r.to = branch[x] /\ r.ends # "return"
        \/ /\ branch[x] = "prepared" /\ r.to \in {"committed", "heuristic"}
           /\ r.ends = "return" => r.to = "committed"
    BY CommitResult
  <1>4. BranchOK(branch'[x], on'[x], told'[x], decision')
    BY <1>1, <1>2, <1>3 DEF BranchOK, Open, Voted
  <1> QED BY <1>1, <1>4, OneBranch

\* xa_rollback_entry runs after the decision to roll back, so nothing is committed.
LEMMA RollbackKeeps ==
    ASSUME TypeOK, BranchesOK, NEW t \in Ctxs, NEW x \in Xids, xa_rollback_entry(t, x)
    PROVE  BranchesOK'
  <1>1. PICK r \in XAResource("rollback", xaRes[t], x, xa_xaresource_flags_map({})) :
              /\ branch'[x] = r.to
              /\ r.to \notin Open => on'[x] = Null
              /\ \/ told'[x] = told[x]
                 \/ told'[x] = "rolledback" /\ r.ends = "return"
              /\ \A y \in Xids \ {x} : branch'[y] = branch[y] /\ on'[y] = on[y] /\ told'[y] = told[y]
              /\ decision' = decision
    BY XidCallEffect, Code DEF xa_rollback_entry, Codes
  <1>2. BranchOK(branch[x], on[x], told[x], decision) /\ decision = "rollback" /\ told[x] # "rolledback"
    BY DEF BranchesOK, xa_rollback_entry
  <1>3. \/ r.to = branch[x] /\ r.ends # "return"
        \/ branch[x] \in {"idle", "prepared"} /\ r.to = "rolledback"
    BY RollbackResult
  <1>4. BranchOK(branch'[x], on'[x], told'[x], decision')
    BY <1>1, <1>2, <1>3 DEF BranchOK, Open, Voted
  <1> QED BY <1>1, <1>4, OneBranch

\* xa_forget_entry ends a heuristic outcome, which nobody was told to be anything else.
LEMMA ForgetKeeps ==
    ASSUME TypeOK, BranchesOK, NEW t \in Ctxs, NEW x \in Xids, xa_forget_entry(t, x)
    PROVE  BranchesOK'
  <1>1. PICK r \in XAResource("forget", xaRes[t], x, xa_xaresource_flags_map({})) :
              /\ branch'[x] = r.to
              /\ r.to \notin Open => on'[x] = Null
              /\ told'[x] = told[x]
              /\ \A y \in Xids \ {x} : branch'[y] = branch[y] /\ on'[y] = on[y] /\ told'[y] = told[y]
              /\ decision' = decision
    BY XidCallEffect DEF xa_forget_entry, Codes
  <1>2. BranchOK(branch[x], on[x], told[x], decision) /\ told[x] = "heuristic"
    BY DEF BranchesOK, xa_forget_entry
  <1>3. \/ r.to = branch[x]
        \/ branch[x] = "heuristic" /\ r.to = "forgotten"
    BY ForgetResult
  <1>4. BranchOK(branch'[x], on'[x], told'[x], decision')
    BY <1>1, <1>2, <1>3 DEF BranchOK, Open, Voted
  <1> QED BY <1>1, <1>4, OneBranch

\* The end of connections rolls back what is not prepared, and nothing else.
LEMMA DroppedKeeps ==
    ASSUME BranchesOK, NEW S, Null \notin S, Dropped(S), told' = told, decision' = decision
    PROVE  BranchesOK'
  <1>1. SUFFICES ASSUME NEW x \in Xids
                 PROVE  BranchOK(branch'[x], on'[x], told'[x], decision')
    BY DEF BranchesOK, BranchOK
  <1>2. BranchOK(branch[x], on[x], told[x], decision)
    BY DEF BranchesOK
  <1>3. /\ branch'[x] = IF on[x] \in S THEN "rolledback" ELSE branch[x]
        /\ on'[x] = IF on[x] \in S THEN Null ELSE on[x]
    BY DEF Dropped
  <1> QED BY <1>2, <1>3 DEF BranchOK, Open, Voted

\* recover() tells of prepared branches only.
LEMMA RecoverKeeps ==
    ASSUME BranchesOK, UNCHANGED <<branch, on, decision>>, NEW R \in SUBSET {x \in Xids : branch[x] = "prepared"},
           told' = [x \in Xids |-> IF x \in R /\ told[x] = "nothing" THEN "yes" ELSE told[x]]
    PROVE  BranchesOK'
  <1>1. SUFFICES ASSUME NEW x \in Xids
                 PROVE  BranchOK(branch'[x], on'[x], told'[x], decision')
    BY DEF BranchesOK, BranchOK
  <1>2. BranchOK(branch[x], on[x], told[x], decision)
    BY DEF BranchesOK
  <1> QED BY <1>2 DEF BranchOK

\* A decision to commit finds every branch prepared or read-only.
LEMMA DecideKeeps ==
    ASSUME BranchesOK, decide
    PROVE  BranchesOK'
  <1>1. SUFFICES ASSUME NEW x \in Xids
                 PROVE  BranchOK(branch'[x], on'[x], told'[x], decision')
    BY DEF BranchesOK, BranchOK
  <1>2. BranchOK(branch[x], on[x], told[x], decision)
    BY DEF BranchesOK
  <1>3. decision = "none" /\ decision' \in {"commit", "rollback"} /\ (decision' = "commit" => told[x] = "yes")
    BY DEF decide
  <1>4. UNCHANGED <<branch, on, told>>
    BY DEF decide
  <1> QED BY <1>2, <1>3, <1>4 DEF BranchOK, Voted, Open

-----------------------------------------------------------------------------
(* Connections. *)

\* A context without an open connection gets a new one.
LEMMA OpenKeeps ==
    ASSUME TypeOK, ContextsOK, NEW t \in Ctxs, NEW c \in Conns, xa_open_entry(t, c)
    PROVE  ContextsOK'
  <1>1. /\ c \notin up /\ \A u \in Ctxs : xaConn[u] # c
        /\ up' = up \cup {c} /\ lost' = lost \cup (up \cap {xaConn[t]})
        /\ xaConn' = [xaConn EXCEPT ![t] = c] /\ xaRes' = [xaRes EXCEPT ![t] = c]
    BY DEF xa_open_entry, Connect, Abandoned
  <1>2. \A u \in Ctxs : /\ xaConn'[u] = IF u = t THEN c ELSE xaConn[u]
                        /\ xaRes'[u] = IF u = t THEN c ELSE xaRes[u]
    BY <1>1 DEF TypeOK
  <1>3. \A u \in Ctxs : xaRes'[u] # Null => xaRes'[u] = xaConn'[u]
    BY <1>2 DEF ContextsOK
  <1>4. \A u, v \in Ctxs : u # v /\ xaConn'[u] # Null => xaConn'[u] # xaConn'[v]
    BY <1>1, <1>2 DEF ContextsOK
  <1>5. \A d \in up' : d \in lost' \/ \E u \in Ctxs : xaConn'[u] = d
    BY <1>1, <1>2 DEF ContextsOK
  <1> QED BY <1>3, <1>4, <1>5 DEF ContextsOK

\* A context that is not open has no resource, so a failed open leaves none.
LEMMA OpenFailsKeeps ==
    ASSUME TypeOK, ContextsOK, XaAssumption, NEW t \in Ctxs, NEW c \in Conns, xa_open_entry_fails(t, c)
    PROVE  ContextsOK'
  <1>1. /\ c \notin up /\ \A u \in Ctxs : xaConn[u] # c
        /\ up' = up \cup {c} /\ xaRes' = xaRes
    BY DEF xa_open_entry_fails, Connect
  <1>2. xaRes[t] = Null
    BY DEF xa_open_entry_fails, Connect, xa_is_open, ContextsOK
  <1>3. \/ /\ xaConn' = [xaConn EXCEPT ![t] = Null]
           /\ lost' = lost \cup (up \cap {xaConn[t]}) \cup {c}
        \/ /\ xaConn' = [xaConn EXCEPT ![t] = c]
           /\ lost' = lost \cup (up \cap {xaConn[t]})
    BY DEF xa_open_entry_fails, Abandoned
  <1>4. PICK n \in {c, Null} :
           /\ \A u \in Ctxs : xaConn'[u] = IF u = t THEN n ELSE xaConn[u]
           /\ lost \cup (up \cap {xaConn[t]}) \subseteq lost'
           /\ n = Null => c \in lost'
    BY <1>3 DEF TypeOK
  <1>5. \A u \in Ctxs : xaRes'[u] # Null => xaRes'[u] = xaConn'[u]
    BY <1>1, <1>2, <1>4 DEF ContextsOK
  <1>6. \A u, v \in Ctxs : u # v /\ xaConn'[u] # Null => xaConn'[u] # xaConn'[v]
    BY <1>1, <1>4 DEF ContextsOK
  <1>7. \A d \in up' : d \in lost' \/ \E u \in Ctxs : xaConn'[u] = d
    BY <1>1, <1>4 DEF ContextsOK
  <1> QED BY <1>5, <1>6, <1>7 DEF ContextsOK

\* xa_close_entry closes what it forgets.
LEMMA CloseKeeps ==
    ASSUME TypeOK, ContextsOK, NEW t \in Ctxs, xa_close_entry(t)
    PROVE  ContextsOK'
  <1>1. /\ up' = up \ {xaConn[t]} /\ lost' = lost
        /\ xaConn' = [xaConn EXCEPT ![t] = Null] /\ xaRes' = [xaRes EXCEPT ![t] = Null]
    BY DEF xa_close_entry
  <1>2. \A u \in Ctxs : /\ xaConn'[u] = IF u = t THEN Null ELSE xaConn[u]
                        /\ xaRes'[u] = IF u = t THEN Null ELSE xaRes[u]
    BY <1>1 DEF TypeOK
  <1>3. \A u \in Ctxs : xaRes'[u] # Null => xaRes'[u] = xaConn'[u]
    BY <1>2 DEF ContextsOK
  <1>4. \A u, v \in Ctxs : u # v /\ xaConn'[u] # Null => xaConn'[u] # xaConn'[v]
    BY <1>2 DEF ContextsOK
  <1>5. \A d \in up' : d \in lost' \/ \E u \in Ctxs : xaConn'[u] = d
    BY <1>1, <1>2 DEF ContextsOK
  <1> QED BY <1>3, <1>4, <1>5 DEF ContextsOK

\* A failed close keeps the connection in the context, closed or not.
LEMMA CloseFailsKeeps ==
    ASSUME TypeOK, ContextsOK, NEW t \in Ctxs, xa_close_entry_fails(t)
    PROVE  ContextsOK'
  <1>1. up' \subseteq up /\ lost' = lost /\ xaConn' = xaConn
    BY DEF xa_close_entry_fails
  <1>2. \A u \in Ctxs : xaRes'[u] \in {xaRes[u], Null}
    BY DEF xa_close_entry_fails, TypeOK
  <1>3. \A u \in Ctxs : xaRes'[u] # Null => xaRes'[u] = xaConn'[u]
    BY <1>1, <1>2 DEF ContextsOK
  <1>4. \A d \in up' : d \in lost' \/ \E u \in Ctxs : xaConn'[u] = d
    BY <1>1 DEF ContextsOK
  <1> QED BY <1>1, <1>3, <1>4 DEF ContextsOK

\* A connection that ends may still be held, but needs no holder.
LEMMA DisconnectKeeps ==
    ASSUME TypeOK, ContextsOK, NEW c \in Conns, disconnect(c)
    PROVE  ContextsOK'
  <1>1. up' = up \ {c} /\ lost' = lost \ {c} /\ UNCHANGED <<xaConn, xaRes>>
    BY DEF disconnect
  <1> QED BY <1>1 DEF ContextsOK

\* After a crash nothing is held and nothing is open.
LEMMA CrashKeeps ==
    ASSUME crash
    PROVE  ContextsOK'
  BY DEF crash, ContextsOK

-----------------------------------------------------------------------------
(* Types. *)

BranchStates == Open \cup {"none", "prepared", "readonly", "committed",
                            "rolledback", "heuristic", "forgotten"}
Answers == {"nothing", "yes", "committed", "rolledback", "heuristic"}

\* The end of connections leaves typed branches.
LEMMA DroppedTypes ==
    ASSUME TypeOK, NEW S, Dropped(S)
    PROVE  branch' \in [Xids -> BranchStates] /\ on' \in [Xids -> Conns \cup {Null}]
  BY DEF TypeOK, Dropped, BranchStates

\* A resource moves a branch to a state of the protocol.
LEMMA ResultTypes ==
    ASSUME TypeOK, NEW x \in Xids, NEW c, NEW f,
           NEW op \in {"start", "end", "prepare", "commit", "rollback", "forget"},
           NEW r \in XAResource(op, c, x, f)
    PROVE  r.to \in BranchStates
  <1>1. branch[x] \in BranchStates
    BY DEF TypeOK, BranchStates
  <1> QED BY <1>1, StartResult, EndResult, PrepareResult, CommitResult, RollbackResult, ForgetResult
          DEF BranchStates, Open

\* A call with an xid keeps the types when the codes teach answers.
LEMMA XidCallTypes ==
    ASSUME TypeOK, NEW t \in Ctxs, NEW x \in Xids, NEW f, NEW Learn,
           NEW op \in {"start", "end", "prepare", "commit", "rollback", "forget"},
           \A code \in DOMAIN Learn : Learn[code] \in Answers,
           XidCall(t, op, x, f, Learn)
    PROVE  TypeOK'
  <1>1. PICK r \in XAResource(op, xaRes[t], x, xa_xaresource_flags_map(f)) :
          /\ branch' = [branch EXCEPT ![x] = r.to]
          /\ on' = [on EXCEPT ![x] = IF r.to \notin Open THEN Null
                                     ELSE IF r.to # branch[x] /\ op = "start" THEN xaRes[t] ELSE @]
          /\ told' = [told EXCEPT ![x] = LET code == xa_xid_entry(r.ends)
                                         IN  IF code \in DOMAIN Learn THEN Learn[code] ELSE @]
    BY Zenon DEF XidCall
  <1>2. branch' \in [Xids -> BranchStates]
    BY <1>1, ResultTypes DEF TypeOK, BranchStates
  <1>3. on' \in [Xids -> Conns \cup {Null}]
    BY <1>1 DEF TypeOK
  <1>4. told' \in [Xids -> Answers]
    BY <1>1 DEF TypeOK, Answers
  <1>5. UNCHANGED <<sw, xads, xaConn, xaRes, up, lost, decision>>
    BY DEF XidCall
  <1> QED BY <1>2, <1>3, <1>4, <1>5 DEF TypeOK, BranchStates, Answers

\* A crash keeps the types.
LEMMA CrashTypes ==
    ASSUME TypeOK, crash
    PROVE  TypeOK'
  <1>1. branch' \in [Xids -> BranchStates] /\ on' \in [Xids -> Conns \cup {Null}]
    BY DroppedTypes DEF crash
  <1> QED BY <1>1, Zenon DEF TypeOK, crash, BranchStates

\* So does recover().
LEMMA RecoverTypes ==
    ASSUME TypeOK, NEW R,
           told' = [x \in Xids |-> IF x \in R /\ told[x] = "nothing" THEN "yes" ELSE told[x]],
           UNCHANGED <<sw, xads, xaConn, xaRes, up, lost, branch, on, decision>>
    PROVE  TypeOK'
  <1>1. told' \in [Xids -> Answers]
    BY DEF TypeOK, Answers
  <1> QED BY <1>1 DEF TypeOK, Answers

-----------------------------------------------------------------------------
(* The inductive invariant. *)

\* The invariant holds at the start.
LEMMA InitHolds == Init => IndInv
  BY ZenonT(30) DEF Init, IndInv, TypeOK, BranchesOK, BranchOK, ContextsOK, Open, Voted

\* What leaves the variables of a conjunct alone keeps it.
LEMMA BranchesSame ==
    ASSUME BranchesOK, UNCHANGED <<branch, on, told, decision>>
    PROVE  BranchesOK'
  BY DEF BranchesOK, BranchOK

\* The same for the contexts.
LEMMA ContextsSame ==
    ASSUME ContextsOK, UNCHANGED <<xaConn, xaRes, up, lost>>
    PROVE  ContextsOK'
  BY DEF ContextsOK

\* One step per action, and under it one per conjunct.
LEMMA NextHolds == IndInv /\ [Next]_vars => IndInv'
  <1> SUFFICES ASSUME TypeOK, BranchesOK, ContextsOK, [Next]_vars
               PROVE  IndInv'
    BY DEF IndInv
  <1> USE XaAssumption
  <1>1. ASSUME NEW c \in Conns, disconnect(c)
        PROVE  IndInv'
    <2>1. Dropped({c}) /\ Null \notin {c} /\ told' = told /\ decision' = decision
      BY <1>1 DEF disconnect
    <2>2. BranchesOK'
      BY <2>1, DroppedKeeps
    <2>3. TypeOK'
      BY <1>1, <2>1, DroppedTypes DEF TypeOK, disconnect, BranchStates
    <2> QED BY <2>2, <2>3, <1>1, DisconnectKeeps DEF IndInv
  <1>2. CASE crash
    <2>1. Dropped(Conns) /\ told' = told /\ decision' = decision
      BY <1>2 DEF crash
    <2>2. BranchesOK'
      BY <2>1, DroppedKeeps
    <2> QED BY <2>2, <1>2, CrashTypes, CrashKeeps DEF IndInv
  <1>3. CASE ndrx_get_xa_switch \/ ndrx_get_xa_switch_fails
    <2>1. TypeOK'
      BY <1>3, Zenon DEF TypeOK, ndrx_get_xa_switch, ndrx_get_xa_switch_fails, ndrxj_xa_init, ndrxj_xa_init_fails
    <2>2. UNCHANGED <<xaConn, xaRes, up, lost, branch, on, told, decision>>
      BY <1>3 DEF ndrx_get_xa_switch, ndrx_get_xa_switch_fails
    <2> QED BY <2>1, <2>2, BranchesSame, ContextsSame DEF IndInv
  <1>4. ASSUME NEW t \in Ctxs, NEW c \in Conns, xa_open_entry(t, c)
        PROVE  IndInv'
    <2>1. TypeOK'
      BY <1>4 DEF TypeOK, xa_open_entry, Connect, Abandoned
    <2>2. UNCHANGED <<branch, on, told, decision>>
      BY <1>4 DEF xa_open_entry, Connect
    <2> QED BY <2>1, <2>2, <1>4, BranchesSame, OpenKeeps DEF IndInv
  <1>5. ASSUME NEW t \in Ctxs, NEW c \in Conns, xa_open_entry_fails(t, c)
        PROVE  IndInv'
    <2>1. TypeOK'
      BY <1>5 DEF TypeOK, xa_open_entry_fails, Connect, Abandoned
    <2>2. UNCHANGED <<branch, on, told, decision>>
      BY <1>5 DEF xa_open_entry_fails, Connect
    <2> QED BY <2>1, <2>2, <1>5, BranchesSame, OpenFailsKeeps DEF IndInv
  <1>6. ASSUME NEW t \in Ctxs, xa_close_entry(t)
        PROVE  IndInv'
    <2>1. Dropped({xaConn[t]} \ {Null}) /\ Null \notin {xaConn[t]} \ {Null} /\ told' = told /\ decision' = decision
      BY <1>6 DEF xa_close_entry
    <2>2. BranchesOK'
      BY <2>1, DroppedKeeps
    <2>3. TypeOK'
      BY <1>6, <2>1, DroppedTypes DEF TypeOK, xa_close_entry, BranchStates
    <2> QED BY <2>2, <2>3, <1>6, CloseKeeps DEF IndInv
  <1>7. ASSUME NEW t \in Ctxs, xa_close_entry_fails(t)
        PROVE  IndInv'
    <2>1. /\ Dropped({xaConn[t]}) \/ UNCHANGED <<branch, on>>
          /\ Null \notin {xaConn[t]} /\ told' = told /\ decision' = decision
      BY <1>7 DEF xa_close_entry_fails
    <2>2. BranchesOK'
      BY <2>1, DroppedKeeps, BranchesSame
    <2>3. branch' \in [Xids -> BranchStates] /\ on' \in [Xids -> Conns \cup {Null}]
      BY <2>1, DroppedTypes DEF TypeOK, BranchStates
    <2>4. TypeOK'
      BY <1>7, <2>3 DEF TypeOK, xa_close_entry_fails, BranchStates
    <2> QED BY <2>2, <2>4, <1>7, CloseFailsKeeps DEF IndInv
  <1>8. ASSUME NEW t \in Ctxs, xa_recover_entry(t)
        PROVE  IndInv'
    <2>1. ASSUME NEW R \in SUBSET {x \in Xids : branch[x] = "prepared"},
                 told' = [x \in Xids |-> IF x \in R /\ told[x] = "nothing" THEN "yes" ELSE told[x]],
                 UNCHANGED <<sw, xads, xaConn, xaRes, up, lost, branch, on, decision>>
          PROVE  IndInv'
      BY <2>1, RecoverKeeps, RecoverTypes, ContextsSame DEF IndInv
    <2> QED BY <2>1, <1>2, <1>8, Zenon DEF xa_recover_entry
  <1>9. ASSUME NEW t \in Ctxs, NEW x \in Xids, NEW f, xa_start_entry(t, x, f)
        PROVE  IndInv'
    <2>1. TypeOK'
      BY <1>9, XidCallTypes DEF xa_start_entry, Codes
    <2>2. UNCHANGED <<xaConn, xaRes, up, lost>>
      BY <1>9 DEF xa_start_entry, XidCall
    <2> QED BY <2>1, <2>2, <1>9, StartKeeps, ContextsSame DEF IndInv
  <1>10. ASSUME NEW t \in Ctxs, NEW x \in Xids, NEW f, xa_end_entry(t, x, f)
         PROVE  IndInv'
    <2>1. TypeOK'
      BY <1>10, XidCallTypes DEF xa_end_entry, Codes
    <2>2. UNCHANGED <<xaConn, xaRes, up, lost>>
      BY <1>10 DEF xa_end_entry, XidCall
    <2> QED BY <2>1, <2>2, <1>10, EndKeeps, ContextsSame DEF IndInv
  <1>11. ASSUME NEW t \in Ctxs, NEW x \in Xids, xa_prepare_entry(t, x)
         PROVE  IndInv'
    <2>1. TypeOK'
      BY <1>11, XidCallTypes DEF xa_prepare_entry, Codes, Answers
    <2>2. UNCHANGED <<xaConn, xaRes, up, lost>>
      BY <1>11 DEF xa_prepare_entry, XidCall
    <2> QED BY <2>1, <2>2, <1>11, PrepareKeeps, ContextsSame DEF IndInv
  <1>12. ASSUME NEW t \in Ctxs, NEW x \in Xids, xa_commit_entry(t, x)
         PROVE  IndInv'
    <2>1. TypeOK'
      BY <1>12, XidCallTypes DEF xa_commit_entry, Codes, Answers
    <2>2. UNCHANGED <<xaConn, xaRes, up, lost>>
      BY <1>12 DEF xa_commit_entry, XidCall
    <2> QED BY <2>1, <2>2, <1>12, CommitKeeps, ContextsSame DEF IndInv
  <1>13. ASSUME NEW t \in Ctxs, NEW x \in Xids, xa_rollback_entry(t, x)
         PROVE  IndInv'
    <2>1. TypeOK'
      BY <1>13, XidCallTypes DEF xa_rollback_entry, Codes, Answers
    <2>2. UNCHANGED <<xaConn, xaRes, up, lost>>
      BY <1>13 DEF xa_rollback_entry, XidCall
    <2> QED BY <2>1, <2>2, <1>13, RollbackKeeps, ContextsSame DEF IndInv
  <1>14. ASSUME NEW t \in Ctxs, NEW x \in Xids, xa_forget_entry(t, x)
         PROVE  IndInv'
    <2>1. TypeOK'
      BY <1>14, XidCallTypes DEF xa_forget_entry, Codes, Answers
    <2>2. UNCHANGED <<xaConn, xaRes, up, lost>>
      BY <1>14 DEF xa_forget_entry, XidCall
    <2> QED BY <2>1, <2>2, <1>14, ForgetKeeps, ContextsSame DEF IndInv
  <1>15. CASE decide
    <2>1. TypeOK'
      BY <1>15 DEF decide, TypeOK
    <2>2. UNCHANGED <<xaConn, xaRes, up, lost>>
      BY <1>15 DEF decide
    <2> QED BY <2>1, <2>2, <1>15, DecideKeeps, ContextsSame DEF IndInv
  <1>16. CASE UNCHANGED vars
    <2>1. TypeOK'
      BY <1>16 DEF vars, TypeOK
    <2>2. UNCHANGED <<xaConn, xaRes, up, lost, branch, on, told, decision>>
      BY <1>16 DEF vars
    <2> QED BY <2>1, <2>2, BranchesSame, ContextsSame DEF IndInv
  <1> QED BY Zenon, <1>1, <1>2, <1>3, <1>4, <1>5, <1>6, <1>7, <1>8, <1>9, <1>10, <1>11, <1>12, <1>13,
             <1>14, <1>15, <1>16 DEF Next

\* The inductive invariant holds in every state.
LEMMA Invariance == Spec => []IndInv
  BY InitHolds, NextHolds, PTL DEF Spec

\* Whatever exceptions, lost answers, lost connections and crashes come
\* between prepare and commit, no branch is committed while another is lost.
THEOREM AtomicHolds == Spec => []Atomic
  <1>1. IndInv => Atomic
    BY DEF IndInv, BranchesOK, BranchOK, Atomic, Voted, Open
  <1> QED BY <1>1, Invariance, PTL

\* What xa_prepare_entry, xa_commit_entry and xa_rollback_entry return is
\* true, and stays true after crashes of the process.
THEOREM TruthfulHolds == Spec => []Truthful
  <1>1. IndInv => Truthful
    BY DEF IndInv, BranchesOK, BranchOK, Truthful
  <1> QED BY <1>1, Invariance, PTL

\* A context that passes xa_is_open works on the connection it holds, alone;
\* no connection is forgotten but on the error paths of xa_open_entry.
THEOREM ConnectionsHeldHolds == Spec => []ConnectionsHeld
  <1>1. IndInv => ConnectionsHeld
    BY DEF IndInv, ContextsOK, ConnectionsHeld
  <1> QED BY <1>1, Invariance, PTL

-----------------------------------------------------------------------------
(* The switch implements the transaction. *)

\* The outcome of a branch: what is not prepared is work.
Outcome(b) ==
    IF b \in Open \cup {"none"} THEN "working" ELSE IF b = "rolledback" THEN "lost" ELSE b

Transaction == INSTANCE TransactionOutcome WITH outcome <- [x \in Xids |-> Outcome(branch[x])]

\* A step of the transaction, or none.
Steps == Transaction!Next \/ UNCHANGED <<[x \in Xids |-> Outcome(branch[x])], decision>>

\* A step that changes no outcome is a stutter of the transaction.
LEMMA SameOutcome ==
    ASSUME \A y \in Xids : Outcome(branch'[y]) = Outcome(branch[y]), decision' = decision
    PROVE  Steps
  BY DEF Steps

\* Branch x moves from one outcome to another, the others stay.
LEMMA OneMoves ==
    ASSUME NEW x \in Xids, \A y \in Xids \ {x} : branch'[y] = branch[y]
    PROVE  Transaction!Move(x, Outcome(branch[x]), Outcome(branch'[x]))
  <1>1. [y \in Xids |-> Outcome(branch'[y])]
           = [[y \in Xids |-> Outcome(branch[y])] EXCEPT ![x] = Outcome(branch'[x])]
    BY Zenon
  <1> QED BY <1>1 DEF Transaction!Move

\* A branch that was not prepared is lost.
LEMMA OneLost ==
    ASSUME NEW x \in Xids, \A y \in Xids \ {x} : branch'[y] = branch[y], decision' = decision,
           Outcome(branch[x]) = "working", Outcome(branch'[x]) = "lost"
    PROVE  Steps
  <1>1. [y \in Xids |-> Outcome(branch'[y])]
           = [y \in Xids |-> IF y \in {x} THEN "lost" ELSE [z \in Xids |-> Outcome(branch[z])][y]]
    OBVIOUS
  <1>2. Transaction!Lose({x})
    BY <1>1 DEF Transaction!Lose
  <1> QED BY <1>2 DEF Steps, Transaction!Next

\* The end of connections loses unprepared branches, all at once.
LEMMA DroppedSteps ==
    ASSUME BranchesOK, NEW S, Null \notin S, Dropped(S), decision' = decision
    PROVE  Steps
  <1> DEFINE L == {x \in Xids : on[x] \in S}
  <1>1. \A x \in L : Outcome(branch[x]) = "working"
    BY DEF BranchesOK, BranchOK, Outcome
  <1>2. \A x \in Xids : Outcome(branch'[x]) = IF x \in L THEN "lost" ELSE Outcome(branch[x])
    BY DEF Dropped, Outcome, Open
  <1>3. [y \in Xids |-> Outcome(branch'[y])]
           = [y \in Xids |-> IF y \in L THEN "lost" ELSE [z \in Xids |-> Outcome(branch[z])][y]]
    BY <1>2
  <1>4. Transaction!Lose(L)
    BY <1>1, <1>3 DEF Transaction!Lose
  <1> QED BY <1>4 DEF Steps, Transaction!Next

\* xa_start_entry leaves the outcome open.
LEMMA StartSteps ==
    ASSUME TypeOK, BranchesOK, NEW t \in Ctxs, NEW x \in Xids, NEW f, xa_start_entry(t, x, f)
    PROVE  Steps
  <1>1. PICK r \in XAResource("start", xaRes[t], x, xa_xaresource_flags_map(f)) :
              /\ branch'[x] = r.to
              /\ \A y \in Xids \ {x} : branch'[y] = branch[y]
              /\ decision' = decision
    BY XidCallEffect DEF xa_start_entry
  <1>2. \/ r.to = branch[x]
        \/ branch[x] \in {"none", "idle", "suspended"} /\ r.to = "active"
    BY StartResult
  <1>3. Outcome(branch'[x]) = Outcome(branch[x])
    BY <1>1, <1>2 DEF Outcome, Open
  <1> QED BY <1>1, <1>3, SameOutcome

\* So does xa_end_entry.
LEMMA EndSteps ==
    ASSUME TypeOK, BranchesOK, NEW t \in Ctxs, NEW x \in Xids, NEW f, xa_end_entry(t, x, f)
    PROVE  Steps
  <1>1. PICK r \in XAResource("end", xaRes[t], x, xa_xaresource_flags_map(f)) :
              /\ branch'[x] = r.to
              /\ \A y \in Xids \ {x} : branch'[y] = branch[y]
              /\ decision' = decision
    BY XidCallEffect DEF xa_end_entry
  <1>2. \/ r.to = branch[x]
        \/ branch[x] = "active" /\ r.to \in {"suspended", "idle"}
    BY EndResult
  <1>3. Outcome(branch'[x]) = Outcome(branch[x])
    BY <1>1, <1>2 DEF Outcome, Open
  <1> QED BY <1>1, <1>3, SameOutcome

\* xa_prepare_entry prepares or loses a branch, whatever it returns.
LEMMA PrepareSteps ==
    ASSUME TypeOK, BranchesOK, NEW t \in Ctxs, NEW x \in Xids, xa_prepare_entry(t, x)
    PROVE  Steps
  <1>1. PICK r \in XAResource("prepare", xaRes[t], x, xa_xaresource_flags_map({})) :
              /\ branch'[x] = r.to
              /\ \A y \in Xids \ {x} : branch'[y] = branch[y]
              /\ decision' = decision
    BY XidCallEffect DEF xa_prepare_entry
  <1>2. CASE r.to = branch[x]
    BY <1>1, <1>2, SameOutcome
  <1>3. CASE branch[x] = "idle" /\ r.to = "rolledback"
    <2>1. Outcome(branch[x]) = "working" /\ Outcome(branch'[x]) = "lost"
      BY <1>1, <1>3 DEF Outcome, Open
    <2> QED BY <1>1, <2>1, OneLost
  <1>4. CASE branch[x] = "idle" /\ r.to \in {"prepared", "readonly"}
    <2>1. Outcome(branch[x]) = "working" /\ Outcome(branch'[x]) \in {"prepared", "readonly"}
      BY <1>1, <1>4 DEF Outcome, Open
    <2>2. Transaction!Prepare(x)
      BY <1>1, <2>1, OneMoves DEF Transaction!Prepare, xa_prepare_entry
    <2> QED BY <2>2 DEF Steps, Transaction!Next
  <1> QED BY <1>2, <1>3, <1>4, PrepareResult

\* xa_commit_entry commits, or ends in a heuristic outcome.
LEMMA CommitSteps ==
    ASSUME TypeOK, BranchesOK, NEW t \in Ctxs, NEW x \in Xids, xa_commit_entry(t, x)
    PROVE  Steps
  <1>1. PICK r \in XAResource("commit", xaRes[t], x, xa_xaresource_flags_map({})) :
              /\ branch'[x] = r.to
              /\ \A y \in Xids \ {x} : branch'[y] = branch[y]
              /\ decision' = decision
    BY XidCallEffect DEF xa_commit_entry
  <1>2. CASE r.to = branch[x]
    BY <1>1, <1>2, SameOutcome
  <1>3. CASE branch[x] = "prepared" /\ r.to \in {"committed", "heuristic"}
    <2>1. Outcome(branch[x]) = "prepared" /\ Outcome(branch'[x]) \in {"committed", "heuristic"}
      BY <1>1, <1>3 DEF Outcome, Open
    <2>2. Transaction!Commit(x)
      BY <1>1, <2>1, OneMoves DEF Transaction!Commit, xa_commit_entry
    <2> QED BY <2>2 DEF Steps, Transaction!Next
  <1> QED BY <1>2, <1>3, CommitResult

\* xa_rollback_entry loses the branch, prepared or not.
LEMMA RollbackSteps ==
    ASSUME TypeOK, BranchesOK, NEW t \in Ctxs, NEW x \in Xids, xa_rollback_entry(t, x)
    PROVE  Steps
  <1>1. PICK r \in XAResource("rollback", xaRes[t], x, xa_xaresource_flags_map({})) :
              /\ branch'[x] = r.to
              /\ \A y \in Xids \ {x} : branch'[y] = branch[y]
              /\ decision' = decision
    BY XidCallEffect DEF xa_rollback_entry
  <1>2. CASE r.to = branch[x]
    BY <1>1, <1>2, SameOutcome
  <1>3. CASE branch[x] = "idle" /\ r.to = "rolledback"
    <2>1. Outcome(branch[x]) = "working" /\ Outcome(branch'[x]) = "lost"
      BY <1>1, <1>3 DEF Outcome, Open
    <2> QED BY <1>1, <2>1, OneLost
  <1>4. CASE branch[x] = "prepared" /\ r.to = "rolledback"
    <2>1. Outcome(branch[x]) = "prepared" /\ Outcome(branch'[x]) = "lost"
      BY <1>1, <1>4 DEF Outcome, Open
    <2>2. Transaction!Rollback(x)
      BY <1>1, <2>1, OneMoves DEF Transaction!Rollback, xa_rollback_entry
    <2> QED BY <2>2 DEF Steps, Transaction!Next
  <1> QED BY <1>2, <1>3, <1>4, RollbackResult

\* xa_forget_entry forgets a heuristic outcome.
LEMMA ForgetSteps ==
    ASSUME TypeOK, BranchesOK, NEW t \in Ctxs, NEW x \in Xids, xa_forget_entry(t, x)
    PROVE  Steps
  <1>1. PICK r \in XAResource("forget", xaRes[t], x, xa_xaresource_flags_map({})) :
              /\ branch'[x] = r.to
              /\ \A y \in Xids \ {x} : branch'[y] = branch[y]
              /\ decision' = decision
    BY XidCallEffect DEF xa_forget_entry
  <1>2. CASE r.to = branch[x]
    BY <1>1, <1>2, SameOutcome
  <1>3. CASE branch[x] = "heuristic" /\ r.to = "forgotten"
    <2>1. Outcome(branch[x]) = "heuristic" /\ Outcome(branch'[x]) = "forgotten"
      BY <1>1, <1>3 DEF Outcome, Open
    <2>2. Transaction!Forget(x)
      BY <1>1, <2>1, OneMoves DEF Transaction!Forget
    <2> QED BY <2>2 DEF Steps, Transaction!Next
  <1> QED BY <1>2, <1>3, ForgetResult

\* A decision to commit finds every branch prepared: the votes were true.
LEMMA DecideSteps ==
    ASSUME BranchesOK, decide
    PROVE  Steps
  <1>1. PICK d \in {"commit", "rollback"} : decision' = d /\ (d = "commit" => \A x \in Xids : told[x] = "yes")
    BY DEF decide
  <1>2. d = "commit" => \A x \in Xids : branch[x] \in {"prepared", "readonly"}
    BY <1>1 DEF BranchesOK, BranchOK, decide
  <1>3. d = "commit" => \A x \in Xids : Outcome(branch[x]) \in {"prepared", "readonly"}
    BY <1>2 DEF Outcome, Open
  <1>4. Transaction!Decide(d)
    BY <1>1, <1>3 DEF Transaction!Decide, decide
  <1> QED BY <1>4 DEF Steps, Transaction!Next

\* Every step of the switch is a step of the transaction or leaves it alone.
LEMMA NextSteps == IndInv /\ [Next]_vars => Steps
  <1> SUFFICES ASSUME TypeOK, BranchesOK, [Next]_vars
               PROVE  Steps
    BY DEF IndInv
  <1> USE XaAssumption
  <1>1. ASSUME NEW c \in Conns, disconnect(c)
        PROVE  Steps
    <2>1. Dropped({c}) /\ Null \notin {c} /\ decision' = decision
      BY <1>1 DEF disconnect
    <2> QED BY <2>1, DroppedSteps
  <1>2. CASE crash
    <2>1. Dropped(Conns) /\ decision' = decision
      BY <1>2 DEF crash
    <2> QED BY <2>1, DroppedSteps
  <1>3. CASE UNCHANGED <<branch, decision>>
    BY <1>3, SameOutcome
  <1>4. ASSUME NEW t \in Ctxs, xa_close_entry(t)
        PROVE  Steps
    <2>1. Dropped({xaConn[t]} \ {Null}) /\ Null \notin {xaConn[t]} \ {Null} /\ decision' = decision
      BY <1>4 DEF xa_close_entry
    <2> QED BY <2>1, DroppedSteps
  <1>5. ASSUME NEW t \in Ctxs, xa_close_entry_fails(t)
        PROVE  Steps
    <2>1. /\ Dropped({xaConn[t]}) \/ UNCHANGED branch
          /\ Null \notin {xaConn[t]} /\ decision' = decision
      BY <1>5 DEF xa_close_entry_fails
    <2> QED BY <2>1, <1>3, DroppedSteps
  <1>6. ASSUME NEW t \in Ctxs, xa_recover_entry(t)
        PROVE  Steps
    BY <1>2, <1>3, <1>6, Zenon DEF xa_recover_entry
  <1>7. ASSUME NEW t \in Ctxs, NEW c \in Conns, xa_open_entry(t, c) \/ xa_open_entry_fails(t, c)
        PROVE  Steps
    BY <1>3, <1>7 DEF xa_open_entry, xa_open_entry_fails, Connect
  <1>8. CASE ndrx_get_xa_switch \/ ndrx_get_xa_switch_fails \/ UNCHANGED vars
    BY <1>3, <1>8 DEF ndrx_get_xa_switch, ndrx_get_xa_switch_fails, vars
  <1> QED BY Zenon, <1>1, <1>2, <1>4, <1>5, <1>6, <1>7, <1>8, StartSteps, EndSteps, PrepareSteps,
             CommitSteps, RollbackSteps, ForgetSteps, DecideSteps DEF Next

\* The switch, with all its error paths, implements the transaction that the
\* transaction manager relies on: no return code, lost connection or crash
\* takes a branch off the way of the decision.
THEOREM SwitchImplements == Spec => Transaction!Spec
  <1>1. Init => Transaction!Init
    BY DEF Init, Transaction!Init, Outcome
  <1>2. IndInv /\ [Next]_vars => [Transaction!Next]_<<[x \in Xids |-> Outcome(branch[x])], decision>>
    BY NextSteps DEF Steps
  <1> QED BY <1>1, <1>2, Invariance, PTL DEF Spec, Transaction!Spec
=============================================================================
