---------------------------- MODULE ServerProofs ----------------------------
(***************************************************************************)
(* RightContext and CallbackReady of JniCallbacks, for any number of       *)
(* threads, contexts, buffers and nested frames.  Then the server: it      *)
(* implements JniCallbacks, serves as advertised and answers each request  *)
(* it owes an answer once, for any number of services, objects and         *)
(* requests.                                                               *)
(***************************************************************************)
EXTENDS Server, SequenceTheorems, TLAPS

-----------------------------------------------------------------------------
(* Callbacks and contexts. *)

(***************************************************************************)
(* The inductive invariant.  A frame that is not at work in C, or that a   *)
(* native method of Java pushed, is on a context that Java knows; such a   *)
(* context has noted itself and the thread that uses it.                   *)
(***************************************************************************)
StackOK == stack \in [Threads -> Seq(Frames)]

DataOK == /\ cur \in [Threads -> Ctxs \cup {Null}]
          /\ jenv \in [Ctxs -> Threads \cup {Null}]
          /\ jref \in [Ctxs -> {"none", "weak", "global", "deleted"}]
          /\ cctx \in [Ctxs -> Ctxs \cup {Null}]
          /\ srv \in [Ctxs -> BOOLEAN]

\* Only the innermost frame of a thread is at work in C.
OneInC == \A t \in Threads : \A i \in 1..Len(stack[t]) :
              i < Len(stack[t]) => stack[t][i].at # "c"

\* What holds of every frame f of thread t, with references ref and
\* environments env.
FrameOK(t, f, ref, env) ==
    /\ f.at # "c" => f.saved = f.ctx
    /\ f.op # "native" \/ f.at # "c" => ref[f.ctx] # "none"
    /\ ref[f.ctx] # "none" => env[f.ctx] = t
    /\ f.op \in ServerOps => ref[f.ctx] = "global"
    /\ f.at \in {"svrinit", "svrdone"} => f.op \in ServerOps

FramesOK == \A t \in Threads : \A i \in 1..Len(stack[t]) :
                FrameOK(t, stack[t][i], jref, jenv)

\* Threads work on different contexts.
Disjoint == \A t, u \in Threads : t # u =>
                \A i \in 1..Len(stack[t]), j \in 1..Len(stack[u]) :
                    stack[t][i].ctx # stack[u][j].ctx

\* A context has one server loop.
OneServer == \A t \in Threads : \A i, j \in 1..Len(stack[t]) :
                 /\ stack[t][i].op \in ServerOps /\ stack[t][j].op \in ServerOps
                 /\ stack[t][i].ctx = stack[t][j].ctx
                 => i = j

\* The private data of a context.
PrivateOK == \A c \in Ctxs :
    /\ jref[c] # "none" => cctx[c] = c
    /\ srv[c] => jref[c] \in {"global", "deleted"}
    /\ ~srv[c] => jref[c] \in {"none", "weak"}

JniInv == /\ StackOK /\ DataOK /\ OneInC /\ FramesOK /\ Disjoint /\ OneServer
          /\ PrivateOK /\ RightContext

-----------------------------------------------------------------------------
(* The stack of a thread. *)

\* A frame is added: the others stay.
LEMMA PushFacts ==
    ASSUME StackOK, NEW t \in Threads, NEW f \in Frames, Push(t, f)
    PROVE  /\ StackOK'
           /\ \A u \in Threads : u # t => stack'[u] = stack[u]
           /\ Len(stack'[t]) = Len(stack[t]) + 1
           /\ Len(stack[t]) \in Nat
           /\ \A i \in 1..Len(stack[t]) : stack'[t][i] = stack[t][i]
           /\ stack'[t][Len(stack[t]) + 1] = f
<1>1. stack[t] \in Seq(Frames)
  BY DEF StackOK
<1>2. stack' = [stack EXCEPT ![t] = Append(stack[t], f)]
  BY DEF Push
<1>3. stack'[t] = Append(stack[t], f)
  BY <1>2 DEF StackOK
<1>4. Append(stack[t], f) \in Seq(Frames)
  BY <1>1
<1>5. /\ Len(Append(stack[t], f)) = Len(stack[t]) + 1
      /\ Len(stack[t]) \in Nat
      /\ \A i \in 1..Len(stack[t]) : Append(stack[t], f)[i] = stack[t][i]
      /\ Append(stack[t], f)[Len(stack[t]) + 1] = f
  BY <1>1
<1>6. StackOK'
  BY <1>2, <1>4 DEF StackOK
<1>7. \A u \in Threads : u # t => stack'[u] = stack[u]
  BY <1>2 DEF StackOK
<1> QED
  BY <1>3, <1>5, <1>6, <1>7

\* The innermost frame is removed: the others stay.
LEMMA PopFacts ==
    ASSUME StackOK, NEW t \in Threads, stack[t] # <<>>, Pop(t)
    PROVE  /\ StackOK'
           /\ \A u \in Threads : u # t => stack'[u] = stack[u]
           /\ Len(stack[t]) \in Nat \ {0}
           /\ Len(stack'[t]) = Len(stack[t]) - 1
           /\ \A i \in 1..Len(stack'[t]) : stack'[t][i] = stack[t][i]
<1>1. stack[t] \in Seq(Frames)
  BY DEF StackOK
<1>2. Len(stack[t]) \in Nat \ {0}
  BY <1>1
<1> DEFINE rest == SubSeq(stack[t], 1, Len(stack[t]) - 1)
<1>3. stack' = [stack EXCEPT ![t] = rest]
  BY DEF Pop
<1>4. /\ rest \in Seq(Frames)
      /\ Len(rest) = Len(stack[t]) - 1
      /\ \A i \in 1..Len(rest) : rest[i] = stack[t][i]
  BY <1>1, <1>2
<1> HIDE DEF rest
<1>5. stack'[t] = rest
  BY <1>3 DEF StackOK
<1>6. StackOK'
  BY <1>3, <1>4 DEF StackOK
<1>7. \A u \in Threads : u # t => stack'[u] = stack[u]
  BY <1>3 DEF StackOK
<1> QED
  BY <1>2, <1>4, <1>5, <1>6, <1>7

\* The innermost frame is replaced: the others stay.
LEMMA SetTopFacts ==
    ASSUME StackOK, NEW t \in Threads, stack[t] # <<>>, NEW f \in Frames, SetTop(t, f)
    PROVE  /\ StackOK'
           /\ \A u \in Threads : u # t => stack'[u] = stack[u]
           /\ Len(stack[t]) \in Nat \ {0}
           /\ Len(stack'[t]) = Len(stack[t])
           /\ \A i \in 1..Len(stack[t]) : i # Len(stack[t]) => stack'[t][i] = stack[t][i]
           /\ stack'[t][Len(stack[t])] = f
<1>1. stack[t] \in Seq(Frames)
  BY DEF StackOK
<1>2. Len(stack[t]) \in Nat \ {0}
  BY <1>1
<1> DEFINE n == Len(stack[t])
           s == [stack[t] EXCEPT ![n] = f]
<1>3. stack' = [stack EXCEPT ![t] = s]
  BY DEF SetTop
<1>4. /\ s \in Seq(Frames)
      /\ Len(s) = n
      /\ \A i \in 1..n : i # n => s[i] = stack[t][i]
      /\ s[n] = f
  BY <1>1, <1>2
<1> HIDE DEF s
<1>5. stack'[t] = s
  BY <1>3 DEF StackOK
<1>6. StackOK'
  BY <1>3, <1>4 DEF StackOK
<1>7. \A u \in Threads : u # t => stack'[u] = stack[u]
  BY <1>3 DEF StackOK
<1> QED
  BY <1>2, <1>4, <1>5, <1>6, <1>7

-----------------------------------------------------------------------------
(* The three kinds of steps that change a stack. *)

\* Every frame, except the innermost one of t, is fit for the new data.
OthersFit(t) == \A u \in Threads : \A i \in 1..Len(stack[u]) :
    u # t \/ i # Len(stack[t]) => FrameOK(u, stack[u][i], jref', jenv')

\* A native method or a server begins.
LEMMA PushStep ==
    ASSUME JniInv, NEW t \in Threads, NEW f \in Frames,
           InJava(t), Mine(t, f.ctx), Push(t, f), SetCur(t, f.ctx), f.at = "c",
           f.op \in ServerOps => \A i \in 1..Len(stack[t]) : stack[t][i].ctx # f.ctx,
           DataOK', PrivateOK',
           \A u \in Threads : \A i \in 1..Len(stack[u]) :
               FrameOK(u, stack[u][i], jref', jenv'),
           FrameOK(t, f, jref', jenv')
    PROVE  JniInv'
<1> DEFINE n == Len(stack[t])
<1>1. /\ StackOK'
      /\ \A u \in Threads : u # t => stack'[u] = stack[u]
      /\ Len(stack'[t]) = n + 1
      /\ n \in Nat
      /\ \A i \in 1..n : stack'[t][i] = stack[t][i]
      /\ stack'[t][n + 1] = f
  BY PushFacts DEF JniInv
<1> HIDE DEF n
<1>n. n = Len(stack[t])
  BY DEF n
<1>2. \A i \in 1..n : stack[t][i].at # "c"
  <2>1. n # 0 => stack[t][n].at # "c"
    <3>1. SUFFICES ASSUME n # 0 PROVE stack[t][n].at # "c"
      OBVIOUS
    <3>2. stack[t] # <<>>
      BY <3>1, <1>n DEF JniInv, StackOK
    <3> QED
      BY <3>2, <1>n DEF InJava, InC, Top
  <2>2. \A i \in 1..n : i < n => stack[t][i].at # "c"
    BY <1>n DEF JniInv, OneInC
  <2> QED
    BY <2>1, <2>2, <1>1
<1>3. OneInC'
  BY <1>1, <1>2 DEF JniInv, OneInC
<1>4. FramesOK'
  BY <1>1, <1>n DEF FramesOK
<1>5. \A u \in Threads : u # t => \A j \in 1..Len(stack[u]) : stack[u][j].ctx # f.ctx
  BY DEF Mine, JniInv, StackOK
<1>6. Disjoint'
  <2>1. SUFFICES ASSUME NEW a \in Threads, NEW b \in Threads, a # b,
                        NEW i \in 1..Len(stack'[a]), NEW j \in 1..Len(stack'[b])
                 PROVE  stack'[a][i].ctx # stack'[b][j].ctx
    BY DEF Disjoint
  <2>0. \A k \in 1..(n + 1) : k \in 1..n \/ k = n + 1
    BY <1>1
  <2>2. CASE a = t
    <3>1. stack'[b] = stack[b] /\ j \in 1..Len(stack[b]) /\ i \in 1..(n + 1)
      BY <2>1, <2>2, <1>1
    <3>2. CASE i \in 1..n
      BY <2>1, <2>2, <3>1, <3>2, <1>1, <1>n DEF JniInv, Disjoint
    <3>3. CASE i = n + 1
      BY <2>1, <2>2, <3>1, <3>3, <1>1, <1>5
    <3> QED
      BY <2>0, <3>1, <3>2, <3>3
  <2>3. CASE b = t
    <3>1. stack'[a] = stack[a] /\ i \in 1..Len(stack[a]) /\ j \in 1..(n + 1)
      BY <2>1, <2>3, <1>1
    <3>2. CASE j \in 1..n
      BY <2>1, <2>3, <3>1, <3>2, <1>1, <1>n, SMTT(30), Zenon DEF JniInv, Disjoint
    <3>3. CASE j = n + 1
      BY <2>1, <2>3, <3>1, <3>3, <1>1, <1>5
    <3> QED
      BY <2>0, <3>1, <3>2, <3>3
  <2>4. CASE a # t /\ b # t
    BY <2>1, <2>4, <1>1 DEF JniInv, Disjoint
  <2> QED
    BY <2>2, <2>3, <2>4
<1>7. OneServer'
  <2>1. SUFFICES ASSUME NEW a \in Threads,
                        NEW i \in 1..Len(stack'[a]), NEW j \in 1..Len(stack'[a]),
                        stack'[a][i].op \in ServerOps, stack'[a][j].op \in ServerOps,
                        stack'[a][i].ctx = stack'[a][j].ctx
                 PROVE  i = j
    BY DEF OneServer
  <2>2. CASE a # t
    BY <2>1, <2>2, <1>1 DEF JniInv, OneServer
  <2>3. CASE a = t
    <3>1. \A k \in 1..(n + 1) : k \in 1..n \/ k = n + 1
      BY <1>1
    <3>2. i \in 1..(n + 1) /\ j \in 1..(n + 1)
      BY <2>3, <1>1
    <3>3. CASE i \in 1..n /\ j \in 1..n
      BY <2>1, <2>3, <3>3, <1>1, <1>n, SMTT(30), Zenon DEF JniInv, OneServer
    <3>4. CASE i = n + 1 /\ j \in 1..n
      BY <2>1, <2>3, <3>4, <1>1, <1>n, SMTT(30), Zenon
    <3>5. CASE i \in 1..n /\ j = n + 1
      BY <2>1, <2>3, <3>5, <1>1, <1>n
    <3> QED
      BY <3>1, <3>2, <3>3, <3>4, <3>5
  <2> QED
    BY <2>2, <2>3
<1>8. RightContext'
  <2>1. cur' = [cur EXCEPT ![t] = f.ctx]
    BY DEF SetCur
  <2>2. stack'[t] # <<>> /\ stack'[t][Len(stack'[t])] = f
    BY <1>1 DEF StackOK
  <2>3. cur'[t] = f.ctx
    BY <2>1 DEF JniInv, DataOK
  <2>4. \A u \in Threads : u # t => cur'[u] = cur[u]
    BY <2>1 DEF JniInv, DataOK
  <2> QED
    BY <2>2, <2>3, <2>4, <1>1 DEF JniInv, RightContext, InC, Top
<1> QED
  BY <1>1, <1>3, <1>4, <1>6, <1>7, <1>8 DEF JniInv

\* A native method or a server returns.
LEMMA PopStep ==
    ASSUME JniInv, NEW t \in Threads, InC(t), Pop(t), SetCur(t, Null),
           DataOK', PrivateOK', OthersFit(t)
    PROVE  JniInv'
<1> DEFINE n == Len(stack[t])
<1>1. /\ StackOK'
      /\ \A u \in Threads : u # t => stack'[u] = stack[u]
      /\ n \in Nat \ {0}
      /\ Len(stack'[t]) = n - 1
      /\ \A i \in 1..(n - 1) : stack'[t][i] = stack[t][i]
  BY PopFacts DEF JniInv, InC
<1> HIDE DEF n
<1>n. n = Len(stack[t])
  BY DEF n
<1>2. \A i \in 1..(n - 1) : i \in 1..n /\ i # n /\ stack[t][i].at # "c"
  BY <1>1, <1>n DEF JniInv, OneInC
<1>3. OneInC'
  BY <1>1, <1>2 DEF JniInv, OneInC
<1>4. FramesOK'
  BY <1>1, <1>2, <1>n DEF FramesOK, OthersFit
<1>5. \A u \in Threads : \A i \in 1..Len(stack'[u]) :
          i \in 1..Len(stack[u]) /\ stack'[u][i] = stack[u][i]
  BY <1>1, <1>2, <1>n, Zenon
<1>6. Disjoint'
  <2>1. SUFFICES ASSUME NEW a \in Threads, NEW b \in Threads, a # b,
                        NEW i \in 1..Len(stack'[a]), NEW j \in 1..Len(stack'[b])
                 PROVE  stack'[a][i].ctx # stack'[b][j].ctx
    BY DEF Disjoint
  <2>2. i \in 1..Len(stack[a]) /\ stack'[a][i] = stack[a][i]
    BY <1>5
  <2>3. j \in 1..Len(stack[b]) /\ stack'[b][j] = stack[b][j]
    BY <1>5
  <2>4. stack[a][i].ctx # stack[b][j].ctx
    BY <2>1, <2>2, <2>3 DEF JniInv, Disjoint
  <2> QED
    BY <2>2, <2>3, <2>4
<1>7. OneServer'
  <2>1. SUFFICES ASSUME NEW a \in Threads,
                        NEW i \in 1..Len(stack'[a]), NEW j \in 1..Len(stack'[a]),
                        stack'[a][i].op \in ServerOps, stack'[a][j].op \in ServerOps,
                        stack'[a][i].ctx = stack'[a][j].ctx
                 PROVE  i = j
    BY DEF OneServer
  <2> QED
    BY <2>1, <1>5 DEF JniInv, OneServer
<1>8. RightContext'
  <2>1. cur' = [cur EXCEPT ![t] = Null]
    BY DEF SetCur
  <2>2. ~InC(t)'
    <3>1. SUFFICES ASSUME stack'[t] # <<>> PROVE stack'[t][Len(stack'[t])].at # "c"
      BY DEF InC, Top
    <3>2. Len(stack'[t]) \in 1..(n - 1)
      BY <1>1, <3>1 DEF StackOK
    <3> QED
      BY <1>1, <1>2, <3>2
  <2>3. cur'[t] = Null
    BY <2>1 DEF JniInv, DataOK
  <2>4. \A u \in Threads : u # t => cur'[u] = cur[u]
    BY <2>1 DEF JniInv, DataOK
  <2> QED
    BY <2>2, <2>3, <2>4, <1>1 DEF JniInv, RightContext, InC, Top
<1> QED
  BY <1>1, <1>3, <1>4, <1>6, <1>7, <1>8 DEF JniInv

\* A callback begins or ends.
LEMMA TopStep ==
    ASSUME JniInv, NEW t \in Threads, NEW f \in Frames, stack[t] # <<>>,
           SetTop(t, f), SetCur(t, IF f.at = "c" THEN f.ctx ELSE Null),
           f.ctx = Top(t).ctx, f.op \in ServerOps => Top(t).op \in ServerOps,
           DataOK', PrivateOK', OthersFit(t), FrameOK(t, f, jref', jenv')
    PROVE  JniInv'
<1> DEFINE n == Len(stack[t])
<1>1. /\ StackOK'
      /\ \A u \in Threads : u # t => stack'[u] = stack[u]
      /\ n \in Nat \ {0}
      /\ Len(stack'[t]) = n
      /\ \A i \in 1..n : i # n => stack'[t][i] = stack[t][i]
      /\ stack'[t][n] = f
  BY SetTopFacts DEF JniInv
<1>2. f.ctx = stack[t][n].ctx /\ (f.op \in ServerOps => stack[t][n].op \in ServerOps)
  BY DEF Top
<1> HIDE DEF n
<1>n. n = Len(stack[t])
  BY DEF n
<1>3. OneInC'
  BY <1>1, <1>n DEF JniInv, OneInC
<1>4. FramesOK'
  BY <1>1, <1>n DEF FramesOK, OthersFit
<1>5. \A i \in 1..n : /\ stack'[t][i].ctx = stack[t][i].ctx
                      /\ stack'[t][i].op \in ServerOps => stack[t][i].op \in ServerOps
  BY <1>1, <1>2
<1>c. ASSUME NEW u \in Threads, NEW i \in 1..Len(stack'[u])
      PROVE  i \in 1..Len(stack[u]) /\ stack'[u][i].ctx = stack[u][i].ctx
  <2>1. CASE u = t
    BY <1>1, <1>5, <1>n, <2>1
  <2>2. CASE u # t
    BY <1>1, <2>2
  <2> QED
    BY <2>1, <2>2
<1>6. Disjoint'
  <2>1. ASSUME NEW u \in Threads, NEW v \in Threads, u # v,
               NEW i \in 1..Len(stack'[u]), NEW j \in 1..Len(stack'[v])
        PROVE  stack'[u][i].ctx # stack'[v][j].ctx
    <3>1. /\ i \in 1..Len(stack[u]) /\ stack'[u][i].ctx = stack[u][i].ctx
          /\ j \in 1..Len(stack[v]) /\ stack'[v][j].ctx = stack[v][j].ctx
      BY <1>c
    <3>2. stack[u][i].ctx # stack[v][j].ctx
      BY <2>1, <3>1 DEF JniInv, Disjoint
    <3> QED
      BY <3>1, <3>2
  <2> QED
    BY <2>1 DEF Disjoint
<1>7. OneServer'
  <2>1. ASSUME NEW u \in Threads, NEW i \in 1..Len(stack'[u]), NEW j \in 1..Len(stack'[u]),
               stack'[u][i].op \in ServerOps, stack'[u][j].op \in ServerOps,
               stack'[u][i].ctx = stack'[u][j].ctx
        PROVE  i = j
    <3>1. /\ i \in 1..Len(stack[u]) /\ stack'[u][i].ctx = stack[u][i].ctx
          /\ j \in 1..Len(stack[u]) /\ stack'[u][j].ctx = stack[u][j].ctx
      BY <1>c
    <3>2. stack[u][i].op \in ServerOps /\ stack[u][j].op \in ServerOps
      <4>1. CASE u = t
        BY <1>5, <1>n, <2>1, <3>1, <4>1
      <4>2. CASE u # t
        BY <1>1, <2>1, <4>2
      <4> QED
        BY <4>1, <4>2
    <3> QED
      BY <2>1, <3>1, <3>2, Zenon DEF JniInv, OneServer
  <2> QED
    BY <2>1 DEF OneServer
<1>8. RightContext'
  <2>1. cur' = [cur EXCEPT ![t] = IF f.at = "c" THEN f.ctx ELSE Null]
    BY DEF SetCur
  <2>2. stack'[t] # <<>> /\ stack'[t][Len(stack'[t])] = f
    BY <1>1 DEF StackOK
  <2>3. cur'[t] = IF f.at = "c" THEN f.ctx ELSE Null
    BY <2>1 DEF JniInv, DataOK
  <2>4. \A u \in Threads : u # t => cur'[u] = cur[u]
    BY <2>1 DEF JniInv, DataOK
  <2> QED
    BY <2>2, <2>3, <2>4, <1>1 DEF JniInv, RightContext, InC, Top
<1> QED
  BY <1>1, <1>3, <1>4, <1>6, <1>7, <1>8 DEF JniInv

-----------------------------------------------------------------------------
(* The private data of a context. *)

\* ndrxj_get_ctx of thread t makes c fit for t, and leaves it fit for the
\* frames of t that are on c already.
LEMMA GetCtx ==
    ASSUME JniInv, NEW t \in Threads, NEW c \in Ctxs, Mine(t, c), get_ctx(t, c),
           UNCHANGED srv, cur' \in [Threads -> Ctxs \cup {Null}]
    PROVE  /\ DataOK' /\ PrivateOK'
           /\ jref'[c] # "none" /\ jenv'[c] = t
           /\ \A u \in Threads : \A i \in 1..Len(stack[u]) :
                  FrameOK(u, stack[u][i], jref', jenv')
<1>1. /\ jenv' = [jenv EXCEPT ![c] = t]
      /\ jref' = [jref EXCEPT ![c] = IF ~srv[c] /\ jref[c] = "none" THEN "weak" ELSE jref[c]]
      /\ cctx' = [cctx EXCEPT ![c] = IF srv[c] THEN cctx[c] ELSE c]
      /\ srv' = srv
  BY DEF get_ctx
<1>2. DataOK'
  BY <1>1 DEF JniInv, DataOK
<1>3. /\ jenv'[c] = t
      /\ jref[c] # "none" => jref'[c] = jref[c]
      /\ jref[c] = "none" => jref'[c] = "weak" /\ ~srv[c]
      /\ \A d \in Ctxs : d # c => jref'[d] = jref[d] /\ jenv'[d] = jenv[d] /\ cctx'[d] = cctx[d]
  BY <1>1 DEF JniInv, DataOK, PrivateOK
<1>4. cctx'[c] = c
  BY <1>1, <1>3 DEF JniInv, DataOK, PrivateOK
<1>5. PrivateOK'
  BY <1>1, <1>3, <1>4 DEF JniInv, PrivateOK
<1>6. ASSUME NEW u \in Threads, NEW i \in 1..Len(stack[u])
      PROVE  FrameOK(u, stack[u][i], jref', jenv')
  <2>1. FrameOK(u, stack[u][i], jref, jenv)
    BY DEF JniInv, FramesOK
  <2>2. stack[u][i].ctx \in Ctxs
    <3>1. stack[u] \in Seq(Frames)
      BY DEF JniInv, StackOK
    <3>2. stack[u][i] \in Frames
      BY <3>1
    <3> QED
      BY <3>2 DEF Frames
  <2>3. CASE stack[u][i].ctx # c
    BY <2>1, <2>2, <2>3, <1>3 DEF FrameOK
  <2>4. CASE stack[u][i].ctx = c
    <3>1. u = t
      BY <2>4 DEF Mine, JniInv, StackOK
    <3> QED
      BY <2>1, <2>4, <3>1, <1>3 DEF FrameOK
  <2> QED
    BY <2>3, <2>4
<1> QED
  BY <1>2, <1>3, <1>5, <1>6

\* The frames are fit for data that does not change.
LEMMA SameData ==
    ASSUME JniInv, UNCHANGED <<jenv, jref, cctx, srv>>,
           cur' \in [Threads -> Ctxs \cup {Null}]
    PROVE  /\ DataOK' /\ PrivateOK'
           /\ \A t \in Threads : OthersFit(t)
<1>1. DataOK'
  BY DEF JniInv, DataOK
<1>2. PrivateOK'
  BY DEF JniInv, PrivateOK
<1>3. \A t \in Threads : OthersFit(t)
  BY DEF JniInv, FramesOK, OthersFit
<1> QED
  BY <1>1, <1>2, <1>3

\* tpsetctxt sets the context of one thread.
LEMMA SetCurType ==
    ASSUME JniInv, NEW t \in Threads, NEW c \in Ctxs \cup {Null}, SetCur(t, c)
    PROVE  cur' \in [Threads -> Ctxs \cup {Null}]
BY DEF JniInv, DataOK, SetCur

\* Facts on the innermost frame of a thread that has one.
LEMMA TopFacts ==
    ASSUME JniInv, NEW t \in Threads, stack[t] # <<>>
    PROVE  /\ Len(stack[t]) \in 1..Len(stack[t])
           /\ Top(t) \in Frames /\ Top(t).ctx \in Ctxs
           /\ FrameOK(t, Top(t), jref, jenv)
           /\ InC(t) => cur[t] = Top(t).ctx
<1>1. stack[t] \in Seq(Frames)
  BY DEF JniInv, StackOK
<1>2. Len(stack[t]) \in 1..Len(stack[t])
  BY <1>1
<1>3. Top(t) \in Frames
  BY <1>1, <1>2 DEF Top
<1>4. Top(t).ctx \in Ctxs
  BY <1>3 DEF Frames
<1>5. FrameOK(t, Top(t), jref, jenv)
  BY <1>2 DEF JniInv, FramesOK, Top
<1> QED
  BY <1>2, <1>3, <1>4, <1>5 DEF JniInv, RightContext

-----------------------------------------------------------------------------
(* Every action preserves the invariant. *)

\* Threads of Enduro/X start on contexts of their own that Java does not know.
LEMMA InitHolds == Init => JniInv
<1> SUFFICES ASSUME Init PROVE JniInv
  OBVIOUS
<1>1. PICK own \in [CThreads -> Ctxs] :
          /\ \A t, u \in CThreads : own[t] = own[u] => t = u
          /\ cur = [t \in Threads |-> IF t \in CThreads THEN own[t] ELSE Null]
          /\ stack = [t \in Threads |-> IF t \in CThreads
                                        THEN <<Frame(own[t], "native", Null)>> ELSE <<>>]
  BY DEF Init
<1>2. \A t \in CThreads : Frame(own[t], "native", Null) \in Frames
  BY DEF Frame, Frames
<1>3. \A t \in Threads :
          /\ t \in CThreads => /\ stack[t] = <<Frame(own[t], "native", Null)>>
                               /\ Len(stack[t]) = 1
                               /\ stack[t][1] = Frame(own[t], "native", Null)
          /\ t \notin CThreads => stack[t] = <<>> /\ Len(stack[t]) = 0
  BY <1>1
<1>4. \A t \in CThreads : /\ Frame(own[t], "native", Null).ctx = own[t]
                          /\ Frame(own[t], "native", Null).op = "native"
                          /\ Frame(own[t], "native", Null).at = "c"
  BY DEF Frame
<1>5. StackOK
  BY <1>1, <1>2 DEF StackOK
<1>6. DataOK
  BY <1>1 DEF Init, DataOK
<1>7. PrivateOK
  BY DEF Init, PrivateOK
<1>8. \A t \in Threads : \A i \in 1..Len(stack[t]) :
          t \in CThreads /\ i = 1 /\ stack[t][i] = Frame(own[t], "native", Null)
  <2>1. ASSUME NEW t \in Threads, NEW i \in 1..Len(stack[t])
        PROVE  t \in CThreads /\ i = 1
    <3>1. t \in CThreads
      <4>1. SUFFICES ASSUME t \notin CThreads PROVE FALSE
        OBVIOUS
      <4>2. Len(stack[t]) = 0
        BY <4>1, <1>3
      <4> QED
        BY <2>1, <4>2
    <3>2. Len(stack[t]) = 1
      BY <3>1, <1>3
    <3> QED
      BY <2>1, <3>1, <3>2
  <2> QED
    BY <2>1, <1>3
<1>9. OneInC
  BY <1>3, <1>8 DEF OneInC
<1>10. FramesOK
  <2>1. \A t \in CThreads : FrameOK(t, Frame(own[t], "native", Null), jref, jenv)
    BY <1>4 DEF FrameOK, Init, ServerOps
  <2> QED
    BY <1>8, <2>1 DEF FramesOK
<1>11. Disjoint
  BY <1>1, <1>4, <1>8 DEF Disjoint
<1>12. OneServer
  BY <1>8 DEF OneServer
<1>13. RightContext
  BY <1>1, <1>3, <1>4 DEF RightContext, InC, Top
<1> QED
  BY <1>5, <1>6, <1>7, <1>9, <1>10, <1>11, <1>12, <1>13 DEF JniInv

\* A native method that calls no Java code.
LEMMA NativeStep ==
    ASSUME JniInv, NEW t \in Threads, NEW c \in Ctxs, native(t, c)
    PROVE  JniInv'
<1>1. /\ InJava(t) /\ Mine(t, c) /\ get_ctx(t, c) /\ SetCur(t, Null)
      /\ stack' = stack /\ srv' = srv
  BY DEF native
<1>2. cur' \in [Threads -> Ctxs \cup {Null}]
  BY <1>1, SetCurType
<1>3. /\ DataOK' /\ PrivateOK'
      /\ \A u \in Threads : \A i \in 1..Len(stack[u]) : FrameOK(u, stack[u][i], jref', jenv')
  BY <1>1, <1>2, GetCtx
<1>4. StackOK' /\ OneInC' /\ Disjoint' /\ OneServer'
  BY <1>1 DEF JniInv, StackOK, OneInC, Disjoint, OneServer
<1>5. FramesOK'
  BY <1>1, <1>3 DEF FramesOK
<1>6. RightContext'
  <2>1. cur' = [cur EXCEPT ![t] = Null]
    BY <1>1 DEF SetCur
  <2>2. cur'[t] = Null /\ \A u \in Threads : u # t => cur'[u] = cur[u]
    BY <2>1 DEF JniInv, DataOK
  <2> QED
    BY <1>1, <2>2 DEF JniInv, RightContext, InJava, InC, Top
<1> QED
  BY <1>3, <1>4, <1>5, <1>6 DEF JniInv

\* A call or an evaluation begins.
LEMMA BeginStep ==
    ASSUME JniInv, NEW t \in Threads, NEW c \in Ctxs, NEW op \in {"call", "bool"},
           NEW ub \in Ubfs \cup {Null},
           InJava(t), Mine(t, c), get_ctx(t, c), SetCur(t, c),
           Push(t, Frame(c, op, ub)), UNCHANGED srv
    PROVE  JniInv'
<1> DEFINE f == Frame(c, op, ub)
<1>1. /\ f \in Frames /\ f.ctx = c /\ f.at = "c" /\ f.op = op
      /\ f.op \notin ServerOps
  BY DEF Frame, Frames, ServerOps
<1>2. cur' \in [Threads -> Ctxs \cup {Null}]
  BY SetCurType, SMTT(30), Zenon
<1>3. /\ DataOK' /\ PrivateOK'
      /\ jref'[c] # "none" /\ jenv'[c] = t
      /\ \A u \in Threads : \A i \in 1..Len(stack[u]) : FrameOK(u, stack[u][i], jref', jenv')
  BY <1>2, GetCtx
<1>4. Push(t, f)
  OBVIOUS
<1> HIDE DEF f
<1>5. FrameOK(t, f, jref', jenv')
  BY <1>1, <1>3, Zenon DEF FrameOK
<1> QED
  BY <1>1, <1>3, <1>4, <1>5, PushStep

\* tpRunC enters the server loop on a context that its thread does not use.
LEMMA RunStep ==
    ASSUME JniInv, NEW t \in Threads, NEW c \in Ctxs, tpRunC(t, c)
    PROVE  JniInv'
<1> DEFINE f == Frame(c, "init", Null)
<1>1. /\ f \in Frames /\ f.ctx = c /\ f.at = "c" /\ f.op = "init"
  BY DEF Frame, Frames
<1>2. /\ InJava(t) /\ Mine(t, c) /\ SetCur(t, c) /\ Push(t, f)
      /\ jenv' = [jenv EXCEPT ![c] = t]
      /\ jref' = [jref EXCEPT ![c] = "global"]
      /\ cctx' = [cctx EXCEPT ![c] = c]
      /\ srv' = [srv EXCEPT ![c] = TRUE]
  BY DEF tpRunC
<1>3. \A i \in 1..Len(stack[t]) : stack[t][i].ctx # c
  BY DEF tpRunC, JniInv, StackOK
<1> HIDE DEF f
<1>4. cur' \in [Threads -> Ctxs \cup {Null}]
  BY <1>2, SetCurType
<1>5. DataOK'
  BY <1>2, <1>4 DEF JniInv, DataOK
<1>6. /\ jenv'[c] = t /\ jref'[c] = "global" /\ cctx'[c] = c /\ srv'[c] = TRUE
      /\ \A d \in Ctxs : d # c => /\ jref'[d] = jref[d] /\ jenv'[d] = jenv[d]
                                  /\ cctx'[d] = cctx[d] /\ srv'[d] = srv[d]
  BY <1>2, SMTT(30), Zenon DEF JniInv, DataOK
<1>7. PrivateOK'
  BY <1>6 DEF JniInv, PrivateOK
<1>8. ASSUME NEW u \in Threads, NEW i \in 1..Len(stack[u])
      PROVE  FrameOK(u, stack[u][i], jref', jenv')
  <2>1. FrameOK(u, stack[u][i], jref, jenv)
    BY DEF JniInv, FramesOK
  <2>2. stack[u][i].ctx \in Ctxs
    <3>1. stack[u] \in Seq(Frames)
      BY DEF JniInv, StackOK
    <3>2. stack[u][i] \in Frames
      BY <3>1
    <3> QED
      BY <3>2 DEF Frames
  <2>3. stack[u][i].ctx # c
    <3>1. CASE u = t
      BY <3>1, <1>3
    <3>2. CASE u # t
      BY <3>2, <1>2 DEF Mine, JniInv, StackOK
    <3> QED
      BY <3>1, <3>2
  <2> QED
    BY <2>1, <2>2, <2>3, <1>6 DEF FrameOK
<1>9. FrameOK(t, f, jref', jenv')
  BY <1>1, <1>6 DEF FrameOK, ServerOps
<1> QED
  BY <1>1, <1>2, <1>3, <1>5, <1>7, <1>8, <1>9, PushStep, Zenon

\* A call or an evaluation returns.
LEMMA EndStep ==
    ASSUME JniInv, NEW t \in Threads, InC(t), SetCur(t, Null), Pop(t),
           UNCHANGED <<jenv, jref, cctx, srv>>
    PROVE  JniInv'
<1>1. cur' \in [Threads -> Ctxs \cup {Null}]
  BY SetCurType
<1>2. DataOK' /\ PrivateOK' /\ OthersFit(t)
  BY <1>1, SameData
<1> QED
  BY <1>2, PopStep

\* tpRunC returns: no other frame of the context is a server, so that nothing
\* needs the reference that is deleted.
LEMMA RunEndStep ==
    ASSUME JniInv, NEW t \in Threads, tpRunC_end(t)
    PROVE  JniInv'
<1> DEFINE c == Top(t).ctx
           n == Len(stack[t])
<1>1. /\ InC(t) /\ Top(t).op \in ServerOps
      /\ jref' = [jref EXCEPT ![c] = "deleted"]
      /\ SetCur(t, Null) /\ Pop(t)
      /\ UNCHANGED <<jenv, cctx, srv>>
  BY DEF tpRunC_end, ServerOps
<1>2. stack[t] # <<>>
  BY <1>1 DEF InC
<1>3. /\ n \in 1..n /\ c \in Ctxs /\ FrameOK(t, Top(t), jref, jenv)
  BY <1>2, TopFacts
<1>4. jref[c] = "global"
  BY <1>1, <1>3 DEF FrameOK
<1>t. Top(t) = stack[t][n]
  BY DEF Top
<1> HIDE DEF c
<1>c. c = Top(t).ctx
  BY DEF c
<1>5. cur' \in [Threads -> Ctxs \cup {Null}]
  BY <1>1, SetCurType
<1>6. DataOK'
  BY <1>1, <1>3, <1>5 DEF JniInv, DataOK
<1>7. jref'[c] = "deleted" /\ \A d \in Ctxs : d # c => jref'[d] = jref[d]
  BY <1>1, <1>3, SMTT(30), Zenon DEF JniInv, DataOK
<1>8. PrivateOK'
  BY <1>1, <1>3, <1>4, <1>7 DEF JniInv, PrivateOK
<1>9. ASSUME NEW u \in Threads, NEW i \in 1..Len(stack[u]), u # t \/ i # n
      PROVE  FrameOK(u, stack[u][i], jref', jenv')
  <2>1. FrameOK(u, stack[u][i], jref, jenv)
    BY DEF JniInv, FramesOK
  <2>2. stack[u][i].ctx \in Ctxs
    <3>1. stack[u] \in Seq(Frames)
      BY DEF JniInv, StackOK
    <3>2. stack[u][i] \in Frames
      BY <3>1, SMTT(30), Zenon
    <3> QED
      BY <3>2 DEF Frames
  <2>3. CASE stack[u][i].ctx # c
    BY <1>1, <1>7, <2>1, <2>2, <2>3, SMTT(30), Zenon DEF FrameOK
  <2>4. CASE stack[u][i].ctx = c
    <3>1. u = t
      BY <1>3, <1>t, <1>c, <2>4, SMTT(30), Zenon DEF JniInv, Disjoint
    <3>2. stack[u][i].op \notin ServerOps
      BY <1>1, <1>3, <1>9, <1>t, <1>c, <2>4, <3>1 DEF JniInv, OneServer
    <3> QED
      BY <1>1, <1>4, <1>7, <2>1, <2>4, <3>2, SMTT(30), Zenon DEF FrameOK
  <2> QED
    BY <2>3, <2>4
<1>10. OthersFit(t)
  BY <1>9, SMTT(30), Zenon DEF OthersFit
<1> QED
  BY <1>1, <1>6, <1>8, <1>10, PopStep

\* C calls Java, and the context is known to Java.
LEMMA CallbackStep ==
    ASSUME JniInv, NEW t \in Threads, NEW given \in Ubfs \cup {Null},
           NEW kind \in {"unsol", "xa", "bool", "svrinit", "svc", "svrdone"},
           InC(t), Callback(t, kind, given),
           kind \in {"svrinit", "svrdone"} => Top(t).op \in ServerOps,
           DataOK', PrivateOK', OthersFit(t), jref'[Top(t).ctx] # "none",
           jenv'[Top(t).ctx] = t,
           Top(t).op \in ServerOps => jref'[Top(t).ctx] = "global"
    PROVE  JniInv'
<1> DEFINE f == [Top(t) EXCEPT !.at = kind, !.saved = cur[t], !.given = given]
<1>1. stack[t] # <<>>
  BY DEF InC
<1>2. Top(t) \in Frames /\ Top(t).ctx \in Ctxs /\ cur[t] = Top(t).ctx
  BY <1>1, TopFacts
<1>3. /\ f \in Frames /\ f.ctx = Top(t).ctx /\ f.op = Top(t).op
      /\ f.at = kind /\ f.saved = Top(t).ctx
  BY <1>2, Zenon DEF Frames
<1>4. SetCur(t, Null) /\ SetTop(t, f)
  BY DEF Callback
<1> HIDE DEF f
<1>5. FrameOK(t, f, jref', jenv')
  BY <1>3 DEF FrameOK
<1>6. f.at # "c"
  BY <1>3
<1>7. SetCur(t, IF f.at = "c" THEN f.ctx ELSE Null)
  BY <1>4, <1>6
<1> QED
  BY <1>1, <1>3, <1>4, <1>5, <1>7, TopStep

\* A callback of an operation that Java has begun, so that the data is there.
LEMMA KnownCallbackStep ==
    ASSUME JniInv, NEW t \in Threads, NEW given \in Ubfs \cup {Null},
           NEW kind \in {"unsol", "xa", "bool", "svrinit", "svc", "svrdone"},
           InC(t), Callback(t, kind, given), UNCHANGED <<jenv, jref, cctx, srv>>,
           kind \in {"svrinit", "svrdone"} => Top(t).op \in ServerOps,
           jref[Top(t).ctx] # "none"
    PROVE  JniInv'
<1>1. stack[t] # <<>>
  BY DEF InC
<1>2. FrameOK(t, Top(t), jref, jenv)
  BY <1>1, TopFacts
<1>3. cur' \in [Threads -> Ctxs \cup {Null}]
  BY SetCurType DEF Callback
<1>4. DataOK' /\ PrivateOK' /\ OthersFit(t)
  BY <1>3, SameData
<1>5. /\ jref'[Top(t).ctx] # "none" /\ jenv'[Top(t).ctx] = t
      /\ Top(t).op \in ServerOps => jref'[Top(t).ctx] = "global"
  BY <1>2 DEF FrameOK
<1> QED
  BY <1>4, <1>5, CallbackStep

\* A new frame is in C.
LEMMA FrameAt == \A c, op, u : Frame(c, op, u).at = "c"
  BY SMTT(30) DEF Frame

\* A frame is on a context.
LEMMA FrameCtx == ASSUME JniInv, NEW u \in Threads, NEW i \in 1..Len(stack[u])
                  PROVE  stack[u][i].ctx \in Ctxs
<1>1. stack[u] \in Seq(Frames)
  BY DEF JniInv, StackOK
<1>2. stack[u][i] \in Frames
  BY <1>1, SMTT(30), Zenon
<1> QED
  BY <1>2 DEF Frames

\* An XA entry, on a context that Java knows or does not know yet.
LEMMA XaEntryStep ==
    ASSUME JniInv, NEW t \in Threads, xa_entry(t)
    PROVE  JniInv'
<1> DEFINE c == Top(t).ctx
<1>1. InC(t) /\ Callback(t, "xa", Null)
  BY DEF xa_entry
<1>2. stack[t] # <<>>
  BY <1>1 DEF InC
<1>3. /\ Top(t) \in Frames /\ c \in Ctxs /\ cur[t] = c
      /\ FrameOK(t, Top(t), jref, jenv) /\ Len(stack[t]) \in 1..Len(stack[t])
  BY <1>1, <1>2, TopFacts
<1>4. CASE jref[c] # "none"
  <2>1. UNCHANGED <<jenv, jref, cctx, srv>>
    BY <1>3, <1>4 DEF xa_entry
  <2> QED
    BY <1>1, <1>4, <2>1, KnownCallbackStep
<1>5. CASE jref[c] = "none"
  <2>1. /\ jenv' = [jenv EXCEPT ![c] = t]
        /\ cctx' = [cctx EXCEPT ![c] = c]
        /\ jref' = [jref EXCEPT ![c] = "global"]
        /\ srv' = [srv EXCEPT ![c] = TRUE]
    BY <1>3, <1>5 DEF xa_entry
  <2>2. cur' \in [Threads -> Ctxs \cup {Null}]
    BY <1>1, SetCurType DEF Callback
  <2>t. Top(t) = stack[t][Len(stack[t])]
    BY DEF Top
  <2> HIDE DEF c
  <2>c. c = Top(t).ctx
    BY DEF c
  <2>3. DataOK'
    BY <1>3, <2>1, <2>2 DEF JniInv, DataOK
  <2>4. /\ jenv'[c] = t /\ jref'[c] = "global" /\ cctx'[c] = c /\ srv'[c] = TRUE
        /\ \A d \in Ctxs : d # c => /\ jref'[d] = jref[d] /\ jenv'[d] = jenv[d]
                                    /\ cctx'[d] = cctx[d] /\ srv'[d] = srv[d]
    BY <1>3, <2>1 DEF JniInv, DataOK
  <2>5. PrivateOK'
    BY <2>4 DEF JniInv, PrivateOK
  <2>6. ASSUME NEW u \in Threads, NEW i \in 1..Len(stack[u])
        PROVE  FrameOK(u, stack[u][i], jref', jenv')
    <3>1. FrameOK(u, stack[u][i], jref, jenv)
      BY DEF JniInv, FramesOK
    <3>2. stack[u][i].ctx \in Ctxs
      BY FrameCtx, Zenon
    <3>3. CASE stack[u][i].ctx # c
      BY <2>4, <3>1, <3>2, <3>3 DEF FrameOK
    <3>4. CASE stack[u][i].ctx = c
      <4>1. u = t
        BY <1>3, <2>t, <2>c, <3>4 DEF JniInv, Disjoint
      <4> QED
        BY <2>4, <3>1, <3>4, <4>1, SMTT(30), Zenon DEF FrameOK
    <3> QED
      BY <3>3, <3>4
  <2>7. OthersFit(t)
    BY <2>6 DEF OthersFit
  <2> QED
    BY <1>1, <2>3, <2>4, <2>5, <2>7, <2>c, CallbackStep
<1> QED
  BY <1>4, <1>5

\* A failed ndrxj_alloc_context leaves a context that Java does not know.
LEMMA XaEntryFailsStep ==
    ASSUME JniInv, NEW t \in Threads, xa_entry_fails(t)
    PROVE  JniInv'
<1> DEFINE c == Top(t).ctx
<1>1. InC(t) /\ stack[t] # <<>>
  BY DEF xa_entry_fails, InC
<1>2. c \in Ctxs /\ cur[t] = c
  BY <1>1, TopFacts
<1> HIDE DEF c
<1>3. /\ jref[c] = "none"
      /\ jenv' = [jenv EXCEPT ![c] = t]
      /\ cctx' = cctx \/ cctx' = [cctx EXCEPT ![c] = c]
      /\ cur' = cur /\ stack' = stack /\ jref' = jref /\ srv' = srv
  BY <1>2 DEF xa_entry_fails
<1>4. DataOK'
  BY <1>2, <1>3 DEF JniInv, DataOK
<1>5. \A d \in Ctxs : d # c => jenv'[d] = jenv[d] /\ cctx'[d] = cctx[d]
  BY <1>2, <1>3 DEF JniInv, DataOK
<1>6. PrivateOK'
  BY <1>3, <1>5 DEF JniInv, PrivateOK
<1>7. FramesOK'
  <2>1. ASSUME NEW u \in Threads, NEW i \in 1..Len(stack[u])
        PROVE  FrameOK(u, stack[u][i], jref, jenv')
    <3>1. FrameOK(u, stack[u][i], jref, jenv)
      BY DEF JniInv, FramesOK
    <3>2. stack[u][i].ctx \in Ctxs
      BY FrameCtx, Zenon
    <3> QED
      BY <1>3, <1>5, <3>1, <3>2 DEF FrameOK
  <2> QED
    BY <1>3, <2>1, Zenon DEF FramesOK
<1>8. StackOK' /\ OneInC' /\ Disjoint' /\ OneServer'
  <2>1. StackOK' /\ OneInC'
    BY <1>3 DEF JniInv, StackOK, OneInC
  <2>2. Disjoint'
    BY <1>3 DEF JniInv, Disjoint
  <2>3. OneServer'
    BY <1>3 DEF JniInv, OneServer
  <2> QED
    BY <2>1, <2>2, <2>3
<1>9. RightContext'
  BY <1>3 DEF JniInv, RightContext, InC, Top
<1> QED
  BY <1>4, <1>6, <1>7, <1>8, <1>9 DEF JniInv

\* Java returns to C: the context saved is the one of the frame.
LEMMA CallbackEndStep ==
    ASSUME JniInv, NEW t \in Threads, callback_end(t)
    PROVE  JniInv'
<1> DEFINE f == Top(t)
<1>1. stack[t] # <<>> /\ f.at # "c"
  BY DEF callback_end
<1>2. f \in Frames /\ f.ctx \in Ctxs /\ FrameOK(t, f, jref, jenv)
  BY <1>1, TopFacts
<1>3. PICK op \in CASE f.at = "svrinit" -> {"serve", "fail"}
                    [] f.at = "svrdone" -> {"stop"}
                    [] OTHER -> {f.op} :
          SetTop(t, [f EXCEPT !.at = "c", !.saved = Null, !.given = Null, !.op = op])
  BY Zenon DEF callback_end
<1> DEFINE g == [f EXCEPT !.at = "c", !.saved = Null, !.given = Null, !.op = op]
<1>s. SetTop(t, g)
  BY <1>3
<1>4. SetCur(t, IF f.at \in {"unsol", "bool"} THEN f.saved ELSE cctx[f.saved])
  BY DEF callback_end
<1>5. UNCHANGED <<jenv, jref, cctx, srv>>
  BY DEF callback_end
<1> HIDE DEF f
<1>f. f = Top(t)
  BY DEF f
<1>6. f.saved = f.ctx /\ jref[f.ctx] # "none" /\ jenv[f.ctx] = t
  BY <1>1, <1>2 DEF FrameOK
<1>7. cctx[f.ctx] = f.ctx
  BY <1>2, <1>6 DEF JniInv, PrivateOK
<1>8. SetCur(t, f.ctx)
  BY <1>4, <1>6, <1>7
<1>9. \/ op = f.op
      \/ op \in ServerOps /\ f.op \in ServerOps /\ op \in {"serve", "fail", "stop"}
  BY <1>2, <1>3 DEF FrameOK, ServerOps
<1>10. /\ g \in Frames /\ g.at = "c" /\ g.ctx = f.ctx /\ g.op = op
  BY <1>2, <1>9, Zenon DEF Frames
<1> HIDE DEF g
<1>11. g.op \in ServerOps => f.op \in ServerOps
  BY <1>9, <1>10
<1>12. cur' \in [Threads -> Ctxs \cup {Null}]
  BY <1>2, <1>8, SetCurType
<1>13. DataOK' /\ PrivateOK' /\ OthersFit(t)
  BY <1>5, <1>12, SameData
<1>14. FrameOK(t, g, jref', jenv')
  BY <1>2, <1>5, <1>6, <1>10, <1>11 DEF FrameOK
<1>15. SetCur(t, IF g.at = "c" THEN g.ctx ELSE Null)
  BY <1>8, <1>10
<1> QED
  BY <1>1, <1>f, <1>s, <1>10, <1>11, <1>13, <1>14, <1>15, TopStep

\* The buffer of the callbacks is a UBF object or none.
CbOK == cbUbf \in [Threads -> Ubfs \cup {Null}]

\* Every step of JniCallbacks preserves the invariant.
LEMMA NextHolds == JniInv /\ CbOK /\ [Next]_vars => (JniInv /\ CbOK)'
<1> SUFFICES ASSUME JniInv, CbOK, [Next]_vars
             PROVE  JniInv' /\ CbOK'
  OBVIOUS
<1>1. ASSUME NEW t \in Threads, NEW c \in Ctxs, native(t, c)
      PROVE  JniInv' /\ CbOK'
  BY <1>1, NativeStep DEF native, CbOK
<1>2. ASSUME NEW t \in Threads, NEW c \in Ctxs, call_begin(t, c)
      PROVE  JniInv' /\ CbOK'
  BY <1>2, BeginStep DEF call_begin, CbOK
<1>3. ASSUME NEW t \in JThreads, NEW c \in Ctxs, tpRunC(t, c)
      PROVE  JniInv' /\ CbOK'
  <2>1. t \in Threads
    BY DEF Threads
  <2> QED
    BY <1>3, <2>1, RunStep, Zenon DEF tpRunC, CbOK
<1>4. ASSUME NEW t \in Threads, NEW c \in Ctxs, NEW u \in Ubfs, bool_begin(t, c, u)
      PROVE  JniInv' /\ CbOK'
  <2>1. JniInv'
    BY <1>4, BeginStep DEF bool_begin
  <2>2. CbOK'
    BY <1>4 DEF bool_begin, CbOK
  <2> QED
    BY <2>1, <2>2
<1>5. ASSUME NEW t \in Threads, call_end(t)
      PROVE  JniInv' /\ CbOK'
  BY <1>5, EndStep DEF call_end, CbOK
<1>6. ASSUME NEW t \in Threads, bool_end(t)
      PROVE  JniInv' /\ CbOK'
  <2>1. JniInv'
    BY <1>6, EndStep DEF bool_end
  <2>2. CbOK'
    BY <1>6 DEF bool_end, CbOK
  <2> QED
    BY <2>1, <2>2
<1>7. ASSUME NEW t \in Threads, tpRunC_end(t)
      PROVE  JniInv' /\ CbOK'
  BY <1>7, RunEndStep, Zenon DEF tpRunC_end, CbOK
<1>8. ASSUME NEW t \in Threads, xa_entry(t)
      PROVE  JniInv' /\ CbOK'
  BY <1>8, XaEntryStep DEF xa_entry, CbOK
<1>9. ASSUME NEW t \in Threads, xa_entry_fails(t)
      PROVE  JniInv' /\ CbOK'
  BY <1>9, XaEntryFailsStep, Zenon DEF xa_entry_fails, CbOK
<1>10. ASSUME NEW t \in Threads, callback_end(t)
       PROVE  JniInv' /\ CbOK'
  BY <1>10, CallbackEndStep, Zenon DEF callback_end, CbOK
<1>11. ASSUME NEW t \in Threads, NEW kind \in {"unsol", "xa", "bool", "svrinit", "svc", "svrdone"},
              NEW given \in Ubfs \cup {Null},
              InC(t), Top(t).op # "native", Callback(t, kind, given),
              kind \in {"svrinit", "svrdone"} => Top(t).op \in ServerOps,
              UNCHANGED <<jenv, jref, cctx, srv, cbUbf>>
       PROVE  JniInv' /\ CbOK'
  <2>1. FrameOK(t, Top(t), jref, jenv)
    BY <1>11, TopFacts DEF InC
  <2>2. jref[Top(t).ctx] # "none"
    BY <1>11, <2>1 DEF FrameOK
  <2>3. JniInv'
    BY <1>11, <2>2, KnownCallbackStep
  <2> QED
    BY <1>11, <2>3, SMTT(30), Zenon DEF CbOK
<1>12. ASSUME NEW t \in Threads, ndrx_unsol_dispatcher(t)
       PROVE  JniInv' /\ CbOK'
  BY <1>11, <1>12 DEF ndrx_unsol_dispatcher
<1>13. ASSUME NEW t \in Threads, Bbool_callback_function(t)
       PROVE  JniInv' /\ CbOK'
  <2>1. PICK u \in IF cbUbf[t] = Null THEN Ubfs \cup {Null} ELSE {cbUbf[t]} :
            Callback(t, "bool", u)
    BY <1>13 DEF Bbool_callback_function
  <2>2. u \in Ubfs \cup {Null}
    BY <2>1 DEF CbOK
  <2> QED
    BY <1>11, <1>13, <2>1, <2>2 DEF Bbool_callback_function
<1>14. ASSUME NEW t \in Threads, tpsvrinit(t)
       PROVE  JniInv' /\ CbOK'
  BY <1>11, <1>14 DEF tpsvrinit, ServerOps
<1>15. ASSUME NEW t \in Threads, dispatch_call(t)
       PROVE  JniInv' /\ CbOK'
  BY <1>11, <1>15 DEF dispatch_call
<1>16. ASSUME NEW t \in Threads, tpsvrdone(t)
       PROVE  JniInv' /\ CbOK'
  BY <1>11, <1>16 DEF tpsvrdone, ServerOps
<1>17. CASE UNCHANGED vars
  <2>1. /\ cur' = cur /\ stack' = stack /\ jenv' = jenv /\ jref' = jref
        /\ cctx' = cctx /\ srv' = srv /\ cbUbf' = cbUbf
    BY <1>17 DEF vars
  <2>2. StackOK' /\ DataOK' /\ CbOK'
    BY <2>1, SMTT(30), Zenon DEF JniInv, StackOK, DataOK, CbOK
  <2>3. OneInC'
    BY <2>1 DEF JniInv, OneInC
  <2>4. PrivateOK'
    BY <2>1 DEF JniInv, PrivateOK
  <2>5. Disjoint'
    BY <2>1 DEF JniInv, Disjoint
  <2>6. OneServer'
    BY <2>1, SMTT(30), Zenon DEF JniInv, OneServer
  <2>7. FramesOK'
    BY <2>1, Zenon DEF JniInv, FramesOK
  <2>8. RightContext'
    BY <2>1 DEF JniInv, RightContext, InC, Top
  <2> QED
    BY <2>2, <2>3, <2>4, <2>5, <2>6, <2>7, <2>8 DEF JniInv
<1> QED
  BY <1>1, <1>2, <1>3, <1>4, <1>5, <1>6, <1>7, <1>8, <1>9, <1>10, <1>12, <1>13,
     <1>14, <1>15, <1>16, <1>17 DEF Next

\* The invariant holds always.
LEMMA Invariant == Spec => [](JniInv /\ CbOK)
<1>1. Init => JniInv /\ CbOK
  BY InitHolds DEF Init, CbOK
<1> QED
  BY <1>1, NextHolds, PTL DEF Spec

\* The data a callback needs is there by the invariant.
LEMMA InvReady == JniInv => CallbackReady
<1> SUFFICES ASSUME JniInv, NEW t \in Threads, InC(t),
                    jref[Top(t).ctx] # "none" \/ Top(t).op # "native"
             PROVE  LET c == Top(t).ctx
                    IN  /\ jenv[c] = t /\ cctx[c] = c
                        /\ jref[c] \in CASE Top(t).op \in ServerOps -> {"global"}
                                        [] srv[c] -> {"global", "deleted"}
                                        [] OTHER -> {"weak"}
  BY DEF CallbackReady
<1> DEFINE c == Top(t).ctx
<1>1. c \in Ctxs /\ FrameOK(t, Top(t), jref, jenv)
  BY TopFacts DEF InC
<1>2. jref[c] # "none"
  BY <1>1 DEF FrameOK
<1>3. jenv[c] = t /\ (Top(t).op \in ServerOps => jref[c] = "global")
  BY <1>1, <1>2 DEF FrameOK
<1>4. /\ cctx[c] = c
      /\ srv[c] => jref[c] \in {"global", "deleted"}
      /\ ~srv[c] => jref[c] = "weak"
  BY <1>1, <1>2 DEF JniInv, PrivateOK
<1> HIDE DEF c
<1>5. jref[c] \in CASE Top(t).op \in ServerOps -> {"global"}
                    [] srv[c] -> {"global", "deleted"}
                    [] OTHER -> {"weak"}
  <2>1. CASE Top(t).op \in ServerOps
    BY <1>3, <2>1, <1>4
  <2>2. CASE Top(t).op \notin ServerOps /\ srv[c]
    BY <1>4, <2>2
  <2>3. CASE Top(t).op \notin ServerOps /\ ~srv[c]
    BY <1>4, <2>3
  <2> QED
    BY <2>1, <2>2, <2>3
<1> QED
  BY <1>3, <1>4, <1>5 DEF c

\* However calls and callbacks nest, C code runs on the context its native
\* method was entered with (tpsetctxt in ndrxj_get_ctx, and again after each
\* callback), for any number of threads, contexts and nested frames.
THEOREM ContextRight == Spec => []RightContext
<1>1. JniInv => RightContext
  BY DEF JniInv
<1> QED
  BY <1>1, Invariant, PTL

\* Whenever C code may call back, the private data of its context has the
\* JNIEnv of the thread, the C context and a live reference that ndrxj_get_ctx,
\* ndrxj_alloc_context or tpRunC stored there.
THEOREM CallbacksFindData == Spec => []CallbackReady
  BY Invariant, InvReady, PTL

-----------------------------------------------------------------------------
(* The server: its steps are steps of JniCallbacks. *)

\* A step of the server is a step of JniCallbacks or leaves its state alone.
LEMMA ServerStep == JniInv /\ [ServerNext]_<<vars, serverVars>> => [Next]_vars
<1> SUFFICES ASSUME JniInv, [ServerNext]_<<vars, serverVars>>
             PROVE  [Next]_vars
  OBVIOUS
<1>1. ASSUME NEW t \in JThreads, NEW c \in Ctxs, tprun(t, c)
      PROVE  Next
  BY <1>1 DEF tprun, Next
<1>2. ASSUME NEW t \in Threads, NEW c \in Ctxs, native(t, c)
      PROVE  Next
  BY <1>2 DEF Next
<1>3. ASSUME NEW t \in Threads, NEW c \in Ctxs,
             \/ \E s \in Svcs, o \in Objs : tpadvertise(t, c, s, o)
             \/ tpreturn(t, c) \/ tpforward(t, c)
             \/ tpsrvgetctxdata(t, c) \/ tpcontinue(t, c)
             \/ \E r \in Reqs : tpsrvsetctxdata(t, c, r) \/ tpsrvfreectxdata(t, c, r)
             \/ \E cb \in BOOLEAN : tpsetunsol(t, c, cb)
             \/ tpnotify(t, c) \/ tpbroadcast(t, c)
      PROVE  Next
  <2>1. native(t, c)
    BY <1>3 DEF tpadvertise, tpreturn, tpforward, Answer, tpsrvgetctxdata, tpcontinue,
                tpsrvsetctxdata, tpsrvfreectxdata, tpsetunsol, tpnotify, tpbroadcast
  <2> QED
    BY <1>2, <2>1, SMTT(30), Zenon
<1>4. ASSUME NEW t \in Threads, NEW c \in Ctxs, tpchkunsol(t, c)
      PROVE  Next
  BY <1>4 DEF tpchkunsol, Next
<1>5. ASSUME NEW t \in Threads, tprun_end(t)
      PROVE  Next
  BY <1>5 DEF tprun_end, Next
<1>6. ASSUME NEW t \in Threads, NEW r \in Reqs, NEW s \in Svcs, dispatch(t, s, r)
      PROVE  Next
  BY <1>6 DEF dispatch, Next
<1>7. ASSUME NEW t \in Threads, NEW r \in Reqs, TpSvcInfo_translate_fails(t, r)
      PROVE  UNCHANGED vars
  BY <1>7 DEF TpSvcInfo_translate_fails
<1>8. ASSUME NEW t \in Threads, tpCallDispatch(t)
      PROVE  Next
  <2>1. stack[t] # <<>> /\ native(t, Top(t).ctx)
    BY <1>8 DEF tpCallDispatch
  <2>2. Top(t).ctx \in Ctxs
    BY <2>1, TopFacts, SMTT(30), Zenon
  <2> QED
    BY <1>2, <2>1, <2>2
<1>9. ASSUME NEW t \in Threads, service_end(t)
      PROVE  Next
  BY <1>9 DEF service_end, Next
<1>10. ASSUME NEW t \in Threads, unsol_message(t)
       PROVE  Next
  BY <1>10 DEF unsol_message, Next
<1>11. CASE Others
  BY <1>11 DEF Others, Next
<1>12. CASE UNCHANGED <<vars, serverVars>>
  BY <1>12
<1> QED
  BY <1>1, <1>3, <1>4, <1>5, <1>6, <1>7, <1>8, <1>9, <1>10, <1>11, <1>12 DEF ServerNext

\* The invariant of JniCallbacks holds of a server.
LEMMA ServerInvariant == ServerSpec => [](JniInv /\ CbOK)
<1>1. ServerInit => JniInv /\ CbOK
  BY InitHolds DEF ServerInit, Init, CbOK
<1>2. JniInv /\ CbOK /\ [ServerNext]_<<vars, serverVars>> => (JniInv /\ CbOK)'
  BY ServerStep, NextHolds
<1> QED
  BY <1>1, <1>2, PTL DEF ServerSpec

\* A server that advertises, dispatches, answers and hands requests to workers
\* does nothing with native frames, contexts and their private data that
\* JniCallbacks does not allow.
THEOREM ServerImplementsJniCallbacks == ServerSpec => Spec
<1>1. ServerInit => Init
  BY DEF ServerInit
<1> QED
  BY <1>1, ServerInvariant, ServerStep, PTL DEF ServerSpec, Spec

\* So the services, the workers and the unsolicited callbacks of a server run
\* C code on the right context.
THEOREM ServerContextRight == ServerSpec => []RightContext
  BY ServerImplementsJniCallbacks, ContextRight, PTL

\* And its callbacks find the private data they need.
THEOREM ServerCallbacksFindData == ServerSpec => []CallbackReady
  BY ServerImplementsJniCallbacks, CallbacksFindData, PTL

-----------------------------------------------------------------------------
(* The services that are advertised. *)

TablesOK == /\ svcMap \in [Svcs -> Objs \cup {Null}]
            /\ promised \in [Svcs -> Objs \cup {Null}]
            /\ advertised \subseteq Svcs
            /\ ServedAsAdvertised

\* A request is served by the object of the last tpadvertise of its name that
\* succeeded, for any services and objects and over any number of servers that
\* run one after the other: AtmiCtx.tpadvertise puts into svcMap only what
\* tpadvertiseC has accepted.
THEOREM AdvertisedServed == ServerSpec => []ServedAsAdvertised
<1>1. ServerInit => TablesOK
  BY DEF ServerInit, TablesOK, ServedAsAdvertised
<1>2. ASSUME TablesOK, [ServerNext]_<<vars, serverVars>>
      PROVE  TablesOK'
  <2>1. CASE UNCHANGED tableVars
    <3>1. advertised' = advertised /\ svcMap' = svcMap /\ promised' = promised
      BY <2>1 DEF tableVars
    <3> QED
      BY <1>2, <3>1 DEF TablesOK, ServedAsAdvertised
  <2>2. ASSUME NEW t \in Threads, NEW c \in Ctxs, NEW s \in Svcs, NEW o \in Objs,
               advertised' = advertised \cup {s},
               promised' = [promised EXCEPT ![s] = o],
               svcMap' = [svcMap EXCEPT ![s] = o]
        PROVE  TablesOK'
    BY <1>2, <2>2, ServerAssumption DEF TablesOK, ServedAsAdvertised
  <2>3. ASSUME NEW t \in Threads, tprun_end(t)
        PROVE  TablesOK'
    BY <1>2, <2>3 DEF tprun_end, TablesOK, ServedAsAdvertised
  <2>4. ASSUME NEW t \in Threads, NEW c \in Ctxs, NEW s \in Svcs, NEW o \in Objs,
               tpadvertise(t, c, s, o)
        PROVE  TablesOK'
    BY <2>1, <2>2, <2>4 DEF tpadvertise
  <2>5. CASE UNCHANGED <<vars, serverVars>>
    BY <2>1, <2>5 DEF serverVars
  <2>6. CASE Others
    BY <2>1, <2>6 DEF Others, serverVars
  <2>7. ASSUME NEW t \in JThreads, NEW c \in Ctxs, tprun(t, c)
        PROVE  TablesOK'
    BY <2>1, <2>7, SMTT(30), Zenon DEF tprun, serverVars
  <2>8. ASSUME NEW t \in Threads, NEW c \in Ctxs,
               \/ tpreturn(t, c) \/ tpforward(t, c)
               \/ tpsrvgetctxdata(t, c) \/ tpcontinue(t, c)
               \/ \E r \in Reqs : tpsrvsetctxdata(t, c, r) \/ tpsrvfreectxdata(t, c, r)
               \/ \E cb \in BOOLEAN : tpsetunsol(t, c, cb)
               \/ tpnotify(t, c) \/ tpbroadcast(t, c) \/ tpchkunsol(t, c)
        PROVE  TablesOK'
    BY <2>1, <2>8 DEF tpreturn, tpforward, Answer, tpsrvgetctxdata, tpcontinue, serverVars,
                      tpsrvsetctxdata, tpsrvfreectxdata, tpsetunsol, tpnotify, tpbroadcast,
                      tpchkunsol
  <2>9. ASSUME NEW t \in Threads,
               \/ \E r \in Reqs : \/ \E s \in Svcs : dispatch(t, s, r)
                                  \/ TpSvcInfo_translate_fails(t, r)
               \/ tpCallDispatch(t) \/ service_end(t) \/ unsol_message(t)
        PROVE  TablesOK'
    BY <2>1, <2>9, Zenon DEF dispatch, TpSvcInfo_translate_fails, tpCallDispatch, service_end,
                      unsol_message, serverVars
  <2> QED
    BY <1>2, <2>3, <2>4, <2>5, <2>6, <2>7, <2>8, <2>9 DEF ServerNext
<1>3. TablesOK => ServedAsAdvertised
  BY DEF TablesOK
<1> QED
  BY <1>1, <1>2, <1>3, PTL DEF ServerSpec

-----------------------------------------------------------------------------
(* One answer for each request. *)

CallTypes == /\ hold \in [Ctxs -> Reqs \cup {Null}]
             /\ data \in [Reqs -> {"no", "captured", "set", "freed"}]
             /\ ans \in [Reqs -> 0..2]
             /\ owed \subseteq Reqs /\ caught \subseteq Ctxs

\* Some thread runs a service on context c, or the end of tpCallDispatch.
SvcTop(c) == \E t \in Threads : stack[t] # <<>> /\ Top(t).at = "svc" /\ Top(t).ctx = c

\* No server runs on context c.
Unserved(c) == \A t \in Threads : \A i \in 1..Len(stack[t]) :
                   stack[t][i].ctx = c => stack[t][i].op \notin ServerOps

\* Services run in the server loop; outside them a server has no request.
ServeOK == \A t \in Threads : \A i \in 1..Len(stack[t]) :
    /\ stack[t][i].at = "svc" => stack[t][i].op = "serve"
    /\ stack[t][i].op \in ServerOps /\ stack[t][i].at # "svc"
       => hold[stack[t][i].ctx] = Null

CaughtTop == \A c \in caught : SvcTop(c)

\* The request of a service that has thrown is answered.
CaughtAnswered == \A c \in caught : hold[c] \in owed => ans[hold[c]] = 1

\* A request that was handed over and is not answered is held by a worker.
WorkerHolds == \A r \in owed : data[r] \in {"set", "freed"} /\ ans[r] = 0 =>
                   \E c \in Ctxs : hold[c] = r /\ Unserved(c)

CallInv == CallTypes /\ ServeOK /\ CaughtTop /\ CaughtAnswered /\ WorkerHolds /\ AnsweredOnce

\* What a step does to the frames leaves the requests of the server in order.
StackFits(t) == /\ ServeOK' /\ CaughtTop'
                /\ \A c \in Ctxs : hold[c] # Null /\ Unserved(c) => Unserved(c)'

\* A step that changes frames only.
LEMMA FramesOnly ==
    ASSUME CallInv, NEW t \in Threads, UNCHANGED callVars, StackFits(t)
    PROVE  CallInv'
<1>1. /\ hold' = hold /\ data' = data /\ ans' = ans /\ owed' = owed /\ caught' = caught
  BY DEF callVars
<1>2. CallTypes' /\ CaughtAnswered'
  BY <1>1 DEF CallInv, CallTypes, CaughtAnswered
<1>3. AnsweredOnce'
  BY <1>1 DEF CallInv, AnsweredOnce, Over
<1>4. WorkerHolds'
  <2>1. ASSUME NEW r \in owed, data[r] \in {"set", "freed"}, ans[r] = 0
        PROVE  \E c \in Ctxs : hold[c] = r /\ Unserved(c)'
    <3>1. PICK c \in Ctxs : hold[c] = r /\ Unserved(c)
      BY <2>1 DEF CallInv, WorkerHolds
    <3>2. r # Null
      BY ServerAssumption DEF CallInv, CallTypes
    <3> QED
      BY <3>1, <3>2 DEF StackFits
  <2> QED
    BY <1>1, <2>1 DEF WorkerHolds
<1> QED
  BY <1>2, <1>3, <1>4 DEF CallInv, StackFits

\* No frame changes.
LEMMA SameStack ==
    ASSUME CallInv, stack' = stack
    PROVE  /\ \A c \in Ctxs : Unserved(c)' = Unserved(c) /\ SvcTop(c)' = SvcTop(c)
           /\ \A c : Unserved(c) => Unserved(c)'
           /\ \A c : SvcTop(c) => SvcTop(c)'
  BY DEF Unserved, SvcTop, Top

\* The program runs in thread t, so that the end of tpCallDispatch does not.
LEMMA ProgramNotCaught ==
    ASSUME NEW t \in Threads, InJava(t), Program(t), stack[t] # <<>>, Top(t).at = "svc"
    PROVE  Top(t).ctx \notin caught
  BY DEF Program

\* A frame is pushed by the program.
LEMMA PushFits ==
    ASSUME JniInv, CallInv, NEW t \in Threads, NEW f \in Frames, Push(t, f),
           UNCHANGED callVars, InJava(t), Program(t), f.at = "c",
           f.op \in ServerOps => hold[f.ctx] = Null
    PROVE  CallInv'
<1>0. hold' = hold /\ caught' = caught
  BY DEF callVars
<1>1. /\ \A u \in Threads : u # t => stack'[u] = stack[u]
      /\ Len(stack'[t]) = Len(stack[t]) + 1
      /\ Len(stack[t]) \in Nat
      /\ \A i \in 1..Len(stack[t]) : stack'[t][i] = stack[t][i]
      /\ stack'[t][Len(stack[t]) + 1] = f
  BY PushFacts, SMTT(30), Zenon DEF JniInv
<1>2. ASSUME NEW u \in Threads, NEW i \in 1..Len(stack'[u])
      PROVE  \/ i \in 1..Len(stack[u]) /\ stack'[u][i] = stack[u][i]
             \/ stack'[u][i] = f
  <2>1. CASE u # t
    BY <1>1, <2>1
  <2>2. CASE u = t
    BY <1>1, <2>2
  <2> QED
    BY <2>1, <2>2, SMTT(30), Zenon
<1>3. ServeOK'
  <2>1. ASSUME NEW u \in Threads, NEW i \in 1..Len(stack'[u])
        PROVE  /\ stack'[u][i].at = "svc" => stack'[u][i].op = "serve"
               /\ stack'[u][i].op \in ServerOps /\ stack'[u][i].at # "svc"
                  => hold[stack'[u][i].ctx] = Null
    <3>1. CASE stack'[u][i] = f
      BY <3>1
    <3>2. CASE i \in 1..Len(stack[u]) /\ stack'[u][i] = stack[u][i]
      BY <3>2, Zenon DEF CallInv, ServeOK
    <3> QED
      BY <1>2, <3>1, <3>2, Zenon
  <2> QED
    BY <1>0, <2>1 DEF ServeOK
<1>4. CaughtTop'
  <2>1. ASSUME NEW c \in caught
        PROVE  SvcTop(c)'
    <3>1. PICK u \in Threads : stack[u] # <<>> /\ Top(u).at = "svc" /\ Top(u).ctx = c
      BY DEF CallInv, CaughtTop, SvcTop
    <3>2. u # t
      BY <3>1, ProgramNotCaught
    <3>3. stack'[u] = stack[u]
      BY <1>1, <3>2, SMTT(30), Zenon
    <3> QED
      BY <3>1, <3>3, SMTT(30), Zenon DEF SvcTop, Top
  <2> QED
    BY <1>0, <2>1 DEF CaughtTop
<1>5. ASSUME NEW c \in Ctxs, hold[c] # Null, Unserved(c)
      PROVE  Unserved(c)'
  <2>1. ASSUME NEW u \in Threads, NEW i \in 1..Len(stack'[u]), stack'[u][i].ctx = c
        PROVE  stack'[u][i].op \notin ServerOps
    BY <1>2, <1>5, <2>1 DEF Unserved
  <2> QED
    BY <2>1, SMTT(30), Zenon DEF Unserved
<1>6. StackFits(t)
  BY <1>3, <1>4, <1>5 DEF StackFits
<1> QED
  BY <1>6, FramesOnly

\* A frame at work in C is popped.
LEMMA PopFits ==
    ASSUME JniInv, CallInv, NEW t \in Threads, InC(t), Pop(t), UNCHANGED callVars
    PROVE  CallInv'
<1>0. hold' = hold /\ caught' = caught
  BY DEF callVars
<1>1. stack[t] # <<>> /\ Top(t).at = "c"
  BY DEF InC
<1>2. /\ \A u \in Threads : u # t => stack'[u] = stack[u]
      /\ Len(stack[t]) \in Nat \ {0}
      /\ Len(stack'[t]) = Len(stack[t]) - 1
      /\ \A i \in 1..Len(stack'[t]) : stack'[t][i] = stack[t][i]
  BY <1>1, PopFacts DEF JniInv
<1>3. ASSUME NEW u \in Threads, NEW i \in 1..Len(stack'[u])
      PROVE  i \in 1..Len(stack[u]) /\ stack'[u][i] = stack[u][i]
  <2>1. CASE u # t
    BY <1>2, <2>1
  <2>2. CASE u = t
    BY <1>2, <2>2, SMTT(30), Zenon
  <2> QED
    BY <2>1, <2>2
<1>4. ServeOK'
  <2>1. ASSUME NEW u \in Threads, NEW i \in 1..Len(stack'[u])
        PROVE  /\ stack'[u][i].at = "svc" => stack'[u][i].op = "serve"
               /\ stack'[u][i].op \in ServerOps /\ stack'[u][i].at # "svc"
                  => hold[stack'[u][i].ctx] = Null
    BY <1>3 DEF CallInv, ServeOK
  <2> QED
    BY <1>0, <2>1 DEF ServeOK
<1>5. CaughtTop'
  <2>1. ASSUME NEW c \in caught
        PROVE  SvcTop(c)'
    <3>1. PICK u \in Threads : stack[u] # <<>> /\ Top(u).at = "svc" /\ Top(u).ctx = c
      BY SMTT(30), Zenon DEF CallInv, CaughtTop, SvcTop
    <3>2. stack'[u] = stack[u]
      BY <1>1, <1>2, <3>1
    <3> QED
      BY <3>1, <3>2 DEF SvcTop, Top
  <2> QED
    BY <1>0, <2>1 DEF CaughtTop
<1>6. ASSUME NEW c \in Ctxs, Unserved(c)
      PROVE  Unserved(c)'
  BY <1>3, <1>6 DEF Unserved
<1>7. StackFits(t)
  BY <1>4, <1>5, <1>6 DEF StackFits
<1> QED
  BY <1>7, FramesOnly

\* The innermost frame becomes f; neither runs a service.
LEMMA TopFits ==
    ASSUME JniInv, CallInv, NEW t \in Threads, stack[t] # <<>>, NEW f \in Frames,
           SetTop(t, f), UNCHANGED callVars,
           Top(t).at # "svc", f.at # "svc", f.ctx = Top(t).ctx,
           f.op \in ServerOps => Top(t).op \in ServerOps
    PROVE  CallInv'
<1>0. hold' = hold /\ caught' = caught
  BY SMTT(30), Zenon DEF callVars
<1>1. /\ \A u \in Threads : u # t => stack'[u] = stack[u]
      /\ Len(stack[t]) \in Nat \ {0}
      /\ Len(stack'[t]) = Len(stack[t])
      /\ \A i \in 1..Len(stack[t]) : i # Len(stack[t]) => stack'[t][i] = stack[t][i]
      /\ stack'[t][Len(stack[t])] = f
  BY SetTopFacts DEF JniInv
<1>2. ASSUME NEW u \in Threads, NEW i \in 1..Len(stack'[u])
      PROVE  /\ i \in 1..Len(stack[u])
             /\ \/ stack'[u][i] = stack[u][i]
                \/ stack'[u][i] = f /\ stack[u][i] = Top(t)
  <2>1. CASE u # t
    BY <1>1, <2>1, Zenon
  <2>2. CASE u = t /\ i # Len(stack[t])
    BY <1>1, <2>2, Zenon
  <2>3. CASE u = t /\ i = Len(stack[t])
    BY <1>1, <2>3 DEF Top
  <2> QED
    BY <2>1, <2>2, <2>3, Zenon
<1>3. ServeOK'
  <2>1. ASSUME NEW u \in Threads, NEW i \in 1..Len(stack'[u])
        PROVE  /\ stack'[u][i].at = "svc" => stack'[u][i].op = "serve"
               /\ stack'[u][i].op \in ServerOps /\ stack'[u][i].at # "svc"
                  => hold[stack'[u][i].ctx] = Null
    <3>1. i \in 1..Len(stack[u])
      BY <1>2
    <3>2. /\ stack[u][i].at = "svc" => stack[u][i].op = "serve"
          /\ stack[u][i].op \in ServerOps /\ stack[u][i].at # "svc"
             => hold[stack[u][i].ctx] = Null
      BY <3>1, ZenonT(30) DEF CallInv, ServeOK
    <3>3. CASE stack'[u][i] = stack[u][i]
      BY <3>2, <3>3, SMTT(30), Zenon
    <3>4. CASE stack'[u][i] = f /\ stack[u][i] = Top(t)
      BY <3>2, <3>4
    <3> QED
      BY <1>2, <3>3, <3>4
  <2> QED
    BY <1>0, <2>1, ZenonT(30) DEF ServeOK
<1>4. CaughtTop'
  <2>1. ASSUME NEW c \in caught
        PROVE  SvcTop(c)'
    <3>1. PICK u \in Threads : stack[u] # <<>> /\ Top(u).at = "svc" /\ Top(u).ctx = c
      BY SMTT(30), Zenon DEF CallInv, CaughtTop, SvcTop
    <3>2. stack'[u] = stack[u]
      BY <1>1, <3>1
    <3> QED
      BY <3>1, <3>2 DEF SvcTop, Top
  <2> QED
    BY <1>0, <2>1, SMTT(30), Zenon DEF CaughtTop
<1>5. ASSUME NEW c \in Ctxs, Unserved(c)
      PROVE  Unserved(c)'
  <2>1. ASSUME NEW u \in Threads, NEW i \in 1..Len(stack'[u]), stack'[u][i].ctx = c
        PROVE  stack'[u][i].op \notin ServerOps
    <3>1. i \in 1..Len(stack[u])
      BY <1>2
    <3>2. CASE stack'[u][i] = stack[u][i]
      BY <1>5, <2>1, <3>1, <3>2 DEF Unserved
    <3>3. CASE stack'[u][i] = f /\ stack[u][i] = Top(t)
      BY <1>5, <2>1, <3>1, <3>3, SMTT(30), Zenon DEF Unserved
    <3> QED
      BY <1>2, <3>2, <3>3
  <2> QED
    BY <2>1, SMTT(30), Zenon DEF Unserved
<1>6. StackFits(t)
  BY <1>3, <1>4, <1>5 DEF StackFits
<1> QED
  BY <1>6, FramesOnly

\* The indexes of a stack.
LEMMA Indexes == ASSUME JniInv, NEW t \in Threads
                 PROVE  DOMAIN stack[t] = 1..Len(stack[t])
<1>1. stack[t] \in Seq(Frames)
  BY DEF JniInv, StackOK
<1> QED
  BY <1>1

\* A native method of the program changes no frame, and its context is not one
\* that tpCallDispatch is about to leave.
LEMMA NativeFree ==
    ASSUME JniInv, CallInv, NEW t \in Threads, NEW c \in Ctxs, Program(t), native(t, c)
    PROVE  stack' = stack /\ c \notin caught
<1>1. stack' = stack /\ InJava(t) /\ Mine(t, c)
  BY SMTT(30), Zenon DEF native
<1>2. ASSUME c \in caught PROVE FALSE
  <2>1. PICK u \in Threads : stack[u] # <<>> /\ Top(u).at = "svc" /\ Top(u).ctx = c
    BY <1>2, SMTT(30), Zenon DEF CallInv, CaughtTop, SvcTop
  <2>2. Len(stack[u]) \in DOMAIN stack[u]
    BY <2>1, TopFacts, Indexes
  <2>3. u = t
    BY <1>1, <2>1, <2>2 DEF Mine, Top
  <2> QED
    BY <1>1, <1>2, <2>1, <2>3, ProgramNotCaught, SMTT(30), Zenon
<1> QED
  BY <1>1, <1>2

\* The context of a service has a server.
LEMMA ServiceServed ==
    ASSUME JniInv, CallInv, NEW t \in Threads, NEW c \in Ctxs, InService(t, c)
    PROVE  ~Unserved(c)
<1>1. PICK i \in DOMAIN stack[t] : stack[t][i].ctx = c /\ stack[t][i].at = "svc"
  BY DEF InService
<1>2. i \in 1..Len(stack[t])
  BY Indexes, SMTT(30), Zenon
<1>3. stack[t][i].op = "serve"
  BY <1>1, <1>2 DEF CallInv, ServeOK
<1> QED
  BY <1>1, <1>2, <1>3 DEF Unserved, ServerOps

\* A context that no thread but t uses, and t not for a server, has none.
LEMMA NotServed ==
    ASSUME JniInv, NEW t \in Threads, NEW c \in Ctxs, Mine(t, c), ~Serves(t, c)
    PROVE  Unserved(c)
<1>1. ASSUME NEW u \in Threads, NEW i \in 1..Len(stack[u]), stack[u][i].ctx = c
      PROVE  stack[u][i].op \notin ServerOps
  <2>1. i \in DOMAIN stack[u]
    BY Indexes
  <2>2. u = t
    BY <1>1, <2>1 DEF Mine
  <2> QED
    BY <1>1, <2>1, <2>2 DEF Serves
<1> QED
  BY <1>1 DEF Unserved

\* No frame changes, and a server that has no request gets none.
LEMMA SameFrames ==
    ASSUME JniInv, CallInv, stack' = stack,
           \A d \in Ctxs : hold[d] = Null /\ ~Unserved(d) => hold'[d] = Null
    PROVE  ServeOK'
<1>1. ASSUME NEW u \in Threads, NEW i \in 1..Len(stack[u])
      PROVE  /\ stack[u][i].at = "svc" => stack[u][i].op = "serve"
             /\ stack[u][i].op \in ServerOps /\ stack[u][i].at # "svc"
                => hold'[stack[u][i].ctx] = Null
  <2>1. /\ stack[u][i].at = "svc" => stack[u][i].op = "serve"
        /\ stack[u][i].op \in ServerOps /\ stack[u][i].at # "svc"
           => hold[stack[u][i].ctx] = Null
    BY DEF CallInv, ServeOK
  <2>2. stack[u][i].op \in ServerOps => ~Unserved(stack[u][i].ctx)
    BY DEF Unserved
  <2> QED
    BY <2>1, <2>2, FrameCtx, SMTT(30), Zenon
<1> QED
  BY <1>1 DEF ServeOK

\* tpreturn or tpforward.
LEMMA AnswerStep ==
    ASSUME JniInv, CallInv, NEW t \in Threads, NEW c \in Ctxs, Answer(t, c)
    PROVE  CallInv'
<1> DEFINE r == hold[c]
<1>1. stack' = stack /\ c \notin caught
  BY NativeFree, SMTT(30), Zenon DEF Answer
<1>2. /\ r # Null /\ ans[r] = 0
      /\ ans' = [ans EXCEPT ![r] = 1]
      /\ hold' = hold \/ hold' = [hold EXCEPT ![c] = Null]
      /\ data' = data /\ owed' = owed /\ caught' = caught
  BY DEF Answer
<1>3. r \in Reqs
  BY <1>2 DEF CallInv, CallTypes
<1>4. /\ CallTypes
      /\ hold'[c] \in {r, Null}
      /\ \A d \in Ctxs : d # c => hold'[d] = hold[d]
      /\ ans'[r] = 1 /\ \A q \in Reqs : q # r => ans'[q] = ans[q]
  BY <1>2, <1>3 DEF CallInv, CallTypes
<1>a. ans'[r] = 1 /\ ans'[r] # 0
  BY <1>4
<1>o. owed \subseteq Reqs
  BY <1>4, Zenon DEF CallTypes
<1>5. CallTypes'
  BY <1>2, <1>3, <1>4 DEF CallTypes
<1>r. r = hold[c]
  OBVIOUS
<1> HIDE DEF r
<1>6. ServeOK'
  <2>1. \A d \in Ctxs : hold[d] = Null => hold'[d] = Null
    BY <1>2, <1>4, <1>r
  <2> QED
    BY <1>1, <2>1, SameFrames
<1>7. CaughtTop'
  BY <1>1, <1>2, SameStack DEF CallInv, CaughtTop
<1>8. CaughtAnswered'
  <2>1. ASSUME NEW d \in caught, hold'[d] \in owed
        PROVE  ans'[hold'[d]] = 1
    <3>1. d \in Ctxs /\ d # c
      BY <1>1, <1>4, SMTT(30), Zenon DEF CallTypes
    <3>2. hold'[d] = hold[d] /\ hold[d] \in Reqs
      BY <1>4, <2>1, <3>1, SMTT(30), Zenon DEF CallTypes
    <3>3. ans[hold[d]] = 1
      BY <2>1, <3>2 DEF CallInv, CaughtAnswered
    <3> QED
      BY <1>4, <3>2, <3>3
  <2> QED
    BY <1>2, <2>1 DEF CaughtAnswered
<1>9. WorkerHolds'
  <2>1. ASSUME NEW q \in owed, data[q] \in {"set", "freed"}, ans'[q] = 0
        PROVE  \E d \in Ctxs : hold'[d] = q /\ Unserved(d)'
    <3>1. q \in Reqs /\ q # r
      BY <1>a, <1>o, <2>1, Zenon
    <3>2. PICK d \in Ctxs : hold[d] = q /\ Unserved(d)
      BY <1>4, <2>1, <3>1 DEF CallInv, WorkerHolds
    <3>3. d # c
      BY <1>r, <3>1, <3>2
    <3> QED
      BY <1>1, <1>4, <3>2, <3>3, SameStack, SMTT(30), Zenon
  <2> QED
    BY <1>2, <2>1, SMTT(30), Zenon DEF WorkerHolds
<1>10. AnsweredOnce'
  <2>1. ASSUME NEW q \in owed
        PROVE  ans'[q] <= 1 /\ (Over(q)' => ans'[q] = 1)
    <3>1. q \in Reqs
      BY <1>o, Zenon
    <3>2. CASE q = r
      BY <1>a, <3>2, SMTT(30)
    <3>3. CASE q # r
      <4>1. Over(q)' => Over(q)
        BY <1>2, <1>4, <1>r, <3>3 DEF Over
      <4> QED
        BY <1>4, <3>1, <3>3, <4>1 DEF CallInv, AnsweredOnce
    <3> QED
      BY <3>2, <3>3
  <2> QED
    BY <1>2, <2>1 DEF AnsweredOnce
<1> QED
  BY <1>5, <1>6, <1>7, <1>8, <1>9, <1>10 DEF CallInv

\* tpsrvgetctxdata.
LEMMA GetDataStep ==
    ASSUME JniInv, CallInv, NEW t \in Threads, NEW c \in Ctxs, tpsrvgetctxdata(t, c)
    PROVE  CallInv'
<1> DEFINE r == hold[c]
<1>1. stack' = stack
  BY NativeFree DEF tpsrvgetctxdata
<1>2. /\ r # Null
      /\ data' = data \/ data' = [data EXCEPT ![r] = "captured"]
      /\ hold' = hold /\ ans' = ans /\ owed' = owed /\ caught' = caught
  BY DEF tpsrvgetctxdata
<1>3. CallTypes /\ r \in Reqs
  BY <1>2 DEF CallInv, CallTypes
<1> HIDE DEF r
<1>4. /\ data'[r] \in {data[r], "captured"}
      /\ \A q \in Reqs : q # r => data'[q] = data[q]
  BY <1>2, <1>3 DEF CallTypes
<1>5. CallTypes'
  BY <1>2, <1>3 DEF CallTypes
<1>6. ServeOK'
  BY <1>1, <1>2, SameFrames
<1>7. CaughtTop' /\ CaughtAnswered'
  BY <1>1, <1>2, SameStack, Zenon DEF CallInv, CaughtTop, CaughtAnswered
<1>8. WorkerHolds'
  <2>1. ASSUME NEW q \in owed, data'[q] \in {"set", "freed"}, ans[q] = 0
        PROVE  \E d \in Ctxs : hold[d] = q /\ Unserved(d)'
    <3>1. data[q] \in {"set", "freed"}
      BY <1>3, <1>4, <2>1 DEF CallTypes
    <3>2. PICK d \in Ctxs : hold[d] = q /\ Unserved(d)
      BY <2>1, <3>1 DEF CallInv, WorkerHolds
    <3> QED
      BY <1>1, <3>2, SameStack
  <2> QED
    BY <1>2, <2>1 DEF WorkerHolds
<1>9. AnsweredOnce'
  <2>1. ASSUME NEW q \in owed
        PROVE  Over(q)' => Over(q)
    BY <1>2, <1>3, <1>4 DEF Over, CallTypes
  <2> QED
    BY <1>2, <2>1 DEF CallInv, AnsweredOnce
<1> QED
  BY <1>5, <1>6, <1>7, <1>8, <1>9 DEF CallInv

\* tpsrvsetctxdata: the worker that holds the request now has no server.
LEMMA SetDataStep ==
    ASSUME JniInv, CallInv, NEW t \in Threads, NEW c \in Ctxs, NEW r \in Reqs,
           tpsrvsetctxdata(t, c, r)
    PROVE  CallInv'
<1>1. stack' = stack /\ c \notin caught
  BY NativeFree DEF tpsrvsetctxdata
<1>2. /\ hold[c] = Null /\ ~Serves(t, c) /\ Mine(t, c)
      /\ ans' = ans /\ owed' = owed /\ caught' = caught
  BY DEF tpsrvsetctxdata, native
<1>3. CASE UNCHANGED <<hold, data>>
  <2>1. UNCHANGED callVars
    BY <1>2, <1>3 DEF callVars
  <2>2. ServeOK'
    BY <1>1, <1>3, SameFrames
  <2>3. StackFits(t)
    BY <1>1, <1>2, <2>2, SameStack DEF StackFits, CallInv, CaughtTop
  <2> QED
    BY <2>1, <2>3, FramesOnly
<1>4. CASE hold' = [hold EXCEPT ![c] = r] /\ data' = [data EXCEPT ![r] = "set"]
  <2>1. CallTypes /\ r # Null
    BY ServerAssumption DEF CallInv
  <2>o. owed \subseteq Reqs
    BY <2>1, Zenon DEF CallTypes
  <2>2. /\ hold'[c] = r /\ \A d \in Ctxs : d # c => hold'[d] = hold[d]
        /\ data'[r] = "set" /\ \A q \in Reqs : q # r => data'[q] = data[q]
    BY <1>4, <2>1 DEF CallTypes
  <2>3. CallTypes'
    BY <1>2, <1>4, <2>1 DEF CallTypes
  <2>4. Unserved(c)
    BY <1>2, NotServed
  <2>5. ServeOK'
    BY <1>1, <2>2, <2>4, SameFrames, Zenon
  <2>6. CaughtTop'
    BY <1>1, <1>2, SameStack DEF CallInv, CaughtTop
  <2>7. CaughtAnswered'
    BY <1>1, <1>2, <2>1, <2>2, ZenonT(30) DEF CallInv, CallTypes, CaughtAnswered
  <2>8. WorkerHolds'
    <3>1. ASSUME NEW q \in owed, data'[q] \in {"set", "freed"}, ans[q] = 0
          PROVE  \E d \in Ctxs : hold'[d] = q /\ Unserved(d)'
      <4>1. CASE q = r
        BY <1>1, <2>2, <2>4, <4>1, SameStack, Zenon
      <4>2. CASE q # r
        <5>1. q \in Reqs /\ q # Null
          BY <2>o, ServerAssumption, Zenon
        <5>2. PICK d \in Ctxs : hold[d] = q /\ Unserved(d)
          BY <2>2, <3>1, <4>2, <5>1 DEF CallInv, WorkerHolds
        <5>3. d # c
          BY <1>2, <5>1, <5>2
        <5> QED
          BY <1>1, <2>2, <5>2, <5>3, SameStack, Zenon
      <4> QED
        BY <4>1, <4>2
    <3> QED
      BY <1>2, <3>1 DEF WorkerHolds
  <2>9. AnsweredOnce'
    <3>1. ASSUME NEW q \in owed
          PROVE  Over(q)' => Over(q)
      <4>1. q \in Reqs /\ q # Null
        BY <2>o, ServerAssumption, Zenon
      <4>2. CASE q = r
        BY <2>2, <4>2 DEF Over
      <4>3. CASE q # r
        BY <1>2, <2>2, <4>1, <4>3, Zenon DEF Over
      <4> QED
        BY <4>2, <4>3, SMTT(30), Zenon
    <3> QED
      BY <1>2, <3>1 DEF CallInv, AnsweredOnce
  <2> QED
    BY <2>3, <2>5, <2>6, <2>7, <2>8, <2>9 DEF CallInv
<1> QED
  BY <1>3, <1>4 DEF tpsrvsetctxdata

\* tpsrvfreectxdata: a worker that has not answered still holds the request.
LEMMA FreeDataStep ==
    ASSUME JniInv, CallInv, NEW t \in Threads, NEW c \in Ctxs, NEW r \in Reqs,
           tpsrvfreectxdata(t, c, r)
    PROVE  CallInv'
<1>1. stack' = stack
  BY NativeFree DEF tpsrvfreectxdata
<1>2. /\ data[r] = "set" /\ data' = [data EXCEPT ![r] = "freed"]
      /\ hold' = hold /\ ans' = ans /\ owed' = owed /\ caught' = caught
  BY DEF tpsrvfreectxdata
<1>3. CallTypes /\ CallTypes'
  BY <1>2 DEF CallInv, CallTypes
<1>4. data'[r] = "freed" /\ \A q \in Reqs : q # r => data'[q] = data[q]
  BY <1>2, <1>3 DEF CallTypes
<1>5. ServeOK'
  BY <1>1, <1>2, SameFrames
<1>6. CaughtTop' /\ CaughtAnswered'
  BY <1>1, <1>2, SameStack, Zenon DEF CallInv, CaughtTop, CaughtAnswered
<1>7. ASSUME NEW q \in owed, data'[q] \in {"set", "freed"}, ans[q] = 0
      PROVE  \E d \in Ctxs : hold[d] = q /\ Unserved(d)'
  <2>1. data[q] \in {"set", "freed"}
    BY <1>2, <1>3, <1>4, <1>7 DEF CallTypes
  <2>2. PICK d \in Ctxs : hold[d] = q /\ Unserved(d)
    BY <1>7, <2>1 DEF CallInv, WorkerHolds
  <2> QED
    BY <1>1, <2>2, SameStack
<1>8. WorkerHolds'
  BY <1>2, <1>7, Zenon DEF WorkerHolds
<1>9. AnsweredOnce'
  <2>1. ASSUME NEW q \in owed
        PROVE  ans[q] <= 1 /\ (Over(q)' => ans[q] = 1)
    <3>1. q \in Reqs /\ ans[q] \in 0..2 /\ ans[q] <= 1 /\ (Over(q) => ans[q] = 1)
      BY <1>3 DEF CallInv, CallTypes, AnsweredOnce
    <3>2. CASE q = r
      <4>1. Over(q)' => ans[q] # 0
        BY <1>2, <1>4, <1>7, <3>2, Zenon DEF Over
      <4> QED
        BY <3>1, <4>1
    <3>3. CASE q # r
      <4>1. Over(q)' => Over(q)
        BY <1>2, <1>4, <3>1, <3>3, Zenon DEF Over
      <4> QED
        BY <3>1, <4>1
    <3> QED
      BY <3>2, <3>3
  <2> QED
    BY <1>2, <2>1 DEF AnsweredOnce
<1> QED
  BY <1>3, <1>5, <1>6, <1>8, <1>9 DEF CallInv

\* A server context c drops its request r, and nothing else changes but what is
\* owed for r: the worker of a request that was handed over keeps it.
LEMMA DropStep ==
    ASSUME CallInv, NEW c \in Ctxs, ~Unserved(c),
           hold' = [hold EXCEPT ![c] = Null],
           data' = data, ans' = ans, caught' \subseteq caught,
           owed' = owed \/ owed' = owed \ {hold[c]},
           hold[c] \in owed' => ans[hold[c]] = 1 \/ data[hold[c]] # "no",
           \A d \in Ctxs : Unserved(d) => Unserved(d)'
    PROVE  CallTypes' /\ CaughtAnswered' /\ WorkerHolds' /\ AnsweredOnce'
<1> DEFINE r == hold[c]
<1>1. CallTypes /\ CallTypes'
  BY DEF CallInv, CallTypes
<1>2. /\ hold'[c] = Null /\ \A d \in Ctxs : d # c => hold'[d] = hold[d]
      /\ owed' \subseteq owed
  BY <1>1 DEF CallTypes
<1>3. \A q \in owed' : q \in Reqs /\ q # Null
  BY <1>1, <1>2, ServerAssumption, SMTT(30), Zenon DEF CallTypes
<1>r. r = hold[c] /\ (r \in owed' => ans[r] = 1 \/ data[r] # "no")
  BY SMTT(30), Zenon
<1> HIDE DEF r
<1>4. CaughtAnswered'
  <2>1. ASSUME NEW d \in caught', hold'[d] \in owed'
        PROVE  ans[hold'[d]] = 1
    <3>1. d \in Ctxs /\ d \in caught
      BY <1>1, SMTT(30), Zenon DEF CallTypes
    <3>2. d # c
      BY <1>2, <1>3, <2>1, SMTT(30), Zenon
    <3> QED
      BY <1>2, <2>1, <3>1, <3>2 DEF CallInv, CaughtAnswered
  <2> QED
    BY <2>1, SMTT(30), Zenon DEF CaughtAnswered
<1>5. ASSUME NEW q \in owed', data[q] \in {"set", "freed"}, ans[q] = 0
      PROVE  \E d \in Ctxs : hold'[d] = q /\ Unserved(d)'
  <2>1. PICK d \in Ctxs : hold[d] = q /\ Unserved(d)
    BY <1>2, <1>5, SMTT(30), Zenon DEF CallInv, WorkerHolds
  <2>2. d # c
    BY <2>1, SMTT(30), Zenon
  <2> QED
    BY <1>2, <2>1, <2>2, SMTT(30), Zenon
<1>6. WorkerHolds'
  BY <1>5, SMTT(30), Zenon DEF WorkerHolds
<1>7. AnsweredOnce'
  <2>1. ASSUME NEW q \in owed'
        PROVE  ans[q] <= 1 /\ (Over(q)' => ans[q] = 1)
    <3>1. /\ q \in Reqs /\ ans[q] \in 0..2 /\ ans[q] <= 1 /\ (Over(q) => ans[q] = 1)
      BY <1>1, <1>2, <1>3 DEF CallInv, CallTypes, AnsweredOnce
    <3>2. CASE q = r
      <4>1. ans[q] = 1 \/ data[q] # "no"
        BY <1>r, <3>2, ZenonT(30)
      <4>2. Over(q)' => ans[q] = 1 \/ data[q] = "freed"
        BY <4>1 DEF Over
      <4>3. Over(q)' /\ data[q] = "freed" => ans[q] # 0
        BY <1>5, SMTT(30), Zenon DEF Over
      <4>4. ans[q] # 0 => ans[q] = 1
        <5>1. ans[q] \in 0..2 /\ ans[q] <= 1
          BY <3>1, Zenon
        <5> QED
          BY <5>1, SMTT(30)
      <4> QED
        BY <3>1, <4>2, <4>3, <4>4, Zenon
    <3>3. CASE q # r
      <4>1. Over(q)' => Over(q)
        BY <1>2, <1>r, <3>3, Zenon DEF Over
      <4> QED
        BY <3>1, <4>1, Zenon
    <3> QED
      BY <3>2, <3>3
  <2> QED
    BY <2>1, SMTT(30), Zenon DEF AnsweredOnce
<1> QED
  BY <1>1, <1>4, <1>6, <1>7, Zenon

\* tpcontinue.
LEMMA ContinueStep ==
    ASSUME JniInv, CallInv, NEW t \in Threads, NEW c \in Ctxs, tpcontinue(t, c)
    PROVE  CallInv'
<1>1. stack' = stack
  BY NativeFree DEF tpcontinue
<1>2. /\ hold' = [hold EXCEPT ![c] = Null] /\ data[hold[c]] # "no"
      /\ data' = data /\ ans' = ans /\ owed' = owed /\ caught' = caught
  BY Zenon DEF tpcontinue
<1>3. ~Unserved(c)
  BY ServiceServed, Zenon DEF tpcontinue
<1>4. \A d \in Ctxs : Unserved(d) => Unserved(d)'
  BY <1>1, SameStack
<1>5. CallTypes' /\ CaughtAnswered' /\ WorkerHolds' /\ AnsweredOnce'
  BY <1>2, <1>3, <1>4, DropStep, Zenon
<1>6. \A d \in Ctxs : hold[d] = Null => hold'[d] = Null
  BY <1>2, SMTT(30), Zenon DEF CallInv, CallTypes
<1>7. ServeOK'
  BY <1>1, <1>6, SameFrames
<1>8. CaughtTop'
  BY <1>1, <1>2, SameStack DEF CallInv, CaughtTop
<1> QED
  BY <1>5, <1>7, <1>8, SMTT(30), Zenon DEF CallInv

\* tpCallDispatch answers for a service that throws.
LEMMA CallDispatchStep ==
    ASSUME JniInv, CallInv, NEW t \in Threads, tpCallDispatch(t)
    PROVE  CallInv'
<1> DEFINE c == Top(t).ctx
           r == hold[c]
<1>1. /\ stack[t] # <<>> /\ Top(t).at = "svc"
      /\ stack' = stack /\ hold' = hold /\ data' = data /\ caught' = caught \cup {c}
      /\ IF r = Null THEN UNCHANGED <<ans, owed>>
         ELSE /\ ans' = [ans EXCEPT ![r] = More(@)]
              /\ owed' = IF ans[r] > 0 \/ data[r] # "no" THEN owed \ {r} ELSE owed
  BY Zenon DEF tpCallDispatch, native
<1>2. c \in Ctxs
  BY <1>1, TopFacts, Zenon
<1>3. SvcTop(c)
  BY <1>1, Zenon DEF SvcTop
<1>r. r = hold[c]
  BY SMTT(30), Zenon
<1> HIDE DEF c, r
<1>4. CallTypes /\ r \in Reqs \cup {Null} /\ owed' \subseteq owed
  BY <1>1, <1>2, <1>r DEF CallInv, CallTypes
<1>5. CallTypes'
  BY <1>1, <1>2, <1>4 DEF CallTypes, More
<1>6. \A q \in owed' : /\ q \in owed /\ q \in Reqs /\ q # Null
                       /\ q # r => ans'[q] = ans[q]
                       /\ q = r => ans'[q] = 1
  <2>1. \A q \in owed' : q \in owed /\ q \in Reqs /\ q # Null
    BY <1>4, ServerAssumption DEF CallTypes
  <2>2. CASE r = Null
    BY <1>1, <2>1, <2>2
  <2>3. CASE r # Null /\ r \in owed'
    <3>1. r \in Reqs /\ ans[r] \in 0..2 /\ ~(ans[r] > 0)
      BY <1>1, <1>4, <2>3, ZenonT(30) DEF CallTypes
    <3>2. ans' = [ans EXCEPT ![r] = 1]
      <4>1. ans' = [ans EXCEPT ![r] = More(ans[r])]
        BY <1>1, <2>3, Zenon
      <4>2. ans[r] = 0
        BY <3>1, SMTT(30)
      <4> QED
        BY <4>1, <4>2, Zenon DEF More
    <3> QED
      BY <1>4, <2>1, <3>1, <3>2 DEF CallTypes
  <2>4. CASE r # Null /\ r \notin owed'
    BY <1>1, <1>4, <2>1, <2>4 DEF CallTypes
  <2> QED
    BY <2>2, <2>3, <2>4
<1>7. ServeOK'
  BY <1>1, SameFrames
<1>8. CaughtTop'
  BY <1>1, <1>3, SameStack, Zenon DEF CallInv, CaughtTop
<1>9. CaughtAnswered'
  <2>1. ASSUME NEW d \in caught', hold[d] \in owed'
        PROVE  ans'[hold[d]] = 1
    <3>1. CASE hold[d] = r
      BY <1>6, <2>1, <3>1
    <3>2. CASE hold[d] # r
      <4>1. d \in caught
        BY <1>1, <1>r, <3>2
      <4> QED
        BY <1>6, <2>1, <3>2, <4>1 DEF CallInv, CaughtAnswered
    <3> QED
      BY <3>1, <3>2
  <2> QED
    BY <1>1, <2>1 DEF CaughtAnswered
<1>10. WorkerHolds'
  <2>1. ASSUME NEW q \in owed', data[q] \in {"set", "freed"}, ans'[q] = 0
        PROVE  \E d \in Ctxs : hold[d] = q /\ Unserved(d)'
    <3>1. q \in owed /\ ans[q] = 0
      BY <1>6, <2>1
    <3>2. PICK d \in Ctxs : hold[d] = q /\ Unserved(d)
      BY <2>1, <3>1 DEF CallInv, WorkerHolds
    <3> QED
      BY <1>1, <3>2, SameStack
  <2> QED
    BY <1>1, <2>1, SMTT(30), Zenon DEF WorkerHolds
<1>11. AnsweredOnce'
  <2>1. ASSUME NEW q \in owed'
        PROVE  ans'[q] <= 1 /\ (Over(q)' => ans'[q] = 1)
    <3>1. CASE q = r
      BY <1>6, <3>1
    <3>2. CASE q # r
      <4>1. Over(q)' => Over(q)
        BY <1>1 DEF Over
      <4> QED
        BY <1>6, <3>2, <4>1, SMTT(30), Zenon DEF CallInv, AnsweredOnce
    <3> QED
      BY <3>1, <3>2
  <2> QED
    BY <2>1 DEF AnsweredOnce
<1> QED
  BY <1>5, <1>7, <1>8, <1>9, <1>10, <1>11 DEF CallInv

\* No service is called for a request.
LEMMA TranslateFailsStep ==
    ASSUME JniInv, CallInv, NEW t \in Threads, NEW r \in Reqs,
           TpSvcInfo_translate_fails(t, r)
    PROVE  CallInv'
<1>1. /\ stack' = stack /\ hold' = hold /\ caught' = caught
      /\ ans' = [ans EXCEPT ![r] = 0] /\ data' = [data EXCEPT ![r] = "no"]
      /\ owed' = owed \ {r}
  BY DEF TpSvcInfo_translate_fails, vars
<1>2. CallTypes /\ CallTypes'
  BY <1>1 DEF CallInv, CallTypes
<1>3. \A q \in owed' : q \in owed /\ ans'[q] = ans[q] /\ data'[q] = data[q]
  BY <1>1, <1>2 DEF CallTypes
<1>4. ServeOK'
  BY <1>1, SameFrames
<1>5. CaughtTop'
  BY <1>1, SameStack DEF CallInv, CaughtTop
<1>6. CaughtAnswered'
  BY <1>1, <1>3 DEF CallInv, CaughtAnswered
<1>7. WorkerHolds'
  <2>1. ASSUME NEW q \in owed', data'[q] \in {"set", "freed"}, ans'[q] = 0
        PROVE  \E d \in Ctxs : hold[d] = q /\ Unserved(d)'
    <3>1. PICK d \in Ctxs : hold[d] = q /\ Unserved(d)
      BY <1>3, <2>1 DEF CallInv, WorkerHolds
    <3> QED
      BY <1>1, <3>1, SameStack
  <2> QED
    BY <1>1, <2>1 DEF WorkerHolds
<1>8. AnsweredOnce'
  <2>1. ASSUME NEW q \in owed'
        PROVE  Over(q)' => Over(q)
    BY <1>1, <1>3 DEF Over
  <2> QED
    BY <1>3, <2>1 DEF CallInv, AnsweredOnce
<1> QED
  BY <1>2, <1>4, <1>5, <1>6, <1>7, <1>8 DEF CallInv

\* dispatch_call gives the server a new request; it had none.
LEMMA DispatchStep ==
    ASSUME JniInv, CallInv, NEW t \in Threads, NEW s \in Svcs, NEW r \in Reqs,
           dispatch(t, s, r)
    PROVE  CallInv'
<1> DEFINE c == Top(t).ctx
           n == Len(stack[t])
           f == [Top(t) EXCEPT !.at = "svc", !.saved = cur[t], !.given = Null]
<1>1. /\ stack[t] # <<>> /\ Top(t).at = "c" /\ Top(t).op = "serve"
      /\ SetTop(t, f)
  BY DEF dispatch, dispatch_call, InC, Callback
<1>2. /\ Over(r)
      /\ hold' = [hold EXCEPT ![c] = r] /\ data' = [data EXCEPT ![r] = "no"]
      /\ ans' = [ans EXCEPT ![r] = 0] /\ owed' = owed \cup {r}
      /\ caught' = caught
  BY DEF dispatch, Received
<1>3. n \in 1..n /\ Top(t) \in Frames /\ c \in Ctxs
  BY <1>1, TopFacts
<1>4. Top(t) = stack[t][n]
  BY DEF Top
<1>5. cur[t] \in Ctxs \cup {Null}
  BY DEF JniInv, DataOK
<1>6. f \in Frames /\ f.at = "svc" /\ f.op = "serve" /\ f.ctx = c
  BY <1>1, <1>3, <1>5, Zenon DEF Frames
<1>c. c = Top(t).ctx /\ n = Len(stack[t])
  OBVIOUS
<1> HIDE DEF c, f, n
<1>7. hold[c] = Null
  BY <1>1, <1>3, <1>4, <1>c, Zenon DEF CallInv, ServeOK, ServerOps
<1>8. CallTypes /\ CallTypes' /\ r # Null
  BY <1>2, <1>3, ServerAssumption DEF CallInv, CallTypes
<1>9. /\ hold'[c] = r /\ \A d \in Ctxs : d # c => hold'[d] = hold[d]
      /\ ans'[r] = 0 /\ data'[r] = "no"
      /\ \A q \in Reqs : q # r => ans'[q] = ans[q] /\ data'[q] = data[q]
  BY <1>2, <1>3, <1>8 DEF CallTypes
<1>10. /\ \A u \in Threads : u # t => stack'[u] = stack[u]
       /\ Len(stack'[t]) = n /\ n \in Nat
       /\ \A i \in 1..n : i # n => stack'[t][i] = stack[t][i]
       /\ stack'[t][n] = f
  BY <1>1, <1>6, <1>c, SetTopFacts, Zenon DEF JniInv
<1>11. ASSUME NEW u \in Threads, NEW i \in 1..Len(stack'[u])
       PROVE  /\ i \in 1..Len(stack[u])
              /\ \/ stack'[u][i] = stack[u][i] /\ (u # t \/ i # n)
                 \/ stack'[u][i] = f /\ stack[u][i] = Top(t)
  <2>1. CASE u # t
    BY <1>10, <2>1, Zenon
  <2>2. CASE u = t /\ i # n
    BY <1>10, <1>c, <2>2, ZenonT(30)
  <2>3. CASE u = t /\ i = n
    BY <1>4, <1>10, <1>c, <2>3, ZenonT(30)
  <2> QED
    BY <2>1, <2>2, <2>3, Zenon
<1>12. ServeOK'
  <2>1. ASSUME NEW u \in Threads, NEW i \in 1..Len(stack'[u])
        PROVE  /\ stack'[u][i].at = "svc" => stack'[u][i].op = "serve"
               /\ stack'[u][i].op \in ServerOps /\ stack'[u][i].at # "svc"
                  => hold'[stack'[u][i].ctx] = Null
    <3>1. i \in 1..Len(stack[u])
      BY <1>11, Zenon
    <3>2. CASE stack'[u][i] = f
      BY <1>6, <3>2, ZenonT(30)
    <3>3. CASE stack'[u][i] = stack[u][i] /\ (u # t \/ i # n)
      <4>1. /\ stack[u][i].at = "svc" => stack[u][i].op = "serve"
            /\ stack[u][i].op \in ServerOps /\ stack[u][i].at # "svc"
               => hold[stack[u][i].ctx] = Null
        BY <3>1, Zenon DEF CallInv, ServeOK
      <4>2. stack[u][i].op \in ServerOps => stack[u][i].ctx # c
        <5>1. CASE u # t
          BY <1>3, <1>4, <1>c, <3>1, <5>1, Zenon DEF JniInv, Disjoint
        <5>2. CASE u = t /\ i # n
          BY <1>1, <1>3, <1>4, <1>c, <3>1, <5>2, Zenon DEF JniInv, OneServer, ServerOps
        <5> QED
          BY <3>3, <5>1, <5>2, ZenonT(30)
      <4>3. stack[u][i].ctx \in Ctxs
        BY <3>1, FrameCtx, Zenon
      <4> QED
        BY <1>9, <3>3, <4>1, <4>2, <4>3, Zenon
    <3> QED
      BY <1>11, <3>2, <3>3, Zenon
  <2> QED
    BY <2>1, Zenon DEF ServeOK
<1>13. ASSUME NEW d \in caught
       PROVE  SvcTop(d)' /\ d # c /\ d \in Ctxs
  <2>1. PICK u \in Threads : stack[u] # <<>> /\ Top(u).at = "svc" /\ Top(u).ctx = d
    BY SMTT(30), Zenon DEF CallInv, CaughtTop, SvcTop
  <2>2. u # t
    BY <1>1, <2>1
  <2>3. stack'[u] = stack[u]
    BY <1>10, <2>2
  <2>4. Len(stack[u]) \in 1..Len(stack[u])
    BY <2>1, TopFacts, Zenon
  <2>5. stack[u][Len(stack[u])].ctx # stack[t][n].ctx
    BY <1>3, <1>c, <2>2, <2>4 DEF JniInv, Disjoint
  <2>6. d # c
    BY <1>4, <1>c, <2>1, <2>5, Zenon DEF Top
  <2>7. SvcTop(d)'
    BY <2>1, <2>3 DEF SvcTop, Top
  <2> QED
    BY <1>8, <2>6, <2>7 DEF CallTypes
<1>14. CaughtTop'
  BY <1>2, <1>13 DEF CaughtTop
<1>15. CaughtAnswered'
  <2>1. ASSUME NEW d \in caught, hold'[d] \in owed'
        PROVE  ans'[hold'[d]] = 1
    <3>1. hold'[d] = hold[d] /\ hold[d] # r
      BY <1>2, <1>9, <1>13 DEF Over
    <3>2. hold[d] \in owed /\ hold[d] \in Reqs
      BY <1>2, <1>8, <2>1, <3>1 DEF CallTypes
    <3>3. ans[hold[d]] = 1
      BY <3>2, Zenon DEF CallInv, CaughtAnswered
    <3> QED
      BY <1>9, <3>1, <3>2, <3>3, Zenon
  <2> QED
    BY <1>2, <2>1 DEF CaughtAnswered
<1>16. ASSUME NEW d \in Ctxs, Unserved(d)
       PROVE  Unserved(d)' /\ d # c
  <2>1. d # c
    BY <1>1, <1>3, <1>4, <1>c, <1>16, ZenonT(30) DEF Unserved, ServerOps
  <2>2. ASSUME NEW u \in Threads, NEW i \in 1..Len(stack'[u]), stack'[u][i].ctx = d
        PROVE  stack'[u][i].op \notin ServerOps
    <3>1. stack'[u][i] # f
      BY <1>6, <2>1, <2>2
    <3>2. i \in 1..Len(stack[u]) /\ stack'[u][i] = stack[u][i]
      BY <1>11, <2>2, <3>1, Zenon
    <3>3. stack[u][i].ctx = d => stack[u][i].op \notin ServerOps
      BY <1>16, <2>2, <3>2, Zenon DEF Unserved
    <3> QED
      BY <2>2, <3>2, <3>3, SMTT(30), Zenon
  <2> QED
    BY <2>1, <2>2 DEF Unserved
<1>17. WorkerHolds'
  <2>1. ASSUME NEW q \in owed', data'[q] \in {"set", "freed"}, ans'[q] = 0
        PROVE  \E d \in Ctxs : hold'[d] = q /\ Unserved(d)'
    <3>1. q # r
      BY <1>9, <2>1
    <3>2. q \in owed /\ q \in Reqs
      BY <1>2, <1>8, <3>1 DEF CallTypes
    <3>3. PICK d \in Ctxs : hold[d] = q /\ Unserved(d)
      BY <1>9, <2>1, <3>1, <3>2, Zenon DEF CallInv, WorkerHolds
    <3> QED
      BY <1>9, <1>16, <3>3, Zenon
  <2> QED
    BY <2>1 DEF WorkerHolds
<1>18. AnsweredOnce'
  <2>1. ASSUME NEW q \in owed'
        PROVE  ans'[q] <= 1 /\ (Over(q)' => ans'[q] = 1)
    <3>1. CASE q = r
      <4>1. ~Over(q)'
        BY <1>3, <1>9, <3>1, SMTT(30), Zenon DEF Over
      <4> QED
        BY <1>9, <3>1, <4>1, SMTT(30), Zenon
    <3>2. CASE q # r
      <4>1. q \in owed /\ q \in Reqs /\ q # Null
        BY <1>2, <1>8, <3>2, ServerAssumption DEF CallTypes
      <4>2. Over(q)' => Over(q)
        BY <1>7, <1>9, <3>2, <4>1, Zenon DEF Over
      <4> QED
        BY <1>9, <3>2, <4>1, <4>2 DEF CallInv, AnsweredOnce
    <3> QED
      BY <3>1, <3>2
  <2> QED
    BY <2>1 DEF AnsweredOnce
<1> QED
  BY <1>8, <1>12, <1>14, <1>15, <1>17, <1>18 DEF CallInv

\* The service returns to C.
LEMMA ServiceEndStep ==
    ASSUME JniInv, CallInv, NEW t \in Threads, service_end(t)
    PROVE  CallInv'
<1> DEFINE c == Top(t).ctx
           n == Len(stack[t])
           r == hold[c]
           f == [Top(t) EXCEPT !.at = "c", !.saved = Null, !.given = Null, !.op = Top(t).op]
<1>1. stack[t] # <<>> /\ Top(t).at = "svc"
  BY DEF service_end, callback_end
<1>2. SetTop(t, f)
  BY <1>1, Zenon DEF service_end, callback_end
<1>3. /\ hold' = [hold EXCEPT ![c] = Null] /\ caught' = caught \ {c}
      /\ owed' = IF c \notin caught /\ r # Null /\ ans[r] = 0 /\ data[r] = "no"
                 THEN owed \ {r} ELSE owed
      /\ data' = data /\ ans' = ans
  BY Zenon DEF service_end
<1>4. n \in 1..n /\ Top(t) \in Frames /\ c \in Ctxs
  BY <1>1, TopFacts, Zenon
<1>5. Top(t) = stack[t][n]
  BY DEF Top
<1>6. Top(t).op = "serve"
  BY <1>1, <1>4, <1>5, Zenon DEF CallInv, ServeOK
<1>7. f \in Frames /\ f.at = "c" /\ f.op = "serve" /\ f.ctx = c
  BY <1>4, <1>6, Zenon DEF Frames
<1>c. c = Top(t).ctx /\ n = Len(stack[t]) /\ r = hold[c]
  BY Zenon
<1> HIDE DEF c, f, n, r
<1>8. CallTypes
  BY DEF CallInv
<1>9. hold'[c] = Null /\ \A d \in Ctxs : d # c => hold'[d] = hold[d]
  BY <1>3, <1>4, <1>8 DEF CallTypes
<1>10. /\ \A u \in Threads : u # t => stack'[u] = stack[u]
       /\ Len(stack'[t]) = n /\ n \in Nat
       /\ \A i \in 1..n : i # n => stack'[t][i] = stack[t][i]
       /\ stack'[t][n] = f
  BY <1>1, <1>2, <1>7, <1>c, SetTopFacts, Zenon DEF JniInv
<1>11. ASSUME NEW u \in Threads, NEW i \in 1..Len(stack'[u])
       PROVE  /\ i \in 1..Len(stack[u])
              /\ \/ stack'[u][i] = stack[u][i]
                 \/ stack'[u][i] = f /\ stack[u][i] = Top(t)
  <2>1. CASE u # t
    BY <1>10, <2>1, Zenon
  <2>2. CASE u = t /\ i # n
    BY <1>10, <1>c, <2>2, SMTT(30), Zenon
  <2>3. CASE u = t /\ i = n
    BY <1>5, <1>10, <1>c, <2>3, SMTT(30), Zenon
  <2> QED
    BY <2>1, <2>2, <2>3, Zenon
<1>12. ServeOK'
  <2>1. ASSUME NEW u \in Threads, NEW i \in 1..Len(stack'[u])
        PROVE  /\ stack'[u][i].at = "svc" => stack'[u][i].op = "serve"
               /\ stack'[u][i].op \in ServerOps /\ stack'[u][i].at # "svc"
                  => hold'[stack'[u][i].ctx] = Null
    <3>1. i \in 1..Len(stack[u])
      BY <1>11
    <3>2. CASE stack'[u][i] = f
      BY <1>7, <1>9, <3>2, SMTT(30), Zenon
    <3>3. CASE stack'[u][i] = stack[u][i]
      <4>1. /\ stack[u][i].at = "svc" => stack[u][i].op = "serve"
            /\ stack[u][i].op \in ServerOps /\ stack[u][i].at # "svc"
               => hold[stack[u][i].ctx] = Null
        BY <3>1, Zenon DEF CallInv, ServeOK
      <4>2. stack[u][i].ctx \in Ctxs
        BY <3>1, FrameCtx, Zenon
      <4> QED
        BY <1>9, <3>3, <4>1, <4>2
    <3> QED
      BY <1>11, <3>2, <3>3, ZenonT(30)
  <2> QED
    BY <2>1 DEF ServeOK
<1>13. CaughtTop'
  <2>1. ASSUME NEW d \in caught, d # c
        PROVE  SvcTop(d)'
    <3>1. PICK u \in Threads : stack[u] # <<>> /\ Top(u).at = "svc" /\ Top(u).ctx = d
      BY SMTT(30), Zenon DEF CallInv, CaughtTop, SvcTop
    <3>2. stack'[u] = stack[u]
      BY <1>10, <1>c, <2>1, <3>1
    <3> QED
      BY <3>1, <3>2 DEF SvcTop, Top
  <2> QED
    BY <1>3, <2>1 DEF CaughtTop
<1>14. ASSUME NEW d \in Ctxs, Unserved(d)
       PROVE  Unserved(d)' /\ d # c
  <2>1. d # c
    BY <1>4, <1>5, <1>6, <1>c, <1>14 DEF Unserved, ServerOps
  <2>2. ASSUME NEW u \in Threads, NEW i \in 1..Len(stack'[u]), stack'[u][i].ctx = d
        PROVE  stack'[u][i].op \notin ServerOps
    <3>1. stack'[u][i] # f
      BY <1>7, <2>1, <2>2
    <3>2. i \in 1..Len(stack[u]) /\ stack'[u][i] = stack[u][i]
      BY <1>11, <2>2, <3>1, Zenon
    <3>3. stack[u][i].ctx = d => stack[u][i].op \notin ServerOps
      BY <1>14, <2>2, <3>2, Zenon DEF Unserved
    <3> QED
      BY <2>2, <3>2, <3>3
  <2> QED
    BY <2>1, <2>2, SMTT(30), Zenon DEF Unserved
<1>15. r \in owed' => ans[r] = 1 \/ data[r] # "no"
  <2>1. SUFFICES ASSUME r \in owed', data[r] = "no" PROVE ans[r] = 1
    OBVIOUS
  <2>2. r \in owed /\ r \in Reqs /\ r # Null
    BY <1>3, <1>8, <2>1, ServerAssumption DEF CallTypes
  <2>3. ans[r] \in 0..2 /\ ans[r] <= 1
    BY <1>8, <2>2 DEF CallInv, CallTypes, AnsweredOnce
  <2>4. CASE c \in caught
    BY <1>c, <2>2, <2>4, SMTT(30), Zenon DEF CallInv, CaughtAnswered
  <2>5. CASE c \notin caught
    BY <1>3, <2>1, <2>2, <2>3, <2>5
  <2> QED
    BY <2>4, <2>5
<1>16. owed' = owed \/ owed' = owed \ {r}
  BY <1>3
<1>17. CallTypes' /\ CaughtAnswered' /\ WorkerHolds' /\ AnsweredOnce'
  BY <1>3, <1>4, <1>14, <1>15, <1>16, <1>c, DropStep, ZenonT(30)
<1> QED
  BY <1>12, <1>13, <1>17 DEF CallInv

\* C calls Java, but no service.
LEMMA CallbackFits ==
    ASSUME JniInv, CallInv, NEW t \in Threads, InC(t), NEW given \in Ubfs \cup {Null},
           NEW kind \in {"unsol", "xa", "bool", "svrinit", "svrdone"},
           Callback(t, kind, given), UNCHANGED callVars
    PROVE  CallInv'
<1> DEFINE f == [Top(t) EXCEPT !.at = kind, !.saved = cur[t], !.given = given]
<1>1. stack[t] # <<>> /\ Top(t).at = "c" /\ SetTop(t, f)
  BY DEF InC, Callback
<1>2. Top(t) \in Frames /\ cur[t] \in Ctxs \cup {Null}
  BY <1>1, TopFacts DEF JniInv, DataOK
<1>3. f \in Frames /\ f.at = kind /\ f.op = Top(t).op /\ f.ctx = Top(t).ctx
  BY <1>2, Zenon DEF Frames
<1> HIDE DEF f
<1> QED
  BY <1>1, <1>3, TopFits

\* Java returns to C from a callback that is not a service.
LEMMA EndFits ==
    ASSUME JniInv, CallInv, NEW t \in Threads, callback_end(t), Top(t).at # "svc",
           UNCHANGED callVars
    PROVE  CallInv'
<1> DEFINE f == Top(t)
<1>1. stack[t] # <<>> /\ f.at # "c"
  BY DEF callback_end
<1>2. f \in Frames /\ FrameOK(t, f, jref, jenv)
  BY <1>1, TopFacts, Zenon
<1>3. PICK op \in CASE f.at = "svrinit" -> {"serve", "fail"}
                    [] f.at = "svrdone" -> {"stop"}
                    [] OTHER -> {f.op} :
          SetTop(t, [f EXCEPT !.at = "c", !.saved = Null, !.given = Null, !.op = op])
  BY Zenon DEF callback_end
<1> DEFINE g == [f EXCEPT !.at = "c", !.saved = Null, !.given = Null, !.op = op]
<1>s. SetTop(t, g)
  BY <1>3
<1>f. f = Top(t)
  OBVIOUS
<1> HIDE DEF f
<1>4. \/ op = f.op
      \/ f.op \in ServerOps /\ op \in {"serve", "fail", "stop"}
  BY <1>2, <1>3 DEF FrameOK
<1>5. g \in Frames /\ g.at = "c" /\ g.ctx = f.ctx /\ (g.op \in ServerOps => f.op \in ServerOps)
  BY <1>2, <1>4, Zenon DEF Frames
<1> HIDE DEF g
<1> QED
  BY <1>1, <1>f, <1>s, <1>5, TopFits

\* Neither frames nor requests change.
LEMMA StackKeeps == ASSUME JniInv, CallInv, stack' = stack, UNCHANGED callVars
                    PROVE  CallInv'
<1>0. hold' = hold /\ data' = data /\ ans' = ans /\ owed' = owed /\ caught' = caught
  BY DEF callVars
<1>1. ServeOK'
  BY <1>0, SameFrames
<1>2. CaughtTop'
  BY <1>0, SameStack DEF CallInv, CaughtTop
<1>3. CallTypes' /\ CaughtAnswered'
  BY <1>0 DEF CallInv, CallTypes, CaughtAnswered
<1>4. AnsweredOnce'
  BY <1>0, ZenonT(30) DEF CallInv, AnsweredOnce, Over
<1>5. WorkerHolds'
  BY <1>0, SameStack DEF CallInv, WorkerHolds
<1> QED
  BY <1>1, <1>2, <1>3, <1>4, <1>5 DEF CallInv

\* A native method that has nothing to do with requests.
LEMMA NativeKeeps ==
    ASSUME JniInv, CallInv, NEW t \in Threads, NEW c \in Ctxs, native(t, c),
           UNCHANGED callVars
    PROVE  CallInv'
  BY StackKeeps, SMTT(30), Zenon DEF native

\* A native method inside which Java may be called.
LEMMA CallBeginFits ==
    ASSUME JniInv, CallInv, NEW t \in Threads, NEW c \in Ctxs, Program(t),
           call_begin(t, c), UNCHANGED callVars
    PROVE  CallInv'
<1> DEFINE f == Frame(c, "call", Null)
<1>1. f \in Frames /\ f.at = "c" /\ f.op \notin ServerOps
  BY DEF Frame, Frames, ServerOps
<1>2. Push(t, f) /\ InJava(t)
  BY DEF call_begin
<1> HIDE DEF f
<1> QED
  BY <1>1, <1>2, PushFits, SMTT(30), Zenon

\* In the initial state no callback runs.
LEMMA InitFrames == ASSUME Init, NEW t \in Threads, NEW i \in 1..Len(stack[t])
                    PROVE  stack[t][i].at = "c"
<1>1. PICK own \in [CThreads -> Ctxs] :
          stack = [u \in Threads |-> IF u \in CThreads
                                     THEN <<Frame(own[u], "native", Null)>> ELSE <<>>]
  BY DEF Init
<1>2. CASE t \in CThreads
  <2>1. stack[t] = <<Frame(own[t], "native", Null)>>
    BY <1>1, <1>2
  <2>2. i = 1
    BY <2>1
  <2>3. stack[t][i] = Frame(own[t], "native", Null)
    BY <2>1, <2>2
  <2> QED
    BY <2>3, FrameAt, Zenon
<1>3. CASE t \notin CThreads
  BY <1>1, <1>3
<1> QED
  BY <1>2, <1>3

\* The steps that JniCallbacks has besides leave the requests alone.
LEMMA OthersFits == ASSUME JniInv, CbOK, CallInv, Others PROVE CallInv'
<1>0. UNCHANGED callVars
  BY DEF Others, serverVars
<1>1. ASSUME NEW t \in Threads, NEW c \in Ctxs, Program(t), native(t, c)
      PROVE  CallInv'
  BY <1>0, <1>1, NativeKeeps
<1>2. ASSUME NEW t \in Threads, NEW c \in Ctxs, Program(t), call_begin(t, c)
      PROVE  CallInv'
  BY <1>0, <1>2, CallBeginFits, SMTT(30), Zenon
<1>3. ASSUME NEW t \in Threads, NEW c \in Ctxs, NEW u \in Ubfs, Program(t), bool_begin(t, c, u)
      PROVE  CallInv'
  <2> DEFINE f == Frame(c, "bool", u)
  <2>1. f \in Frames /\ f.at = "c" /\ f.op \notin ServerOps
    BY DEF Frame, Frames, ServerOps
  <2>2. Push(t, f) /\ InJava(t)
    BY <1>3 DEF bool_begin
  <2> HIDE DEF f
  <2> QED
    BY <1>0, <1>3, <2>1, <2>2, PushFits, SMTT(30), Zenon
<1>4. ASSUME NEW t \in Threads, call_end(t) \/ bool_end(t)
      PROVE  CallInv'
  <2>1. InC(t) /\ Pop(t)
    BY <1>4 DEF call_end, bool_end
  <2> QED
    BY <1>0, <2>1, PopFits
<1>5. ASSUME NEW t \in Threads, xa_entry(t) \/ tpsvrinit(t) \/ tpsvrdone(t)
      PROVE  CallInv'
  <2>1. PICK kind \in {"unsol", "xa", "bool", "svrinit", "svrdone"} :
            InC(t) /\ Callback(t, kind, Null)
    BY <1>5 DEF xa_entry, tpsvrinit, tpsvrdone
  <2> QED
    BY <1>0, <2>1, CallbackFits
<1>6. ASSUME NEW t \in Threads, xa_entry_fails(t)
      PROVE  CallInv'
  <2>1. stack' = stack
    BY <1>6 DEF xa_entry_fails
  <2> QED
    BY <1>0, <2>1, StackKeeps, SMTT(30), Zenon
<1>7. ASSUME NEW t \in Threads, Bbool_callback_function(t)
      PROVE  CallInv'
  <2>1. PICK u \in IF cbUbf[t] = Null THEN Ubfs \cup {Null} ELSE {cbUbf[t]} :
            Callback(t, "bool", u)
    BY <1>7 DEF Bbool_callback_function
  <2>2. u \in Ubfs \cup {Null} /\ InC(t)
    BY <1>7, <2>1 DEF CbOK, Bbool_callback_function
  <2> QED
    BY <1>0, <2>1, <2>2, CallbackFits
<1>8. ASSUME NEW t \in Threads, callback_end(t), Top(t).at # "svc"
      PROVE  CallInv'
  BY <1>0, <1>8, EndFits, SMTT(30), Zenon
<1> QED
  BY <1>1, <1>2, <1>3, <1>4, <1>5, <1>6, <1>7, <1>8 DEF Others

\* Every step of a server keeps its requests in order.
LEMMA CallNext ==
    ASSUME JniInv, CbOK, CallInv, [ServerNext]_<<vars, serverVars>>
    PROVE  CallInv'
<1>1. ASSUME NEW t \in JThreads, NEW c \in Ctxs, tprun(t, c)
      PROVE  CallInv'
  <2> DEFINE f == Frame(c, "init", Null)
  <2>1. f \in Frames /\ f.at = "c" /\ f.ctx = c
    BY DEF Frame, Frames
  <2>2. t \in Threads
    BY DEF Threads
  <2>3. Push(t, f) /\ InJava(t) /\ Program(t) /\ hold[c] = Null /\ UNCHANGED callVars
    BY <1>1, Zenon DEF tprun, tpRunC, serverVars
  <2> HIDE DEF f
  <2> QED
    BY <2>1, <2>2, <2>3, PushFits, Zenon
<1>2. ASSUME NEW t \in Threads, NEW c \in Ctxs,
             \/ \E s \in Svcs, o \in Objs : tpadvertise(t, c, s, o)
             \/ \E cb \in BOOLEAN : tpsetunsol(t, c, cb)
             \/ tpnotify(t, c) \/ tpbroadcast(t, c)
      PROVE  CallInv'
  <2>1. native(t, c) /\ Program(t) /\ UNCHANGED callVars
    BY <1>2 DEF tpadvertise, tpsetunsol, tpnotify, tpbroadcast, serverVars, callVars
  <2> QED
    BY <2>1, NativeKeeps
<1>3. ASSUME NEW t \in Threads, NEW c \in Ctxs, tpreturn(t, c) \/ tpforward(t, c)
      PROVE  CallInv'
  BY <1>3, AnswerStep DEF tpreturn, tpforward
<1>4. ASSUME NEW t \in Threads, NEW c \in Ctxs, tpsrvgetctxdata(t, c) \/ tpcontinue(t, c)
      PROVE  CallInv'
  BY <1>4, GetDataStep, ContinueStep
<1>5. ASSUME NEW t \in Threads, NEW c \in Ctxs, NEW r \in Reqs,
             tpsrvsetctxdata(t, c, r) \/ tpsrvfreectxdata(t, c, r)
      PROVE  CallInv'
  BY <1>5, SetDataStep, FreeDataStep
<1>6. ASSUME NEW t \in Threads, NEW c \in Ctxs, tpchkunsol(t, c)
      PROVE  CallInv'
  <2>1. call_begin(t, c) /\ Program(t) /\ UNCHANGED callVars
    BY <1>6 DEF tpchkunsol, serverVars
  <2> QED
    BY <2>1, CallBeginFits
<1>7. ASSUME NEW t \in Threads, tprun_end(t)
      PROVE  CallInv'
  <2>1. InC(t) /\ Pop(t) /\ UNCHANGED callVars
    BY <1>7 DEF tprun_end, tpRunC_end
  <2> QED
    BY <2>1, PopFits
<1>8. ASSUME NEW t \in Threads, NEW r \in Reqs,
             \/ \E s \in Svcs : dispatch(t, s, r)
             \/ TpSvcInfo_translate_fails(t, r)
      PROVE  CallInv'
  BY <1>8, DispatchStep, TranslateFailsStep
<1>9. ASSUME NEW t \in Threads, tpCallDispatch(t) \/ service_end(t)
      PROVE  CallInv'
  BY <1>9, CallDispatchStep, ServiceEndStep
<1>10. ASSUME NEW t \in Threads, unsol_message(t)
       PROVE  CallInv'
  <2>1. InC(t) /\ Callback(t, "unsol", Null) /\ UNCHANGED callVars
    BY <1>10 DEF unsol_message, ndrx_unsol_dispatcher, serverVars
  <2> QED
    BY <2>1, CallbackFits
<1>11. CASE Others
  BY <1>11, OthersFits
<1>12. CASE UNCHANGED <<vars, serverVars>>
  <2>1. stack' = stack /\ UNCHANGED callVars
    BY <1>12 DEF vars, serverVars
  <2> QED
    BY <2>1, StackKeeps
<1> QED
  BY <1>1, <1>2, <1>3, <1>4, <1>5, <1>6, <1>7, <1>8, <1>9, <1>10, <1>11, <1>12 DEF ServerNext

\* A request gets one answer, whichever thread and context gives it: the
\* service by tpreturn or tpforward, a worker that took it over with
\* tpsrvsetctxdata, or AtmiCtx.tpCallDispatch for a service that throws.
THEOREM RequestsAnsweredOnce == ServerSpec => []AnsweredOnce
<1>1. ServerInit => CallInv
  <2> SUFFICES ASSUME ServerInit PROVE CallInv
    OBVIOUS
  <2>1. CallTypes /\ CaughtTop /\ CaughtAnswered /\ WorkerHolds /\ AnsweredOnce
    BY DEF ServerInit, CallTypes, CaughtTop, CaughtAnswered, WorkerHolds, AnsweredOnce
  <2>2. JniInv
    BY InitHolds DEF ServerInit
  <2>3. ASSUME NEW t \in Threads, NEW i \in 1..Len(stack[t])
        PROVE  stack[t][i].at = "c" /\ hold[stack[t][i].ctx] = Null
    <3>1. stack[t][i].ctx \in Ctxs
      BY <2>2, FrameCtx
    <3>2. stack[t][i].at = "c"
      BY <2>3, InitFrames DEF ServerInit
    <3> QED
      BY <3>1, <3>2 DEF ServerInit
  <2>4. ServeOK
    BY <2>3 DEF ServeOK
  <2> QED
    BY <2>1, <2>4 DEF CallInv
<1>2. JniInv /\ CbOK /\ CallInv /\ [ServerNext]_<<vars, serverVars>> => CallInv'
  BY CallNext
<1>3. CallInv => AnsweredOnce
  BY DEF CallInv
<1> QED
  BY <1>1, <1>2, <1>3, ServerInvariant, PTL DEF ServerSpec
=============================================================================
