------------------------- MODULE TypedBuffersProofs -------------------------
(***************************************************************************)
(* Proofs about TypedBuffers: buffer ownership is correct for any number   *)
(* of threads, objects, addresses and types.                               *)
(***************************************************************************)
EXTENDS TypedBuffers, TLAPS

\* Unallocated memory belongs to nobody, a lost buffer is not XATMI's, and a
\* buffer of XATMI belongs to the dispatch of some thread.
HeapInv ==
    \A p \in Ptrs :
        /\ IsFree(p) => xatmi[p] = "none" /\ p \notin lost
        /\ p \in lost => xatmi[p] = "none"
        /\ xatmi[p] # "none" => disp[p] \in Threads

\* A lost buffer has no destructor.
LostInv == \A o \in obj : doFinalize[o] => cPtr[o] \notin lost

\* What a call in progress remembers of its input object is still true, and
\* the program does not use the object meanwhile.
CallRemembers ==
    \A t \in Threads : call[t].obj # NoObj =>
        /\ call[t].busy /\ call[t].obj \in obj
        /\ user[call[t].obj] = NoThread
        /\ call[t].ptr = cPtr[call[t].obj] /\ call[t].ptr \in Ptrs
        /\ call[t].type = ctype[call[t].ptr]

\* A call without an input object has no address either.
CallNoInput ==
    \A t \in Threads : call[t].obj = NoObj => call[t].ptr = Null /\ call[t].type = NoType

\* An object is the input of one call at a time.
CallExclusive ==
    \A t, u \in Threads : call[t].obj # NoObj /\ call[t].obj = call[u].obj => t = u

\* The unsolicited callback runs inside a call, ...
UnsolNested == \A t \in Threads : unsol[t] => call[t].busy

\* ... its buffers exist only while it runs, ...
UnsolOwned == \A t \in Threads, p \in Ptrs : xatmi[p] = "unsol" /\ disp[p] = t => unsol[t]

\* ... and they are not the input of a call.
CallNotUnsol ==
    \A t \in Threads : call[t].obj # NoObj => xatmi[call[t].ptr] # "unsol"

\* A buffer that XATMI releases at the end of a dispatch of t is used by t only.
DispatchUse ==
    \A o \in obj, t \in Threads :
        Held(o) /\ cPtr[o] # Null /\ xatmi[cPtr[o]] # "none" /\ disp[cPtr[o]] = t
            => user[o] = t \/ call[t].obj = o

\* Only constructed objects are referenced.
RefInv == \A o \in Objs : user[o] # NoThread => o \in obj

Safety == SingleDestructor /\ DestructorSafe /\ NoDanglingUse /\ NoLeak

\* The inductive invariant.
IndInv ==
    /\ TypeOK
    /\ Safety
    /\ HeapInv
    /\ LostInv
    /\ CallRemembers /\ CallNoInput /\ CallExclusive
    /\ UnsolNested /\ UnsolOwned /\ CallNotUnsol
    /\ DispatchUse
    /\ RefInv

-----------------------------------------------------------------------------
(* Facts used by several steps. *)

\* The input object of a call is in use, its buffer is allocated, and neither
\* another object in use nor another call has the same address.
LEMMA CallInputHeld ==
    ASSUME IndInv, NEW t \in Threads, call[t].obj # NoObj
    PROVE  /\ call[t].obj \in obj /\ Held(call[t].obj)
           /\ call[t].ptr \in Ptrs /\ call[t].ptr = cPtr[call[t].obj]
           /\ ~IsFree(call[t].ptr)
           /\ doFinalize[call[t].obj] <=> xatmi[call[t].ptr] = "none"
           /\ \A x \in obj : Held(x) /\ cPtr[x] = call[t].ptr => x = call[t].obj
           /\ \A u \in Threads : call[u].obj # NoObj /\ call[u].ptr = call[t].ptr => u = t
<1>1. /\ call[t].obj \in obj /\ Held(call[t].obj)
      /\ call[t].ptr \in Ptrs /\ call[t].ptr = cPtr[call[t].obj]
  BY DEF IndInv, CallRemembers, Held, Pinned
<1>2. /\ ~IsFree(call[t].ptr)
      /\ doFinalize[call[t].obj] <=> xatmi[call[t].ptr] = "none"
      /\ \A x \in obj : Held(x) /\ cPtr[x] = call[t].ptr => x = call[t].obj
  BY <1>1, BufferAssumption DEF IndInv, Safety, NoDanglingUse
<1>3. ASSUME NEW u \in Threads, call[u].obj # NoObj, call[u].ptr = call[t].ptr
      PROVE  u = t
  <2>1. /\ call[u].obj \in obj /\ Held(call[u].obj) /\ cPtr[call[u].obj] = call[t].ptr
    BY <1>3 DEF IndInv, CallRemembers, Held, Pinned
  <2> QED
    BY <1>2, <2>1 DEF IndInv, CallExclusive
<1> QED
  BY <1>1, <1>2, <1>3

\* When the call of t returns, the other threads go on with theirs.
LEMMA OtherCall ==
    ASSUME IndInv, NEW t \in Threads, Returned(t), NEW u \in Threads, u # t
    PROVE  call'[u] = call[u]
  BY Zenon DEF IndInv, TypeOK, Returned

\* When the call of t returns, an object that is in use afterwards and whose
\* user did not change was in use before, and its buffer is not the one the
\* call replaced.
LEMMA OtherHeld ==
    ASSUME IndInv, NEW t \in Threads, Returned(t), NEW x \in obj,
           user'[x] = user[x], Held(x)'
    PROVE  /\ Held(x) /\ x \in Objs /\ x # call[t].obj
           /\ cPtr[x] # Null =>
                /\ cPtr[x] \in Ptrs /\ cPtr[x] # call[t].ptr
                /\ ~IsFree(cPtr[x])
                /\ doFinalize[x] <=> xatmi[cPtr[x]] = "none"
<1>1. x \in Objs /\ cPtr[x] \in Ptrs \cup {Null} /\ x # NoObj
  BY BufferAssumption DEF IndInv, TypeOK
<1>2. CASE user[x] # NoThread
  <2>1. Held(x) /\ x # call[t].obj
    BY <1>1, <1>2 DEF IndInv, Held, CallRemembers
  <2> QED
    BY <1>1, <2>1, CallInputHeld DEF IndInv, Safety, NoDanglingUse, CallNoInput
<1>3. CASE user[x] = NoThread
  <2>1. PICK u \in Threads : call'[u].obj = x
    BY <1>3 DEF Held, Pinned
  <2>2. u # t /\ call[u].obj = x
    BY <1>1, <2>1 DEF IndInv, TypeOK, Returned, Idle
  <2>3. Held(x) /\ x # call[t].obj
    BY <1>1, <2>2 DEF IndInv, Held, Pinned, CallExclusive
  <2> QED
    BY <1>1, <2>3, CallInputHeld DEF IndInv, Safety, NoDanglingUse, CallNoInput
<1> QED
  BY <1>2, <1>3

\* When the call of t returns, what the other calls remember stays true: their
\* buffers are neither free nor the one that is replaced.
LEMMA OthersRemember ==
    ASSUME IndInv, NEW t \in Threads, Returned(t), NEW q \in Ptrs, NEW ty,
           Replaced(call[t].ptr, q, ty), obj \subseteq obj',
           \A x \in obj : x # call[t].obj => cPtr'[x] = cPtr[x] /\ user'[x] = user[x]
    PROVE  CallRemembers'
<1> SUFFICES ASSUME NEW u \in Threads, call'[u].obj # NoObj
             PROVE  /\ call'[u].busy /\ call'[u].obj \in obj'
                    /\ user'[call'[u].obj] = NoThread
                    /\ call'[u].ptr = cPtr'[call'[u].obj] /\ call'[u].ptr \in Ptrs
                    /\ call'[u].type = ctype'[call'[u].ptr]
  BY Zenon DEF CallRemembers
<1>1. u # t
  BY Zenon DEF IndInv, TypeOK, Returned, Idle
<1>2. call'[u] = call[u]
  BY <1>1, OtherCall, Zenon
<1>3. /\ call[u].busy /\ call[u].obj \in obj /\ user[call[u].obj] = NoThread
      /\ call[u].ptr = cPtr[call[u].obj] /\ call[u].ptr \in Ptrs
      /\ call[u].type = ctype[call[u].ptr]
  BY <1>2, Zenon DEF IndInv, CallRemembers
<1>4. call[u].obj # call[t].obj
  BY <1>1, <1>2, Zenon DEF IndInv, CallExclusive
<1>5. cPtr'[call[u].obj] = cPtr[call[u].obj] /\ user'[call[u].obj] = user[call[u].obj]
  BY <1>3, <1>4, Zenon
<1>6. ~IsFree(call[u].ptr)
  BY <1>2, CallInputHeld, Zenon
<1>7. call[u].ptr # call[t].ptr
  <2>1. CASE call[t].obj # NoObj
    BY <1>1, <1>2, <2>1, CallInputHeld, ZenonT(30)
  <2>2. CASE call[t].obj = NoObj
    <3>1. call[t].ptr = Null
      BY <2>2, Zenon DEF IndInv, CallNoInput
    <3> QED BY <1>3, <3>1, BufferAssumption, Zenon
  <2> QED BY <2>1, <2>2, Zenon
<1>8. ctype'[call[u].ptr] = ctype[call[u].ptr]
  BY <1>3, <1>6, <1>7, Zenon DEF Replaced
<1> QED BY <1>2, <1>3, <1>5, <1>8, Zenon

\* What a replacement does to each address.
Swapped(p, q) ==
    /\ ~IsFree(q)' /\ (q = p \/ IsFree(q))
    /\ p = Null => xatmi'[q] = "none" /\ disp'[q] = NoThread
    /\ p # Null => xatmi'[q] = xatmi[p] /\ disp'[q] = disp[p]
    /\ \A r \in Ptrs : r = p /\ r # q => IsFree(r)' /\ xatmi'[r] = "none"
    /\ \A r \in Ptrs : r # p /\ r # q =>
         ctype'[r] = ctype[r] /\ xatmi'[r] = xatmi[r] /\ disp'[r] = disp[r]

\* Replaced does just that.
LEMMA ReplacedSwaps ==
    ASSUME NEW p, NEW q \in Ptrs, NEW ty \in Types, Replaced(p, q, ty)
    PROVE  Swapped(p, q)
<1>1. ctype'[q] = ty /\ (q = p \/ IsFree(q))
  BY Zenon DEF Replaced
<1>2. ~IsFree(q)'
  BY <1>1, BufferAssumption, Zenon DEF IsFree
<1>3. p = Null => xatmi'[q] = "none" /\ disp'[q] = NoThread
  BY Zenon DEF Replaced
<1>4. p # Null => xatmi'[q] = xatmi[p] /\ disp'[q] = disp[p]
  BY Zenon DEF Replaced
<1>5. \A r \in Ptrs : r = p /\ r # q => IsFree(r)' /\ xatmi'[r] = "none"
  BY Zenon DEF Replaced, IsFree
<1>6. \A r \in Ptrs : r # p /\ r # q =>
        ctype'[r] = ctype[r] /\ xatmi'[r] = xatmi[r] /\ disp'[r] = disp[r]
  BY Zenon DEF Replaced
<1> QED BY <1>1, <1>2, <1>3, <1>4, <1>5, <1>6, Zenon DEF Swapped

\* The address of a call is its input object's, if it is an address at all.
LEMMA InputOfAddress ==
    ASSUME IndInv, NEW t \in Threads, call[t].ptr \in Ptrs
    PROVE  call[t].obj # NoObj
  BY BufferAssumption, Zenon DEF IndInv, CallNoInput

\* The buffer of a call's input object is not lost.
LEMMA InputNotLost ==
    ASSUME IndInv, NEW t \in Threads, call[t].ptr \in Ptrs
    PROVE  call[t].ptr \notin lost
<1>1. call[t].obj # NoObj
  BY InputOfAddress, Zenon
<1>2. /\ call[t].obj \in obj /\ call[t].ptr = cPtr[call[t].obj]
      /\ doFinalize[call[t].obj] <=> xatmi[call[t].ptr] = "none"
  BY <1>1, CallInputHeld, Zenon
<1>3. call[t].ptr \in lost => xatmi[call[t].ptr] = "none"
  BY Zenon DEF IndInv, HeapInv
<1>4. doFinalize[call[t].obj] => cPtr[call[t].obj] \notin lost
  BY <1>2, Zenon DEF IndInv, LostInv
<1> QED BY <1>2, <1>3, <1>4, Zenon

\* The buffer that takes the place of a call's input has an owner only if the
\* input had one.
LEMMA OwnerPassed ==
    ASSUME IndInv, NEW t \in Threads, NEW q \in Ptrs, NEW ty \in Types,
           Replaced(call[t].ptr, q, ty), finalizeOrg(call[t].obj)
    PROVE  xatmi'[q] = "none"
<1>0. Swapped(call[t].ptr, q)
  BY ReplacedSwaps, Zenon
<1>1. CASE call[t].obj = NoObj
  <2>1. call[t].ptr = Null
    BY <1>1, Zenon DEF IndInv, CallNoInput
  <2> QED BY <1>0, <2>1, Zenon DEF Swapped
<1>2. CASE call[t].obj # NoObj
  <2>1. call[t].ptr \in Ptrs /\ xatmi[call[t].ptr] = "none"
    BY <1>2, CallInputHeld, Zenon DEF finalizeOrg
  <2>2. call[t].ptr # Null
    BY <2>1, BufferAssumption, Zenon
  <2> QED BY <1>0, <2>1, <2>2, Zenon DEF Swapped
<1> QED BY <1>1, <1>2, Zenon

\* The destructor of an object that is not the input of a call of t is not for
\* the buffer that the call replaces.
LEMMA DestructorElsewhere ==
    ASSUME IndInv, NEW t \in Threads, NEW x \in obj, doFinalize[x],
           x # call[t].obj, cPtr[x] # Null
    PROVE  /\ cPtr[x] \in Ptrs /\ ~IsFree(cPtr[x]) /\ xatmi[cPtr[x]] = "none"
           /\ cPtr[x] # call[t].ptr
<1>1. cPtr[x] \in Ptrs
  <2>1. x \in Objs /\ cPtr \in [Objs -> Ptrs \cup {Null}]
    BY Zenon DEF IndInv, TypeOK
  <2> QED BY <2>1, Zenon
<1>2. ~IsFree(cPtr[x]) /\ xatmi[cPtr[x]] = "none"
  BY Zenon DEF IndInv, Safety, DestructorSafe
<1>3. ASSUME cPtr[x] = call[t].ptr PROVE FALSE
  <2>1. call[t].obj # NoObj
    BY <1>1, <1>3, InputOfAddress, Zenon
  <2>2. /\ call[t].obj \in obj /\ call[t].ptr = cPtr[call[t].obj]
        /\ doFinalize[call[t].obj]
    BY <1>2, <1>3, <2>1, CallInputHeld, Zenon
  <2> QED BY <1>3, <2>2, Zenon DEF IndInv, Safety, SingleDestructor
<1> QED BY <1>1, <1>2, <1>3, Zenon

\* ... so it stays safe to run, and the new buffer is not its own.
LEMMA DestructorUntouched ==
    ASSUME IndInv, NEW t \in Threads, NEW q \in Ptrs, NEW ty \in Types,
           Replaced(call[t].ptr, q, ty),
           NEW x \in obj, doFinalize[x], x # call[t].obj, cPtr[x] # Null
    PROVE  ctype'[cPtr[x]] # NoType /\ xatmi'[cPtr[x]] = "none" /\ cPtr[x] # q
<1>1. /\ cPtr[x] \in Ptrs /\ ~IsFree(cPtr[x]) /\ xatmi[cPtr[x]] = "none"
      /\ cPtr[x] # call[t].ptr
  BY DestructorElsewhere, Zenon
<1>2. Swapped(call[t].ptr, q)
  BY ReplacedSwaps, Zenon
<1>3. cPtr[x] # q
  BY <1>1, <1>2, Zenon DEF Swapped
<1>4. ctype'[cPtr[x]] = ctype[cPtr[x]] /\ xatmi'[cPtr[x]] = xatmi[cPtr[x]]
  BY <1>1, <1>2, <1>3, Zenon DEF Swapped
<1> QED BY <1>1, <1>3, <1>4, Zenon DEF IsFree

\* A reply of type ty at q takes the place of the input of t's call.
Reply(t, q, ty) == Returning(t) /\ Replaced(call[t].ptr, q, ty) /\ Returned(t)

\* The replaced address is no longer owned, the new one is as the old one was.
LEMMA ReplyKeepsHeap ==
    ASSUME IndInv, NEW t \in Threads, NEW q \in Ptrs, NEW ty \in Types, Reply(t, q, ty),
           \A r \in lost' : r \in lost \/ (r = q /\ finalizeOrg(call[t].obj))
    PROVE  HeapInv'
<1>1. Replaced(call[t].ptr, q, ty)
  BY Zenon DEF Reply
<1>2. Swapped(call[t].ptr, q)
  BY <1>1, ReplacedSwaps, Zenon
<1>3. call[t].ptr # Null => call[t].ptr \in Ptrs
  <2>1. call[t] \in Calls
    BY Zenon DEF IndInv, TypeOK
  <2> QED BY <2>1 DEF Calls
<1>4. \A r \in Ptrs : /\ IsFree(r) => xatmi[r] = "none" /\ r \notin lost
                      /\ r \in lost => xatmi[r] = "none"
                      /\ xatmi[r] # "none" => disp[r] \in Threads
  BY Zenon DEF IndInv, HeapInv
<1>5. call[t].ptr \in Ptrs => call[t].ptr \notin lost
  BY InputNotLost, Zenon
<1>6. finalizeOrg(call[t].obj) => xatmi'[q] = "none"
  BY <1>1, OwnerPassed, Zenon
<1>7. ASSUME NEW r \in Ptrs
      PROVE  /\ IsFree(r)' => xatmi'[r] = "none" /\ r \notin lost'
             /\ r \in lost' => xatmi'[r] = "none"
             /\ xatmi'[r] # "none" => disp'[r] \in Threads
  <2>1. CASE r = q
    <3>1. q \notin lost
      BY <1>2, <1>4, <1>5, Zenon DEF Swapped
    <3>2. r \in lost' => xatmi'[r] = "none"
      BY <1>6, <2>1, <3>1, Zenon
    <3>3. xatmi'[r] # "none" => disp'[r] \in Threads
      BY <1>2, <1>3, <1>4, <2>1, Zenon DEF Swapped
    <3> QED BY <1>2, <2>1, <3>2, <3>3, Zenon DEF Swapped
  <2>2. CASE r # q /\ r = call[t].ptr
    <3>1. r \notin lost'
      BY <1>5, <2>2, Zenon
    <3> QED BY <1>2, <2>2, <3>1, Zenon DEF Swapped
  <2>3. CASE r # q /\ r # call[t].ptr
    <3>1. ctype'[r] = ctype[r] /\ xatmi'[r] = xatmi[r] /\ disp'[r] = disp[r]
      BY <1>2, <2>3, Zenon DEF Swapped
    <3>2. r \in lost' => r \in lost
      BY <2>3, Zenon
    <3> QED BY <1>4, <3>1, <3>2, Zenon DEF IsFree
  <2> QED BY <2>1, <2>2, <2>3, Zenon
<1> QED BY <1>7, Zenon DEF HeapInv

\* The returning call forgets its input, the others keep theirs.
LEMMA ReplyKeepsCalls ==
    ASSUME IndInv, NEW t \in Threads, NEW q \in Ptrs, NEW ty \in Types, Reply(t, q, ty),
           unsol' = unsol
    PROVE  /\ CallNoInput' /\ CallExclusive' /\ UnsolNested'
           /\ UnsolOwned' /\ CallNotUnsol'
<1>1. Replaced(call[t].ptr, q, ty) /\ Returned(t) /\ ~unsol[t]
  BY Zenon DEF Reply, Returning
<1>2. Swapped(call[t].ptr, q)
  BY <1>1, ReplacedSwaps, Zenon
<1>3. call'[t] = Idle
  BY <1>1, Zenon DEF IndInv, TypeOK, Returned
<1>4. call'[t].obj = NoObj /\ call'[t].ptr = Null /\ call'[t].type = NoType
  BY <1>3 DEF Idle
<1>5. \A u \in Threads : u # t => call'[u] = call[u]
  BY <1>1, OtherCall, Zenon
<1>6. CallNoInput'
  <2>1. \A u \in Threads : call[u].obj = NoObj => call[u].ptr = Null /\ call[u].type = NoType
    BY Zenon DEF IndInv, CallNoInput
  <2> QED BY <1>4, <1>5, <2>1, Zenon DEF CallNoInput
<1>7. CallExclusive'
  <2>1. \A u, w \in Threads : call[u].obj # NoObj /\ call[u].obj = call[w].obj => u = w
    BY Zenon DEF IndInv, CallExclusive
  <2>2. ASSUME NEW u \in Threads, NEW w \in Threads,
               call'[u].obj # NoObj, call'[u].obj = call'[w].obj
        PROVE  u = w
    <3>1. u # t /\ w # t
      BY <1>4, <2>2, Zenon
    <3> QED BY <1>5, <2>1, <2>2, <3>1, Zenon
  <2> QED BY <2>2, Zenon DEF CallExclusive
<1>8. UnsolNested'
  <2>1. \A u \in Threads : unsol[u] => call[u].busy
    BY Zenon DEF IndInv, UnsolNested
  <2> QED BY <1>1, <1>5, <2>1, Zenon DEF UnsolNested
<1>9. UnsolOwned'
  <2>1. \A u \in Threads, r \in Ptrs : xatmi[r] = "unsol" /\ disp[r] = u => unsol[u]
    BY Zenon DEF IndInv, UnsolOwned
  <2>2. call[t].ptr # Null => call[t].ptr \in Ptrs
    <3>1. call[t] \in Calls
      BY Zenon DEF IndInv, TypeOK
    <3> QED BY <3>1 DEF Calls
  <2>3. ASSUME NEW u \in Threads, NEW r \in Ptrs, xatmi'[r] = "unsol", disp'[r] = u
        PROVE  unsol[u]
    <3>0. xatmi'[r] # "none"
      BY <2>3
    <3>1. CASE r = q
      <4>1. call[t].ptr # Null
        BY <1>2, <3>0, <3>1, Zenon DEF Swapped
      <4>2. xatmi[call[t].ptr] = "unsol" /\ disp[call[t].ptr] = u
        BY <1>2, <2>3, <3>1, <4>1, Zenon DEF Swapped
      <4> QED BY <2>1, <2>2, <4>1, <4>2, Zenon
    <3>2. CASE r # q
      <4>1. r # call[t].ptr
        BY <1>2, <3>0, <3>2, Zenon DEF Swapped
      <4>2. xatmi[r] = xatmi'[r] /\ disp[r] = disp'[r]
        BY <1>2, <3>2, <4>1, Zenon DEF Swapped
      <4> QED BY <2>1, <2>3, <4>2, Zenon
    <3> QED BY <3>1, <3>2, Zenon
  <2> QED BY <2>3, Zenon DEF UnsolOwned
<1>10. CallNotUnsol'
  <2>1. ASSUME NEW u \in Threads, call'[u].obj # NoObj
        PROVE  xatmi'[call'[u].ptr] # "unsol"
    <3>1. u # t
      BY <1>4, <2>1, Zenon
    <3>2. call'[u] = call[u] /\ call[u].obj # NoObj
      BY <1>5, <2>1, <3>1, Zenon
    <3>3. call[u].ptr \in Ptrs /\ ~IsFree(call[u].ptr)
      BY <3>2, CallInputHeld, Zenon
    <3>4. call[u].ptr # call[t].ptr
      <4>1. CASE call[t].ptr \in Ptrs
        <5>1. call[t].obj # NoObj
          BY <4>1, InputOfAddress, Zenon
        <5> QED BY <3>1, <3>2, <5>1, CallInputHeld, Zenon
      <4>2. CASE call[t].ptr \notin Ptrs
        BY <3>3, <4>2, Zenon
      <4> QED BY <4>1, <4>2, Zenon
    <3>5. call[u].ptr # q
      BY <1>2, <3>3, <3>4, Zenon DEF Swapped
    <3>6. xatmi'[call[u].ptr] = xatmi[call[u].ptr]
      BY <1>2, <3>3, <3>4, <3>5, Zenon DEF Swapped
    <3>7. xatmi[call[u].ptr] # "unsol"
      BY <3>2, Zenon DEF IndInv, CallNotUnsol
    <3> QED BY <3>2, <3>6, <3>7, Zenon
  <2> QED BY <2>1, Zenon DEF CallNotUnsol
<1> QED BY <1>6, <1>7, <1>8, <1>9, <1>10, Zenon

\* The buffers that tpreturn releases are not the input of a call in progress.
LEMMA ReturnSparesCalls ==
    ASSUME IndInv, NEW t \in Threads, NEW o \in Objs \cup {NoObj}, tpreturn(t, o),
           NEW u \in Threads, call[u].obj # NoObj
    PROVE  /\ call[u].obj # o
           /\ call[u].ptr \notin OwnedBy(t, "svc") \cup (IF o = NoObj THEN {} ELSE {cPtr[o]} \cap Ptrs)
<1>1. /\ call[u].obj \in obj /\ call[u].obj \in Objs /\ call[u].ptr \in Ptrs /\ call[u].busy
      /\ user[call[u].obj] = NoThread /\ Held(call[u].obj) /\ cPtr[call[u].obj] = call[u].ptr
  BY CallInputHeld DEF IndInv, TypeOK, CallRemembers
<1>2. call[u].obj # o
  BY <1>1, BufferAssumption DEF tpreturn, Uses
<1>3. o # NoObj => call[u].ptr # cPtr[o]
  BY <1>2, CallInputHeld, BufferAssumption DEF tpreturn, Uses, Held
<1>4. ~(xatmi[call[u].ptr] = "svc" /\ disp[call[u].ptr] = t)
  <2>1. SUFFICES ASSUME xatmi[call[u].ptr] = "svc", disp[call[u].ptr] = t
                 PROVE  FALSE
    OBVIOUS
  <2>2. call[t].obj = call[u].obj
    BY <1>1, <2>1, BufferAssumption DEF IndInv, DispatchUse
  <2>3. t = u
    BY <2>2 DEF IndInv, CallExclusive
  <2> QED
    BY <1>1, <2>3 DEF tpreturn
<1> QED
  BY <1>2, <1>3, <1>4 DEF OwnedBy

-----------------------------------------------------------------------------
(* The steps that allocate, hand over and release buffers keep the invariant. *)

\* A new object is the only one with the address of its new buffer.
LEMMA tpalloc_keeps ==
    ASSUME IndInv, NEW t \in Threads, NEW p \in Ptrs, NEW ty \in Types, NEW o \in Objs,
           tpalloc(t, p, ty, o)
    PROVE  IndInv'
<1>1. TypeOK'
  BY BufferAssumption DEF IndInv, TypeOK, tpalloc, translate, IsFree, Running, Calls,
     Dispatches
<1>2. SingleDestructor'
  BY BufferAssumption DEF IndInv, Safety, TypeOK, SingleDestructor, DestructorSafe,
     NoDanglingUse, tpalloc, translate, IsFree, Running, Held, Pinned, Calls,
     Dispatches
<1>3. DestructorSafe'
  BY BufferAssumption DEF IndInv, Safety, TypeOK, SingleDestructor, DestructorSafe,
     NoDanglingUse, HeapInv, tpalloc, translate, IsFree, Running, Held, Pinned, Calls,
     Dispatches
<1>4. NoDanglingUse'
  BY BufferAssumption DEF IndInv, Safety, TypeOK, SingleDestructor, DestructorSafe,
     NoDanglingUse, HeapInv, CallRemembers, CallNoInput, CallExclusive, RefInv,
     tpalloc, translate, IsFree, Running, Held, Pinned, Calls, Dispatches
<1>5. NoLeak'
  BY BufferAssumption DEF IndInv, Safety, TypeOK, NoLeak, tpalloc, translate, IsFree,
     Running, Calls, Dispatches
<1>6. HeapInv'
  BY BufferAssumption DEF IndInv, TypeOK, HeapInv, tpalloc, translate, IsFree, Running,
     Calls, Dispatches
<1>7. LostInv'
  BY BufferAssumption DEF IndInv, Safety, TypeOK, DestructorSafe, NoDanglingUse,
     HeapInv, LostInv, tpalloc, translate, IsFree, Running, Held, Pinned, Calls,
     Dispatches
<1>8. CallRemembers'
  BY BufferAssumption DEF IndInv, Safety, TypeOK, NoDanglingUse, CallRemembers, RefInv,
     tpalloc, translate, IsFree, Running, Held, Pinned, Calls, Dispatches
<1>9. CallNoInput' /\ CallExclusive' /\ UnsolNested' /\ UnsolOwned' /\ CallNotUnsol' /\
     RefInv'
  BY BufferAssumption DEF IndInv, TypeOK, CallNoInput, CallExclusive, UnsolNested,
     UnsolOwned, CallNotUnsol, RefInv, tpalloc, translate, IsFree, Running, Calls,
     Dispatches
<1>10. DispatchUse'
  BY BufferAssumption DEF IndInv, Safety, TypeOK, NoDanglingUse, HeapInv,
     CallRemembers, DispatchUse, tpalloc, translate, IsFree, Running, Held, Pinned,
     Calls, Dispatches
<1> QED
  BY <1>1, <1>2, <1>3, <1>4, <1>5, <1>6, <1>7, <1>8,
     <1>9, <1>10 DEF IndInv, Safety

\* The buffer that tpalloc drops belongs to nobody.
LEMMA tpalloc_unsupported_keeps ==
    ASSUME IndInv, NEW t \in Threads, NEW p \in Ptrs, NEW ty \in Types,
           tpalloc_unsupported(t, p, ty)
    PROVE  IndInv'
<1>1. TypeOK'
  BY BufferAssumption DEF IndInv, TypeOK, tpalloc_unsupported, fields, IsFree, Running,
     Calls, Dispatches
<1>2. SingleDestructor' /\ DestructorSafe' /\ NoDanglingUse' /\ NoLeak'
  BY BufferAssumption DEF IndInv, Safety, TypeOK, SingleDestructor, DestructorSafe,
     NoDanglingUse, NoLeak, tpalloc_unsupported, fields, IsFree, Running, Calls,
     Dispatches, Held, Pinned
<1>3. HeapInv' /\ DispatchUse'
  BY BufferAssumption DEF IndInv, TypeOK, HeapInv, DispatchUse, tpalloc_unsupported,
     fields, IsFree, Running, Calls, Dispatches, Held, Pinned
<1>4. LostInv'
  BY BufferAssumption DEF IndInv, Safety, TypeOK, DestructorSafe, NoDanglingUse,
     HeapInv, LostInv, tpalloc_unsupported, fields, IsFree, Running, Held, Pinned,
     Calls, Dispatches
<1>5. CallRemembers'
  BY BufferAssumption DEF IndInv, Safety, TypeOK, NoDanglingUse, CallRemembers, RefInv,
     tpalloc_unsupported, fields, IsFree, Running, Held, Pinned, Calls, Dispatches
<1>6. CallNoInput' /\ CallExclusive' /\ UnsolNested' /\ UnsolOwned' /\ CallNotUnsol' /\
     RefInv'
  BY BufferAssumption DEF IndInv, TypeOK, CallNoInput, CallExclusive, UnsolNested,
     UnsolOwned, CallNotUnsol, RefInv, tpalloc_unsupported, fields, IsFree, Running,
     Calls, Dispatches
<1> QED
  BY <1>1, <1>2, <1>3, <1>4, <1>5, <1>6 DEF IndInv, Safety

\* tprealloc moves the buffer of an object in use; stale objects have no destructor.
LEMMA tprealloc_keeps ==
    ASSUME IndInv, NEW t \in Threads, NEW o \in Objs, NEW q \in Ptrs, tprealloc(t, o, q)
    PROVE  IndInv'
<1>1. TypeOK'
  BY BufferAssumption DEF IndInv, TypeOK, tprealloc, Replaced, Uses, IsFree, Running,
     Calls, Dispatches
<1>2. SingleDestructor'
  BY BufferAssumption DEF IndInv, Safety, TypeOK, SingleDestructor, DestructorSafe,
     NoDanglingUse, tprealloc, Replaced, Uses, IsFree, Running, Held, Pinned, Calls,
     Dispatches
<1>3. DestructorSafe'
  BY BufferAssumption DEF IndInv, Safety, TypeOK, SingleDestructor, DestructorSafe,
     NoDanglingUse, HeapInv, tprealloc, Replaced, Uses, IsFree, Running, Held, Pinned,
     Calls, Dispatches
<1>4. NoDanglingUse'
  BY BufferAssumption DEF IndInv, Safety, TypeOK, NoDanglingUse, tprealloc, Replaced,
     Uses, IsFree, Running, Held, Pinned, Calls, Dispatches
<1>5. NoLeak'
  BY BufferAssumption DEF IndInv, Safety, TypeOK, SingleDestructor, DestructorSafe,
     NoDanglingUse, NoLeak, HeapInv, LostInv, CallRemembers, CallNoInput,
     CallExclusive, RefInv, tprealloc, Replaced, Uses, IsFree, Running, Held, Pinned,
     Calls, Dispatches
<1>6. HeapInv'
  BY BufferAssumption DEF IndInv, Safety, TypeOK, DestructorSafe, NoDanglingUse,
     HeapInv, LostInv, tprealloc, Replaced, Uses, IsFree, Running, Held, Pinned, Calls,
     Dispatches
<1>7. LostInv'
  BY BufferAssumption DEF IndInv, Safety, TypeOK, DestructorSafe, NoDanglingUse,
     HeapInv, LostInv, tprealloc, Replaced, Uses, IsFree, Running, Held, Pinned, Calls,
     Dispatches
<1>8. CallRemembers'
  BY BufferAssumption DEF IndInv, Safety, TypeOK, NoDanglingUse, CallRemembers, RefInv,
     tprealloc, Replaced, Uses, IsFree, Running, Held, Pinned, Calls, Dispatches
<1>9. CallNoInput' /\ CallExclusive' /\ UnsolNested' /\ UnsolOwned' /\ RefInv'
  BY BufferAssumption DEF IndInv, TypeOK, CallNoInput, CallExclusive, UnsolNested,
     UnsolOwned, RefInv, tprealloc, Replaced, Uses, IsFree, Running, Calls, Dispatches
<1>10. CallNotUnsol'
  BY BufferAssumption DEF IndInv, Safety, TypeOK, SingleDestructor, DestructorSafe,
     NoDanglingUse, HeapInv, CallRemembers, CallNoInput, CallExclusive, CallNotUnsol,
     RefInv, tprealloc, Replaced, Uses, IsFree, Running, Held, Pinned, Calls,
     Dispatches
<1>11. DispatchUse'
  BY BufferAssumption, SMTT(30), Zenon DEF IndInv, Safety, TypeOK, NoDanglingUse, HeapInv,
     CallRemembers, DispatchUse, tprealloc, Replaced, Uses, IsFree, Running, Held,
     Pinned, Calls, Dispatches
<1> QED
  BY <1>1, <1>2, <1>3, <1>4, <1>5, <1>6, <1>7, <1>8,
     <1>9, <1>10, <1>11 DEF IndInv, Safety

\* An object that gave up its address destructs nothing.
LEMMA set_failed_keeps ==
    ASSUME IndInv, NEW t \in Threads, NEW o \in Objs, set_failed(t, o)
    PROVE  IndInv'
<1>1. TypeOK'
  BY BufferAssumption DEF IndInv, TypeOK, set_failed, Uses, Running, Calls, Dispatches
<1>2. SingleDestructor' /\ DestructorSafe' /\ NoDanglingUse' /\ NoLeak'
  BY BufferAssumption DEF IndInv, Safety, TypeOK, SingleDestructor, DestructorSafe,
     NoDanglingUse, NoLeak, set_failed, Uses, Running, Calls, Dispatches, IsFree, Held,
     Pinned
<1>3. HeapInv'
  BY BufferAssumption DEF IndInv, Safety, TypeOK, DestructorSafe, NoDanglingUse,
     HeapInv, LostInv, set_failed, Uses, Running, Held, Pinned, IsFree, Calls,
     Dispatches
<1>4. LostInv'
  BY BufferAssumption DEF IndInv, Safety, TypeOK, SingleDestructor, DestructorSafe,
     NoDanglingUse, HeapInv, LostInv, CallRemembers, CallNoInput, CallExclusive,
     RefInv, set_failed, Uses, Running, Held, Pinned, IsFree, Calls, Dispatches
<1>5. CallRemembers' /\ CallNoInput' /\ CallExclusive' /\ UnsolNested' /\
     UnsolOwned' /\ CallNotUnsol' /\ RefInv'
  BY BufferAssumption DEF IndInv, TypeOK, CallRemembers, CallNoInput, CallExclusive,
     UnsolNested, UnsolOwned, CallNotUnsol, RefInv, set_failed, Uses, Running, Calls,
     Dispatches
<1>6. DispatchUse'
  BY BufferAssumption DEF IndInv, TypeOK, DispatchUse, set_failed, Uses, Running, Held,
     Pinned, Calls, Dispatches
<1> QED
  BY <1>1, <1>2, <1>3, <1>4, <1>5, <1>6 DEF IndInv, Safety

\* Handing an object to another thread changes neither buffers nor destructors.
LEMMA setAtmiCtx_keeps ==
    ASSUME IndInv, NEW t \in Threads, NEW u \in Threads, NEW o \in Objs,
           setAtmiCtx(t, o, u)
    PROVE  IndInv'
<1>1. TypeOK'
  BY BufferAssumption DEF IndInv, TypeOK, setAtmiCtx, heap, Uses, Running, Calls,
     Dispatches
<1>2. SingleDestructor' /\ DestructorSafe' /\ NoDanglingUse' /\ NoLeak'
  BY BufferAssumption DEF IndInv, Safety, TypeOK, SingleDestructor, DestructorSafe,
     NoDanglingUse, NoLeak, setAtmiCtx, heap, Uses, Running, Calls, Dispatches, IsFree,
     Held, Pinned
<1>3. HeapInv' /\ LostInv'
  BY BufferAssumption DEF IndInv, TypeOK, HeapInv, LostInv, setAtmiCtx, heap, Uses,
     Running, IsFree, Calls, Dispatches
<1>4. CallRemembers' /\ CallNoInput' /\ CallExclusive' /\ UnsolNested' /\
     UnsolOwned' /\ CallNotUnsol' /\ RefInv'
  BY BufferAssumption DEF IndInv, TypeOK, CallRemembers, CallNoInput, CallExclusive,
     UnsolNested, UnsolOwned, CallNotUnsol, RefInv, setAtmiCtx, heap, Uses, Running,
     Calls, Dispatches
<1>5. DispatchUse'
  BY BufferAssumption DEF IndInv, Safety, TypeOK, NoDanglingUse, HeapInv,
     CallRemembers, DispatchUse, setAtmiCtx, heap, Uses, Running, Held, Pinned, IsFree,
     Calls, Dispatches
<1> QED
  BY <1>1, <1>2, <1>3, <1>4, <1>5 DEF IndInv, Safety

\* The input object passes from the program to the call.
LEMMA call_begin_keeps ==
    ASSUME IndInv, NEW t \in Threads, NEW o \in Objs, call_begin(t, o)
    PROVE  IndInv'
<1>1. TypeOK'
  BY BufferAssumption DEF IndInv, TypeOK, call_begin, heap, Uses, Running, Calls,
     Dispatches
<1>2. SingleDestructor' /\ DestructorSafe' /\ NoDanglingUse' /\ NoLeak'
  BY BufferAssumption DEF IndInv, Safety, TypeOK, SingleDestructor, DestructorSafe,
     NoDanglingUse, NoLeak, call_begin, heap, Uses, Running, Calls, Dispatches, IsFree,
     Held, Pinned
<1>3. HeapInv' /\ LostInv'
  BY BufferAssumption DEF IndInv, TypeOK, HeapInv, LostInv, call_begin, heap, Uses,
     Running, IsFree, Calls, Dispatches
<1>4. CallRemembers' /\ CallNoInput' /\ UnsolNested' /\ UnsolOwned' /\ RefInv'
  BY BufferAssumption DEF IndInv, TypeOK, CallRemembers, CallNoInput, UnsolNested,
     UnsolOwned, RefInv, call_begin, heap, Uses, Running, Calls, Dispatches
<1>5. CallExclusive'
  BY BufferAssumption DEF IndInv, TypeOK, CallRemembers, CallExclusive, call_begin,
     heap, Uses, Running, Calls, Dispatches
<1>6. CallNotUnsol'
  <2>1. ~unsol[t]
    BY DEF IndInv, UnsolNested, call_begin
  <2>2. o \in obj /\ Held(o) /\ cPtr[o] \in Ptrs /\ user[o] = t
    BY BufferAssumption DEF IndInv, TypeOK, call_begin, Uses, Held
  <2>3. \A u \in Threads : call[u].obj # o
    BY <2>2, BufferAssumption DEF IndInv, CallRemembers
  <2>4. xatmi[cPtr[o]] # "none" => disp[cPtr[o]] = t
    BY <2>2, <2>3, BufferAssumption DEF IndInv, DispatchUse, HeapInv
  <2>5. xatmi[cPtr[o]] # "unsol"
    BY <2>1, <2>2, <2>4 DEF IndInv, UnsolOwned
  <2> QED
    BY <2>5, SMTT(30), Zenon DEF IndInv, TypeOK, Calls, CallNotUnsol, call_begin, heap
<1>7. DispatchUse'
  BY BufferAssumption DEF IndInv, Safety, TypeOK, NoDanglingUse, HeapInv,
     CallRemembers, DispatchUse, call_begin, heap, Uses, Running, Held, Pinned, IsFree,
     Calls, Dispatches
<1> QED
  BY <1>1, <1>2, <1>3, <1>4, <1>5, <1>6, <1>7 DEF IndInv, Safety

\* A call without an input buffer.
LEMMA call_begin_null_keeps ==
    ASSUME IndInv, NEW t \in Threads, call_begin_null(t)
    PROVE  IndInv'
<1>1. TypeOK'
  BY BufferAssumption DEF IndInv, TypeOK, call_begin_null, heap, fields, Calls,
     Dispatches
<1>2. SingleDestructor' /\ DestructorSafe' /\ NoDanglingUse' /\ NoLeak'
  BY BufferAssumption DEF IndInv, Safety, TypeOK, SingleDestructor, DestructorSafe,
     NoDanglingUse, NoLeak, call_begin_null, heap, fields, Calls, Dispatches, IsFree,
     Held, Pinned
<1>3. HeapInv' /\ LostInv'
  BY BufferAssumption DEF IndInv, TypeOK, HeapInv, LostInv, call_begin_null, heap,
     fields, IsFree, Calls, Dispatches
<1>4. CallRemembers' /\ CallNoInput' /\ CallExclusive' /\ UnsolNested' /\
     UnsolOwned' /\ CallNotUnsol' /\ RefInv'
  BY BufferAssumption DEF IndInv, TypeOK, CallRemembers, CallNoInput, CallExclusive,
     UnsolNested, UnsolOwned, CallNotUnsol, RefInv, call_begin_null, heap, fields,
     Calls, Dispatches
<1>5. DispatchUse'
  BY BufferAssumption DEF IndInv, Safety, TypeOK, NoDanglingUse, HeapInv,
     CallRemembers, DispatchUse, call_begin_null, heap, fields, Held, Pinned, IsFree,
     Calls, Dispatches
<1> QED
  BY <1>1, <1>2, <1>3, <1>4, <1>5 DEF IndInv, Safety

\* The input object goes back to the program unchanged.
LEMMA call_error_keeps ==
    ASSUME IndInv, NEW t \in Threads, call_error(t)
    PROVE  IndInv'
<1>1. TypeOK'
  BY BufferAssumption DEF IndInv, TypeOK, call_error, heap, Returning, Returned, Idle,
     Calls, Dispatches
<1>2. SingleDestructor' /\ DestructorSafe' /\ NoDanglingUse' /\ NoLeak'
  BY BufferAssumption DEF IndInv, Safety, TypeOK, SingleDestructor, DestructorSafe,
     NoDanglingUse, NoLeak, call_error, heap, Returning, Returned, Idle, Calls,
     Dispatches, IsFree, Held, Pinned
<1>3. HeapInv' /\ LostInv'
  BY BufferAssumption DEF IndInv, TypeOK, HeapInv, LostInv, call_error, heap,
     Returning, Returned, Idle, IsFree, Calls, Dispatches
<1>4. CallRemembers'
  BY BufferAssumption DEF IndInv, Safety, TypeOK, SingleDestructor, DestructorSafe,
     NoDanglingUse, HeapInv, CallRemembers, CallNoInput, CallExclusive, RefInv,
     call_error, heap, Returning, Returned, Idle, Held, Pinned, IsFree, Calls,
     Dispatches
<1>5. CallNoInput' /\ CallExclusive' /\ UnsolNested' /\ UnsolOwned' /\ CallNotUnsol'
  BY BufferAssumption DEF IndInv, TypeOK, CallNoInput, CallExclusive, UnsolNested,
     UnsolOwned, CallNotUnsol, call_error, heap, Returning, Returned, Idle, Calls,
     Dispatches
<1>6. DispatchUse'
  BY BufferAssumption, SMTT(30), Zenon DEF IndInv, Safety, TypeOK, NoDanglingUse, HeapInv,
     CallRemembers, DispatchUse, call_error, heap, Returning, Returned, Idle, Held,
     Pinned, IsFree, Calls, Dispatches
<1>7. RefInv'
  BY BufferAssumption DEF IndInv, TypeOK, CallRemembers, RefInv, call_error, heap,
     Returning, Returned, Idle, Calls, Dispatches
<1> QED
  BY <1>1, <1>2, <1>3, <1>4, <1>5, <1>6, <1>7 DEF IndInv, Safety

\* A request buffer is released by XATMI, its object has no destructor.
LEMMA svc_begin_keeps ==
    ASSUME IndInv, NEW t \in Threads, NEW p \in Ptrs, NEW ty \in Types, NEW o \in Objs,
           svc_begin(t, p, ty, o)
    PROVE  IndInv'
<1>1. TypeOK'
  BY BufferAssumption DEF IndInv, TypeOK, svc_begin, translate, IsFree, Calls,
     Dispatches
<1>2. SingleDestructor' /\ DestructorSafe' /\ NoDanglingUse' /\ NoLeak'
  BY BufferAssumption DEF IndInv, Safety, TypeOK, SingleDestructor, DestructorSafe,
     NoDanglingUse, NoLeak, svc_begin, translate, IsFree, Calls, Dispatches, Held,
     Pinned
<1>3. HeapInv' /\ LostInv'
  BY BufferAssumption DEF IndInv, TypeOK, HeapInv, LostInv, svc_begin, translate,
     IsFree, Calls, Dispatches
<1>4. CallRemembers'
  BY BufferAssumption DEF IndInv, Safety, TypeOK, NoDanglingUse, CallRemembers, RefInv,
     svc_begin, translate, IsFree, Held, Pinned, Calls, Dispatches
<1>5. CallNoInput' /\ CallExclusive' /\ UnsolNested' /\ UnsolOwned' /\ CallNotUnsol' /\
     RefInv'
  BY BufferAssumption DEF IndInv, TypeOK, CallNoInput, CallExclusive, UnsolNested,
     UnsolOwned, CallNotUnsol, RefInv, svc_begin, translate, IsFree, Calls, Dispatches
<1>6. DispatchUse'
  BY BufferAssumption DEF IndInv, Safety, TypeOK, NoDanglingUse, HeapInv,
     CallRemembers, DispatchUse, svc_begin, translate, IsFree, Held, Pinned, Calls,
     Dispatches
<1> QED
  BY <1>1, <1>2, <1>3, <1>4, <1>5, <1>6 DEF IndInv, Safety

\* An unsolicited buffer is released by XATMI, its object has no destructor.
LEMMA unsol_begin_keeps ==
    ASSUME IndInv, NEW t \in Threads, NEW p \in Ptrs, NEW ty \in Types, NEW o \in Objs,
           unsol_begin(t, p, ty, o)
    PROVE  IndInv'
<1>1. TypeOK'
  BY BufferAssumption DEF IndInv, TypeOK, unsol_begin, translate, Returning, IsFree,
     Calls, Dispatches
<1>a. /\ call' = call /\ lost' = lost /\ IsFree(p) /\ obj' = obj \cup {o} /\ o \notin obj
      /\ obj \subseteq Objs /\ p # Null /\ p \notin lost
      /\ cPtr'[o] = p /\ ~doFinalize'[o]
      /\ \A x \in obj : /\ cPtr'[x] = cPtr[x] /\ doFinalize'[x] = doFinalize[x]
                        /\ user'[x] = user[x] /\ cPtr[x] \in Ptrs \cup {Null}
  <2>1. p # Null
    BY BufferAssumption, Zenon
  <2>2. IsFree(p) /\ p \notin lost
    BY Zenon DEF IndInv, HeapInv, unsol_begin
  <2> QED BY <2>1, <2>2, Zenon DEF IndInv, TypeOK, unsol_begin, translate
<1>b. /\ ctype'[p] # NoType /\ xatmi'[p] = "unsol"
      /\ \A r \in Ptrs : r # p => ctype'[r] = ctype[r] /\ xatmi'[r] = xatmi[r]
  <2>1. ty # NoType
    BY BufferAssumption, Zenon
  <2> QED BY <2>1, Zenon DEF IndInv, TypeOK, unsol_begin
<1>c. xatmi'[p] # "none"
  BY <1>b
<1>2. SingleDestructor' /\ DestructorSafe' /\ NoDanglingUse' /\ NoLeak'
  <2>0. \A x \in obj' : doFinalize'[x] =>
            x \in obj /\ doFinalize[x] /\ cPtr'[x] = cPtr[x]
    BY <1>a, Zenon
  <2>1. SingleDestructor'
    <3>1. ASSUME NEW x \in obj', NEW y \in obj', doFinalize'[x], doFinalize'[y],
                 cPtr'[x] = cPtr'[y], cPtr'[x] # Null
          PROVE  x = y
      <4>1. /\ x \in obj /\ doFinalize[x] /\ y \in obj /\ doFinalize[y]
            /\ cPtr[x] = cPtr[y] /\ cPtr[x] # Null
        BY <2>0, <3>1, Zenon
      <4> QED BY <4>1, Zenon DEF IndInv, Safety, SingleDestructor
    <3> QED BY <3>1, Zenon DEF SingleDestructor
  <2>2. DestructorSafe'
    <3>1. ASSUME NEW x \in obj, doFinalize[x], cPtr[x] # Null
          PROVE  ctype'[cPtr[x]] # NoType /\ xatmi'[cPtr[x]] = "none"
      <4>1. cPtr[x] \in Ptrs /\ ~IsFree(cPtr[x]) /\ xatmi[cPtr[x]] = "none"
        BY <1>a, <3>1, Zenon DEF IndInv, Safety, DestructorSafe
      <4>2. cPtr[x] # p
        BY <1>a, <4>1, Zenon
      <4> QED BY <1>b, <4>1, <4>2, Zenon DEF IsFree
    <3> QED BY <2>0, <3>1, Zenon DEF DestructorSafe, IsFree
  <2>3. NoDanglingUse'
    <3>1. ASSUME NEW x \in obj, Held(x)', cPtr[x] # Null
          PROVE  /\ Held(x) /\ cPtr[x] \in Ptrs /\ ~IsFree(cPtr[x]) /\ cPtr[x] # p
                 /\ doFinalize[x] <=> xatmi[cPtr[x]] = "none"
      <4>1. Held(x)
        BY <1>a, <3>1, Zenon DEF Held, Pinned
      <4>2. ~IsFree(cPtr[x]) /\ (doFinalize[x] <=> xatmi[cPtr[x]] = "none")
        BY <3>1, <4>1, Zenon DEF IndInv, Safety, NoDanglingUse
      <4> QED BY <1>a, <3>1, <4>1, <4>2, Zenon
    <3>2. SUFFICES ASSUME NEW x \in obj', Held(x)', cPtr'[x] # Null
                   PROVE  /\ ctype'[cPtr'[x]] # NoType
                          /\ doFinalize'[x] <=> xatmi'[cPtr'[x]] = "none"
                          /\ \A y \in obj' : Held(y)' /\ cPtr'[y] = cPtr'[x] => y = x
      BY Zenon DEF NoDanglingUse, IsFree
    <3>3. CASE x = o
      <4>1. \A y \in obj : Held(y)' => cPtr'[y] # p
        BY <1>a, <3>1, Zenon
      <4> QED BY <1>a, <1>b, <1>c, <3>3, <4>1, Zenon
    <3>4. CASE x # o
      <4>1. /\ x \in obj /\ cPtr'[x] = cPtr[x] /\ doFinalize'[x] = doFinalize[x]
            /\ cPtr[x] # Null
        BY <1>a, <3>2, <3>4, Zenon
      <4>2. /\ Held(x) /\ cPtr[x] \in Ptrs /\ ~IsFree(cPtr[x]) /\ cPtr[x] # p
            /\ doFinalize[x] <=> xatmi[cPtr[x]] = "none"
        BY <3>1, <3>2, <4>1, Zenon
      <4>3. ctype'[cPtr[x]] # NoType /\ xatmi'[cPtr[x]] = xatmi[cPtr[x]]
        BY <1>b, <4>2, Zenon DEF IsFree
      <4>4. ASSUME NEW y \in obj', Held(y)', cPtr'[y] = cPtr[x] PROVE y = x
        <5>1. y \in obj /\ cPtr[y] = cPtr[x]
          BY <1>a, <4>2, <4>4, Zenon
        <5>2. Held(y)
          BY <3>1, <4>1, <4>4, <5>1, Zenon
        <5> QED BY <4>1, <4>2, <5>1, <5>2, Zenon DEF IndInv, Safety, NoDanglingUse
      <4> QED BY <4>1, <4>2, <4>3, <4>4, Zenon
    <3> QED BY <3>3, <3>4, Zenon
  <2>4. NoLeak'
    <3>1. ASSUME NEW r \in Ptrs, ctype'[r] # NoType, xatmi'[r] = "none", r \notin lost
          PROVE  \E x \in obj' : doFinalize'[x] /\ cPtr'[x] = r
      <4>1. ctype[r] # NoType /\ xatmi[r] = "none"
        BY <1>b, <1>c, <3>1, Zenon
      <4>2. PICK x \in obj : doFinalize[x] /\ cPtr[x] = r
        BY <3>1, <4>1, Zenon DEF IndInv, Safety, NoLeak, IsFree
      <4> QED BY <1>a, <4>2, Zenon
    <3> QED BY <1>a, <3>1, Zenon DEF NoLeak, IsFree
  <2> QED BY <2>1, <2>2, <2>3, <2>4, Zenon
<1>3. HeapInv' /\ LostInv'
  BY BufferAssumption DEF IndInv, TypeOK, HeapInv, LostInv, unsol_begin, translate,
     Returning, IsFree, Calls, Dispatches
<1>4. CallRemembers'
  BY BufferAssumption, SMTT(30), Zenon DEF IndInv, Safety, TypeOK, SingleDestructor, DestructorSafe,
     NoDanglingUse, HeapInv, CallRemembers, CallNoInput, CallExclusive, RefInv,
     unsol_begin, translate, Returning, IsFree, Held, Pinned, Calls, Dispatches
<1>5. CallNoInput' /\ CallExclusive' /\ UnsolNested' /\ UnsolOwned' /\ RefInv'
  BY BufferAssumption DEF IndInv, TypeOK, CallNoInput, CallExclusive, UnsolNested,
     UnsolOwned, RefInv, unsol_begin, translate, Returning, IsFree, Calls, Dispatches
<1>6. CallNotUnsol'
  <2>1. ASSUME NEW u \in Threads, call[u].obj # NoObj
        PROVE  call[u].ptr \in Ptrs /\ call[u].ptr # p /\ xatmi[call[u].ptr] # "unsol"
    BY <2>1, CallInputHeld, ZenonT(30) DEF IndInv, CallNotUnsol, unsol_begin
  <2> QED
    BY <2>1, SMTT(30), Zenon DEF IndInv, TypeOK, CallNotUnsol, unsol_begin
<1>7. DispatchUse'
  <2>1. SUFFICES ASSUME NEW x \in obj', NEW u \in Threads, Held(x)', cPtr'[x] # Null,
                        xatmi'[cPtr'[x]] # "none", disp'[cPtr'[x]] = u
                 PROVE  user'[x] = u \/ call'[u].obj = x
    BY Zenon DEF DispatchUse
  <2>2. /\ call' = call /\ IsFree(p) /\ obj' = obj \cup {o} /\ o \notin obj
        /\ cPtr'[o] = p /\ user'[o] = t /\ disp'[p] = t
        /\ \A y \in obj : cPtr'[y] = cPtr[y] /\ user'[y] = user[y]
    BY Zenon DEF IndInv, TypeOK, unsol_begin, translate
  <2>3. CASE x = o
    BY <2>1, <2>2, <2>3, Zenon
  <2>4. CASE x # o
    <3>1. x \in obj /\ cPtr'[x] = cPtr[x] /\ user'[x] = user[x]
      BY <2>2, <2>4, Zenon
    <3>2. Held(x)
      BY <2>1, <2>2, <3>1, Zenon DEF Held, Pinned
    <3>3. cPtr[x] \in Ptrs /\ cPtr[x] # p
      BY <2>1, <2>2, <3>1, <3>2, Zenon DEF IndInv, TypeOK, Safety, NoDanglingUse
    <3>4. xatmi'[cPtr[x]] = xatmi[cPtr[x]] /\ disp'[cPtr[x]] = disp[cPtr[x]]
      BY <3>3, Zenon DEF IndInv, TypeOK, unsol_begin
    <3> QED BY <2>1, <2>2, <3>1, <3>2, <3>4, Zenon DEF IndInv, DispatchUse
  <2> QED BY <2>3, <2>4, Zenon
<1> QED
  BY <1>1, <1>2, <1>3, <1>4, <1>5, <1>6, <1>7 DEF IndInv, Safety

\* XATMI releases the unsolicited buffer when the callback returns.
LEMMA unsol_end_keeps ==
    ASSUME IndInv, NEW t \in Threads, unsol_end(t)
    PROVE  IndInv'
<1>1. TypeOK'
  BY BufferAssumption DEF IndInv, TypeOK, unsol_end, Released, Forget, OwnedBy, Calls,
     Dispatches
<1>a. /\ call' = call /\ obj' = obj /\ cPtr' = cPtr /\ doFinalize' = doFinalize /\ lost' = lost
      /\ obj \subseteq Objs /\ cPtr \in [Objs -> Ptrs \cup {Null}]
  BY Zenon DEF IndInv, TypeOK, unsol_end
<1>b. /\ \A r \in Ptrs : r \in OwnedBy(t, "unsol") =>
              IsFree(r)' /\ xatmi'[r] = "none" /\ xatmi[r] = "unsol" /\ disp[r] = t
      /\ \A r \in Ptrs : r \notin OwnedBy(t, "unsol") =>
              ctype'[r] = ctype[r] /\ xatmi'[r] = xatmi[r] /\ disp'[r] = disp[r]
  <2>1. Released(OwnedBy(t, "unsol"))
    BY Zenon DEF unsol_end
  <2>2. \A r \in OwnedBy(t, "unsol") : xatmi[r] = "unsol" /\ disp[r] = t
    BY Zenon DEF OwnedBy
  <2> QED BY <2>1, <2>2, Zenon DEF Released, IsFree
\* An object still in use afterwards was in use before, and its buffer is not
\* one that is released.
<1>c. ASSUME NEW x \in obj, Held(x)', cPtr[x] # Null
      PROVE  /\ Held(x) /\ x \in Objs /\ cPtr[x] \in Ptrs /\ user'[x] = user[x]
             /\ cPtr[x] \notin OwnedBy(t, "unsol")
  <2>1. x \in Objs /\ cPtr[x] \in Ptrs
    BY <1>a, <1>c, Zenon
  <2>2. user'[x] = IF cPtr[x] \in OwnedBy(t, "unsol") THEN NoThread ELSE user[x]
    BY <2>1, Zenon DEF unsol_end, Forget
  <2>3. cPtr[x] \notin OwnedBy(t, "unsol")
    <3>1. SUFFICES ASSUME cPtr[x] \in OwnedBy(t, "unsol") PROVE FALSE
      OBVIOUS
    <3>2. Pinned(x)
      BY <1>a, <1>c, <2>2, <3>1, Zenon DEF Held, Pinned
    <3>3. PICK u \in Threads : call[u].obj = x
      BY <3>2, Zenon DEF Pinned
    <3>4. xatmi[cPtr[x]] = "unsol"
      BY <1>b, <2>1, <3>1, Zenon
    <3>5. call[u].obj # NoObj
      BY <2>1, <3>3, BufferAssumption, Zenon
    <3>6. call[u].ptr = cPtr[x]
      BY <3>3, <3>5, Zenon DEF IndInv, CallRemembers
    <3> QED BY <3>4, <3>5, <3>6, Zenon DEF IndInv, CallNotUnsol
  <2> QED BY <1>a, <1>c, <2>1, <2>2, <2>3, Zenon DEF Held, Pinned
<1>2. SingleDestructor' /\ DestructorSafe' /\ NoLeak'
  <2>0. \A r \in Ptrs : xatmi[r] = "none" => r \notin OwnedBy(t, "unsol")
    <3>1. "none" # "unsol"
      OBVIOUS
    <3> QED BY <3>1, Zenon DEF OwnedBy
  <2>1. SingleDestructor'
    BY <1>a, Zenon DEF IndInv, Safety, SingleDestructor
  <2>2. DestructorSafe'
    <3>1. ASSUME NEW x \in obj, doFinalize[x], cPtr[x] # Null
          PROVE  ctype'[cPtr[x]] # NoType /\ xatmi'[cPtr[x]] = "none"
      <4>1. cPtr[x] \in Ptrs /\ ctype[cPtr[x]] # NoType /\ xatmi[cPtr[x]] = "none"
        BY <1>a, <3>1, Zenon DEF IndInv, Safety, DestructorSafe, IsFree
      <4> QED BY <1>b, <2>0, <4>1, Zenon
    <3> QED BY <1>a, <3>1, Zenon DEF DestructorSafe, IsFree
  <2>3. NoLeak'
    <3>1. ASSUME NEW r \in Ptrs, ctype'[r] # NoType, xatmi'[r] = "none", r \notin lost
          PROVE  \E x \in obj : doFinalize[x] /\ cPtr[x] = r
      <4>1. ctype[r] # NoType /\ xatmi[r] = "none"
        BY <1>b, <3>1, Zenon DEF IsFree
      <4> QED BY <3>1, <4>1, Zenon DEF IndInv, Safety, NoLeak, IsFree
    <3> QED BY <1>a, <3>1, Zenon DEF NoLeak, IsFree
  <2> QED BY <2>1, <2>2, <2>3, Zenon
<1>3. NoDanglingUse'
  <2>1. SUFFICES ASSUME NEW x \in obj, Held(x)', cPtr[x] # Null
                 PROVE  /\ ctype'[cPtr[x]] # NoType
                        /\ doFinalize[x] <=> xatmi'[cPtr[x]] = "none"
                        /\ \A y \in obj : Held(y)' /\ cPtr[y] = cPtr[x] => y = x
    BY <1>a, Zenon DEF NoDanglingUse, IsFree
  <2>2. Held(x) /\ ctype'[cPtr[x]] = ctype[cPtr[x]] /\ xatmi'[cPtr[x]] = xatmi[cPtr[x]]
    BY <1>b, <1>c, <2>1, Zenon
  <2>3. \A y \in obj : Held(y)' /\ cPtr[y] = cPtr[x] => Held(y)
    BY <1>c, <2>1, Zenon
  <2> QED BY <2>1, <2>2, <2>3, Zenon DEF IndInv, Safety, NoDanglingUse, IsFree
<1>4. HeapInv' /\ LostInv' /\ DispatchUse'
  <2>1. HeapInv'
    <3>1. ASSUME NEW r \in Ptrs
          PROVE  /\ IsFree(r)' => xatmi'[r] = "none" /\ r \notin lost
                 /\ r \in lost => xatmi'[r] = "none"
                 /\ xatmi'[r] # "none" => disp'[r] \in Threads
      <4>0. /\ IsFree(r) => xatmi[r] = "none" /\ r \notin lost
            /\ r \in lost => xatmi[r] = "none"
            /\ xatmi[r] # "none" => disp[r] \in Threads
        BY Zenon DEF IndInv, HeapInv
      <4>1. CASE r \in OwnedBy(t, "unsol")
        <5>1. xatmi'[r] = "none" /\ xatmi[r] = "unsol"
          BY <1>b, <4>1, Zenon
        <5>2. xatmi[r] # "none"
          BY <5>1
        <5> QED BY <4>0, <5>1, <5>2, Zenon
      <4>2. CASE r \notin OwnedBy(t, "unsol")
        BY <1>b, <4>0, <4>2, Zenon DEF IsFree
      <4> QED BY <4>1, <4>2, Zenon
    <3> QED BY <1>a, <3>1, Zenon DEF HeapInv
  <2>2. LostInv'
    BY <1>a, Zenon DEF IndInv, LostInv
  <2>3. DispatchUse'
    <3>1. SUFFICES ASSUME NEW x \in obj, NEW u \in Threads, Held(x)', cPtr[x] # Null,
                          xatmi'[cPtr[x]] # "none", disp'[cPtr[x]] = u
                   PROVE  user'[x] = u \/ call[u].obj = x
      BY <1>a, Zenon DEF DispatchUse
    <3>2. /\ Held(x) /\ user'[x] = user[x]
          /\ xatmi'[cPtr[x]] = xatmi[cPtr[x]] /\ disp'[cPtr[x]] = disp[cPtr[x]]
      BY <1>b, <1>c, <3>1, Zenon
    <3> QED BY <3>1, <3>2, Zenon DEF IndInv, DispatchUse
  <2> QED BY <2>1, <2>2, <2>3, Zenon
<1>5. CallRemembers'
  BY BufferAssumption DEF IndInv, Safety, TypeOK, SingleDestructor, DestructorSafe,
     NoDanglingUse, NoLeak, HeapInv, LostInv, CallRemembers, CallNoInput,
     CallExclusive, UnsolNested, UnsolOwned, CallNotUnsol, DispatchUse, RefInv,
     unsol_end, Released, Forget, OwnedBy, Held, Pinned, IsFree, Calls, Dispatches
<1>6. CallNoInput' /\ CallExclusive' /\ UnsolNested' /\ UnsolOwned' /\ RefInv'
  BY BufferAssumption DEF IndInv, TypeOK, CallNoInput, CallExclusive, UnsolNested,
     UnsolOwned, RefInv, unsol_end, Released, Forget, OwnedBy, Calls, Dispatches
<1>7. CallNotUnsol'
  BY BufferAssumption DEF IndInv, TypeOK, HeapInv, CallRemembers, CallNotUnsol,
     unsol_end, Released, Forget, OwnedBy, IsFree, Calls, Dispatches
<1> QED
  BY <1>1, <1>2, <1>3, <1>4, <1>5, <1>6, <1>7 DEF IndInv, Safety

\* cleanup() releases the buffer of an object in use and clears its address.
LEMMA cleanup_keeps ==
    ASSUME IndInv, NEW t \in Threads, NEW o \in Objs, cleanup(t, o)
    PROVE  IndInv'
<1>1. TypeOK'
  BY BufferAssumption, SMTT(30), Zenon DEF IndInv, TypeOK, cleanup, Released, Destructed,
     Uses, Running,
     Calls, Dispatches
<1>2. SingleDestructor' /\ NoDanglingUse' /\ NoLeak'
  <2>1. SingleDestructor'
    BY BufferAssumption, SMTT(30) DEF IndInv, Safety, TypeOK, SingleDestructor, cleanup,
       Destructed, Uses
  <2>2. NoDanglingUse'
    BY BufferAssumption, SMTT(30) DEF IndInv, Safety, TypeOK, NoDanglingUse, cleanup,
       Released, Destructed, Uses, Held, Pinned, IsFree
  <2>3. NoLeak'
    BY BufferAssumption, SMTT(30) DEF IndInv, Safety, TypeOK, NoLeak, cleanup, Released,
       Destructed, Uses, IsFree
  <2> QED BY <2>1, <2>2, <2>3, Zenon
<1>3. DestructorSafe'
  BY BufferAssumption, SMTT(30) DEF IndInv, Safety, TypeOK, SingleDestructor, DestructorSafe,
     NoDanglingUse, HeapInv, cleanup, Released, Destructed, Uses, Running, Held,
     Pinned, IsFree, Calls, Dispatches
<1>4. HeapInv'
  BY BufferAssumption DEF IndInv, Safety, TypeOK, DestructorSafe, NoDanglingUse,
     HeapInv, LostInv, cleanup, Released, Destructed, Uses, Running, Held, Pinned,
     IsFree, Calls, Dispatches
<1>5. LostInv' /\ DispatchUse'
  BY BufferAssumption, SMTT(30), Zenon DEF IndInv, TypeOK, LostInv, DispatchUse, cleanup,
     Released,
     Destructed, Uses, Running, Calls, Dispatches, Held, Pinned
<1>6. CallRemembers'
  BY BufferAssumption DEF IndInv, Safety, TypeOK, NoDanglingUse, CallRemembers, RefInv,
     cleanup, Released, Destructed, Uses, Running, Held, Pinned, IsFree, Calls,
     Dispatches
<1>7. CallNoInput' /\ CallExclusive' /\ UnsolNested' /\ UnsolOwned' /\ RefInv'
  BY BufferAssumption, SMTT(30), Zenon DEF IndInv, TypeOK, CallNoInput, CallExclusive,
     UnsolNested,
     UnsolOwned, RefInv, cleanup, Released, Destructed, Uses, Running, Calls,
     Dispatches
<1>8. CallNotUnsol'
  BY BufferAssumption DEF IndInv, TypeOK, HeapInv, CallRemembers, CallNotUnsol,
     cleanup, Released, Destructed, Uses, Running, IsFree, Calls, Dispatches
<1> QED
  BY <1>1, <1>2, <1>3, <1>4, <1>5, <1>6, <1>7, <1>8 DEF IndInv, Safety

\* A dropped object keeps its destructor.
LEMMA Drop_keeps ==
    ASSUME IndInv, NEW t \in Threads, NEW o \in Objs, Drop(t, o)
    PROVE  IndInv'
<1>1. TypeOK'
  BY BufferAssumption, SMTT(30), Zenon DEF IndInv, TypeOK, Drop, heap, Uses, Running, Calls,
     Dispatches
<1>2. SingleDestructor' /\ DestructorSafe' /\ NoDanglingUse' /\ NoLeak'
  BY BufferAssumption DEF IndInv, Safety, TypeOK, SingleDestructor, DestructorSafe,
     NoDanglingUse, NoLeak, Drop, heap, Uses, Running, Calls, Dispatches, IsFree, Held,
     Pinned
<1>3. HeapInv' /\ LostInv'
  BY BufferAssumption, SMTT(30), Zenon DEF IndInv, TypeOK, HeapInv, LostInv, Drop, heap, Uses,
     Running,
     IsFree, Calls, Dispatches
<1>4. CallRemembers' /\ CallNoInput' /\ CallExclusive' /\ UnsolNested' /\
     UnsolOwned' /\ CallNotUnsol' /\ RefInv'
  BY BufferAssumption, SMTT(30), Zenon DEF IndInv, TypeOK, CallRemembers, CallNoInput,
     CallExclusive,
     UnsolNested, UnsolOwned, CallNotUnsol, RefInv, Drop, heap, Uses, Running, Calls,
     Dispatches
<1>5. DispatchUse'
  BY BufferAssumption, SMTT(30), Zenon DEF IndInv, Safety, TypeOK, NoDanglingUse, HeapInv,
     CallRemembers, DispatchUse, Drop, heap, Uses, Running, Held, Pinned, IsFree,
     Calls, Dispatches
<1> QED
  BY <1>1, <1>2, <1>3, <1>4, <1>5 DEF IndInv, Safety

\* The buffer that the collector releases is not the one of an object in use.
LEMMA FinalizedAlone ==
    ASSUME IndInv, NEW o \in Objs, finalize(o), NEW x \in obj, Held(x), cPtr[x] # Null
    PROVE  x \in Objs /\ x # o /\ cPtr[x] \in Ptrs \ Destructed(o)
<1>1. o \in obj /\ x # o
  BY DEF finalize
<1>2. x \in Objs /\ cPtr[x] \in Ptrs
  BY DEF IndInv, TypeOK
<1>3. ASSUME doFinalize[o], cPtr[o] = cPtr[x] PROVE FALSE
  <2>1. xatmi[cPtr[x]] = "none"
    BY <1>1, <1>3 DEF IndInv, Safety, DestructorSafe
  <2>2. doFinalize[x]
    BY <2>1 DEF IndInv, Safety, NoDanglingUse
  <2> QED
    BY <1>1, <1>3, <2>2 DEF IndInv, Safety, SingleDestructor
<1> QED
  BY <1>1, <1>2, <1>3 DEF Destructed

\* What the collector changes.
LEMMA FinalizeChanges ==
    ASSUME IndInv, NEW o \in Objs, finalize(o)
    PROVE  /\ obj' = obj \ {o} /\ user' = user /\ call' = call
           /\ \A x \in Objs \ {o} : cPtr'[x] = cPtr[x] /\ doFinalize'[x] = doFinalize[x]
           /\ \A r \in Ptrs \ Destructed(o) :
                 ctype'[r] = ctype[r] /\ xatmi'[r] = xatmi[r] /\ disp'[r] = disp[r]
<1>1. obj' = obj \ {o} /\ user' = user /\ call' = call
  BY DEF finalize
<1>2. \A x \in Objs \ {o} : cPtr'[x] = cPtr[x] /\ doFinalize'[x] = doFinalize[x]
  BY Zenon DEF IndInv, TypeOK, finalize
<1>3. \A r \in Ptrs \ Destructed(o) :
          ctype'[r] = ctype[r] /\ xatmi'[r] = xatmi[r] /\ disp'[r] = disp[r]
  BY DEF finalize, Released
<1> QED
  BY <1>1, <1>2, <1>3

\* The collector runs the destructor of an object nobody holds.
LEMMA finalize_keeps ==
    ASSUME IndInv, NEW o \in Objs, finalize(o)
    PROVE  IndInv'
<1>1. TypeOK'
  BY BufferAssumption DEF IndInv, TypeOK, finalize, Released, Destructed, Held, Pinned,
     Calls, Dispatches
<1>2. SingleDestructor' /\ NoLeak'
  BY BufferAssumption, SMTT(30), Zenon DEF IndInv, Safety, TypeOK, SingleDestructor, NoLeak,
     finalize,
     Released, Destructed, Held, Pinned, Calls, Dispatches, IsFree
<1>3. DestructorSafe'
  BY BufferAssumption, SMTT(30), Zenon DEF IndInv, Safety, TypeOK, SingleDestructor,
     DestructorSafe,
     NoDanglingUse, HeapInv, finalize, Released, Destructed, Held, Pinned, IsFree,
     Calls, Dispatches
<1>4. NoDanglingUse'
  <2>1. SUFFICES ASSUME NEW x \in obj', Held(x)', cPtr'[x] # Null
                 PROVE  /\ ctype'[cPtr'[x]] # NoType
                        /\ doFinalize'[x] <=> xatmi'[cPtr'[x]] = "none"
                        /\ \A y \in obj' : Held(y)' /\ cPtr'[y] = cPtr'[x] => y = x
    BY DEF NoDanglingUse, IsFree
  <2>2. ASSUME NEW y \in obj', Held(y)'
        PROVE  y \in obj /\ Held(y) /\ y \in Objs /\ y # o
    <3>1. y \in obj /\ y # o /\ user' = user /\ call' = call
      BY FinalizeChanges, SMTT(30), Zenon
    <3> QED
      BY <2>2, <3>1 DEF IndInv, TypeOK, Held, Pinned
  <2>3. \A y \in obj' : Held(y)' => Held(y) /\ cPtr'[y] = cPtr[y] /\ y \in obj
    BY <2>2, FinalizeChanges
  <2>4. /\ x \in obj /\ Held(x) /\ cPtr'[x] = cPtr[x] /\ doFinalize'[x] = doFinalize[x]
        /\ cPtr[x] # Null
    BY <2>1, <2>2, FinalizeChanges
  <2>5. /\ ctype[cPtr[x]] # NoType
        /\ doFinalize[x] <=> xatmi[cPtr[x]] = "none"
        /\ \A y \in obj : Held(y) /\ cPtr[y] = cPtr[x] => y = x
    BY <2>4 DEF IndInv, Safety, NoDanglingUse, IsFree
  <2>6. ctype'[cPtr[x]] = ctype[cPtr[x]] /\ xatmi'[cPtr[x]] = xatmi[cPtr[x]]
    BY <2>4, FinalizedAlone, FinalizeChanges
  <2>7. \A y \in obj' : Held(y)' /\ cPtr'[y] = cPtr'[x] => y = x
    BY <2>3, <2>4, <2>5
  <2> QED
    BY <2>4, <2>5, <2>6, <2>7, Zenon
<1>5. HeapInv'
  BY BufferAssumption, SMTT(30), Zenon DEF IndInv, Safety, TypeOK, DestructorSafe, NoDanglingUse,
     HeapInv, LostInv, finalize, Released, Destructed, Held, Pinned, IsFree, Calls,
     Dispatches
<1>6. LostInv' /\ DispatchUse'
  BY BufferAssumption, SMTT(30), Zenon DEF IndInv, TypeOK, LostInv, DispatchUse, finalize,
     Released,
     Destructed, Held, Pinned, Calls, Dispatches
<1>7. CallRemembers'
  <2>1. SUFFICES ASSUME NEW u \in Threads, call[u].obj # NoObj
                 PROVE  /\ call[u].busy /\ call[u].obj \in obj'
                        /\ user[call[u].obj] = NoThread
                        /\ call[u].ptr = cPtr'[call[u].obj] /\ call[u].ptr \in Ptrs
                        /\ call[u].type = ctype'[call[u].ptr]
    BY FinalizeChanges DEF CallRemembers
  <2>2. /\ call[u].busy /\ call[u].obj \in obj /\ user[call[u].obj] = NoThread
        /\ call[u].ptr = cPtr[call[u].obj] /\ call[u].ptr \in Ptrs
        /\ call[u].type = ctype[call[u].ptr]
    BY <2>1 DEF IndInv, CallRemembers
  <2>3. Held(call[u].obj) /\ cPtr[call[u].obj] # Null
    BY <2>1, <2>2, CallInputHeld, BufferAssumption
  <2>4. /\ call[u].obj \in Objs /\ call[u].obj # o
        /\ cPtr[call[u].obj] \in Ptrs \ Destructed(o)
    BY <2>2, <2>3, FinalizedAlone
  <2>5. /\ call[u].obj \in obj' /\ cPtr'[call[u].obj] = cPtr[call[u].obj]
        /\ ctype'[call[u].ptr] = ctype[call[u].ptr]
    BY <2>2, <2>4, FinalizeChanges
  <2> QED
    BY <2>2, <2>5
<1>8. CallNoInput' /\ CallExclusive' /\ UnsolNested' /\ UnsolOwned' /\ RefInv'
  BY BufferAssumption DEF IndInv, TypeOK, CallNoInput, CallExclusive, UnsolNested,
     UnsolOwned, RefInv, finalize, Released, Destructed, Held, Pinned, Calls,
     Dispatches
<1>9. CallNotUnsol'
  BY BufferAssumption DEF IndInv, TypeOK, HeapInv, CallRemembers, CallNotUnsol,
     finalize, Released, Destructed, Held, Pinned, IsFree, Calls, Dispatches
<1> QED
  BY <1>1, <1>2, <1>3, <1>4, <1>5, <1>6, <1>7, <1>8,
     <1>9 DEF IndInv, Safety

-----------------------------------------------------------------------------
(* A reply that is not the input buffer keeps the invariant. *)

\* The destructor moves from the input object to the new one.
LEMMA result_other_keeps ==
    ASSUME IndInv, NEW t \in Threads, NEW p \in Ptrs, NEW ty \in Types, NEW o \in Objs,
           result_other(t, p, ty, o)
    PROVE  IndInv'
<1>1. TypeOK'
  <2>1. ctype' \in [Ptrs -> Types \cup {NoType}] /\ xatmi' \in [Ptrs -> Dispatches] /\ disp' \in [Ptrs -> Threads \cup {NoThread}]
    BY BufferAssumption, CallInputHeld DEF IndInv, TypeOK, result_other, Replaced,
       Dispatches, CallNoInput
  <2>2. \A x \in Objs : doFinalize[x] \in BOOLEAN
    BY DEF IndInv, TypeOK
  <2>3. finalizeOrg(call[t].obj) \in BOOLEAN
    BY <2>2, Zenon DEF finalizeOrg, IndInv, TypeOK, Calls
  <2>4. doFinalize' \in [Objs -> BOOLEAN]
    BY <2>2, <2>3, ZenonT(30) DEF result_other
  <2> QED
    BY <2>1, <2>4, Zenon DEF IndInv, TypeOK, result_other, Returned, Idle, Calls
<1>0. /\ Reply(t, p, ty) /\ Replaced(call[t].ptr, p, ty) /\ Returned(t)
      /\ o \in Objs /\ o \notin obj /\ obj' = obj \cup {o}
      /\ lost' = lost /\ unsol' = unsol
  BY Zenon DEF result_other, Reply
<1>a. /\ cPtr'[o] = p /\ user'[o] = t /\ doFinalize'[o] = finalizeOrg(call[t].obj)
      /\ \A x \in obj : /\ x \in Objs /\ cPtr'[x] = cPtr[x] /\ user'[x] = user[x]
                        /\ doFinalize'[x] => doFinalize[x] /\ x # call[t].obj
  <2>1. /\ cPtr \in [Objs -> Ptrs \cup {Null}] /\ user \in [Objs -> Threads \cup {NoThread}]
        /\ obj \subseteq Objs
    BY Zenon DEF IndInv, TypeOK
  <2>2. cPtr'[o] = p /\ \A x \in obj : cPtr'[x] = cPtr[x]
    BY <1>0, <2>1, Zenon DEF result_other
  <2>3. user'[o] = t /\ \A x \in obj : user'[x] = user[x]
    BY <1>0, <2>1, Zenon DEF result_other
  <2>4. doFinalize'[o] = finalizeOrg(call[t].obj)
    BY <1>0, Zenon DEF result_other
  <2>5. ASSUME NEW x \in obj, doFinalize'[x] PROVE doFinalize[x] /\ x # call[t].obj
    <3>1. x \in Objs /\ x # o
      BY <1>0, <2>1, Zenon
    <3>2. doFinalize'[x] = IF x = call[t].obj THEN FALSE ELSE doFinalize[x]
      BY <3>1, Zenon DEF result_other
    <3> QED BY <2>5, <3>2, Zenon
  <2> QED BY <2>1, <2>2, <2>3, <2>4, <2>5, Zenon
<1>2. SingleDestructor'
  <2>1. ASSUME NEW x \in obj, doFinalize'[x], doFinalize'[o], cPtr'[x] = p
        PROVE  FALSE
    <3>1. doFinalize[x] /\ x # call[t].obj /\ cPtr[x] = p
      BY <1>a, <2>1, Zenon
    <3>2. cPtr[x] # Null
      BY <3>1, BufferAssumption, Zenon
    <3> QED BY <1>0, <3>1, <3>2, DestructorUntouched, Zenon
  <2>2. ASSUME NEW x \in obj, NEW y \in obj, doFinalize'[x], doFinalize'[y],
               cPtr'[x] = cPtr'[y], cPtr'[x] # Null
        PROVE  x = y
    BY <1>a, <2>2, Zenon DEF IndInv, Safety, SingleDestructor
  <2> QED BY <1>0, <1>a, <2>1, <2>2, Zenon DEF SingleDestructor
<1>3. DestructorSafe'
  <2>1. ~IsFree(p)' /\ (doFinalize'[o] => xatmi'[p] = "none")
    <3>1. Swapped(call[t].ptr, p)
      BY <1>0, ReplacedSwaps, Zenon
    <3>2. finalizeOrg(call[t].obj) => xatmi'[p] = "none"
      BY <1>0, OwnerPassed, Zenon
    <3> QED BY <1>a, <3>1, <3>2, Zenon DEF Swapped
  <2>2. ASSUME NEW x \in obj, doFinalize'[x], cPtr'[x] # Null
        PROVE  ctype'[cPtr'[x]] # NoType /\ xatmi'[cPtr'[x]] = "none"
    <3>1. doFinalize[x] /\ x # call[t].obj /\ cPtr'[x] = cPtr[x]
      BY <1>a, <2>2, Zenon
    <3>2. ctype'[cPtr[x]] # NoType /\ xatmi'[cPtr[x]] = "none"
      BY <1>0, <2>2, <3>1, DestructorUntouched, Zenon
    <3> QED BY <3>1, <3>2, Zenon
  <2> QED BY <1>0, <1>a, <2>1, <2>2, Zenon DEF DestructorSafe, IsFree
<1>4. NoDanglingUse'
  <2>1. SUFFICES ASSUME NEW x \in obj', Held(x)', cPtr'[x] # Null
                 PROVE  /\ ctype'[cPtr'[x]] # NoType
                        /\ doFinalize'[x] <=> xatmi'[cPtr'[x]] = "none"
                        /\ \A y \in obj' : Held(y)' /\ cPtr'[y] = cPtr'[x] => y = x
    BY Zenon DEF NoDanglingUse, IsFree
  <2>2. /\ obj' = obj \cup {o} /\ o \notin obj /\ Returned(t) /\ cPtr'[o] = p
        /\ \A y \in obj : user'[y] = user[y] /\ cPtr'[y] = cPtr[y]
    BY SMTT(30), Zenon DEF IndInv, TypeOK, result_other
  <2>3. p = call[t].ptr \/ IsFree(p)
    BY SMTT(30), Zenon DEF result_other, Replaced
  <2>4. ASSUME NEW y \in obj, Held(y)', cPtr[y] # Null
        PROVE  /\ Held(y) /\ y \in Objs /\ y # call[t].obj
               /\ cPtr[y] \in Ptrs /\ cPtr[y] # call[t].ptr /\ cPtr[y] # p
               /\ ~IsFree(cPtr[y])
               /\ doFinalize[y] <=> xatmi[cPtr[y]] = "none"
    <3>1. Returned(t) /\ user'[y] = user[y]
      BY <2>2, Zenon
    <3>2. /\ Held(y) /\ y \in Objs /\ y # call[t].obj
          /\ cPtr[y] \in Ptrs /\ cPtr[y] # call[t].ptr /\ ~IsFree(cPtr[y])
          /\ doFinalize[y] <=> xatmi[cPtr[y]] = "none"
      BY <2>4, <3>1, OtherHeld, Zenon
    <3>3. cPtr[y] # p
      BY <2>3, <3>2, ZenonT(30)
    <3> QED BY <3>2, <3>3, Zenon
  <2>5. CASE x = o
    <3>1. ctype'[p] = ty /\ ty # NoType
      BY BufferAssumption, Zenon DEF result_other, Replaced
    <3>2. doFinalize'[o] <=> xatmi'[p] = "none"
      <4>1. CASE call[t].obj = NoObj
        BY <4>1, Zenon DEF IndInv, CallNoInput, result_other, Replaced, finalizeOrg
      <4>2. CASE call[t].obj # NoObj
        <5>1. call[t].ptr # Null /\ (doFinalize[call[t].obj] <=> xatmi[call[t].ptr] = "none")
          BY <4>2, CallInputHeld, BufferAssumption, SMTT(30), Zenon
        <5>2. doFinalize'[o] = doFinalize[call[t].obj] /\ xatmi'[p] = xatmi[call[t].ptr]
          BY <4>2, <5>1 DEF result_other, Replaced, finalizeOrg
        <5> QED
          BY <5>1, <5>2, SMTT(30), Zenon
      <4> QED
        BY <4>1, <4>2
    <3>3. \A y \in obj : Held(y)' /\ cPtr'[y] = p => FALSE
      BY <2>2, <2>4, BufferAssumption, SMTT(30), Zenon
    <3> QED
      BY <2>2, <2>5, <3>1, <3>2, <3>3
  <2>6. CASE x # o
    <3>1. x \in obj /\ cPtr'[x] = cPtr[x]
      BY <2>2, <2>6
    <3>2. /\ x \in Objs /\ Held(x) /\ x # call[t].obj
          /\ cPtr[x] \in Ptrs /\ cPtr[x] # call[t].ptr /\ cPtr[x] # p
          /\ ~IsFree(cPtr[x]) /\ (doFinalize[x] <=> xatmi[cPtr[x]] = "none")
      BY <2>1, <2>4, <3>1, SMTT(30), Zenon
    <3>3. ctype'[cPtr[x]] # NoType /\ xatmi'[cPtr[x]] = xatmi[cPtr[x]] /\ doFinalize'[x] = doFinalize[x]
      BY <2>6, <3>2 DEF result_other, Replaced, IsFree
    <3>4. ASSUME NEW y \in obj', Held(y)', cPtr'[y] = cPtr[x]
          PROVE  y = x
      <4>1. y \in obj /\ cPtr[y] = cPtr[x]
        BY <2>2, <3>2, <3>4, Zenon
      <4>2. Held(y)
        BY <2>1, <2>4, <3>1, <3>4, <4>1, ZenonT(30)
      <4> QED
        BY <2>1, <3>1, <3>2, <4>1, <4>2, Zenon DEF IndInv, Safety, NoDanglingUse
    <3> QED
      BY <3>1, <3>2, <3>3, <3>4
  <2> QED
    BY <2>5, <2>6, Zenon
<1>5. NoLeak'
  <2>1. SUFFICES ASSUME NEW r \in Ptrs, ctype'[r] # NoType, xatmi'[r] = "none", r \notin lost'
                 PROVE  \E x \in obj' : doFinalize'[x] /\ cPtr'[x] = r
    BY DEF NoLeak, IsFree
  <2>2. CASE r = p
    <3>1. finalizeOrg(call[t].obj)
      <4>1. CASE call[t].obj = NoObj
        BY <4>1 DEF finalizeOrg
      <4>2. CASE call[t].obj # NoObj
        <5>1. call[t].ptr # Null /\ (doFinalize[call[t].obj] <=> xatmi[call[t].ptr] = "none")
          BY <4>2, CallInputHeld, BufferAssumption, SMTT(30), Zenon
        <5>2. xatmi'[p] = xatmi[call[t].ptr]
          BY <5>1 DEF result_other, Replaced
        <5> QED
          BY <2>1, <2>2, <4>2, <5>1, <5>2, SMTT(30), Zenon DEF finalizeOrg
      <4> QED
        BY <4>1, <4>2
    <3> QED
      BY <2>2, <3>1, Zenon DEF IndInv, TypeOK, result_other
  <2>3. CASE r # p
    <3>1. r # call[t].ptr /\ ctype[r] # NoType /\ xatmi[r] = "none" /\ r \notin lost
      BY <2>1, <2>3, SMTT(30), Zenon DEF result_other, Replaced
    <3>2. PICK x \in obj : doFinalize[x] /\ cPtr[x] = r
      BY <3>1, SMTT(30), Zenon DEF IndInv, Safety, NoLeak, IsFree
    <3>3. x # call[t].obj /\ x \in Objs
      <4>1. x \in Objs
        BY <1>a, <3>2, Zenon
      <4>2. x # NoObj
        BY <4>1, BufferAssumption, Zenon
      <4>3. ASSUME x = call[t].obj PROVE FALSE
        BY <3>1, <3>2, <4>2, <4>3, CallInputHeld, Zenon
      <4> QED BY <4>1, <4>3, Zenon
    <3> QED
      BY <3>2, <3>3, Zenon DEF IndInv, TypeOK, result_other
  <2> QED
    BY <2>2, <2>3, SMTT(30), Zenon
<1>6. HeapInv'
  BY <1>0, ReplyKeepsHeap, Zenon
<1>7. LostInv'
  <2>1. p \notin lost
    <3>1. CASE p = call[t].ptr
      BY <3>1, InputNotLost, Zenon
    <3>2. CASE IsFree(p)
      BY <3>2, Zenon DEF IndInv, HeapInv
    <3> QED BY <1>0, <3>1, <3>2, Zenon DEF Replaced
  <2>2. \A x \in obj : doFinalize'[x] => cPtr'[x] \notin lost
    BY <1>a, Zenon DEF IndInv, LostInv
  <2> QED BY <1>0, <1>a, <2>1, <2>2, Zenon DEF LostInv
<1>8. CallRemembers'
  <2>1. Returned(t) /\ Replaced(call[t].ptr, p, ty) /\ o \notin obj /\ obj' = obj \cup {o}
    BY Zenon DEF result_other
  <2>2. \A x \in obj : cPtr'[x] = cPtr[x] /\ user'[x] = user[x]
    BY <2>1, SMTT(30), Zenon DEF IndInv, TypeOK, result_other
  <2> QED BY <2>1, <2>2, OthersRemember, Zenon
<1>9. RefInv'
  <2>1. ASSUME NEW x \in Objs, x \notin obj' PROVE user'[x] = NoThread
    <3>1. x # o /\ x \notin obj
      BY <1>0, <2>1, Zenon
    <3>2. user'[x] = user[x]
      BY <3>1, Zenon DEF IndInv, TypeOK, result_other
    <3> QED BY <3>1, <3>2, Zenon DEF IndInv, RefInv
  <2> QED BY <2>1, Zenon DEF RefInv
<1>10. CallNoInput' /\ CallExclusive' /\ UnsolNested' /\ UnsolOwned' /\ CallNotUnsol'
  BY <1>0, ReplyKeepsCalls, Zenon
<1>11. DispatchUse'
  <2>1. SUFFICES ASSUME NEW x \in obj', NEW u \in Threads, Held(x)', cPtr'[x] # Null,
                        xatmi'[cPtr'[x]] # "none", disp'[cPtr'[x]] = u
                 PROVE  user'[x] = u \/ call'[u].obj = x
    BY DEF DispatchUse
  <2>2. CASE x = o
    <3>1. cPtr'[o] = p /\ user'[o] = t
      BY DEF IndInv, TypeOK, result_other
    <3>2. call[t].ptr # Null /\ xatmi[call[t].ptr] # "none" /\ disp[call[t].ptr] = u
      BY <2>1, <2>2, <3>1, Zenon DEF result_other, Replaced
    <3>3. call[t].obj # NoObj
      BY <3>2, Zenon DEF IndInv, CallNoInput
    <3>4. /\ call[t].obj \in obj /\ Held(call[t].obj)
          /\ cPtr[call[t].obj] = call[t].ptr /\ user[call[t].obj] = NoThread
      BY <3>3, CallInputHeld, Zenon DEF IndInv, CallRemembers
    <3>5. call[u].obj = call[t].obj
      BY <3>2, <3>4, BufferAssumption, ZenonT(30) DEF IndInv, DispatchUse
    <3> QED
      BY <2>2, <3>1, <3>3, <3>5 DEF IndInv, CallExclusive
  <2>3. CASE x # o
    <3>1. x \in obj /\ cPtr'[x] = cPtr[x] /\ user'[x] = user[x] /\ Returned(t)
      BY <2>3 DEF IndInv, TypeOK, result_other
    <3>2. /\ Held(x) /\ x \in Objs /\ x # call[t].obj
          /\ cPtr[x] \in Ptrs /\ cPtr[x] # call[t].ptr /\ ~IsFree(cPtr[x])
      BY <2>1, <3>1, OtherHeld, Zenon
    <3>3. xatmi[cPtr[x]] # "none" /\ disp[cPtr[x]] = u
      BY <2>1, <3>1, <3>2, Zenon DEF result_other, Replaced, IsFree
    <3>4. user[x] = u \/ call[u].obj = x
      BY <2>1, <3>1, <3>2, <3>3, Zenon DEF IndInv, DispatchUse
    <3> QED
      BY <3>1, <3>2, <3>4, Zenon DEF IndInv, TypeOK, Returned
  <2> QED
    BY <2>2, <2>3
<1> QED
  BY <1>1, <1>2, <1>3, <1>4, <1>5, <1>6, <1>7, <1>8,
     <1>9, <1>10, <1>11 DEF IndInv, Safety

\* The reply is dropped and the input object loses its destructor.
LEMMA result_unsupported_keeps ==
    ASSUME IndInv, NEW t \in Threads, NEW q \in Ptrs, NEW ty \in Types,
           result_unsupported(t, q, ty)
    PROVE  IndInv'
<1>1. TypeOK'
  <2>1. ctype' \in [Ptrs -> Types \cup {NoType}] /\ xatmi' \in [Ptrs -> Dispatches] /\ disp' \in [Ptrs -> Threads \cup {NoThread}]
    BY BufferAssumption, CallInputHeld DEF IndInv, TypeOK, result_unsupported,
       Replaced, Dispatches, CallNoInput
  <2>2. \A x \in Objs : doFinalize[x] \in BOOLEAN
    BY DEF IndInv, TypeOK
  <2>3. finalizeOrg(call[t].obj) \in BOOLEAN
    BY <2>2, Zenon DEF finalizeOrg, IndInv, TypeOK, Calls
  <2>4. doFinalize' \in [Objs -> BOOLEAN]
    BY <2>2, <2>3, Zenon DEF result_unsupported
  <2> QED
    BY <2>1, <2>4, ZenonT(30) DEF IndInv, TypeOK, result_unsupported, Returned, Idle, Calls
<1>0. /\ Reply(t, q, ty) /\ Replaced(call[t].ptr, q, ty) /\ Returned(t)
      /\ obj' = obj /\ cPtr' = cPtr /\ user' = user /\ unsol' = unsol
      /\ lost' = IF finalizeOrg(call[t].obj) THEN lost \cup {q} ELSE lost
  BY Zenon DEF result_unsupported, Reply
<1>a. \A x \in obj : doFinalize'[x] => doFinalize[x] /\ x # call[t].obj
  <2>1. SUFFICES ASSUME NEW x \in obj, doFinalize'[x]
                 PROVE  doFinalize[x] /\ x # call[t].obj
    BY Zenon
  <2>2. x \in Objs
    BY Zenon DEF IndInv, TypeOK
  <2>3. doFinalize'[x] = IF x = call[t].obj THEN FALSE ELSE doFinalize[x]
    BY <2>2, Zenon DEF result_unsupported
  <2> QED BY <2>1, <2>3, Zenon
<1>b. ASSUME NEW x \in obj, doFinalize[x], x # call[t].obj, cPtr[x] # Null
      PROVE  ctype'[cPtr[x]] # NoType /\ xatmi'[cPtr[x]] = "none" /\ cPtr[x] # q
  BY <1>0, <1>b, DestructorUntouched, ZenonT(30)
<1>2. SingleDestructor'
  BY <1>0, <1>a, Zenon DEF IndInv, Safety, SingleDestructor
<1>3. DestructorSafe'
  <2>1. ASSUME NEW x \in obj, doFinalize'[x], cPtr[x] # Null
        PROVE  ctype'[cPtr[x]] # NoType /\ xatmi'[cPtr[x]] = "none"
    <3>1. doFinalize[x] /\ x # call[t].obj
      BY <1>a, <2>1, Zenon
    <3> QED BY <1>b, <2>1, <3>1, Zenon
  <2> QED BY <1>0, <2>1, Zenon DEF DestructorSafe, IsFree
<1>4. NoDanglingUse'
  <2>1. SUFFICES ASSUME NEW x \in obj', Held(x)', cPtr'[x] # Null
                 PROVE  /\ ctype'[cPtr'[x]] # NoType
                        /\ doFinalize'[x] <=> xatmi'[cPtr'[x]] = "none"
                        /\ \A y \in obj' : Held(y)' /\ cPtr'[y] = cPtr'[x] => y = x
    BY Zenon DEF NoDanglingUse, IsFree
  <2>2. obj' = obj /\ cPtr' = cPtr /\ Returned(t) /\ \A y \in obj : user'[y] = user[y]
    BY DEF IndInv, TypeOK, result_unsupported
  <2>3. \A y \in obj : Held(y)' => Held(y)
    BY <2>2, OtherHeld, Zenon
  <2>4. /\ x \in Objs /\ x # call[t].obj /\ cPtr[x] \in Ptrs /\ cPtr[x] # call[t].ptr
        /\ ~IsFree(cPtr[x]) /\ (doFinalize[x] <=> xatmi[cPtr[x]] = "none")
    BY <2>1, <2>2, OtherHeld, Zenon
  <2>5. ctype'[cPtr[x]] # NoType /\ xatmi'[cPtr[x]] = xatmi[cPtr[x]] /\ doFinalize'[x] = doFinalize[x]
    BY <2>4, Zenon DEF result_unsupported, Replaced, IsFree
  <2>6. \A y \in obj : Held(y) /\ cPtr[y] = cPtr[x] => y = x
    BY <2>1, <2>2, <2>3, Zenon DEF IndInv, Safety, NoDanglingUse
  <2> QED
    BY <2>2, <2>3, <2>4, <2>5, <2>6, Zenon
<1>5. NoLeak'
  <2>1. SUFFICES ASSUME NEW r \in Ptrs, ctype'[r] # NoType, xatmi'[r] = "none", r \notin lost'
                 PROVE  \E x \in obj' : doFinalize'[x] /\ cPtr'[x] = r
    BY Zenon DEF NoLeak, IsFree
  <2>2. r # q
    <3>1. CASE call[t].obj = NoObj
      BY <2>1, <3>1, ZenonT(30) DEF result_unsupported, finalizeOrg
    <3>2. CASE call[t].obj # NoObj
      <4>1. call[t].ptr # Null /\ (doFinalize[call[t].obj] <=> xatmi[call[t].ptr] = "none")
        BY <3>2, CallInputHeld, BufferAssumption, ZenonT(30)
      <4>2. doFinalize[call[t].obj] => q \in lost'
        BY <3>2, Zenon DEF result_unsupported, finalizeOrg
      <4>3. xatmi'[q] = xatmi[call[t].ptr]
        BY <4>1, Zenon DEF result_unsupported, Replaced
      <4> QED
        BY <2>1, <4>1, <4>2, <4>3, Zenon
    <3> QED
      BY <3>1, <3>2, SMTT(30), Zenon
  <2>3. r # call[t].ptr /\ ctype[r] # NoType /\ xatmi[r] = "none" /\ r \notin lost
    BY <2>1, <2>2, Zenon DEF result_unsupported, Replaced
  <2>4. PICK x \in obj : doFinalize[x] /\ cPtr[x] = r
    BY <2>3, Zenon DEF IndInv, Safety, NoLeak, IsFree
  <2>5. x # call[t].obj /\ x \in Objs
    <3>1. x \in Objs
      BY <2>4, Zenon DEF IndInv, TypeOK
    <3>2. x # NoObj
      BY <3>1, BufferAssumption, Zenon
    <3>3. ASSUME x = call[t].obj PROVE FALSE
      BY <2>3, <2>4, <3>2, <3>3, CallInputHeld, Zenon
    <3> QED BY <3>1, <3>3, Zenon
  <2> QED
    BY <2>4, <2>5, Zenon DEF result_unsupported
<1>6. HeapInv'
  BY <1>0, ReplyKeepsHeap, Zenon
<1>7. LostInv'
  <2>1. SUFFICES ASSUME NEW x \in obj, doFinalize'[x] PROVE cPtr[x] \notin lost'
    BY <1>0, Zenon DEF LostInv
  <2>2. doFinalize[x] /\ x # call[t].obj
    BY <1>a, <2>1, Zenon
  <2>3. cPtr[x] \notin lost
    BY <2>2, Zenon DEF IndInv, LostInv
  <2>4. cPtr[x] # q
    <3>1. CASE cPtr[x] = Null
      BY <3>1, BufferAssumption, Zenon
    <3>2. CASE cPtr[x] # Null
      BY <1>b, <2>2, <3>2, Zenon
    <3> QED BY <3>1, <3>2, Zenon
  <2> QED BY <1>0, <2>3, <2>4, Zenon
<1>8. CallRemembers'
  <2>1. /\ Returned(t) /\ Replaced(call[t].ptr, q, ty) /\ obj' = obj
        /\ cPtr' = cPtr /\ user' = user
    BY Zenon DEF result_unsupported
  <2> QED BY <2>1, OthersRemember, Zenon
<1>9. RefInv'
  BY <1>0, Zenon DEF IndInv, RefInv
<1>10. CallNoInput' /\ CallExclusive' /\ UnsolNested' /\ UnsolOwned' /\ CallNotUnsol'
  BY <1>0, ReplyKeepsCalls, Zenon
<1>11. DispatchUse'
  <2>1. SUFFICES ASSUME NEW x \in obj', NEW u \in Threads, Held(x)', cPtr'[x] # Null,
                        xatmi'[cPtr'[x]] # "none", disp'[cPtr'[x]] = u
                 PROVE  user'[x] = u \/ call'[u].obj = x
    BY Zenon DEF DispatchUse
  <2>2. x \in obj /\ cPtr'[x] = cPtr[x] /\ user'[x] = user[x] /\ Returned(t)
    BY SMTT(30), Zenon DEF IndInv, TypeOK, result_unsupported
  <2>3. /\ Held(x) /\ x \in Objs /\ x # call[t].obj
        /\ cPtr[x] \in Ptrs /\ cPtr[x] # call[t].ptr /\ ~IsFree(cPtr[x])
    BY <2>1, <2>2, OtherHeld, ZenonT(30)
  <2>4. xatmi[cPtr[x]] # "none" /\ disp[cPtr[x]] = u
    <3>1. cPtr[x] # q
      BY <2>3, Zenon DEF result_unsupported, Replaced
    <3>2. xatmi'[cPtr[x]] = xatmi[cPtr[x]] /\ disp'[cPtr[x]] = disp[cPtr[x]]
      BY <2>3, <3>1, Zenon DEF result_unsupported, Replaced
    <3> QED BY <2>1, <2>2, <3>2, Zenon
  <2>5. user[x] = u \/ call[u].obj = x
    BY <2>1, <2>2, <2>3, <2>4, Zenon DEF IndInv, DispatchUse
  <2>6. CASE user[x] = u
    BY <2>2, <2>6, Zenon
  <2>7. CASE call[u].obj = x
    <3>1. u # t
      BY <2>3, <2>7
    <3> QED
      BY <2>2, <2>7, <3>1, OtherCall, SMTT(30), Zenon
  <2> QED
    BY <2>5, <2>6, <2>7, Zenon
<1> QED
  BY <1>1, <1>2, <1>3, <1>4, <1>5, <1>6, <1>7, <1>8,
     <1>9, <1>10, <1>11 DEF IndInv, Safety

-----------------------------------------------------------------------------
(* The remaining actions keep the invariant. *)

\* What result_same does: object i keeps its destructor and gets address q, which
\* takes over all that is known of the old address.
LEMMA SameStep ==
    ASSUME IndInv, NEW t \in Threads, NEW q \in Ptrs, result_same(t, q)
    PROVE  LET i == call[t].obj
               p == call[t].ptr
           IN  /\ i \in obj /\ i \in Objs /\ Held(i) /\ p \in Ptrs /\ cPtr[i] = p /\ ~IsFree(p)
               /\ doFinalize[i] <=> xatmi[p] = "none"
               /\ q = p \/ IsFree(q)
               /\ obj' = obj /\ doFinalize' = doFinalize /\ lost' = lost /\ Returned(t)
               /\ cPtr'[i] = q /\ user'[i] = t
               /\ \A x \in Objs \ {i} : cPtr'[x] = cPtr[x] /\ user'[x] = user[x]
<1>1. call[t].obj # NoObj
  BY Zenon DEF result_same
<1>2. /\ call[t].obj \in obj /\ Held(call[t].obj) /\ call[t].ptr \in Ptrs
      /\ cPtr[call[t].obj] = call[t].ptr /\ ~IsFree(call[t].ptr)
      /\ doFinalize[call[t].obj] <=> xatmi[call[t].ptr] = "none"
  BY <1>1, CallInputHeld, Zenon
<1>3. /\ call[t].obj \in Objs
      /\ cPtr \in [Objs -> Ptrs \cup {Null}] /\ user \in [Objs -> Threads \cup {NoThread}]
  BY <1>2, Zenon DEF IndInv, TypeOK
<1>4. /\ cPtr' = [cPtr EXCEPT ![call[t].obj] = q] /\ user' = [user EXCEPT ![call[t].obj] = t]
      /\ obj' = obj /\ doFinalize' = doFinalize /\ lost' = lost /\ Returned(t)
      /\ q = call[t].ptr \/ IsFree(q)
  BY Zenon DEF result_same, Replaced
<1>5. /\ cPtr'[call[t].obj] = q /\ user'[call[t].obj] = t
      /\ \A x \in Objs \ {call[t].obj} : cPtr'[x] = cPtr[x] /\ user'[x] = user[x]
  BY <1>3, <1>4, Zenon
<1> QED BY <1>2, <1>3, <1>4, <1>5, Zenon

\* The memory after result_same.
LEMMA SameMemory ==
    ASSUME IndInv, NEW t \in Threads, NEW q \in Ptrs, result_same(t, q)
    PROVE  LET p == call[t].ptr
           IN  /\ ctype'[q] = ctype[p] /\ xatmi'[q] = xatmi[p] /\ disp'[q] = disp[p]
               /\ q # p => ctype'[p] = NoType /\ xatmi'[p] = "none"
               /\ \A r \in Ptrs \ {p, q} :
                     ctype'[r] = ctype[r] /\ xatmi'[r] = xatmi[r] /\ disp'[r] = disp[r]
<1>0. call[t].ptr \in Ptrs
  BY SameStep, Zenon
<1>1. call[t].ptr \in Ptrs /\ call[t].ptr # Null
  BY <1>0, BufferAssumption, Zenon
<1>2. call[t].type = ctype[call[t].ptr]
  BY Zenon DEF IndInv, CallRemembers, result_same
<1> QED BY <1>1, <1>2, Zenon DEF result_same, Replaced

\* The objects other than the input that are in use after result_same.
LEMMA SameOthers ==
    ASSUME IndInv, NEW t \in Threads, NEW q \in Ptrs, result_same(t, q)
    PROVE  \A x \in obj : x # call[t].obj /\ Held(x)' /\ cPtr[x] # Null =>
               /\ Held(x) /\ cPtr'[x] = cPtr[x]
               /\ cPtr[x] \in Ptrs /\ cPtr[x] # call[t].ptr /\ cPtr[x] # q
               /\ ~IsFree(cPtr[x])
               /\ doFinalize[x] <=> xatmi[cPtr[x]] = "none"
<1> TAKE x \in obj
<1> HAVE x # call[t].obj /\ Held(x)' /\ cPtr[x] # Null
<1>1. x \in Objs
  BY ZenonT(30) DEF IndInv, TypeOK
<1>2. cPtr'[x] = cPtr[x] /\ user'[x] = user[x] /\ Returned(t) /\ (q = call[t].ptr \/ IsFree(q))
  BY <1>1, SameStep
<1>3. /\ Held(x) /\ cPtr[x] \in Ptrs /\ cPtr[x] # call[t].ptr /\ ~IsFree(cPtr[x])
      /\ doFinalize[x] <=> xatmi[cPtr[x]] = "none"
  BY <1>2, OtherHeld, Zenon
<1>4. cPtr[x] # q
  BY <1>2, <1>3, Zenon
<1> QED BY <1>2, <1>3, <1>4, ZenonT(30)

\* The reply replaces the buffer of the input object.
LEMMA result_same_keeps ==
    ASSUME IndInv, NEW t \in Threads, NEW q \in Ptrs, result_same(t, q)
    PROVE  IndInv'
<1> DEFINE i == call[t].obj
           p == call[t].ptr
<1>0. /\ i \in obj /\ i \in Objs /\ Held(i) /\ p \in Ptrs /\ cPtr[i] = p /\ ~IsFree(p)
      /\ doFinalize[i] <=> xatmi[p] = "none"
      /\ q = p \/ IsFree(q)
      /\ obj' = obj /\ doFinalize' = doFinalize /\ lost' = lost /\ Returned(t)
      /\ cPtr'[i] = q /\ user'[i] = t
      /\ \A x \in Objs \ {i} : cPtr'[x] = cPtr[x] /\ user'[x] = user[x]
  BY SameStep, Zenon
<1>m. /\ ctype'[q] = ctype[p] /\ xatmi'[q] = xatmi[p] /\ disp'[q] = disp[p]
      /\ q # p => ctype'[p] = NoType /\ xatmi'[p] = "none"
      /\ \A r \in Ptrs \ {p, q} :
            ctype'[r] = ctype[r] /\ xatmi'[r] = xatmi[r] /\ disp'[r] = disp[r]
  BY SameMemory, Zenon
<1>n. p # Null /\ q # Null /\ obj \subseteq Objs /\ \A x \in obj : cPtr[x] # Null => cPtr[x] \in Ptrs
  BY <1>0, BufferAssumption, ZenonT(30) DEF IndInv, TypeOK
<1>d. \A x \in obj : doFinalize[x] /\ cPtr[x] # Null => ~IsFree(cPtr[x]) /\ xatmi[cPtr[x]] = "none"
  BY Zenon DEF IndInv, Safety, DestructorSafe
<1>o. \A x \in obj : x # call[t].obj /\ Held(x)' /\ cPtr[x] # Null =>
          /\ Held(x) /\ cPtr'[x] = cPtr[x]
          /\ cPtr[x] \in Ptrs /\ cPtr[x] # call[t].ptr /\ cPtr[x] # q
          /\ ~IsFree(cPtr[x])
          /\ doFinalize[x] <=> xatmi[cPtr[x]] = "none"
  BY SameOthers, ZenonT(30)
<1>1. TypeOK'
  BY BufferAssumption, SMTT(30), Zenon DEF IndInv, TypeOK, result_same, Returning, Returned, Replaced,
     Idle, IsFree, Calls, Dispatches
\* Another object with a destructor has neither the old nor the new address.
<1>a. ASSUME NEW x \in obj, x # i, doFinalize[x], cPtr[x] # Null
      PROVE  /\ cPtr'[x] = cPtr[x] /\ cPtr[x] \in Ptrs /\ cPtr[x] # q
             /\ doFinalize[i] => cPtr[x] # p
  <2>1. cPtr'[x] = cPtr[x] /\ cPtr[x] \in Ptrs
    BY <1>0, <1>n, <1>a, Zenon
  <2>2. doFinalize[i] => cPtr[x] # p
    BY <1>0, <1>n, <1>a, Zenon DEF IndInv, Safety, SingleDestructor
  <2>3. xatmi[cPtr[x]] = "none" /\ ~IsFree(cPtr[x])
    BY <1>d, <1>a, Zenon
  <2>4. cPtr[x] # p
    BY <1>0, <2>2, <2>3, Zenon
  <2> QED BY <1>0, <2>1, <2>2, <2>3, <2>4, Zenon
<1>2. SingleDestructor'
  <2> SUFFICES ASSUME NEW x \in obj, NEW y \in obj, doFinalize[x], doFinalize[y],
                      cPtr'[x] = cPtr'[y], cPtr'[x] # Null
               PROVE  x = y
    BY <1>0, Zenon DEF SingleDestructor
  <2>1. \A z \in obj : z # i /\ doFinalize[z] /\ cPtr'[z] # Null =>
                          cPtr'[z] = cPtr[z] /\ cPtr[z] # q
    BY <1>0, <1>n, <1>a, Zenon
  <2>2. CASE x = i \/ y = i
    BY <1>0, <2>1, <2>2, Zenon
  <2>3. CASE x # i /\ y # i
    BY <2>1, <2>3, Zenon DEF IndInv, Safety, SingleDestructor
  <2> QED BY <2>2, <2>3, Zenon
<1>3. DestructorSafe'
  <2> SUFFICES ASSUME NEW x \in obj, doFinalize[x], cPtr'[x] # Null
               PROVE  ctype'[cPtr'[x]] # NoType /\ xatmi'[cPtr'[x]] = "none"
    BY <1>0, Zenon DEF DestructorSafe, IsFree
  <2>1. CASE x = i
    BY <1>0, <1>m, <2>1, Zenon DEF IsFree
  <2>2. CASE x # i
    <3>1. cPtr'[x] = cPtr[x] /\ cPtr[x] \in Ptrs /\ cPtr[x] # Null
      BY <1>0, <1>n, <2>2, Zenon
    <3>2. xatmi[cPtr[x]] = "none" /\ ~IsFree(cPtr[x]) /\ cPtr[x] # q /\ (doFinalize[i] => cPtr[x] # p)
      BY <1>a, <1>d, <2>2, <3>1, Zenon
    <3>3. cPtr[x] # p
      BY <1>0, <3>2, Zenon
    <3> QED BY <1>m, <3>1, <3>2, <3>3, ZenonT(30) DEF IsFree
  <2> QED BY <2>1, <2>2, Zenon
<1>4. NoDanglingUse'
  <2> SUFFICES ASSUME NEW x \in obj, Held(x)', cPtr'[x] # Null
               PROVE  /\ ctype'[cPtr'[x]] # NoType
                      /\ doFinalize[x] <=> xatmi'[cPtr'[x]] = "none"
                      /\ \A y \in obj : Held(y)' /\ cPtr'[y] = cPtr'[x] => y = x
    BY <1>0, Zenon DEF NoDanglingUse, IsFree
  <2>1. ASSUME NEW y \in obj, y # i, Held(y)', cPtr'[y] # Null
        PROVE  /\ Held(y) /\ cPtr'[y] = cPtr[y]
               /\ cPtr[y] \in Ptrs \ {p, q} /\ ~IsFree(cPtr[y])
               /\ doFinalize[y] <=> xatmi[cPtr[y]] = "none"
    <3>1. cPtr[y] # Null /\ y # call[t].obj
      BY <1>0, <1>n, <2>1, Zenon
    <3>2. /\ Held(y) /\ cPtr'[y] = cPtr[y]
          /\ cPtr[y] \in Ptrs /\ cPtr[y] # call[t].ptr /\ cPtr[y] # q
          /\ ~IsFree(cPtr[y])
          /\ doFinalize[y] <=> xatmi[cPtr[y]] = "none"
      BY <1>o, <2>1, <3>1, Zenon
    <3> QED BY <3>2, Zenon
  <2>2. CASE x = i
    <3>1. ctype'[cPtr'[x]] # NoType /\ (doFinalize[x] <=> xatmi'[cPtr'[x]] = "none")
      BY <1>0, <1>m, <2>2, Zenon DEF IsFree
    <3>2. ASSUME NEW y \in obj, Held(y)', cPtr'[y] = cPtr'[x] PROVE y = x
      <4>1. cPtr'[y] = q /\ cPtr'[y] # Null
        BY <1>0, <2>2, <3>2, Zenon
      <4>2. y # i => cPtr[y] = q /\ cPtr[y] # q
        BY <2>1, <3>2, <4>1, Zenon
      <4> QED BY <2>2, <4>2, Zenon
    <3> QED BY <3>1, <3>2, Zenon
  <2>3. CASE x # i
    <3>1. /\ Held(x) /\ cPtr'[x] = cPtr[x]
          /\ cPtr[x] \in Ptrs \ {p, q} /\ ~IsFree(cPtr[x])
          /\ doFinalize[x] <=> xatmi[cPtr[x]] = "none"
      BY <2>1, <2>3, Zenon
    <3>2. ctype'[cPtr'[x]] # NoType /\ (doFinalize[x] <=> xatmi'[cPtr'[x]] = "none")
      BY <1>m, <3>1, Zenon DEF IsFree
    <3>3. ASSUME NEW y \in obj, Held(y)', cPtr'[y] = cPtr'[x] PROVE y = x
      <4>1. y # i
        BY <1>0, <3>1, <3>3, Zenon
      <4>2. Held(y) /\ cPtr[y] = cPtr[x]
        BY <2>1, <3>1, <3>3, <4>1, Zenon
      <4> QED BY <3>1, <4>2, Zenon DEF IndInv, Safety, NoDanglingUse
    <3> QED BY <3>2, <3>3, Zenon
  <2> QED BY <2>2, <2>3, Zenon
<1>5. NoLeak'
  <2> SUFFICES ASSUME NEW r \in Ptrs, ctype'[r] # NoType, xatmi'[r] = "none", r \notin lost
               PROVE  \E x \in obj : doFinalize[x] /\ cPtr'[x] = r
    BY <1>0, Zenon DEF NoLeak, IsFree
  <2>1. CASE r = q
    BY <1>0, <1>m, <2>1, Zenon
  <2>2. CASE r # q
    <3>1. r # p /\ ~IsFree(r) /\ xatmi[r] = "none"
      BY <1>m, <2>2, Zenon DEF IsFree
    <3>2. PICK x \in obj : doFinalize[x] /\ cPtr[x] = r
      BY <3>1, Zenon DEF IndInv, Safety, NoLeak
    <3> QED BY <1>0, <1>n, <3>1, <3>2, Zenon
  <2> QED BY <2>1, <2>2, Zenon
<1>6. HeapInv'
  <2> SUFFICES ASSUME NEW r \in Ptrs
               PROVE  /\ ctype'[r] = NoType => xatmi'[r] = "none" /\ r \notin lost
                      /\ r \in lost => xatmi'[r] = "none"
                      /\ xatmi'[r] # "none" => disp'[r] \in Threads
    BY <1>0, Zenon DEF HeapInv, IsFree
  <2>1. \A z \in Ptrs : /\ IsFree(z) => xatmi[z] = "none" /\ z \notin lost
                        /\ z \in lost => xatmi[z] = "none"
                        /\ xatmi[z] # "none" => disp[z] \in Threads
    BY Zenon DEF IndInv, HeapInv
  <2>2. p \notin lost
    BY <1>0, Zenon DEF IndInv, LostInv, HeapInv
  <2>3. CASE r = q
    BY <1>0, <1>m, <2>1, <2>2, <2>3, Zenon DEF IsFree
  <2>4. CASE r # q /\ r = p
    BY <1>m, <2>2, <2>4, Zenon
  <2>5. CASE r # q /\ r # p
    BY <1>m, <2>1, <2>5, Zenon DEF IsFree
  <2> QED BY <2>3, <2>4, <2>5, Zenon
<1>7. LostInv'
  <2>1. q \notin lost
    BY <1>0, Zenon DEF IndInv, LostInv, HeapInv
  <2> QED BY <1>0, <1>n, <2>1, Zenon DEF IndInv, LostInv
<1>8. CallRemembers'
  <2>1. \A x \in obj : x # i => cPtr'[x] = cPtr[x] /\ user'[x] = user[x]
    BY <1>0, <1>n, Zenon
  <2>2. Replaced(p, q, call[t].type)
    BY ZenonT(30) DEF result_same
  <2> QED BY <1>0, <2>1, <2>2, OthersRemember, Zenon
<1>9. CallNoInput' /\ CallExclusive' /\ UnsolNested' /\ UnsolOwned' /\ CallNotUnsol'
  <2>1. Reply(t, q, call[t].type) /\ unsol' = unsol
    BY Zenon DEF result_same, Reply
  <2>2. ctype'[q] = call[t].type
    BY Zenon DEF result_same, Replaced
  <2>3. call[t].type \in Types
    <3>1. ctype[p] \in Types \cup {NoType}
      BY <1>0, Zenon DEF IndInv, TypeOK
    <3>2. ctype[p] # NoType
      BY <1>0, Zenon DEF IsFree
    <3>3. call[t].type = ctype[p]
      BY <1>m, <2>2, Zenon
    <3> QED BY <3>1, <3>2, <3>3, Zenon
  <2> QED BY <2>1, <2>3, ReplyKeepsCalls, Zenon
<1>11. DispatchUse'
  <2>1. SUFFICES ASSUME NEW x \in obj', NEW u \in Threads, Held(x)', cPtr'[x] # Null,
                        xatmi'[cPtr'[x]] # "none", disp'[cPtr'[x]] = u
                 PROVE  user'[x] = u \/ call'[u].obj = x
    BY ZenonT(30) DEF DispatchUse
  <2>2. i \in obj /\ i \in Objs /\ Held(i) /\ call[t].ptr \in Ptrs /\ cPtr[i] = call[t].ptr /\ user[i] = NoThread
    BY CallInputHeld DEF IndInv, TypeOK, CallRemembers, result_same
  <2>3. CASE x = i
    <3>1. xatmi[call[t].ptr] # "none" /\ disp[call[t].ptr] = u
      BY <2>1, <2>2, <2>3, BufferAssumption, Zenon DEF IndInv, TypeOK, result_same, Replaced
    <3>2. call[u].obj = i
      BY <2>2, <3>1, BufferAssumption, Zenon DEF IndInv, DispatchUse
    <3> QED
      BY <2>2, <2>3, <3>2, Zenon DEF IndInv, TypeOK, CallExclusive, result_same
  <2>4. CASE x # i
    <3>1. x \in obj /\ x \in Objs /\ cPtr'[x] = cPtr[x] /\ user'[x] = user[x]
      BY <2>4, SMTT(30), Zenon DEF IndInv, TypeOK, result_same
    <3>2. Held(x)
      BY <2>1, <2>4, <3>1, BufferAssumption, SMTT(30), Zenon DEF IndInv, TypeOK, Held, Pinned,
         result_same, Returned, Idle
    <3>3. cPtr[x] \in Ptrs /\ cPtr[x] # call[t].ptr /\ ~IsFree(cPtr[x])
      BY <2>1, <2>2, <2>4, <3>1, <3>2, CallInputHeld, Zenon DEF IndInv, TypeOK, Safety,
         NoDanglingUse, result_same
    <3>4. xatmi[cPtr[x]] # "none" /\ disp[cPtr[x]] = u
      BY <2>1, <3>1, <3>3, Zenon DEF result_same, Replaced, IsFree
    <3>5. user[x] = u \/ call[u].obj = x
      BY <2>1, <3>1, <3>2, <3>4, ZenonT(30) DEF IndInv, DispatchUse
    <3> QED
      BY <2>4, <3>1, <3>5 DEF IndInv, TypeOK, result_same, Returned
  <2> QED
    BY <2>3, <2>4
<1>12. RefInv'
  BY BufferAssumption DEF IndInv, TypeOK, CallRemembers, RefInv, result_same,
     Returning, Returned, Replaced, Idle, IsFree, Calls, Dispatches
<1> QED
  BY <1>1, <1>2, <1>3, <1>4, <1>5, <1>6, <1>7, <1>8,
     <1>9, <1>11, <1>12, SMTT(30), Zenon DEF IndInv, Safety

\* The input buffer is gone and the input object loses its destructor.
LEMMA result_null_keeps ==
    ASSUME IndInv, NEW t \in Threads, result_null(t, FALSE)
    PROVE  IndInv'
<1>1. TypeOK'
  BY BufferAssumption, ZenonT(30) DEF IndInv, TypeOK, result_null, Returning, Returned,
     Released, Idle, Calls, Dispatches
<1>2. SingleDestructor'
  BY BufferAssumption, SMTT(30), Zenon DEF IndInv, Safety, TypeOK, SingleDestructor, result_null,
     Returning, Returned, Released, Idle, Calls, Dispatches
<1>3. DestructorSafe'
  <2>1. SUFFICES ASSUME NEW x \in obj', doFinalize'[x], cPtr'[x] # Null
                 PROVE  ctype'[cPtr'[x]] # NoType /\ xatmi'[cPtr'[x]] = "none"
    BY DEF DestructorSafe, IsFree
  <2>2. /\ x \in obj /\ x \in Objs /\ x # call[t].obj
        /\ doFinalize[x] /\ cPtr' = cPtr /\ cPtr[x] \in Ptrs
    BY <2>1, ZenonT(30) DEF IndInv, TypeOK, result_null
  <2>3. ctype[cPtr[x]] # NoType /\ xatmi[cPtr[x]] = "none"
    BY <2>1, <2>2 DEF IndInv, Safety, DestructorSafe, IsFree
  <2>4. cPtr[x] # call[t].ptr
    <3>1. CASE call[t].obj = NoObj
      BY <2>2, <3>1, BufferAssumption, SMTT(30), Zenon DEF IndInv, CallNoInput
    <3>2. CASE call[t].obj # NoObj
      <4>1. /\ call[t].obj \in obj /\ call[t].ptr = cPtr[call[t].obj]
            /\ doFinalize[call[t].obj] <=> xatmi[call[t].ptr] = "none"
        BY <3>2, CallInputHeld
      <4>2. SUFFICES ASSUME cPtr[x] = call[t].ptr PROVE FALSE
        OBVIOUS
      <4>3. x = call[t].obj
        BY <2>1, <2>2, <2>3, <4>1, <4>2 DEF IndInv, Safety, SingleDestructor
      <4> QED
        BY <2>2, <4>3, SMTT(30), Zenon
    <3> QED
      BY <3>1, <3>2
  <2> QED
    BY <2>2, <2>3, <2>4 DEF result_null, Released
<1>4. NoDanglingUse'
  <2>1. SUFFICES ASSUME NEW x \in obj', Held(x)', cPtr'[x] # Null
                 PROVE  /\ ctype'[cPtr'[x]] # NoType
                        /\ doFinalize'[x] <=> xatmi'[cPtr'[x]] = "none"
                        /\ \A y \in obj' : Held(y)' /\ cPtr'[y] = cPtr'[x] => y = x
    BY DEF NoDanglingUse, IsFree
  <2>2. obj' = obj /\ cPtr' = cPtr /\ Returned(t) /\ \A y \in obj : user'[y] = user[y]
    BY DEF IndInv, TypeOK, result_null
  <2>3. \A y \in obj : Held(y)' => Held(y)
    BY <2>2, OtherHeld, Zenon
  <2>4. /\ x \in Objs /\ x # call[t].obj /\ cPtr[x] \in Ptrs /\ cPtr[x] # call[t].ptr
        /\ ~IsFree(cPtr[x]) /\ (doFinalize[x] <=> xatmi[cPtr[x]] = "none")
    BY <2>1, <2>2, OtherHeld, Zenon
  <2>5. ctype'[cPtr[x]] # NoType /\ xatmi'[cPtr[x]] = xatmi[cPtr[x]] /\ doFinalize'[x] = doFinalize[x]
    BY <2>4, Zenon DEF result_null, Released, IsFree
  <2>6. \A y \in obj : Held(y) /\ cPtr[y] = cPtr[x] => y = x
    BY <2>1, <2>2, <2>3, Zenon DEF IndInv, Safety, NoDanglingUse
  <2> QED
    BY <2>2, <2>3, <2>4, <2>5, <2>6, Zenon
<1>5. NoLeak'
  <2>1. SUFFICES ASSUME NEW r \in Ptrs, ctype'[r] # NoType, xatmi'[r] = "none", r \notin lost'
                 PROVE  \E x \in obj' : doFinalize'[x] /\ cPtr'[x] = r
    BY SMTT(30), Zenon DEF NoLeak, IsFree
  <2>2. r # call[t].ptr /\ ctype[r] # NoType /\ xatmi[r] = "none" /\ r \notin lost
    BY <2>1 DEF result_null, Released
  <2>3. PICK x \in obj : doFinalize[x] /\ cPtr[x] = r
    BY <2>2 DEF IndInv, Safety, NoLeak, IsFree
  <2>4. x # call[t].obj
    <3>1. x # NoObj
      BY <2>3, BufferAssumption DEF IndInv, TypeOK
    <3>2. CASE call[t].obj # NoObj
      <4>1. call[t].ptr = cPtr[call[t].obj]
        BY <3>2, CallInputHeld, SMTT(30), Zenon
      <4> QED
        BY <2>2, <2>3, <4>1, Zenon
    <3> QED
      BY <3>1, <3>2
  <2> QED
    BY <2>3, <2>4, Zenon DEF IndInv, TypeOK, result_null
<1>6. HeapInv'
  <2>1. SUFFICES ASSUME NEW r \in Ptrs
                 PROVE  /\ ctype'[r] = NoType => xatmi'[r] = "none" /\ r \notin lost
                        /\ r \in lost => xatmi'[r] = "none"
                        /\ xatmi'[r] # "none" => disp'[r] \in Threads
    BY DEF HeapInv, IsFree, result_null
  <2>2. /\ ctype[r] = NoType => xatmi[r] = "none" /\ r \notin lost
        /\ r \in lost => xatmi[r] = "none"
        /\ xatmi[r] # "none" => disp[r] \in Threads
    BY DEF IndInv, HeapInv, IsFree
  <2>3. CASE r # call[t].ptr
    <3>1. ctype'[r] = ctype[r] /\ xatmi'[r] = xatmi[r] /\ disp'[r] = disp[r]
      BY <2>3 DEF result_null, Released
    <3> QED
      BY <2>2, <3>1, SMTT(30), Zenon
  <2>4. CASE r = call[t].ptr
    <3>1. xatmi'[r] = "none"
      BY <2>4 DEF result_null, Released
    <3>2. call[t].obj # NoObj
      BY <2>4, BufferAssumption, SMTT(30), Zenon DEF IndInv, CallNoInput
    <3>3. /\ call[t].obj \in obj /\ r = cPtr[call[t].obj]
          /\ doFinalize[call[t].obj] <=> xatmi[r] = "none"
      BY <2>4, <3>2, CallInputHeld, SMTT(30), Zenon
    <3>4. r \notin lost
      BY <2>2, <3>3, SMTT(30), Zenon DEF IndInv, LostInv
    <3> QED
      BY <3>1, <3>4, SMTT(30), Zenon
  <2> QED
    BY <2>3, <2>4, SMTT(30), Zenon
<1>7. LostInv'
  BY BufferAssumption DEF IndInv, TypeOK, LostInv, result_null, Returning, Returned,
     Released, Idle, Calls, Dispatches
<1>8. CallRemembers'
  <2>1. SUFFICES ASSUME NEW u \in Threads, call'[u].obj # NoObj
                 PROVE  /\ call'[u].busy /\ call'[u].obj \in obj'
                        /\ user'[call'[u].obj] = NoThread
                        /\ call'[u].ptr = cPtr'[call'[u].obj] /\ call'[u].ptr \in Ptrs
                        /\ call'[u].type = ctype'[call'[u].ptr]
    BY Zenon DEF CallRemembers
  <2>2. u # t /\ call'[u] = call[u] /\ call[u].obj # NoObj
    BY <2>1, Zenon DEF IndInv, TypeOK, result_null, Returned, Idle
  <2>3. call[u].ptr \in Ptrs /\ call[u].ptr # call[t].ptr /\ call[u].obj \in Objs
    <3>1. /\ call[u].ptr \in Ptrs /\ call[u].obj \in obj
          /\ \A w \in Threads : call[w].obj # NoObj /\ call[w].ptr = call[u].ptr => w = u
      BY <2>2, CallInputHeld, Zenon
    <3>2. call[u].obj \in Objs
      BY <3>1 DEF IndInv, TypeOK
    <3>3. CASE call[t].obj = NoObj
      BY <3>1, <3>2, <3>3, BufferAssumption DEF IndInv, CallNoInput
    <3>4. CASE call[t].obj # NoObj
      BY <2>2, <3>1, <3>2, <3>4, SMTT(30), Zenon
    <3> QED
      BY <3>3, <3>4
  <2>4. ctype'[call[u].ptr] = ctype[call[u].ptr]
    BY <2>3 DEF result_null, Released
  <2>5. user'[call[u].obj] = user[call[u].obj]
    BY <2>3 DEF IndInv, TypeOK, result_null
  <2> QED
    BY <2>2, <2>3, <2>4, <2>5, ZenonT(30) DEF IndInv, CallRemembers, result_null
<1>9. CallNoInput' /\ CallExclusive' /\ UnsolNested' /\ UnsolOwned' /\ RefInv'
  BY BufferAssumption, ZenonT(30) DEF IndInv, TypeOK, CallNoInput, CallExclusive, UnsolNested,
     UnsolOwned, RefInv, result_null, Returning, Returned, Released, Idle, Calls,
     Dispatches
<1>10. CallNotUnsol'
  BY BufferAssumption, ZenonT(30) DEF IndInv, TypeOK, HeapInv, CallRemembers, CallNotUnsol,
     result_null, Returning, Returned, Released, Idle, IsFree, Calls, Dispatches
<1>11. DispatchUse'
  <2>1. SUFFICES ASSUME NEW x \in obj', NEW u \in Threads, Held(x)', cPtr'[x] # Null,
                        xatmi'[cPtr'[x]] # "none", disp'[cPtr'[x]] = u
                 PROVE  user'[x] = u \/ call'[u].obj = x
    BY Zenon DEF DispatchUse
  <2>2. x \in obj /\ cPtr'[x] = cPtr[x] /\ user'[x] = user[x] /\ Returned(t)
    BY DEF IndInv, TypeOK, result_null
  <2>3. /\ Held(x) /\ x \in Objs /\ x # call[t].obj
        /\ cPtr[x] \in Ptrs /\ cPtr[x] # call[t].ptr /\ ~IsFree(cPtr[x])
    BY <2>1, <2>2, OtherHeld, Zenon
  <2>4. xatmi[cPtr[x]] # "none" /\ disp[cPtr[x]] = u
    BY <2>1, <2>2, <2>3, Zenon DEF result_null, Released, IsFree
  <2>5. user[x] = u \/ call[u].obj = x
    BY <2>1, <2>2, <2>3, <2>4, Zenon DEF IndInv, DispatchUse
  <2>6. CASE user[x] = u
    BY <2>2, <2>6, Zenon
  <2>7. CASE call[u].obj = x
    <3>1. u # t
      BY <2>3, <2>7
    <3> QED
      BY <2>2, <2>7, <3>1, OtherCall, SMTT(30), Zenon
  <2> QED
    BY <2>5, <2>6, <2>7
<1> QED
  BY <1>1, <1>2, <1>3, <1>4, <1>5, <1>6, <1>7, <1>8,
     <1>9, <1>10, <1>11 DEF IndInv, Safety

\* The buffers that XATMI releases in tpreturn.
Returns(t, o) == OwnedBy(t, "svc") \cup (IF o = NoObj THEN {} ELSE {cPtr[o]} \cap Ptrs)

\* An object in use after tpreturn was in use before, and its buffer stays.
LEMMA ReturnHeld ==
    ASSUME IndInv, NEW t \in Threads, NEW o \in Objs \cup {NoObj}, tpreturn(t, o),
           NEW x \in obj, Held(x)', cPtr'[x] # Null
    PROVE  /\ Held(x) /\ x # o /\ x \in Objs
           /\ cPtr'[x] = cPtr[x] /\ doFinalize'[x] = doFinalize[x]
           /\ cPtr[x] \in Ptrs \ Returns(t, o)
<1>1. x \in Objs /\ x # o /\ cPtr'[x] = cPtr[x] /\ doFinalize'[x] = doFinalize[x] /\ cPtr[x] \in Ptrs
  BY Zenon DEF IndInv, TypeOK, tpreturn
<1>2. CASE user'[x] # NoThread
  BY <1>1, <1>2, Zenon DEF tpreturn, Forget, Held, Returns
<1>3. CASE user'[x] = NoThread
  <2>1. PICK u \in Threads : call[u].obj = x
    BY <1>3, Zenon DEF Held, Pinned, tpreturn
  <2>2. Held(x) /\ call[u].ptr = cPtr[x] /\ call[u].obj # NoObj
    BY <1>1, <2>1, CallInputHeld, BufferAssumption, ZenonT(30)
  <2>3. cPtr[x] \notin Returns(t, o)
    BY <2>2, ReturnSparesCalls, ZenonT(30) DEF Returns
  <2> QED
    BY <1>1, <2>2, <2>3, ZenonT(30)
<1> QED
  BY <1>2, <1>3, Zenon

\* Of an object that tpreturn passes on, the buffer has one who releases it.
LEMMA ReturnedObject ==
    ASSUME IndInv, NEW t \in Threads, NEW o \in Objs, tpreturn(t, o), cPtr[o] # Null
    PROVE  o \in obj /\ (doFinalize[o] <=> xatmi[cPtr[o]] = "none")
<1>1. o \in obj /\ user[o] = t
  <2>1. o # NoObj
    BY BufferAssumption, Zenon
  <2> QED BY <2>1, Zenon DEF tpreturn, Uses
<1>2. Held(o)
  BY <1>1, BufferAssumption DEF Held
<1> QED
  BY <1>1, <1>2, SMTT(30), Zenon DEF IndInv, Safety, NoDanglingUse

\* What tpreturn does to the memory.
LEMMA ReturnMemory ==
    ASSUME NEW t \in Threads, NEW o \in Objs \cup {NoObj}, tpreturn(t, o), NEW r \in Ptrs
    PROVE  /\ r \in Returns(t, o) => ctype'[r] = NoType /\ xatmi'[r] = "none"
           /\ r \notin Returns(t, o) =>
                ctype'[r] = ctype[r] /\ xatmi'[r] = xatmi[r] /\ disp'[r] = disp[r]
  BY Zenon DEF tpreturn, Released, Returns

\* tpreturn invalidates the object it passes on and XATMI releases the request.
LEMMA tpreturn_keeps ==
    ASSUME IndInv, NEW t \in Threads, NEW o \in Objs \cup {NoObj}, tpreturn(t, o)
    PROVE  IndInv'
<1>1. TypeOK'
  BY BufferAssumption, ZenonT(30) DEF IndInv, TypeOK, tpreturn, Released, Forget, OwnedBy,
     Uses, Running, Calls, Dispatches
<1>2. SingleDestructor'
  BY BufferAssumption DEF IndInv, Safety, TypeOK, SingleDestructor, tpreturn, Released,
     Forget, OwnedBy, Uses, Running, Calls, Dispatches
<1>3. DestructorSafe'
  <2>1. SUFFICES ASSUME NEW x \in obj', doFinalize'[x], cPtr'[x] # Null
                 PROVE  ctype'[cPtr'[x]] # NoType /\ xatmi'[cPtr'[x]] = "none"
    BY DEF DestructorSafe, IsFree
  <2>2. /\ x \in obj /\ x \in Objs /\ x # o
        /\ doFinalize[x] /\ cPtr'[x] = cPtr[x] /\ cPtr[x] \in Ptrs
    BY <2>1, Zenon DEF IndInv, TypeOK, tpreturn
  <2>3. ctype[cPtr[x]] # NoType /\ xatmi[cPtr[x]] = "none"
    BY <2>1, <2>2, Zenon DEF IndInv, Safety, DestructorSafe, IsFree
  <2>4. cPtr[x] \notin OwnedBy(t, "svc")
    BY <2>3, Zenon DEF OwnedBy
  <2>5. ASSUME o # NoObj PROVE cPtr[x] # cPtr[o]
    <3>1. SUFFICES ASSUME cPtr[x] = cPtr[o] PROVE FALSE
      OBVIOUS
    <3>2. o \in obj /\ doFinalize[o]
      BY <2>1, <2>2, <2>3, <2>5, <3>1, ReturnedObject, Zenon
    <3> QED
      BY <2>1, <2>2, <3>1, <3>2, Zenon DEF IndInv, Safety, SingleDestructor
  <2>6. cPtr[x] \notin Returns(t, o)
    BY <2>4, <2>5 DEF Returns
  <2> QED
    BY <2>2, <2>3, <2>6, ReturnMemory, Zenon
<1>4. NoDanglingUse'
  <2>1. ASSUME NEW x \in obj, Held(x)', cPtr'[x] # Null
        PROVE  /\ Held(x) /\ x # o /\ x \in Objs
               /\ cPtr'[x] = cPtr[x] /\ doFinalize'[x] = doFinalize[x]
               /\ cPtr[x] \in Ptrs \ Returns(t, o)
    BY <2>1, ReturnHeld, Zenon
  <2>2. /\ obj' = obj
        /\ \A r \in Ptrs \ Returns(t, o) : ctype'[r] = ctype[r] /\ xatmi'[r] = xatmi[r]
    <3>1. obj' = obj
      BY Zenon DEF tpreturn
    <3> QED
      BY <3>1, ReturnMemory, ZenonT(30)
  <2>3. ASSUME NEW x \in obj, Held(x)', cPtr'[x] # Null
        PROVE  /\ ~IsFree(cPtr[x])'
               /\ doFinalize'[x] <=> xatmi'[cPtr'[x]] = "none"
               /\ \A y \in obj : Held(y)' /\ cPtr'[y] = cPtr'[x] => y = x
    <3>1. /\ Held(x) /\ cPtr'[x] = cPtr[x] /\ doFinalize'[x] = doFinalize[x]
          /\ cPtr[x] \in Ptrs \ Returns(t, o) /\ cPtr[x] # Null
      BY <2>1, <2>3, Zenon
    <3>2. /\ ~IsFree(cPtr[x])
          /\ doFinalize[x] <=> xatmi[cPtr[x]] = "none"
          /\ \A y \in obj : Held(y) /\ cPtr[y] = cPtr[x] => y = x
      BY <3>1, Zenon DEF IndInv, Safety, NoDanglingUse
    <3>3. \A y \in obj : Held(y)' /\ cPtr'[y] = cPtr'[x] => y = x
      BY <2>1, <2>3, <3>1, <3>2, Zenon
    <3> QED
      BY <2>2, <3>1, <3>2, <3>3, Zenon DEF IsFree
  <2> QED
    BY <2>2, <2>3, ZenonT(30) DEF NoDanglingUse
<1>5. NoLeak'
  <2>1. SUFFICES ASSUME NEW r \in Ptrs, ctype'[r] # NoType, xatmi'[r] = "none", r \notin lost'
                 PROVE  \E x \in obj' : doFinalize'[x] /\ cPtr'[x] = r
    BY Zenon DEF NoLeak, IsFree
  <2>2. /\ ctype[r] # NoType /\ xatmi[r] = "none" /\ r \notin lost
        /\ o # NoObj => r # cPtr[o]
    BY <2>1, ZenonT(30) DEF tpreturn, Released
  <2>3. PICK x \in obj : doFinalize[x] /\ cPtr[x] = r
    BY <2>2, Zenon DEF IndInv, Safety, NoLeak, IsFree
  <2>4. x # o /\ x \in Objs
    BY <2>2, <2>3, BufferAssumption DEF IndInv, TypeOK
  <2> QED
    BY <2>3, <2>4, Zenon DEF tpreturn
<1>6. HeapInv'
  <2>1. SUFFICES ASSUME NEW r \in Ptrs
                 PROVE  /\ ctype'[r] = NoType => xatmi'[r] = "none" /\ r \notin lost
                        /\ r \in lost => xatmi'[r] = "none"
                        /\ xatmi'[r] # "none" => disp'[r] \in Threads
    BY Zenon DEF HeapInv, IsFree, tpreturn
  <2>2. /\ ctype[r] = NoType => xatmi[r] = "none" /\ r \notin lost
        /\ r \in lost => xatmi[r] = "none"
        /\ xatmi[r] # "none" => disp[r] \in Threads
    BY Zenon DEF IndInv, HeapInv, IsFree
  <2>3. CASE r \notin Returns(t, o)
    BY <2>2, <2>3, ReturnMemory, ZenonT(30)
  <2>4. CASE r \in Returns(t, o)
    <3>1. xatmi'[r] = "none"
      BY <2>4, ReturnMemory, Zenon
    <3>2. CASE r \in OwnedBy(t, "svc")
      BY <2>2, <3>1, <3>2 DEF OwnedBy
    <3>3. CASE o # NoObj /\ r = cPtr[o]
      <4>1. o \in obj /\ (doFinalize[o] <=> xatmi[r] = "none")
        BY <3>3, ReturnedObject, BufferAssumption
      <4>2. r \notin lost
        BY <2>2, <3>3, <4>1, SMTT(30), Zenon DEF IndInv, LostInv
      <4> QED
        BY <3>1, <4>2
    <3> QED
      BY <2>4, <3>2, <3>3, ZenonT(30) DEF Returns
  <2> QED
    BY <2>3, <2>4, Zenon
<1>7. LostInv'
  BY BufferAssumption DEF IndInv, TypeOK, LostInv, tpreturn, Released, Forget, OwnedBy,
     Uses, Running, Calls, Dispatches
<1>8. CallRemembers'
  <2>1. ASSUME NEW u \in Threads, call[u].obj # NoObj
        PROVE  /\ call[u].busy /\ call[u].obj \in obj'
               /\ user'[call[u].obj] = NoThread
               /\ call[u].ptr = cPtr'[call[u].obj] /\ call[u].ptr \in Ptrs
               /\ call[u].type = ctype'[call[u].ptr]
    <3>1. /\ call[u].obj # o /\ call[u].obj \in Objs
          /\ call[u].ptr \notin OwnedBy(t, "svc") \cup (IF o = NoObj THEN {} ELSE {cPtr[o]} \cap Ptrs)
      BY <2>1, ReturnSparesCalls, BufferAssumption, Zenon DEF IndInv, TypeOK, CallRemembers
    <3> QED
      BY <2>1, <3>1, Zenon DEF IndInv, CallRemembers, tpreturn, Released, Forget
  <2>2. call' = call
    BY Zenon DEF tpreturn
  <2> QED
    BY <2>1, <2>2, Zenon DEF CallRemembers
<1>9. CallNoInput' /\ CallExclusive' /\ UnsolNested' /\ UnsolOwned' /\ RefInv'
  BY BufferAssumption, Zenon DEF IndInv, TypeOK, CallNoInput, CallExclusive, UnsolNested,
     UnsolOwned, RefInv, tpreturn, Released, Forget, OwnedBy, Uses, Running, Calls,
     Dispatches
<1>10. CallNotUnsol'
  BY BufferAssumption, Zenon DEF IndInv, TypeOK, HeapInv, CallRemembers, CallNotUnsol,
     tpreturn, Released, Forget, OwnedBy, Uses, Running, IsFree, Calls, Dispatches
<1>11. DispatchUse'
  <2>1. SUFFICES ASSUME NEW x \in obj', NEW u \in Threads, Held(x)', cPtr'[x] # Null,
                        xatmi'[cPtr'[x]] # "none", disp'[cPtr'[x]] = u
                 PROVE  user'[x] = u \/ call'[u].obj = x
    BY Zenon DEF DispatchUse
  <2>2. x \in obj /\ call' = call
    BY <2>1, Zenon DEF tpreturn
  <2>3. /\ Held(x) /\ x \in Objs /\ cPtr'[x] = cPtr[x]
        /\ cPtr[x] \in Ptrs /\ cPtr[x] \notin Returns(t, o)
    BY <2>1, <2>2, ReturnHeld, Zenon
  <2>4. xatmi[cPtr[x]] # "none" /\ disp[cPtr[x]] = u
    BY <2>1, <2>3, ReturnMemory, Zenon
  <2>5. user[x] = u \/ call[u].obj = x
    BY <2>1, <2>2, <2>3, <2>4, Zenon DEF IndInv, DispatchUse
  <2>6. user'[x] = user[x]
    BY <2>3, Zenon DEF tpreturn, Forget, Returns
  <2> QED
    BY <2>2, <2>5, <2>6
<1> QED
  BY <1>1, <1>2, <1>3, <1>4, <1>5, <1>6, <1>7, <1>8,
     <1>9, <1>10, <1>11 DEF IndInv, Safety

-----------------------------------------------------------------------------
(* The theorems. *)

\* The invariant holds initially, when nothing is allocated.
LEMMA Init_IndInv == Init => IndInv
<1> SUFFICES ASSUME Init PROVE IndInv
  OBVIOUS
<1>1. TypeOK
  BY BufferAssumption DEF Init, TypeOK, Idle, Calls, Dispatches
<1>2. Safety
  BY DEF Init, Safety, SingleDestructor, DestructorSafe, NoDanglingUse, NoLeak, IsFree
<1>3. HeapInv /\ LostInv /\ UnsolNested /\ UnsolOwned /\ DispatchUse /\ RefInv
  BY Zenon DEF Init, HeapInv, LostInv, UnsolNested, UnsolOwned, DispatchUse, RefInv, IsFree
<1>4. CallRemembers /\ CallNoInput /\ CallExclusive /\ CallNotUnsol
  BY DEF Init, Idle, CallRemembers, CallNoInput, CallExclusive, CallNotUnsol
<1> QED
  BY <1>1, <1>2, <1>3, <1>4 DEF IndInv

\* A step that changes nothing keeps the invariant.
LEMMA Stutter_IndInv == IndInv /\ UNCHANGED vars => IndInv'
<1> SUFFICES ASSUME IndInv, UNCHANGED vars PROVE IndInv'
  BY SMTT(30), Zenon
<1>1. TypeOK' /\ HeapInv' /\ LostInv' /\ RefInv'
  BY SMTT(30), Zenon DEF IndInv, vars, TypeOK, HeapInv, LostInv, RefInv, IsFree
<1>2. SingleDestructor' /\ DestructorSafe'
  BY ZenonT(30) DEF IndInv, Safety, vars, SingleDestructor, DestructorSafe, IsFree
<1>3. NoLeak'
  BY Zenon DEF IndInv, Safety, vars, NoLeak, IsFree
<1>4. NoDanglingUse'
  <2>1. /\ ctype' = ctype /\ xatmi' = xatmi /\ obj' = obj /\ cPtr' = cPtr
        /\ doFinalize' = doFinalize /\ user' = user /\ call' = call
    BY Zenon DEF vars
  <2>2. \A x \in obj : Held(x)' <=> Held(x)
    BY <2>1, Zenon DEF Held, Pinned
  <2>3. NoDanglingUse
    BY Zenon DEF IndInv, Safety
  <2> QED BY <2>1, <2>2, <2>3, Zenon DEF NoDanglingUse, IsFree
<1>5. DispatchUse'
  BY ZenonT(30) DEF IndInv, vars, DispatchUse, Held, Pinned
<1>6. CallRemembers' /\ CallNoInput' /\ CallExclusive' /\ CallNotUnsol'
  BY Zenon DEF IndInv, vars, CallRemembers, CallNoInput, CallExclusive, CallNotUnsol
<1>7. UnsolNested' /\ UnsolOwned'
  BY Zenon DEF IndInv, vars, UnsolNested, UnsolOwned
<1> QED
  BY <1>1, <1>2, <1>3, <1>4, <1>5, <1>6, <1>7 DEF IndInv, Safety

\* Every step of the library, the program or the collector keeps the invariant.
LEMMA Next_IndInv == IndInv /\ Next => IndInv'
<1> SUFFICES ASSUME IndInv, Next PROVE IndInv'
  OBVIOUS
<1>1. ASSUME NEW t \in Threads, NEW p \in Ptrs, NEW ty \in Types, NEW o \in Objs,
             \/ tpalloc(t, p, ty, o) \/ svc_begin(t, p, ty, o)
             \/ unsol_begin(t, p, ty, o) \/ result_other(t, p, ty, o)
      PROVE  IndInv'
  BY <1>1, tpalloc_keeps, svc_begin_keeps, unsol_begin_keeps, result_other_keeps
<1>2. ASSUME NEW t \in Threads, NEW q \in Ptrs, NEW ty \in Types,
             tpalloc_unsupported(t, q, ty) \/ result_unsupported(t, q, ty)
      PROVE  IndInv'
  BY <1>2, tpalloc_unsupported_keeps, result_unsupported_keeps
<1>3. ASSUME NEW t \in Threads, NEW o \in Objs, NEW q \in Ptrs, tprealloc(t, o, q)
      PROVE  IndInv'
  BY <1>3, tprealloc_keeps
<1>4. ASSUME NEW t \in Threads, NEW o \in Objs,
             set_failed(t, o) \/ call_begin(t, o) \/ cleanup(t, o) \/ Drop(t, o)
      PROVE  IndInv'
  BY <1>4, set_failed_keeps, call_begin_keeps, cleanup_keeps, Drop_keeps
<1>5. ASSUME NEW t \in Threads, NEW u \in Threads, NEW o \in Objs, setAtmiCtx(t, o, u)
      PROVE  IndInv'
  BY <1>5, setAtmiCtx_keeps
<1>6. ASSUME NEW t \in Threads, NEW o \in Objs \cup {NoObj}, tpreturn(t, o)
      PROVE  IndInv'
  BY <1>6, tpreturn_keeps
<1>7. ASSUME NEW t \in Threads, NEW q \in Ptrs, result_same(t, q)
      PROVE  IndInv'
  BY <1>7, result_same_keeps
<1>8. ASSUME NEW t \in Threads,
             call_begin_null(t) \/ result_null(t, FALSE) \/ call_error(t) \/ unsol_end(t)
      PROVE  IndInv'
  BY <1>8, call_begin_null_keeps, result_null_keeps, call_error_keeps, unsol_end_keeps,
     Zenon
<1>9. ASSUME NEW o \in Objs, finalize(o)
      PROVE  IndInv'
  BY <1>9, finalize_keeps
<1> QED
  BY <1>1, <1>2, <1>3, <1>4, <1>5, <1>6, <1>7, <1>8, <1>9, Zenon DEF Next

\* The inductive invariant holds in every state of every execution.
THEOREM Invariance == Spec => []IndInv
<1>1. IndInv /\ [Next]_vars => IndInv'
  BY Next_IndInv, Stutter_IndInv
<1> QED
  BY Init_IndInv, <1>1, PTL DEF Spec

\* Type correctness.
THEOREM TypeCorrect == Spec => []TypeOK
<1>1. IndInv => TypeOK
  BY DEF IndInv
<1> QED
  BY <1>1, Invariance, PTL

\* No two objects release the same C buffer.
THEOREM OneDestructor == Spec => []SingleDestructor
<1>1. IndInv => SingleDestructor
  BY DEF IndInv, Safety
<1> QED
  BY <1>1, Invariance, PTL

\* A destructor never frees memory that is free already or that XATMI frees.
THEOREM NoDoubleFree == Spec => []DestructorSafe
<1>1. IndInv => DestructorSafe
  BY DEF IndInv, Safety
<1> QED
  BY <1>1, Invariance, PTL

\* An object in use never has the address of a released buffer.
THEOREM NoUseAfterFree == Spec => []NoDanglingUse
<1>1. IndInv => NoDanglingUse
  BY DEF IndInv, Safety
<1> QED
  BY <1>1, Invariance, PTL

\* Outside the two error paths that drop an address, no buffer leaks.
THEOREM EveryBufferReleased == Spec => []NoLeak
<1>1. IndInv => NoLeak
  BY DEF IndInv, Safety
<1> QED
  BY <1>1, Invariance, PTL
=============================================================================
