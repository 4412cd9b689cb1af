------------------------------ MODULE TypedUbf ------------------------------
(***************************************************************************)
(* The native methods of TypedUbf, called by the one thread that owns the  *)
(* context.  Each method makes the context current, calls libubf, throws   *)
(* what Berror says and releases the context; what lies between two calls  *)
(* is the contents of the buffers, the BFldLocInfo object of a batch of    *)
(* Baddfast, the position of Bnext that the context holds, and a copy of   *)
(* a buffer that Java keeps as bytes or as JSON.                           *)
(***************************************************************************)
EXTENDS UbfLibrary

CONSTANTS Bufs,       \* TypedUbf objects
          SmallBufs,  \* those with room for one entry less
          Space,      \* bound: entries that fit into a buffer
          Unnamed,    \* fields that no field table names
          None        \* no buffer

ASSUME UbfAssumption ==
    /\ SmallBufs \subseteq Bufs /\ None \notin Bufs
    /\ Space \in Nat \ {0}
    /\ Unnamed \subseteq Fields

VARIABLES
    ub,     \* contents of the buffers
    loc,    \* BFldLocInfo: field of the last Baddfast and where it is
    batch,  \* the buffer that has not changed since the last Baddfast
    iter,   \* Bnext: buffer, entries returned, end reached
    copy,   \* what Bwrite or tpubftojson returned
    saved,  \* the contents it was made of
    ret     \* result of the last method: exception and value

vars == <<ub, loc, batch, iter, copy, saved, ret>>

Cap(b) == IF b \in SmallBufs THEN Space - 1 ELSE Space
NoLoc == [last |-> BBADFLDID, at |-> 0]
NoIter == [b |-> None, seen |-> <<>>, end |-> FALSE]
NoCopy == [kind |-> "none", data |-> <<>>]

EXFAIL == -1
Null == -2
Ok(v) == [ex |-> "none", val |-> v]
Throw(e) == [ex |-> e, val |-> EXFAIL]
Flag(p) == IF p THEN 1 ELSE 0

\* A buffer holds typed fields in order, within its size.
Proper(c, room) ==
    /\ Len(c) <= room
    /\ \A i \in DOMAIN c : c[i][1] \in Fields /\ c[i][2] \in ValuesOf(Bfldtype(c[i][1]))
    /\ \A i, j \in DOMAIN c : i < j => c[i][1] <= c[j][1]

\* Type invariant: every buffer is a proper UBF buffer, whichever methods
\* filled it; in particular no value is stored under a field of another type.
UbfTypeOK ==
    /\ DOMAIN ub = Bufs /\ \A b \in Bufs : Proper(ub[b], Cap(b))
    /\ loc.last \in Fields \cup {BBADFLDID} /\ loc.at \in 0..Space
    /\ batch \in Bufs \cup {None}
    /\ iter.b \in Bufs \cup {None} /\ iter.end \in BOOLEAN
    /\ copy.kind \in {"none", "bytes", "json", "queue"}
    /\ Proper(saved, Space)

UbfInit ==
    /\ ub = [b \in Bufs |-> <<>>]
    /\ loc = NoLoc /\ batch = None
    /\ iter = NoIter
    /\ copy = NoCopy /\ saved = <<>>
    /\ ret = Ok(0)

\* Buffer b is modified: a batch and an iteration over it are over.
Set(b, c) ==
    /\ ub' = [ub EXCEPT ![b] = c]
    /\ batch' = IF batch = b THEN None ELSE batch
    /\ iter' = IF iter.b = b THEN NoIter ELSE iter
    /\ UNCHANGED <<loc, copy, saved>>

Keep == UNCHANGED <<ub, loc, batch, iter, copy, saved>>

\* A method that only reads.
Return(r) == ret' = r /\ Keep

\* A method that stores c into b, or throws e and leaves it.
Store(b, c, e) ==
    IF Len(c) <= Cap(b) THEN Set(b, c) /\ ret' = Ok(0) ELSE Return(Throw(e))

\* A method that puts entries into b one by one.
StoreEach(b, entries, how) ==
    LET r == Filled(ub[b], entries, how, Cap(b))
    IN  /\ Set(b, r.c)
        /\ ret' = IF r.all THEN Ok(0) ELSE Throw("BNOSPACE")

-----------------------------------------------------------------------------
(* Adding, changing and reading fields. *)

\* A failed CBadd looks up the name of the field before it reads Berror: for
\* a field without a name the error may be the one of Bfname.
CBadd(b, f, v, t) ==
    LET c == Added(ub[b], f, Cvt(v, Bfldtype(f)))
    IN  \E e \in {"BNOSPACE"} \cup IF f \in Unnamed THEN {"BBADFLD"} ELSE {} :
            Store(b, c, e)

\* Badd of a short ... byte[]; a null String is refused.
Badd(b, f, v, t) ==
    IF v = Null THEN Return(Throw("BEINVAL")) ELSE CBadd(b, f, v, t)

CBchg(b, f, o, v, t) == Store(b, Changed(ub[b], f, o, Cvt(v, Bfldtype(f))), "BNOSPACE")

Bchg(b, f, o, v, t) ==
    IF v = Null THEN Return(Throw("BEINVAL")) ELSE CBchg(b, f, o, v, t)

\* Mutation of BFldLocInfo_ptr_set: the pointer is not stored.
BFldLocInfo_ptr_set_field(l) == loc' = [loc EXCEPT !.last = l.last]

\* The fields of the BFldLocInfo object.
BFldLocInfo_ptr_get == loc
BFldLocInfo_ptr_set(l) == loc' = l

\* Baddfast of libubf: behind the place that l names, if it is of this field.
Fast(c, f, v, l) ==
    LET p == IF l.last = f THEN l.at + 1 ELSE Upto(c, f) + 1
    IN  [c |-> InsertAt(c, p, <<f, v>>), l |-> [last |-> f, at |-> p]]

\* Mutation of CBaddfast: the types are not compared.
CBaddfast_any(b, f, v, t) ==
    LET r == Fast(ub[b], f, v, BFldLocInfo_ptr_get)
    IN  IF Len(r.c) > Cap(b) THEN Return(Throw("BNOSPACE"))
        ELSE /\ ub' = [ub EXCEPT ![b] = r.c]
             /\ BFldLocInfo_ptr_set(r.l)
             /\ batch' = b
             /\ iter' = IF iter.b = b THEN NoIter ELSE iter
             /\ ret' = Ok(0)
             /\ UNCHANGED <<copy, saved>>

\* The location is stored back only when the field was added.
CBaddfast(b, f, v, t) ==
    LET r == Fast(ub[b], f, v, BFldLocInfo_ptr_get)
    IN  IF Bfldtype(f) # t THEN Return(Throw("BEINVAL"))
        ELSE IF Len(r.c) > Cap(b) THEN Return(Throw("BNOSPACE"))
        ELSE /\ ub' = [ub EXCEPT ![b] = r.c]
             /\ BFldLocInfo_ptr_set(r.l)
             /\ batch' = b
             /\ iter' = IF iter.b = b THEN NoIter ELSE iter
             /\ ret' = Ok(0)
             /\ UNCHANGED <<copy, saved>>

\* The program does what the documentation of Baddfast asks for: it resets the
\* location before the first field, and does not modify the buffer in a batch.
Baddfast(b, f, v, t) ==
    /\ loc.last = BBADFLDID \/ batch = b
    /\ CBaddfast(b, f, v, t)

\* BFldLocInfo.reset
reset ==
    /\ loc' = NoLoc /\ batch' = None /\ ret' = Ok(0)
    /\ UNCHANGED <<ub, iter, copy, saved>>

\* The value of an occurrence, converted to the type asked for.
CBfind(b, f, o, t) ==
    IF Has(ub[b], f, o) THEN Ok(Cvt(Value(ub[b], f, o), t)) ELSE Throw("BNOTPRES")

BgetShort(b, f, o) == Return(CBfind(b, f, o, "short"))
BgetString(b, f, o) == Return(CBfind(b, f, o, "string"))

-----------------------------------------------------------------------------
(* Deleting fields, and operations on two buffers. *)

Bdel(b, f, o) ==
    IF Has(ub[b], f, o) THEN Set(b, Deleted(ub[b], f, o)) /\ ret' = Ok(0)
    ELSE Return(Throw("BNOTPRES"))

Bdelall(b, f) ==
    IF Has(ub[b], f, 0) THEN Set(b, Only(ub[b], Fields \ {f})) /\ ret' = Ok(0)
    ELSE Return(Throw("BNOTPRES"))

\* A Java array of field ids as the C array that BBADFLDID ends.
ToC(jarr) == Append(jarr, BBADFLDID)
Listed(carr) ==
    LET n == CHOOSE i \in DOMAIN carr :
                carr[i] = BBADFLDID /\ \A j \in 1..(i - 1) : carr[j] # BBADFLDID
    IN  {carr[i] : i \in 1..(n - 1)}

\* The memory for the C array may not be there.
Bdelete(b, jarr) ==
    LET flds == Listed(ToC(jarr))
    IN  \/ Return(Throw("BEUNIX"))
        \/ IF Only(ub[b], flds) = <<>> THEN Return(Throw("BNOTPRES"))
           ELSE Set(b, Only(ub[b], Fields \ flds)) /\ ret' = Ok(0)

Bproj(b, jarr) ==
    \/ Return(Throw("BEUNIX"))
    \/ Set(b, Only(ub[b], Listed(ToC(jarr)))) /\ ret' = Ok(0)

Bconcat(b, s) == StoreEach(b, ub[s], "add")
Bcpy(b, s) == Store(b, ub[s], "BNOSPACE")
Bprojcpy(b, s, jarr) ==
    \/ Return(Throw("BEUNIX"))
    \/ Store(b, Only(ub[s], Listed(ToC(jarr))), "BNOSPACE")
Bupdate(b, s) == StoreEach(b, ub[s], "change")
Bjoin(b, s) == Set(b, Joined(ub[b], ub[s])) /\ ret' = Ok(0)
Bojoin(b, s) == Set(b, OuterJoined(ub[b], ub[s])) /\ ret' = Ok(0)
Bcmp(b, s) == \E d \in IF ub[b] = ub[s] THEN {0} ELSE {-1, 1} : Return(Ok(d))
Bsubset(b, s) == Return(Ok(Flag(Subset(ub[b], ub[s]))))

-----------------------------------------------------------------------------
(* Inspecting a buffer. *)

Bpres(b, f, o) == Return(Ok(Flag(Has(ub[b], f, o))))
Bisubf(b) == Return(Ok(1))
Blen(b, f, o) == Return(IF Has(ub[b], f, o) THEN Ok(1) ELSE Throw("BNOTPRES"))
Boccur(b, f) == Return(Ok(Occurrences(ub[b], f)))
Bsizeof(b) == Return(Ok(Cap(b)))
Bunused(b) == Return(Ok(Cap(b) - Len(ub[b])))
Bused(b) == Return(Ok(Len(ub[b])))
Bnum(b) == Return(Ok(Len(ub[b])))
tplogprintubf(b) == Return(Ok(0))
Bprint(b) == Return(Ok(0))
Binit(b) == Set(b, <<>>) /\ ret' = Ok(Cap(b))

BNextResult_new(c, i) == <<c[i][1], OccAt(c, i)>>

\* Mutation of Bnext: every call starts the iteration again.
Bnext_first(b, first) ==
    /\ IF ub[b] = <<>>
       THEN iter' = [NoIter EXCEPT !.b = b, !.end = TRUE] /\ ret' = Ok(Null)
       ELSE /\ iter' = [b |-> b, end |-> FALSE,
                        seen |-> Append(IF first THEN <<>> ELSE iter.seen,
                                        BNextResult_new(ub[b], 1))]
            /\ ret' = Ok(1)
    /\ UNCHANGED <<ub, loc, batch, copy, saved>>

\* The context holds one position.  libubf compares the buffer and its used
\* size with those of the last call, so it notices most changes in between;
\* what follows one it does not notice is arbitrary.
Bnext(b, first) ==
    LET it == IF first THEN [NoIter EXCEPT !.b = b] ELSE iter
        n == Len(it.seen) + 1
    IN  IF it.b # b
        THEN \E r \in {Throw("BEINVAL"), Ok(Null), Ok(1)} : Return(r)
        ELSE /\ IF n > Len(ub[b])
                THEN iter' = [it EXCEPT !.end = TRUE] /\ ret' = Ok(Null)
                ELSE /\ iter' = [it EXCEPT !.seen = Append(@, BNextResult_new(ub[b], n))]
                     /\ ret' = Ok(n)
             /\ UNCHANGED <<ub, loc, batch, copy, saved>>
=============================================================================
