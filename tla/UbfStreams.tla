----------------------------- MODULE UbfStreams -----------------------------
(***************************************************************************)
(* The methods of TypedUbf that move a whole buffer between C and Java     *)
(* through callbacks of libubf or through text: Bread and Bwrite over a    *)
(* byte array, Bextread over a BufferedReader, and JSON.                   *)
(***************************************************************************)
EXTENDS TypedUbf

\* Control block of the callbacks: the memory and how far it is used.
NoMemory == [buf |-> <<>>, offset |-> 0]

\* Mutation of Bwrite_writef: the offset is set, not advanced.
Bwrite_writef_set(ctl, piece) ==
    [buf |-> SubSeq(ctl.buf, 1, ctl.offset) \o piece, offset |-> Len(piece)]

\* The memory is allocated or extended to hold what came before and the piece.
Bwrite_writef(ctl, piece) ==
    [buf |-> SubSeq(ctl.buf, 1, ctl.offset) \o piece, offset |-> ctl.offset + Len(piece)]

\* libubf writes in one piece or in several; memory may be exhausted.
Bwrite(b) ==
    \/ \E cut \in 0..Len(Stored(ub[b])) :
          LET all == Stored(ub[b])
              fst == IF cut = 0 THEN NoMemory
                     ELSE Bwrite_writef(NoMemory, SubSeq(all, 1, cut))
              ctl == Bwrite_writef(fst, SubSeq(all, cut + 1, Len(all)))
          IN  /\ copy' = [kind |-> "bytes", data |-> SubSeq(ctl.buf, 1, ctl.offset)]
              /\ saved' = ub[b]
              /\ ret' = Ok(0)
              /\ UNCHANGED <<ub, loc, batch, iter>>
    \/ Return(Throw("BEUNIX"))

\* The first call is asked for the header and must find it in the array, the
\* second one returns the rest whatever it is asked for.
Bread_readf(ctl, arr, n) ==
    IF ctl.offset = 0
    THEN IF Len(arr) < n THEN [got |-> <<>>, offset |-> 0, ok |-> FALSE]
         ELSE [got |-> SubSeq(arr, 1, n), offset |-> n, ok |-> TRUE]
    ELSE [got |-> SubSeq(arr, ctl.offset + 1, Len(arr)), offset |-> ctl.offset, ok |-> TRUE]

\* Breadcb of libubf: header, size test, fields.
Breadcb(arr, room) ==
    LET head == Bread_readf(NoMemory, arr, 1)
        body == Bread_readf([NoMemory EXCEPT !.offset = head.offset], arr, head.got[1][2])
    IN  IF ~head.ok THEN Throw("BEINVAL")
        ELSE IF head.got[1][1] # BBADFLDID \/ Len(body.got) # head.got[1][2]
        THEN Throw("BEINVAL")
        ELSE IF Len(body.got) > room THEN Throw("BNOSPACE") ELSE Ok(body.got)

\* Bread of an array the program got from Bwrite, or of an empty one.
Bread(b, arr) ==
    LET r == Breadcb(arr, Cap(b))
    IN  IF r.ex = "none" THEN Set(b, r.val) /\ ret' = Ok(0) ELSE Return(r)

\* What a BufferedReader still returns, and whether it then throws.
Readers == [lines : {<<>>} \cup {<<<<f, v>>>> : f \in Fields, v \in {0}},
            throws : BOOLEAN]

\* One line: an entry, the end of the input, or an exception.
Bextread_readf(rd, n) ==
    IF n <= Len(rd.lines) THEN <<rd.lines[n]>> ELSE <<>>

\* Every line adds a field.  An exception of the reader leaves the lines before
\* it in the buffer, and stays pending while Bextread throws its own.
Bextread(b, rd) ==
    LET entries == Bextread_readf(rd, 1)
        r == Filled(ub[b], entries, "add", Cap(b))
    IN  /\ Set(b, r.c)
        /\ ret' \in IF ~r.all THEN {Throw("BNOSPACE")}
                    ELSE IF rd.throws THEN {Throw("IOException"), Throw("BEINVAL")}
                    ELSE {Ok(0)}

tpubftojson(b) ==
    /\ copy' = [kind |-> "json", data |-> ub[b]]
    /\ saved' = ub[b]
    /\ ret' = Ok(0)
    /\ UNCHANGED <<ub, loc, batch, iter>>

\* Fields of the text replace the occurrences that the buffer has.
tpjsontoubf(b) ==
    /\ copy.kind = "json"
    /\ StoreEach(b, copy.data, "change")

-----------------------------------------------------------------------------
UbfNext ==
    \/ \E b \in Bufs, f \in Fields, t \in {"short", "string"} :
          \/ \E v \in ValuesOf(t) : Baddfast(b, f, v, t)
          \/ \E v \in ValuesOf(t) \cup IF t = "string" THEN {Null} ELSE {} :
                \/ Badd(b, f, v, t)
                \/ \E o \in 0..1 : Bchg(b, f, o, v, t)
    \/ reset
    \/ \E b \in Bufs, f \in Fields, o \in 0..1 :
          \/ BgetShort(b, f, o) \/ BgetString(b, f, o)
          \/ Bdel(b, f, o) \/ Bpres(b, f, o) \/ Blen(b, f, o)
    \/ \E b \in Bufs, f \in Fields : Bdelall(b, f) \/ Boccur(b, f)
    \/ \E b \in Bufs, jarr \in {<<f>> : f \in Fields} \cup {<<>>} :
          Bdelete(b, jarr) \/ Bproj(b, jarr) \/ \E s \in Bufs \ {b} : Bprojcpy(b, s, jarr)
    \/ \E b \in Bufs : \E s \in Bufs \ {b} :
          \/ Bconcat(b, s) \/ Bcpy(b, s) \/ Bupdate(b, s)
          \/ Bjoin(b, s) \/ Bojoin(b, s) \/ Bcmp(b, s) \/ Bsubset(b, s)
    \/ \E b \in Bufs :
          \/ Bisubf(b) \/ Bsizeof(b) \/ Bunused(b) \/ Bused(b) \/ Bnum(b)
          \/ tplogprintubf(b) \/ Bprint(b) \/ Binit(b)
          \/ Bwrite(b) \/ tpubftojson(b) \/ tpjsontoubf(b)
    \/ \E b \in Bufs, first \in BOOLEAN : Bnext(b, first)
    \/ \E b \in Bufs, rd \in Readers : Bextread(b, rd)
    \/ \E b \in Bufs : \E arr \in {<<>>} \cup IF copy.kind = "bytes" THEN {copy.data} ELSE {} :
          Bread(b, arr)

UbfSpec == UbfInit /\ [][UbfNext]_vars

-----------------------------------------------------------------------------
(* Properties. *)

\* Between a Bnext(true) and the end, on a buffer that nobody modifies, Bnext
\* returns every occurrence of every field once, in order, and reports the end
\* only after the last one - although the position is kept in the C context
\* and not in the Java object.
IterationExact ==
    iter.b # None =>
        LET all == [i \in DOMAIN ub[iter.b] |-> BNextResult_new(ub[iter.b], i)]
        IN  /\ Len(iter.seen) <= Len(all) /\ iter.seen = SubSeq(all, 1, Len(iter.seen))
            /\ iter.end => iter.seen = all

\* Over any number of calls of a batch, with failures in between, Baddfast
\* leaves the buffer as Badd would: the location that travels through the Java
\* object always names the place of the field added last.
FastIsAdd ==
    [][\A b \in Bufs : batch' = b /\ ub'[b] # ub[b] =>
          \E v \in ValuesOf(Bfldtype(loc'.last)) : ub'[b] = Added(ub[b], loc'.last, v)]_vars

\* However libubf cuts what it writes into pieces, the bytes that Bwrite has
\* returned give back the same contents in any buffer with room for them, no
\* matter what became of the buffer since; so does JSON in an empty buffer.
RoundTrip ==
    \A b \in Bufs : Len(saved) <= Cap(b) =>
        /\ copy.kind = "bytes" => Breadcb(copy.data, Cap(b)) = Ok(saved)
        /\ copy.kind = "json" => Filled(<<>>, copy.data, "change", Cap(b)).c = saved
=============================================================================
