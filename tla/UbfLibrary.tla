----------------------------- MODULE UbfLibrary -----------------------------
(***************************************************************************)
(* What libubf promises about a fielded buffer, as operators on its        *)
(* contents: a sequence of <<field, value>>, ordered by field, in which    *)
(* the occurrences of a field are numbered from 0.  The library is not     *)
(* part of the repository; the operators say what the native methods of    *)
(* TypedUbf rely on.                                                       *)
(***************************************************************************)
EXTENDS Integers, Sequences, FiniteSets

CONSTANTS ShortFlds,   \* fields of type BFLD_SHORT
          StringFlds,  \* fields of type BFLD_STRING
          Word         \* a string that is not a number, the empty one included

ASSUME FieldAssumption ==
    /\ ShortFlds \cup StringFlds \subseteq Nat \ {0}
    /\ ShortFlds \cap StringFlds = {}
    /\ Word \in Nat \ {0}

BBADFLDID == 0
Fields == ShortFlds \cup StringFlds

\* A number and its decimal string are one value.
Bfldtype(f) == IF f \in ShortFlds THEN "short" ELSE "string"
ValuesOf(t) == IF t = "short" THEN {0} ELSE {0, Word}

\* Conversion: a string that is not a number reads as 0.
Cvt(v, t) == IF t = "short" /\ v = Word THEN 0 ELSE v
Blank(f) == IF f \in ShortFlds THEN 0 ELSE Word

Upto(c, f) == Cardinality({i \in DOMAIN c : c[i][1] <= f})
Occurrences(c, f) == Cardinality({i \in DOMAIN c : c[i][1] = f})
Has(c, f, o) == o < Occurrences(c, f)
Pos(c, f, o) == Upto(c, f - 1) + o + 1
Value(c, f, o) == c[Pos(c, f, o)][2]
OccAt(c, i) == Cardinality({j \in 1..(i - 1) : c[j][1] = c[i][1]})

InsertAt(c, p, e) == SubSeq(c, 1, p - 1) \o <<e>> \o SubSeq(c, p, Len(c))
RemoveAt(c, p) == SubSeq(c, 1, p - 1) \o SubSeq(c, p + 1, Len(c))

Added(c, f, v) == InsertAt(c, Upto(c, f) + 1, <<f, v>>)

\* Occurrences that are missing before the changed one are filled up.
Changed(c, f, o, v) ==
    IF Has(c, f, o) THEN [c EXCEPT ![Pos(c, f, o)] = <<f, v>>]
    ELSE LET gap == [k \in 1..(o - Occurrences(c, f)) |-> <<f, Blank(f)>>]
         IN  SubSeq(c, 1, Upto(c, f)) \o gap \o <<<<f, v>>>>
                \o SubSeq(c, Upto(c, f) + 1, Len(c))

Deleted(c, f, o) == RemoveAt(c, Pos(c, f, o))

\* The entries of c at the positions in P.
Picked(c, P) ==
    LET upto[n \in 0..Len(c)] ==
            IF n = 0 THEN <<>>
            ELSE IF n \in P THEN Append(upto[n - 1], c[n]) ELSE upto[n - 1]
    IN  upto[Len(c)]

Only(c, flds) == Picked(c, {i \in DOMAIN c : c[i][1] \in flds})

\* The positions in c of the occurrences that s has too.
Common(c, s) == {i \in DOMAIN c : Has(s, c[i][1], OccAt(c, i))}

\* All occurrences of c, with the values of s where s has them.
OuterJoined(c, s) ==
    [i \in DOMAIN c |-> IF i \in Common(c, s)
                        THEN <<c[i][1], Value(s, c[i][1], OccAt(c, i))>> ELSE c[i]]

\* The occurrences of c that s has too, with the values of s.
Joined(c, s) == Picked(OuterJoined(c, s), Common(c, s))

Subset(c, s) ==
    \A i \in DOMAIN s : /\ Has(c, s[i][1], OccAt(s, i))
                        /\ Value(c, s[i][1], OccAt(s, i)) = s[i][2]

\* Entry i of s put into c: as a new occurrence, or as the occurrence it is in s.
Put(how, c, s, i) ==
    IF how = "add" THEN Added(c, s[i][1], s[i][2])
    ELSE Changed(c, s[i][1], OccAt(s, i), s[i][2])

\* Entries put into c one after another until one does not fit.
Filled(c, entries, how, room) ==
    LET at[n \in 0..Len(entries)] ==
            IF n = 0 THEN c ELSE Put(how, at[n - 1], entries, n)
        fits == {n \in 0..Len(entries) : \A k \in 1..n : Len(at[k]) <= room}
        last == CHOOSE m \in fits : \A k \in fits : k <= m
    IN  [all |-> last = Len(entries), c |-> at[last]]

\* The form that Bwrite stores: a header with the size, then the fields.
Stored(c) == <<<<BBADFLDID, Len(c)>>>> \o c
=============================================================================
