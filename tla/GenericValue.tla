---------------------------- MODULE GenericValue ----------------------------
(***************************************************************************)
(* The values of the generic profile: what toAny makes of a Go value and   *)
(* what DecodeGeneric returns.  An object is an OrderedMap.                *)
(*                                                                         *)
(* A name is the sequence of its parts between '>', so <<"a">> is "a",     *)
(* <<"a", "b">> is "a>b" and <<"">> is the empty string.  Scalars are      *)
(* opaque: one token for each, read back as it was written.                *)
(***************************************************************************)
EXTENDS Integers, SequencesExt

\* The name has a '>' in it.
IsPath(n) == Len(n) > 1

\* pathTopLevel: a column of that name is read as a flattened path.
IsPathColumn(n) == IsPath(n) /\ "" \notin Range(n)

Null == [kind |-> "null", items |-> << >>]
Scalar(c) == [kind |-> "scalar", items |-> <<c>>]
Object(pairs) == [kind |-> "object", items |-> pairs]
Array(values) == [kind |-> "array", items |-> values]
Pair(n, v) == [key |-> n, val |-> v]

\* What objectItemGet answers when there is no such key; "~" in a cell.
Absent == [kind |-> "absent", items |-> << >>]

IsObject(v) == v.kind = "object"
IsArray(v) == v.kind = "array"
IsNested(v) == v.kind \in {"object", "array"}

\* SubSeq and @@ have no effect but to make TLC compute each element once.
Mapped(F(_), s) == SubSeq([i \in DOMAIN s |-> F(s[i])], 1, Len(s))
Tabulated(f) == f @@ << >>

Keys(o) == Mapped(LAMBDA p : p.key, o.items)
Members(o) == Mapped(LAMBDA p : p.val, o.items)

\* objectItemGet, nothing for a value that is no object.
Get(v, n) ==
    IF IsObject(v) /\ \E i \in DOMAIN v.items : v.items[i].key = n
    THEN v.items[CHOOSE i \in DOMAIN v.items : v.items[i].key = n].val
    ELSE Absent

Has(v, n) == Get(v, n) # Absent

\* Set: a key that is there keeps its place.
Set(o, n, v) ==
    IF Has(o, n)
    THEN Object(Mapped(LAMBDA p : IF p.key = n THEN Pair(n, v) ELSE p, o.items))
    ELSE Object(Append(o.items, Pair(n, v)))

\* The elements of s that have these places, in order.
Picked(s, places) ==
    LET upTo[i \in 0 .. Len(s)] ==
            IF i = 0 THEN << >>
            ELSE IF i \in places THEN Append(upTo[i - 1], s[i]) ELSE upTo[i - 1]
    IN  upTo[Len(s)]

\* Without repetitions.
Distinct(s) == Picked(s, {i \in DOMAIN s : \A j \in 1 .. i - 1 : s[j] # s[i]})

\* The union of the records' keys, first seen first; none if one is no record
\* or no record has a key.
tabularFields(arr) ==
    IF \A i \in DOMAIN arr : IsObject(arr[i])
    THEN Distinct(FlattenSeq(Mapped(Keys, arr)))
    ELSE << >>

allPrimitives(arr) == \A i \in DOMAIN arr : ~IsNested(arr[i])

\* The values that the records have for a field, nulls left out.
ValuesOf(arr, f) ==
    SelectSeq(Mapped(LAMBDA o : Get(o, f), arr), LAMBDA v : v \notin {Absent, Null})
=============================================================================
