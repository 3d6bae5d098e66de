---------------------------- MODULE GenericDelta ----------------------------
(***************************************************************************)
(* The keyed record sets of generic_delta.go: their pack root, the diff of *)
(* two of them, the two payloads, and the consumer's verified apply.       *)
(*                                                                         *)
(* A row maps column names to values; a column a row lacks reads as Null.  *)
(* Two conversions of values are constants, because they are where this    *)
(* code can go wrong and neither is the identity:                          *)
(*                                                                         *)
(*   Canon[v]   canonicalCell: the cell that roots and identities are made *)
(*              of.  Two values with one cell are one value to the diff.   *)
(*   OnWire[v]  parseScalar(formatScalar(v)): what a decoder reads where   *)
(*              an encoder wrote v.                                        *)
(*                                                                         *)
(* A pack root is a SHA-256 of the sorted records; here it is what it      *)
(* hashes, the bag of records.  Sorting of rows and identities, section    *)
(* names, tool and token counts are abstracted; Added, Changed and Removed *)
(* are sets.                                                               *)
(*                                                                         *)
(* A definition marked "Mutant" is a broken variant of the one after it,   *)
(* kept to show which property notices the mistake; nothing uses it.       *)
(***************************************************************************)
EXTENDS Integers, Sequences, FiniteSets, Functions

CONSTANTS
    Columns,  \* column names
    NoKey,    \* the empty Key
    Values,   \* cell values
    Null,     \* nil
    Canon,    \* canonicalCell
    OnWire    \* the wire round trip of a value

ASSUME ValuesAssumption ==
    /\ Null \in Values
    /\ NoKey \notin Columns
    /\ DOMAIN Canon = Values
    /\ OnWire \in [Values -> Values]

\* The decoder's value has the cell of the encoder's (every case of the type
\* switches of canonicalCell and formatScalar; the values may differ).
ASSUME WireKeepsCells == \A v \in Values : Canon[OnWire[v]] = Canon[v]

Value(row, f) == IF f \in DOMAIN row THEN row[f] ELSE Null

canonicalCell(row, f) == Canon[Value(row, f)]

\* One row's record: its cells under the declared columns, in sorted order.
Record(row, fields) == [f \in Range(fields) |-> canonicalCell(row, f)]

\* The bag of records.  Key, column order and row order do not enter it, nor,
\* for a set without rows, do the columns.
GenericPackRoot(s) ==
    [r \in {Record(s.rows[i], s.fields) : i \in DOMAIN s.rows} |->
        Cardinality({i \in DOMAIN s.rows : Record(s.rows[i], s.fields) = r})]

-----------------------------------------------------------------------------
(* indexByKey and DiffGenericSets.                                         *)

Identities(s) == {canonicalCell(s.rows[i], s.key) : i \in DOMAIN s.rows}

IdentitiesUnique(s) ==
    \A i, j \in DOMAIN s.rows :
        canonicalCell(s.rows[i], s.key) = canonicalCell(s.rows[j], s.key) => i = j

\* indexByKey(s), where it does not fail.
RowById(s, id) ==
    s.rows[CHOOSE i \in DOMAIN s.rows : canonicalCell(s.rows[i], s.key) = id]

\* Mutant: the last column is not compared.
rowsEqualButLast(a, b, fields) ==
    \A f \in Range(SubSeq(fields, 1, Len(fields) - 1)) :
        canonicalCell(a, f) = canonicalCell(b, f)

rowsEqual(a, b, fields) == \A f \in Range(fields) : canonicalCell(a, f) = canonicalCell(b, f)

\* Next's test, and DiffGenericSets' own.
SameSchema(base, next) == next.key = base.key /\ next.fields = base.fields

\* DiffGenericSets returns no error.
Diffable(base, next) ==
    /\ next.key # NoKey
    /\ SameSchema(base, next)
    /\ IdentitiesUnique(base)
    /\ IdentitiesUnique(next)

\* The delta from base to next.
DiffGenericSets(base, next) ==
    LET rows == Range(next.rows)
        id(row) == canonicalCell(row, next.key)
    IN  [key |-> next.key,
         fields |-> next.fields,
         baseRoot |-> GenericPackRoot(base),
         newRoot |-> GenericPackRoot(next),
         added |-> {row \in rows : id(row) \notin Identities(base)},
         changed |-> {row \in rows : /\ id(row) \in Identities(base)
                                     /\ ~rowsEqual(RowById(base, id(row)), row, next.fields)},
         removed |-> {Value(row, next.key) :
                        row \in {r \in Range(base.rows) : id(r) \notin Identities(next)}}]

-----------------------------------------------------------------------------
(* The payloads, as their decoders read them.                              *)

RowOnWire(row, fields) == [f \in Range(fields) |-> OnWire[Value(row, f)]]

\* DecodeGenericFull(EncodeGenericFull(s)): the set, with its declared root.
Full(s) ==
    [kind |-> "full",
     root |-> GenericPackRoot(s),
     set |-> [s EXCEPT !.rows = [i \in DOMAIN s.rows |-> RowOnWire(s.rows[i], s.fields)]]]

\* DecodeGenericDelta(EncodeGenericDelta(d)).
Delta(d) ==
    [kind |-> "delta",
     root |-> d.newRoot,
     delta |-> [d EXCEPT !.added = {RowOnWire(row, d.fields) : row \in d.added},
                         !.changed = {RowOnWire(row, d.fields) : row \in d.changed},
                         !.removed = {OnWire[v] : v \in d.removed}]]

-----------------------------------------------------------------------------
(* VerifyGenericDelta.                                                     *)

RemovedIds(d) == {Canon[v] : v \in d.removed}
AddedIds(d) == {canonicalCell(row, d.key) : row \in d.added}
ChangedIds(d) == {canonicalCell(row, d.key) : row \in d.changed}

\* Every change named by d is one that base admits.
Admissible(base, d) ==
    /\ IdentitiesUnique(base)
    /\ RemovedIds(d) \subseteq Identities(base)
    /\ AddedIds(d) \cap Identities(base) = {}
    /\ ChangedIds(d) \subseteq Identities(base)

RowIn(rows, key, id) == CHOOSE row \in rows : canonicalCell(row, key) = id

\* The working copy after the three loops: removed, then added, then changed.
Work(base, d) ==
    [id \in (Identities(base) \ RemovedIds(d)) \cup AddedIds(d) \cup ChangedIds(d) |->
        IF id \in ChangedIds(d) THEN RowIn(d.changed, d.key, id)
        ELSE IF id \in AddedIds(d) THEN RowIn(d.added, d.key, id)
        ELSE RowById(base, id)]

\* The sets the working copy may be read back as: its rows, in any order.
Applied(base, d) ==
    LET work == Work(base, d)
    IN  {[key |-> base.key,
          fields |-> base.fields,
          rows |-> [i \in DOMAIN order |-> work[order[i]]]] :
            order \in Bijection(1 .. Cardinality(DOMAIN work), DOMAIN work)}

Rejection(base, err) == [err |-> err, set |-> base]

\* Mutant: the result is not hashed.
VerifyWithoutResult(base, d, expected) ==
    IF GenericPackRoot(base) # d.baseRoot THEN {Rejection(base, "base_mismatch")}
    ELSE IF ~Admissible(base, d) THEN {Rejection(base, "delta_invalid")}
    ELSE {[err |-> "none", set |-> s] : s \in Applied(base, d)}

\* The possible outcomes: the new set, or an error and the base as it was.
VerifyGenericDelta(base, d, expected) ==
    IF GenericPackRoot(base) # d.baseRoot THEN {Rejection(base, "base_mismatch")}
    ELSE IF ~Admissible(base, d) THEN {Rejection(base, "delta_invalid")}
    ELSE {IF GenericPackRoot(s) = expected THEN [err |-> "none", set |-> s]
          ELSE Rejection(base, "root_mismatch") : s \in Applied(base, d)}
=============================================================================
