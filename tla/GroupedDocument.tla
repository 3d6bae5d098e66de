--------------------------- MODULE GroupedDocument ---------------------------
(***************************************************************************)
(* An application collects records, one call at a time, and may at any     *)
(* moment encode what it has; a reader decodes the text.  The library      *)
(* keeps no state, so the state here is the application's, and a property  *)
(* asks what the reader would get now: here, from the records in groups;   *)
(* in GenericDocument, from every other document.                          *)
(***************************************************************************)
EXTENDS GroupedEncoder, GroupedDecoder

CONSTANTS
    Records,    \* for each kind of document, the records it may have
    MaxRows,    \* bound: the records collected for each kind
    KeyName,    \* the field that identifies a record
    GroupName   \* the field that records are grouped by

\* What toAny makes of an object: no key twice, and a value under each.
IsRecord(r) ==
    /\ IsObject(r)
    /\ r.items \in Seq(Range(r.items))
    /\ \A i \in DOMAIN r.items :
          /\ r.items[i].key # << >>
          /\ r.items[i].val.kind \in {"null", "scalar", "object", "array"}
    /\ \A i, j \in DOMAIN r.items : r.items[i].key = r.items[j].key => i = j

ASSUME RecordsAssumption ==
    /\ MaxRows \in [DOMAIN Records -> Nat]
    /\ \A kind \in DOMAIN Records : \A r \in Records[kind] : IsRecord(r)

VARIABLES
    pool,  \* the kind of document
    rows,  \* the records so far
    flat   \* not GenericOptions.NoFlatten; records in groups have nothing to flatten

vars == <<pool, rows, flat>>

Init ==
    /\ pool \in DOMAIN Records
    /\ rows = << >>
    /\ flat \in BOOLEAN

Collect(r) ==
    /\ Len(rows) < MaxRows[pool]
    /\ rows' = Append(rows, r)
    /\ UNCHANGED <<pool, flat>>

Next == \E r \in Records[pool] : Collect(r)

Spec == Init /\ [][Next]_vars

-----------------------------------------------------------------------------

\* v has no key twice, and is the flat object w but for the order of the keys.
SameRecord(v, w) ==
    /\ IsObject(v)
    /\ \A i, j \in DOMAIN v.items : v.items[i].key = v.items[j].key => i = j
    /\ ToSet(Keys(v)) = ToSet(Keys(w))
    /\ \A n \in ToSet(Keys(w)) : Get(v, n) = Get(w, n)

\* What a record of a grouped array is read as: a null for a missing group.
InItsGroup(o, group) == Set(o, group, GroupValue(o, group))

\* r is the records of arr, at these places; those of a group are together, and
\* in the order they came.
RowsInGroups(r, arr, group) ==
    /\ r.ok
    /\ Len(r.val.items) = Len(arr)
    /\ \E at \in [DOMAIN arr -> DOMAIN arr] :
          /\ \A i \in DOMAIN arr : SameRecord(r.val.items[at[i]], InItsGroup(arr[i], group))
          /\ \A i, j \in DOMAIN arr :
                /\ at[i] = at[j] => i = j
                /\ GroupValue(arr[i], group) = GroupValue(arr[j], group) =>
                      /\ i < j => at[i] < at[j]
                      /\ \A k \in DOMAIN arr : at[k] \in at[i] .. at[j] =>
                            GroupValue(arr[k], group) = GroupValue(arr[i], group)

\* Without line k, and with line k twice.
Dropped(lines, k) == [i \in 1 .. Len(lines) - 1 |-> lines[IF i < k THEN i ELSE i + 1]]
Doubled(lines, k) == [i \in 1 .. Len(lines) + 1 |-> lines[IF i <= k THEN i ELSE i - 1]]

-----------------------------------------------------------------------------
(* Properties.                                                             *)

\* A grouped array is read as one, with the same records, those of a group
\* together and in order, however its rows are spelt; a record without the field
\* they are grouped by comes back with a null in it (constant_grouping.go:640-646).
GroupedReadsBack ==
    Groupable(rows, KeyName, GroupName) =>
        LET lines == EncodeGenericGrouped(rows, KeyName, GroupName)
        IN  /\ IsGrouped(lines)
            /\ RowsInGroups(DecodeGrouped(lines), rows, GroupName)

\* A grouped array of which no row is spelt like a group's line, and which has
\* lost a line after its header, of a record or of a group, or has one twice, is
\* refused: "fewer OR more items than declared, is an error"
\* (decode_generic.go:247-252), the first of them where a group's rows end
\* (constant_grouping.go:339-423).  A row that is spelt so may stand in for a
\* group's line that was lost, and the total come out right.
GroupedCountsProtect ==
    Groupable(rows, KeyName, GroupName) =>
        LET lines == EncodeGenericGrouped(rows, KeyName, GroupName)
        IN  (\A i \in DOMAIN lines : SpeltAs(lines[i]) = lines[i]) =>
                \A k \in 2 .. Len(lines) : \A damaged \in {Dropped(lines, k), Doubled(lines, k)} :
                    IsGrouped(damaged) /\ ~DecodeGrouped(damaged).ok
=============================================================================
