--------------------------- MODULE GroupedEncoder ---------------------------
(***************************************************************************)
(* EncodeGenericGrouped (constant_grouping.go): an array of flat records   *)
(* with a unique key, clustered by the value of one field.                 *)
(*                                                                         *)
(* A definition marked "Mutant" is a broken variant of the one after it,   *)
(* kept to show which property notices the mistake; nothing uses it.       *)
(***************************************************************************)
EXTENDS GenericText

\* What it takes, or the encoder returns an error.
Groupable(arr, key, group) ==
    LET fields == tabularFields(arr)
    IN  /\ key # group
        /\ {key, group} \subseteq ToSet(fields)
        /\ \A i \in DOMAIN arr : /\ allPrimitives(Members(arr[i]))
                                 /\ Get(arr[i], key) \notin {Absent, Null}
        /\ \A i, j \in DOMAIN arr : Get(arr[i], key) = Get(arr[j], key) => i = j

\* The fields with one value in all of two or more records.
FactoredFields(arr, fields, key, group) ==
    IF Len(arr) < 2 THEN {}
    ELSE {f \in ToSet(fields) \ {key, group} :
            Has(arr[1], f) /\ \A i \in DOMAIN arr : Get(arr[i], f) = Get(arr[1], f)}

\* The value a record is clustered by: Go's nil for a missing field.
GroupValue(item, group) == IF Has(item, group) THEN Get(item, group) ELSE Null

\* Mutant: the constants are left in the rows.
PerRecordUnfactored(fields, group, constant) ==
    Picked(fields, {k \in DOMAIN fields : fields[k] # group})

PerRecord(fields, group, constant) ==
    Picked(fields, {k \in DOMAIN fields : fields[k] # group /\ fields[k] \notin constant})

\* The entries of the header, in the order of the fields.
HeaderEntries(arr, fields, key, constant) ==
    Mapped(LAMBDA f : Entry(f, IF f \in constant THEN Get(arr[1], f) ELSE Absent, f = key), fields)

\* The groups, in the order in which their values come first.
GroupValues(arr, group) == Distinct(Mapped(LAMBDA o : GroupValue(o, group), arr))

GroupMembers(arr, group, v) == Picked(arr, {i \in DOMAIN arr : GroupValue(arr[i], group) = v})

MemberLine(o, per) == Line(NoLead(0), CellsBody(Mapped(LAMBDA f : Get(o, f), per)))

\* A group's own line and its members' rows.
Cluster(v, members, group, per) ==
    <<Line(NameLead(0, group), GroupBody(v, Len(members)))>>
    \o Mapped(LAMBDA o : MemberLine(o, per), members)

EncodeGenericGrouped(arr, key, group) ==
    LET fields == tabularFields(arr)
        constant == FactoredFields(arr, fields, key, group)
        per == PerRecord(fields, group, constant)
    IN  <<Line(RootLead, TableBody(Len(arr), FALSE, HeaderEntries(arr, fields, key, constant), group))>>
        \o FlattenSeq(Mapped(LAMBDA v : Cluster(v, GroupMembers(arr, group, v), group, per),
                             GroupValues(arr, group)))
=============================================================================
