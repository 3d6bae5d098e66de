--------------------------- MODULE GroupedDecoder ---------------------------
(***************************************************************************)
(* What DecodeGeneric (GenericDecoder) does with a grouped array, and what *)
(* that shares with the other forms (decodeGroupedArray in                 *)
(* constant_grouping.go).  No definition is recursive: the loop over the   *)
(* groups is a function of the number of its turns.                        *)
(*                                                                         *)
(* A definition marked "Mutant" is a broken variant of the one after it,   *)
(* kept to show which property notices the mistake; nothing uses it.       *)
(***************************************************************************)
EXTENDS GenericText

CONSTANTS
    Text,  \* the string that a line which is no row is read as
    Spelt  \* rows spelt like a group's line, "g=y [3]" say, and that line

\* Nothing in such a row needs quotes (scalar.go:23-67).
ASSUME SpeltAssumption ==
    \A cells \in DOMAIN Spelt :
        LET l == Spelt[cells]
        IN  /\ l = Line(NameLead(0, l.lead.name), GroupBody(l.body.value, l.body.count))
            /\ l.body.count \in Nat \ {0}

\* A parser returns what it read and the line that comes next, or an error.
Failed == [ok |-> FALSE, val |-> Null, next |-> 0]
Parsed(v, i) == [ok |-> TRUE, val |-> v, next |-> i]

Names(entries) == Mapped(LAMBDA e : e.name, entries)

\* The cells of any line.
CellsOf(l) == IF l.body.form = "cells" THEN l.body.cells ELSE <<Scalar(Text)>>

\* The object with these fields, those left out that have no value.
Inlined(fields, cells) ==
    Object(Picked([k \in DOMAIN fields |-> Pair(fields[k], cells[k])],
                  {k \in DOMAIN fields : cells[k] # Absent}))

\* An array of n values, if that many were read.
Counted(r, n) == IF r.ok /\ Len(r.val) = n THEN Parsed(Array(r.val), r.next) ELSE Failed

\* Nothing may come after it.
AtEnd(r, n) == IF r.next <= n THEN Failed ELSE r

-----------------------------------------------------------------------------

\* The value of an entry in a record of the group v, its cells those of per.
EntryValue(body, v, per, cells, e) ==
    IF e.name = body.group THEN v
    ELSE IF e.const # Absent THEN e.const
    ELSE cells[CHOOSE k \in DOMAIN per : per[k] = e.name]

\* Its keys have the order of the entries.
GroupRecord(body, v, per, cells) ==
    Inlined(Names(body.entries),
            Mapped(LAMBDA e : EntryValue(body, v, per, cells, e), body.entries))

\* The lines from i to j can be rows with that many cells.
GroupRows(lines, i, j, n) ==
    /\ j <= Len(lines)
    /\ \A k \in i .. j :
          /\ lines[k].lead.mark # "##"
          /\ Len(CellsOf(lines[k])) = n
          /\ \A c \in ToSet(CellsOf(lines[k])) : c.kind # "attached"

\* No two records have one key, and all have one.
UniqueKeys(records, key) ==
    \A k \in DOMAIN records :
        /\ Get(records[k], key) # Absent
        /\ \A j \in DOMAIN records : Get(records[j], key) = Get(records[k], key) => j = k

KeyColumn(body) == body.entries[CHOOSE k \in DOMAIN body.entries : body.entries[k].isKey].name

PerRecordNames(body) ==
    Names(Picked(body.entries, {k \in DOMAIN body.entries :
        body.entries[k].const = Absent /\ body.entries[k].name # body.group}))

\* The groups read so far: their records and values, and the line that comes next.
Reading(ok, val, next, groups) == [ok |-> ok, val |-> val, next |-> next, groups |-> groups]

\* What parseGroupSubheader makes of a line.  It has only the text, so a row
\* may pass for a group's line.
SpeltAs(l) ==
    IF l.body.form = "cells" /\ l.body.cells \in DOMAIN Spelt THEN Spelt[l.body.cells] ELSE l

\* Line i is "g=value [n]" with a new value, and n rows follow.
GroupAt(lines, i, body, per, groups) ==
    LET l == SpeltAs(lines[i])
    IN  /\ l.body.form = "group" /\ l.body.count > 0
        /\ l.lead.depth = 0
        /\ l.lead.name = body.group
        /\ l.body.value \notin groups
        /\ GroupRows(lines, i + 1, i + l.body.count, Len(per))

\* The records of the group that begins on line i.
GroupRecords(lines, i, body, per) ==
    Mapped(LAMBDA l : GroupRecord(body, SpeltAs(lines[i]).body.value, per, CellsOf(l)),
           SubSeq(lines, i + 1, i + SpeltAs(lines[i]).body.count))

\* Mutant: a group has the rows up to the next group's line, whatever its count.
ReadGroupUncounted(lines, body, per, s) ==
    LET i == s.next
        end == CHOOSE e \in i .. Len(lines) :
                   /\ \A k \in i + 1 .. e : SpeltAs(lines[k]).body.form # "group"
                   /\ e < Len(lines) => SpeltAs(lines[e + 1]).body.form = "group"
        counted == [lines EXCEPT ![i].body.count = end - i]
        records == GroupRecords(counted, i, body, per)
    IN  IF ~s.ok \/ i > Len(lines) THEN s
        ELSE IF /\ lines[i].body.form = "group"
                /\ GroupAt(counted, i, body, per, s.groups)
                /\ UniqueKeys(s.val \o records, KeyColumn(body))
        THEN Reading(TRUE, s.val \o records, end + 1, s.groups \cup {lines[i].body.value})
        ELSE Reading(FALSE, s.val, i, s.groups)

\* One more group, added to those in s.
ReadGroup(lines, body, per, s) ==
    IF ~s.ok \/ s.next > Len(lines) THEN s
    ELSE IF lines[s.next].lead.mark = "##" THEN s
    ELSE IF /\ GroupAt(lines, s.next, body, per, s.groups)
            /\ UniqueKeys(s.val \o GroupRecords(lines, s.next, body, per), KeyColumn(body))
    THEN Reading(TRUE, s.val \o GroupRecords(lines, s.next, body, per),
                 s.next + SpeltAs(lines[s.next]).body.count + 1,
                 s.groups \cup {SpeltAs(lines[s.next]).body.value})
    ELSE Reading(FALSE, s.val, s.next, s.groups)

\* The groups from line i on.  There are no more of them than lines.
decodeGroups(lines, i, body, per) ==
    LET after[n \in 0 .. Len(lines)] ==
            IF n = 0 THEN Reading(TRUE, << >>, i, {})
            ELSE ReadGroup(lines, body, per, after[n - 1])
    IN  after[Len(lines)]

\* One key column, and a group column that is neither it nor a constant.
decodeGroupedArray(lines, i, body) ==
    IF /\ \E k \in DOMAIN body.entries :
             \A j \in DOMAIN body.entries : body.entries[j].isKey <=> j = k
       /\ \E k \in DOMAIN body.entries : /\ body.entries[k].name = body.group
                                         /\ ~body.entries[k].isKey
                                         /\ body.entries[k].const = Absent
    THEN Counted(decodeGroups(lines, i + 1, body, PerRecordNames(body)), body.count)
    ELSE Failed

\* A document that is a grouped array, and what DecodeGeneric makes of it.
IsGrouped(lines) ==
    /\ lines # << >>
    /\ lines[1].lead = RootLead /\ lines[1].body.form = "table" /\ lines[1].body.group # NoGroup

DecodeGrouped(lines) == AtEnd(decodeGroupedArray(lines, 1, lines[1].body), Len(lines))
=============================================================================
