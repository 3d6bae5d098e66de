--------------------------- MODULE GenericDecoder ---------------------------
(***************************************************************************)
(* DecodeGeneric (decode_generic.go, and the reading half of               *)
(* constant_grouping.go and keyed_map.go) on the lines that EncodeGeneric  *)
(* and EncodeGenericGrouped write, or some of them, in any order.          *)
(* Deferred counts are in GenericReader.  Left out are the forms of version *)
(* 2: indented attachments and inline bodies after ".name ".               *)
(***************************************************************************)
EXTENDS GroupedDecoder

\* Line i, if there is one, is at that depth; headers end any table.
At(lines, i, depth) == i <= Len(lines) /\ lines[i].lead.depth = depth
RowAt(lines, i, depth) == At(lines, i, depth) /\ lines[i].lead.mark # "##"

\* What follows the lead of line i, with the lines it leads at depth.
RECURSIVE ReadBody(_, _, _)

-----------------------------------------------------------------------------

\* The object out with one more member, when that could be read.
Member(out, n, sub) == IF sub.ok THEN Parsed(Set(out, n, sub.val), sub.next) ELSE Failed

\* What line i, and what it leads, make of the object out.  A value whose name
\* is no key is passed over; anything else that is no name with a value and no
\* section is an error.  An inline array replaces what its name had.
ReadMember(lines, i, depth, out) ==
    LET l == lines[i]
        n == l.lead.name
        here(marks) == l.lead.depth = depth /\ l.lead.mark \in marks
        fresh == n # << >> /\ ~Has(out, n)
    IN  IF \/ here({"##"}) /\ l.body.form \in {"object", "list", "items", "table"} /\ fresh
           \/ here({""}) /\ l.body.form = "value" /\ fresh
           \/ here({""}) /\ l.body.form = "list"
        THEN Member(out, n, ReadBody(lines, i, IF l.body.form = "object" THEN depth + 1 ELSE depth))
        ELSE IF here({"@", "."}) /\ l.body.form = "value"
        THEN Parsed(out, i + 1)
        ELSE Failed

\* One level of names, values and sections, added to those read so far.
RECURSIVE parseObjectBody(_, _, _, _)
GoOnWithObject(lines, depth, r) ==
    IF r.ok THEN parseObjectBody(lines, r.next, depth, r.val) ELSE Failed

parseObjectBody(lines, i, depth, out) ==
    IF i > Len(lines) \/ lines[i].lead.depth < depth THEN Parsed(out, i)
    ELSE GoOnWithObject(lines, depth, ReadMember(lines, i, depth, out))

\* Items "@0", "@1" and so on, added to those there are.
RECURSIVE parseExpandedBody(_, _, _, _)
GoOnWithItems(lines, depth, items, r) ==
    IF r.ok THEN parseExpandedBody(lines, r.next, depth, Append(items, r.val)) ELSE Failed

parseExpandedBody(lines, i, depth, items) ==
    IF ~At(lines, i, depth) \/ lines[i].lead.mark # "@" \/ lines[i].body.form = "cells"
    THEN Parsed(items, i)
    ELSE IF lines[i].lead.id # Len(items) THEN Failed
    ELSE GoOnWithItems(lines, depth, items, ReadBody(lines, i, depth + 1))

-----------------------------------------------------------------------------
(* Tables.                                                                 *)

RECURSIVE SetPath(_, _, _)
SetPath(o, path, v) ==
    IF Len(path) = 1 THEN Set(o, path, v)
    ELSE LET top == <<Head(path)>>
         IN  Set(o, top, SetPath(IF Has(o, top) THEN Get(o, top) ELSE Object(<< >>), Tail(path), v))

\* Mutant: nulls in all of a group's columns are an object of nulls.
unflattenPathsNulls(o, columns, cells) ==
    FoldLeft(LAMBDA r, j : IF IsPathColumn(columns[j]) /\ cells[j] # Absent
                           THEN SetPath(r, columns[j], cells[j]) ELSE r,
             o, [j \in DOMAIN columns |-> j])

\* The path columns' values become nested objects in o.  A group of columns
\* with one top name and nulls in all of them is null.
unflattenPaths(o, columns, cells) ==
    LET group(j) == {k \in DOMAIN columns : IsPathColumn(columns[k])
                                            /\ Head(columns[k]) = Head(columns[j])}
        put(r, j) == IF ~IsPathColumn(columns[j]) \/ cells[j] = Absent THEN r
                     ELSE IF \A k \in group(j) : cells[k] = Null
                     THEN Set(r, <<Head(columns[j])>>, Null)
                     ELSE SetPath(r, columns[j], cells[j])
    IN  FoldLeft(put, o, [j \in DOMAIN columns |-> j])

\* outputOrder: the keys in the order of the header.
outputOrder(columns) ==
    Distinct(Mapped(LAMBDA c : IF IsPathColumn(c) THEN <<Head(c)>> ELSE c, columns))

\* Mutant: the keys stay in the order in which their values came.
ReorderedAsRead(o, order) == o

\* The keys in that order, others after them as they came.
Reordered(o, order) ==
    LET extra == SelectSeq(Keys(o), LAMBDA n : ~Contains(order, n))
    IN  Object(Mapped(LAMBDA n : Pair(n, Get(o, n)),
                      SelectSeq(order, LAMBDA n : Has(o, n)) \o extra))

\* An inline body may be any line, and keeps its "@id ".
InlineCells(l) ==
    IF l.lead.mark = "@" THEN <<Scalar(Text)>> \o Tail(CellsOf(l)) ELSE CellsOf(l)

RECURSIVE parseTabularBody(_, _, _, _, _)

\* What an attachment's line and its body say.  "[N]" is a table with the fields
\* of the first row's attachment of that name, unless an item follows.
parseAttachment(lines, i, depth, shared) ==
    LET l == lines[i]
        n == l.lead.name
    IN  IF /\ l.body.form = "items" /\ l.body.count > 0
           /\ n \in DOMAIN shared
           /\ ~(i < Len(lines) /\ lines[i + 1].lead.mark = "@")
        THEN Counted(parseTabularBody(lines, depth, shared[n], l.body.count,
                         [next |-> i + 1, rows |-> << >>, inline |-> << >>, shared |-> shared]),
                     l.body.count)
        ELSE ReadBody(lines, i, depth)

\* The next "." line, l, of a row has been read as sub.
Attach(r, l, sub) ==
    LET n == l.lead.name
    IN  IF \/ n \notin r.expected \cup ToSet(r.inlineFields) /\ ~IsPath(n)
           \/ n \in r.done
           \/ ~sub.ok
        THEN [r EXCEPT !.ok = FALSE]
        ELSE [r EXCEPT !.val = Set(@, n, sub.val), !.done = @ \cup {n}, !.next = sub.next,
                       !.shared = IF r.first /\ l.body.form = "table"
                                  THEN (n :> Names(l.body.entries)) @@ @ ELSE @]

\* The next inline body of a row is for the field f.
AttachInline(r, f, cells) ==
    IF Len(cells) # Len(r.inline[f]) THEN [r EXCEPT !.ok = FALSE]
    ELSE [r EXCEPT !.val = Set(@, f, Inlined(r.inline[f], cells)),
                   !.done = @ \cup {f}, !.next = @ + 1]

\* The attachments of one row.  r has the object read so far, the fields that
\* have come, the inline fields in order and those that await a "." line.
RECURSIVE Attachments(_, _, _)
Attachments(lines, depth, r) ==
    LET l == lines[r.next]
        left == SelectSeq(r.inlineFields, LAMBDA f : f \notin r.done)
        dotted == l.lead.mark = "."
    IN  IF ~r.ok \/ r.next > Len(lines) THEN r
        ELSE IF l.lead.depth < depth \/ (~dotted /\ left = << >>) THEN r
        ELSE Attachments(lines, depth,
                 IF dotted THEN Attach(r, l, parseAttachment(lines, r.next, depth + 2, r.shared))
                 ELSE AttachInline(r, Head(left), InlineCells(l)))

\* The inline schemas known after a row with these cells.
Declared(columns, cells, inline) ==
    LET declared == {j \in DOMAIN columns : cells[j].kind = "attached" /\ cells[j].items # << >>}
    IN  [f \in {columns[j] : j \in declared} |->
            cells[CHOOSE j \in declared : columns[j] = f].items] @@ inline

AttachedColumns(columns, cells) ==
    SelectSeq(columns, LAMBDA c : \E j \in DOMAIN columns :
        columns[j] = c /\ cells[j].kind = "attached" /\ ~IsPathColumn(c))

\* The members that a row's own cells give.
PlainMembers(columns, cells) ==
    Object(Mapped(LAMBDA j : Pair(columns[j], cells[j]),
                  SelectSeq([j \in DOMAIN columns |-> j], LAMBDA j :
                      ~IsPathColumn(columns[j]) /\ cells[j].kind \notin {"absent", "attached"})))

\* A row before its attachments.
RowOf(columns, cells, s, attached, inline) ==
    [ok |-> TRUE, val |-> unflattenPaths(PlainMembers(columns, cells), columns, cells),
     next |-> s.next + 1, inline |-> inline, shared |-> s.shared,
     first |-> s.rows = << >>, done |-> {},
     expected |-> {c \in ToSet(attached) : c \notin DOMAIN inline},
     inlineFields |-> SelectSeq(attached, LAMBDA c : c \in DOMAIN inline)]

\* The row on line s.next; attachments follow only if it has an id.
ReadRow(lines, depth, columns, cells, s) ==
    LET row == RowOf(columns, cells, s, AttachedColumns(columns, cells),
                     Declared(columns, cells, s.inline))
    IN  IF lines[s.next].lead.mark = "@" THEN Attachments(lines, depth, row)
        ELSE [row EXCEPT !.done = ToSet(AttachedColumns(columns, cells))]

\* The rows of a table with these columns, as long as some are missing.  s has
\* the rows so far and the schemas that earlier rows declared.
GoOnWithRows(lines, depth, columns, count, s, r) ==
    IF r.ok /\ r.expected \cup ToSet(r.inlineFields) \subseteq r.done
    THEN parseTabularBody(lines, depth, columns, count,
             [next |-> r.next, inline |-> r.inline, shared |-> r.shared,
              rows |-> Append(s.rows, Reordered(r.val, outputOrder(columns)))])
    ELSE Failed

parseTabularBody(lines, depth, columns, count, s) ==
    IF Len(s.rows) >= count \/ ~RowAt(lines, s.next, depth)
    THEN [ok |-> TRUE, val |-> s.rows, next |-> s.next]
    ELSE IF Len(CellsOf(lines[s.next])) # Len(columns) THEN Failed
    ELSE GoOnWithRows(lines, depth, columns, count, s,
             ReadRow(lines, depth, columns, CellsOf(lines[s.next]), s))

-----------------------------------------------------------------------------
(* Array headers.                                                          *)

\* The first column has the members' names.
keyedRowsToMap(rows, columns, next) ==
    LET name(k) == Get(rows[k], columns[1])
        rest(k) == Object(SelectSeq(rows[k].items, LAMBDA p : p.key # columns[1]))
    IN  IF \/ Len(columns) < 2
           \/ \E k \in DOMAIN rows : name(k) = Absent
           \/ \E j, k \in DOMAIN rows : j # k /\ name(j) = name(k)
        THEN Failed
        ELSE Parsed(Object([k \in DOMAIN rows |-> Pair(name(k).items[1], rest(k))]), next)

\* A record with the constant entries, its keys in that order.
WithConstants(o, entries, order) ==
    Reordered(FoldLeft(LAMBDA r, e : IF e.const = Absent THEN r ELSE Set(r, e.name, e.const),
                       o, entries),
              order)

\* A table's rows, as the map or the array that the header says.
TableValue(table, body, columns) ==
    IF ~table.ok THEN Failed
    ELSE IF Len(table.val) # body.count THEN Failed
    ELSE IF body.keyed THEN keyedRowsToMap(table.val, columns, table.next)
    ELSE Parsed(Array(Mapped(LAMBDA o : WithConstants(o, body.entries,
                                            outputOrder(Names(body.entries))), table.val)),
                table.next)

BareNames(entries) == Names(SelectSeq(entries, LAMBDA e : e.const = Absent))

\* The array, or the map, that begins with the body of line i.
parseArrayFromHeader(lines, i, depth, body) ==
    CASE body.form = "list" ->
            IF Len(body.values) = body.count THEN Parsed(Array(body.values), i + 1) ELSE Failed
      [] body.form = "table" ->
            IF body.group # NoGroup THEN decodeGroupedArray(lines, i, body)
            ELSE IF BareNames(body.entries) = << >> THEN Failed
            ELSE TableValue(parseTabularBody(lines, depth, BareNames(body.entries), body.count,
                                [next |-> i + 1, rows |-> << >>, inline |-> << >>, shared |-> << >>]),
                            body, BareNames(body.entries))
      [] body.form = "items" ->
            IF body.count = 0 THEN Parsed(Array(<< >>), i + 1)
            ELSE Counted(parseExpandedBody(lines, i + 1, depth, << >>), body.count)

ReadBody(lines, i, depth) ==
    CASE lines[i].body.form = "value" -> Parsed(lines[i].body.value, i + 1)
      [] lines[i].body.form = "object" -> parseObjectBody(lines, i + 1, depth, Object(<< >>))
      [] IsArrayBody(lines[i].body) -> parseArrayFromHeader(lines, i, depth, lines[i].body)
      [] OTHER -> Failed

\* Mutant: lines after a root array are not looked at.
parseArraySectionLoose(lines) == ReadBody(lines, 1, 0)

\* A root array or keyed map is the whole document.
parseArraySection(lines) ==
    IF IsGrouped(lines) THEN DecodeGrouped(lines) ELSE AtEnd(ReadBody(lines, 1, 0), Len(lines))

DecodeGeneric(lines) ==
    IF lines = << >> THEN Parsed(Object(<< >>), 1)
    ELSE IF lines[1].lead = NoLead(0) /\ lines[1].body.form = "value"
    THEN IF Len(lines) = 1 THEN Parsed(lines[1].body.value, 2) ELSE Failed
    ELSE IF lines[1].lead = RootLead /\ IsArrayBody(lines[1].body)
    THEN parseArraySection(lines)
    ELSE parseObjectBody(lines, 1, 0, Object(<< >>))
=============================================================================
