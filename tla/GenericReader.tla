--------------------------- MODULE GenericReader ---------------------------
(***************************************************************************)
(* DecodeGeneric (decode_generic.go) on the lines that a streaming encoder *)
(* can write at the root of a document, as a fold: a reader's state and    *)
(* what one more line does to it.  Stopping the fold anywhere is decoding  *)
(* the text so far.                                                        *)
(*                                                                         *)
(* A document is the ordered map of its root, a sequence of entries with   *)
(* distinct names.  A table is the rows it has, a row the cells it has;    *)
(* field names are abstracted to their number, and scalars to values that  *)
(* come back as they were written.                                         *)
(***************************************************************************)
EXTENDS Integers, Sequences

CONSTANTS
    BareKeys,   \* names that isBareKey accepts
    OtherKeys,  \* names that need quotes (a space in them, say)
    Values,
    Text        \* the string that a line taken for a cell is read as

ASSUME NamesAssumption == BareKeys \cap OtherKeys = {} /\ Text \notin Values

Names == BareKeys \cup OtherKeys

\* Lines.  A table header defers its count: "[?]", or "[?:]" for a keyed map.
HeaderLine(n, keyed, width) ==
    [line |-> "header", name |-> n, keyed |-> keyed, width |-> width]
RowLine(cells) == [line |-> "row", cells |-> cells]
PairLine(n, v) == [line |-> "pair", name |-> n, value |-> v]
InlineLine(n, vs) == [line |-> "inline", name |-> n, values |-> vs]
SectionLine(n) == [line |-> "section", name |-> n]
TrailerLine(counts) == [line |-> "trailer", counts |-> counts]

\* Entries of a document.
Table(n, keyed) == [name |-> n, kind |-> IF keyed THEN "map" ELSE "rows", items |-> << >>]
Pair(n, v) == [name |-> n, kind |-> "scalar", items |-> <<v>>]
Inline(n, vs) == [name |-> n, kind |-> "inline", items |-> vs]
EmptyObject(n) == [name |-> n, kind |-> "object", items |-> << >>]

Keys(doc) == {doc[i].name : i \in DOMAIN doc}

NoTable == [keyed |-> FALSE, width |-> 0]

FreshReader ==
    [ok |-> TRUE,         \* no error so far
     doc |-> << >>,
     open |-> NoTable,    \* the header whose rows are being read
     counts |-> << >>,    \* items below each deferred header
     trailer |-> << >>]   \* the counts of the last trailer, none being ""

Failed(r) == [r EXCEPT !.ok = FALSE]

AddEntry(r, e) == [r EXCEPT !.doc = Append(@, e)]

ReadHeader(r, l) ==
    IF l.name \in Keys(r.doc) \/ (l.keyed /\ l.width < 2)
    THEN Failed(r)
    ELSE [AddEntry(r, Table(l.name, l.keyed)) EXCEPT
            !.open = [keyed |-> l.keyed, width |-> l.width],
            !.counts = Append(@, 0)]

\* The cells of a line below a table's header.  A blank line has been dropped
\* before; any other line is split into cells.
CellsOf(l) == IF l.line = "row" THEN l.cells ELSE <<Text>>

IsBlank(l) == l.line = "row" /\ l.cells = << >>

\* The open table is the last entry.  A keyed map refuses a member it has.
ReadRow(r, cells) ==
    LET rows == r.doc[Len(r.doc)].items
    IN  IF \/ Len(cells) # r.open.width
           \/ r.open.keyed /\ \E i \in DOMAIN rows : Head(rows[i]) = Head(cells)
        THEN Failed(r)
        ELSE [r EXCEPT !.doc[Len(r.doc)].items = Append(@, cells),
                       !.counts[Len(r.counts)] = @ + 1]

\* A key that should have been quoted is not a key: the line is passed over.
ReadPair(r, l) ==
    IF l.name \in OtherKeys THEN r
    ELSE IF l.name \in Keys(r.doc) THEN Failed(r)
    ELSE AddEntry(r, Pair(l.name, l.value))

\* An inline array replaces what its name had, in place.
ReadInline(r, l) ==
    IF l.name \notin Keys(r.doc)
    THEN AddEntry(r, Inline(l.name, l.values))
    ELSE [r EXCEPT !.doc = [i \in DOMAIN @ |->
            IF @[i].name = l.name THEN Inline(l.name, l.values) ELSE @[i]]]

\* The body of a section is indented; the next line, which is not, ends it.
ReadSection(r, l) ==
    IF l.name \in Keys(r.doc) THEN Failed(r)
    ELSE [AddEntry(r, EmptyObject(l.name)) EXCEPT !.open = NoTable]

\* One more line.  A table is left at the next header or section only.
Read(r, l) ==
    IF ~r.ok \/ IsBlank(l) THEN r
    ELSE CASE l.line = "header"  -> ReadHeader(r, l)
           [] l.line = "section" -> ReadSection(r, l)
           [] l.line = "trailer" -> [r EXCEPT !.trailer = l.counts]
           [] OTHER -> IF r.open # NoTable THEN ReadRow(r, CellsOf(l))
                       ELSE CASE l.line = "pair"   -> ReadPair(r, l)
                              [] l.line = "inline" -> ReadInline(r, l)
                              [] OTHER -> Failed(r)

\* DecodeGeneric returns the document: no line failed, and the trailer's counts,
\* if there is a trailer, are the items below each deferred header.
Accepts(r) == r.ok /\ (r.trailer # << >> => r.trailer = r.counts)
=============================================================================
