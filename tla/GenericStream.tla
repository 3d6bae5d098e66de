--------------------------- MODULE GenericStream ---------------------------
(***************************************************************************)
(* The streaming encoder of the generic profile, stream_generic.go.  Every *)
(* method holds the mutex for its whole body, so a call is a step.  A      *)
(* reader (GenericReader) follows the output.                              *)
(*                                                                         *)
(* The encoder trusts its callers with nearly everything: names, widths,   *)
(* member keys, and where a line lands.  Calls that no documentation       *)
(* allows are modelled too, and noted in "mistakes".  A line after an      *)
(* array, which the usage of the type has, is noted apart, in "trailing".  *)
(* The encoder's errors, other than the one it keeps, are the writer's and *)
(* are ignored by the code.                                                *)
(* Not in the model: a key label with '>' in it, and repeated field names. *)
(*                                                                         *)
(* A definition marked "Mutant" is a broken variant of the one after it,   *)
(* kept to show which property notices the mistake; nothing uses it.       *)
(***************************************************************************)
EXTENDS GenericReader, FiniteSetsExt

CONSTANTS
    MaxWidth,  \* bound: fields of a table, cells of a row
    MaxCalls   \* bound: calls before Close

ASSUME BoundsAssumption == MaxWidth \in Nat \ {0} /\ MaxCalls \in Nat

VARIABLES
    current,   \* the active array, [width, count], or NoArray
    sections,  \* the counts of the arrays that have ended
    err,       \* a field name was refused
    closed,    \* Close has been called, after all data as it must be
    reader,    \* DecodeGeneric on what has been written
    sent,      \* history: the document that the calls describe
    mistakes,  \* history: what callers did that the format has no place for
    trailing,  \* history: some line that is no row came after an ended array
    calls      \* history: calls before Close

encoder == <<current, sections, err>>
history == <<sent, mistakes, trailing, calls>>
vars == <<encoder, closed, reader, history>>

NoArray == [width |-> 0, count |-> 0]

Rows == UNION {[1 .. w -> Values] : w \in 0 .. MaxWidth}

-----------------------------------------------------------------------------

Write(l) == reader' = Read(reader, l)

\* The table that the encoder's last header began.
LastTable(doc) == Max({i \in DOMAIN doc : doc[i].kind \in {"rows", "map"}})

Blame(m) == mistakes' = mistakes \cup m

\* A call that writes the entry e of the document.
Describe(e) == sent' = Append(sent, e)

\* A name may be used once, and nothing but more sections may follow a section.
RootMistakes(n) ==
    (IF n \in Keys(sent) THEN {"name"} ELSE {}) \cup
    (IF \E i \in DOMAIN sent : sent[i].kind = "object" THEN {"afterSection"} ELSE {})

\* A table, open or ended, is the last thing that a "## " line began.
BelowTable(doc) ==
    LET begun == {i \in DOMAIN doc : doc[i].kind \in {"rows", "map", "object"}}
    IN  begun # {} /\ doc[Max(begun)].kind # "object"

\* A line that is not a row, among the rows of a table.
LooseLineMistakes == IF current # NoArray THEN {"inArray"} ELSE {}

\* A line that is not a row, below a table that has ended, as in the usage
\* (stream_generic.go:16-22).
Trail == trailing' = (trailing \/ (current = NoArray /\ BelowTable(sent)))

Calling ==
    /\ ~closed
    /\ calls < MaxCalls
    /\ calls' = calls + 1
    /\ UNCHANGED closed

-----------------------------------------------------------------------------

\* Mutant: the count is the index of the last row.
EndCurrentByIndex ==
    sections' = IF current = NoArray THEN sections ELSE Append(sections, current.count - 1)

EndCurrent ==
    sections' = IF current = NoArray THEN sections ELSE Append(sections, current.count)

\* A field with '>' in its name is refused, after the open table has ended;
\* from then on no table begins.
RefuseFields ==
    /\ Calling
    /\ ~err
    /\ EndCurrent
    /\ current' = NoArray
    /\ err' = TRUE
    /\ UNCHANGED <<reader, sent, mistakes, trailing>>

Begin(n, keyed, width) ==
    /\ Calling
    /\ ~err
    /\ EndCurrent
    /\ current' = [width |-> width, count |-> 0]
    /\ Write(HeaderLine(n, keyed, width))
    /\ Describe(Table(n, keyed))
    /\ UNCHANGED <<err, trailing>>

BeginArray(n, width) ==
    /\ Begin(n, FALSE, width)
    /\ Blame(RootMistakes(n))

\* Mutant: the header lacks the column of the member keys.
BeginKeyedMapBare(n, valueFields) ==
    /\ Begin(n, TRUE, valueFields)
    /\ Blame(RootMistakes(n) \cup IF valueFields = 0 THEN {"keyOnly"} ELSE {})

\* One column more, for the member keys.
BeginKeyedMap(n, valueFields) ==
    /\ Begin(n, TRUE, valueFields + 1)
    /\ Blame(RootMistakes(n) \cup IF valueFields = 0 THEN {"keyOnly"} ELSE {})

\* What WriteRow does not check: the width, and the member key of a keyed map.
RowMistakes(cells) ==
    LET table == sent[LastTable(sent)]
    IN  (IF cells = << >> THEN {"blank"}
         ELSE IF Len(cells) # current.width THEN {"width"} ELSE {}) \cup
        (IF /\ cells # << >>
            /\ table.kind = "map"
            /\ \E i \in DOMAIN table.items : table.items[i] # << >>
                                             /\ Head(table.items[i]) = Head(cells)
         THEN {"member"} ELSE {})

CountRow == current' = [current EXCEPT !.count = @ + 1]

\* Without a table, because none was begun or its fields were refused, the row
\* is dropped and nothing changes.
WriteRow(cells) ==
    /\ current # NoArray
    /\ Calling
    /\ Write(RowLine(cells))
    /\ CountRow
    /\ sent' = [sent EXCEPT ![LastTable(sent)].items = Append(@, cells)]
    /\ Blame(RowMistakes(cells))
    /\ UNCHANGED <<sections, err, trailing>>

EndArray ==
    /\ current # NoArray
    /\ Calling
    /\ EndCurrent
    /\ current' = NoArray
    /\ UNCHANGED <<err, reader, sent, mistakes, trailing>>

\* Mutant: a line written while a table is open is counted as a row of it.
LooseLineCounted ==
    /\ current' = IF current = NoArray THEN NoArray ELSE [current EXCEPT !.count = @ + 1]
    /\ UNCHANGED <<sections, err>>

\* A line that is no row leaves the encoder as it was, the open table included.
LooseLine == UNCHANGED encoder

\* The key is written as it is, without the quotes that formatKey would add.
WriteKV(n, v) ==
    /\ Calling
    /\ LooseLine
    /\ Write(PairLine(n, v))
    /\ Describe(Pair(n, v))
    /\ Blame(RootMistakes(n) \cup LooseLineMistakes
             \cup IF n \in OtherKeys THEN {"key"} ELSE {})
    /\ Trail

WriteInlineArray(n, vs) ==
    /\ Calling
    /\ LooseLine
    /\ Write(InlineLine(n, vs))
    /\ Describe(Inline(n, vs))
    /\ Blame(RootMistakes(n) \cup LooseLineMistakes)
    /\ Trail

WriteSection(n) ==
    /\ Calling
    /\ EndCurrent
    /\ current' = NoArray
    /\ Write(SectionLine(n))
    /\ Describe(EmptyObject(n))
    /\ Blame(RootMistakes(n) \ {"afterSection"})
    /\ UNCHANGED <<err, trailing>>

\* After a refusal Close returns the error and writes no trailer.
CloseWithError ==
    /\ err
    /\ UNCHANGED <<sections, current, reader>>

\* The trailer has the count of each table, if there was any.
CloseWithTrailer ==
    /\ ~err
    /\ EndCurrent
    /\ current' = NoArray
    /\ IF sections' = << >> THEN UNCHANGED reader ELSE Write(TrailerLine(sections'))

Close ==
    /\ ~closed
    /\ closed' = TRUE
    /\ CloseWithError \/ CloseWithTrailer
    /\ UNCHANGED <<err, history>>

Init ==
    /\ current = NoArray
    /\ sections = << >>
    /\ err = FALSE
    /\ closed = FALSE
    /\ reader = FreshReader
    /\ sent = << >>
    /\ mistakes = {}
    /\ trailing = FALSE
    /\ calls = 0

Next ==
    \/ \E n \in Names, w \in 1 .. MaxWidth : BeginArray(n, w)
    \/ \E n \in Names, w \in 0 .. MaxWidth - 1 : BeginKeyedMap(n, w)
    \/ RefuseFields
    \/ \E cells \in Rows : WriteRow(cells)
    \/ EndArray
    \/ \E n \in Names, v \in Values : WriteKV(n, v)
    \/ \E n \in Names, v \in Values : WriteInlineArray(n, <<v, v>>)
    \/ \E n \in Names : WriteSection(n)
    \/ Close

Spec == Init /\ [][Next]_vars

-----------------------------------------------------------------------------
(* Properties.                                                             *)

\* Types of the encoder's state.
TypeOK ==
    /\ current \in [width : 1 .. MaxWidth, count : Nat] \cup {NoArray}
    /\ sections \in Seq(Nat)
    /\ err \in BOOLEAN /\ closed \in BOOLEAN /\ trailing \in BOOLEAN
    /\ Keys(sent) \subseteq Names
    /\ calls \in 0 .. MaxCalls

\* The text so far decodes to the document so far; once closed, with its trailer.
DecodesAsSent ==
    /\ reader.ok
    /\ reader.doc = sent
    /\ closed => Accepts(reader)

\* Without a caller's mistake, and with pairs and inline arrays before the first
\* table only, the text reads back: tables, maps and sections may take turns,
\* begin without the one before having been ended, and go on after a refused
\* field (stream_generic.go:11-12).
ReadBack == mistakes = {} /\ ~trailing => DecodesAsSent

\* "enc.EndArray() enc.WriteKV("total", 2) enc.Close()" (stream_generic.go:20-22):
\* once closed without an error, a document with a pair after an array reads back.
UsageReadsBack == closed /\ ~err /\ mistakes = {} => DecodesAsSent

\* Mistakes that leave the document's meaning open, or that the format cannot
\* tell from something else.
Undetectable == {"name", "key", "afterSection", "blank"}

\* The trailer is a check (decode_helpers.go:227): when the encoder returned no
\* error and DecodeGeneric accepts the text, its document is the one that the
\* calls described, although a row may have the wrong width, a member come
\* twice, or a line land among the rows of a table or after them.
AcceptedIsFaithful ==
    closed /\ ~err /\ Accepts(reader) /\ mistakes \cap Undetectable = {}
        => reader.doc = sent
=============================================================================
