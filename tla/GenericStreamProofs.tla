------------------------ MODULE GenericStreamProofs ------------------------
(***************************************************************************)
(* Theorems about the streaming generic encoder, for all names, values,    *)
(* widths and numbers of calls.                                            *)
(***************************************************************************)
EXTENDS GenericStream, TLAPS

Kinds == {"rows", "map", "scalar", "inline", "object"}
Item == Values \cup Seq(Values)
Entry == [name : Names, kind : Kinds, items : Seq(Item)]

LEMMA RowsAreSequences == ASSUME NEW cells \in Rows PROVE cells \in Seq(Values)
BY DEF Rows

\* The entries that calls describe are entries.
LEMMA TableIsEntry == ASSUME NEW n \in Names, NEW k \in BOOLEAN PROVE Table(n, k) \in Entry
<1>1. << >> \in Seq(Item)
  OBVIOUS
<1> QED
  BY <1>1 DEF Table, Entry, Kinds

LEMMA PairIsEntry == ASSUME NEW n \in Names, NEW v \in Values PROVE Pair(n, v) \in Entry
<1>1. <<v>> \in Seq(Item)
  BY DEF Item
<1> QED
  BY <1>1 DEF Pair, Entry, Kinds

LEMMA InlineIsEntry ==
    ASSUME NEW n \in Names, NEW v \in Values PROVE Inline(n, <<v, v>>) \in Entry
<1>1. <<v, v>> \in Seq(Item)
  BY DEF Item
<1> QED
  BY <1>1 DEF Inline, Entry, Kinds

LEMMA ObjectIsEntry == ASSUME NEW n \in Names PROVE EmptyObject(n) \in Entry
<1>1. << >> \in Seq(Item)
  OBVIOUS
<1> QED
  BY <1>1 DEF EmptyObject, Entry, Kinds

-----------------------------------------------------------------------------
(* Types.                                                                  *)

Typed == TypeOK /\ sent \in Seq(Entry)

LEMMA KeysAreNames == ASSUME NEW s \in Seq(Entry) PROVE Keys(s) \subseteq Names
<1> SUFFICES ASSUME NEW i \in DOMAIN s PROVE s[i].name \in Names
  BY DEF Keys
<1>1. s[i] \in Entry
  OBVIOUS
<1> QED
  BY <1>1 DEF Entry

LEMMA InitTypes == Init => Typed
<1> SUFFICES ASSUME Init PROVE Typed
  OBVIOUS
<1>1. sections \in Seq(Nat) /\ sent \in Seq(Entry)
  BY DEF Init
<1>2. calls \in 0 .. MaxCalls
  BY BoundsAssumption DEF Init
<1>3. Keys(sent) \subseteq Names
  BY <1>1, KeysAreNames
<1> QED
  BY <1>1, <1>2, <1>3 DEF Init, Typed, TypeOK

\* What ending the open table does to the counts.
LEMMA EndCurrentTypes == Typed /\ EndCurrent => sections' \in Seq(Nat)
<1> SUFFICES ASSUME Typed, EndCurrent PROVE sections' \in Seq(Nat)
  OBVIOUS
<1>1. CASE current = NoArray
  BY <1>1 DEF EndCurrent, Typed, TypeOK
<1>2. CASE current # NoArray
  <2>1. current.count \in Nat
    BY <1>2 DEF Typed, TypeOK
  <2> QED
    BY <1>2, <2>1 DEF EndCurrent, Typed, TypeOK
<1> QED
  BY <1>1, <1>2

LEMMA CallingTypes ==
    Typed /\ Calling => closed' \in BOOLEAN /\ calls' \in 0 .. MaxCalls
BY BoundsAssumption DEF Typed, TypeOK, Calling

LEMMA DescribeTypes ==
    ASSUME NEW e \in Entry, Typed, Describe(e)
    PROVE  sent' \in Seq(Entry) /\ Keys(sent') \subseteq Names
<1>1. sent' \in Seq(Entry)
  BY DEF Describe, Typed
<1> QED
  BY <1>1, KeysAreNames

LEMMA BeginTypes ==
    ASSUME NEW n \in Names, NEW k \in BOOLEAN, NEW w \in 1 .. MaxWidth, Typed, Begin(n, k, w)
    PROVE  Typed'
<1>1. sent' \in Seq(Entry) /\ Keys(sent') \subseteq Names
  BY TableIsEntry, DescribeTypes DEF Begin
<1>2. current' \in [width : 1 .. MaxWidth, count : Nat]
  BY DEF Begin
<1> QED
  BY <1>1, <1>2, EndCurrentTypes, CallingTypes DEF Begin, Typed, TypeOK

LEMMA WriteRowTypes == ASSUME NEW cells \in Rows, Typed, WriteRow(cells) PROVE Typed'
<1> DEFINE k == LastTable(sent)
<1>1. sent' = [sent EXCEPT ![k].items = Append(@, cells)]
  BY DEF WriteRow
<1>2. cells \in Item
  BY RowsAreSequences DEF Item
<1> HIDE DEF k
<1>3. sent' \in Seq(Entry)
  <2>1. CASE k \notin DOMAIN sent
    <3>1. sent' = sent
      BY <1>1, <2>1 DEF Typed
    <3> QED
      BY <3>1 DEF Typed
  <2>2. CASE k \in DOMAIN sent
    <3>1. sent[k] \in Entry
      BY <2>2 DEF Typed
    <3>2. Append(sent[k].items, cells) \in Seq(Item)
      BY <3>1, <1>2 DEF Entry
    <3>3. [sent[k] EXCEPT !.items = Append(sent[k].items, cells)] \in Entry
      BY <3>1, <3>2 DEF Entry
    <3>4. sent' = [sent EXCEPT ![k] = [sent[k] EXCEPT !.items = Append(sent[k].items, cells)]]
      BY <1>1
    <3> DEFINE e == [sent[k] EXCEPT !.items = Append(sent[k].items, cells)]
    <3> HIDE DEF e
    <3>5. sent' = [sent EXCEPT ![k] = e] /\ e \in Entry
      BY <3>3, <3>4 DEF e
    <3> QED
      BY <2>2, <3>5 DEF Typed
  <2> QED
    BY <2>1, <2>2
<1>4. current' \in [width : 1 .. MaxWidth, count : Nat]
  <2>1. current # NoArray /\ CountRow
    BY DEF WriteRow
  <2>2. current \in [width : 1 .. MaxWidth, count : Nat]
    BY <2>1 DEF Typed, TypeOK
  <2> QED
    BY <2>1, <2>2 DEF CountRow
<1> QED
  BY <1>3, <1>4, KeysAreNames, CallingTypes DEF WriteRow, Typed, TypeOK

LEMMA StepTypes == Typed /\ [Next]_vars => Typed'
<1> SUFFICES ASSUME Typed, [Next]_vars PROVE Typed'
  OBVIOUS
<1>1. ASSUME NEW n \in Names, NEW w \in 1 .. MaxWidth, BeginArray(n, w) PROVE Typed'
  BY <1>1, BeginTypes DEF BeginArray
<1>2. ASSUME NEW n \in Names, NEW w \in 0 .. MaxWidth - 1, BeginKeyedMap(n, w) PROVE Typed'
  <2>1. w + 1 \in 1 .. MaxWidth
    BY BoundsAssumption
  <2> QED
    BY <1>2, <2>1, BeginTypes DEF BeginKeyedMap
<1>3. CASE RefuseFields
  BY <1>3, EndCurrentTypes, CallingTypes DEF RefuseFields, Typed, TypeOK
<1>4. ASSUME NEW cells \in Rows, WriteRow(cells) PROVE Typed'
  BY <1>4, WriteRowTypes
<1>5. CASE EndArray
  BY <1>5, EndCurrentTypes, CallingTypes DEF EndArray, Typed, TypeOK
<1>6. ASSUME NEW n \in Names, NEW v \in Values, WriteKV(n, v) PROVE Typed'
  BY <1>6, PairIsEntry, DescribeTypes, CallingTypes
     DEF WriteKV, LooseLine, Trail, encoder, Typed, TypeOK
<1>7. ASSUME NEW n \in Names, NEW v \in Values, WriteInlineArray(n, <<v, v>>) PROVE Typed'
  BY <1>7, InlineIsEntry, DescribeTypes, CallingTypes
     DEF WriteInlineArray, LooseLine, Trail, encoder, Typed, TypeOK
<1>8. ASSUME NEW n \in Names, WriteSection(n) PROVE Typed'
  BY <1>8, ObjectIsEntry, DescribeTypes, EndCurrentTypes, CallingTypes
     DEF WriteSection, Typed, TypeOK
<1>9. CASE Close
  <2>1. sections' \in Seq(Nat) /\ current' \in {current, NoArray}
    BY <1>9, EndCurrentTypes DEF Close, CloseWithError, CloseWithTrailer, Typed, TypeOK
  <2> QED
    BY <1>9, <2>1 DEF Close, history, Typed, TypeOK
<1>10. CASE UNCHANGED vars
  BY <1>10 DEF vars, encoder, history, Typed, TypeOK
<1> QED
  BY <1>1, <1>2, <1>3, <1>4, <1>5, <1>6, <1>7, <1>8, <1>9, <1>10 DEF Next

\* The encoder's variables keep their types: the counts that the trailer will
\* have are numbers, and an active array has a width.
THEOREM TypeCorrect == Spec => []TypeOK
<1>1. Typed => TypeOK
  BY DEF Typed
<1> QED
  BY <1>1, InitTypes, StepTypes, PTL DEF Spec

-----------------------------------------------------------------------------
(* The reader follows the writer, until a caller makes a mistake or writes *)
(* a pair or an inline array after an array that has ended.  Besides       *)
(* what ReadBack says, the reader must count what the writer counts, and   *)
(* know of the same open table.                                            *)

\* A reader that has met no error and no trailer.
Reading(r, d, o, c) ==
    /\ DOMAIN r = {"ok", "doc", "open", "counts", "trailer"}
    /\ r.ok = TRUE /\ r.trailer = << >>
    /\ r.doc = d /\ r.open = o /\ r.counts = c

\* What each kind of line does to such a reader.
LEMMA ReadHeaderLine ==
    ASSUME NEW r, NEW d, NEW o, NEW c, NEW n, NEW k, NEW w, Reading(r, d, o, c),
           n \notin Keys(d), ~(k /\ w < 2)
    PROVE  Reading(Read(r, HeaderLine(n, k, w)), Append(d, Table(n, k)),
                   [keyed |-> k, width |-> w], Append(c, 0))
<1> DEFINE l == HeaderLine(n, k, w)
           dd == Append(d, Table(n, k))
           oo == [keyed |-> k, width |-> w]
           cc == Append(c, 0)
<1>1. Read(r, l) = ReadHeader(r, l)
  BY DEF Read, IsBlank, HeaderLine, Reading
<1>2. ReadHeader(r, l) = [[r EXCEPT !.doc = dd] EXCEPT !.open = oo, !.counts = cc]
  BY DEF ReadHeader, HeaderLine, AddEntry, Reading
<1> HIDE DEF l, dd, oo, cc
<1>3. Reading(Read(r, l), dd, oo, cc)
  BY <1>1, <1>2 DEF Reading
<1> QED
  BY <1>3 DEF l, dd, oo, cc

\* A document with one more row in its last table.
WithRow(d, cells) == [d EXCEPT ![Len(d)].items = Append(@, cells)]
OneMore(c) == [c EXCEPT ![Len(c)] = @ + 1]

LEMMA ReadRowLine ==
    ASSUME NEW r, NEW d, NEW o, NEW c, NEW cells, Reading(r, d, o, c),
           o # NoTable, cells # << >>, Len(cells) = o.width,
           o.keyed => \A i \in DOMAIN d[Len(d)].items : Head(d[Len(d)].items[i]) # Head(cells)
    PROVE  Reading(Read(r, RowLine(cells)), WithRow(d, cells), o, OneMore(c))
<1> DEFINE l == RowLine(cells)
           dd == WithRow(d, cells)
           cc == OneMore(c)
<1>1. Read(r, l) = ReadRow(r, cells)
  BY DEF Read, IsBlank, CellsOf, RowLine, Reading
<1>2. ReadRow(r, cells) = [r EXCEPT !.doc = dd, !.counts = cc]
  <2>1. ReadRow(r, cells) = [r EXCEPT !.doc[Len(r.doc)].items = Append(@, cells),
                                      !.counts[Len(r.counts)] = @ + 1]
    BY DEF ReadRow, Reading
  <2>2. @ = [r EXCEPT !.doc = WithRow(r.doc, cells), !.counts = OneMore(r.counts)]
    BY DEF WithRow, OneMore, Reading
  <2> QED
    BY <2>1, <2>2 DEF Reading
<1> HIDE DEF l, dd, cc
<1>3. Reading(Read(r, l), dd, o, cc)
  BY <1>1, <1>2 DEF Reading
<1> QED
  BY <1>3 DEF l, dd, cc

LEMMA ReadPairLine ==
    ASSUME NEW r, NEW d, NEW c, NEW n, NEW v, Reading(r, d, NoTable, c),
           n \notin OtherKeys, n \notin Keys(d)
    PROVE  Reading(Read(r, PairLine(n, v)), Append(d, Pair(n, v)), NoTable, c)
<1> DEFINE l == PairLine(n, v)
           dd == Append(d, Pair(n, v))
<1>1. Read(r, l) = ReadPair(r, l)
  BY DEF Read, IsBlank, PairLine, Reading
<1>2. ReadPair(r, l) = [r EXCEPT !.doc = dd]
  BY DEF ReadPair, PairLine, AddEntry, Reading
<1> HIDE DEF l, dd
<1>3. Reading(Read(r, l), dd, NoTable, c)
  BY <1>1, <1>2 DEF Reading
<1> QED
  BY <1>3 DEF l, dd

LEMMA ReadInlineLine ==
    ASSUME NEW r, NEW d, NEW c, NEW n, NEW vs, Reading(r, d, NoTable, c), n \notin Keys(d)
    PROVE  Reading(Read(r, InlineLine(n, vs)), Append(d, Inline(n, vs)), NoTable, c)
<1> DEFINE l == InlineLine(n, vs)
           dd == Append(d, Inline(n, vs))
<1>1. Read(r, l) = ReadInline(r, l)
  BY DEF Read, IsBlank, InlineLine, Reading
<1>2. ReadInline(r, l) = [r EXCEPT !.doc = dd]
  BY DEF ReadInline, InlineLine, AddEntry, Reading
<1> HIDE DEF l, dd
<1>3. Reading(Read(r, l), dd, NoTable, c)
  BY <1>1, <1>2 DEF Reading
<1> QED
  BY <1>3 DEF l, dd

LEMMA ReadSectionLine ==
    ASSUME NEW r, NEW d, NEW o, NEW c, NEW n, Reading(r, d, o, c), n \notin Keys(d)
    PROVE  Reading(Read(r, SectionLine(n)), Append(d, EmptyObject(n)), NoTable, c)
<1> DEFINE l == SectionLine(n)
           dd == Append(d, EmptyObject(n))
<1>1. Read(r, l) = ReadSection(r, l)
  BY DEF Read, IsBlank, SectionLine, Reading
<1>2. ReadSection(r, l) = [[r EXCEPT !.doc = dd] EXCEPT !.open = NoTable]
  BY DEF ReadSection, SectionLine, AddEntry, Reading
<1> HIDE DEF l, dd
<1>3. Reading(Read(r, l), dd, NoTable, c)
  BY <1>1, <1>2 DEF Reading
<1> QED
  BY <1>3 DEF l, dd

\* A reader that has met a trailer with the counts it has.
Checked(r, d, c) == r.ok = TRUE /\ r.doc = d /\ r.counts = c /\ r.trailer = c

LEMMA ReadTrailerLine ==
    ASSUME NEW r, NEW d, NEW o, NEW c, Reading(r, d, o, c)
    PROVE  Checked(Read(r, TrailerLine(c)), d, c)
<1>1. Read(r, TrailerLine(c)) = [r EXCEPT !.trailer = c]
  BY DEF Read, IsBlank, TrailerLine, Reading
<1> QED
  BY <1>1 DEF Reading, Checked

-----------------------------------------------------------------------------
(* Where the last table of a document is.                                  *)

TableKinds == {"rows", "map"}

LEMMA MaxIs ==
    ASSUME NEW S \in SUBSET Int, NEW x \in S, \A y \in S : x >= y
    PROVE  Max(S) = x
<1>1. x \in S /\ \A y \in S : x >= y
  OBVIOUS
<1>2. Max(S) \in S /\ \A y \in S : Max(S) >= y
  BY <1>1 DEF Max
<1>3. Max(S) \in Int /\ x \in Int /\ Max(S) >= x /\ x >= Max(S)
  BY <1>1, <1>2, Zenon
<1> QED
  BY <1>3

Begun(d) == {i \in DOMAIN d : d[i].kind \in {"rows", "map", "object"}}

LEMMA TableLast ==
    ASSUME NEW d, NEW len \in Nat \ {0}, DOMAIN d = 1 .. len, Len(d) = len,
           d[len].kind \in TableKinds
    PROVE  BelowTable(d) /\ LastTable(d) = len
<1> DEFINE T == {i \in DOMAIN d : d[i].kind \in {"rows", "map"}}
<1>1. T \in SUBSET Int /\ len \in T /\ \A i \in T : len >= i
  BY DEF TableKinds
<1>2. Begun(d) \in SUBSET Int /\ len \in Begun(d) /\ \A i \in Begun(d) : len >= i
  BY DEF TableKinds, Begun
<1>3. Max(T) = len
  BY <1>1, MaxIs
<1>4. Max(Begun(d)) = len
  BY <1>2, MaxIs
<1>5. BelowTable(d)
  BY <1>2, <1>4 DEF BelowTable, Begun, TableKinds
<1> QED
  BY <1>3, <1>5 DEF LastTable

-----------------------------------------------------------------------------
(* The invariant.                                                          *)

\* The table whose rows are being written is the last entry, no row of it is
\* blank, and the reader has its header.
ActiveTable ==
    /\ sent # << >>
    /\ LET t == sent[Len(sent)]
       IN  /\ t.kind \in TableKinds
           /\ reader.open.keyed <=> t.kind = "map"
           /\ reader.open.width = current.width
           /\ \A i \in DOMAIN t.items : t.items[i] # << >>

CountsSoFar == IF current = NoArray THEN sections ELSE Append(sections, current.count)

InStep ==
    /\ Reading(reader, sent, reader.open, CountsSoFar)
    /\ reader.open # NoTable => BelowTable(sent)
    /\ current # NoArray => ActiveTable

Complete == reader.ok /\ reader.doc = sent /\ Accepts(reader)

Follows == mistakes = {} /\ ~trailing => IF closed THEN Complete ELSE InStep

LEMMA FollowsReadsBack == Follows => ReadBack
BY DEF Follows, InStep, Complete, Reading, ReadBack, DecodesAsSent

LEMMA InitFollows == Init => Follows
BY DEF Init, Follows, InStep, Reading, FreshReader, CountsSoFar

\* The counts so far are those of the trailer once the open table has ended.
LEMMA EndCurrentCounts == EndCurrent => sections' = CountsSoFar
BY DEF EndCurrent, CountsSoFar

\* A table begins.
LEMMA BeginInStep ==
    ASSUME NEW n \in Names, NEW k \in BOOLEAN, NEW w \in 1 .. MaxWidth,
           Typed, InStep, Begin(n, k, w), n \notin Keys(sent), ~(k /\ w < 2)
    PROVE  InStep'
<1> DEFINE o == [keyed |-> k, width |-> w]
           e == Table(n, k)
<1>1. sent' = Append(sent, e) /\ reader' = Read(reader, HeaderLine(n, k, w))
  BY DEF Begin, Describe, Write
<1>2. Reading(reader', sent', o, Append(CountsSoFar, 0))
  BY <1>1, ReadHeaderLine DEF InStep
<1>3. CountsSoFar' = Append(CountsSoFar, 0)
  BY EndCurrentCounts DEF Begin, CountsSoFar, NoArray
<1>4. /\ sent' # << >> /\ Len(sent') = Len(sent) + 1 /\ DOMAIN sent' = 1 .. Len(sent) + 1
      /\ sent'[Len(sent')] = e
  BY <1>1, TableIsEntry DEF Typed
<1>5. e.kind \in TableKinds /\ (e.kind = "map") = k /\ e.items = << >>
  BY DEF Table, TableKinds
<1>6. BelowTable(sent')
  BY <1>4, <1>5, TableLast DEF Typed
<1>7. reader'.open = o /\ current'.width = w
  BY <1>2 DEF Reading, Begin
<1>8. ActiveTable'
  BY <1>4, <1>5, <1>7 DEF ActiveTable
<1> QED
  BY <1>2, <1>3, <1>6, <1>7, <1>8 DEF InStep

LEMMA OneMoreOfLast ==
    ASSUME NEW c \in Seq(Nat), NEW k \in Nat
    PROVE  OneMore(Append(c, k)) = Append(c, k + 1)
<1> DEFINE a == Append(c, k)
           b == Append(c, k + 1)
<1>1. a \in Seq(Nat) /\ b \in Seq(Nat) /\ Len(a) = Len(c) + 1 /\ Len(b) = Len(c) + 1
  OBVIOUS
<1>2. a[Len(a)] = k /\ b[Len(a)] = k + 1
  OBVIOUS
<1>3. \A i \in 1 .. Len(c) : a[i] = b[i]
  OBVIOUS
<1> HIDE DEF a, b
<1>4. [a EXCEPT ![Len(a)] = a[Len(a)] + 1] = b
  BY <1>1, <1>2, <1>3
<1> QED
  BY <1>4 DEF OneMore, a, b

\* A sequence with an item more is not empty.
LEMMA AppendIsSome == ASSUME NEW c \in Seq(Nat), NEW k \in Nat PROVE Append(c, k) # << >>
<1>1. Len(Append(c, k)) = Len(c) + 1 /\ Len(c) \in Nat /\ Len(<< >>) = 0
  OBVIOUS
<1>2. Len(Append(c, k)) # Len(<< >>)
  BY <1>1
<1> QED
  BY <1>2

\* A row more is counted.
LEMMA RowCounted ==
    ASSUME Typed, current # NoArray, CountRow, UNCHANGED sections
    PROVE  CountsSoFar' = OneMore(CountsSoFar) /\ CountsSoFar # << >>
<1>1. sections \in Seq(Nat) /\ current.count \in Nat
  BY DEF Typed, TypeOK
<1>2. current' # NoArray /\ current'.count = current.count + 1
  <2>1. current \in [width : 1 .. MaxWidth, count : Nat]
    BY DEF Typed, TypeOK
  <2> QED
    BY <2>1 DEF CountRow, NoArray
<1>3. OneMore(Append(sections, current.count)) = Append(sections, current.count + 1)
  BY <1>1, OneMoreOfLast
<1>4. Append(sections, current.count) # << >>
  BY <1>1, AppendIsSome
<1> QED
  BY <1>2, <1>3, <1>4 DEF CountsSoFar

\* A row is written, of the right width and with a new member key.
LEMMA WriteRowInStep ==
    ASSUME NEW cells \in Rows, Typed, InStep, WriteRow(cells), RowMistakes(cells) = {}
    PROVE  InStep'
<1> DEFINE n == Len(sent)
           t == sent[n]
<1>1. ActiveTable /\ current # NoArray
  BY DEF InStep, WriteRow
<1>2. n \in Nat \ {0} /\ DOMAIN sent = 1 .. n /\ sent \in Seq(Entry)
  BY <1>1 DEF ActiveTable, Typed
<1>3. t \in Entry /\ t.kind \in TableKinds
  BY <1>1, <1>2 DEF ActiveTable
<1>4. LastTable(sent) = n
  BY <1>2, <1>3, TableLast
<1>5. cells # << >> /\ Len(cells) = current.width
  BY DEF RowMistakes
<1>6. t.kind = "map" => \A i \in DOMAIN t.items : Head(t.items[i]) # Head(cells)
  BY <1>1, <1>4, <1>5 DEF RowMistakes, ActiveTable
<1>7. sent' = WithRow(sent, cells) /\ reader' = Read(reader, RowLine(cells))
  BY <1>4 DEF WriteRow, WithRow, Write
<1>8. (reader.open.keyed <=> t.kind = "map") /\ reader.open.width = current.width
  BY <1>1 DEF ActiveTable
<1>9. reader.open # NoTable
  <2>1. current.width \in 1 .. MaxWidth
    BY <1>1 DEF Typed, TypeOK
  <2> QED
    BY <1>8, <2>1 DEF NoTable
<1>10. Reading(reader', sent', reader.open, OneMore(CountsSoFar))
  <2>1. Len(cells) = reader.open.width
    BY <1>5, <1>8
  <2> HIDE DEF t, n
  <2>2. reader.open.keyed => \A i \in DOMAIN t.items : Head(t.items[i]) # Head(cells)
    BY <1>6, <1>8
  <2>3. Reading(reader, sent, reader.open, CountsSoFar)
    BY DEF InStep
  <2> QED
    BY <1>5, <1>7, <1>9, <2>1, <2>2, <2>3, ReadRowLine DEF t, n
<1>11. CountsSoFar' = OneMore(CountsSoFar)
  BY <1>1, RowCounted DEF WriteRow
<1>12. /\ DOMAIN sent' = 1 .. n /\ Len(sent') = n /\ sent' # << >>
       /\ sent'[n].kind = t.kind
       /\ sent'[n].items = Append(t.items, cells)
  <2>1. sent' \in Seq(Entry)
    BY WriteRowTypes DEF Typed
  <2>2. DOMAIN sent' = DOMAIN sent
    BY <1>7 DEF WithRow
  <2> DEFINE e == [t EXCEPT !.items = Append(t.items, cells)]
  <2>4. sent' = [sent EXCEPT ![n] = e]
    BY <1>7 DEF WithRow
  <2>3. sent'[n] = e
    <3> HIDE DEF e, t, n
    <3> QED
      BY <1>2, <2>4
  <2> QED
    BY <1>2, <1>3, <2>1, <2>2, <2>3 DEF Entry
<1>13. BelowTable(sent')
  BY <1>2, <1>3, <1>12, TableLast
<1>14. reader'.open = reader.open /\ current'.width = current.width
  BY <1>1, <1>10 DEF Reading, WriteRow, CountRow, Typed, TypeOK
<1>15. \A i \in DOMAIN sent'[n].items : sent'[n].items[i] # << >>
  <2>1. t.items \in Seq(Item)
    BY <1>3 DEF Entry
  <2>2. \A i \in DOMAIN t.items : t.items[i] # << >>
    BY <1>1 DEF ActiveTable
  <2> QED
    BY <1>5, <1>12, <2>1, <2>2
<1>16. ActiveTable'
  BY <1>3, <1>8, <1>12, <1>14, <1>15 DEF ActiveTable
<1> QED
  BY <1>10, <1>11, <1>13, <1>14, <1>16 DEF InStep

\* A pair between tables, with a key of its own.
LEMMA PairInStep ==
    ASSUME NEW n, NEW v, InStep, current = NoArray, reader.open = NoTable,
           n \notin OtherKeys, n \notin Keys(sent),
           LooseLine, Write(PairLine(n, v)), Describe(Pair(n, v))
    PROVE  InStep'
<1>1. Reading(reader', sent', NoTable, CountsSoFar)
  BY ReadPairLine DEF Write, Describe, InStep
<1>2. CountsSoFar' = CountsSoFar /\ current' = NoArray
  BY DEF LooseLine, encoder, CountsSoFar
<1>3. reader'.open = NoTable
  BY <1>1 DEF Reading
<1> QED
  BY <1>1, <1>2, <1>3 DEF InStep

\* So with an inline array, and with a section wherever it comes.
LEMMA InlineInStep ==
    ASSUME NEW n, NEW vs, InStep, current = NoArray, reader.open = NoTable,
           n \notin Keys(sent), LooseLine, Write(InlineLine(n, vs)), Describe(Inline(n, vs))
    PROVE  InStep'
<1>1. Reading(reader', sent', NoTable, CountsSoFar)
  BY ReadInlineLine DEF Write, Describe, InStep
<1>2. CountsSoFar' = CountsSoFar /\ current' = NoArray
  BY DEF LooseLine, encoder, CountsSoFar
<1>3. reader'.open = NoTable
  BY <1>1 DEF Reading
<1> QED
  BY <1>1, <1>2, <1>3 DEF InStep

LEMMA SectionInStep ==
    ASSUME NEW n, InStep, n \notin Keys(sent), WriteSection(n)
    PROVE  InStep'
<1>1. Reading(reader', sent', NoTable, CountsSoFar)
  BY ReadSectionLine DEF WriteSection, Write, Describe, InStep
<1>2. CountsSoFar' = CountsSoFar /\ current' = NoArray
  BY EndCurrentCounts DEF WriteSection, CountsSoFar
<1>3. reader'.open = NoTable
  BY <1>1 DEF Reading
<1> QED
  BY <1>1, <1>2, <1>3 DEF InStep

\* A table ends, and nothing is written.
LEMMA EndInStep ==
    ASSUME InStep, EndCurrent, current' = NoArray, UNCHANGED <<reader, sent>>
    PROVE  InStep'
<1>1. CountsSoFar' = CountsSoFar
  BY EndCurrentCounts DEF CountsSoFar
<1> QED
  BY <1>1 DEF InStep

\* Every step keeps the reader in step or blames the caller.
LEMMA StepFollows == Typed /\ Follows /\ [Next]_vars => Follows'
<1> SUFFICES ASSUME Typed, Follows, [Next]_vars PROVE Follows'
  OBVIOUS
<1>1. ASSUME NEW n \in Names, NEW w \in 1 .. MaxWidth, BeginArray(n, w) PROVE Follows'
  <2> SUFFICES ASSUME mistakes' = {}, ~trailing' PROVE InStep' /\ ~closed'
    BY DEF Follows
  <2>1. mistakes = {} /\ ~trailing /\ RootMistakes(n) = {}
    BY <1>1 DEF BeginArray, Begin, Blame
  <2>2. ~closed /\ ~closed' /\ InStep
    BY <1>1, <2>1 DEF BeginArray, Begin, Calling, Follows
  <2>3. n \notin Keys(sent)
    BY <2>1 DEF RootMistakes
  <2> QED
    BY <1>1, <2>2, <2>3, BeginInStep DEF BeginArray
<1>2. ASSUME NEW n \in Names, NEW w \in 0 .. MaxWidth - 1, BeginKeyedMap(n, w) PROVE Follows'
  <2> SUFFICES ASSUME mistakes' = {}, ~trailing' PROVE InStep' /\ ~closed'
    BY DEF Follows
  <2>1. mistakes = {} /\ ~trailing /\ RootMistakes(n) = {} /\ w # 0
    BY <1>2 DEF BeginKeyedMap, Begin, Blame
  <2>2. ~closed /\ ~closed' /\ InStep
    BY <1>2, <2>1 DEF BeginKeyedMap, Begin, Calling, Follows
  <2>3. n \notin Keys(sent)
    BY <2>1 DEF RootMistakes
  <2>4. w + 1 \in 1 .. MaxWidth /\ ~(w + 1 < 2)
    BY <2>1, BoundsAssumption
  <2> QED
    BY <1>2, <2>2, <2>3, <2>4, BeginInStep DEF BeginKeyedMap
<1>3. CASE RefuseFields
  <2> SUFFICES ASSUME mistakes' = {}, ~trailing' PROVE InStep' /\ ~closed'
    BY DEF Follows
  <2>1. ~closed' /\ InStep
    BY <1>3 DEF RefuseFields, Calling, Follows
  <2> QED
    BY <1>3, <2>1, EndInStep DEF RefuseFields
<1>4. ASSUME NEW cells \in Rows, WriteRow(cells) PROVE Follows'
  <2> SUFFICES ASSUME mistakes' = {}, ~trailing' PROVE InStep' /\ ~closed'
    BY DEF Follows
  <2>1. mistakes = {} /\ ~trailing /\ RowMistakes(cells) = {}
    BY <1>4 DEF WriteRow, Blame
  <2>2. ~closed' /\ InStep
    BY <1>4, <2>1 DEF WriteRow, Calling, Follows
  <2> QED
    BY <1>4, <2>1, <2>2, WriteRowInStep
<1>5. CASE EndArray
  <2> SUFFICES ASSUME mistakes' = {}, ~trailing' PROVE InStep' /\ ~closed'
    BY DEF Follows
  <2>1. ~closed' /\ InStep
    BY <1>5 DEF EndArray, Calling, Follows
  <2> QED
    BY <1>5, <2>1, EndInStep DEF EndArray
<1>6. ASSUME NEW n \in Names, NEW v \in Values, WriteKV(n, v) PROVE Follows'
  <2> SUFFICES ASSUME mistakes' = {}, ~trailing' PROVE InStep' /\ ~closed'
    BY DEF Follows
  <2>1. /\ mistakes = {} /\ RootMistakes(n) = {} /\ LooseLineMistakes = {} /\ n \notin OtherKeys
        /\ ~trailing /\ ~(current = NoArray /\ BelowTable(sent))
    BY <1>6 DEF WriteKV, Blame, Trail
  <2>2. ~closed' /\ InStep
    BY <1>6, <2>1 DEF WriteKV, Calling, Follows
  <2>3. n \notin Keys(sent)
    BY <2>1 DEF RootMistakes
  <2>4. current = NoArray /\ reader.open = NoTable
    BY <2>1, <2>2 DEF LooseLineMistakes, InStep
  <2> QED
    BY <1>6, <2>1, <2>2, <2>3, <2>4, PairInStep DEF WriteKV
<1>7. ASSUME NEW n \in Names, NEW v \in Values, WriteInlineArray(n, <<v, v>>) PROVE Follows'
  <2> SUFFICES ASSUME mistakes' = {}, ~trailing' PROVE InStep' /\ ~closed'
    BY DEF Follows
  <2>1. /\ mistakes = {} /\ RootMistakes(n) = {} /\ LooseLineMistakes = {}
        /\ ~trailing /\ ~(current = NoArray /\ BelowTable(sent))
    BY <1>7 DEF WriteInlineArray, Blame, Trail
  <2>2. ~closed' /\ InStep
    BY <1>7, <2>1 DEF WriteInlineArray, Calling, Follows
  <2>3. n \notin Keys(sent)
    BY <2>1 DEF RootMistakes
  <2>4. current = NoArray /\ reader.open = NoTable
    BY <2>1, <2>2 DEF LooseLineMistakes, InStep
  <2> QED
    BY <1>7, <2>2, <2>3, <2>4, InlineInStep DEF WriteInlineArray
<1>8. ASSUME NEW n \in Names, WriteSection(n) PROVE Follows'
  <2> SUFFICES ASSUME mistakes' = {}, ~trailing' PROVE InStep' /\ ~closed'
    BY DEF Follows
  <2>1. mistakes = {} /\ ~trailing /\ RootMistakes(n) \ {"afterSection"} = {}
    BY <1>8 DEF WriteSection, Blame
  <2>2. ~closed' /\ InStep
    BY <1>8, <2>1 DEF WriteSection, Calling, Follows
  <2>3. n \notin Keys(sent)
    BY <2>1 DEF RootMistakes
  <2> QED
    BY <1>8, <2>2, <2>3, SectionInStep
<1>9. CASE Close
  <2> SUFFICES ASSUME mistakes' = {}, ~trailing' PROVE Complete'
    BY <1>9 DEF Follows, Close
  <2>1. InStep /\ UNCHANGED sent
    BY <1>9 DEF Close, history, Follows
  <2>2. CASE UNCHANGED reader
    BY <2>1, <2>2 DEF InStep, Reading, Complete, Accepts
  <2>3. CASE CloseWithTrailer /\ Write(TrailerLine(sections'))
    <3>1. reader' = Read(reader, TrailerLine(CountsSoFar))
      BY <2>3, EndCurrentCounts DEF CloseWithTrailer, Write
    <3>3. Reading(reader, sent, reader.open, CountsSoFar)
      BY <2>1 DEF InStep
    <3>2. Checked(reader', sent, CountsSoFar)
      BY <3>1, <3>3, ReadTrailerLine
    <3> QED
      BY <2>1, <3>2 DEF Complete, Accepts, Checked
  <2> QED
    BY <1>9, <2>2, <2>3 DEF Close, CloseWithError, CloseWithTrailer
<1>10. CASE UNCHANGED vars
  BY <1>10 DEF vars, encoder, history, Follows, Complete, InStep, ActiveTable, CountsSoFar
<1> QED
  BY <1>1, <1>2, <1>3, <1>4, <1>5, <1>6, <1>7, <1>8, <1>9, <1>10 DEF Next

\* Without a caller's mistake, and without a line after an ended array, the text
\* written so far decodes to the document that the calls so far describe, and the
\* trailer that Close writes is right.
THEOREM TextReadsBack == Spec => []ReadBack
BY InitTypes, StepTypes, InitFollows, StepFollows, FollowsReadsBack, PTL DEF Spec

-----------------------------------------------------------------------------
(* A trailer tells.  Once a caller's mistake has put a line among the rows *)
(* of a table the reader counts more rows there than the encoder, and      *)
(* never stops doing so.                                                   *)

\* The tables of c have no fewer rows than those of k.
NoFewer(c, k) ==
    /\ c \in Seq(Nat) /\ k \in Seq(Nat) /\ Len(c) = Len(k)
    /\ \A i \in 1 .. Len(k) : k[i] <= c[i]

\* One more row in the last table, item by item.
LEMMA OneMoreItems ==
    ASSUME NEW c \in Seq(Nat), c # << >>
    PROVE  /\ OneMore(c) \in Seq(Nat) /\ Len(OneMore(c)) = Len(c) /\ Len(c) \in 1 .. Len(c)
           /\ \A i \in 1 .. Len(c) : OneMore(c)[i] = IF i = Len(c) THEN c[i] + 1 ELSE c[i]
<1> DEFINE m == OneMore(c)
           n == Len(c)
<1>1. n \in Nat \ {0} /\ DOMAIN c = 1 .. n /\ c[n] \in Nat /\ \A i \in 1 .. n : c[i] \in Nat
  OBVIOUS
<1>2. m = [i \in 1 .. n |-> IF i = n THEN c[i] + 1 ELSE c[i]]
  BY <1>1 DEF OneMore
<1> HIDE DEF m, n
<1>3. m \in [1 .. n -> Nat]
  BY <1>1, <1>2
<1>4. m \in Seq(Nat) /\ Len(m) = n
  BY <1>1, <1>3
<1>5. \A i \in 1 .. n : m[i] = IF i = n THEN c[i] + 1 ELSE c[i]
  BY <1>2
<1>6. n \in 1 .. n
  BY <1>1
<1> QED
  BY <1>4, <1>5, <1>6 DEF m, n

\* Sequences with the same items are the same.
LEMMA SameItems ==
    ASSUME NEW c \in Seq(Nat), NEW k \in Seq(Nat), Len(c) = Len(k),
           \A i \in 1 .. Len(c) : c[i] = k[i]
    PROVE  c = k
OBVIOUS

\* A table more in both.
LEMMA TableInBoth ==
    ASSUME NEW c, NEW k, NoFewer(c, k)
    PROVE  /\ NoFewer(Append(c, 0), Append(k, 0))
           /\ Append(c, 0) = Append(k, 0) => c = k
<1>1. c \in Seq(Nat) /\ k \in Seq(Nat) /\ Len(c) = Len(k) /\ Len(k) \in Nat
      /\ \A i \in 1 .. Len(k) : k[i] <= c[i]
  BY DEF NoFewer
<1> DEFINE a == Append(c, 0)
           b == Append(k, 0)
           n == Len(k)
<1>2. /\ a \in Seq(Nat) /\ b \in Seq(Nat) /\ Len(a) = n + 1 /\ Len(b) = n + 1
      /\ \A i \in 1 .. n : a[i] = c[i] /\ b[i] = k[i]
      /\ a[n + 1] = 0 /\ b[n + 1] = 0
  BY <1>1
<1> HIDE DEF a, b, n
<1>3. ASSUME NEW i \in 1 .. n + 1 PROVE b[i] <= a[i]
  <2>1. CASE i = n + 1
    <3>1. a[i] = 0 /\ b[i] = 0
      BY <1>2, <2>1, Zenon
    <3> QED
      BY <3>1
  <2>2. CASE i \in 1 .. n
    BY <1>1, <1>2, <2>2 DEF n
  <2> QED
    BY <1>1, <2>1, <2>2 DEF n
<1>4. NoFewer(a, b)
  BY <1>2, <1>3 DEF NoFewer
<1>5. a = b => c = k
  <2> SUFFICES ASSUME a = b PROVE c = k
    OBVIOUS
  <2>1. \A i \in 1 .. n : c[i] = k[i]
    BY <1>2
  <2> QED
    BY <1>1, <2>1, SameItems DEF n
<1> QED
  BY <1>4, <1>5 DEF a, b

\* A row more in both.
LEMMA RowInBoth ==
    ASSUME NEW c, NEW k, NoFewer(c, k), k # << >>
    PROVE  /\ NoFewer(OneMore(c), OneMore(k))
           /\ OneMore(c) = OneMore(k) => c = k
<1> DEFINE a == OneMore(c)
           b == OneMore(k)
           n == Len(k)
<1>1. c \in Seq(Nat) /\ k \in Seq(Nat) /\ Len(c) = n /\ n \in Nat \ {0}
      /\ \A i \in 1 .. n : k[i] <= c[i] /\ k[i] \in Nat /\ c[i] \in Nat
  BY DEF NoFewer
<1>2. c # << >>
  BY <1>1
<1>3. /\ a \in Seq(Nat) /\ Len(a) = n
      /\ \A i \in 1 .. n : a[i] = IF i = n THEN c[i] + 1 ELSE c[i]
  BY <1>1, <1>2, OneMoreItems
<1>4. /\ b \in Seq(Nat) /\ Len(b) = n
      /\ \A i \in 1 .. n : b[i] = IF i = n THEN k[i] + 1 ELSE k[i]
  BY <1>1, OneMoreItems
<1> HIDE DEF a, b, n
<1>5. ASSUME NEW i \in 1 .. n PROVE b[i] <= a[i]
  <2>1. k[i] <= c[i] /\ k[i] \in Nat /\ c[i] \in Nat
    BY <1>1
  <2>2. CASE i = n
    BY <1>3, <1>4, <2>1, <2>2
  <2>3. CASE i # n
    BY <1>3, <1>4, <2>1, <2>3
  <2> QED
    BY <2>2, <2>3
<1>6. NoFewer(a, b)
  BY <1>3, <1>4, <1>5 DEF NoFewer
<1>7. a = b => c = k
  <2> SUFFICES ASSUME a = b PROVE c = k
    OBVIOUS
  <2>1. ASSUME NEW i \in 1 .. n PROVE c[i] = k[i]
    <3>1. k[i] \in Nat /\ c[i] \in Nat /\ a[i] = b[i]
      BY <1>1
    <3>2. CASE i = n
      BY <1>3, <1>4, <3>1, <3>2
    <3>3. CASE i # n
      BY <1>3, <1>4, <3>1, <3>3
    <3> QED
      BY <3>2, <3>3
  <2> QED
    BY <1>1, <2>1 DEF n
<1> QED
  BY <1>6, <1>7 DEF a, b

\* A row more that only the reader has.
LEMMA RowInReader ==
    ASSUME NEW c, NEW k, NoFewer(c, k), c # << >>
    PROVE  NoFewer(OneMore(c), k) /\ OneMore(c) # k
<1> DEFINE a == OneMore(c)
           n == Len(c)
<1>1. c \in Seq(Nat) /\ k \in Seq(Nat) /\ Len(k) = n /\ n \in 1 .. n
      /\ \A i \in 1 .. n : k[i] <= c[i] /\ k[i] \in Nat /\ c[i] \in Nat
  <2>1. c \in Seq(Nat) /\ k \in Seq(Nat) /\ Len(k) = n /\ \A i \in 1 .. n : k[i] <= c[i]
    BY DEF NoFewer
  <2>2. n \in 1 .. n
    BY <2>1, OneMoreItems
  <2> QED
    BY <2>1, <2>2
<1>2. /\ a \in Seq(Nat) /\ Len(a) = n
      /\ \A i \in 1 .. n : a[i] = IF i = n THEN c[i] + 1 ELSE c[i]
  BY <1>1, OneMoreItems
<1> HIDE DEF a, n
<1>3. ASSUME NEW i \in 1 .. n PROVE k[i] <= a[i]
  <2>1. k[i] <= c[i] /\ k[i] \in Nat /\ c[i] \in Nat
    BY <1>1
  <2>2. CASE i = n
    BY <1>2, <2>1, <2>2
  <2>3. CASE i # n
    BY <1>2, <2>1, <2>3
  <2> QED
    BY <2>2, <2>3
<1>4. a[n] # k[n]
  BY <1>1, <1>2
<1> QED
  BY <1>1, <1>2, <1>3, <1>4 DEF NoFewer, a

\* A reader that has met no error and no trailer, with whatever document.
Counting(r, o, c) ==
    /\ DOMAIN r = {"ok", "doc", "open", "counts", "trailer"}
    /\ r.ok = TRUE /\ r.trailer = << >>
    /\ r.open = o /\ r.counts = c

\* A reader that has met an error reads no further.
LEMMA FailedStays == ASSUME NEW r, ~r.ok, NEW l PROVE Read(r, l) = r
BY DEF Read

\* What each kind of line does to the counts, unless it is an error.
LEMMA HeaderCounts ==
    ASSUME NEW r, NEW o, NEW c, NEW n, NEW k, NEW w, Counting(r, o, c),
           Read(r, HeaderLine(n, k, w)).ok
    PROVE  /\ Counting(Read(r, HeaderLine(n, k, w)), [keyed |-> k, width |-> w], Append(c, 0))
           /\ ~(k /\ w < 2)
<1> DEFINE l == HeaderLine(n, k, w)
           dd == Append(r.doc, Table(n, k))
           oo == [keyed |-> k, width |-> w]
           cc == Append(c, 0)
<1>1. Read(r, l) = ReadHeader(r, l)
  BY DEF Read, IsBlank, HeaderLine, Counting
<1>2. ~(n \in Keys(r.doc) \/ (k /\ w < 2))
  <2> SUFFICES ASSUME n \in Keys(r.doc) \/ (k /\ w < 2) PROVE FALSE
    OBVIOUS
  <2>1. ReadHeader(r, l) = [r EXCEPT !.ok = FALSE]
    BY DEF ReadHeader, HeaderLine, Failed
  <2> QED
    BY <1>1, <2>1 DEF Counting
<1>3. ReadHeader(r, l) = [[r EXCEPT !.doc = dd] EXCEPT !.open = oo, !.counts = cc]
  BY <1>2 DEF ReadHeader, HeaderLine, AddEntry, Counting
<1> HIDE DEF l, dd, oo, cc
<1>4. Counting(Read(r, l), oo, cc)
  BY <1>1, <1>3 DEF Counting
<1> QED
  BY <1>2, <1>4 DEF l, dd, oo, cc

LEMMA SectionCounts ==
    ASSUME NEW r, NEW o, NEW c, NEW n, Counting(r, o, c), Read(r, SectionLine(n)).ok
    PROVE  Counting(Read(r, SectionLine(n)), NoTable, c)
<1> DEFINE l == SectionLine(n)
           dd == Append(r.doc, EmptyObject(n))
<1>1. Read(r, l) = ReadSection(r, l)
  BY DEF Read, IsBlank, SectionLine, Counting
<1>2. n \notin Keys(r.doc)
  <2> SUFFICES ASSUME n \in Keys(r.doc) PROVE FALSE
    OBVIOUS
  <2>1. ReadSection(r, l) = [r EXCEPT !.ok = FALSE]
    BY DEF ReadSection, SectionLine, Failed
  <2> QED
    BY <1>1, <2>1 DEF Counting
<1>3. ReadSection(r, l) = [[r EXCEPT !.doc = dd] EXCEPT !.open = NoTable]
  BY <1>2 DEF ReadSection, SectionLine, AddEntry
<1> HIDE DEF l, dd
<1>4. Counting(Read(r, l), NoTable, c)
  BY <1>1, <1>3 DEF Counting
<1> QED
  BY <1>4 DEF l

\* Any cells below a table's header, those of a loose line included.
LEMMA CellsCount ==
    ASSUME NEW r, NEW o, NEW c, NEW cells, Counting(r, o, c), ReadRow(r, cells).ok
    PROVE  /\ Counting(ReadRow(r, cells), o, OneMore(c))
           /\ Len(cells) = o.width
           /\ o.keyed => \A i \in DOMAIN r.doc[Len(r.doc)].items :
                             Head(r.doc[Len(r.doc)].items[i]) # Head(cells)
<1> DEFINE rows == r.doc[Len(r.doc)].items
           Bad == \/ Len(cells) # r.open.width
                  \/ r.open.keyed /\ \E i \in DOMAIN rows : Head(rows[i]) = Head(cells)
           dd == [r.doc EXCEPT ![Len(r.doc)].items = Append(@, cells)]
           cc == OneMore(c)
<1>1. ~Bad
  <2> SUFFICES ASSUME Bad PROVE FALSE
    OBVIOUS
  <2>1. ReadRow(r, cells) = [r EXCEPT !.ok = FALSE]
    BY DEF ReadRow, Failed
  <2> QED
    BY <2>1 DEF Counting
<1>2. ReadRow(r, cells) = [r EXCEPT !.doc = dd, !.counts = cc]
  BY <1>1 DEF ReadRow, Counting, OneMore
<1>3. Len(cells) = o.width
      /\ (o.keyed => \A i \in DOMAIN rows : Head(rows[i]) # Head(cells))
  BY <1>1 DEF Counting
<1> HIDE DEF dd, cc, rows, Bad
<1>4. Counting(ReadRow(r, cells), o, cc)
  BY <1>2 DEF Counting
<1> QED
  BY <1>3, <1>4 DEF cc, rows

\* A row below a header is read as its cells.
LEMMA RowCounts ==
    ASSUME NEW r, NEW o, NEW c, NEW cells, Counting(r, o, c), o # NoTable, cells # << >>
    PROVE  Read(r, RowLine(cells)) = ReadRow(r, cells)
BY DEF Read, IsBlank, CellsOf, RowLine, Counting

\* So is a loose line, as one cell of text.
LEMMA LooseCounts ==
    ASSUME NEW r, NEW o, NEW c, NEW n, NEW v, Counting(r, o, c), o # NoTable
    PROVE  /\ Read(r, PairLine(n, v)) = ReadRow(r, <<Text>>)
           /\ Read(r, InlineLine(n, v)) = ReadRow(r, <<Text>>)
BY DEF Read, IsBlank, CellsOf, PairLine, InlineLine, Counting

LEMMA PairCounts ==
    ASSUME NEW r, NEW c, NEW n, NEW v, Counting(r, NoTable, c), Read(r, PairLine(n, v)).ok
    PROVE  Counting(Read(r, PairLine(n, v)), NoTable, c)
<1> DEFINE l == PairLine(n, v)
           dd == Append(r.doc, Pair(n, v))
<1>1. Read(r, l) = ReadPair(r, l)
  BY DEF Read, IsBlank, PairLine, Counting
<1>2. ReadPair(r, l) \in {r, [r EXCEPT !.ok = FALSE], [r EXCEPT !.doc = dd]}
  BY DEF ReadPair, PairLine, AddEntry, Failed
<1> HIDE DEF l, dd
<1> QED
  BY <1>1, <1>2 DEF Counting, l

LEMMA InlineCounts ==
    ASSUME NEW r, NEW c, NEW n, NEW vs, Counting(r, NoTable, c)
    PROVE  Counting(Read(r, InlineLine(n, vs)), NoTable, c)
<1> DEFINE l == InlineLine(n, vs)
<1>1. Read(r, l) = ReadInline(r, l)
  BY DEF Read, IsBlank, InlineLine, Counting
<1>2. PICK dd : ReadInline(r, l) = [r EXCEPT !.doc = dd]
  BY DEF ReadInline, AddEntry
<1> HIDE DEF l
<1>3. Counting(Read(r, l), NoTable, c)
  BY <1>1, <1>2 DEF Counting
<1> QED
  BY <1>3 DEF l

-----------------------------------------------------------------------------
(* The invariant behind AcceptedIsFaithful.                                *)

\* Where the reader has the encoder's counts it has the document as well.
Accounted ==
    reader.ok =>
        /\ Counting(reader, reader.open, reader.counts)
        /\ NoFewer(reader.counts, CountsSoFar)
        /\ current # NoArray => reader.open # NoTable
        /\ reader.open # NoTable => reader.counts # << >>
        /\ reader.counts = CountsSoFar => InStep

\* Accounted holds at first, and every call keeps it.
LEMMA InitAccounted == Init => Accounted
<1> SUFFICES ASSUME Init PROVE Accounted
  OBVIOUS
<1>1. InStep
  BY DEF Init, InStep, Reading, FreshReader, CountsSoFar
<1>2. reader.counts = << >> /\ CountsSoFar = << >> /\ << >> \in Seq(Nat) /\ Len(<< >>) = 0
  BY DEF Init, FreshReader, CountsSoFar
<1>3. NoFewer(reader.counts, CountsSoFar)
  BY <1>2 DEF NoFewer
<1> QED
  BY <1>1, <1>3 DEF Init, Accounted, Counting, FreshReader, NoArray, NoTable

\* A reader that has failed accounts for nothing.
LEMMA StillReading ==
    ASSUME NEW l, Write(l), reader'.ok
    PROVE  reader.ok
BY FailedStays DEF Write

LEMMA BeginAccounted ==
    ASSUME NEW n \in Names, NEW k \in BOOLEAN, NEW w \in 1 .. MaxWidth,
           Typed, Accounted, Begin(n, k, w), n \notin Keys(sent)
    PROVE  Accounted'
<1> SUFFICES ASSUME reader'.ok
             PROVE  /\ Counting(reader', reader'.open, reader'.counts)
                    /\ NoFewer(reader'.counts, CountsSoFar')
                    /\ reader'.open # NoTable /\ reader'.counts # << >>
                    /\ reader'.counts = CountsSoFar' => InStep'
  BY DEF Accounted
<1> DEFINE o == [keyed |-> k, width |-> w]
           l == HeaderLine(n, k, w)
<1>1. reader' = Read(reader, l) /\ reader.ok
  BY StillReading DEF Begin, Write
<1>2. /\ Counting(reader, reader.open, reader.counts)
      /\ NoFewer(reader.counts, CountsSoFar)
      /\ reader.counts = CountsSoFar => InStep
  BY <1>1 DEF Accounted
<1>3. Counting(reader', o, Append(reader.counts, 0)) /\ ~(k /\ w < 2)
  BY <1>1, <1>2, HeaderCounts
<1>4. CountsSoFar' = Append(CountsSoFar, 0)
  BY EndCurrentCounts DEF Begin, CountsSoFar, NoArray
<1>5. /\ NoFewer(Append(reader.counts, 0), Append(CountsSoFar, 0))
      /\ Append(reader.counts, 0) = Append(CountsSoFar, 0) => reader.counts = CountsSoFar
  BY <1>2, TableInBoth
<1>6. o # NoTable
  BY DEF NoTable
<1>7. Append(reader.counts, 0) # << >>
  BY <1>2, AppendIsSome DEF NoFewer
<1> HIDE DEF o, l
<1>8. reader'.open = o /\ reader'.counts = Append(reader.counts, 0)
  BY <1>3 DEF Counting
<1>9. reader'.counts = CountsSoFar' => InStep'
  BY <1>2, <1>3, <1>4, <1>5, <1>8, BeginInStep
<1> QED
  BY <1>3, <1>4, <1>5, <1>6, <1>7, <1>8, <1>9

\* A row of the wrong width and a member that is there already are errors, so
\* a row that is read and leaves the counts equal is none of them.
LEMMA RowAccounted ==
    ASSUME NEW cells \in Rows, Typed, Accounted, WriteRow(cells), cells # << >>
    PROVE  Accounted'
<1> SUFFICES ASSUME reader'.ok
             PROVE  /\ Counting(reader', reader'.open, reader'.counts)
                    /\ NoFewer(reader'.counts, CountsSoFar')
                    /\ reader'.open # NoTable /\ reader'.counts # << >>
                    /\ reader'.counts = CountsSoFar' => InStep'
  BY DEF Accounted
<1> DEFINE l == RowLine(cells)
<1>1. reader' = Read(reader, l) /\ reader.ok /\ current # NoArray
  BY StillReading DEF WriteRow, Write
<1>2. /\ Counting(reader, reader.open, reader.counts)
      /\ NoFewer(reader.counts, CountsSoFar)
      /\ reader.open # NoTable
      /\ reader.counts = CountsSoFar => InStep
  BY <1>1 DEF Accounted
<1>3. reader' = ReadRow(reader, cells)
  BY <1>1, <1>2, RowCounts
<1>4. /\ Counting(reader', reader.open, OneMore(reader.counts))
      /\ Len(cells) = reader.open.width
      /\ reader.open.keyed => \A i \in DOMAIN reader.doc[Len(reader.doc)].items :
             Head(reader.doc[Len(reader.doc)].items[i]) # Head(cells)
  BY <1>2, <1>3, CellsCount
<1> HIDE DEF l
<1>5. CountsSoFar' = OneMore(CountsSoFar) /\ CountsSoFar # << >>
  BY <1>1, RowCounted DEF WriteRow
<1>6. /\ NoFewer(OneMore(reader.counts), OneMore(CountsSoFar))
      /\ OneMore(reader.counts) = OneMore(CountsSoFar) => reader.counts = CountsSoFar
  BY <1>2, <1>5, RowInBoth
<1>7. OneMore(reader.counts) # << >>
  <2>1. reader.counts \in Seq(Nat) /\ reader.counts # << >>
    BY <1>2, <1>5 DEF NoFewer
  <2> QED
    BY <2>1, OneMoreItems
<1>8. ASSUME InStep PROVE RowMistakes(cells) = {}
  <2>1. reader.doc = sent /\ ActiveTable
    BY <1>1, <1>8 DEF InStep, Reading
  <2>2. LastTable(sent) = Len(sent)
    BY <2>1, TableLast DEF ActiveTable, Typed
  <2>3. Len(cells) = current.width
    BY <1>4, <2>1 DEF ActiveTable
  <2>4. sent[Len(sent)].kind = "map" =>
            \A i \in DOMAIN sent[Len(sent)].items : Head(sent[Len(sent)].items[i]) # Head(cells)
    BY <1>4, <2>1 DEF ActiveTable
  <2> QED
    BY <2>2, <2>3, <2>4 DEF RowMistakes
<1>9. reader'.open = reader.open /\ reader'.counts = OneMore(reader.counts)
  BY <1>4 DEF Counting
<1>10. reader'.counts = CountsSoFar' => InStep'
  BY <1>2, <1>5, <1>6, <1>8, <1>9, WriteRowInStep
<1> QED
  BY <1>2, <1>4, <1>5, <1>6, <1>7, <1>9, <1>10

\* A line among the rows of a table is an error, or a row for the reader alone.
LEMMA LooseAccounted ==
    ASSUME Accounted, LooseLine, reader.ok, reader.open # NoTable,
           reader' = ReadRow(reader, <<Text>>), reader'.ok
    PROVE  Accounted'
<1>1. /\ Counting(reader, reader.open, reader.counts)
      /\ NoFewer(reader.counts, CountsSoFar)
      /\ reader.counts # << >>
  BY DEF Accounted
<1>2. Counting(reader', reader.open, OneMore(reader.counts))
  BY <1>1, CellsCount
<1>3. CountsSoFar' = CountsSoFar
  BY DEF LooseLine, encoder, CountsSoFar
<1>4. NoFewer(OneMore(reader.counts), CountsSoFar) /\ OneMore(reader.counts) # CountsSoFar
  BY <1>1, RowInReader
<1>5. OneMore(reader.counts) # << >>
  <2>1. reader.counts \in Seq(Nat)
    BY <1>1 DEF NoFewer
  <2> QED
    BY <1>1, <2>1, OneMoreItems
<1>6. reader'.open = reader.open /\ reader'.counts = OneMore(reader.counts)
  BY <1>2 DEF Counting
<1> QED
  BY <1>2, <1>3, <1>4, <1>5, <1>6 DEF Accounted

LEMMA PairAccounted ==
    ASSUME NEW n, NEW v, Accounted, n \notin OtherKeys, n \notin Keys(sent),
           LooseLine, Write(PairLine(n, v)), Describe(Pair(n, v))
    PROVE  Accounted'
<1> SUFFICES ASSUME reader'.ok PROVE Accounted'
  BY DEF Accounted
<1>1. reader' = Read(reader, PairLine(n, v)) /\ reader.ok
  BY StillReading DEF Write
<1>2. /\ Counting(reader, reader.open, reader.counts)
      /\ NoFewer(reader.counts, CountsSoFar)
      /\ current # NoArray => reader.open # NoTable
      /\ reader.counts = CountsSoFar => InStep
  BY <1>1 DEF Accounted
<1>3. CASE reader.open # NoTable
  <2>1. reader' = ReadRow(reader, <<Text>>)
    BY <1>1, <1>2, <1>3, LooseCounts
  <2> QED
    BY <1>1, <1>3, <2>1, LooseAccounted
<1>4. CASE reader.open = NoTable
  <2>1. Counting(reader', NoTable, reader.counts)
    BY <1>1, <1>2, <1>4, PairCounts
  <2>2. CountsSoFar' = CountsSoFar /\ current' = NoArray /\ current = NoArray
    BY <1>2, <1>4 DEF LooseLine, encoder, CountsSoFar
  <2>3. reader'.counts = reader.counts /\ reader'.open = NoTable
    BY <2>1 DEF Counting
  <2>4. reader'.counts = CountsSoFar' => InStep'
    BY <1>2, <1>4, <2>2, <2>3, PairInStep
  <2> QED
    BY <1>2, <2>1, <2>2, <2>3, <2>4 DEF Accounted
<1> QED
  BY <1>3, <1>4

LEMMA InlineAccounted ==
    ASSUME NEW n, NEW vs, Accounted, n \notin Keys(sent),
           LooseLine, Write(InlineLine(n, vs)), Describe(Inline(n, vs))
    PROVE  Accounted'
<1> SUFFICES ASSUME reader'.ok PROVE Accounted'
  BY DEF Accounted
<1>1. reader' = Read(reader, InlineLine(n, vs)) /\ reader.ok
  BY StillReading DEF Write
<1>2. /\ Counting(reader, reader.open, reader.counts)
      /\ NoFewer(reader.counts, CountsSoFar)
      /\ current # NoArray => reader.open # NoTable
      /\ reader.counts = CountsSoFar => InStep
  BY <1>1 DEF Accounted
<1>3. CASE reader.open # NoTable
  <2>1. reader' = ReadRow(reader, <<Text>>)
    BY <1>1, <1>2, <1>3, LooseCounts
  <2> QED
    BY <1>1, <1>3, <2>1, LooseAccounted
<1>4. CASE reader.open = NoTable
  <2>1. Counting(reader', NoTable, reader.counts)
    BY <1>1, <1>2, <1>4, InlineCounts
  <2>2. CountsSoFar' = CountsSoFar /\ current' = NoArray /\ current = NoArray
    BY <1>2, <1>4 DEF LooseLine, encoder, CountsSoFar
  <2>3. reader'.counts = reader.counts /\ reader'.open = NoTable
    BY <2>1 DEF Counting
  <2>4. reader'.counts = CountsSoFar' => InStep'
    BY <1>2, <1>4, <2>2, <2>3, InlineInStep
  <2> QED
    BY <1>2, <2>1, <2>2, <2>3, <2>4 DEF Accounted
<1> QED
  BY <1>3, <1>4

LEMMA SectionAccounted ==
    ASSUME NEW n, Accounted, n \notin Keys(sent), WriteSection(n)
    PROVE  Accounted'
<1> SUFFICES ASSUME reader'.ok PROVE Accounted'
  BY DEF Accounted
<1>1. reader' = Read(reader, SectionLine(n)) /\ reader.ok
  BY StillReading DEF WriteSection, Write
<1>2. /\ Counting(reader, reader.open, reader.counts)
      /\ NoFewer(reader.counts, CountsSoFar)
      /\ reader.counts = CountsSoFar => InStep
  BY <1>1 DEF Accounted
<1>3. Counting(reader', NoTable, reader.counts)
  BY <1>1, <1>2, SectionCounts
<1>4. CountsSoFar' = CountsSoFar /\ current' = NoArray
  BY EndCurrentCounts DEF WriteSection, CountsSoFar
<1>5. reader'.counts = reader.counts /\ reader'.open = NoTable
  BY <1>3 DEF Counting
<1>6. reader'.counts = CountsSoFar' => InStep'
  BY <1>2, <1>4, <1>5, SectionInStep
<1> QED
  BY <1>2, <1>3, <1>4, <1>5, <1>6 DEF Accounted

LEMMA EndAccounted ==
    ASSUME Accounted, EndCurrent, current' = NoArray, UNCHANGED <<reader, sent>>
    PROVE  Accounted'
<1>1. CountsSoFar' = CountsSoFar
  BY EndCurrentCounts DEF CountsSoFar
<1>2. InStep => InStep'
  BY EndInStep
<1> QED
  BY <1>1, <1>2 DEF Accounted, NoArray

\* Close: the counts are compared, and equal counts tell of the same document.
Told == ~err /\ Accepts(reader) => reader.doc = sent

LEMMA CloseTells == ASSUME Accounted, Close PROVE Told'
<1> SUFFICES ASSUME ~err', Accepts(reader') PROVE reader'.doc = sent'
  BY DEF Told
<1>1. CloseWithTrailer /\ sent' = sent
  BY DEF Close, CloseWithError, history
<1>2. sections' = CountsSoFar
  BY <1>1, EndCurrentCounts DEF CloseWithTrailer
<1>3. CASE UNCHANGED reader /\ CountsSoFar = << >>
  <2>1. reader.ok /\ NoFewer(reader.counts, CountsSoFar)
    BY <1>3 DEF Accepts, Accounted
  <2>2. reader.counts = CountsSoFar
    BY <1>3, <2>1 DEF NoFewer
  <2>3. InStep
    BY <2>1, <2>2 DEF Accounted
  <2> QED
    BY <1>1, <1>3, <2>3 DEF InStep, Reading
<1>4. CASE Write(TrailerLine(CountsSoFar)) /\ CountsSoFar # << >>
  <2>1. reader.ok /\ reader' = Read(reader, TrailerLine(CountsSoFar))
    BY <1>4, StillReading DEF Accepts, Write
  <2>2. Counting(reader, reader.open, reader.counts)
    BY <2>1 DEF Accounted
  <2>3. Read(reader, TrailerLine(CountsSoFar)) = [reader EXCEPT !.trailer = CountsSoFar]
    BY <2>2 DEF Read, IsBlank, TrailerLine, Counting
  <2>4. reader'.trailer = CountsSoFar /\ reader'.counts = reader.counts /\ reader'.doc = reader.doc
    BY <2>1, <2>2, <2>3 DEF Counting
  <2>5. reader.counts = CountsSoFar
    BY <1>4, <2>4 DEF Accepts
  <2>6. InStep
    BY <2>1, <2>5 DEF Accounted
  <2> QED
    BY <1>1, <2>4, <2>6 DEF InStep, Reading
<1> QED
  BY <1>1, <1>2, <1>3, <1>4 DEF CloseWithTrailer

\* Until a caller does what cannot be told, an accepted text is right.
Watched == mistakes \cap Undetectable = {} => IF closed THEN Told ELSE Accounted

LEMMA InitWatched == Init => Watched
BY InitAccounted DEF Init, Watched

LEMMA StepWatched == Typed /\ Watched /\ [Next]_vars => Watched'
<1> SUFFICES ASSUME Typed, Watched, [Next]_vars, mistakes' \cap Undetectable = {}
             PROVE  IF closed' THEN Told' ELSE Accounted'
  BY DEF Watched
<1>1. ASSUME NEW m, Blame(m), ~closed PROVE Accounted /\ m \cap Undetectable = {}
  <2>1. mistakes' = mistakes \cup m
    BY <1>1 DEF Blame
  <2>2. mistakes \cap Undetectable = {} /\ m \cap Undetectable = {}
    BY <2>1
  <2> QED
    BY <1>1, <2>2 DEF Watched
<1>2. ASSUME NEW n, NEW m, Blame(RootMistakes(n) \cup m), ~closed
      PROVE  Accounted /\ n \notin Keys(sent) /\ m \cap Undetectable = {}
  <2>1. Accounted /\ (RootMistakes(n) \cup m) \cap Undetectable = {}
    BY <1>1, <1>2
  <2>2. "name" \in Undetectable /\ (n \in Keys(sent) => "name" \in RootMistakes(n))
    BY DEF Undetectable, RootMistakes
  <2> QED
    BY <2>1, <2>2
<1>3. ASSUME NEW n \in Names, NEW w \in 1 .. MaxWidth, BeginArray(n, w)
      PROVE  ~closed' /\ Accounted'
  <2>1. Blame(RootMistakes(n) \cup {}) /\ ~closed /\ ~closed'
    BY <1>3 DEF BeginArray, Begin, Calling
  <2>2. Accounted /\ n \notin Keys(sent)
    BY <1>2, <2>1
  <2> QED
    BY <1>3, <2>1, <2>2, BeginAccounted DEF BeginArray
<1>4. ASSUME NEW n \in Names, NEW w \in 0 .. MaxWidth - 1, BeginKeyedMap(n, w)
      PROVE  ~closed' /\ Accounted'
  <2>1. ~closed /\ ~closed' /\ Begin(n, TRUE, w + 1)
        /\ Blame(RootMistakes(n) \cup IF w = 0 THEN {"keyOnly"} ELSE {})
    BY <1>4 DEF BeginKeyedMap, Begin, Calling
  <2>2. Accounted /\ n \notin Keys(sent)
    BY <1>2, <2>1
  <2>3. w + 1 \in 1 .. MaxWidth
    BY BoundsAssumption
  <2> QED
    BY <2>1, <2>2, <2>3, BeginAccounted
<1>5. CASE RefuseFields
  <2>1. ~closed /\ ~closed' /\ EndCurrent /\ current' = NoArray /\ UNCHANGED <<reader, sent, mistakes>>
    BY <1>5 DEF RefuseFields, Calling
  <2>2. Accounted
    BY <2>1 DEF Watched
  <2> QED
    BY <2>1, <2>2, EndAccounted
<1>6. ASSUME NEW cells \in Rows, WriteRow(cells) PROVE ~closed' /\ Accounted'
  <2>1. ~closed /\ ~closed' /\ Blame(RowMistakes(cells))
    BY <1>6 DEF WriteRow, Calling
  <2>2. Accounted /\ RowMistakes(cells) \cap Undetectable = {}
    BY <1>1, <2>1
  <2>3. cells # << >>
    <3>1. "blank" \in Undetectable /\ (cells = << >> => "blank" \in RowMistakes(cells))
      BY DEF Undetectable, RowMistakes
    <3> QED
      BY <2>2, <3>1
  <2> QED
    BY <1>6, <2>1, <2>2, <2>3, RowAccounted
<1>7. CASE EndArray
  <2>1. ~closed /\ ~closed' /\ EndCurrent /\ current' = NoArray /\ UNCHANGED <<reader, sent, mistakes>>
    BY <1>7 DEF EndArray, Calling
  <2>2. Accounted
    BY <2>1 DEF Watched
  <2> QED
    BY <2>1, <2>2, EndAccounted
<1>8. ASSUME NEW n \in Names, NEW v \in Values, WriteKV(n, v) PROVE ~closed' /\ Accounted'
  <2> DEFINE m == LooseLineMistakes \cup IF n \in OtherKeys THEN {"key"} ELSE {}
  <2>1. ~closed /\ ~closed' /\ Blame(RootMistakes(n) \cup m)
    BY <1>8 DEF WriteKV, Calling, Blame
  <2>2. "key" \in Undetectable /\ (n \in OtherKeys => "key" \in m)
    BY DEF Undetectable
  <2> HIDE DEF m
  <2>3. Accounted /\ n \notin Keys(sent) /\ n \notin OtherKeys
    BY <1>2, <2>1, <2>2
  <2> QED
    BY <1>8, <2>1, <2>3, PairAccounted DEF WriteKV
<1>9. ASSUME NEW n \in Names, NEW v \in Values, WriteInlineArray(n, <<v, v>>)
      PROVE  ~closed' /\ Accounted'
  <2>1. ~closed /\ ~closed' /\ Blame(RootMistakes(n) \cup LooseLineMistakes)
    BY <1>9 DEF WriteInlineArray, Calling
  <2>2. Accounted /\ n \notin Keys(sent)
    BY <1>2, <2>1
  <2> QED
    BY <1>9, <2>1, <2>2, InlineAccounted DEF WriteInlineArray
<1>10. ASSUME NEW n \in Names, WriteSection(n) PROVE ~closed' /\ Accounted'
  <2>1. ~closed /\ ~closed' /\ Blame(RootMistakes(n) \ {"afterSection"})
    BY <1>10 DEF WriteSection, Calling
  <2>2. Accounted /\ (RootMistakes(n) \ {"afterSection"}) \cap Undetectable = {}
    BY <1>1, <2>1
  <2>3. n \notin Keys(sent)
    <3>1. "name" \in Undetectable /\ (n \in Keys(sent) => "name" \in RootMistakes(n))
      BY DEF Undetectable, RootMistakes
    <3> QED
      BY <2>2, <3>1
  <2> QED
    BY <1>10, <2>1, <2>2, <2>3, SectionAccounted
<1>11. CASE Close
  <2>1. ~closed /\ closed' /\ mistakes' = mistakes
    BY <1>11 DEF Close, history
  <2>2. Accounted
    BY <2>1 DEF Watched
  <2> QED
    BY <1>11, <2>1, <2>2, CloseTells
<1>12. CASE UNCHANGED vars
  <2>1. UNCHANGED <<current, sections, err, closed, reader, sent, mistakes>>
    BY <1>12 DEF vars, encoder, history
  <2>2. (InStep => InStep') /\ CountsSoFar' = CountsSoFar
    BY <2>1 DEF InStep, ActiveTable, CountsSoFar
  <2>3. (Accounted => Accounted') /\ (Told => Told')
    BY <2>1, <2>2 DEF Accounted, Told
  <2> QED
    BY <2>1, <2>3 DEF Watched
<1> QED
  BY <1>3, <1>4, <1>5, <1>6, <1>7, <1>8, <1>9, <1>10, <1>11, <1>12 DEF Next

\* When the encoder returned no error and DecodeGeneric accepts the text, its
\* document is the one that the calls described, although a row may have the
\* wrong width, a member come twice, or a line land among the rows of a table
\* (decode_helpers.go:227).
THEOREM TrailerProtects == Spec => []AcceptedIsFaithful
<1>1. Watched => AcceptedIsFaithful
  BY DEF Watched, Told, AcceptedIsFaithful
<1> QED
  BY <1>1, InitTypes, StepTypes, InitWatched, StepWatched, PTL DEF Spec
=============================================================================
