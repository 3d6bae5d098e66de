------------------------ MODULE StreamEncoderProofs ------------------------
(***************************************************************************)
(* Theorems about the streaming graph encoder, for all names, distances    *)
(* and numbers of calls.                                                   *)
(***************************************************************************)
EXTENDS StreamEncoder, FiniteSetTheorems, TLAPS

-----------------------------------------------------------------------------
(* Types.                                                                  *)

LEMMA InitTypes == Init => TypeOK
<1> SUFFICES ASSUME Init PROVE TypeOK
  OBVIOUS
<1>1. DOMAIN symIndex = {} /\ DOMAIN groupCounts = {}
  BY DEF Init
<1>2. groupOrder \in Seq(Distances) /\ sentSymbols \in Seq(Symbols) /\ sentEdges \in Seq(Edges)
  BY DEF Init
<1> QED
  BY <1>1, <1>2 DEF Init, TypeOK

\* The four actions share the two ways of changing the index and the groups.
LEMMA NewIdTypes ==
    ASSUME NEW q \in Names, TypeOK, NewId(q)
    PROVE  /\ DOMAIN symIndex' \subseteq Names
           /\ \A r \in DOMAIN symIndex' : symIndex'[r] \in 0 .. nextID' - 1
           /\ nextID' \in Nat
BY DEF TypeOK, NewId

LEMMA GroupTypes ==
    ASSUME NEW g \in Distances, NEW l, TypeOK, EnterGroup(g, l), CountLine(g)
    PROVE  /\ currentGroup' \in Distances \cup {NoGroup}
           /\ DOMAIN groupCounts' \subseteq Distances
BY DEF TypeOK, EnterGroup, CountLine

LEMMA StepTypes == TypeOK /\ [Next]_vars => TypeOK'
<1> SUFFICES ASSUME TypeOK, [Next]_vars PROVE TypeOK'
  OBVIOUS
<1>1. ASSUME NEW s \in Symbols, WriteSymbol(s) PROVE TypeOK'
  <2>1. s.name \in Names /\ s.distance \in Distances
    BY DEF Symbols
  <2>2. groupOrder' \in Seq(Distances)
    BY <1>1, <2>1 DEF WriteSymbol, FirstInGroup, TypeOK
  <2>3. sentSymbols' \in Seq(Symbols)
    BY <1>1 DEF WriteSymbol, TypeOK
  <2> QED
    BY <1>1, <2>1, <2>2, <2>3, NewIdTypes, GroupTypes DEF WriteSymbol, edgeState, TypeOK
<1>2. ASSUME NEW e \in Edges, WriteEdge(e) PROVE TypeOK'
  <2>1. sentEdges' \in Seq(Edges)
    BY <1>2 DEF WriteEdge, TypeOK
  <2> QED
    BY <1>2, <2>1 DEF WriteEdge, index, groups, TypeOK
<1>3. ASSUME NEW q \in Names, NEW d \in Distances, WriteBareRef(q, d) PROVE TypeOK'
  BY <1>3, NewIdTypes, GroupTypes DEF WriteBareRef, edgeState, TypeOK
<1>4. CASE Close
  BY <1>4 DEF Close, index, groups, edgeState, sent, TypeOK
<1>5. CASE UNCHANGED vars
  BY <1>5 DEF vars, index, groups, edgeState, sent, TypeOK
<1> QED
  BY <1>1, <1>2, <1>3, <1>4, <1>5 DEF Next

\* The encoder's variables keep their types: in particular every name in the
\* index has an id below the counter.
THEOREM TypeCorrect == Spec => []TypeOK
BY InitTypes, StepTypes, PTL DEF Spec

-----------------------------------------------------------------------------
(* The reader follows the writer.  Besides what ReaderKeepsUp and          *)
(* TablesAgree say, the reader's section must be the writer's: its         *)
(* distance that of the last group header, until the edges begin.          *)

\* A reader that has met no error and no declared count.
Reading(r, s, e, b, d, x) ==
    /\ DOMAIN r = {"ok", "symbols", "edges", "byId", "distance", "inEdges", "declared"}
    /\ r.ok = TRUE /\ r.declared = Deferred
    /\ r.symbols = s /\ r.edges = e
    /\ r.byId = b /\ r.distance = d /\ r.inEdges = x

InStep ==
    /\ Reading(reader, sentSymbols, sentEdges, reader.byId, reader.distance, edgesStarted)
    /\ ~edgesStarted /\ currentGroup # NoGroup => reader.distance = currentGroup

Follows == bareRefs = 0 => InStep /\ TablesAgree

\* The table after a line for q under id i.
Entered(b, i, q) == [j \in DOMAIN b \cup {i} |-> IF j = i THEN q ELSE b[j]]

\* What each kind of line does to such a reader.
LEMMA ReadGroupLine ==
    ASSUME NEW r, NEW s, NEW e, NEW b, NEW d, NEW x, NEW g, Reading(r, s, e, b, d, x)
    PROVE  Reading(Read(r, GroupLine(g)), s, e, b, g, FALSE)
<1>1. Read(r, GroupLine(g)) = [r EXCEPT !.inEdges = FALSE, !.distance = g]
  BY DEF Read, GroupLine, Reading
<1> QED
  BY <1>1 DEF Reading

LEMMA ReadEdgesLine ==
    ASSUME NEW r, NEW s, NEW e, NEW b, NEW d, NEW x, Reading(r, s, e, b, d, x)
    PROVE  Reading(Read(r, EdgesLine(Deferred)), s, e, b, d, TRUE)
<1>1. Read(r, EdgesLine(Deferred)) = [r EXCEPT !.inEdges = TRUE, !.declared = r.declared]
  BY DEF Read, EdgesLine, Reading
<1> QED
  BY <1>1 DEF Reading

LEMMA ReadSymbolLine ==
    ASSUME NEW r, NEW s, NEW e, NEW b, NEW d, NEW i, NEW q, Reading(r, s, e, b, d, FALSE)
    PROVE  Reading(Read(r, SymbolLine(i, q)),
                   Append(s, [name |-> q, distance |-> d]), e, Entered(b, i, q), d, FALSE)
<1> DEFINE l == SymbolLine(i, q)
           ss == Append(s, [name |-> q, distance |-> d])
           bb == Entered(b, i, q)
<1>1. Read(r, l) = ReadSymbol(r, l)
  BY DEF Read, ReadItem, SymbolLine, Reading
<1>2. /\ Append(r.symbols, [name |-> l.name, distance |-> r.distance]) = ss
      /\ [j \in DOMAIN r.byId \cup {l.id} |-> IF j = l.id THEN l.name ELSE r.byId[j]] = bb
  BY DEF SymbolLine, Reading, Entered
<1>3. ReadSymbol(r, l) = [r EXCEPT !.symbols = ss, !.byId = bb]
  BY <1>2 DEF ReadSymbol
<1> HIDE DEF ss, bb, l
<1>4. Reading(Read(r, l), ss, e, bb, d, FALSE)
  BY <1>1, <1>3 DEF Reading
<1> QED
  BY <1>4 DEF ss, bb, l

LEMMA ReadEdgeLine ==
    ASSUME NEW r, NEW s, NEW e, NEW b, NEW d, NEW i \in DOMAIN b, NEW j \in DOMAIN b,
           Reading(r, s, e, b, d, TRUE)
    PROVE  Reading(Read(r, EdgeLine(i, j)),
                   s, Append(e, [source |-> b[i], target |-> b[j]]), b, d, TRUE)
<1> DEFINE l == EdgeLine(i, j)
           ee == Append(e, [source |-> b[i], target |-> b[j]])
<1>1. Read(r, l) = ReadEdge(r, l)
  BY DEF Read, ReadItem, EdgeLine, Reading
<1>2. Append(r.edges, [source |-> r.byId[l.source], target |-> r.byId[l.target]]) = ee
  BY DEF EdgeLine, Reading
<1>3. ReadEdge(r, l) = [r EXCEPT !.edges = ee]
  BY <1>2 DEF ReadEdge
<1> HIDE DEF ee, l
<1>4. Reading(Read(r, l), s, ee, b, d, TRUE)
  BY <1>1, <1>3 DEF Reading
<1> QED
  BY <1>4 DEF ee, l

LEMMA ReadTrailer ==
    ASSUME NEW r, NEW n, NEW m, NEW c
    PROVE  Read(r, TrailerLine(n, m, c)) = r
BY DEF Read, TrailerLine

LEMMA InitFollows == Init => Follows
<1> SUFFICES ASSUME Init PROVE InStep /\ TablesAgree
  BY DEF Follows
<1>1. /\ reader = FreshReader /\ sentSymbols = << >> /\ sentEdges = << >>
      /\ edgesStarted = FALSE /\ currentGroup = NoGroup /\ DOMAIN symIndex = {}
  BY DEF Init
<1>2. Reading(FreshReader, << >>, << >>, FreshReader.byId, FreshReader.distance, FALSE)
  BY DEF FreshReader, Reading
<1> QED
  BY <1>1, <1>2 DEF InStep, TablesAgree

\* The header is written unless the group is current, so the symbol line is read
\* in its own group.
LEMMA SymbolFollows ==
    ASSUME SymbolsFirst, TypeOK, Follows, bareRefs = 0,
           NEW s \in Symbols, WriteSymbol(s)
    PROVE  InStep' /\ TablesAgree'
<1> DEFINE g == s.distance
           b == Entered(reader.byId, nextID, s.name)
           below == IF g # currentGroup THEN Read(reader, GroupLine(g)) ELSE reader
<1>1. edgesStarted = FALSE /\ g # NoGroup
  BY DistancesAssumption DEF WriteSymbol, Symbols, NoGroup, TypeOK
<1>2. Reading(reader, sentSymbols, sentEdges, reader.byId, reader.distance, FALSE)
  BY <1>1 DEF Follows, InStep
<1>3. Reading(below, sentSymbols, sentEdges, reader.byId, g, FALSE)
  <2>1. CASE g = currentGroup
    BY <1>1, <1>2, <2>1 DEF Follows, InStep
  <2>2. CASE g # currentGroup
    <3>1. below = Read(reader, GroupLine(g))
      BY <2>2
    <3> QED
      BY <1>2, <3>1, ReadGroupLine
  <2> QED
    BY <2>1, <2>2
<1>4. reader' = Read(below, SymbolLine(nextID, s.name))
  BY DEF WriteSymbol, EnterGroup, WriteBelow
<1>5. s = [name |-> s.name, distance |-> g]
  BY DEF Symbols
<1>6. Reading(reader', sentSymbols', sentEdges', b, g, edgesStarted')
  <2> HIDE DEF below, b
  <2>1. Reading(reader', Append(sentSymbols, [name |-> s.name, distance |-> g]), sentEdges, b, g, FALSE)
    BY <1>3, <1>4, ReadSymbolLine DEF b
  <2> QED
    BY <1>1, <1>5, <2>1 DEF WriteSymbol, edgeState
<1>7. reader'.byId = b /\ reader'.distance = g
  BY <1>6 DEF Reading
<1>8. InStep'
  BY <1>6, <1>7 DEF InStep, WriteSymbol, EnterGroup
<1>9. ASSUME NEW q \in DOMAIN symIndex'
      PROVE  symIndex'[q] \in DOMAIN b /\ b[symIndex'[q]] = q
  <2>1. CASE q = s.name
    BY <2>1 DEF WriteSymbol, NewId, Entered
  <2>2. CASE q # s.name
    <3>1. q \in DOMAIN symIndex /\ symIndex'[q] = symIndex[q]
      BY <2>2, <1>9 DEF WriteSymbol, NewId
    <3>2. symIndex[q] # nextID
      BY <3>1 DEF TypeOK
    <3> QED
      BY <3>1, <3>2 DEF Follows, TablesAgree, Entered
  <2> QED
    BY <2>1, <2>2
<1> QED
  BY <1>7, <1>8, <1>9 DEF TablesAgree

\* The edges header is written before the first edge, and both endpoints have a
\* line above it.
LEMMA EdgeFollows ==
    ASSUME TypeOK, Follows, bareRefs = 0, NEW e \in Edges, WriteEdge(e)
    PROVE  InStep' /\ TablesAgree'
<1> DEFINE i == symIndex[e.source]
           j == symIndex[e.target]
           d == reader.distance
           below == IF ~edgesStarted THEN Read(reader, EdgesLine(Deferred)) ELSE reader
<1>1. /\ i \in DOMAIN reader.byId /\ reader.byId[i] = e.source
      /\ j \in DOMAIN reader.byId /\ reader.byId[j] = e.target
  BY DEF WriteEdge, SkipEdge, Follows, TablesAgree
<1>2. Reading(reader, sentSymbols, sentEdges, reader.byId, d, edgesStarted)
  BY DEF Follows, InStep
<1>3. Reading(below, sentSymbols, sentEdges, reader.byId, d, TRUE)
  <2>1. CASE edgesStarted = TRUE
    BY <1>2, <2>1
  <2>2. CASE edgesStarted = FALSE
    BY <1>2, <2>2, ReadEdgesLine
  <2> QED
    BY <2>1, <2>2 DEF TypeOK
<1>4. reader' = Read(below, EdgeLine(i, j))
  BY DEF WriteEdge, WriteBelow
<1>5. e = [source |-> e.source, target |-> e.target]
  BY DEF Edges
<1>6. Reading(reader', sentSymbols', sentEdges', reader.byId, d, edgesStarted')
  <2>1. Reading(reader', sentSymbols,
                Append(sentEdges, [source |-> reader.byId[i], target |-> reader.byId[j]]),
                reader.byId, d, TRUE)
    <3> HIDE DEF below, i, j
    <3> QED
      BY <1>1, <1>3, <1>4, ReadEdgeLine
  <2> QED
    BY <1>1, <1>5, <2>1 DEF WriteEdge
<1>7. reader'.byId = reader.byId /\ reader'.distance = d
  BY <1>6 DEF Reading
<1>8. edgesStarted' = TRUE /\ symIndex' = symIndex
  BY DEF WriteEdge, index
<1>9. InStep'
  BY <1>6, <1>7, <1>8 DEF InStep
<1> QED
  BY <1>7, <1>8, <1>9 DEF TablesAgree, Follows

LEMMA StepFollows == SymbolsFirst /\ TypeOK /\ Follows /\ [Next]_vars => Follows'
<1> SUFFICES ASSUME SymbolsFirst, TypeOK, Follows, [Next]_vars, bareRefs' = 0
             PROVE  InStep' /\ TablesAgree'
  BY DEF Follows
<1>1. CASE \E s \in Symbols : WriteSymbol(s)
  <2>1. bareRefs = 0
    BY <1>1 DEF WriteSymbol
  <2> QED
    BY <1>1, <2>1, SymbolFollows
<1>2. CASE \E e \in Edges : WriteEdge(e)
  <2>1. bareRefs = 0
    BY <1>2 DEF WriteEdge
  <2> QED
    BY <1>2, <2>1, EdgeFollows
<1>3. CASE \E q \in Names, d \in Distances : WriteBareRef(q, d)
  BY <1>3 DEF WriteBareRef, TypeOK
<1>4. CASE Close
  <2>1. bareRefs = 0 /\ reader' = reader
    BY <1>4, ReadTrailer DEF Close, sent, Trailer
  <2> QED
    BY <1>4, <2>1 DEF Close, index, groups, edgeState, sent, Follows, InStep, TablesAgree
<1>5. CASE UNCHANGED vars
  BY <1>5 DEF vars, index, groups, edgeState, sent, Follows, InStep, TablesAgree
<1> QED
  BY <1>1, <1>2, <1>3, <1>4, <1>5 DEF Next

LEMMA AlwaysFollows ==
    ASSUME SymbolsFirst
    PROVE  Spec => [](TypeOK /\ Follows)
<1>1. Init => TypeOK /\ Follows
  BY InitTypes, InitFollows
<1>2. TypeOK /\ Follows /\ [Next]_vars => (TypeOK /\ Follows)'
  BY StepTypes, StepFollows
<1> QED
  BY <1>1, <1>2, PTL DEF Spec

\* When callers write their symbols before their edges and no bare references,
\* a reader has at every moment exactly the symbols and edges written.
THEOREM ReaderHasWhatWasWritten ==
    ASSUME SymbolsFirst
    PROVE  Spec => []ReaderKeepsUp
<1>1. TypeOK /\ Follows => ReaderKeepsUp
  BY DEF Follows, InStep, Reading, ReaderKeepsUp
<1> QED
  BY <1>1, AlwaysFollows, PTL

\* Under the same condition every id in the writer's index stands for the same
\* name in the reader's, also for a name written twice.
THEOREM IdsMeanTheirNames ==
    ASSUME SymbolsFirst
    PROVE  Spec => []TablesAgree
<1>1. TypeOK /\ Follows => TablesAgree
  BY DEF Follows, TablesAgree
<1> QED
  BY <1>1, AlwaysFollows, PTL

\* Under the same condition Decode accepts the output at any moment.
THEOREM OutputIsReadable ==
    ASSUME SymbolsFirst
    PROVE  Spec => []DecodeAccepts
<1>1. TypeOK /\ Follows => DecodeAccepts
  BY DEF Follows, InStep, Reading, DecodeAccepts, Accepts
<1> QED
  BY <1>1, AlwaysFollows, PTL

-----------------------------------------------------------------------------
(* The lines above the trailer, of any text o.                             *)

Line == {GroupLine(d) : d \in Distances} \cup {EdgesLine(Deferred)}
        \cup {SymbolLine(i, q) : i \in Nat, q \in Names} \cup {BareLine(i) : i \in Nat}
        \cup {EdgeLine(i, j) : i \in Nat, j \in Nat}

Heads == {"group", "edges"}
Items == {"symbol", "bare"}

LinesOf(o, kinds) == {i \in DOMAIN o : o[i].line \in kinds}

\* Position i is below the header at h.
Below(o, i, h) ==
    /\ h \in LinesOf(o, Heads)
    /\ h < i
    /\ \A k \in LinesOf(o, Heads) : k < i => k <= h

InGroup(o, g) == {i \in LinesOf(o, Items) : \E h \in DOMAIN o : Below(o, i, h) /\ o[h] = GroupLine(g)}

Opens(o, i, g) ==
    /\ i \in LinesOf(o, {"group"})
    /\ o[i].distance = g
    /\ \A k \in LinesOf(o, {"group"}) : o[k].distance = g => i <= k

LEMMA LineKinds ==
    /\ \A d : GroupLine(d).line = "group" /\ GroupLine(d).distance = d
    /\ \A n : EdgesLine(n).line = "edges"
    /\ \A i, q : SymbolLine(i, q).line = "symbol"
    /\ \A i : BareLine(i).line = "bare"
    /\ \A i, j : EdgeLine(i, j).line = "edge"
    /\ \A n, e, c : TrailerLine(n, e, c).line = "trailer"
BY DEF GroupLine, EdgesLine, SymbolLine, BareLine, EdgeLine, TrailerLine

LEMMA MoreLines ==
    ASSUME NEW S, NEW o \in Seq(S), NEW l
    PROVE  /\ DOMAIN Append(o, l) = 1 .. Len(o) + 1
           /\ Append(o, l)[Len(o) + 1] = l
           /\ \A i \in DOMAIN o : Append(o, l)[i] = o[i]
           /\ DOMAIN o = 1 .. Len(o) /\ Len(o) \in Nat
<1> DEFINE p == Append(o, l)
<1>1. o \in Seq(S \cup {l}) /\ l \in S \cup {l}
  OBVIOUS
<1>2. Len(o) \in Nat /\ DOMAIN o = 1 .. Len(o)
  OBVIOUS
<1>3. Len(p) = Len(o) + 1 /\ p \in Seq(S \cup {l})
  BY <1>1
<1>4. DOMAIN p = 1 .. Len(p)
  BY <1>3
<1>5. p[Len(o) + 1] = l /\ \A i \in 1 .. Len(o) : p[i] = o[i]
  BY <1>1
<1> QED
  BY <1>2, <1>3, <1>4, <1>5

LEMMA LinesFinite ==
    ASSUME NEW S, NEW o \in Seq(S), NEW kinds
    PROVE  IsFiniteSet(LinesOf(o, kinds)) /\ Cardinality(LinesOf(o, kinds)) \in Nat
<1>1. Len(o) \in Nat /\ DOMAIN o = 1 .. Len(o)
  OBVIOUS
<1>2. IsFiniteSet(1 .. Len(o))
  <2>1. 1 \in Int /\ Len(o) \in Int
    BY <1>1
  <2> QED
    BY <2>1, FS_Interval, Zenon
<1>3. LinesOf(o, kinds) \subseteq 1 .. Len(o)
  BY <1>1 DEF LinesOf
<1>4. IsFiniteSet(LinesOf(o, kinds))
  BY <1>2, <1>3, FS_Subset
<1> QED
  BY <1>4, FS_CardinalityType

LEMMA LinesGrow ==
    ASSUME NEW S, NEW o \in Seq(S), NEW l, NEW kinds
    PROVE  /\ l.line \in kinds =>
                 /\ LinesOf(Append(o, l), kinds) = LinesOf(o, kinds) \cup {Len(o) + 1}
                 /\ Cardinality(LinesOf(Append(o, l), kinds)) = Cardinality(LinesOf(o, kinds)) + 1
           /\ l.line \notin kinds => LinesOf(Append(o, l), kinds) = LinesOf(o, kinds)
<1> DEFINE n == Len(o) + 1
           p == Append(o, l)
<1>1. /\ DOMAIN p = 1 .. n /\ p[n] = l /\ \A i \in DOMAIN o : p[i] = o[i]
      /\ DOMAIN o = 1 .. Len(o) /\ Len(o) \in Nat
  BY MoreLines
<1>2. DOMAIN p = DOMAIN o \cup {n} /\ n \notin DOMAIN o
  BY <1>1
<1> HIDE DEF p, n
<1>3. l.line \in kinds => LinesOf(p, kinds) = LinesOf(o, kinds) \cup {n}
  BY <1>1, <1>2 DEF LinesOf
<1>4. l.line \notin kinds => LinesOf(p, kinds) = LinesOf(o, kinds)
  BY <1>1, <1>2 DEF LinesOf
<1>5. n \notin LinesOf(o, kinds)
  BY <1>2 DEF LinesOf
<1>6. Cardinality(LinesOf(o, kinds) \cup {n}) = Cardinality(LinesOf(o, kinds)) + 1
  BY <1>5, LinesFinite, FS_AddElement
<1> QED
  BY <1>3, <1>4, <1>6 DEF p, n

\* One more line moves no line under another header, and has the last header
\* itself.
LEMMA BelowGrows ==
    ASSUME NEW S, NEW o \in Seq(S), NEW l
    PROVE  /\ \A i \in 1 .. Len(o) + 1 : \A h : Below(Append(o, l), i, h) <=> Below(o, i, h)
           /\ l.line \notin Heads =>
                 \A h : Below(o, Len(o) + 1, h) => Below(Append(o, l), Len(o) + 2, h)
           /\ l.line \in Heads => Below(Append(o, l), Len(o) + 2, Len(o) + 1)
<1> DEFINE n == Len(o) + 1
           p == Append(o, l)
<1>1. DOMAIN o = 1 .. Len(o) /\ Len(o) \in Nat
  BY MoreLines
<1>2. \A i \in LinesOf(o, Heads) : i \in Nat /\ i < n
  BY <1>1 DEF LinesOf
<1>3. n \in Nat /\ Len(o) + 2 = n + 1 /\ Len(o) + 1 = n
  BY <1>1
<1>4. LinesOf(p, Heads) = LinesOf(o, Heads) \/ LinesOf(p, Heads) = LinesOf(o, Heads) \cup {n}
  BY LinesGrow
<1>5. l.line \notin Heads => LinesOf(p, Heads) = LinesOf(o, Heads)
  BY LinesGrow
<1>6. l.line \in Heads => LinesOf(p, Heads) = LinesOf(o, Heads) \cup {n}
  BY LinesGrow
<1> HIDE DEF p, n
<1>7. ASSUME NEW i \in 1 .. n, NEW h PROVE Below(p, i, h) <=> Below(o, i, h)
  BY <1>2, <1>3, <1>4 DEF Below
<1>8. ASSUME l.line \notin Heads, NEW h, Below(o, n, h) PROVE Below(p, n + 1, h)
  BY <1>2, <1>3, <1>5, <1>8 DEF Below
<1>9. ASSUME l.line \in Heads PROVE Below(p, n + 1, n)
  BY <1>2, <1>3, <1>6, <1>9 DEF Below
<1> QED
  BY <1>3, <1>7, <1>8, <1>9 DEF p

\* The last header of o is that of group g.
Within(o, g) == \E h \in DOMAIN o : Below(o, Len(o) + 1, h) /\ o[h] = GroupLine(g)

\* The groups in go are opened in that order.
Listed(o, go) ==
    /\ \A a \in DOMAIN go : \E i : Opens(o, i, go[a])
    /\ \A a, b \in DOMAIN go : \A i, j :
          a < b /\ Opens(o, i, go[a]) /\ Opens(o, j, go[b]) => i < j

\* Every item of o is below a header; its groups have c items, and are listed in
\* go in the order of their first headers.
Grouped(o, c, go) ==
    /\ \A i \in LinesOf(o, Items) : \E h \in DOMAIN o : Below(o, i, h)
    /\ \A g \in Distances : Cardinality(InGroup(o, g)) = c[g]
    /\ {o[i].distance : i \in LinesOf(o, {"group"})} = {go[a] : a \in DOMAIN go}
    /\ Listed(o, go)

LEMMA InGroupGrows ==
    ASSUME NEW S, NEW o \in Seq(S), NEW l
    PROVE  /\ l.line \notin Items => \A g : InGroup(Append(o, l), g) = InGroup(o, g)
           /\ \A g : l.line \in Items /\ Within(o, g) =>
                /\ InGroup(Append(o, l), g) = InGroup(o, g) \cup {Len(o) + 1}
                /\ \A x : x # g => InGroup(Append(o, l), x) = InGroup(o, x)
<1> DEFINE n == Len(o) + 1
           p == Append(o, l)
<1>1. /\ DOMAIN p = 1 .. n /\ p[n] = l /\ \A i \in DOMAIN o : p[i] = o[i]
      /\ DOMAIN o = 1 .. Len(o) /\ Len(o) \in Nat
  BY MoreLines
<1>2. n \in Nat /\ DOMAIN p = DOMAIN o \cup {n} /\ n \notin DOMAIN o
  BY <1>1
<1>3. \A i \in 1 .. n : \A h : Below(p, i, h) <=> Below(o, i, h)
  BY BelowGrows
<1>4. \A i, h : Below(o, i, h) => h \in DOMAIN o
  BY DEF Below, LinesOf
<1>5. DOMAIN o \subseteq 1 .. n /\ n \in 1 .. n
  BY <1>1
<1>6. /\ l.line \in Items => LinesOf(p, Items) = LinesOf(o, Items) \cup {n}
      /\ l.line \notin Items => LinesOf(p, Items) = LinesOf(o, Items)
  BY LinesGrow
<1>7. LinesOf(o, Items) \subseteq DOMAIN o
  BY DEF LinesOf
<1> HIDE DEF p, n
<1>8. ASSUME NEW i \in DOMAIN o, NEW g
      PROVE  (\E h \in DOMAIN p : Below(p, i, h) /\ p[h] = GroupLine(g))
                <=> (\E h \in DOMAIN o : Below(o, i, h) /\ o[h] = GroupLine(g))
  BY <1>1, <1>2, <1>3, <1>4, <1>5
<1>9. ASSUME l.line \notin Items, NEW g PROVE InGroup(p, g) = InGroup(o, g)
  BY <1>6, <1>7, <1>8, <1>9 DEF InGroup
<1>10. ASSUME l.line \in Items, NEW g, Within(o, g), NEW x
       PROVE  InGroup(p, x) = IF x = g THEN InGroup(o, x) \cup {n} ELSE InGroup(o, x)
  <2>1. PICK h \in DOMAIN o : Below(o, n, h) /\ o[h] = GroupLine(g)
    BY <1>10 DEF Within, n
  <2>2. Below(p, n, h) /\ p[h] = GroupLine(g) /\ h \in DOMAIN p
    BY <1>1, <1>2, <1>3, <1>5, <2>1
  <2>3. \A k : Below(p, n, k) => k = h
    <3>1. \A k \in LinesOf(o, Heads) : k \in Nat
      BY <1>1 DEF LinesOf
    <3>2. \A k : Below(p, n, k) => Below(o, n, k)
      BY <1>3, <1>5
    <3> QED
      BY <2>1, <3>1, <3>2 DEF Below
  <2>4. (\E k \in DOMAIN p : Below(p, n, k) /\ p[k] = GroupLine(x)) <=> x = g
    BY <2>2, <2>3, LineKinds
  <2>5. n \notin InGroup(o, x)
    BY <1>2, <1>7 DEF InGroup
  <2> QED
    BY <1>6, <1>7, <1>8, <1>10, <2>4, <2>5 DEF InGroup
<1> QED
  BY <1>9, <1>10 DEF p, n

LEMMA OpensStays ==
    ASSUME NEW S, NEW o \in Seq(S), NEW l, l.line # "group"
    PROVE  \A i, g : Opens(Append(o, l), i, g) <=> Opens(o, i, g)
<1> DEFINE p == Append(o, l)
           G == LinesOf(o, {"group"})
<1>1. \A i \in DOMAIN o : p[i] = o[i]
  BY MoreLines
<1>2. LinesOf(p, {"group"}) = G
  BY LinesGrow
<1>3. \A i \in G : p[i] = o[i]
  BY <1>1 DEF LinesOf
<1> HIDE DEF p
<1> QED
  BY <1>2, <1>3 DEF Opens, p

LEMMA OpensGrows ==
    ASSUME NEW S, NEW o \in Seq(S), NEW g
    PROVE  /\ \A i, x : x # g => (Opens(Append(o, GroupLine(g)), i, x) <=> Opens(o, i, x))
           /\ (\E k \in LinesOf(o, {"group"}) : o[k].distance = g) =>
                 \A i : Opens(Append(o, GroupLine(g)), i, g) <=> Opens(o, i, g)
           /\ (\A k \in LinesOf(o, {"group"}) : o[k].distance # g) =>
                 \A i : Opens(Append(o, GroupLine(g)), i, g) <=> i = Len(o) + 1
<1> DEFINE l == GroupLine(g)
           n == Len(o) + 1
           p == Append(o, l)
           G == LinesOf(o, {"group"})
<1>1. /\ p[n] = l /\ \A i \in DOMAIN o : p[i] = o[i]
      /\ DOMAIN o = 1 .. Len(o) /\ Len(o) \in Nat
  BY MoreLines
<1>2. l.line = "group" /\ l.distance = g
  BY LineKinds
<1>3. LinesOf(p, {"group"}) = G \cup {n}
  BY <1>2, LinesGrow
<1>4. n \in Nat /\ \A i \in G : i \in Nat /\ i < n /\ p[i] = o[i]
  BY <1>1 DEF LinesOf
<1> HIDE DEF p, n, G, l
<1>5. \A i, x : Opens(o, i, x) <=> /\ i \in G /\ o[i].distance = x
                                   /\ \A k \in G : o[k].distance = x => i <= k
  BY DEF Opens, G
<1>6. \A i, x : Opens(p, i, x) <=> /\ i \in G \cup {n} /\ p[i].distance = x
                                   /\ \A k \in G \cup {n} : p[k].distance = x => i <= k
  BY <1>3 DEF Opens
<1>7. ASSUME NEW i, NEW x, x # g PROVE Opens(p, i, x) <=> Opens(o, i, x)
  BY <1>1, <1>2, <1>4, <1>5, <1>6, <1>7
<1>8. ASSUME NEW k \in G, o[k].distance = g, NEW i PROVE Opens(p, i, g) <=> Opens(o, i, g)
  BY <1>1, <1>2, <1>4, <1>5, <1>6, <1>8
<1>9. ASSUME \A k \in G : o[k].distance # g, NEW i PROVE Opens(p, i, g) <=> i = n
  BY <1>1, <1>2, <1>4, <1>6, <1>9
<1> QED
  BY <1>7, <1>8, <1>9 DEF p, n, G, l

LEMMA WithinGrows ==
    ASSUME NEW S, NEW o \in Seq(S), NEW l, NEW g
    PROVE  /\ l.line \notin Heads /\ Within(o, g) => Within(Append(o, l), g)
           /\ l = GroupLine(g) => Within(Append(o, l), g)
<1> DEFINE n == Len(o) + 1
           p == Append(o, l)
<1>1. /\ DOMAIN p = 1 .. n /\ p[n] = l /\ \A i \in DOMAIN o : p[i] = o[i]
      /\ DOMAIN o = 1 .. Len(o) /\ Len(o) \in Nat
  BY MoreLines
<1>2. Len(p) = n /\ n \in Nat /\ Len(o) + 2 = n + 1
  BY <1>1
<1>3. /\ l.line \notin Heads => \A h : Below(o, n, h) => Below(p, n + 1, h)
      /\ l.line \in Heads => Below(p, n + 1, n)
  BY <1>2, BelowGrows
<1>4. n \in DOMAIN p /\ DOMAIN o \subseteq DOMAIN p
  BY <1>1
<1>5. l = GroupLine(g) => l.line \in Heads
  BY LineKinds DEF Heads
<1> HIDE DEF p
<1>6. ASSUME l.line \notin Heads, Within(o, g) PROVE Within(p, g)
  BY <1>1, <1>2, <1>3, <1>4, <1>6 DEF Within
<1>7. ASSUME l = GroupLine(g) PROVE Within(p, g)
  BY <1>1, <1>2, <1>3, <1>4, <1>5, <1>7 DEF Within
<1> QED
  BY <1>6, <1>7 DEF p

LEMMA ListedStays ==
    ASSUME NEW o, NEW p, NEW go, Listed(o, go), \A i, x : Opens(p, i, x) <=> Opens(o, i, x)
    PROVE  Listed(p, go)
<1>1. ASSUME NEW a \in DOMAIN go PROVE \E i : Opens(p, i, go[a])
  BY DEF Listed
<1>2. ASSUME NEW a \in DOMAIN go, NEW b \in DOMAIN go, NEW i, NEW j,
             a < b, Opens(p, i, go[a]), Opens(p, j, go[b])
      PROVE  i < j
  <2>1. Opens(o, i, go[a]) /\ Opens(o, j, go[b])
    BY <1>2
  <2> QED
    BY <1>2, <2>1 DEF Listed
<1> QED
  BY <1>1, <1>2 DEF Listed

\* Any other line leaves the groups as they are.
LEMMA OtherLine ==
    ASSUME NEW S, NEW o \in Seq(S), NEW l, l.line \notin Items \cup {"group"},
           NEW c, NEW go, Grouped(o, c, go)
    PROVE  Grouped(Append(o, l), c, go)
<1> DEFINE p == Append(o, l)
<1>1. /\ DOMAIN p = 1 .. Len(o) + 1 /\ \A i \in DOMAIN o : p[i] = o[i]
      /\ DOMAIN o = 1 .. Len(o) /\ Len(o) \in Nat
  BY MoreLines
<1>2. /\ LinesOf(p, Items) = LinesOf(o, Items)
      /\ LinesOf(p, {"group"}) = LinesOf(o, {"group"})
  BY LinesGrow
<1>3. \A i \in 1 .. Len(o) + 1 : \A h : Below(p, i, h) <=> Below(o, i, h)
  BY BelowGrows
<1>4. \A g : InGroup(p, g) = InGroup(o, g)
  BY InGroupGrows
<1>5. \A i, g : Opens(p, i, g) <=> Opens(o, i, g)
  BY OpensStays
<1>6. \A i \in LinesOf(o, Items) \cup LinesOf(o, {"group"}) :
          p[i] = o[i] /\ i \in 1 .. Len(o) + 1
  BY <1>1 DEF LinesOf
<1>7. DOMAIN o \subseteq DOMAIN p
  BY <1>1
<1> HIDE DEF p
<1>8. \A i \in LinesOf(p, Items) : \E h \in DOMAIN p : Below(p, i, h)
  BY <1>2, <1>3, <1>6, <1>7 DEF Grouped
<1>9. {p[i].distance : i \in LinesOf(p, {"group"})} = {go[a] : a \in DOMAIN go}
  BY <1>2, <1>6 DEF Grouped
<1>10. Listed(p, go)
  BY <1>5, ListedStays DEF Grouped
<1>11. Grouped(p, c, go)
  BY <1>4, <1>8, <1>9, <1>10 DEF Grouped
<1> QED
  BY <1>11 DEF p

\* A header of a group that is listed already.
LEMMA HeaderAgain ==
    ASSUME NEW S, NEW o \in Seq(S), NEW g, NEW c, NEW go, Grouped(o, c, go),
           g \in {go[a] : a \in DOMAIN go}
    PROVE  Grouped(Append(o, GroupLine(g)), c, go)
<1> DEFINE l == GroupLine(g)
           p == Append(o, l)
           G == LinesOf(o, {"group"})
<1>0. l.line = "group" /\ l.distance = g /\ l.line \notin Items
  BY LineKinds DEF Items
<1>1. /\ DOMAIN p = 1 .. Len(o) + 1 /\ \A i \in DOMAIN o : p[i] = o[i] /\ p[Len(o) + 1] = l
      /\ DOMAIN o = 1 .. Len(o) /\ Len(o) \in Nat
  BY MoreLines
<1>2. /\ LinesOf(p, Items) = LinesOf(o, Items)
      /\ LinesOf(p, {"group"}) = G \cup {Len(o) + 1}
  BY <1>0, LinesGrow
<1>3. \A i \in 1 .. Len(o) + 1 : \A h : Below(p, i, h) <=> Below(o, i, h)
  BY BelowGrows
<1>4. \A x : InGroup(p, x) = InGroup(o, x)
  BY <1>0, InGroupGrows
<1>5. PICK k \in G : o[k].distance = g
  BY DEF Grouped
<1>6. \A i, x : Opens(p, i, x) <=> Opens(o, i, x)
  <2>1. \A i, x : x # g => (Opens(p, i, x) <=> Opens(o, i, x))
    BY OpensGrows
  <2>2. \A i : Opens(p, i, g) <=> Opens(o, i, g)
    BY <1>5, OpensGrows
  <2> HIDE DEF p
  <2> QED
    BY <2>1, <2>2
<1>7. \A i \in LinesOf(o, Items) \cup G : p[i] = o[i] /\ i \in 1 .. Len(o) + 1
  BY <1>1 DEF LinesOf
<1>8. DOMAIN o \subseteq DOMAIN p
  BY <1>1
<1>9. p[Len(o) + 1] = l
  BY MoreLines
<1> HIDE DEF p, G, l
<1>10. \A i \in LinesOf(p, Items) : \E h \in DOMAIN p : Below(p, i, h)
  BY <1>2, <1>3, <1>7, <1>8 DEF Grouped
<1>11. {p[i].distance : i \in LinesOf(p, {"group"})} = {go[a] : a \in DOMAIN go}
  <2>1. {o[i].distance : i \in G} = {go[a] : a \in DOMAIN go}
    BY DEF Grouped, G
  <2>2. {p[i].distance : i \in LinesOf(p, {"group"})} = {o[i].distance : i \in G} \cup {g}
    BY <1>0, <1>2, <1>7, <1>9
  <2> QED
    BY <2>1, <2>2
<1>12. Listed(p, go)
  BY <1>6, ListedStays DEF Grouped
<1>13. Grouped(p, c, go)
  BY <1>4, <1>10, <1>11, <1>12 DEF Grouped
<1> QED
  BY <1>13 DEF p, l

\* The first header of a group.
LEMMA HeaderFirst ==
    ASSUME NEW S, NEW o \in Seq(S), NEW g, NEW c, NEW T, NEW go \in Seq(T), Grouped(o, c, go),
           g \notin {go[a] : a \in DOMAIN go}
    PROVE  Grouped(Append(o, GroupLine(g)), c, Append(go, g))
<1> DEFINE l == GroupLine(g)
           p == Append(o, l)
           G == LinesOf(o, {"group"})
           n == Len(o) + 1
           go2 == Append(go, g)
           m == Len(go) + 1
<1>0. l.line = "group" /\ l.distance = g /\ l.line \notin Items
  BY LineKinds DEF Items
<1>1. /\ DOMAIN p = 1 .. n /\ p[n] = l /\ \A i \in DOMAIN o : p[i] = o[i]
      /\ DOMAIN o = 1 .. Len(o) /\ Len(o) \in Nat
  BY MoreLines
<1>2. /\ LinesOf(p, Items) = LinesOf(o, Items)
      /\ LinesOf(p, {"group"}) = G \cup {n}
  BY <1>0, LinesGrow
<1>3. \A i \in 1 .. n : \A h : Below(p, i, h) <=> Below(o, i, h)
  BY BelowGrows
<1>4. \A x : InGroup(p, x) = InGroup(o, x)
  BY <1>0, InGroupGrows
<1>5. \A k \in G : o[k].distance # g
  BY DEF Grouped
<1>6. \A i : Opens(p, i, g) <=> i = n
  BY <1>5, OpensGrows
<1>7. \A i, x : x # g => (Opens(p, i, x) <=> Opens(o, i, x))
  BY OpensGrows
<1>8. \A i \in LinesOf(o, Items) \cup G : p[i] = o[i] /\ i \in 1 .. n /\ i < n /\ i \in Nat
  BY <1>1 DEF LinesOf
<1>9. DOMAIN o \subseteq DOMAIN p
  BY <1>1
<1>10. /\ DOMAIN go2 = DOMAIN go \cup {m} /\ m \notin DOMAIN go
       /\ go2[m] = g /\ \A a \in DOMAIN go : go2[a] = go[a] /\ a < m /\ go[a] # g /\ a \in Nat
       /\ m \in Nat
  <2>1. /\ DOMAIN go2 = 1 .. m /\ go2[m] = g /\ \A a \in DOMAIN go : go2[a] = go[a]
        /\ DOMAIN go = 1 .. Len(go) /\ Len(go) \in Nat
    BY MoreLines
  <2> QED
    BY <2>1
<1>11. \A i, x : Opens(o, i, x) => i \in G
  BY DEF Opens
<1>12. n \in Nat
  BY <1>1
<1> HIDE DEF p, G, l, go2, m, n
<1>13. \A i \in LinesOf(p, Items) : \E h \in DOMAIN p : Below(p, i, h)
  BY <1>2, <1>3, <1>8, <1>9 DEF Grouped
<1>14. {p[i].distance : i \in LinesOf(p, {"group"})} = {go2[a] : a \in DOMAIN go2}
  <2>1. {o[i].distance : i \in G} = {go[a] : a \in DOMAIN go}
    BY DEF Grouped, G
  <2>2. {p[i].distance : i \in LinesOf(p, {"group"})} = {o[i].distance : i \in G} \cup {g}
    BY <1>0, <1>1, <1>2, <1>8
  <2>3. {go2[a] : a \in DOMAIN go2} = {go[a] : a \in DOMAIN go} \cup {g}
    BY <1>10
  <2> QED
    BY <2>1, <2>2, <2>3
<1>15. ASSUME NEW a \in DOMAIN go2 PROVE \E i : Opens(p, i, go2[a])
  BY <1>6, <1>7, <1>10 DEF Grouped, Listed
<1>16. ASSUME NEW a \in DOMAIN go2, NEW b \in DOMAIN go2, NEW i, NEW j,
              a < b, Opens(p, i, go2[a]), Opens(p, j, go2[b])
       PROVE  i < j
  <2>1. a \in DOMAIN go
    BY <1>10, <1>16
  <2>2. Opens(o, i, go[a]) /\ i \in G
    BY <1>7, <1>10, <1>11, <1>16, <2>1
  <2>3. CASE b = m
    <3>1. j = n
      BY <1>6, <1>10, <1>16, <2>3
    <3> QED
      BY <1>8, <2>2, <3>1
  <2>4. CASE b \in DOMAIN go
    <3>1. Opens(o, j, go[b])
      BY <1>7, <1>10, <1>16, <2>4
    <3> QED
      BY <1>16, <2>1, <2>2, <2>4, <3>1 DEF Grouped, Listed
  <2> QED
    BY <1>10, <2>3, <2>4
<1>17. \A x \in Distances : Cardinality(InGroup(p, x)) = c[x]
  BY <1>4 DEF Grouped
<1>18. Listed(p, go2)
  BY <1>15, <1>16 DEF Listed
<1>19. Grouped(p, c, go2)
  BY <1>13, <1>14, <1>17, <1>18 DEF Grouped
<1> QED
  BY <1>19 DEF p, l, go2

\* An item of the group whose header is the last.
LEMMA ItemLine ==
    ASSUME NEW S, NEW o \in Seq(S), NEW l, l.line \in Items, NEW g \in Distances, Within(o, g),
           NEW c, NEW go, Grouped(o, c, go)
    PROVE  Grouped(Append(o, l), [x \in Distances |-> c[x] + (IF x = g THEN 1 ELSE 0)], go)
<1> DEFINE p == Append(o, l)
           n == Len(o) + 1
           d == [x \in Distances |-> c[x] + (IF x = g THEN 1 ELSE 0)]
<1>1. /\ DOMAIN p = 1 .. n /\ \A i \in DOMAIN o : p[i] = o[i]
      /\ DOMAIN o = 1 .. Len(o) /\ Len(o) \in Nat
  BY MoreLines
<1>2. LinesOf(p, Items) = LinesOf(o, Items) \cup {n}
  BY LinesGrow
<1>3. l.line # "group" /\ LinesOf(p, {"group"}) = LinesOf(o, {"group"})
  <2>1. l.line # "group"
    BY DEF Items
  <2> QED
    BY <2>1, LinesGrow
<1>4. \A i \in 1 .. n : \A h : Below(p, i, h) <=> Below(o, i, h)
  BY BelowGrows
<1>5. /\ InGroup(p, g) = InGroup(o, g) \cup {n}
      /\ \A x : x # g => InGroup(p, x) = InGroup(o, x)
  BY InGroupGrows
<1>6. \A i, x : Opens(p, i, x) <=> Opens(o, i, x)
  BY <1>3, OpensStays
<1>7. \A i \in LinesOf(o, Items) \cup LinesOf(o, {"group"}) : p[i] = o[i] /\ i \in 1 .. n
  BY <1>1 DEF LinesOf
<1>8. DOMAIN o \subseteq DOMAIN p /\ n \in 1 .. n /\ n \notin DOMAIN o
  BY <1>1
<1>9. PICK h \in DOMAIN o : Below(o, n, h)
  BY DEF Within
<1>10. \A x : IsFiniteSet(InGroup(o, x)) /\ n \notin InGroup(o, x) /\ Cardinality(InGroup(o, x)) \in Nat
  <2>1. \A x : InGroup(o, x) \subseteq LinesOf(o, Items) /\ LinesOf(o, Items) \subseteq DOMAIN o
    BY DEF InGroup, LinesOf
  <2>2. \A x : IsFiniteSet(InGroup(o, x))
    BY <2>1, LinesFinite, FS_Subset
  <2> QED
    BY <1>8, <2>1, <2>2, FS_CardinalityType
<1>11. Cardinality(InGroup(o, g) \cup {n}) = Cardinality(InGroup(o, g)) + 1
  BY <1>10, FS_AddElement
<1> HIDE DEF p, n
<1>12. \A i \in LinesOf(p, Items) : \E k \in DOMAIN p : Below(p, i, k)
  BY <1>2, <1>4, <1>7, <1>8, <1>9 DEF Grouped
<1>13. {p[i].distance : i \in LinesOf(p, {"group"})} = {go[a] : a \in DOMAIN go}
  BY <1>3, <1>7 DEF Grouped
<1>14. ASSUME NEW x \in Distances PROVE Cardinality(InGroup(p, x)) = d[x]
  <2>1. Cardinality(InGroup(o, x)) = c[x] /\ c[x] \in Nat
    BY <1>10 DEF Grouped
  <2>2. d[x] = c[x] + (IF x = g THEN 1 ELSE 0)
    OBVIOUS
  <2> HIDE DEF d
  <2>3. CASE x = g
    BY <1>5, <1>11, <2>1, <2>2, <2>3
  <2>4. CASE x # g
    BY <1>5, <2>1, <2>2, <2>4
  <2> QED
    BY <2>3, <2>4
<1> HIDE DEF d
<1>15. Listed(p, go)
  BY <1>6, ListedStays DEF Grouped
<1>16. Grouped(p, d, go)
  BY <1>12, <1>13, <1>14, <1>15 DEF Grouped
<1> QED
  BY <1>16 DEF p, d

-----------------------------------------------------------------------------
(* The trailer tells what is above it.                                     *)

\* The lines of each group, none being 0.
Tally == [g \in Distances |-> Count(g)]

TotalsKept(o) ==
    /\ Cardinality(LinesOf(o, Items)) = nextID
    /\ Cardinality(LinesOf(o, {"edge"})) = edgeCount

GroupsKept(o) ==
    /\ Tally \in [Distances -> Nat]
    /\ Grouped(o, Tally, groupOrder)
    /\ {groupOrder[a] : a \in DOMAIN groupOrder} = {g \in Distances : Tally[g] > 0}
    /\ (~edgesStarted /\ currentGroup # NoGroup) =>
          Within(o, currentGroup) /\ Tally[currentGroup] > 0

\* The counters tell the lines written before Close.
TellInv ==
    \E o \in Seq(Line) :
        /\ out = IF closed THEN Append(o, Trailer) ELSE o
        /\ TotalsKept(o)
        /\ bareRefs = 0 => GroupsKept(o)

LEMMA InitTells == Init => TellInv
<1> SUFFICES ASSUME Init PROVE TellInv
  OBVIOUS
<1> DEFINE o == << >>
<1>1. /\ closed = FALSE /\ out = o /\ nextID = 0 /\ edgeCount = 0 /\ groupOrder = << >>
      /\ currentGroup = NoGroup /\ DOMAIN groupCounts = {}
  BY DEF Init
<1>2. o \in Seq(Line) /\ DOMAIN o = {}
  OBVIOUS
<1>3. \A kinds : LinesOf(o, kinds) = {}
  BY <1>2 DEF LinesOf
<1>4. \A g : InGroup(o, g) = {}
  BY <1>3 DEF InGroup
<1>5. Cardinality({}) = 0
  BY FS_EmptySet
<1>6. \A g \in Distances : Tally[g] = 0
  BY <1>1 DEF Tally, Count
<1>7. DOMAIN groupOrder = {}
  BY <1>1
<1> HIDE DEF o
<1>8. Listed(o, groupOrder)
  BY <1>7 DEF Listed
<1>9. Grouped(o, Tally, groupOrder)
  BY <1>3, <1>4, <1>5, <1>6, <1>7, <1>8 DEF Grouped
<1>10. GroupsKept(o)
  <2>1. Tally \in [Distances -> Nat]
    BY <1>6 DEF Tally
  <2>2. {groupOrder[a] : a \in DOMAIN groupOrder} = {}
    BY <1>7
  <2>3. {g \in Distances : Tally[g] > 0} = {}
    BY <1>6
  <2> QED
    BY <1>1, <1>9, <2>1, <2>2, <2>3 DEF GroupsKept
<1>11. TotalsKept(o)
  BY <1>1, <1>3, <1>5 DEF TotalsKept
<1> QED
  BY <1>1, <1>2, <1>10, <1>11 DEF TellInv

\* o, and the header of g if it is needed.
Headed(o, needed, g) == IF needed THEN Append(o, GroupLine(g)) ELSE o

\* The line of an item, below the header of g if that is needed.
LEMMA WriteBelowAppends ==
    ASSUME NEW S, out \in Seq(S), NEW needed \in BOOLEAN, NEW h, NEW l, WriteBelow(needed, h, l)
    PROVE  out' = Append(IF needed THEN Append(out, h) ELSE out, l)
<1>1. out \in Seq(S \cup {h, l}) /\ h \in S \cup {h, l} /\ l \in S \cup {h, l}
  OBVIOUS
<1>2. CASE needed
  <2>1. out' = out \o <<h>> \o <<l>>
    BY <1>2 DEF WriteBelow
  <2>2. out \o <<h>> = Append(out, h)
    BY <1>1
  <2>3. Append(out, h) \o <<l>> = Append(Append(out, h), l)
    BY <1>1
  <2> QED
    BY <1>2, <2>1, <2>2, <2>3
<1>3. CASE ~needed
  <2>1. out' = out \o << >> \o <<l>>
    BY <1>3 DEF WriteBelow
  <2>2. out \o << >> = out /\ out \o <<l>> = Append(out, l)
    BY <1>1
  <2> QED
    BY <1>3, <2>1, <2>2
<1> QED
  BY <1>2, <1>3

LEMMA HeaderKeeps ==
    ASSUME NEW o \in Seq(Line), NEW needed \in BOOLEAN, NEW g \in Distances
    PROVE  /\ Headed(o, needed, g) \in Seq(Line)
           /\ LinesOf(Headed(o, needed, g), Items) = LinesOf(o, Items)
           /\ LinesOf(Headed(o, needed, g), {"edge"}) = LinesOf(o, {"edge"})
<1>1. CASE needed
  <2>1. GroupLine(g) \in Line
    BY DEF Line
  <2>2. GroupLine(g).line \notin Items /\ GroupLine(g).line \notin {"edge"}
    BY LineKinds DEF Items
  <2>3. Headed(o, needed, g) = Append(o, GroupLine(g))
    BY <1>1 DEF Headed
  <2>4. /\ LinesOf(Append(o, GroupLine(g)), Items) = LinesOf(o, Items)
        /\ LinesOf(Append(o, GroupLine(g)), {"edge"}) = LinesOf(o, {"edge"})
    BY <2>2, LinesGrow
  <2> QED
    BY <2>1, <2>3, <2>4
<1>2. CASE ~needed
  BY <1>2 DEF Headed
<1> QED
  BY <1>1, <1>2

LEMMA HeaderGroups ==
    ASSUME NEW o \in Seq(Line), NEW needed \in BOOLEAN, NEW g \in Distances,
           NEW c, NEW go \in Seq(Distances), Grouped(o, c, go),
           {go[a] : a \in DOMAIN go} = {x \in Distances : c[x] > 0},
           ~needed => Within(o, g) /\ c[g] > 0
    PROVE  /\ Grouped(Headed(o, needed, g), c, IF c[g] = 0 THEN Append(go, g) ELSE go)
           /\ Within(Headed(o, needed, g), g)
<1>1. c[g] \in Nat
  <2>1. IsFiniteSet(InGroup(o, g))
    <3>1. InGroup(o, g) \subseteq LinesOf(o, Items)
      BY DEF InGroup
    <3> QED
      BY <3>1, LinesFinite, FS_Subset
  <2> QED
    BY <2>1, FS_CardinalityType DEF Grouped
<1>2. CASE ~needed
  BY <1>1, <1>2 DEF Headed
<1>3. CASE needed
  <2>1. Headed(o, needed, g) = Append(o, GroupLine(g))
    BY <1>3 DEF Headed
  <2>2. Within(Append(o, GroupLine(g)), g)
    BY WithinGrows
  <2>3. CASE c[g] = 0
    <3>1. g \notin {go[a] : a \in DOMAIN go}
      BY <2>3
    <3>2. Grouped(Append(o, GroupLine(g)), c, Append(go, g))
      BY <3>1, HeaderFirst
    <3> QED
      BY <2>1, <2>2, <2>3, <3>2
  <2>4. CASE c[g] # 0
    <3>1. g \in {go[a] : a \in DOMAIN go}
      BY <1>1, <2>4
    <3>2. Grouped(Append(o, GroupLine(g)), c, go)
      BY <3>1, HeaderAgain
    <3> QED
      BY <2>1, <2>2, <2>4, <3>2
  <2> QED
    BY <2>3, <2>4
<1> QED
  BY <1>2, <1>3

\* What an item line does to the totals.
LEMMA ItemTotals ==
    ASSUME TypeOK, NEW o \in Seq(Line), TotalsKept(o), NEW l \in Line, l.line \in Items,
           NEW needed \in BOOLEAN, NEW g \in Distances,
           nextID' = nextID + 1, edgeCount' = edgeCount
    PROVE  /\ Append(Headed(o, needed, g), l) \in Seq(Line)
           /\ Cardinality(LinesOf(Append(Headed(o, needed, g), l), Items)) = nextID'
           /\ Cardinality(LinesOf(Append(Headed(o, needed, g), l), {"edge"})) = edgeCount'
<1>1. /\ Headed(o, needed, g) \in Seq(Line)
      /\ LinesOf(Headed(o, needed, g), Items) = LinesOf(o, Items)
      /\ LinesOf(Headed(o, needed, g), {"edge"}) = LinesOf(o, {"edge"})
  BY HeaderKeeps
<1> DEFINE p == Headed(o, needed, g)
<1> HIDE DEF p
<1>2. p \in Seq(Line) /\ Append(p, l) \in Seq(Line)
  BY <1>1 DEF p
<1>3. l.line \notin {"edge"}
  BY DEF Items
<1>4. /\ Cardinality(LinesOf(Append(p, l), Items)) = Cardinality(LinesOf(p, Items)) + 1
      /\ LinesOf(Append(p, l), {"edge"}) = LinesOf(p, {"edge"})
  BY <1>2, <1>3, LinesGrow
<1> QED
  BY <1>1, <1>2, <1>4 DEF p, TotalsKept

LEMMA SymbolTells ==
    ASSUME SymbolsFirst, TypeOK, TellInv, NEW s \in Symbols, WriteSymbol(s)
    PROVE  TellInv'
<1>1. PICK o \in Seq(Line) : /\ out = IF closed THEN Append(o, Trailer) ELSE o
                             /\ TotalsKept(o)
                             /\ bareRefs = 0 => GroupsKept(o)
  BY DEF TellInv
<1> DEFINE g == s.distance
           l == SymbolLine(nextID, s.name)
           needed == g # currentGroup
           p == Headed(o, needed, g)
<1>2. /\ g \in Distances /\ s.name \in Names /\ g # NoGroup
      /\ needed \in BOOLEAN /\ nextID \in Nat
  BY DistancesAssumption DEF Symbols, NoGroup, TypeOK
<1>3. /\ ~closed /\ ~closed' /\ edgesStarted = FALSE /\ edgesStarted' = FALSE
      /\ EnterGroup(g, l) /\ FirstInGroup(g) /\ CountLine(g)
      /\ nextID' = nextID + 1 /\ edgeCount' = edgeCount
      /\ bareRefs' = bareRefs /\ currentGroup' = g
  BY DEF WriteSymbol, NewId, EnterGroup, edgeState, TypeOK
<1>4. l \in Line /\ l.line \in Items
  BY <1>2, LineKinds DEF Line, Items
<1>5. out' = Append(p, l)
  <2>1. out = o /\ WriteBelow(needed, GroupLine(g), l)
    BY <1>1, <1>3 DEF EnterGroup
  <2>2. out' = Append(IF needed THEN Append(out, GroupLine(g)) ELSE out, l)
    BY <1>2, <2>1, WriteBelowAppends
  <2> QED
    BY <2>1, <2>2 DEF Headed
<1>6. PICK q \in Seq(Line) : /\ q = Append(p, l)
                             /\ Cardinality(LinesOf(q, Items)) = nextID'
                             /\ Cardinality(LinesOf(q, {"edge"})) = edgeCount'
  <2> HIDE DEF l, needed
  <2> QED
    BY <1>1, <1>2, <1>3, <1>4, ItemTotals
<1>7. TotalsKept(q)'
  BY <1>6 DEF TotalsKept
<1>8. ASSUME bareRefs' = 0 PROVE GroupsKept(q)'
  <2> HIDE DEF l, needed
  <2>1. PICK c \in [Distances -> Nat], go \in Seq(Distances) : c = Tally /\ go = groupOrder
    BY <1>1, <1>3, <1>8 DEF GroupsKept, TypeOK
  <2>2. /\ Grouped(o, c, go)
        /\ {go[a] : a \in DOMAIN go} = {x \in Distances : c[x] > 0}
        /\ ~needed => Within(o, g) /\ c[g] > 0
    BY <1>1, <1>2, <1>3, <1>8, <2>1 DEF GroupsKept, needed
  <2>3. Count(g) = c[g]
    BY <1>2, <2>1 DEF Tally
  <2>4. PICK go2 : go2 = (IF c[g] = 0 THEN Append(go, g) ELSE go) /\ groupOrder' = go2
    BY <1>3, <2>1, <2>3 DEF FirstInGroup
  <2>5. PICK c2 : c2 = [x \in Distances |-> c[x] + (IF x = g THEN 1 ELSE 0)]
    OBVIOUS
  <2>6. Tally' = c2
    <3>1. \A x \in Distances : Count(x)' = c[x] + (IF x = g THEN 1 ELSE 0)
      BY <1>2, <1>3, <2>1 DEF CountLine, Count, Tally
    <3> QED
      BY <2>5, <3>1 DEF Tally
  <2>7. Grouped(p, c, go2) /\ Within(p, g) /\ p \in Seq(Line)
    BY <1>2, <2>2, <2>4, HeaderGroups, HeaderKeeps
  <2>8. Grouped(q, c2, go2)
    <3> HIDE DEF p
    <3> QED
      BY <1>2, <1>4, <1>6, <2>5, <2>7, ItemLine
  <2>9. Within(q, g)
    <3>1. l.line \notin Heads
      BY LineKinds DEF l, Heads
    <3> HIDE DEF p
    <3> QED
      BY <1>6, <2>7, <3>1, WithinGrows
  <2>10. c2 \in [Distances -> Nat] /\ c2[g] > 0
    BY <1>2, <2>5
  <2>11. {go2[a] : a \in DOMAIN go2} = {x \in Distances : c2[x] > 0}
    <3>1. {go2[a] : a \in DOMAIN go2} = {go[a] : a \in DOMAIN go} \cup {g}
      <4>1. CASE c[g] = 0
        <5>1. /\ DOMAIN go2 = 1 .. Len(go) + 1 /\ go2[Len(go) + 1] = g
              /\ \A a \in DOMAIN go : go2[a] = go[a]
              /\ DOMAIN go = 1 .. Len(go) /\ Len(go) \in Nat
          BY <2>4, <4>1, MoreLines
        <5>2. DOMAIN go2 = DOMAIN go \cup {Len(go) + 1}
          BY <5>1
        <5> QED
          BY <5>1, <5>2
      <4>2. CASE c[g] # 0
        <5>1. g \in {go[a] : a \in DOMAIN go}
          BY <1>2, <2>2, <4>2
        <5> QED
          BY <2>4, <4>2, <5>1
      <4> QED
        BY <4>1, <4>2
    <3>2. {x \in Distances : c2[x] > 0} = {x \in Distances : c[x] > 0} \cup {g}
      BY <1>2, <2>5
    <3> QED
      BY <2>2, <3>1, <3>2
  <2>12. currentGroup' = g
    BY <1>3
  <2> HIDE DEF g, p
  <2>13. Grouped(q, Tally', groupOrder') /\ Tally' \in [Distances -> Nat]
    BY <2>4, <2>6, <2>8, <2>10
  <2>14. {groupOrder'[a] : a \in DOMAIN groupOrder'} = {x \in Distances : Tally'[x] > 0}
    <3>1. groupOrder' = go2
      BY <2>4
    <3>2. {groupOrder'[a] : a \in DOMAIN groupOrder'} = {go2[a] : a \in DOMAIN go2}
      BY <3>1
    <3>3. {x \in Distances : Tally'[x] > 0} = {x \in Distances : c2[x] > 0}
      BY <2>6
    <3> QED
      BY <2>11, <3>2, <3>3
  <2>15. Within(q, currentGroup') /\ Tally'[currentGroup'] > 0
    BY <2>6, <2>9, <2>10, <2>12
  <2> QED
    BY <2>13, <2>14, <2>15 DEF GroupsKept
<1>9. out' = q /\ ~closed'
  BY <1>3, <1>5, <1>6
<1> QED
  BY <1>7, <1>8, <1>9 DEF TellInv

\* A bare reference counts among the symbols, and its group is not told.
LEMMA BareTells ==
    ASSUME TypeOK, TellInv, NEW r \in Names, NEW g \in Distances, WriteBareRef(r, g)
    PROVE  TellInv'
<1>1. PICK o \in Seq(Line) : /\ out = IF closed THEN Append(o, Trailer) ELSE o
                             /\ TotalsKept(o)
  BY DEF TellInv
<1> DEFINE l == BareLine(nextID)
           needed == g # currentGroup
           p == Headed(o, needed, g)
<1>2. /\ ~closed /\ ~closed' /\ EnterGroup(g, l) /\ nextID \in Nat
      /\ nextID' = nextID + 1 /\ edgeCount' = edgeCount /\ bareRefs' # 0
  BY DEF WriteBareRef, NewId, edgeState, TypeOK
<1>3. l \in Line /\ l.line \in Items /\ needed \in BOOLEAN
  BY <1>2, LineKinds DEF Line, Items
<1>4. out' = Append(p, l)
  <2>1. out = o /\ WriteBelow(needed, GroupLine(g), l)
    BY <1>1, <1>2 DEF EnterGroup
  <2>2. out' = Append(IF needed THEN Append(out, GroupLine(g)) ELSE out, l)
    BY <1>3, <2>1, WriteBelowAppends
  <2> QED
    BY <2>1, <2>2 DEF Headed
<1>5. PICK q \in Seq(Line) : /\ q = Append(p, l)
                             /\ Cardinality(LinesOf(q, Items)) = nextID'
                             /\ Cardinality(LinesOf(q, {"edge"})) = edgeCount'
  <2> HIDE DEF l, needed
  <2> QED
    BY <1>1, <1>2, <1>3, ItemTotals
<1>6. TotalsKept(q)'
  BY <1>5 DEF TotalsKept
<1> QED
  BY <1>2, <1>4, <1>5, <1>6 DEF TellInv

\* The edges header ends the groups; the lines below it are edges.
LEMMA EdgeTells ==
    ASSUME TypeOK, TellInv, NEW e \in Edges, WriteEdge(e)
    PROVE  TellInv'
<1>1. PICK o \in Seq(Line) : /\ out = IF closed THEN Append(o, Trailer) ELSE o
                             /\ TotalsKept(o)
                             /\ bareRefs = 0 => GroupsKept(o)
  BY DEF TellInv
<1> DEFINE l == EdgeLine(symIndex[e.source], symIndex[e.target])
           h == EdgesLine(Deferred)
<1>2. /\ ~closed /\ ~closed' /\ edgesStarted' = TRUE /\ WriteBelow(~edgesStarted, h, l)
      /\ edgeCount' = edgeCount + 1 /\ nextID' = nextID /\ groupOrder' = groupOrder
      /\ groupCounts' = groupCounts /\ bareRefs' = bareRefs
      /\ edgesStarted \in BOOLEAN
  BY DEF WriteEdge, index, groups, TypeOK
<1>3. l \in Line /\ h \in Line
  <2>1. {symIndex[e.source], symIndex[e.target]} \subseteq Nat
    BY DEF WriteEdge, SkipEdge, TypeOK
  <2> QED
    BY <2>1 DEF Line
<1>4. /\ l.line \notin Items \cup {"group"} /\ h.line \notin Items \cup {"group"}
      /\ l.line \in {"edge"} /\ h.line \notin {"edge"}
  BY LineKinds DEF Items
<1> HIDE DEF l, h
<1>5. PICK p \in Seq(Line) : p = IF ~edgesStarted THEN Append(o, h) ELSE o
  <2>1. (IF ~edgesStarted THEN Append(o, h) ELSE o) \in Seq(Line)
    BY <1>3
  <2> QED
    BY <2>1
<1>6. /\ LinesOf(p, Items) = LinesOf(o, Items) /\ LinesOf(p, {"edge"}) = LinesOf(o, {"edge"})
      /\ \A c, go : Grouped(o, c, go) => Grouped(p, c, go)
  <2>1. CASE edgesStarted
    BY <1>5, <2>1
  <2>2. CASE ~edgesStarted
    <3>1. h.line \notin Items /\ h.line \notin {"edge"}
      BY <1>4
    <3>2. p = Append(o, h)
      BY <1>5, <2>2
    <3>3. LinesOf(p, Items) = LinesOf(o, Items) /\ LinesOf(p, {"edge"}) = LinesOf(o, {"edge"})
      BY <3>1, <3>2, LinesGrow
    <3>4. ASSUME NEW c, NEW go, Grouped(o, c, go) PROVE Grouped(p, c, go)
      BY <1>4, <3>2, <3>4, OtherLine
    <3> QED
      BY <3>3, <3>4
  <2> QED
    BY <2>1, <2>2
<1>7. PICK q \in Seq(Line) : q = Append(p, l)
  <2>1. Append(p, l) \in Seq(Line)
    BY <1>3
  <2> QED
    BY <2>1
<1>8. out' = q
  BY <1>1, <1>2, <1>5, <1>7, WriteBelowAppends
<1>9. TotalsKept(q)'
  <2>1. l.line \notin Items /\ l.line \in {"edge"}
    BY <1>4
  <2>2. /\ LinesOf(q, Items) = LinesOf(p, Items)
        /\ Cardinality(LinesOf(q, {"edge"})) = Cardinality(LinesOf(p, {"edge"})) + 1
    BY <1>7, <2>1, LinesGrow
  <2> QED
    BY <1>1, <1>2, <1>6, <2>2 DEF TotalsKept
<1>10. ASSUME bareRefs' = 0 PROVE GroupsKept(q)'
  <2>1. Tally' = Tally
    BY <1>2 DEF Tally, Count
  <2>2. Grouped(q, Tally, groupOrder)
    <3>1. Grouped(p, Tally, groupOrder)
      BY <1>1, <1>2, <1>6, <1>10 DEF GroupsKept
    <3>2. PICK c, go : c = Tally /\ go = groupOrder
      OBVIOUS
    <3> QED
      BY <1>4, <1>7, <3>1, <3>2, OtherLine
  <2> QED
    BY <1>1, <1>2, <1>10, <2>1, <2>2 DEF GroupsKept
<1> QED
  BY <1>2, <1>8, <1>9, <1>10 DEF TellInv

LEMMA StepTells == SymbolsFirst /\ TypeOK /\ TellInv /\ [Next]_vars => TellInv'
<1> SUFFICES ASSUME SymbolsFirst, TypeOK, TellInv, [Next]_vars PROVE TellInv'
  OBVIOUS
<1>1. CASE \E s \in Symbols : WriteSymbol(s)
  BY <1>1, SymbolTells
<1>2. CASE \E e \in Edges : WriteEdge(e)
  BY <1>2, EdgeTells
<1>3. CASE \E q \in Names, d \in Distances : WriteBareRef(q, d)
  BY <1>3, BareTells
<1>4. ASSUME UNCHANGED <<index, groups, edgeState, sent>>, ~closed, closed', out' = Append(out, Trailer)
      PROVE  TellInv'
  <2>1. UNCHANGED <<nextID, edgeCount, edgesStarted, currentGroup, groupCounts, groupOrder, bareRefs>>
    BY <1>4 DEF index, groups, edgeState, sent
  <2>2. Trailer' = Trailer /\ Tally' = Tally
    BY <2>1 DEF Trailer, Tally, Count
  <2>3. \A o : (TotalsKept(o) <=> TotalsKept(o)') /\ (GroupsKept(o) <=> GroupsKept(o)')
    BY <2>1, <2>2 DEF TotalsKept, GroupsKept
  <2> QED
    BY <1>4, <2>1, <2>2, <2>3 DEF TellInv
<1>5. CASE Close
  BY <1>4, <1>5 DEF Close
<1>6. CASE UNCHANGED vars
  <2>1. UNCHANGED <<nextID, edgeCount, edgesStarted, currentGroup, groupCounts, groupOrder, bareRefs,
                    out, closed>>
    BY <1>6 DEF vars, index, groups, edgeState, sent
  <2>2. Trailer' = Trailer /\ Tally' = Tally
    BY <2>1 DEF Trailer, Tally, Count
  <2>3. \A o : (TotalsKept(o) <=> TotalsKept(o)') /\ (GroupsKept(o) <=> GroupsKept(o)')
    BY <2>1, <2>2 DEF TotalsKept, GroupsKept
  <2> QED
    BY <2>1, <2>2, <2>3 DEF TellInv
<1> QED
  BY <1>1, <1>2, <1>3, <1>5, <1>6 DEF Next

\* What a header and its place are, as the properties choose them.
LEMMA HeaderChosen ==
    ASSUME NEW S, out \in Seq(S), NEW i, NEW h, Below(out, i, h)
    PROVE  Header(i) = out[h]
<1> DEFINE P(x) == /\ x \in Lines({"group", "edges"})
                   /\ x < i
                   /\ \A k \in Lines({"group", "edges"}) : k < i => k <= x
<1>1. \A x \in Lines({"group", "edges"}) : x \in Nat
  BY DEF Lines
<1>2. P(h) /\ \A x : P(x) => x = h
  BY <1>1 DEF Below, Lines, LinesOf, Heads
<1>3. Header(i) = out[CHOOSE x : P(x)]
  BY DEF Header
<1> HIDE DEF P
<1>4. (CHOOSE x : P(x)) = h
  BY <1>2
<1> QED
  BY <1>3, <1>4

LEMMA FirstChosen ==
    ASSUME NEW S, out \in Seq(S), NEW i, NEW g, Opens(out, i, g)
    PROVE  FirstHeader(g) = i
<1> DEFINE P(x) == /\ x \in Lines({"group"})
                   /\ out[x].distance = g
                   /\ \A k \in Lines({"group"}) : out[k].distance = g => x <= k
<1>1. \A x \in Lines({"group"}) : x \in Nat
  BY DEF Lines
<1>2. P(i) /\ \A x : P(x) => x = i
  BY <1>1 DEF Opens, Lines, LinesOf
<1>3. FirstHeader(g) = CHOOSE x : P(x)
  <2>1. FirstHeader(g) = CHOOSE x \in Lines({"group"}) :
                            /\ out[x].distance = g
                            /\ \A k \in Lines({"group"}) : out[k].distance = g => x <= k
    BY DEF FirstHeader
  <2> QED
    BY <2>1
<1> HIDE DEF P
<1> QED
  BY <1>2, <1>3

LEMMA TellsTotals == TypeOK /\ TellInv => TrailerTellsTotals
<1> SUFFICES ASSUME TypeOK, TellInv, closed
             PROVE  /\ TotalsTold(out[Len(out)])
                    /\ bareRefs = 0 => GroupsTold(out[Len(out)])
  BY DEF TrailerTellsTotals
<1>1. PICK o \in Seq(Line) : /\ out = Append(o, Trailer)
                             /\ TotalsKept(o)
                             /\ bareRefs = 0 => GroupsKept(o)
  BY DEF TellInv
<1> DEFINE t == out[Len(out)]
<1>2. out \in Seq(Line \cup {Trailer})
  BY <1>1
<1>3. t = Trailer
  BY <1>1
<1>4. /\ t.symbols = nextID /\ t.edges = edgeCount
      /\ t.counts = [i \in DOMAIN groupOrder |-> <<groupOrder[i], Count(groupOrder[i])>>]
  BY <1>3 DEF Trailer, TrailerLine
<1>5. Trailer.line \notin Items \cup {"group", "edge"}
  BY LineKinds DEF Trailer, Items
<1>6. /\ LinesOf(out, Items) = LinesOf(o, Items)
      /\ LinesOf(out, {"edge"}) = LinesOf(o, {"edge"})
  BY <1>1, <1>5, LinesGrow
<1>7. \A kinds : Lines(kinds) = LinesOf(out, kinds)
  BY DEF Lines, LinesOf
<1> HIDE DEF t
<1>8. TotalsTold(t)
  BY <1>1, <1>4, <1>6, <1>7 DEF TotalsTold, TotalsKept, Items
<1>9. ASSUME bareRefs = 0 PROVE GroupsTold(t)
  <2>1. Grouped(out, Tally, groupOrder)
    <3>1. Trailer.line \notin Items \cup {"group"}
      BY <1>5
    <3> QED
      BY <1>1, <1>9, <3>1, OtherLine DEF GroupsKept
  <2>2. \A a \in DOMAIN groupOrder : groupOrder[a] \in Distances
    BY DEF TypeOK
  <2>3. ASSUME NEW g \in Distances PROVE SymbolLinesIn(g) = InGroup(out, g)
    <3>1. ASSUME NEW i \in LinesOf(out, Items)
          PROVE  Header(i) = GroupLine(g)
                   <=> \E h \in DOMAIN out : Below(out, i, h) /\ out[h] = GroupLine(g)
      <4>1. PICK h \in DOMAIN out : Below(out, i, h)
        BY <2>1 DEF Grouped
      <4>2. \A x : Below(out, i, x) => Header(i) = out[x]
        BY <1>2, HeaderChosen
      <4> QED
        BY <4>1, <4>2
    <3>2. SymbolLinesIn(g) = {i \in LinesOf(out, Items) : Header(i) = GroupLine(g)}
      BY <1>7 DEF SymbolLinesIn, Items
    <3> QED
      BY <3>1, <3>2 DEF InGroup
  <2>4. {t.counts[i][1] : i \in DOMAIN t.counts} = {out[i].distance : i \in Lines({"group"})}
    <3>1. {t.counts[i][1] : i \in DOMAIN t.counts} = {groupOrder[i] : i \in DOMAIN groupOrder}
      BY <1>4
    <3> QED
      BY <1>7, <2>1, <3>1 DEF Grouped
  <2>5. ASSUME NEW i \in DOMAIN t.counts
        PROVE  t.counts[i][2] = Cardinality(SymbolLinesIn(t.counts[i][1]))
    <3>1. i \in DOMAIN groupOrder /\ t.counts[i] = <<groupOrder[i], Count(groupOrder[i])>>
      BY <1>4
    <3>2. Count(groupOrder[i]) = Cardinality(InGroup(out, groupOrder[i]))
      BY <2>1, <2>2, <3>1 DEF Grouped, Tally
    <3> QED
      BY <2>2, <2>3, <3>1, <3>2
  <2>6. ASSUME NEW i \in DOMAIN t.counts, NEW j \in DOMAIN t.counts, i < j
        PROVE  FirstHeader(t.counts[i][1]) < FirstHeader(t.counts[j][1])
    <3>1. /\ i \in DOMAIN groupOrder /\ t.counts[i][1] = groupOrder[i]
          /\ j \in DOMAIN groupOrder /\ t.counts[j][1] = groupOrder[j]
      BY <1>4
    <3>2. PICK x, y : Opens(out, x, groupOrder[i]) /\ Opens(out, y, groupOrder[j])
      BY <2>1, <3>1 DEF Grouped, Listed
    <3>3. x < y
      BY <2>1, <2>6, <3>1, <3>2 DEF Grouped, Listed
    <3>4. FirstHeader(groupOrder[i]) = x /\ FirstHeader(groupOrder[j]) = y
      BY <1>2, <3>2, FirstChosen
    <3> QED
      BY <3>1, <3>3, <3>4
  <2> QED
    BY <2>4, <2>5, <2>6 DEF GroupsTold
<1> QED
  BY <1>8, <1>9 DEF t

\* When callers write their symbols before their edges, the trailer's totals are
\* the lines above it, and its group counts too without bare references, in the
\* order of the groups (stream.go:172-198).
THEOREM TrailerIsRight ==
    ASSUME SymbolsFirst
    PROVE  Spec => []TrailerTellsTotals
<1>1. Init => TypeOK /\ TellInv
  BY InitTypes, InitTells
<1>2. TypeOK /\ TellInv /\ [Next]_vars => (TypeOK /\ TellInv)'
  BY StepTypes, StepTells
<1> QED
  BY <1>1, <1>2, TellsTotals, PTL DEF Spec
=============================================================================
