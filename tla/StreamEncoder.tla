--------------------------- MODULE StreamEncoder ---------------------------
(***************************************************************************)
(* The streaming graph encoder of stream.go.  Every method holds the mutex *)
(* for its whole body, so a call is a step and callers interleave between  *)
(* calls.  A reader (GraphReader) follows the writer's output.             *)
(*                                                                         *)
(* Kinds, scores, edge types and the header line are abstracted, and so is *)
(* the writer's error result, which the encoder ignores.                   *)
(*                                                                         *)
(* A definition marked "Mutant" is a broken variant of the one after it,   *)
(* kept to show which property notices the mistake; nothing uses it.       *)
(***************************************************************************)
EXTENDS GraphReader, FiniteSets

CONSTANTS
    Names,        \* qualified names
    Distances,
    MaxSymbols, MaxEdges, MaxBare,  \* bounds: calls of the three Write methods
    SymbolsFirst  \* callers write every symbol before the first edge

ASSUME DistancesAssumption == Distances \subseteq Nat

ASSUME BoundsAssumption ==
    /\ {MaxSymbols, MaxEdges, MaxBare} \subseteq Nat
    /\ SymbolsFirst \in BOOLEAN

VARIABLES
    symIndex,      \* qualified name -> id
    nextID,
    currentGroup,  \* distance of the last group header, or NoGroup
    groupCounts,   \* distance -> lines
    groupOrder,    \* distances, in order of first appearance
    edgeCount,
    edgesStarted,
    closed,        \* Close has been called; no caller writes after it
    out,           \* the lines written
    reader,        \* Decode's state after those lines
    bareRefs,      \* calls of WriteBareRef so far
    sentSymbols,   \* history: the arguments of WriteSymbol
    sentEdges      \* history: the arguments of the WriteEdge calls not skipped

index == <<symIndex, nextID>>
groups == <<currentGroup, groupCounts, groupOrder>>
edgeState == <<edgeCount, edgesStarted>>
sent == <<bareRefs, sentSymbols, sentEdges>>
vars == <<index, groups, edgeState, closed, out, reader, sent>>

NoGroup == -1

Symbols == [name : Names, distance : Distances]
Edges == [source : Names, target : Names]

-----------------------------------------------------------------------------

\* One line, below the header it needs if needed is TRUE.
WriteBelow(needed, header, l) ==
    /\ out' = out \o (IF needed THEN <<header>> ELSE << >>) \o <<l>>
    /\ reader' = Read(IF needed THEN Read(reader, header) ELSE reader, l)

\* groupCounts[g], absent entries being zero.
Count(g) == IF g \in DOMAIN groupCounts THEN groupCounts[g] ELSE 0

CountLine(g) ==
    groupCounts' = [h \in DOMAIN groupCounts \cup {g} |-> Count(h) + (IF h = g THEN 1 ELSE 0)]

\* Mutant: the id is the number of names indexed, not a counter.
NewIdByIndex(q) ==
    /\ symIndex' = [r \in DOMAIN symIndex \cup {q} |->
                      IF r = q THEN Cardinality(DOMAIN symIndex) ELSE symIndex[r]]
    /\ nextID' = nextID + 1

\* Mutant: the counter is advanced before the id is taken.
NewIdFromOne(q) ==
    /\ symIndex' = [r \in DOMAIN symIndex \cup {q} |-> IF r = q THEN nextID + 1 ELSE symIndex[r]]
    /\ nextID' = nextID + 1

NewId(q) ==
    /\ symIndex' = [r \in DOMAIN symIndex \cup {q} |-> IF r = q THEN nextID ELSE symIndex[r]]
    /\ nextID' = nextID + 1

\* Mutant: the group is taken down when its header is written.
FirstInGroupAtHeader(g) ==
    groupOrder' = IF g # currentGroup THEN Append(groupOrder, g) ELSE groupOrder

FirstInGroup(g) ==
    groupOrder' = IF Count(g) = 0 THEN Append(groupOrder, g) ELSE groupOrder

\* Mutant: the header is written only for a group never seen before.
EnterGroupOnce(g, l) ==
    /\ WriteBelow(Count(g) = 0, GroupLine(g), l)
    /\ currentGroup' = g

EnterGroup(g, l) ==
    /\ WriteBelow(g # currentGroup, GroupLine(g), l)
    /\ currentGroup' = g

WriteSymbol(s) ==
    /\ ~closed
    /\ Len(sentSymbols) < MaxSymbols
    /\ SymbolsFirst => ~edgesStarted
    /\ EnterGroup(s.distance, SymbolLine(nextID, s.name))
    /\ FirstInGroup(s.distance)
    /\ NewId(s.name)
    /\ CountLine(s.distance)
    /\ sentSymbols' = Append(sentSymbols, s)
    /\ UNCHANGED <<edgeState, closed, bareRefs, sentEdges>>

\* An edge with an endpoint nobody has written is skipped.
SkipEdge(e) == ~({e.source, e.target} \subseteq DOMAIN symIndex)

WriteEdge(e) ==
    /\ ~closed
    /\ ~SkipEdge(e)
    /\ edgeCount < MaxEdges
    /\ WriteBelow(~edgesStarted, EdgesLine(Deferred),
                  EdgeLine(symIndex[e.source], symIndex[e.target]))
    /\ edgesStarted' = TRUE
    /\ edgeCount' = edgeCount + 1
    /\ sentEdges' = Append(sentEdges, e)
    /\ UNCHANGED <<index, groups, closed, bareRefs, sentSymbols>>

\* WriteBareRef does not put its group into groupOrder.
WriteBareRef(q, d) ==
    /\ ~closed
    /\ bareRefs < MaxBare
    /\ SymbolsFirst => ~edgesStarted
    /\ EnterGroup(d, BareLine(nextID))
    /\ NewId(q)
    /\ CountLine(d)
    /\ bareRefs' = bareRefs + 1
    /\ UNCHANGED <<groupOrder, edgeState, closed, sentSymbols, sentEdges>>

Trailer ==
    TrailerLine(nextID, edgeCount,
                [i \in DOMAIN groupOrder |-> <<groupOrder[i], Count(groupOrder[i])>>])

Close ==
    /\ ~closed
    /\ closed' = TRUE
    /\ out' = Append(out, Trailer)
    /\ reader' = Read(reader, Trailer)
    /\ UNCHANGED <<index, groups, edgeState, sent>>

Init ==
    /\ symIndex = [q \in {} |-> 0]
    /\ nextID = 0
    /\ currentGroup = NoGroup
    /\ groupCounts = [g \in {} |-> 0]
    /\ groupOrder = << >>
    /\ edgeCount = 0
    /\ edgesStarted = FALSE
    /\ closed = FALSE
    /\ out = << >>
    /\ reader = FreshReader
    /\ bareRefs = 0
    /\ sentSymbols = << >>
    /\ sentEdges = << >>

Next ==
    \/ \E s \in Symbols : WriteSymbol(s)
    \/ \E e \in Edges : WriteEdge(e)
    \/ \E q \in Names, d \in Distances : WriteBareRef(q, d)
    \/ Close

Spec == Init /\ [][Next]_vars

-----------------------------------------------------------------------------
(* What the lines say, for the trailer to be compared with.                *)

Lines(kinds) == {i \in DOMAIN out : out[i].line \in kinds}

\* The header that line i is below.
Header(i) ==
    out[CHOOSE h \in Lines({"group", "edges"}) :
          /\ h < i
          /\ \A k \in Lines({"group", "edges"}) : k < i => k <= h]

\* The symbol lines that a reader sees in group g.
SymbolLinesIn(g) ==
    {i \in Lines({"symbol", "bare"}) : Header(i) = GroupLine(g)}

\* Where the first header of group g is.
FirstHeader(g) ==
    CHOOSE i \in Lines({"group"}) :
        /\ out[i].distance = g
        /\ \A k \in Lines({"group"}) : out[k].distance = g => i <= k

-----------------------------------------------------------------------------
(* Properties.                                                             *)

\* Types of the encoder's state.
TypeOK ==
    /\ DOMAIN symIndex \subseteq Names
    /\ \A q \in DOMAIN symIndex : symIndex[q] \in 0 .. nextID - 1
    /\ nextID \in Nat /\ edgeCount \in Nat /\ bareRefs \in Nat
    /\ currentGroup \in Distances \cup {NoGroup}
    /\ DOMAIN groupCounts \subseteq Distances
    /\ groupOrder \in Seq(Distances)
    /\ edgesStarted \in BOOLEAN /\ closed \in BOOLEAN
    /\ sentSymbols \in Seq(Symbols) /\ sentEdges \in Seq(Edges)

\* The trailer's totals are the symbol and edge lines above it.
TotalsTold(t) ==
    /\ t.symbols = Cardinality(Lines({"symbol", "bare"}))
    /\ t.edges = Cardinality(Lines({"edge"}))

\* Its counts are, for each group that has a header, the lines a reader saw in
\* it, in the order in which the groups first appeared.
GroupsTold(t) ==
    LET counted == {t.counts[i][1] : i \in DOMAIN t.counts}
    IN  /\ counted = {out[i].distance : i \in Lines({"group"})}
        /\ \A i \in DOMAIN t.counts :
              t.counts[i][2] = Cardinality(SymbolLinesIn(t.counts[i][1]))
        /\ \A i, j \in DOMAIN t.counts :
              i < j => FirstHeader(t.counts[i][1]) < FirstHeader(t.counts[j][1])

\* The trailer that Close writes: its totals are those of the lines above it, and
\* its group counts too (stream.go:190-193) when no bare reference was written,
\* since WriteBareRef opens a group that the trailer then leaves out.
TrailerTellsTotals ==
    closed => /\ TotalsTold(out[Len(out)])
              /\ bareRefs = 0 => GroupsTold(out[Len(out)])

\* Decode accepts the output so far, at any moment, as README.md:165 says; bare
\* references aside, for which it wants the fields of a full symbol line.
DecodeAccepts == bareRefs = 0 => Accepts(reader)

\* The reader has exactly what callers wrote, each symbol under its own
\* distance and each edge between the names the caller meant, although ids and
\* group headers are the encoder's own and a name may be written twice.
ReaderKeepsUp ==
    bareRefs = 0 => /\ reader.symbols = sentSymbols
                    /\ reader.edges = sentEdges

\* The id an edge line will use for a name was declared for that name, so that
\* the next edge may be written.
TablesAgree ==
    bareRefs = 0 => \A q \in DOMAIN symIndex : /\ symIndex[q] \in DOMAIN reader.byId
                                               /\ reader.byId[symIndex[q]] = q
=============================================================================
