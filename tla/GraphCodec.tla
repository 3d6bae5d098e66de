----------------------------- MODULE GraphCodec -----------------------------
(***************************************************************************)
(* Encode (gcf.go) and Decode (decode.go) of a whole graph.  What a symbol *)
(* line spells besides its id stands where GraphReader has a name.         *)
(***************************************************************************)
EXTENDS GraphReader, GraphDelta

\* The members of S in the one order that R, a strict order of them, allows.
SortedBy(R, S) ==
    CHOOSE p \in SetToSeqs(S) : \A i, j \in DOMAIN p : i < j => <<p[i], p[j]>> \in R

\* Nearest first, then highest score; the sort is stable, so ties stay in order.
NearestFirst(symbols, i, j) ==
    \/ symbols[i].distance < symbols[j].distance
    \/ /\ symbols[i].distance = symbols[j].distance
       /\ \/ symbols[i].score > symbols[j].score
          \/ symbols[i].score = symbols[j].score /\ i < j

\* Positions in symbols.
OutputOrder(symbols) ==
    LET D == DOMAIN symbols
    IN  SortedBy({p \in D \X D : NearestFirst(symbols, p[1], p[2])}, D)

Ordered(s, order) == [k \in DOMAIN order |-> s[order[k]]]

\* The symbols in the order of their lines.
groupByDistance(symbols) == Ordered(symbols, OutputOrder(symbols))

\* The id of a name: the position of its last line.
LastLineOf(sorted) ==
    [q \in {sorted[k].name : k \in DOMAIN sorted} |->
        Max({k \in DOMAIN sorted : sorted[k].name = q}) - 1]

symIndex(symbols) == LastLineOf(groupByDistance(symbols))

Spelt(s) == [name |-> s.name, kind |-> Abbrev(s.kind), score |-> Printed[s.score]]

\* The header above the k-th symbol, if it opens a group.
GroupHeader(sorted, k) ==
    IF k = 1 \/ sorted[k].distance # sorted[k - 1].distance
    THEN <<GroupLine(sorted[k].distance)>> ELSE << >>

LinesUnderGroups(sorted, id) ==
    LET upTo[k \in 0 .. Len(sorted)] ==
            IF k = 0 THEN << >>
            ELSE Append(upTo[k - 1] \o GroupHeader(sorted, k),
                        SymbolLine(id[sorted[k].name], Spelt(sorted[k])))
    IN  upTo[Len(sorted)]

SymbolLines(symbols) == LinesUnderGroups(groupByDistance(symbols), symIndex(symbols))

\* Where the edges with both ends among the symbols are.
ValidEdges(edges, id) == {i \in DOMAIN edges : {edges[i].source, edges[i].target} \subseteq DOMAIN id}

\* By source id, then target id, stable.
LowestIdsFirst(edges, id, i, j) ==
    LET source(k) == id[edges[k].source]
        target(k) == id[edges[k].target]
    IN  \/ source(i) < source(j)
        \/ /\ source(i) = source(j)
           /\ \/ target(i) < target(j)
              \/ target(i) = target(j) /\ i < j

EdgeOrder(edges, id) ==
    LET V == ValidEdges(edges, id)
    IN  SortedBy({p \in V \X V : LowestIdsFirst(edges, id, p[1], p[2])}, V)

SortedEdges(edges, id) == Ordered(edges, EdgeOrder(edges, id))

\* The edges section that announces n edges.
EdgeSection(n, sorted, id) ==
    <<EdgesLine(n)>> \o
        [k \in DOMAIN sorted |-> EdgeLine(id[sorted[k].source], id[sorted[k].target])]

\* Mutant: the edges header counts the edges that are left out as well.
EdgeLinesCountingAll(edges, id) ==
    IF edges = << >> THEN << >>
    ELSE EdgeSection(Len(edges), SortedEdges(edges, id), id)

\* There is an edges section if there are edges, valid or not.
EdgeLines(edges, id) ==
    IF edges = << >> THEN << >>
    ELSE EdgeSection(Cardinality(ValidEdges(edges, id)), SortedEdges(edges, id), id)

Encode(g) == SymbolLines(g.symbols) \o EdgeLines(g.edges, symIndex(g.symbols))

\* What Decode returns when its scan has ended in r.
OutcomeOf(r) ==
    LET symbol(s) == [name |-> s.name.name, kind |-> expandKind(s.name.kind),
                      score |-> s.name.score, distance |-> s.distance]
        edge(e) == [source |-> e.source.name, target |-> e.target.name]
    IN  IF Accepts(r)
        THEN Result([i \in DOMAIN r.symbols |-> symbol(r.symbols[i])],
                      [i \in DOMAIN r.edges |-> edge(r.edges[i])])
        ELSE Refused

\* Decode's loop over the lines below a header.
Scan(lines) ==
    LET after[k \in 0 .. Len(lines)] ==
            IF k = 0 THEN FreshReader ELSE Read(after[k - 1], lines[k])
    IN  after[Len(lines)]

Decode(lines) == OutcomeOf(Scan(lines))
=============================================================================
