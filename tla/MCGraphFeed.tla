----------------------------- MODULE MCGraphFeed -----------------------------
(* Instances of GraphFeed for TLC.  Scores are in thousandths.             *)
EXTENDS GraphFeed

\* Three rows of the table.
MCKindAbbrev == "function" :> "fn" @@ "interface" :> "iface" @@ "type" :> "type"

MCPrinted == [s \in {0, 780, 785, 790, 900} |-> IF s = 785 THEN 790 ELSE s]

Sym(name, kind, score, distance) ==
    [name |-> name, kind |-> kind, score |-> score, distance |-> distance]
Edge(source, target) == [source |-> source, target |-> target]
Graph(symbols, edges) == [symbols |-> symbols, edges |-> edges]

f == Sym("f", "function", 900, 0)
fLess == Sym("f", "function", 780, 0)
fAway == Sym("f", "function", 900, 3)
g == Sym("g", "blob", 780, 0)
gNext == Sym("g", "type", 900, 1)

FaithfulGraphs ==
    { EmptyGraph,
      Graph(<<g, f>>, <<Edge("g", "f"), Edge("f", "g")>>),
      Graph(<<gNext, fLess>>, <<Edge("f", "g")>>),
      Graph(<<fAway, gNext>>, <<Edge("f", "f"), Edge("g", "f")>>) }

\* An edge to a name without a symbol; a third decimal, and a kind spelt like a
\* short form.
UnfaithfulGraphs ==
    { Graph(<<f>>, <<Edge("f", "g")>>),
      Graph(<<Sym("f", "function", 785, 0), Sym("g", "fn", 780, 1)>>, <<Edge("f", "g")>>) }

\* Two kinds of one name, with an edge to it; and one identity twice.
RepeatedNames ==
    { Graph(<<f, Sym("f", "type", 780, 0), g>>, <<Edge("g", "f"), Edge("f", "f")>>),
      Graph(<<f, fLess>>, <<Edge("f", "f"), Edge("f", "f")>>) }

AllGraphs == FaithfulGraphs \cup UnfaithfulGraphs \cup RepeatedNames
=============================================================================
