----------------------------- MODULE GraphReader -----------------------------
(***************************************************************************)
(* Decode (decode.go) as the fold over lines that it is: a reader's state, *)
(* and what one more line does to it.  Since neither Decode nor the stream *)
(* encoder buffers, a reader can be run alongside a writer.                *)
(*                                                                         *)
(* A line is a record; a group is its distance, which its header's name    *)
(* spells one to one.  Header fields, scores, kinds and provenance are     *)
(* abstracted, and so is a symbol line with fewer than five fields other   *)
(* than a bare reference.                                                  *)
(***************************************************************************)
EXTENDS Integers, Sequences

GroupLine(d) == [line |-> "group", distance |-> d]
EdgesLine(n) == [line |-> "edges", count |-> n]
SymbolLine(id, q) == [line |-> "symbol", id |-> id, name |-> q]
BareLine(id) == [line |-> "bare", id |-> id]
EdgeLine(src, tgt) == [line |-> "edge", source |-> src, target |-> tgt]
TrailerLine(n, e, c) == [line |-> "trailer", symbols |-> n, edges |-> e, counts |-> c]

Deferred == -1  \* "[?]": no count declared

\* Decode's variables before the first body line.
FreshReader ==
    [ok |-> TRUE,              \* no error returned so far
     symbols |-> << >>,
     edges |-> << >>,
     byId |-> [i \in {} |-> ""],
     distance |-> 0,
     inEdges |-> FALSE,
     declared |-> Deferred]

Failed(r) == [r EXCEPT !.ok = FALSE]

ReadSymbol(r, l) ==
    [r EXCEPT !.symbols = Append(@, [name |-> l.name, distance |-> r.distance]),
              !.byId = [i \in DOMAIN @ \cup {l.id} |-> IF i = l.id THEN l.name ELSE @[i]]]

ReadEdge(r, l) ==
    [r EXCEPT !.edges = Append(@, [source |-> r.byId[l.source], target |-> r.byId[l.target]])]

\* A line below a header: an edge line in the edges section, a full symbol
\* line in any other.
ReadItem(r, l) ==
    IF r.inEdges
    THEN IF l.line = "edge" /\ {l.source, l.target} \subseteq DOMAIN r.byId
         THEN ReadEdge(r, l)
         ELSE Failed(r)
    ELSE IF l.line = "symbol" THEN ReadSymbol(r, l) ELSE Failed(r)

\* One turn of Decode's loop; after an error there are no more.
Read(r, l) ==
    IF ~r.ok \/ l.line = "trailer" THEN r
    ELSE IF l.line = "group" THEN [r EXCEPT !.inEdges = FALSE, !.distance = l.distance]
    ELSE IF l.line = "edges"
         THEN [r EXCEPT !.inEdges = TRUE,
                        !.declared = IF l.count = Deferred THEN @ ELSE l.count]
    ELSE ReadItem(r, l)

\* Decode returns a payload: no line failed, and a declared count is right.
Accepts(r) == r.ok /\ (r.declared # Deferred => Len(r.edges) = r.declared)
=============================================================================
