----------------------------- MODULE GraphDelta -----------------------------
(***************************************************************************)
(* Graph snapshots, their pack root (packroot.go) and their deltas         *)
(* (delta.go).                                                             *)
(*                                                                         *)
(* A symbol is a record of name, kind, score and distance, an edge one of  *)
(* source and target names; a graph has sequences of both, as a Payload    *)
(* does.  Provenance, edge types and statuses are left out.                *)
(*                                                                         *)
(* A root is what is hashed, sorted: equal roots are equal bags.           *)
(***************************************************************************)
EXTENDS Integers, SequencesExt

CONSTANTS
    KindAbbrev,  \* the table of kinds that have a short form (gcf.go:76-93)
    Printed      \* the score that is read where "%.2f" printed one

ASSUME KindsAssumption ==
    \A k, l \in DOMAIN KindAbbrev : KindAbbrev[k] = KindAbbrev[l] => k = l

\* Scores are numbers, printing keeps their order, and what is read is a score.
ASSUME ScoresAssumption ==
    /\ DOMAIN Printed \subseteq Int
    /\ \A s, t \in DOMAIN Printed : /\ Printed[s] \in DOMAIN Printed
                                    /\ s <= t => Printed[s] <= Printed[t]

\* Symbol, Edge and Payload (gcf.go:38-73).
IsSymbol(s) ==
    /\ s = [name |-> s.name, kind |-> s.kind, score |-> s.score, distance |-> s.distance]
    /\ s.score \in DOMAIN Printed
    /\ s.distance \in Nat

IsEdge(e) == e = [source |-> e.source, target |-> e.target]

IsGraph(g) ==
    /\ g = [symbols |-> g.symbols, edges |-> g.edges]
    /\ g.symbols \in Seq(Range(g.symbols)) /\ \A s \in Range(g.symbols) : IsSymbol(s)
    /\ g.edges \in Seq(Range(g.edges)) /\ \A e \in Range(g.edges) : IsEdge(e)

Abbrev(kind) == IF kind \in DOMAIN KindAbbrev THEN KindAbbrev[kind] ELSE kind

\* KindExpand is KindAbbrev reversed: a kind that is spelt like a short form
\* comes back as the kind this is short for.
expandKind(k) ==
    IF \E kind \in DOMAIN KindAbbrev : KindAbbrev[kind] = k
    THEN CHOOSE kind \in DOMAIN KindAbbrev : KindAbbrev[kind] = k
    ELSE k

-----------------------------------------------------------------------------
(* The pack root.                                                          *)

\* Scores are hashed in full.
SymbolRecord(s) == [s EXCEPT !.kind = Abbrev(@)]

\* symKindMap: of the symbols of one name the last gives its kind, and a name
\* without a symbol has none.
KindOf(symbols, q) ==
    LET named == {i \in DOMAIN symbols : symbols[i].name = q}
    IN  IF named = {} THEN "" ELSE Abbrev(symbols[Max(named)].kind)

EdgeRecord(symbols, e) ==
    [source |-> <<KindOf(symbols, e.source), e.source>>,
     target |-> <<KindOf(symbols, e.target), e.target>>]

\* Mutant: the edge records are left out of the hash.
PackRootOfSymbols(symbols, edges) ==
    [symbols |-> ToBag([i \in DOMAIN symbols |-> SymbolRecord(symbols[i])]),
     edges |-> EmptyBag]

PackRoot(symbols, edges) ==
    [symbols |-> ToBag([i \in DOMAIN symbols |-> SymbolRecord(symbols[i])]),
     edges |-> ToBag([i \in DOMAIN edges |-> EdgeRecord(symbols, edges[i])])]

RootOf(g) == PackRoot(g.symbols, g.edges)

-----------------------------------------------------------------------------
(* Applying a delta.                                                       *)

\* symKey and edgeKey: the identity of a symbol, or of an edge.
KeyOf(item) == IF "name" \in DOMAIN item THEN <<item.kind, item.name>> ELSE <<item.source, item.target>>

\* A Go map filled from a list: of the items with one key the last stays.
MapOf(items) ==
    [k \in {KeyOf(items[i]) : i \in DOMAIN items} |->
        items[Max({i \in DOMAIN items : KeyOf(items[i]) = k})]]

DistinctKeys(items) ==
    \A i, j \in DOMAIN items : KeyOf(items[i]) = KeyOf(items[j]) => i = j

KeysOf(items) == {KeyOf(items[i]) : i \in DOMAIN items}

\* No removal of what is not there, and no addition of what is.
Fits(map, removed, added) ==
    /\ DistinctKeys(removed)
    /\ KeysOf(removed) \subseteq DOMAIN map
    /\ DistinctKeys(added)
    /\ KeysOf(added) \cap (DOMAIN map \ KeysOf(removed)) = {}

\* The items left in the map, when the changes fit.
Changed(map, removed, added) ==
    {map[k] : k \in DOMAIN map \ KeysOf(removed)} \cup Range(added)

Refused == [ok |-> FALSE]

Result(symbols, edges) ==
    [ok |-> TRUE, graph |-> [symbols |-> symbols, edges |-> edges]]

\* Mutant: the root of the result is not compared.
VerifyDeltaUnchecked(base, d) ==
    LET symMap == MapOf(base.symbols)
        edgeMap == MapOf(base.edges)
    IN  IF /\ Fits(symMap, d.removed, d.added)
           /\ Fits(edgeMap, d.removedEdges, d.addedEdges)
        THEN { Result(symbols, edges) :
                 symbols \in SetToSeqs(Changed(symMap, d.removed, d.added)),
                 edges \in SetToSeqs(Changed(edgeMap, d.removedEdges, d.addedEdges)) }
        ELSE {Refused}

\* The outcomes of VerifyDelta: the result's items come out of Go maps in any
\* order.  The base root is not looked at.
VerifyDelta(base, d) ==
    LET symMap == MapOf(base.symbols)
        edgeMap == MapOf(base.edges)
    IN  IF /\ Fits(symMap, d.removed, d.added)
           /\ Fits(edgeMap, d.removedEdges, d.addedEdges)
        THEN { IF PackRoot(symbols, edges) = d.newRoot THEN Result(symbols, edges) ELSE Refused :
                 symbols \in SetToSeqs(Changed(symMap, d.removed, d.added)),
                 edges \in SetToSeqs(Changed(edgeMap, d.removedEdges, d.addedEdges)) }
        ELSE {Refused}

-----------------------------------------------------------------------------
(* The payload between two graphs, and what its reader gets.               *)

\* A DeltaPayload as an application builds it: a symbol that changed is removed
\* and added.
Diff(base, next) ==
    [removed |-> SetToSeq(Range(base.symbols) \ Range(next.symbols)),
     added |-> SetToSeq(Range(next.symbols) \ Range(base.symbols)),
     removedEdges |-> SetToSeq(Range(base.edges) \ Range(next.edges)),
     addedEdges |-> SetToSeq(Range(next.edges) \ Range(base.edges)),
     newRoot |-> RootOf(next)]

\* A symbol as a line spells it, read back.
OnWire(s) == [s EXCEPT !.kind = expandKind(Abbrev(@)), !.score = Printed[@]]

\* Mutant: the short form of the kind is left as it is.
RemovalOnWireShort(s) == [name |-> s.name, kind |-> Abbrev(s.kind), score |-> 0, distance |-> 0]

\* A removed line has kind and name only; the other fields are Go's zeros.
RemovalOnWire(s) == [name |-> s.name, kind |-> expandKind(Abbrev(s.kind)), score |-> 0, distance |-> 0]

\* DecodeDelta(EncodeDelta(d)).
DeltaOnWire(d) ==
    [d EXCEPT !.removed = [i \in DOMAIN @ |-> RemovalOnWire(@[i])],
              !.added = [i \in DOMAIN @ |-> OnWire(@[i])]]
=============================================================================
