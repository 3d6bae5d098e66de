--------------------------- MODULE GraphFeedProofs ---------------------------
(***************************************************************************)
(* GraphFeed for all graphs, however many payloads and faults the channel  *)
(* takes: the consumer never holds a mixture of two graphs, it has the     *)
(* producer's graph when the last full and all after it have come, and an  *)
(* orderly channel has nothing refused.                                    *)
(*                                                                         *)
(* For a full payload these rest on Decode reading back what Encode       *)
(* writes, for every graph: the sort has a result, whose items are those   *)
(* sorted, and the reader is followed from line to line.  For a delta the  *)
(* first rests on the comparison of roots in VerifyDelta, the others on    *)
(* what a root tells: the bags of symbols and edges, of graphs that have   *)
(* been through the wire.                                                  *)
(***************************************************************************)
EXTENDS GraphFeed, FiniteSetTheorems, TLAPS

-----------------------------------------------------------------------------
(* Sequences and bags.                                                     *)

\* Two sequences with equal bags, seen through maps that keep them apart, are
\* equal bags themselves.
LEMMA BagsMatch ==
    ASSUME NEW a, NEW b, NEW p, NEW q, DOMAIN p = DOMAIN a, DOMAIN q = DOMAIN b,
           \A i, j \in DOMAIN a : p[i] = p[j] <=> a[i] = a[j],
           \A i, j \in DOMAIN b : q[i] = q[j] <=> b[i] = b[j],
           \A i \in DOMAIN a : \A j \in DOMAIN b : p[i] = q[j] => a[i] = b[j],
           ToBag(p) = ToBag(q)
    PROVE  ToBag(a) = ToBag(b)
<1>1. /\ \A i \in DOMAIN a : \E j \in DOMAIN b : p[i] = q[j]
      /\ \A j \in DOMAIN b : \E i \in DOMAIN a : p[i] = q[j]
  <2>1. DOMAIN ToBag(p) = Range(p) /\ DOMAIN ToBag(q) = Range(q)
    BY DEF ToBag
  <2>2. Range(p) = Range(q)
    BY <2>1
  <2> QED
    BY <2>2 DEF Range
<1>2. Range(a) = Range(b)
  BY <1>1 DEF Range
<1>3. ASSUME NEW x \in Range(a)
      PROVE  ToBag(a)[x] = ToBag(b)[x]
  <2>1. PICK i \in DOMAIN a : a[i] = x
    BY DEF Range
  <2>2. PICK j \in DOMAIN b : p[i] = q[j]
    BY <1>1
  <2>3. b[j] = x
    BY <2>1, <2>2
  <2>4. p[i] \in Range(p) /\ p[i] \in Range(q)
    BY <2>2 DEF Range
  <2>5. {k \in DOMAIN a : a[k] = x} = {k \in DOMAIN p : p[k] = p[i]}
    BY <2>1
  <2>6. {k \in DOMAIN b : b[k] = x} = {k \in DOMAIN q : q[k] = p[i]}
    BY <2>2, <2>3
  <2>7. ToBag(p)[p[i]] = Cardinality({k \in DOMAIN p : p[k] = p[i]})
    BY <2>4 DEF ToBag
  <2>8. ToBag(q)[p[i]] = Cardinality({k \in DOMAIN q : q[k] = p[i]})
    BY <2>4 DEF ToBag
  <2>9. Cardinality({k \in DOMAIN a : a[k] = x}) = Cardinality({k \in DOMAIN b : b[k] = x})
    BY <2>5, <2>6, <2>7, <2>8
  <2> QED
    BY <1>2, <2>9 DEF ToBag
<1>4. ToBag(a) = [x \in Range(a) |-> ToBag(a)[x]] /\ ToBag(b) = [x \in Range(b) |-> ToBag(b)[x]]
  BY DEF ToBag
<1> QED
  BY <1>2, <1>3, <1>4

\* Sequences of the same items, none twice, are one bag.
LEMMA SameItemsOneBag ==
    ASSUME NEW a, IsInjective(a), NEW b, IsInjective(b), Range(a) = Range(b)
    PROVE  ToBag(a) = ToBag(b)
<1>1. ASSUME NEW x \in Range(a)
      PROVE  /\ Cardinality({k \in DOMAIN a : a[k] = x}) = 1
             /\ Cardinality({k \in DOMAIN b : b[k] = x}) = 1
  <2>1. PICK i \in DOMAIN a, j \in DOMAIN b : a[i] = x /\ b[j] = x
    BY DEF Range
  <2>2. {k \in DOMAIN a : a[k] = x} = {i} /\ {k \in DOMAIN b : b[k] = x} = {j}
    BY <2>1 DEF IsInjective
  <2> QED
    BY <2>2, FS_Singleton, Zenon
<1> QED
  BY <1>1 DEF ToBag

\* A bag of items that differ holds none twice.
LEMMA OneBagSameItems ==
    ASSUME NEW a, IsFiniteSet(DOMAIN a), NEW b, IsInjective(b), ToBag(a) = ToBag(b)
    PROVE  IsInjective(a) /\ Range(a) = Range(b)
<1>1. Range(a) = Range(b)
  <2>1. DOMAIN ToBag(a) = Range(a) /\ DOMAIN ToBag(b) = Range(b)
    BY DEF ToBag
  <2> QED
    BY <2>1
<1>2. ASSUME NEW i \in DOMAIN a, NEW j \in DOMAIN a, a[i] = a[j] PROVE i = j
  <2> DEFINE S == {k \in DOMAIN a : a[k] = a[i]}
  <2>1. PICK n \in DOMAIN b : b[n] = a[i]
    BY <1>1 DEF Range
  <2>2. {k \in DOMAIN b : b[k] = a[i]} = {n}
    BY <2>1 DEF IsInjective
  <2>3. a[i] \in Range(a) /\ a[i] \in Range(b)
    BY <1>1 DEF Range
  <2>4. Cardinality(S) = Cardinality({n})
    BY <2>2, <2>3 DEF ToBag
  <2>5. IsFiniteSet(S)
    BY FS_Subset
  <2>6. Cardinality(S) = 1
    BY <2>4, FS_Singleton, Zenon
  <2> HIDE DEF S
  <2>7. \E x : S = {x}
    BY <2>5, <2>6, FS_Singleton, Zenon
  <2>8. i \in S /\ j \in S
    BY <1>2 DEF S
  <2> QED
    BY <2>7, <2>8
<1> QED
  BY <1>1, <1>2 DEF IsInjective

\* The sequences of a finite set.
LEMMA SequencesOfSet ==
    ASSUME NEW S, IsFiniteSet(S)
    PROVE  /\ SetToSeqs(S) # {}
           /\ SetToSeq(S) \in SetToSeqs(S)
           /\ \A f \in SetToSeqs(S) : f \in Seq(S) /\ IsInjective(f) /\ Range(f) = S
<1> DEFINE n == Cardinality(S)
<1>1. n \in Nat /\ ExistsBijection(1 .. n, S)
  BY FS_CardinalityType
<1>2. IsFiniteSet(1 .. n) /\ Cardinality(1 .. n) = n
  <2>1. 1 \in Int /\ n \in Int
    BY <1>1
  <2>2. IsFiniteSet(1 .. n) /\ Cardinality(1 .. n) = IF 1 > n THEN 0 ELSE n - 1 + 1
    BY <2>1, FS_Interval, Zenon
  <2> QED
    BY <1>1, <2>2
<1>3. SetToSeqs(S) = Injection(1 .. n, S)
  BY DEF SetToSeqs, Injection, IsInjective
<1>4. Injection(1 .. n, S) # {}
  BY <1>1 DEF ExistsBijection, Bijection
<1>5. SetToSeq(S) \in Injection(1 .. n, S)
  BY <1>4 DEF SetToSeq, Injection
<1>6. ASSUME NEW f \in Injection(1 .. n, S)
      PROVE  f \in Seq(S) /\ IsInjective(f) /\ Range(f) = S
  <2>1. f \in [1 .. n -> S] /\ IsInjective(f)
    BY DEF Injection
  <2>2. f \in Surjection(1 .. n, S)
    BY <1>2, FS_Injection
  <2>3. Range(f) = S
    BY <2>1, <2>2 DEF Surjection, Range
  <2> QED
    BY <1>1, <2>1, <2>3
<1> QED
  BY <1>3, <1>4, <1>5, <1>6

LEMMA SeqFinite ==
    ASSUME NEW S, NEW s \in Seq(S)
    PROVE  IsFiniteSet(DOMAIN s) /\ IsFiniteSet(Range(s)) /\ Range(s) \subseteq S
<1>1. Len(s) \in Nat /\ DOMAIN s = 1 .. Len(s)
  OBVIOUS
<1>2. IsFiniteSet(DOMAIN s)
  <2>1. 1 \in Int /\ Len(s) \in Int
    BY <1>1
  <2>2. IsFiniteSet(1 .. Len(s))
    BY <2>1, FS_Interval, Zenon
  <2> QED
    BY <1>1, <2>2
<1>3. s \in Surjection(DOMAIN s, Range(s))
  BY DEF Surjection, Range
<1> QED
  BY <1>2, <1>3, FS_Surjection DEF Range

\* A nonempty set of positions has a last one.
LEMMA LastPosition ==
    ASSUME NEW n \in Nat, NEW S \in SUBSET (1 .. n), S # {}
    PROVE  Max(S) \in S
<1> DEFINE T == {n - i : i \in S}
<1>1. T \in SUBSET Nat /\ T # {}
  <2>1. \A i \in 1 .. n : n - i \in Nat
    OBVIOUS
  <2> QED
    BY <2>1
<1>2. PICK m \in T : \A k \in T : ~(<<k, m>> \in OpToRel(<, Nat))
  BY <1>1, NatLessThanWellFounded, WFMin, Zenon
<1>3. \A k \in T : ~(k < m)
  BY <1>1, <1>2, Zenon DEF OpToRel
<1>4. PICK i \in S : m = n - i
  OBVIOUS
<1>5. ASSUME NEW j \in S PROVE i >= j
  <2>1. ~(n - j < n - i)
    BY <1>3, <1>4
  <2>2. i \in 1 .. n /\ j \in 1 .. n
    OBVIOUS
  <2> QED
    BY <2>1, <2>2
<1> QED
  BY <1>5 DEF Max

-----------------------------------------------------------------------------
(* What the wire does to a graph.                                          *)

\* A kind read back has the short form that was read.
LEMMA WireKind == ASSUME NEW k PROVE Abbrev(expandKind(Abbrev(k))) = Abbrev(k)
<1>1. CASE \E kind \in DOMAIN KindAbbrev : KindAbbrev[kind] = Abbrev(k)
  <2>1. /\ expandKind(Abbrev(k)) \in DOMAIN KindAbbrev
        /\ KindAbbrev[expandKind(Abbrev(k))] = Abbrev(k)
    BY <1>1 DEF expandKind
  <2> QED
    BY <2>1 DEF Abbrev
<1>2. CASE ~\E kind \in DOMAIN KindAbbrev : KindAbbrev[kind] = Abbrev(k)
  <2>1. expandKind(Abbrev(k)) = Abbrev(k)
    BY <1>2 DEF expandKind
  <2>2. Abbrev(k) = k
    BY <1>2 DEF Abbrev
  <2> QED
    BY <2>1, <2>2
<1> QED
  BY <1>1, <1>2

\* s is spelt with the kind that its short form stands for.
HasWireKind(s) == expandKind(Abbrev(s.kind)) = s.kind

\* A graph as the wire tells graphs.
IsWireGraph(g) == IsGraph(g) /\ \A s \in Range(g.symbols) : HasWireKind(s)

LEMMA SymbolOnWire ==
    ASSUME NEW s, IsSymbol(s)
    PROVE  /\ OnWire(s) = [name |-> s.name, kind |-> expandKind(Abbrev(s.kind)),
                           score |-> Printed[s.score], distance |-> s.distance]
           /\ IsSymbol(OnWire(s)) /\ HasWireKind(OnWire(s))
           /\ SymbolRecord(s) = [name |-> s.name, kind |-> Abbrev(s.kind),
                                 score |-> s.score, distance |-> s.distance]
           /\ KeyOf(s) = <<s.kind, s.name>>
           /\ KeyOf(RemovalOnWire(s)) = <<expandKind(Abbrev(s.kind)), s.name>>
<1>1. s = [name |-> s.name, kind |-> s.kind, score |-> s.score, distance |-> s.distance]
  BY DEF IsSymbol
<1>2. OnWire(s) = [name |-> s.name, kind |-> expandKind(Abbrev(s.kind)),
                   score |-> Printed[s.score], distance |-> s.distance]
  <2>1. ASSUME NEW k, NEW x
        PROVE  [s EXCEPT !.kind = k, !.score = x]
                 = [name |-> s.name, kind |-> k, score |-> x, distance |-> s.distance]
    <3> DEFINE r == [s EXCEPT !.kind = k, !.score = x]
               t == [name |-> s.name, kind |-> k, score |-> x, distance |-> s.distance]
    <3>1. DOMAIN s = {"name", "kind", "score", "distance"}
      BY <1>1
    <3>2. /\ DOMAIN r = {"name", "kind", "score", "distance"}
          /\ r["kind"] = k /\ r["score"] = x /\ r["name"] = s.name /\ r["distance"] = s.distance
      BY <3>1
    <3>3. r = [f \in DOMAIN r |-> r[f]]
      BY <3>1, Zenon
    <3>4. t = [f \in {"name", "kind", "score", "distance"} |-> t[f]]
      OBVIOUS
    <3>5. t["kind"] = k /\ t["score"] = x /\ t["name"] = s.name /\ t["distance"] = s.distance
      OBVIOUS
    <3> HIDE DEF r, t
    <3>6. r = t
      BY <3>2, <3>3, <3>4, <3>5
    <3> QED
      BY <3>6 DEF r, t
  <2> QED
    BY <2>1 DEF OnWire
<1>3. IsSymbol(OnWire(s)) /\ HasWireKind(OnWire(s))
  BY <1>2, WireKind, ScoresAssumption DEF IsSymbol, HasWireKind
<1>4. SymbolRecord(s) = [name |-> s.name, kind |-> Abbrev(s.kind),
                         score |-> s.score, distance |-> s.distance]
  BY <1>1 DEF SymbolRecord
<1>5. KeyOf(s) = <<s.kind, s.name>>
  BY <1>1 DEF KeyOf
<1>6. KeyOf(RemovalOnWire(s)) = <<expandKind(Abbrev(s.kind)), s.name>>
  BY DEF KeyOf, RemovalOnWire
<1> QED
  BY <1>2, <1>3, <1>4, <1>5, <1>6

\* On such symbols the record tells everything.
LEMMA RecordTells ==
    ASSUME NEW s, IsSymbol(s), HasWireKind(s), NEW t, IsSymbol(t), HasWireKind(t),
           SymbolRecord(s) = SymbolRecord(t)
    PROVE  s = t
<1>1. s.name = t.name /\ Abbrev(s.kind) = Abbrev(t.kind) /\ s.score = t.score
      /\ s.distance = t.distance
  BY SymbolOnWire
<1>2. s.kind = t.kind
  BY <1>1 DEF HasWireKind
<1> QED
  BY <1>1, <1>2 DEF IsSymbol

LEMMA EdgeKey ==
    ASSUME NEW e, IsEdge(e)
    PROVE  KeyOf(e) = <<e.source, e.target>>
BY DEF IsEdge, KeyOf

\* An edge is in its record.
LEMMA EdgeRecordTells ==
    ASSUME NEW e, IsEdge(e), NEW f, IsEdge(f), NEW s, NEW t,
           EdgeRecord(s, e) = EdgeRecord(t, f)
    PROVE  e = f
<1>1. e.source = f.source /\ e.target = f.target
  BY DEF EdgeRecord
<1> QED
  BY <1>1 DEF IsEdge

\* What the roots of two such graphs have in common, the graphs have.
LEMMA RootTells ==
    ASSUME NEW g, IsWireGraph(g), NEW h, IsWireGraph(h), RootOf(g) = RootOf(h)
    PROVE  Content(g) = Content(h)
<1> DEFINE rec(s) == [i \in DOMAIN s |-> SymbolRecord(s[i])]
           edge(x) == [i \in DOMAIN x.edges |-> EdgeRecord(x.symbols, x.edges[i])]
<1>1. ToBag(rec(g.symbols)) = ToBag(rec(h.symbols)) /\ ToBag(edge(g)) = ToBag(edge(h))
  BY DEF RootOf, PackRoot
<1>2. /\ \A i \in DOMAIN g.symbols : IsSymbol(g.symbols[i]) /\ HasWireKind(g.symbols[i])
      /\ \A i \in DOMAIN h.symbols : IsSymbol(h.symbols[i]) /\ HasWireKind(h.symbols[i])
      /\ \A i \in DOMAIN g.edges : IsEdge(g.edges[i])
      /\ \A i \in DOMAIN h.edges : IsEdge(h.edges[i])
  BY DEF IsWireGraph, IsGraph, Range
<1>3. ToBag(g.symbols) = ToBag(h.symbols)
  <2> DEFINE p == rec(g.symbols)
             q == rec(h.symbols)
  <2>1. /\ DOMAIN p = DOMAIN g.symbols /\ DOMAIN q = DOMAIN h.symbols
        /\ \A i \in DOMAIN g.symbols : p[i] = SymbolRecord(g.symbols[i])
        /\ \A i \in DOMAIN h.symbols : q[i] = SymbolRecord(h.symbols[i])
        /\ ToBag(p) = ToBag(q)
    BY <1>1
  <2> HIDE DEF p, q
  <2>2. \A i, j \in DOMAIN g.symbols : p[i] = p[j] <=> g.symbols[i] = g.symbols[j]
    BY <1>2, <2>1, RecordTells
  <2>3. \A i, j \in DOMAIN h.symbols : q[i] = q[j] <=> h.symbols[i] = h.symbols[j]
    BY <1>2, <2>1, RecordTells
  <2>4. \A i \in DOMAIN g.symbols : \A j \in DOMAIN h.symbols :
            p[i] = q[j] => g.symbols[i] = h.symbols[j]
    BY <1>2, <2>1, RecordTells
  <2> QED
    BY <2>1, <2>2, <2>3, <2>4, BagsMatch
<1>4. ToBag(g.edges) = ToBag(h.edges)
  <2> DEFINE p == edge(g)
             q == edge(h)
  <2>1. /\ DOMAIN p = DOMAIN g.edges /\ DOMAIN q = DOMAIN h.edges
        /\ \A i \in DOMAIN g.edges : p[i] = EdgeRecord(g.symbols, g.edges[i])
        /\ \A i \in DOMAIN h.edges : q[i] = EdgeRecord(h.symbols, h.edges[i])
        /\ ToBag(p) = ToBag(q)
    BY <1>1
  <2> HIDE DEF p, q
  <2>2. \A i, j \in DOMAIN g.edges : p[i] = p[j] <=> g.edges[i] = g.edges[j]
    BY <1>2, <2>1, EdgeRecordTells
  <2>3. \A i, j \in DOMAIN h.edges : q[i] = q[j] <=> h.edges[i] = h.edges[j]
    BY <1>2, <2>1, EdgeRecordTells
  <2>4. \A i \in DOMAIN g.edges : \A j \in DOMAIN h.edges :
            p[i] = q[j] => g.edges[i] = h.edges[j]
    BY <1>2, <2>1, EdgeRecordTells
  <2> QED
    BY <2>1, <2>2, <2>3, <2>4, BagsMatch
<1> QED
  BY <1>3, <1>4 DEF Content

\* The wire tells all of a faithful graph.
LEMMA FaithfulTold ==
    ASSUME NEW g, IsGraph(g), Faithful(g)
    PROVE  IsWireGraph(g) /\ Told(g) = Content(g)
<1>1. \A i \in DOMAIN g.symbols : IsSymbol(g.symbols[i]) /\ OnWire(g.symbols[i]) = g.symbols[i]
  BY DEF IsGraph, Faithful, Range
<1>2. \A i \in DOMAIN g.symbols : HasWireKind(g.symbols[i])
  BY <1>1, SymbolOnWire
<1>3. IsWireGraph(g)
  BY <1>2 DEF IsWireGraph, Range
<1>4. [i \in DOMAIN g.symbols |-> OnWire(g.symbols[i])] = g.symbols
  <2>1. g.symbols \in Seq(Range(g.symbols))
    BY DEF IsGraph
  <2> QED
    BY <1>1, <2>1
<1>5. ASSUME NEW e \in Range(g.edges)
      PROVE  {e.source, e.target} \subseteq {g.symbols[i].name : i \in DOMAIN g.symbols}
  <2>1. PICK k \in DOMAIN g.edges : g.edges[k] = e
    BY DEF Range
  <2>2. ASSUME NEW q \in {e.source, e.target}
        PROVE  q \in {g.symbols[i].name : i \in DOMAIN g.symbols}
    <3> DEFINE S == {j \in DOMAIN g.symbols : g.symbols[j].name = q}
    <3>1. Cardinality(S) = 1
      BY <2>1 DEF Faithful, EndsResolve
    <3>2. S # {}
      BY <3>1, FS_EmptySet
    <3> QED
      BY <3>2
  <2> QED
    BY <2>2
<1>6. {e \in Range(g.edges) :
         {e.source, e.target} \subseteq {g.symbols[i].name : i \in DOMAIN g.symbols}} = Range(g.edges)
  BY <1>5
<1>7. Restrict(ToBag(g.edges), Range(g.edges)) = ToBag(g.edges)
  BY DEF Restrict, ToBag
<1>8. Told(g) = Content(g)
  BY <1>4, <1>6, <1>7 DEF Told, Content
<1> QED
  BY <1>3, <1>8

-----------------------------------------------------------------------------
(* What VerifyDelta makes of a base.                                       *)

LEMMA MapItems ==
    ASSUME NEW S, NEW s \in Seq(S)
    PROVE  /\ DOMAIN MapOf(s) = KeysOf(s)
           /\ \A k \in KeysOf(s) : MapOf(s)[k] \in Range(s) /\ KeyOf(MapOf(s)[k]) = k
<1>1. DOMAIN MapOf(s) = KeysOf(s)
  BY DEF MapOf, KeysOf
<1>2. ASSUME NEW k \in KeysOf(s)
      PROVE  MapOf(s)[k] \in Range(s) /\ KeyOf(MapOf(s)[k]) = k
  <2> DEFINE at == {i \in DOMAIN s : KeyOf(s[i]) = k}
  <2>1. at # {} /\ at \in SUBSET (1 .. Len(s)) /\ Len(s) \in Nat
    BY DEF KeysOf
  <2>2. Max(at) \in at
    BY <2>1, LastPosition
  <2>3. MapOf(s)[k] = s[Max(at)]
    BY DEF MapOf, KeysOf
  <2> QED
    BY <2>2, <2>3 DEF Range
<1> QED
  BY <1>1, <1>2

\* The items of a result are the base's and those added.
LEMMA ChangedItems ==
    ASSUME NEW S, NEW s \in Seq(S), NEW removed, NEW T, NEW added \in Seq(T)
    PROVE  LET items == Changed(MapOf(s), removed, added)
           IN  items \subseteq Range(s) \cup Range(added) /\ IsFiniteSet(items)
<1> DEFINE items == Changed(MapOf(s), removed, added)
<1>1. items \subseteq Range(s) \cup Range(added)
  BY MapItems DEF Changed
<1>2. IsFiniteSet(Range(s) \cup Range(added))
  BY SeqFinite, FS_Union
<1> HIDE DEF items
<1>3. IsFiniteSet(items)
  BY <1>1, <1>2, FS_Subset
<1> QED
  BY <1>1, <1>3 DEF items

\* The same items under unique keys make the same map.
LEMMA KeysTell ==
    ASSUME NEW s, DistinctKeys(s), NEW x \in Range(s), NEW y \in Range(s), KeyOf(x) = KeyOf(y)
    PROVE  x = y
BY DEF DistinctKeys, Range

LEMMA KeysOfRange ==
    ASSUME NEW s PROVE KeysOf(s) = {KeyOf(x) : x \in Range(s)}
BY DEF KeysOf, Range

\* A change from the items of b to those of n fits a list of b's items and
\* leaves n's.
LEMMA ChangeFits ==
    ASSUME NEW b, DistinctKeys(b), NEW n, DistinctKeys(n),
           NEW S, NEW h \in Seq(S), Range(h) = Range(b),
           NEW removed, DistinctKeys(removed),
           KeysOf(removed) = {KeyOf(x) : x \in Range(b) \ Range(n)},
           NEW added, DistinctKeys(added), Range(added) = Range(n) \ Range(b)
    PROVE  /\ Fits(MapOf(h), removed, added)
           /\ Changed(MapOf(h), removed, added) = Range(n)
<1> DEFINE map == MapOf(h)
           stay == DOMAIN map \ KeysOf(removed)
<1>1. /\ DOMAIN map = {KeyOf(x) : x \in Range(b)}
      /\ \A k \in DOMAIN map : map[k] \in Range(b) /\ KeyOf(map[k]) = k
  BY MapItems, KeysOfRange
<1> HIDE DEF map
<1>2. \A x \in Range(b) : map[KeyOf(x)] = x
  BY <1>1, KeysTell
<1>3. ASSUME NEW x \in Range(b) PROVE KeyOf(x) \in stay <=> x \in Range(n)
  BY <1>1, <1>3, KeysTell
<1>4. {map[k] : k \in stay} = Range(b) \cap Range(n)
  <2>1. ASSUME NEW k \in stay PROVE map[k] \in Range(b) \cap Range(n)
    BY <1>1, <1>3
  <2>2. ASSUME NEW x \in Range(b) \cap Range(n) PROVE x \in {map[k] : k \in stay}
    BY <1>2, <1>3
  <2> QED
    BY <2>1, <2>2
<1>5. Changed(map, removed, added) = Range(n)
  BY <1>4 DEF Changed
<1>6. KeysOf(added) \cap stay = {}
  <2> SUFFICES ASSUME NEW k \in KeysOf(added), k \in stay PROVE FALSE
    OBVIOUS
  <2>1. PICK x \in Range(n) \ Range(b) : KeyOf(x) = k
    BY KeysOfRange
  <2>2. map[k] \in Range(b) \cap Range(n) /\ KeyOf(map[k]) = k
    BY <1>1, <1>3
  <2> QED
    BY <2>1, <2>2, KeysTell
<1>7. KeysOf(removed) \subseteq DOMAIN map
  BY <1>1
<1>8. Fits(map, removed, added)
  BY <1>6, <1>7 DEF Fits
<1> QED
  BY <1>5, <1>8 DEF map

\* Unique keys are kept by every list of the same items.
LEMMA InjectiveKeys ==
    ASSUME NEW s, IsInjective(s), NEW t, DistinctKeys(t), Range(s) \subseteq Range(t)
    PROVE  DistinctKeys(s)
<1> SUFFICES ASSUME NEW i \in DOMAIN s, NEW j \in DOMAIN s, KeyOf(s[i]) = KeyOf(s[j])
             PROVE  i = j
  BY DEF DistinctKeys
<1>1. s[i] \in Range(t) /\ s[j] \in Range(t)
  BY DEF Range
<1>2. s[i] = s[j]
  BY <1>1, KeysTell
<1> QED
  BY <1>2 DEF IsInjective

LEMMA DistinctIsInjective ==
    ASSUME NEW s, DistinctKeys(s) PROVE IsInjective(s)
BY DEF DistinctKeys, IsInjective

\* Items that agree have images that agree.
LEMMA SameImages ==
    ASSUME NEW a, NEW b, Range(a) = Range(b), NEW p, NEW q,
           DOMAIN p = DOMAIN a, DOMAIN q = DOMAIN b,
           \A i \in DOMAIN a : \A j \in DOMAIN b : a[i] = b[j] => p[i] = q[j]
    PROVE  Range(p) = Range(q)
<1>1. ASSUME NEW i \in DOMAIN a PROVE \E j \in DOMAIN b : p[i] = q[j]
  <2>1. PICK j \in DOMAIN b : a[i] = b[j]
    BY DEF Range
  <2> QED
    BY <2>1
<1>2. ASSUME NEW j \in DOMAIN b PROVE \E i \in DOMAIN a : p[i] = q[j]
  <2>1. PICK i \in DOMAIN a : a[i] = b[j]
    BY DEF Range
  <2> QED
    BY <2>1
<1> QED
  BY <1>1, <1>2 DEF Range

\* The kind of a name that one symbol has.
LEMMA OneKind ==
    ASSUME NEW s, NEW j \in DOMAIN s, DOMAIN s \subseteq Nat,
           \A i \in DOMAIN s : s[i].name = s[j].name <=> i = j
    PROVE  KindOf(s, s[j].name) = Abbrev(s[j].kind)
<1>1. {i \in DOMAIN s : s[i].name = s[j].name} = {j}
  OBVIOUS
<1>2. Max({j}) = j
  BY DEF Max
<1> QED
  BY <1>1, <1>2 DEF KindOf

\* The lists of a faithful graph's items all have its root, whatever their order.
LEMMA OrderKeepsRoot ==
    ASSUME NEW g, IsGraph(g), Faithful(g),
           NEW S, NEW symbols \in Seq(S), IsInjective(symbols), Range(symbols) = Range(g.symbols),
           NEW T, NEW edges \in Seq(T), IsInjective(edges), Range(edges) = Range(g.edges)
    PROVE  PackRoot(symbols, edges) = RootOf(g)
<1>1. DistinctKeys(g.symbols) /\ DistinctKeys(g.edges) /\ IsWireGraph(g)
  BY FaithfulTold DEF Faithful
<1>2. IsInjective(g.symbols) /\ IsInjective(g.edges)
  BY <1>1, DistinctIsInjective
<1>3. /\ \A i \in DOMAIN g.symbols : IsSymbol(g.symbols[i]) /\ HasWireKind(g.symbols[i])
      /\ \A i \in DOMAIN symbols : IsSymbol(symbols[i]) /\ HasWireKind(symbols[i])
      /\ \A i \in DOMAIN g.edges : IsEdge(g.edges[i])
      /\ \A i \in DOMAIN edges : IsEdge(edges[i])
  <2>1. \A i \in DOMAIN symbols : symbols[i] \in Range(g.symbols)
    BY DEF Range
  <2>2. \A i \in DOMAIN edges : edges[i] \in Range(g.edges)
    BY DEF Range
  <2>3. \A i \in DOMAIN g.symbols : g.symbols[i] \in Range(g.symbols)
    BY DEF Range
  <2>4. \A i \in DOMAIN g.edges : g.edges[i] \in Range(g.edges)
    BY DEF Range
  <2> QED
    BY <1>1, <2>1, <2>2, <2>3, <2>4 DEF IsWireGraph, IsGraph
<1>4. ASSUME NEW k \in DOMAIN g.edges, NEW q \in {g.edges[k].source, g.edges[k].target}
      PROVE  KindOf(symbols, q) = KindOf(g.symbols, q)
  <2> DEFINE at == {j \in DOMAIN g.symbols : g.symbols[j].name = q}
  <2>1. Cardinality(at) = 1
    BY DEF Faithful, EndsResolve
  <2>2. IsFiniteSet(at)
    <3>1. IsFiniteSet(DOMAIN g.symbols)
      BY SeqFinite DEF IsGraph
    <3> QED
      BY <3>1, FS_Subset
  <2> HIDE DEF at
  <2>3. PICK j : at = {j}
    BY <2>1, <2>2, FS_Singleton, Zenon
  <2>4. j \in DOMAIN g.symbols /\ \A i \in DOMAIN g.symbols : g.symbols[i].name = q <=> i = j
    BY <2>3 DEF at
  <2>5. PICK m \in DOMAIN symbols : symbols[m] = g.symbols[j]
    BY <2>4 DEF Range
  <2>6. ASSUME NEW i \in DOMAIN symbols PROVE symbols[i].name = q <=> i = m
    <3>1. PICK l \in DOMAIN g.symbols : g.symbols[l] = symbols[i]
      BY DEF Range
    <3>2. symbols[i].name = q => l = j
      BY <2>4, <3>1
    <3>3. symbols[i].name = q => symbols[i] = symbols[m]
      BY <2>5, <3>1, <3>2
    <3> QED
      BY <2>4, <2>5, <3>3 DEF IsInjective
  <2>7. DOMAIN symbols \subseteq Nat /\ DOMAIN g.symbols \subseteq Nat
    <3>1. g.symbols \in Seq(Range(g.symbols))
      BY DEF IsGraph
    <3> QED
      BY <3>1
  <2>8. KindOf(symbols, q) = Abbrev(symbols[m].kind)
    <3>1. symbols[m].name = q
      BY <2>6
    <3> QED
      BY <2>6, <2>7, <3>1, OneKind
  <2>9. KindOf(g.symbols, q) = Abbrev(g.symbols[j].kind)
    <3>1. g.symbols[j].name = q
      BY <2>4
    <3> QED
      BY <2>4, <2>7, <3>1, OneKind
  <2> QED
    BY <2>5, <2>8, <2>9
<1>5. ToBag([i \in DOMAIN symbols |-> SymbolRecord(symbols[i])])
        = ToBag([i \in DOMAIN g.symbols |-> SymbolRecord(g.symbols[i])])
  <2> DEFINE p == [i \in DOMAIN symbols |-> SymbolRecord(symbols[i])]
             q == [i \in DOMAIN g.symbols |-> SymbolRecord(g.symbols[i])]
  <2>1. IsInjective(p)
    <3>1. ASSUME NEW i \in DOMAIN symbols, NEW j \in DOMAIN symbols,
                 SymbolRecord(symbols[i]) = SymbolRecord(symbols[j])
          PROVE  i = j
      BY <1>3, <3>1, RecordTells DEF IsInjective
    <3> QED
      BY <3>1 DEF IsInjective
  <2>2. IsInjective(q)
    <3>1. ASSUME NEW i \in DOMAIN g.symbols, NEW j \in DOMAIN g.symbols,
                 SymbolRecord(g.symbols[i]) = SymbolRecord(g.symbols[j])
          PROVE  i = j
      BY <1>2, <1>3, <3>1, RecordTells DEF IsInjective
    <3> QED
      BY <3>1 DEF IsInjective
  <2>3. /\ DOMAIN p = DOMAIN symbols /\ \A i \in DOMAIN p : p[i] = SymbolRecord(symbols[i])
        /\ DOMAIN q = DOMAIN g.symbols /\ \A i \in DOMAIN q : q[i] = SymbolRecord(g.symbols[i])
    OBVIOUS
  <2> HIDE DEF p, q
  <2>4. Range(p) = Range(q)
    BY <2>3, SameImages
  <2>5. ToBag(p) = ToBag(q)
    BY <2>1, <2>2, <2>4, SameItemsOneBag
  <2> QED
    BY <2>5 DEF p, q
<1>6. ToBag([i \in DOMAIN edges |-> EdgeRecord(symbols, edges[i])])
        = ToBag([i \in DOMAIN g.edges |-> EdgeRecord(g.symbols, g.edges[i])])
  <2> DEFINE p == [i \in DOMAIN edges |-> EdgeRecord(symbols, edges[i])]
             q == [i \in DOMAIN g.edges |-> EdgeRecord(g.symbols, g.edges[i])]
  <2>1. IsInjective(p)
    <3>1. ASSUME NEW i \in DOMAIN edges, NEW j \in DOMAIN edges,
                 EdgeRecord(symbols, edges[i]) = EdgeRecord(symbols, edges[j])
          PROVE  i = j
      BY <1>3, <3>1, EdgeRecordTells DEF IsInjective
    <3> QED
      BY <3>1 DEF IsInjective
  <2>2. IsInjective(q)
    <3>1. ASSUME NEW i \in DOMAIN g.edges, NEW j \in DOMAIN g.edges,
                 EdgeRecord(g.symbols, g.edges[i]) = EdgeRecord(g.symbols, g.edges[j])
          PROVE  i = j
      BY <1>2, <1>3, <3>1, EdgeRecordTells DEF IsInjective
    <3> QED
      BY <3>1 DEF IsInjective
  <2>3. ASSUME NEW e \in Range(g.edges) PROVE EdgeRecord(symbols, e) = EdgeRecord(g.symbols, e)
    <3>1. PICK k \in DOMAIN g.edges : g.edges[k] = e
      BY DEF Range
    <3>2. KindOf(symbols, e.source) = KindOf(g.symbols, e.source)
      BY <1>4, <3>1
    <3>3. KindOf(symbols, e.target) = KindOf(g.symbols, e.target)
      BY <1>4, <3>1
    <3> QED
      BY <3>2, <3>3 DEF EdgeRecord
  <2>4. /\ DOMAIN p = DOMAIN edges /\ \A i \in DOMAIN p : p[i] = EdgeRecord(symbols, edges[i])
        /\ DOMAIN q = DOMAIN g.edges /\ \A i \in DOMAIN q : q[i] = EdgeRecord(g.symbols, g.edges[i])
    OBVIOUS
  <2>5. \A i \in DOMAIN edges : edges[i] \in Range(g.edges)
    BY DEF Range
  <2> HIDE DEF p, q
  <2>6. Range(p) = Range(q)
    BY <2>3, <2>4, <2>5, SameImages
  <2>7. ToBag(p) = ToBag(q)
    BY <2>1, <2>2, <2>6, SameItemsOneBag
  <2> QED
    BY <2>7 DEF p, q
<1> QED
  BY <1>5, <1>6 DEF PackRoot, RootOf

-----------------------------------------------------------------------------
(* Sorting.                                                                *)

\* p has the members of S, each before those that R puts after it.
Sorts(R, S, p) ==
    /\ p \in SetToSeqs(S)
    /\ \A i, j \in DOMAIN p : i < j => <<p[i], p[j]>> \in R

\* A finite set has a sequence in any strict order of its members: each stands
\* where the number of those below it says.
LEMMA SortExists ==
    ASSUME NEW S, IsFiniteSet(S), NEW R,
           \A x \in S : <<x, x>> \notin R,
           \A x, y \in S : x = y \/ <<x, y>> \in R \/ <<y, x>> \in R,
           \A x, y, z \in S : <<x, y>> \in R /\ <<y, z>> \in R => <<x, z>> \in R
    PROVE  Sorts(R, S, SortedBy(R, S))
<1> DEFINE m == Cardinality(S)
           below(x) == {y \in S : <<y, x>> \in R}
           rank == [x \in S |-> Cardinality(below(x)) + 1]
           p == [k \in 1 .. m |-> CHOOSE x \in S : rank[x] = k]
<1>1. m \in Nat
  BY FS_CardinalityType
<1>2. ASSUME NEW x \in S
      PROVE  IsFiniteSet(below(x)) /\ Cardinality(below(x)) \in Nat /\ Cardinality(below(x)) < m
  <2>1. below(x) \in SUBSET S /\ below(x) # S
    OBVIOUS
  <2> HIDE DEF below
  <2>2. IsFiniteSet(below(x)) /\ Cardinality(below(x)) <= m /\ Cardinality(below(x)) # m
    BY <2>1, FS_Subset
  <2>3. Cardinality(below(x)) \in Nat
    BY <2>2, FS_CardinalityType
  <2> QED
    BY <1>1, <2>2, <2>3
<1>3. ASSUME NEW x \in S, NEW y \in S, <<x, y>> \in R
      PROVE  Cardinality(below(x)) < Cardinality(below(y))
  <2>1. below(x) \in SUBSET below(y) /\ below(x) # below(y)
    BY <1>3
  <2> HIDE DEF below
  <2>2. Cardinality(below(x)) <= Cardinality(below(y)) /\ Cardinality(below(x)) # Cardinality(below(y))
    BY <1>2, <2>1, FS_Subset
  <2> QED
    BY <1>2, <2>2
<1> HIDE DEF below
<1>4. rank \in [S -> 1 .. m]
  BY <1>1, <1>2
<1>5. \A x, y \in S : <<x, y>> \in R => rank[x] < rank[y]
  BY <1>2, <1>3
<1> HIDE DEF rank
<1>6. ASSUME NEW x \in S, NEW y \in S, rank[x] = rank[y] PROVE x = y
  <2>1. rank[x] \in Int /\ rank[y] \in Int
    BY <1>4
  <2>2. ~(rank[x] < rank[y]) /\ ~(rank[y] < rank[x])
    BY <1>6, <2>1
  <2> QED
    BY <1>5, <2>2
<1>7. rank \in Surjection(S, 1 .. m)
  <2>1. rank \in Injection(S, 1 .. m)
    BY <1>4, <1>6 DEF Injection, IsInjective
  <2>2. 1 \in Int /\ m \in Int
    BY <1>1
  <2>3. IsFiniteSet(1 .. m) /\ Cardinality(1 .. m) = IF 1 > m THEN 0 ELSE m - 1 + 1
    BY <2>2, FS_Interval, Zenon
  <2>4. Cardinality(1 .. m) = Cardinality(S)
    BY <1>1, <2>3
  <2> QED
    BY <2>1, <2>3, <2>4, FS_Injection
<1>8. \A k \in 1 .. m : p[k] \in S /\ rank[p[k]] = k
  <2>1. \A k \in 1 .. m : \E x \in S : rank[x] = k
    BY <1>7 DEF Surjection
  <2> QED
    BY <2>1
<1>9. DOMAIN p = 1 .. m
  OBVIOUS
<1>a. p \in SetToSeqs(S)
  <2>1. p \in [1 .. m -> S]
    BY <1>8, <1>9
  <2>2. \A i, j \in 1 .. m : i # j => p[i] # p[j]
    BY <1>8
  <2> HIDE DEF p
  <2> QED
    BY <2>1, <2>2 DEF SetToSeqs
<1> HIDE DEF p
<1>b. ASSUME NEW i \in DOMAIN p, NEW j \in DOMAIN p, i < j
      PROVE  <<p[i], p[j]>> \in R
  <2>1. p[i] \in S /\ p[j] \in S /\ rank[p[i]] = i /\ rank[p[j]] = j /\ i \in Int /\ j \in Int
    BY <1>8, <1>9
  <2>2. p[i] # p[j] /\ ~(rank[p[j]] < rank[p[i]])
    BY <1>b, <2>1
  <2> QED
    BY <1>5, <2>1, <2>2
<1>c. \E q \in SetToSeqs(S) : \A i, j \in DOMAIN q : i < j => <<q[i], q[j]>> \in R
  BY <1>a, <1>b
<1> QED
  BY <1>c DEF SortedBy, Sorts

\* An order of positions that are all in s.
LEMMA SortedPositions ==
    ASSUME NEW n \in Nat, NEW V \in SUBSET (1 .. n), NEW order \in SetToSeqs(V)
    PROVE  /\ order \in Seq(V) /\ IsInjective(order) /\ Range(order) = V
           /\ IsFiniteSet(V) /\ Len(order) = Cardinality(V) /\ Cardinality(V) \in Nat
           /\ DOMAIN order = 1 .. Cardinality(V)
<1>1. IsFiniteSet(V)
  <2>1. 1 \in Int /\ n \in Int
    OBVIOUS
  <2>2. IsFiniteSet(1 .. n)
    BY <2>1, FS_Interval, Zenon
  <2> QED
    BY <2>2, FS_Subset
<1>2. order \in Seq(V) /\ IsInjective(order) /\ Range(order) = V
  BY <1>1, SequencesOfSet
<1>3. Cardinality(V) \in Nat
  BY <1>1, FS_CardinalityType
<1>4. order \in [1 .. Cardinality(V) -> V]
  BY DEF SetToSeqs
<1>5. Len(order) = Cardinality(V)
  BY <1>2, <1>3, <1>4
<1> QED
  BY <1>1, <1>2, <1>3, <1>4, <1>5

\* How often x stands at the positions V of s.
Times(s, V, x) == Cardinality({i \in V : s[i] = x})

\* An item stands in a sorted sequence as often as at the positions sorted.
LEMMA OrderedBag ==
    ASSUME NEW n \in Nat, NEW s, DOMAIN s = 1 .. n,
           NEW V \in SUBSET (1 .. n), NEW order \in SetToSeqs(V), NEW x
    PROVE  Times(Ordered(s, order), DOMAIN Ordered(s, order), x) = Times(s, V, x)
<1> DEFINE A == {k \in DOMAIN Ordered(s, order) : Ordered(s, order)[k] = x}
           B == {i \in V : s[i] = x}
           b == [i \in B |-> CHOOSE k \in DOMAIN order : order[k] = i]
<1>1. /\ DOMAIN Ordered(s, order) = DOMAIN order
      /\ \A k \in DOMAIN order : Ordered(s, order)[k] = s[order[k]]
  BY DEF Ordered
<1>2. Range(order) = V /\ IsInjective(order) /\ IsFiniteSet(V)
  BY SortedPositions
<1>3. IsFiniteSet(B)
  BY <1>2, FS_Subset
<1>4. ASSUME NEW i \in B PROVE b[i] \in DOMAIN order /\ order[b[i]] = i /\ b[i] \in A
  <2>1. \E k \in DOMAIN order : order[k] = i
    BY <1>2 DEF Range
  <2>2. b[i] \in DOMAIN order /\ order[b[i]] = i
    BY <2>1
  <2> HIDE DEF b
  <2> QED
    BY <1>1, <2>2
<1>5. b \in [B -> A]
  BY <1>4
<1>6. ASSUME NEW k \in A PROVE \E i \in B : b[i] = k
  <2>1. k \in DOMAIN order /\ order[k] \in V /\ s[order[k]] = x
    BY <1>1, <1>2 DEF Range
  <2>2. order[k] \in B
    BY <2>1
  <2>3. b[order[k]] \in DOMAIN order /\ order[b[order[k]]] = order[k]
    BY <1>4, <2>2
  <2>4. b[order[k]] = k
    BY <1>2, <2>1, <2>3 DEF IsInjective
  <2> QED
    BY <2>2, <2>4
<1>7. \A i, j \in B : b[i] = b[j] => i = j
  BY <1>4
<1> HIDE DEF A, B, b
<1>8. b \in Bijection(B, A)
  BY <1>5, <1>6, <1>7 DEF Bijection, Injection, Surjection, IsInjective
<1>9. Cardinality(A) = Cardinality(B)
  BY <1>3, <1>8, FS_Bijection DEF ExistsBijection
<1> QED
  BY <1>9 DEF A, B, Times

-----------------------------------------------------------------------------
(* Reading line by line.                                                   *)

\* Induction on the numbers up to n, for a set of them.
LEMMA Induct ==
    ASSUME NEW S \in SUBSET Nat, 0 \in S, \A n \in S : n + 1 \in S
    PROVE  \A n \in Nat : n \in S
<1> SUFFICES ASSUME Nat \ S # {} PROVE FALSE
  OBVIOUS
<1> DEFINE T == Nat \ S
<1>1. T \in SUBSET Nat /\ T # {}
  OBVIOUS
<1> HIDE DEF T
<1>2. PICK m \in T : \A k \in T : ~(<<k, m>> \in OpToRel(<, Nat))
  BY <1>1, NatLessThanWellFounded, WFMin, Zenon
<1>3. \A k \in T : ~(k < m)
  BY <1>1, <1>2, Zenon DEF OpToRel
<1>4. m \in Nat /\ m # 0 /\ m \notin S
  BY DEF T
<1>5. m - 1 \in Nat /\ m - 1 < m /\ (m - 1) + 1 = m
  BY <1>4
<1>6. m - 1 \in S
  BY <1>3, <1>5 DEF T
<1> QED
  BY <1>4, <1>5, <1>6

\* The readers after each of the lines.
Readers(lines, after) ==
    after = [k \in 0 .. Len(lines) |->
                IF k = 0 THEN FreshReader ELSE Read(after[k - 1], lines[k])]

\* The reader function of Scan is what its recursion says.
LEMMA ReadersExist ==
    ASSUME NEW S, NEW lines \in Seq(S)
    PROVE  \E after : Readers(lines, after) /\ Scan(lines) = after[Len(lines)]
<1> DEFINE upTo(n, f) ==
               f = [k \in 0 .. n |-> IF k = 0 THEN FreshReader ELSE Read(f[k - 1], lines[k])]
           N == {n \in Nat : \E f : upTo(n, f)}
<1>1. 0 \in N
  <2> DEFINE f == [k \in 0 .. 0 |-> FreshReader]
  <2>1. \A k \in 0 .. 0 : k = 0
    OBVIOUS
  <2>2. upTo(0, f)
    BY <2>1
  <2> QED
    BY <2>2
<1>2. ASSUME NEW n \in N PROVE n + 1 \in N
  <2>1. n \in Nat
    OBVIOUS
  <2>2. PICK f : upTo(n, f)
    OBVIOUS
  <2> DEFINE g == [k \in 0 .. n + 1 |-> IF k = n + 1 THEN Read(f[n], lines[n + 1]) ELSE f[k]]
             h == [k \in 0 .. n + 1 |-> IF k = 0 THEN FreshReader ELSE Read(g[k - 1], lines[k])]
  <2>3. ASSUME NEW k \in 0 .. n + 1 PROVE g[k] = h[k]
    <3>1. CASE k = 0
      <4>1. 0 \in 0 .. n /\ 0 # n + 1 /\ 0 \in 0 .. n + 1
        BY <2>1
      <4>2. f[0] = FreshReader
        BY <2>2, <4>1
      <4>3. g[0] = f[0] /\ h[0] = FreshReader
        BY <4>1
      <4> QED
        BY <3>1, <4>2, <4>3
    <3>2. CASE k = n + 1
      <4>1. n \in 0 .. n + 1 /\ n # n + 1 /\ n + 1 \in 0 .. n + 1 /\ n + 1 # 0 /\ (n + 1) - 1 = n
        BY <2>1
      <4>2. g[n] = f[n] /\ g[n + 1] = Read(f[n], lines[n + 1])
        BY <4>1
      <4>3. h[n + 1] = Read(g[n], lines[n + 1])
        BY <4>1
      <4> QED
        BY <3>2, <4>2, <4>3
    <3>3. CASE k # 0 /\ k # n + 1
      <4>1. k \in 0 .. n /\ k - 1 \in 0 .. n /\ k - 1 \in 0 .. n + 1 /\ k - 1 # n + 1
        BY <2>1, <3>3
      <4>2. f[k] = Read(f[k - 1], lines[k])
        BY <2>2, <3>3, <4>1
      <4>3. g[k] = f[k] /\ g[k - 1] = f[k - 1]
        BY <3>3, <4>1
      <4>4. h[k] = Read(g[k - 1], lines[k])
        BY <3>3
      <4> QED
        BY <4>2, <4>3, <4>4
    <3> QED
      BY <3>1, <3>2, <3>3
  <2>4. g = h
    BY <2>3
  <2>5. upTo(n + 1, g)
    BY <2>4
  <2>6. n + 1 \in Nat
    BY <2>1
  <2> QED
    BY <2>5, <2>6
<1>3. \A n \in Nat : n \in N
  <2>1. N \in SUBSET Nat
    OBVIOUS
  <2> HIDE DEF N
  <2> QED
    BY <1>1, <1>2, <2>1, Induct
<1>4. \E f : Readers(lines, f)
  <2>1. Len(lines) \in N
    BY <1>3
  <2> QED
    BY <2>1 DEF Readers
<1>5. Scan(lines) = (CHOOSE f : Readers(lines, f))[Len(lines)]
  BY DEF Scan, Readers
<1> QED
  BY <1>4, <1>5

\* One more line is one more turn of the loop.
LEMMA ReadMore ==
    ASSUME NEW S, NEW lines \in Seq(S), NEW T, NEW l \in T
    PROVE  Scan(Append(lines, l)) = Read(Scan(lines), l)
<1> DEFINE more == Append(lines, l)
           n == Len(lines)
<1>1. n \in Nat /\ more \in Seq(S \cup T) /\ Len(more) = n + 1 /\ more[n + 1] = l
      /\ \A k \in 1 .. n : more[k] = lines[k]
  <2>1. lines \in Seq(S \cup T) /\ l \in S \cup T
    OBVIOUS
  <2> QED
    BY <2>1
<1> HIDE DEF more
<1>2. PICK a : Readers(lines, a) /\ Scan(lines) = a[n]
  BY ReadersExist
<1>3. PICK b : Readers(more, b) /\ Scan(more) = b[n + 1]
  BY <1>1, ReadersExist
<1> HIDE DEF n
<1>4. /\ a[0] = FreshReader /\ b[0] = FreshReader
      /\ \A k \in 1 .. n : a[k] = Read(a[k - 1], lines[k])
      /\ \A k \in 1 .. n + 1 : b[k] = Read(b[k - 1], more[k])
  <2>1. a = [k \in 0 .. n |-> IF k = 0 THEN FreshReader ELSE Read(a[k - 1], lines[k])]
    BY <1>2 DEF Readers, n
  <2>2. b = [k \in 0 .. n + 1 |-> IF k = 0 THEN FreshReader ELSE Read(b[k - 1], more[k])]
    BY <1>1, <1>3 DEF Readers
  <2>3. 0 \in 0 .. n /\ 0 \in 0 .. n + 1 /\ \A k \in 1 .. n : k \in 0 .. n /\ k # 0
    BY <1>1
  <2>4. \A k \in 1 .. n + 1 : k \in 0 .. n + 1 /\ k # 0
    BY <1>1
  <2> QED
    BY <2>1, <2>2, <2>3, <2>4
<1> DEFINE N == {k \in Nat : k <= n => a[k] = b[k]}
<1>5. 0 \in N
  BY <1>4
<1>6. ASSUME NEW k \in N PROVE k + 1 \in N
  <2> SUFFICES ASSUME k + 1 <= n PROVE a[k + 1] = b[k + 1]
    OBVIOUS
  <2>1. k + 1 \in 1 .. n /\ k + 1 \in 1 .. n + 1 /\ (k + 1) - 1 = k /\ k <= n /\ k \in Nat
    BY <1>1
  <2>2. a[k] = b[k]
    BY <2>1
  <2>3. a[k + 1] = Read(a[k], lines[k + 1]) /\ b[k + 1] = Read(b[k], more[k + 1])
    BY <1>4, <2>1
  <2> QED
    BY <1>1, <2>1, <2>2, <2>3 DEF n
<1>7. n \in N
  <2>1. N \in SUBSET Nat
    OBVIOUS
  <2> HIDE DEF N
  <2> QED
    BY <1>1, <1>5, <1>6, <2>1, Induct
<1>8. b[n + 1] = Read(b[n], l)
  <2>1. n + 1 \in 1 .. n + 1 /\ (n + 1) - 1 = n
    BY <1>1
  <2> QED
    BY <1>1, <1>4, <2>1
<1>9. n <= n
  BY <1>1
<1> QED
  BY <1>2, <1>3, <1>7, <1>8, <1>9 DEF more

\* Without lines the reader is as it started.
LEMMA ReadNothing == Scan(<< >>) = FreshReader
<1>1. << >> \in Seq({}) /\ Len(<< >>) = 0
  OBVIOUS
<1>2. PICK a : Readers(<< >>, a) /\ Scan(<< >>) = a[0]
  BY <1>1, ReadersExist
<1>3. 0 \in 0 .. 0
  OBVIOUS
<1>4. a = [k \in 0 .. 0 |-> IF k = 0 THEN FreshReader ELSE Read(a[k - 1], << >>[k])]
  BY <1>1, <1>2 DEF Readers
<1>5. a[0] = FreshReader
  BY <1>3, <1>4
<1> QED
  BY <1>2, <1>5

\* A reader without an error so far, by its variables.
Reading(r, symbols, edges, byId, distance, inEdges, declared) ==
    /\ DOMAIN r = {"ok", "symbols", "edges", "byId", "distance", "inEdges", "declared"}
    /\ r.ok = TRUE /\ r.declared = declared
    /\ r.symbols = symbols /\ r.edges = edges
    /\ r.byId = byId /\ r.distance = distance /\ r.inEdges = inEdges

Entered(b, i, q) == [n \in DOMAIN b \cup {i} |-> IF n = i THEN q ELSE b[n]]

ReadItemOf(q, d) == [name |-> q, distance |-> d]

\* A group header changes the distance only.
LEMMA ReadsGroup ==
    ASSUME NEW r, NEW s, NEW e, NEW b, NEW d, NEW x, NEW n, NEW g, Reading(r, s, e, b, d, x, n)
    PROVE  Reading(Read(r, GroupLine(g)), s, e, b, g, FALSE, n)
<1>1. Read(r, GroupLine(g)) = [r EXCEPT !.inEdges = FALSE, !.distance = g]
  BY DEF Read, GroupLine, Reading
<1> QED
  BY <1>1 DEF Reading

\* The header of the edges section sets the declared number.
LEMMA ReadsEdges ==
    ASSUME NEW r, NEW s, NEW e, NEW b, NEW d, NEW x, NEW n, NEW m \in Nat,
           Reading(r, s, e, b, d, x, n)
    PROVE  Reading(Read(r, EdgesLine(m)), s, e, b, d, TRUE, m)
<1>1. EdgesLine(m).line = "edges" /\ EdgesLine(m).count = m /\ m # Deferred
  BY DEF EdgesLine, Deferred
<1>2. Read(r, EdgesLine(m)) = [r EXCEPT !.inEdges = TRUE, !.declared = m]
  BY <1>1 DEF Read, Reading
<1> QED
  BY <1>2 DEF Reading

\* A symbol line with a plain id is entered, over an earlier one of that id.
LEMMA ReadsSymbol ==
    ASSUME NEW r, NEW s, NEW e, NEW b, NEW d, NEW n, NEW i, NEW q,
           Reading(r, s, e, b, d, FALSE, n)
    PROVE  Reading(Read(r, SymbolLine(i, q)),
                   Append(s, ReadItemOf(q, d)), e, Entered(b, i, q), d, FALSE, n)
<1> DEFINE l == SymbolLine(i, q)
           ss == Append(s, ReadItemOf(q, d))
           bb == Entered(b, i, q)
<1>1. Read(r, l) = ReadSymbol(r, l)
  BY DEF Read, ReadItem, SymbolLine, Reading
<1>2. /\ Append(r.symbols, [name |-> l.name, distance |-> r.distance]) = ss
      /\ [j \in DOMAIN r.byId \cup {l.id} |-> IF j = l.id THEN l.name ELSE r.byId[j]] = bb
  BY DEF SymbolLine, Reading, Entered, ReadItemOf
<1>3. ReadSymbol(r, l) = [r EXCEPT !.symbols = ss, !.byId = bb]
  BY <1>2 DEF ReadSymbol
<1> HIDE DEF ss, bb, l
<1>4. Reading(Read(r, l), ss, e, bb, d, FALSE, n)
  BY <1>1, <1>3 DEF Reading
<1> QED
  BY <1>4 DEF ss, bb, l

\* An edge as it is read where the ids i and j are declared in b.
EdgeRead(b, i, j) == [source |-> b[i], target |-> b[j]]

\* An edge line between declared ids is one more edge.
LEMMA ReadsEdge ==
    ASSUME NEW r, NEW s, NEW e, NEW b, NEW d, NEW n, NEW i \in DOMAIN b, NEW j \in DOMAIN b,
           Reading(r, s, e, b, d, TRUE, n)
    PROVE  Reading(Read(r, EdgeLine(i, j)), s, Append(e, EdgeRead(b, i, j)), b, d, TRUE, n)
<1> DEFINE l == EdgeLine(i, j)
           ee == Append(e, EdgeRead(b, i, j))
<1>1. Read(r, l) = ReadEdge(r, l)
  BY DEF Read, ReadItem, EdgeLine, Reading
<1>2. Append(r.edges, [source |-> r.byId[l.source], target |-> r.byId[l.target]]) = ee
  BY DEF EdgeLine, Reading, EdgeRead
<1>3. ReadEdge(r, l) = [r EXCEPT !.edges = ee]
  BY <1>2 DEF ReadEdge
<1> HIDE DEF ee, l
<1>4. Reading(Read(r, l), s, ee, b, d, TRUE, n)
  BY <1>1, <1>3 DEF Reading
<1> QED
  BY <1>4 DEF ee, l

-----------------------------------------------------------------------------
(* Reading the symbol lines.                                               *)

\* What an encoder writes has symbol lines for sorted, under the ids of id.
HeaderLines(sorted) == {GroupLine(sorted[k].distance) : k \in DOMAIN sorted}

ItemLines(sorted, id) == {SymbolLine(id[sorted[k].name], Spelt(sorted[k])) : k \in DOMAIN sorted}

\* The lines down to each of the symbols.
Sections(sorted, id, upTo) ==
    upTo = [k \in 0 .. Len(sorted) |->
               IF k = 0 THEN << >>
               ELSE Append(upTo[k - 1] \o GroupHeader(sorted, k),
                           SymbolLine(id[sorted[k].name], Spelt(sorted[k])))]

\* The function of LinesUnderGroups is what its recursion says.
LEMMA SectionsExist ==
    ASSUME NEW S, NEW sorted \in Seq(S), NEW id
    PROVE  \E upTo : /\ Sections(sorted, id, upTo)
                     /\ LinesUnderGroups(sorted, id) = upTo[Len(sorted)]
<1> DEFINE more(p, k) == Append(p \o GroupHeader(sorted, k),
                                SymbolLine(id[sorted[k].name], Spelt(sorted[k])))
           to(n, f) == f = [k \in 0 .. n |-> IF k = 0 THEN << >> ELSE more(f[k - 1], k)]
           N == {n \in Nat : \E f : to(n, f)}
<1>0. \A f : Sections(sorted, id, f) <=> to(Len(sorted), f)
  BY DEF Sections
<1>4. LinesUnderGroups(sorted, id) = (CHOOSE f : Sections(sorted, id, f))[Len(sorted)]
  BY DEF LinesUnderGroups, Sections
<1> HIDE DEF more
<1>1. 0 \in N
  <2> DEFINE f == [k \in 0 .. 0 |-> << >>]
  <2>1. \A k \in 0 .. 0 : k = 0
    OBVIOUS
  <2>2. to(0, f)
    BY <2>1
  <2> QED
    BY <2>2
<1>2. ASSUME NEW n \in N PROVE n + 1 \in N
  <2>1. n \in Nat
    OBVIOUS
  <2>2. PICK f : to(n, f)
    OBVIOUS
  <2> DEFINE g == [k \in 0 .. n + 1 |-> IF k = n + 1 THEN more(f[n], n + 1) ELSE f[k]]
             h == [k \in 0 .. n + 1 |-> IF k = 0 THEN << >> ELSE more(g[k - 1], k)]
  <2>3. ASSUME NEW k \in 0 .. n + 1 PROVE g[k] = h[k]
    <3>1. CASE k = 0
      <4>1. 0 \in 0 .. n /\ 0 # n + 1 /\ 0 \in 0 .. n + 1
        BY <2>1
      <4>2. f[0] = << >>
        BY <2>2, <4>1
      <4>3. g[0] = f[0] /\ h[0] = << >>
        BY <4>1
      <4> QED
        BY <3>1, <4>2, <4>3
    <3>2. CASE k = n + 1
      <4>1. n \in 0 .. n + 1 /\ n # n + 1 /\ n + 1 \in 0 .. n + 1 /\ n + 1 # 0 /\ (n + 1) - 1 = n
        BY <2>1
      <4>2. g[n] = f[n] /\ g[n + 1] = more(f[n], n + 1)
        BY <4>1
      <4>3. h[n + 1] = more(g[n], n + 1)
        BY <4>1
      <4> QED
        BY <3>2, <4>2, <4>3
    <3>3. CASE k # 0 /\ k # n + 1
      <4>1. k \in 0 .. n /\ k - 1 \in 0 .. n /\ k - 1 \in 0 .. n + 1 /\ k - 1 # n + 1
        BY <2>1, <3>3
      <4>2. f[k] = more(f[k - 1], k)
        BY <2>2, <3>3, <4>1
      <4>3. g[k] = f[k] /\ g[k - 1] = f[k - 1]
        BY <3>3, <4>1
      <4>4. h[k] = more(g[k - 1], k)
        BY <3>3
      <4> QED
        BY <4>2, <4>3, <4>4
    <3> QED
      BY <3>1, <3>2, <3>3
  <2>4. g = h
    BY <2>3
  <2>5. to(n + 1, g)
    BY <2>4
  <2>6. n + 1 \in Nat
    BY <2>1
  <2> QED
    BY <2>5, <2>6
<1>3. Len(sorted) \in N
  <2>1. N \in SUBSET Nat /\ Len(sorted) \in Nat
    OBVIOUS
  <2> HIDE DEF N
  <2> QED
    BY <1>1, <1>2, <2>1, Induct
<1> QED
  BY <1>0, <1>3, <1>4

\* What Append gives, item by item.
LEMMA Longer ==
    ASSUME NEW n \in Nat, NEW f, NEW x
    PROVE  Append([j \in 1 .. n |-> f[j]], x)
             = [j \in 1 .. n + 1 |-> IF j = n + 1 THEN x ELSE f[j]]
<1> DEFINE s == [j \in 1 .. n |-> f[j]]
           t == [j \in 1 .. n + 1 |-> IF j = n + 1 THEN x ELSE f[j]]
           T == {f[j] : j \in 1 .. n} \cup {x}
<1>1. s \in Seq(T) /\ Len(s) = n
  <2>1. s \in [1 .. n -> T]
    OBVIOUS
  <2> QED
    BY <2>1
<1>2. t \in Seq(T) /\ Len(t) = n + 1
  <2>1. \A j \in 1 .. n + 1 : j = n + 1 \/ j \in 1 .. n
    OBVIOUS
  <2>2. t \in [1 .. n + 1 -> T]
    BY <2>1
  <2> QED
    BY <2>2
<1>3. Append(s, x) \in Seq(T) /\ Len(Append(s, x)) = n + 1
  BY <1>1
<1>4. ASSUME NEW j \in 1 .. n + 1 PROVE Append(s, x)[j] = t[j]
  <2>1. CASE j = n + 1
    <3>1. t[j] = x
      BY <2>1
    <3> HIDE DEF s, t
    <3> QED
      BY <1>1, <2>1, <3>1
  <2>2. CASE j \in 1 .. n
    <3>1. t[j] = f[j] /\ s[j] = f[j]
      BY <2>2
    <3> HIDE DEF s, t, T
    <3> QED
      BY <1>1, <2>2, <3>1
  <2>3. j = n + 1 \/ j \in 1 .. n
    OBVIOUS
  <2> QED
    BY <2>1, <2>2, <2>3
<1> HIDE DEF s, t, T
<1>5. Append(s, x) = t
  BY <1>2, <1>3, <1>4
<1> QED
  BY <1>5 DEF s, t

\* What a reader has of k symbols.
SymbolsTo(sorted, k) ==
    [j \in 1 .. k |-> ReadItemOf(Spelt(sorted[j]), sorted[j].distance)]

\* The names that b has under their ids.
Named(b, sorted, id, k) ==
    /\ DOMAIN b = {id[sorted[j].name] : j \in 1 .. k}
    /\ \A j \in 1 .. k : b[id[sorted[j].name]].name = sorted[j].name

SymbolsRead(sorted, id, k, d, r) ==
    \E b : /\ Reading(r, SymbolsTo(sorted, k), << >>, b, d, FALSE, Deferred)
           /\ Named(b, sorted, id, k)

\* The ids keep names apart.
TellsNames(sorted, id) ==
    \A j, k \in DOMAIN sorted :
        id[sorted[j].name] = id[sorted[k].name] => sorted[j].name = sorted[k].name

\* One symbol more is the next of SymbolsTo.
LEMMA NextSymbol ==
    ASSUME NEW sorted, NEW k \in Nat
    PROVE  Append(SymbolsTo(sorted, k), ReadItemOf(Spelt(sorted[k + 1]), sorted[k + 1].distance))
             = SymbolsTo(sorted, k + 1)
<1> DEFINE f == SymbolsTo(sorted, k + 1)
           x == ReadItemOf(Spelt(sorted[k + 1]), sorted[k + 1].distance)
<1>1. \A j \in 1 .. k + 1 : f[j] = ReadItemOf(Spelt(sorted[j]), sorted[j].distance)
  BY DEF SymbolsTo
<1>2. 1 .. k \subseteq 1 .. k + 1 /\ k + 1 \in 1 .. k + 1
  OBVIOUS
<1>3. SymbolsTo(sorted, k) = [j \in 1 .. k |-> f[j]]
  BY <1>1, <1>2 DEF SymbolsTo
<1>4. f[k + 1] = x
  BY <1>1, <1>2
<1>5. f = [j \in 1 .. k + 1 |-> f[j]]
  BY DEF SymbolsTo
<1> HIDE DEF f, x
<1>6. Append([j \in 1 .. k |-> f[j]], x) = [j \in 1 .. k + 1 |-> IF j = k + 1 THEN x ELSE f[j]]
  BY Longer
<1>7. [j \in 1 .. k + 1 |-> IF j = k + 1 THEN x ELSE f[j]] = [j \in 1 .. k + 1 |-> f[j]]
  BY <1>4
<1>8. Append(SymbolsTo(sorted, k), x) = f
  BY <1>3, <1>5, <1>6, <1>7
<1> QED
  BY <1>8 DEF f, x

\* The next symbol is entered under its id, and no other name is lost.
LEMMA NextName ==
    ASSUME NEW S, NEW sorted \in Seq(S), NEW id, TellsNames(sorted, id),
           NEW k \in Nat, k + 1 <= Len(sorted), NEW b, Named(b, sorted, id, k)
    PROVE  Named(Entered(b, id[sorted[k + 1].name], Spelt(sorted[k + 1])), sorted, id, k + 1)
<1> DEFINE i == id[sorted[k + 1].name]
           q == Spelt(sorted[k + 1])
           t == Entered(b, i, q)
<1>1. /\ k + 1 \in DOMAIN sorted /\ 1 .. k + 1 = 1 .. k \cup {k + 1}
      /\ \A j \in 1 .. k : j \in DOMAIN sorted
  OBVIOUS
<1>2. q.name = sorted[k + 1].name
  BY DEF Spelt
<1> HIDE DEF i, q
<1>3. t = [n \in DOMAIN b \cup {i} |-> IF n = i THEN q ELSE b[n]]
  BY DEF Entered
<1> HIDE DEF t
<1>4. DOMAIN t = {id[sorted[j].name] : j \in 1 .. k + 1}
  <2>1. DOMAIN b = {id[sorted[j].name] : j \in 1 .. k}
    BY DEF Named
  <2>2. DOMAIN t = DOMAIN b \cup {i}
    BY <1>3
  <2> QED
    BY <1>1, <2>1, <2>2 DEF i
<1>5. ASSUME NEW j \in 1 .. k + 1
      PROVE  t[id[sorted[j].name]].name = sorted[j].name
  <2>1. CASE id[sorted[j].name] = i
    <3>1. i \in DOMAIN b \cup {i}
      OBVIOUS
    <3>2. t[i] = q
      BY <1>3, <3>1
    <3>3. sorted[j].name = sorted[k + 1].name
      BY <1>1, <2>1 DEF i, TellsNames
    <3> QED
      BY <1>2, <2>1, <3>2, <3>3
  <2>2. CASE id[sorted[j].name] # i
    <3>1. j \in 1 .. k
      BY <1>1, <2>2 DEF i
    <3>2. id[sorted[j].name] \in DOMAIN b /\ b[id[sorted[j].name]].name = sorted[j].name
      BY <3>1 DEF Named
    <3>3. t[id[sorted[j].name]] = b[id[sorted[j].name]]
      BY <1>3, <2>2, <3>2
    <3> QED
      BY <3>2, <3>3
  <2> QED
    BY <2>1, <2>2
<1>6. Named(t, sorted, id, k + 1)
  BY <1>4, <1>5 DEF Named
<1> QED
  BY <1>6 DEF t, i, q

\* A reader at the distance of the next symbol reads its line.
LEMMA ReadsNextSymbol ==
    ASSUME NEW S, NEW sorted \in Seq(S), NEW id, TellsNames(sorted, id),
           NEW k \in Nat, k + 1 <= Len(sorted),
           NEW r, SymbolsRead(sorted, id, k, sorted[k + 1].distance, r)
    PROVE  SymbolsRead(sorted, id, k + 1, sorted[k + 1].distance,
               Read(r, SymbolLine(id[sorted[k + 1].name], Spelt(sorted[k + 1]))))
<1> DEFINE i == id[sorted[k + 1].name]
           q == Spelt(sorted[k + 1])
           d == sorted[k + 1].distance
<1>1. PICK b : Reading(r, SymbolsTo(sorted, k), << >>, b, d, FALSE, Deferred)
               /\ Named(b, sorted, id, k)
  BY DEF SymbolsRead
<1>2. Reading(Read(r, SymbolLine(i, q)), Append(SymbolsTo(sorted, k), ReadItemOf(q, d)), << >>,
              Entered(b, i, q), d, FALSE, Deferred)
  BY <1>1, ReadsSymbol
<1>3. Reading(Read(r, SymbolLine(i, q)), SymbolsTo(sorted, k + 1), << >>,
              Entered(b, i, q), d, FALSE, Deferred)
  BY <1>2, NextSymbol
<1>4. Named(Entered(b, i, q), sorted, id, k + 1)
  BY <1>1, NextName
<1> QED
  BY <1>3, <1>4 DEF SymbolsRead

\* A header on the way changes the distance only.
LEMMA ReadsHeader ==
    ASSUME NEW sorted, NEW id, NEW k, NEW c, NEW d, NEW r, SymbolsRead(sorted, id, k, c, r)
    PROVE  SymbolsRead(sorted, id, k, d, Read(r, GroupLine(d)))
<1>1. PICK b : Reading(r, SymbolsTo(sorted, k), << >>, b, c, FALSE, Deferred)
               /\ Named(b, sorted, id, k)
  BY DEF SymbolsRead
<1>2. Reading(Read(r, GroupLine(d)), SymbolsTo(sorted, k), << >>, b, d, FALSE, Deferred)
  BY <1>1, ReadsGroup
<1> QED
  BY <1>1, <1>2 DEF SymbolsRead

\* Down to a symbol the reader has that symbol and those above it.
LEMMA ReadsSymbols ==
    ASSUME NEW S, NEW sorted \in Seq(S), NEW id, TellsNames(sorted, id)
    PROVE  /\ LinesUnderGroups(sorted, id) \in Seq(HeaderLines(sorted) \cup ItemLines(sorted, id))
           /\ \E d : SymbolsRead(sorted, id, Len(sorted), d, Scan(LinesUnderGroups(sorted, id)))
<1> DEFINE L == HeaderLines(sorted) \cup ItemLines(sorted, id)
           n == Len(sorted)
<1>1. PICK upTo : Sections(sorted, id, upTo) /\ LinesUnderGroups(sorted, id) = upTo[n]
  BY SectionsExist
<1>2. n \in Nat /\ DOMAIN sorted = 1 .. n
  OBVIOUS
<1> HIDE DEF n
<1>3. /\ upTo[0] = << >>
      /\ \A k \in 1 .. n :
            upTo[k] = Append(upTo[k - 1] \o GroupHeader(sorted, k),
                             SymbolLine(id[sorted[k].name], Spelt(sorted[k])))
  <2>1. upTo = [k \in 0 .. n |->
                   IF k = 0 THEN << >>
                   ELSE Append(upTo[k - 1] \o GroupHeader(sorted, k),
                               SymbolLine(id[sorted[k].name], Spelt(sorted[k])))]
    BY <1>1 DEF Sections, n
  <2>2. 0 \in 0 .. n /\ \A k \in 1 .. n : k \in 0 .. n /\ k # 0
    BY <1>2
  <2> QED
    BY <2>1, <2>2
<1> DEFINE Right(k) == /\ upTo[k] \in Seq(L)
                       /\ \E d : /\ SymbolsRead(sorted, id, k, d, Scan(upTo[k]))
                                 /\ k # 0 => d = sorted[k].distance
           N == {k \in Nat : k <= n => Right(k)}
<1>4. 0 \in N
  <2>1. upTo[0] \in Seq(L)
    BY <1>3
  <2>2. SymbolsRead(sorted, id, 0, 0, FreshReader)
    <3>1. 1 .. 0 = {}
      OBVIOUS
    <3>2. SymbolsTo(sorted, 0) = << >>
      BY <3>1 DEF SymbolsTo
    <3>3. Reading(FreshReader, << >>, << >>, FreshReader.byId, 0, FALSE, Deferred)
          /\ DOMAIN FreshReader.byId = {}
      BY DEF FreshReader, Reading
    <3>4. Named(FreshReader.byId, sorted, id, 0)
      BY <3>1, <3>3 DEF Named
    <3> QED
      BY <3>2, <3>3, <3>4 DEF SymbolsRead
  <2>3. Scan(upTo[0]) = FreshReader
    BY <1>3, ReadNothing
  <2> QED
    BY <2>1, <2>2, <2>3
<1>5. ASSUME NEW k \in N PROVE k + 1 \in N
  <2> SUFFICES ASSUME k + 1 <= n PROVE Right(k + 1)
    OBVIOUS
  <2> DEFINE p == upTo[k] \o GroupHeader(sorted, k + 1)
             l == SymbolLine(id[sorted[k + 1].name], Spelt(sorted[k + 1]))
             g == GroupLine(sorted[k + 1].distance)
             d == sorted[k + 1].distance
  <2>1. k \in Nat /\ k <= n /\ k + 1 \in 1 .. n /\ (k + 1) - 1 = k /\ k + 1 # 0
        /\ (k # 0 => k \in 1 .. n)
    BY <1>2
  <2>2. Right(k)
    BY <2>1
  <2>3. upTo[k + 1] = Append(p, l)
    BY <1>3, <2>1
  <2>4. l \in L /\ g \in L
    BY <1>2, <2>1 DEF HeaderLines, ItemLines
  <2>5. upTo[k] \in Seq(L)
    BY <2>2
  <2> HIDE DEF L, l, g
  <2>6. p \in Seq(L) /\ SymbolsRead(sorted, id, k, d, Scan(p))
    <3>1. PICK c : /\ SymbolsRead(sorted, id, k, c, Scan(upTo[k]))
                   /\ k # 0 => c = sorted[k].distance
      BY <2>2
    <3>2. CASE GroupHeader(sorted, k + 1) = <<g>>
      <4>1. p = Append(upTo[k], g)
        <5>1. upTo[k] \o <<g>> = Append(upTo[k], g)
          BY <2>4, <2>5
        <5> QED
          BY <3>2, <5>1
      <4> HIDE DEF p
      <4>2. p \in Seq(L)
        BY <2>4, <2>5, <4>1
      <4>3. Scan(p) = Read(Scan(upTo[k]), g)
        BY <2>4, <2>5, <4>1, ReadMore
      <4>4. SymbolsRead(sorted, id, k, d, Read(Scan(upTo[k]), g))
        BY <3>1, ReadsHeader DEF g
      <4> QED
        BY <4>2, <4>3, <4>4
    <3>3. CASE GroupHeader(sorted, k + 1) # <<g>>
      <4>1. k # 0 /\ sorted[k].distance = d /\ GroupHeader(sorted, k + 1) = << >>
        BY <2>1, <3>3 DEF GroupHeader, g
      <4>2. p = upTo[k]
        <5>1. upTo[k] \o << >> = upTo[k]
          BY <2>5
        <5> QED
          BY <4>1, <5>1
      <4> QED
        BY <2>5, <3>1, <4>1, <4>2
    <3> QED
      BY <3>2, <3>3
  <2> HIDE DEF p
  <2>7. Append(p, l) \in Seq(L)
    BY <2>4, <2>6
  <2>8. Scan(Append(p, l)) = Read(Scan(p), l)
    BY <2>4, <2>6, ReadMore
  <2>9. k + 1 <= Len(sorted)
    BY DEF n
  <2>a. SymbolsRead(sorted, id, k + 1, d, Read(Scan(p), l))
    BY <2>1, <2>6, <2>9, ReadsNextSymbol DEF l
  <2> QED
    BY <2>3, <2>7, <2>8, <2>a
<1>6. Right(n)
  <2>1. N \in SUBSET Nat
    OBVIOUS
  <2>2. n \in N
    <3> HIDE DEF N
    <3> QED
      BY <1>2, <1>4, <1>5, <2>1, Induct
  <2>3. n <= n
    BY <1>2
  <2> QED
    BY <2>2, <2>3
<1> QED
  BY <1>1, <1>6 DEF n

-----------------------------------------------------------------------------
(* Reading the edges section.                                              *)

\* The line of the k-th edge.
LineOf(edges, id, k) == EdgeLine(id[edges[k].source], id[edges[k].target])

EdgeLinesTo(edges, id, k) == [j \in 1 .. k |-> LineOf(edges, id, j)]

\* What a reader has of k edges.
EdgesTo(edges, id, b, k) ==
    [j \in 1 .. k |-> EdgeRead(b, id[edges[j].source], id[edges[j].target])]

\* One edge more is the next of EdgesTo.
LEMMA NextEdge ==
    ASSUME NEW edges, NEW id, NEW b, NEW k \in Nat
    PROVE  Append(EdgesTo(edges, id, b, k),
                  EdgeRead(b, id[edges[k + 1].source], id[edges[k + 1].target]))
             = EdgesTo(edges, id, b, k + 1)
<1> DEFINE f == EdgesTo(edges, id, b, k + 1)
           x == EdgeRead(b, id[edges[k + 1].source], id[edges[k + 1].target])
<1>1. \A j \in 1 .. k + 1 : f[j] = EdgeRead(b, id[edges[j].source], id[edges[j].target])
  BY DEF EdgesTo
<1>2. 1 .. k \subseteq 1 .. k + 1 /\ k + 1 \in 1 .. k + 1
  OBVIOUS
<1>3. EdgesTo(edges, id, b, k) = [j \in 1 .. k |-> f[j]]
  BY <1>1, <1>2 DEF EdgesTo
<1>4. f[k + 1] = x
  BY <1>1, <1>2
<1>5. f = [j \in 1 .. k + 1 |-> f[j]]
  BY DEF EdgesTo
<1> HIDE DEF f, x
<1>6. Append([j \in 1 .. k |-> f[j]], x) = [j \in 1 .. k + 1 |-> IF j = k + 1 THEN x ELSE f[j]]
  BY Longer
<1>7. [j \in 1 .. k + 1 |-> IF j = k + 1 THEN x ELSE f[j]] = [j \in 1 .. k + 1 |-> f[j]]
  BY <1>4
<1>8. Append(EdgesTo(edges, id, b, k), x) = f
  BY <1>3, <1>5, <1>6, <1>7
<1> QED
  BY <1>8 DEF f, x

\* One edge line more is the next of EdgeLinesTo.
LEMMA NextLine ==
    ASSUME NEW edges, NEW id, NEW k \in Nat
    PROVE  Append(EdgeLinesTo(edges, id, k), LineOf(edges, id, k + 1))
             = EdgeLinesTo(edges, id, k + 1)
<1> DEFINE f == EdgeLinesTo(edges, id, k + 1)
           x == LineOf(edges, id, k + 1)
<1>1. \A j \in 1 .. k + 1 : f[j] = LineOf(edges, id, j)
  BY DEF EdgeLinesTo
<1>2. 1 .. k \subseteq 1 .. k + 1 /\ k + 1 \in 1 .. k + 1
  OBVIOUS
<1>3. EdgeLinesTo(edges, id, k) = [j \in 1 .. k |-> f[j]]
  BY <1>1, <1>2 DEF EdgeLinesTo
<1>4. f[k + 1] = x
  BY <1>1, <1>2
<1>5. f = [j \in 1 .. k + 1 |-> f[j]]
  BY DEF EdgeLinesTo
<1> HIDE DEF f, x
<1>6. Append([j \in 1 .. k |-> f[j]], x) = [j \in 1 .. k + 1 |-> IF j = k + 1 THEN x ELSE f[j]]
  BY Longer
<1>7. [j \in 1 .. k + 1 |-> IF j = k + 1 THEN x ELSE f[j]] = [j \in 1 .. k + 1 |-> f[j]]
  BY <1>4
<1>8. Append(EdgeLinesTo(edges, id, k), x) = f
  BY <1>3, <1>5, <1>6, <1>7
<1> QED
  BY <1>8 DEF f, x

\* Below the header of the section every edge between declared ids is read.
LEMMA ReadsEdgeLines ==
    ASSUME NEW L, NEW p \in Seq(L), NEW s, NEW b, NEW d,
           Reading(Scan(p), s, << >>, b, d, FALSE, Deferred),
           NEW S, NEW edges \in Seq(S), NEW id,
           \A j \in DOMAIN edges : id[edges[j].source] \in DOMAIN b /\ id[edges[j].target] \in DOMAIN b,
           NEW m \in Nat
    PROVE  Reading(Scan(p \o EdgeSection(m, edges, id)),
                   s, EdgesTo(edges, id, b, Len(edges)), b, d, TRUE, m)
<1> DEFINE n == Len(edges)
           h == EdgesLine(m)
           T == L \cup {h} \cup {LineOf(edges, id, j) : j \in 1 .. n}
           top == Append(p, h)
           to(k) == top \o EdgeLinesTo(edges, id, k)
           Right(k) == /\ to(k) \in Seq(T)
                       /\ Reading(Scan(to(k)), s, EdgesTo(edges, id, b, k), b, d, TRUE, m)
           N == {k \in Nat : k <= n => Right(k)}
<1>1. n \in Nat /\ DOMAIN edges = 1 .. n
  OBVIOUS
<1> HIDE DEF n
<1>2. h \in T /\ p \in Seq(T) /\ \A j \in 1 .. n : LineOf(edges, id, j) \in T
  OBVIOUS
<1> HIDE DEF h, T
<1>3. top \in Seq(T) /\ Reading(Scan(top), s, << >>, b, d, TRUE, m)
  <2>1. Scan(top) = Read(Scan(p), h)
    BY <1>2, ReadMore
  <2> DEFINE r == Scan(p)
  <2>2. Reading(r, s, << >>, b, d, FALSE, Deferred)
    OBVIOUS
  <2> HIDE DEF r
  <2>3. Reading(Read(r, EdgesLine(m)), s, << >>, b, d, TRUE, m)
    BY <2>2, ReadsEdges
  <2>4. Reading(Read(Scan(p), h), s, << >>, b, d, TRUE, m)
    BY <2>3 DEF r, h
  <2> QED
    <3>1. top \in Seq(T)
      BY <1>2
    <3> HIDE DEF top
    <3> QED
      BY <2>1, <2>4, <3>1
<1>4. 0 \in N
  <2>1. 1 .. 0 = {}
    OBVIOUS
  <2>2. EdgeLinesTo(edges, id, 0) = << >> /\ EdgesTo(edges, id, b, 0) = << >>
    BY <2>1 DEF EdgeLinesTo, EdgesTo
  <2> HIDE DEF top
  <2>3. top \o << >> = top
    BY <1>3
  <2>4. to(0) = top
    BY <2>2, <2>3
  <2> HIDE DEF to
  <2>5. to(0) \in Seq(T)
    BY <1>3, <2>4
  <2>6. Reading(Scan(to(0)), s, EdgesTo(edges, id, b, 0), b, d, TRUE, m)
    BY <1>3, <2>2, <2>4
  <2> HIDE DEF to
  <2> QED
    BY <2>5, <2>6
<1> HIDE DEF top
<1>5. ASSUME NEW k \in N PROVE k + 1 \in N
  <2> SUFFICES ASSUME k + 1 <= n PROVE Right(k + 1)
    <3> HIDE DEF Right
    <3> QED
      OBVIOUS
  <2> DEFINE l == LineOf(edges, id, k + 1)
             i == id[edges[k + 1].source]
             j == id[edges[k + 1].target]
  <2>1. k \in Nat /\ k <= n /\ k + 1 \in 1 .. n
    BY <1>1
  <2>2. Right(k)
    BY <2>1
  <2>3. l \in T /\ i \in DOMAIN b /\ j \in DOMAIN b
    BY <1>1, <1>2, <2>1
  <2>4. l = EdgeLine(i, j)
    BY DEF LineOf
  <2> HIDE DEF l, i, j
  <2>5. to(k + 1) = Append(to(k), l)
    <3> DEFINE e == EdgeLinesTo(edges, id, k)
    <3>1. EdgeLinesTo(edges, id, k + 1) = Append(e, l)
      BY <2>1, NextLine DEF l
    <3>2. e \in Seq(T)
      <4>1. \A x \in 1 .. k : LineOf(edges, id, x) \in T
        BY <1>1, <1>2, <2>1
      <4>2. e \in [1 .. k -> T]
        BY <4>1 DEF EdgeLinesTo
      <4> QED
        BY <2>1, <4>2
    <3> HIDE DEF e
    <3>3. top \o Append(e, l) = Append(top \o e, l)
      BY <1>3, <2>3, <3>2
    <3> QED
      BY <3>1, <3>3 DEF e
  <2> HIDE DEF to
  <2>6. to(k + 1) \in Seq(T)
    BY <2>2, <2>3, <2>5
  <2>7. Scan(to(k + 1)) = Read(Scan(to(k)), l)
    BY <2>2, <2>3, <2>5, ReadMore
  <2>8. Reading(Read(Scan(to(k)), l), s, Append(EdgesTo(edges, id, b, k), EdgeRead(b, i, j)),
                b, d, TRUE, m)
    BY <2>2, <2>3, <2>4, ReadsEdge
  <2>9. Append(EdgesTo(edges, id, b, k), EdgeRead(b, i, j)) = EdgesTo(edges, id, b, k + 1)
    BY <2>1, NextEdge DEF i, j
  <2> QED
    BY <2>6, <2>7, <2>8, <2>9
<1>6. Right(n)
  <2>1. N \in SUBSET Nat
    OBVIOUS
  <2>2. n \in N
    <3> HIDE DEF N
    <3> QED
      BY <1>1, <1>4, <1>5, <2>1, Induct
  <2>3. n <= n
    BY <1>1
  <2> QED
    BY <2>2, <2>3
<1>7. p \o EdgeSection(m, edges, id) = to(n)
  <2> DEFINE e == EdgeLinesTo(edges, id, n)
  <2>1. EdgeSection(m, edges, id) = <<h>> \o e
    BY <1>1 DEF EdgeSection, EdgeLinesTo, LineOf, h
  <2>2. e \in Seq(T)
    <3>1. e \in [1 .. n -> T]
      BY <1>2 DEF EdgeLinesTo
    <3> QED
      BY <1>1, <3>1
  <2> HIDE DEF e
  <2>3. p \o (<<h>> \o e) = Append(p, h) \o e
    BY <1>2, <2>2
  <2> QED
    BY <2>1, <2>3 DEF top, e
<1> QED
  BY <1>6, <1>7 DEF n

-----------------------------------------------------------------------------
(* The orders of the symbols and of the edges.                             *)

\* A sorted sequence has the items at the positions that were sorted.
LEMMA OrderedItems ==
    ASSUME NEW S, NEW s \in Seq(S), NEW V \in SUBSET DOMAIN s, NEW order \in SetToSeqs(V)
    PROVE  /\ Ordered(s, order) \in Seq(S)
           /\ Len(Ordered(s, order)) = Cardinality(V) /\ Cardinality(V) \in Nat
           /\ DOMAIN Ordered(s, order) = 1 .. Cardinality(V)
           /\ DOMAIN order = 1 .. Cardinality(V)
           /\ \A k \in 1 .. Cardinality(V) : order[k] \in V /\ Ordered(s, order)[k] = s[order[k]]
           /\ Range(order) = V
<1> DEFINE n == Cardinality(V)
<1>1. /\ order \in Seq(V) /\ Range(order) = V /\ n \in Nat /\ DOMAIN order = 1 .. n
  <2>1. Len(s) \in Nat /\ DOMAIN s = 1 .. Len(s)
    OBVIOUS
  <2> QED
    BY <2>1, SortedPositions
<1> HIDE DEF n
<1>2. \A k \in 1 .. n : order[k] \in V /\ s[order[k]] \in S
  BY <1>1
<1>3. Ordered(s, order) = [k \in 1 .. n |-> s[order[k]]]
  BY <1>1 DEF Ordered
<1>4. Ordered(s, order) \in [1 .. n -> S]
  BY <1>2, <1>3
<1>5. Ordered(s, order) \in Seq(S) /\ Len(Ordered(s, order)) = n
  BY <1>1, <1>4
<1> QED
  BY <1>1, <1>2, <1>3, <1>5 DEF n

\* Sets of positions are finite.
LEMMA PositionsFinite ==
    ASSUME NEW S, NEW s \in Seq(S), NEW V \in SUBSET DOMAIN s
    PROVE  IsFiniteSet(V)
BY SeqFinite, FS_Subset

\* The sort of the symbols has a result, which is in order (gcf.go:239-244).
LEMMA SymbolsInOrder ==
    ASSUME NEW S, NEW s \in Seq(S), \A i \in DOMAIN s : IsSymbol(s[i])
    PROVE  /\ OutputOrder(s) \in SetToSeqs(DOMAIN s)
           /\ \A i, j \in DOMAIN OutputOrder(s) :
                  i < j => NearestFirst(s, OutputOrder(s)[i], OutputOrder(s)[j])
<1> DEFINE D == DOMAIN s
           R == {p \in D \X D : NearestFirst(s, p[1], p[2])}
<1>1. \A i \in D : s[i].distance \in Int /\ s[i].score \in Int /\ i \in Int
  BY ScoresAssumption DEF IsSymbol
<1>2. \A i, j \in D : <<i, j>> \in R <=> NearestFirst(s, i, j)
  OBVIOUS
<1>3. \A i \in D : <<i, i>> \notin R
  BY <1>1, <1>2 DEF NearestFirst
<1>4. ASSUME NEW i \in D, NEW j \in D PROVE i = j \/ <<i, j>> \in R \/ <<j, i>> \in R
  <2>1. i = j \/ NearestFirst(s, i, j) \/ NearestFirst(s, j, i)
    BY <1>1 DEF NearestFirst
  <2> HIDE DEF R
  <2> QED
    BY <1>2, <2>1
<1>5. \A i, j, k \in D : <<i, j>> \in R /\ <<j, k>> \in R => <<i, k>> \in R
  BY <1>1, <1>2 DEF NearestFirst
<1>6. IsFiniteSet(D)
  BY SeqFinite
<1>7. OutputOrder(s) = SortedBy(R, D)
  BY DEF OutputOrder
<1> HIDE DEF R
<1>8. Sorts(R, D, SortedBy(R, D))
  BY <1>3, <1>4, <1>5, <1>6, SortExists
<1> DEFINE o == OutputOrder(s)
<1>9. o \in SetToSeqs(D) /\ \A i, j \in DOMAIN o : i < j => <<o[i], o[j]>> \in R
  BY <1>7, <1>8 DEF Sorts
<1> HIDE DEF o
<1>a. \A i \in DOMAIN o : o[i] \in D
  BY <1>9, OrderedItems
<1>b. \A i, j \in DOMAIN o : i < j => NearestFirst(s, o[i], o[j])
  BY <1>2, <1>9, <1>a
<1> QED
  BY <1>9, <1>b DEF o

\* The sort of the edges has a result (gcf.go:204-212).
LEMMA EdgesInOrder ==
    ASSUME NEW S, NEW edges \in Seq(S), NEW id, \A q \in DOMAIN id : id[q] \in Int
    PROVE  EdgeOrder(edges, id) \in SetToSeqs(ValidEdges(edges, id))
<1> DEFINE V == ValidEdges(edges, id)
           R == {p \in V \X V : LowestIdsFirst(edges, id, p[1], p[2])}
<1>1. V \in SUBSET DOMAIN edges
      /\ \A i \in V : i \in Int /\ id[edges[i].source] \in Int /\ id[edges[i].target] \in Int
  BY DEF ValidEdges
<1>2. IsFiniteSet(V)
  BY <1>1, PositionsFinite
<1>3. EdgeOrder(edges, id) = SortedBy(R, V)
  BY DEF EdgeOrder
<1> HIDE DEF V
<1>4. \A i, j \in V : <<i, j>> \in R <=> LowestIdsFirst(edges, id, i, j)
  OBVIOUS
<1>5. \A i \in V : <<i, i>> \notin R
  BY <1>1, <1>4 DEF LowestIdsFirst
<1>6. ASSUME NEW i \in V, NEW j \in V PROVE i = j \/ <<i, j>> \in R \/ <<j, i>> \in R
  <2>1. i = j \/ LowestIdsFirst(edges, id, i, j) \/ LowestIdsFirst(edges, id, j, i)
    BY <1>1 DEF LowestIdsFirst
  <2> HIDE DEF R
  <2> QED
    BY <1>4, <2>1
<1>7. \A i, j, k \in V : <<i, j>> \in R /\ <<j, k>> \in R => <<i, k>> \in R
  BY <1>1, <1>4 DEF LowestIdsFirst
<1> HIDE DEF R
<1>8. Sorts(R, V, SortedBy(R, V))
  BY <1>2, <1>5, <1>6, <1>7, SortExists
<1> QED
  BY <1>3, <1>8 DEF Sorts, V

\* The id of a name is that of a line which has the name.
LEMMA LastLineTells ==
    ASSUME NEW S, NEW sorted \in Seq(S)
    PROVE  /\ DOMAIN LastLineOf(sorted) = {sorted[k].name : k \in DOMAIN sorted}
           /\ \A q \in DOMAIN LastLineOf(sorted) :
                  /\ LastLineOf(sorted)[q] \in Int
                  /\ sorted[LastLineOf(sorted)[q] + 1].name = q
           /\ TellsNames(sorted, LastLineOf(sorted))
<1> DEFINE id == LastLineOf(sorted)
<1>1. DOMAIN id = {sorted[k].name : k \in DOMAIN sorted}
  BY DEF LastLineOf
<1>2. ASSUME NEW q \in DOMAIN id
      PROVE  id[q] \in Int /\ sorted[id[q] + 1].name = q
  <2> DEFINE at == {k \in DOMAIN sorted : sorted[k].name = q}
  <2>1. at # {} /\ at \in SUBSET (1 .. Len(sorted)) /\ Len(sorted) \in Nat
    BY <1>1
  <2>2. Max(at) \in at
    BY <2>1, LastPosition
  <2>3. id[q] = Max(at) - 1
    BY <1>1 DEF LastLineOf
  <2>4. Max(at) \in Int /\ sorted[Max(at)].name = q
    BY <2>2
  <2>5. Max(at) - 1 + 1 = Max(at)
    BY <2>4
  <2> QED
    BY <2>3, <2>4, <2>5
<1> HIDE DEF id
<1>3. TellsNames(sorted, id)
  <2> SUFFICES ASSUME NEW j \in DOMAIN sorted, NEW k \in DOMAIN sorted,
                      id[sorted[j].name] = id[sorted[k].name]
               PROVE  sorted[j].name = sorted[k].name
    BY DEF TellsNames
  <2>1. sorted[j].name \in DOMAIN id /\ sorted[k].name \in DOMAIN id
    BY <1>1
  <2> QED
    BY <1>2, <2>1
<1> QED
  BY <1>1, <1>2, <1>3 DEF id

-----------------------------------------------------------------------------
(* What Decode makes of Encode's lines.                                    *)

\* The edges that an edges section told, by the names of their ends.
EndNames(edges) ==
    [i \in DOMAIN edges |-> [source |-> edges[i].source.name, target |-> edges[i].target.name]]

\* The first n symbols as their lines tell them.
WireItems(sorted, n) == [i \in 1 .. n |-> OnWire(sorted[i])]

\* What is returned for a reader that has all the symbols and the declared edges.
LEMMA ReadingOutcome ==
    ASSUME NEW r, NEW sorted, NEW n \in Nat, \A i \in 1 .. n : IsSymbol(sorted[i]),
           NEW edges, NEW b, NEW d, NEW x, NEW m, m = Deferred \/ m = Len(edges),
           Reading(r, SymbolsTo(sorted, n), edges, b, d, x, m)
    PROVE  OutcomeOf(r) = Result(WireItems(sorted, n), EndNames(edges))
<1> DEFINE symbol(s) == [name |-> s.name.name, kind |-> expandKind(s.name.kind),
                         score |-> s.name.score, distance |-> s.distance]
<1>1. r.ok = TRUE /\ r.declared = m /\ r.symbols = SymbolsTo(sorted, n) /\ r.edges = edges
  BY DEF Reading
<1>2. Accepts(r)
  BY <1>1 DEF Accepts
<1>3. OutcomeOf(r) = Result([i \in DOMAIN r.symbols |-> symbol(r.symbols[i])], EndNames(r.edges))
  BY <1>2 DEF OutcomeOf, EndNames
<1>4. DOMAIN r.symbols = 1 .. n
      /\ \A i \in 1 .. n : r.symbols[i] = ReadItemOf(Spelt(sorted[i]), sorted[i].distance)
  BY <1>1 DEF SymbolsTo
<1>5. ASSUME NEW i \in 1 .. n PROVE symbol(r.symbols[i]) = OnWire(sorted[i])
  <2> DEFINE s == sorted[i]
             t == r.symbols[i]
  <2>1. t.distance = s.distance /\ t.name = Spelt(s)
    <3>1. t = ReadItemOf(Spelt(s), s.distance)
      BY <1>4
    <3> HIDE DEF s, t
    <3> QED
      BY <3>1 DEF ReadItemOf
  <2>2. t.name.name = s.name /\ t.name.kind = Abbrev(s.kind) /\ t.name.score = Printed[s.score]
    BY <2>1 DEF Spelt
  <2>3. OnWire(s) = [name |-> s.name, kind |-> expandKind(Abbrev(s.kind)),
                     score |-> Printed[s.score], distance |-> s.distance]
    BY SymbolOnWire
  <2> QED
    BY <2>1, <2>2, <2>3
<1>6. [i \in DOMAIN r.symbols |-> symbol(r.symbols[i])] = [i \in 1 .. n |-> OnWire(sorted[i])]
  BY <1>4, <1>5
<1> QED
  BY <1>1, <1>3, <1>6 DEF WireItems

\* The symbols that come back.
SymbolsBack(s) == WireItems(groupByDistance(s), Len(s))

\* The edges that come back.
EdgesBack(g) == SortedEdges(g.edges, symIndex(g.symbols))

\* The parts of a graph.
LEMMA GraphParts ==
    ASSUME NEW g, IsGraph(g)
    PROVE  /\ g.symbols \in Seq(Range(g.symbols))
           /\ \A i \in DOMAIN g.symbols : IsSymbol(g.symbols[i])
           /\ g.edges \in Seq(Range(g.edges))
           /\ \A i \in DOMAIN g.edges : IsEdge(g.edges[i])
BY DEF IsGraph, Range

\* The sorted symbols are the symbols, each once.
LEMMA SortedSymbols ==
    ASSUME NEW S, NEW s \in Seq(S), \A i \in DOMAIN s : IsSymbol(s[i])
    PROVE  /\ groupByDistance(s) \in Seq(S) /\ Len(groupByDistance(s)) = Len(s)
           /\ OutputOrder(s) \in SetToSeqs(DOMAIN s)
           /\ DOMAIN OutputOrder(s) = 1 .. Len(s)
           /\ \A k \in 1 .. Len(s) : /\ OutputOrder(s)[k] \in DOMAIN s
                                     /\ groupByDistance(s)[k] = s[OutputOrder(s)[k]]
           /\ Range(OutputOrder(s)) = DOMAIN s
<1> DEFINE o == OutputOrder(s)
<1>1. o \in SetToSeqs(DOMAIN s)
  BY SymbolsInOrder
<1> HIDE DEF o
<1>2. Cardinality(DOMAIN s) = Len(s)
  <2>1. Len(s) \in Nat /\ DOMAIN s = 1 .. Len(s) /\ 1 \in Int /\ Len(s) \in Int
    OBVIOUS
  <2>2. Cardinality(1 .. Len(s)) = IF 1 > Len(s) THEN 0 ELSE Len(s) - 1 + 1
    BY <2>1, FS_Interval, Zenon
  <2> QED
    BY <2>1, <2>2
<1>3. groupByDistance(s) = Ordered(s, o)
  BY DEF groupByDistance, o
<1>4. DOMAIN s \in SUBSET DOMAIN s
  OBVIOUS
<1>5. /\ Ordered(s, o) \in Seq(S) /\ Len(Ordered(s, o)) = Cardinality(DOMAIN s)
      /\ DOMAIN o = 1 .. Cardinality(DOMAIN s)
      /\ \A k \in 1 .. Cardinality(DOMAIN s) : o[k] \in DOMAIN s /\ Ordered(s, o)[k] = s[o[k]]
      /\ Range(o) = DOMAIN s
  BY <1>1, <1>4, OrderedItems
<1> QED
  BY <1>1, <1>2, <1>3, <1>5 DEF o

\* The edges written are those with both ends among the symbols.
LEMMA SortedEdgeItems ==
    ASSUME NEW S, NEW edges \in Seq(S), NEW id, \A q \in DOMAIN id : id[q] \in Int
    PROVE  /\ SortedEdges(edges, id) \in Seq(S)
           /\ Len(SortedEdges(edges, id)) = Cardinality(ValidEdges(edges, id))
           /\ Cardinality(ValidEdges(edges, id)) \in Nat
           /\ \A k \in DOMAIN SortedEdges(edges, id) :
                  /\ EdgeOrder(edges, id)[k] \in ValidEdges(edges, id)
                  /\ SortedEdges(edges, id)[k] = edges[EdgeOrder(edges, id)[k]]
<1> DEFINE V == ValidEdges(edges, id)
           o == EdgeOrder(edges, id)
<1>1. o \in SetToSeqs(V)
  BY EdgesInOrder
<1>2. V \in SUBSET DOMAIN edges
  BY DEF ValidEdges
<1>3. SortedEdges(edges, id) = Ordered(edges, o)
  BY DEF SortedEdges
<1> HIDE DEF V, o
<1>4. /\ Ordered(edges, o) \in Seq(S) /\ Len(Ordered(edges, o)) = Cardinality(V)
      /\ Cardinality(V) \in Nat /\ DOMAIN Ordered(edges, o) = 1 .. Cardinality(V)
      /\ \A k \in 1 .. Cardinality(V) : o[k] \in V /\ Ordered(edges, o)[k] = edges[o[k]]
  BY <1>1, <1>2, OrderedItems
<1> QED
  BY <1>3, <1>4 DEF V, o

\* A declared id leads back to the name it was made from.
LEMMA EndsRead ==
    ASSUME NEW S, NEW sorted \in Seq(S), NEW id, DOMAIN id = {sorted[k].name : k \in DOMAIN sorted},
           NEW b, Named(b, sorted, id, Len(sorted)), NEW q \in DOMAIN id
    PROVE  id[q] \in DOMAIN b /\ b[id[q]].name = q
<1>1. PICK k \in DOMAIN sorted : q = sorted[k].name
  OBVIOUS
<1>2. k \in 1 .. Len(sorted)
  OBVIOUS
<1> QED
  BY <1>1, <1>2 DEF Named

\* Decode returns the sorted symbols and edges of the graph that was encoded.
LEMMA DecodesGraph ==
    ASSUME NEW g, IsGraph(g)
    PROVE  Decode(Encode(g)) = Result(SymbolsBack(g.symbols), EdgesBack(g))
<1> DEFINE s == g.symbols
           e == g.edges
           n == Len(s)
           sorted == groupByDistance(s)
           id == symIndex(s)
           lines == SymbolLines(s)
           edges == EdgesBack(g)
           m == Cardinality(ValidEdges(e, id))
<1>1. /\ s \in Seq(Range(s)) /\ \A i \in DOMAIN s : IsSymbol(s[i])
      /\ e \in Seq(Range(e)) /\ \A i \in DOMAIN e : IsEdge(e[i])
  BY GraphParts
<1>2. /\ sorted \in Seq(Range(s)) /\ Len(sorted) = n /\ n \in Nat
      /\ \A k \in 1 .. n : IsSymbol(sorted[k])
  BY <1>1, SortedSymbols
<1>3. /\ id = LastLineOf(sorted) /\ lines = LinesUnderGroups(sorted, id)
      /\ edges = SortedEdges(e, id)
      /\ Encode(g) = lines \o EdgeLines(e, id)
      /\ SymbolsBack(s) = WireItems(sorted, n)
  BY DEF symIndex, SymbolLines, EdgesBack, Encode, SymbolsBack
<1> HIDE DEF s, e, n, sorted, id, lines, edges
<1>4. /\ DOMAIN id = {sorted[k].name : k \in DOMAIN sorted}
      /\ \A q \in DOMAIN id : id[q] \in Int
      /\ TellsNames(sorted, id)
  BY <1>2, <1>3, LastLineTells
<1> DEFINE L == HeaderLines(sorted) \cup ItemLines(sorted, id)
<1>5. lines \in Seq(L) /\ \E d : SymbolsRead(sorted, id, n, d, Scan(lines))
  BY <1>2, <1>3, <1>4, ReadsSymbols
<1> HIDE DEF L
<1>6. PICK d, b : /\ Reading(Scan(lines), SymbolsTo(sorted, n), << >>, b, d, FALSE, Deferred)
                  /\ Named(b, sorted, id, n)
  BY <1>5 DEF SymbolsRead
<1>7. /\ edges \in Seq(Range(e)) /\ Len(edges) = m /\ m \in Nat
      /\ \A k \in DOMAIN edges : EdgeOrder(e, id)[k] \in ValidEdges(e, id)
                                 /\ edges[k] = e[EdgeOrder(e, id)[k]]
  BY <1>1, <1>3, <1>4, SortedEdgeItems
<1>8. \A k \in DOMAIN edges : /\ IsEdge(edges[k])
                              /\ edges[k].source \in DOMAIN id /\ edges[k].target \in DOMAIN id
  <2>1. \A i \in ValidEdges(e, id) : /\ i \in DOMAIN e
                                     /\ e[i].source \in DOMAIN id /\ e[i].target \in DOMAIN id
    BY DEF ValidEdges
  <2> QED
    BY <1>1, <1>7, <2>1
<1>9. \A q \in DOMAIN id : id[q] \in DOMAIN b /\ b[id[q]].name = q
  BY <1>2, <1>4, <1>6, EndsRead
<1>a. CASE e = << >>
  <2>1. edges = << >>
    <3>1. ValidEdges(e, id) = {}
      BY <1>a DEF ValidEdges
    <3>2. Len(edges) = 0
      BY <1>7, <3>1, FS_EmptySet
    <3> QED
      BY <1>7, <3>2
  <2>2. Encode(g) = lines
    <3>1. EdgeLines(e, id) = << >>
      BY <1>a DEF EdgeLines
    <3> QED
      BY <1>3, <1>5, <3>1
  <2>3. OutcomeOf(Scan(lines)) = Result(WireItems(sorted, n), EndNames(<< >>))
    BY <1>2, <1>6, ReadingOutcome
  <2>4. EndNames(<< >>) = << >>
    BY DEF EndNames
  <2> QED
    BY <1>3, <2>1, <2>2, <2>3, <2>4 DEF Decode, s, edges
<1>b. CASE e # << >>
  <2> DEFINE back == EdgesTo(edges, id, b, m)
             r == Scan(lines \o EdgeSection(m, edges, id))
  <2>1. Encode(g) = lines \o EdgeSection(m, edges, id)
    BY <1>3, <1>b DEF EdgeLines
  <2>2. \A j \in DOMAIN edges : id[edges[j].source] \in DOMAIN b /\ id[edges[j].target] \in DOMAIN b
    BY <1>8, <1>9
  <2>3. Reading(r, SymbolsTo(sorted, n), back, b, d, TRUE, m)
    BY <1>5, <1>6, <1>7, <2>2, ReadsEdgeLines
  <2>4. DOMAIN back = 1 .. m /\ Len(back) = m
        /\ \A k \in 1 .. m : back[k] = EdgeRead(b, id[edges[k].source], id[edges[k].target])
    BY <1>7 DEF EdgesTo
  <2> HIDE DEF r, back
  <2>5. OutcomeOf(r) = Result(WireItems(sorted, n), EndNames(back))
    BY <1>2, <2>3, <2>4, ReadingOutcome
  <2>6. EndNames(back) = edges
    <3>1. ASSUME NEW k \in 1 .. m
          PROVE  [source |-> back[k].source.name, target |-> back[k].target.name] = edges[k]
      <4>1. k \in DOMAIN edges
        BY <1>7
      <4>2. back[k].source = b[id[edges[k].source]] /\ back[k].target = b[id[edges[k].target]]
        BY <2>4 DEF EdgeRead
      <4>3. back[k].source.name = edges[k].source /\ back[k].target.name = edges[k].target
        BY <1>8, <1>9, <4>1, <4>2
      <4> QED
        BY <1>8, <4>1, <4>3 DEF IsEdge
    <3>2. EndNames(back) = [k \in 1 .. m |-> edges[k]]
      BY <2>4, <3>1 DEF EndNames
    <3>3. edges = [k \in 1 .. m |-> edges[k]]
      BY <1>7
    <3> QED
      BY <3>2, <3>3
  <2> QED
    BY <1>3, <2>1, <2>5, <2>6 DEF Decode, r, s, edges
<1> QED
  BY <1>a, <1>b DEF s, e, n, sorted, id, lines, edges

\* The symbols come back as one bag, whatever their order.
LEMMA SymbolsAreBack ==
    ASSUME NEW S, NEW s \in Seq(S), \A i \in DOMAIN s : IsSymbol(s[i])
    PROVE  ToBag(SymbolsBack(s)) = ToBag([i \in DOMAIN s |-> OnWire(s[i])])
<1> DEFINE n == Len(s)
           o == OutputOrder(s)
           w == [i \in DOMAIN s |-> OnWire(s[i])]
           back == SymbolsBack(s)
<1>1. n \in Nat /\ DOMAIN s = 1 .. n
  OBVIOUS
<1>2. o \in SetToSeqs(DOMAIN s) /\ DOMAIN o = 1 .. n /\ Range(o) = DOMAIN s
      /\ \A k \in 1 .. n : o[k] \in DOMAIN s /\ groupByDistance(s)[k] = s[o[k]]
  BY SortedSymbols
<1> HIDE DEF o
<1>3. DOMAIN w = 1 .. n /\ \A i \in DOMAIN s : w[i] = OnWire(s[i])
  BY <1>1
<1> HIDE DEF w, n
<1>4. back = [k \in 1 .. n |-> w[o[k]]]
  <2>1. \A k \in 1 .. n : OnWire(groupByDistance(s)[k]) = w[o[k]]
    BY <1>2, <1>3
  <2> QED
    BY <2>1 DEF SymbolsBack, WireItems, n
<1>5. back = Ordered(w, o)
  BY <1>2, <1>4 DEF Ordered
<1> HIDE DEF back
<1>6. DOMAIN s \in SUBSET (1 .. n)
  BY <1>1
<1>7. \A x : Cardinality({k \in DOMAIN back : back[k] = x}) = Cardinality({i \in DOMAIN w : w[i] = x})
  <2> TAKE x
  <2>1. Times(Ordered(w, o), DOMAIN Ordered(w, o), x) = Times(w, DOMAIN s, x)
    BY <1>1, <1>2, <1>3, <1>6, OrderedBag
  <2>2. Times(back, DOMAIN back, x) = Times(w, DOMAIN w, x)
    BY <1>1, <1>3, <1>5, <2>1
  <2> QED
    BY <2>2 DEF Times
<1>8. Range(back) = Range(w)
  <2>1. ASSUME NEW x \in Range(back) PROVE x \in Range(w)
    <3>1. PICK k \in 1 .. n : x = w[o[k]]
      BY <1>4 DEF Range
    <3> QED
      BY <1>1, <1>2, <1>3, <3>1 DEF Range
  <2>2. ASSUME NEW x \in Range(w) PROVE x \in Range(back)
    <3>1. PICK i \in DOMAIN s : x = w[i]
      BY <1>1, <1>3 DEF Range
    <3>2. PICK k \in 1 .. n : o[k] = i
      BY <1>2 DEF Range
    <3> QED
      BY <1>4, <3>1, <3>2 DEF Range
  <2> QED
    BY <2>1, <2>2
<1>9. ToBag(back) = ToBag(w)
  BY <1>7, <1>8 DEF ToBag
<1> QED
  BY <1>9 DEF back, w

\* The edges that come back are those between the names of symbols.
LEMMA EdgesAreBack ==
    ASSUME NEW S, NEW edges \in Seq(S), NEW id, \A q \in DOMAIN id : id[q] \in Int
    PROVE  ToBag(SortedEdges(edges, id))
             = Restrict(ToBag(edges),
                        {e \in Range(edges) : {e.source, e.target} \subseteq DOMAIN id})
<1> DEFINE V == ValidEdges(edges, id)
           o == EdgeOrder(edges, id)
           n == Len(edges)
           back == SortedEdges(edges, id)
           told == {e \in Range(edges) : {e.source, e.target} \subseteq DOMAIN id}
<1>1. n \in Nat /\ DOMAIN edges = 1 .. n
  OBVIOUS
<1>2. V \in SUBSET (1 .. n) /\ V \in SUBSET DOMAIN edges
      /\ \A i \in DOMAIN edges : i \in V <=> {edges[i].source, edges[i].target} \subseteq DOMAIN id
  BY <1>1 DEF ValidEdges
<1>3. o \in SetToSeqs(V) /\ back = Ordered(edges, o)
  BY EdgesInOrder DEF SortedEdges
<1> HIDE DEF V, o, n, back
<1>4. /\ DOMAIN back = DOMAIN o /\ Range(o) = V
      /\ \A k \in DOMAIN o : o[k] \in V /\ back[k] = edges[o[k]]
  <2>1. Range(o) = V /\ o \in Seq(V)
    BY <1>1, <1>2, <1>3, SortedPositions
  <2>2. DOMAIN back = DOMAIN o /\ \A k \in DOMAIN o : back[k] = edges[o[k]]
    BY <1>3 DEF Ordered
  <2> QED
    BY <2>1, <2>2
<1>5. \A x : Cardinality({k \in DOMAIN back : back[k] = x}) = Cardinality({i \in V : edges[i] = x})
  <2> TAKE x
  <2>1. Times(Ordered(edges, o), DOMAIN Ordered(edges, o), x) = Times(edges, V, x)
    BY <1>1, <1>2, <1>3, OrderedBag
  <2>2. Times(back, DOMAIN back, x) = Times(edges, V, x)
    BY <1>3, <2>1
  <2> QED
    BY <2>2 DEF Times
<1>6. Range(back) = told
  <2>1. ASSUME NEW x \in Range(back) PROVE x \in told
    <3>1. PICK k \in DOMAIN o : x = edges[o[k]]
      BY <1>4 DEF Range
    <3>2. o[k] \in DOMAIN edges /\ {edges[o[k]].source, edges[o[k]].target} \subseteq DOMAIN id
      BY <1>2, <1>4, <3>1
    <3> QED
      BY <3>1, <3>2 DEF Range
  <2>2. ASSUME NEW x \in told PROVE x \in Range(back)
    <3>1. PICK i \in DOMAIN edges : x = edges[i]
      BY DEF Range
    <3>2. i \in V
      BY <1>2, <3>1
    <3>3. PICK k \in DOMAIN o : o[k] = i
      BY <1>4, <3>2 DEF Range
    <3> QED
      BY <1>4, <3>1, <3>3 DEF Range
  <2> HIDE DEF told
  <2> QED
    BY <2>1, <2>2
<1>7. ASSUME NEW x \in told
      PROVE  Cardinality({k \in DOMAIN back : back[k] = x}) = ToBag(edges)[x]
  <2>1. {i \in V : edges[i] = x} = {i \in DOMAIN edges : edges[i] = x}
    BY <1>2
  <2>2. x \in Range(edges)
    OBVIOUS
  <2>3. ToBag(edges)[x] = Cardinality({i \in DOMAIN edges : edges[i] = x})
    BY <2>2 DEF ToBag
  <2> QED
    BY <1>5, <2>1, <2>3
<1> HIDE DEF told
<1>8. ToBag(back) = [x \in told |-> ToBag(edges)[x]]
  BY <1>6, <1>7 DEF ToBag
<1> QED
  BY <1>8 DEF Restrict, told, back

\* What comes back is a graph.
LEMMA ReturnedGraph ==
    ASSUME NEW g, IsGraph(g)
    PROVE  IsGraph([symbols |-> SymbolsBack(g.symbols), edges |-> EdgesBack(g)])
<1> DEFINE s == SymbolsBack(g.symbols)
           e == EdgesBack(g)
           h == [symbols |-> s, edges |-> e]
<1>1. /\ g.symbols \in Seq(Range(g.symbols)) /\ \A i \in DOMAIN g.symbols : IsSymbol(g.symbols[i])
      /\ g.edges \in Seq(Range(g.edges)) /\ \A i \in DOMAIN g.edges : IsEdge(g.edges[i])
  BY GraphParts
<1>2. s \in Seq(Range(s)) /\ \A x \in Range(s) : IsSymbol(x)
  <2> DEFINE n == Len(g.symbols)
             sorted == groupByDistance(g.symbols)
  <2>1. n \in Nat /\ \A k \in 1 .. n : IsSymbol(sorted[k])
    BY <1>1, SortedSymbols
  <2>2. s = [k \in 1 .. n |-> OnWire(sorted[k])]
    BY DEF SymbolsBack, WireItems
  <2> HIDE DEF s, n, sorted
  <2>3. s \in [1 .. n -> Range(s)]
    BY <2>2 DEF Range
  <2>4. s \in Seq(Range(s))
    BY <2>1, <2>3
  <2>5. \A k \in 1 .. n : IsSymbol(OnWire(sorted[k]))
    BY <2>1, SymbolOnWire
  <2> QED
    BY <2>2, <2>4, <2>5 DEF Range
<1>3. e \in Seq(Range(e)) /\ \A x \in Range(e) : IsEdge(x)
  <2> DEFINE id == symIndex(g.symbols)
  <2>1. \A q \in DOMAIN id : id[q] \in Int
    <3>1. groupByDistance(g.symbols) \in Seq(Range(g.symbols))
      BY <1>1, SortedSymbols
    <3> QED
      BY <3>1, LastLineTells DEF symIndex
  <2> HIDE DEF id
  <2>2. /\ SortedEdges(g.edges, id) \in Seq(Range(g.edges))
        /\ \A k \in DOMAIN SortedEdges(g.edges, id) :
              /\ EdgeOrder(g.edges, id)[k] \in ValidEdges(g.edges, id)
              /\ SortedEdges(g.edges, id)[k] = g.edges[EdgeOrder(g.edges, id)[k]]
    BY <1>1, <2>1, SortedEdgeItems
  <2>3. e = SortedEdges(g.edges, id)
    BY DEF EdgesBack, id
  <2> HIDE DEF e
  <2>4. e \in Seq(Range(e))
    <3>1. e \in [1 .. Len(e) -> Range(e)] /\ Len(e) \in Nat
      BY <2>2, <2>3 DEF Range
    <3> QED
      BY <3>1
  <2>5. ASSUME NEW x \in Range(e) PROVE IsEdge(x)
    <3>1. PICK k \in DOMAIN e : x = e[k]
      BY DEF Range
    <3>2. EdgeOrder(g.edges, id)[k] \in DOMAIN g.edges
      BY <2>2, <2>3 DEF ValidEdges
    <3> QED
      BY <1>1, <2>2, <2>3, <3>1, <3>2
  <2> QED
    BY <2>4, <2>5
<1> HIDE DEF s, e
<1>4. h.symbols = s /\ h.edges = e /\ h = [symbols |-> h.symbols, edges |-> h.edges]
  OBVIOUS
<1> HIDE DEF h
<1>5. IsGraph(h)
  BY <1>2, <1>3, <1>4 DEF IsGraph
<1> QED
  BY <1>5 DEF h, s, e

\* What comes back is nearest first, highest score first among equals.
LEMMA NearestAreFirst ==
    ASSUME NEW S, NEW s \in Seq(S), \A i \in DOMAIN s : IsSymbol(s[i]),
           NEW i \in DOMAIN SymbolsBack(s), NEW j \in DOMAIN SymbolsBack(s), i < j
    PROVE  \/ SymbolsBack(s)[i].distance < SymbolsBack(s)[j].distance
           \/ /\ SymbolsBack(s)[i].distance = SymbolsBack(s)[j].distance
              /\ SymbolsBack(s)[i].score >= SymbolsBack(s)[j].score
<1> DEFINE o == OutputOrder(s)
           x == s[o[i]]
           y == s[o[j]]
<1>1. i \in 1 .. Len(s) /\ j \in 1 .. Len(s)
  BY DEF SymbolsBack, WireItems
<1>2. /\ DOMAIN o = 1 .. Len(s) /\ o[i] \in DOMAIN s /\ o[j] \in DOMAIN s
      /\ groupByDistance(s)[i] = x /\ groupByDistance(s)[j] = y
  BY <1>1, SortedSymbols
<1>3. NearestFirst(s, o[i], o[j])
  BY <1>1, <1>2, SymbolsInOrder
<1>4. IsSymbol(x) /\ IsSymbol(y)
  BY <1>2
<1>5. SymbolsBack(s)[i] = OnWire(x) /\ SymbolsBack(s)[j] = OnWire(y)
  BY <1>1, <1>2 DEF SymbolsBack, WireItems
<1>6. \/ x.distance < y.distance
      \/ x.distance = y.distance /\ (x.score > y.score \/ x.score = y.score)
  BY <1>3 DEF NearestFirst
<1> HIDE DEF x, y
<1>7. /\ OnWire(x).distance = x.distance /\ OnWire(y).distance = y.distance
      /\ OnWire(x).score = Printed[x.score] /\ OnWire(y).score = Printed[y.score]
  BY <1>4, SymbolOnWire
<1>8. x.score \in DOMAIN Printed /\ y.score \in DOMAIN Printed
      /\ x.score \in Int /\ y.score \in Int
  BY <1>4, ScoresAssumption DEF IsSymbol
<1>9. Printed[x.score] \in Int /\ Printed[y.score] \in Int
      /\ (y.score <= x.score => Printed[y.score] <= Printed[x.score])
  BY <1>8, ScoresAssumption
<1> QED
  BY <1>5, <1>6, <1>7, <1>8, <1>9

\* Every graph reads back (what FullReadsBack says of the graph sent last).
LEMMA GraphReadsBack == ASSUME NEW g, IsGraph(g) PROVE ReadAs(Decode(Encode(g)), g)
<1> DEFINE s == SymbolsBack(g.symbols)
           e == EdgesBack(g)
           r == Decode(Encode(g))
           id == symIndex(g.symbols)
<1>1. r = Result(s, e)
  BY DecodesGraph
<1>2. r.ok /\ r.graph = [symbols |-> s, edges |-> e] /\ r.graph.symbols = s /\ r.graph.edges = e
  BY <1>1 DEF Result
<1>3. /\ g.symbols \in Seq(Range(g.symbols)) /\ \A i \in DOMAIN g.symbols : IsSymbol(g.symbols[i])
      /\ g.edges \in Seq(Range(g.edges))
  BY GraphParts
<1>4. IsGraph(r.graph)
  BY <1>2, ReturnedGraph
<1>5. ToBag(s) = ToBag([i \in DOMAIN g.symbols |-> OnWire(g.symbols[i])])
  BY <1>3, SymbolsAreBack
<1>6. DOMAIN id = {g.symbols[i].name : i \in DOMAIN g.symbols} /\ \A q \in DOMAIN id : id[q] \in Int
  <2> DEFINE sorted == groupByDistance(g.symbols)
             o == OutputOrder(g.symbols)
             n == Len(g.symbols)
  <2>1. /\ sorted \in Seq(Range(g.symbols)) /\ Len(sorted) = n /\ DOMAIN o = 1 .. n
        /\ \A k \in 1 .. n : o[k] \in DOMAIN g.symbols /\ sorted[k] = g.symbols[o[k]]
        /\ Range(o) = DOMAIN g.symbols
    BY <1>3, SortedSymbols
  <2>2. id = LastLineOf(sorted)
    BY DEF symIndex
  <2> HIDE DEF sorted, o, n
  <2>3. DOMAIN id = {sorted[k].name : k \in DOMAIN sorted} /\ \A q \in DOMAIN id : id[q] \in Int
    BY <2>1, <2>2, LastLineTells
  <2>4. DOMAIN sorted = 1 .. n
    BY <2>1
  <2>5. \A i \in DOMAIN g.symbols : \E k \in 1 .. n : o[k] = i
    BY <2>1 DEF Range
  <2>6. {sorted[k].name : k \in 1 .. n} = {g.symbols[i].name : i \in DOMAIN g.symbols}
    BY <2>1, <2>5
  <2> QED
    BY <2>3, <2>4, <2>6
<1> HIDE DEF id
<1>7. ToBag(e) = Restrict(ToBag(g.edges),
                          {x \in Range(g.edges) : {x.source, x.target} \subseteq DOMAIN id})
  BY <1>3, <1>6, EdgesAreBack DEF EdgesBack, id
<1>8. Content(r.graph) = Told(g)
  BY <1>2, <1>5, <1>6, <1>7 DEF Content, Told
<1>9. \A i, j \in DOMAIN s : i < j =>
          \/ s[i].distance < s[j].distance
          \/ s[i].distance = s[j].distance /\ s[i].score >= s[j].score
  BY <1>3, NearestAreFirst
<1> HIDE DEF r, s, e
<1>a. ReadAs(r, g)
  BY <1>2, <1>4, <1>8, <1>9 DEF ReadAs
<1> QED
  BY <1>a DEF r

-----------------------------------------------------------------------------
(* The payloads.                                                           *)

\* The graphs that a producer has are graphs.
LEMMA SentAreGraphs == \A g \in Graphs \cup {EmptyGraph} : IsGraph(g)
<1>1. IsGraph(EmptyGraph)
  <2>1. EmptyGraph = [symbols |-> << >>, edges |-> << >>] /\ Range(<< >>) = {}
    BY DEF EmptyGraph, Range
  <2>2. EmptyGraph.symbols = << >> /\ EmptyGraph.edges = << >>
    BY <2>1
  <2>3. << >> \in Seq({})
    OBVIOUS
  <2> QED
    BY <2>1, <2>2, <2>3 DEF IsGraph
<1> QED
  BY <1>1, FeedAssumption

\* Every full payload reads back.
LEMMA FullsRead == \A g \in Graphs : ReadAs(Decode(Encode(g)), g)
BY SentAreGraphs, GraphReadsBack

\* All the payloads that a producer may ever send.
Fulls == {[kind |-> "full", outcome |-> Decode(Encode(g)), of |-> g] : g \in Graphs}

Deltas ==
    {[kind |-> "delta", delta |-> DeltaOnWire(Diff(b, g)), of |-> g] :
        b \in Graphs \cup {EmptyGraph}, g \in Graphs}

\* The channel has such payloads only: it loses, copies and overtakes, and does
\* not change any.
ChannelInv ==
    /\ graph \in Graphs \cup {EmptyGraph}
    /\ channel \in Seq(Fulls \cup Deltas)

-----------------------------------------------------------------------------
(* The channel.                                                            *)

LEMMA WithoutIsSeq ==
    ASSUME NEW S, channel \in Seq(S), NEW k \in DOMAIN channel
    PROVE  Without(k) \in Seq(S)
<1> DEFINE n == Len(channel) - 1
           f == [i \in 1 .. n |-> channel[IF i < k THEN i ELSE i + 1]]
<1>1. Len(channel) \in Nat /\ DOMAIN channel = 1 .. Len(channel) /\ k \in 1 .. Len(channel)
  OBVIOUS
<1>2. n \in Nat
  BY <1>1
<1>3. \A i \in 1 .. n : channel[IF i < k THEN i ELSE i + 1] \in S
  BY <1>1, <1>2
<1>4. f \in [1 .. n -> S]
  BY <1>3
<1>5. f \in Seq(S)
  BY <1>2, <1>4
<1> QED
  BY <1>5 DEF Without

LEMMA InitChannel == Init => ChannelInv
BY DEF Init, ChannelInv

LEMMA FaultKeepsChannel ==
    ASSUME ChannelInv, graph' = graph,
           \/ channel' = channel
           \/ channel # << >> /\ channel' = Tail(channel)
           \/ \E k \in DOMAIN channel : channel' = Without(k)
    PROVE  ChannelInv'
<1> DEFINE P == Fulls \cup Deltas
<1>1. channel \in Seq(P)
  BY DEF ChannelInv
<1> HIDE DEF P
<1>2. ASSUME channel # << >>, channel' = Tail(channel)
      PROVE  channel' \in Seq(P)
  BY <1>1, <1>2
<1>3. ASSUME NEW k \in DOMAIN channel, channel' = Without(k)
      PROVE  channel' \in Seq(P)
  BY <1>1, <1>3, WithoutIsSeq
<1>4. channel' \in Seq(P)
  BY <1>1, <1>2, <1>3
<1>5. graph' \in Graphs \cup {EmptyGraph}
  BY DEF ChannelInv
<1> USE DEF P
<1>6. (Fulls \cup Deltas)' = Fulls \cup Deltas
  BY DEF Fulls, Deltas
<1> QED
  BY <1>4, <1>5 DEF ChannelInv, EmptyGraph, Fulls, Deltas

LEMMA SendKeepsChannel ==
    ASSUME ChannelInv, NEW next \in Graphs, NEW m \in Fulls \cup Deltas,
           graph' = next, channel' = Append(channel, m)
    PROVE  ChannelInv'
<1> DEFINE P == Fulls \cup Deltas
<1>1. channel \in Seq(P) /\ m \in P
  BY DEF ChannelInv
<1> HIDE DEF P
<1>2. channel' \in Seq(P)
  BY <1>1
<1> USE DEF P
<1> QED
  BY <1>2 DEF ChannelInv, EmptyGraph, Fulls, Deltas

LEMMA NextChannel == ChannelInv /\ [Next]_vars => ChannelInv'
<1> SUFFICES ASSUME ChannelInv, [Next]_vars PROVE ChannelInv'
  OBVIOUS
<1>1. ASSUME NEW next \in Graphs, SendFull(next) PROVE ChannelInv'
  <2> DEFINE m == [kind |-> "full", outcome |-> Decode(Encode(next)), of |-> next]
  <2>1. m \in Fulls
    BY DEF Fulls
  <2>2. graph' = next /\ channel' = Append(channel, m)
    BY <1>1 DEF SendFull, Send
  <2> HIDE DEF m
  <2> QED
    BY <2>1, <2>2, SendKeepsChannel
<1>2. ASSUME NEW next \in Graphs, SendDelta(next) PROVE ChannelInv'
  <2> DEFINE m == [kind |-> "delta", delta |-> DeltaOnWire(Diff(graph, next)), of |-> next]
  <2>0. graph \in Graphs \cup {EmptyGraph}
    BY DEF ChannelInv
  <2>1. m \in Deltas
    BY <2>0 DEF Deltas
  <2>2. graph' = next /\ channel' = Append(channel, m)
    BY <1>2 DEF SendDelta, Send
  <2> HIDE DEF m
  <2> QED
    BY <2>1, <2>2, SendKeepsChannel
<1>3. ASSUME Deliver PROVE ChannelInv'
  BY <1>3, FaultKeepsChannel DEF Deliver
<1>4. ASSUME DeliverCopy PROVE ChannelInv'
  BY <1>4, FaultKeepsChannel DEF DeliverCopy, Fault
<1>5. ASSUME NEW k \in DOMAIN channel, Lose(k) PROVE ChannelInv'
  BY <1>5, FaultKeepsChannel DEF Lose, Fault
<1>6. ASSUME NEW k \in DOMAIN channel, Overtake(k) PROVE ChannelInv'
  BY <1>6, FaultKeepsChannel DEF Overtake, Fault
<1>7. ASSUME UNCHANGED vars PROVE ChannelInv'
  BY <1>7, FaultKeepsChannel DEF vars
<1> QED
  BY <1>1, <1>2, <1>3, <1>4, <1>5, <1>6, <1>7 DEF Next

-----------------------------------------------------------------------------
(* What a payload can make of the graph held.                              *)

\* A delta that VerifyDelta applies gives a graph with the root in the delta.
LEMMA AppliedHasRoot ==
    ASSUME NEW base, NEW d, NEW r \in VerifyDelta(base, d), r.ok
    PROVE  RootOf(r.graph) = d.newRoot
<1>1. ~Refused.ok
  BY DEF Refused
<1>2. PICK symbols, edges : r = Result(symbols, edges) /\ PackRoot(symbols, edges) = d.newRoot
  BY <1>1, SMTT(30) DEF VerifyDelta
<1>3. r.graph.symbols = symbols /\ r.graph.edges = edges
  BY <1>2 DEF Result
<1> QED
  BY <1>2, <1>3, Zenon DEF RootOf

\* Neither Diff nor the wire changes the root.
LEMMA DeltaHasRoot ==
    ASSUME NEW b, NEW g
    PROVE  DeltaOnWire(Diff(b, g)).newRoot = RootOf(g)
<1>1. Diff(b, g).newRoot = RootOf(g)
  BY DEF Diff
<1>2. "newRoot" \in DOMAIN Diff(b, g)
  BY DEF Diff
<1>3. DeltaOnWire(Diff(b, g)).newRoot = Diff(b, g).newRoot
  BY <1>2 DEF DeltaOnWire
<1> QED
  BY <1>1, <1>3

\* What one payload is applied as.
LEMMA OutcomeIsWhole ==
    ASSUME NEW m \in Fulls \cup Deltas, NEW r \in Outcomes(m), r.ok
    PROVE  \/ RootOf(r.graph) = RootOf(m.of)
           \/ Content(r.graph) = Told(m.of)
<1>1. CASE m \in Fulls
  <2>1. PICK g \in Graphs : m = [kind |-> "full", outcome |-> Decode(Encode(g)), of |-> g]
    BY <1>1 DEF Fulls
  <2>2. m.kind = "full" /\ m.outcome = Decode(Encode(g)) /\ m.of = g
    BY <2>1
  <2>3. r = Decode(Encode(g))
    BY <2>2 DEF Outcomes
  <2> QED
    BY <2>2, <2>3, FullsRead DEF ReadAs
<1>2. CASE m \in Deltas
  <2>1. PICK b \in Graphs \cup {EmptyGraph}, g \in Graphs :
            m = [kind |-> "delta", delta |-> DeltaOnWire(Diff(b, g)), of |-> g]
    BY <1>2 DEF Deltas
  <2>2. m.kind = "delta" /\ m.delta = DeltaOnWire(Diff(b, g)) /\ m.of = g
    BY <2>1
  <2>3. r \in VerifyDelta(held, DeltaOnWire(Diff(b, g)))
    BY <2>2 DEF Outcomes
  <2>4. RootOf(r.graph) = DeltaOnWire(Diff(b, g)).newRoot
    BY <2>3, AppliedHasRoot
  <2> QED
    BY <2>2, <2>4, DeltaHasRoot
<1> QED
  BY <1>1, <1>2

\* What a step does to the graph held.
WholeStep ==
    \/ held' = held
    \/ \E k \in DOMAIN channel :
          \/ RootOf(held') = RootOf(channel[k].of)
          \/ Content(held') = Told(channel[k].of)

LEMMA ReceiveWhole ==
    ASSUME ChannelInv, NEW k \in DOMAIN channel, Receive(k)
    PROVE  WholeStep
<1>1. PICK r \in Outcomes(channel[k]) : IF r.ok THEN held' = r.graph ELSE held' = held
  BY DEF Receive
<1>2. CASE r.ok
  <2>1. channel[k] \in Fulls \cup Deltas
    BY DEF ChannelInv
  <2>2. \/ RootOf(r.graph) = RootOf(channel[k].of)
        \/ Content(r.graph) = Told(channel[k].of)
    BY <1>2, <2>1, OutcomeIsWhole
  <2>3. held' = r.graph
    BY <1>1, <1>2
  <2> QED
    BY <2>2, <2>3, Zenon DEF WholeStep
<1> QED
  BY <1>1, <1>2 DEF WholeStep

LEMMA NextWhole == ChannelInv /\ [Next]_vars => WholeStep
<1> SUFFICES ASSUME ChannelInv, [Next]_vars PROVE WholeStep
  OBVIOUS
<1>1. channel # << >> => 1 \in DOMAIN channel
  BY DEF ChannelInv
<1>2. ASSUME NEW next \in Graphs, SendFull(next) \/ SendDelta(next) PROVE WholeStep
  BY <1>2 DEF SendFull, SendDelta, Send, WholeStep
<1>3. ASSUME Deliver PROVE WholeStep
  BY <1>1, <1>3, ReceiveWhole DEF Deliver
<1>4. ASSUME DeliverCopy PROVE WholeStep
  BY <1>1, <1>4, ReceiveWhole DEF DeliverCopy
<1>5. ASSUME NEW k \in DOMAIN channel, Lose(k) PROVE WholeStep
  BY <1>5 DEF Lose, WholeStep
<1>6. ASSUME NEW k \in DOMAIN channel, Overtake(k) PROVE WholeStep
  BY <1>6, ReceiveWhole DEF Overtake
<1>7. ASSUME UNCHANGED vars PROVE WholeStep
  BY <1>7 DEF vars, WholeStep
<1> QED
  BY <1>2, <1>3, <1>4, <1>5, <1>6, <1>7 DEF Next

-----------------------------------------------------------------------------
(* The types.                                                              *)

HasFields(g) == DOMAIN g = {"symbols", "edges"}

LEMMA ResultIsGraph ==
    ASSUME NEW symbols, NEW edges
    PROVE  HasFields(Result(symbols, edges).graph)
BY DEF Result, HasFields

LEMMA OutcomeIsGraph ==
    ASSUME NEW m \in Fulls \cup Deltas, NEW r \in Outcomes(m), r.ok
    PROVE  HasFields(r.graph)
<1>1. ~Refused.ok
  BY DEF Refused
<1>2. CASE m \in Fulls
  <2>1. PICK g \in Graphs : m = [kind |-> "full", outcome |-> Decode(Encode(g)), of |-> g]
    BY <1>2 DEF Fulls
  <2>2. m.kind = "full" /\ m.outcome = Decode(Encode(g))
    BY <2>1
  <2>3. PICK s : r = OutcomeOf(s)
    BY <2>2 DEF Outcomes, Decode
  <2>4. PICK symbols, edges : r = Result(symbols, edges)
    BY <1>1, <2>3 DEF OutcomeOf
  <2> QED
    BY <2>4, ResultIsGraph
<1>3. CASE m \in Deltas
  <2>1. m.kind = "delta"
    BY <1>3 DEF Deltas
  <2>2. r \in VerifyDelta(held, m.delta)
    BY <2>1 DEF Outcomes
  <2>3. PICK symbols, edges : r = Result(symbols, edges)
    BY <1>1, <2>2, SMTT(30) DEF VerifyDelta
  <2> QED
    BY <2>3, ResultIsGraph
<1> QED
  BY <1>2, <1>3

\* What an application and its channel keep besides ChannelInv.
KeepsTypes ==
    /\ Len(channel) <= MaxInFlight
    /\ HasFields(held)
    /\ status \in {"none", "applied", "refused"}
    /\ faults \in 0 .. MaxFaults

LEMMA ReceiveKeepsTypes ==
    ASSUME ChannelInv, KeepsTypes, NEW k \in DOMAIN channel, Receive(k)
    PROVE  HasFields(held') /\ status' \in {"none", "applied", "refused"}
<1>1. PICK r \in Outcomes(channel[k]) :
          IF r.ok THEN held' = r.graph /\ status' = "applied"
                  ELSE held' = held /\ status' = "refused"
  BY DEF Receive
<1>2. channel[k] \in Fulls \cup Deltas
  BY DEF ChannelInv
<1>3. r.ok => HasFields(r.graph)
  BY <1>2, OutcomeIsGraph
<1> QED
  BY <1>1, <1>3 DEF KeepsTypes

LEMMA NextTypes == ChannelInv /\ KeepsTypes /\ [Next]_vars => KeepsTypes'
<1> SUFFICES ASSUME ChannelInv, KeepsTypes, [Next]_vars PROVE KeepsTypes'
  OBVIOUS
<1>1. /\ channel \in Seq(Fulls \cup Deltas)
      /\ MaxInFlight \in Nat /\ MaxFaults \in Nat
  BY FeedAssumption DEF ChannelInv
<1>2. Len(channel) \in Nat /\ (channel # << >> => 1 \in DOMAIN channel)
  BY <1>1
<1> HIDE DEF ChannelInv
<1>3. ASSUME NEW k \in DOMAIN channel PROVE Len(Without(k)) <= Len(channel)
  <2>1. Len(channel) - 1 \in Nat
    BY <1>1
  <2>2. Len(Without(k)) = Len(channel) - 1
    BY <2>1 DEF Without
  <2> QED
    BY <1>2, <2>2
<1>4. ASSUME NEW next \in Graphs, SendFull(next) \/ SendDelta(next) PROVE KeepsTypes'
  <2>1. PICK m : channel' = Append(channel, m) /\ Len(channel) < MaxInFlight
    BY <1>4 DEF SendFull, SendDelta, Send
  <2>2. Len(channel') = Len(channel) + 1
    BY <1>1, <2>1
  <2>3. UNCHANGED <<held, status, faults>>
    BY <1>4 DEF SendFull, SendDelta, Send
  <2> QED
    BY <1>1, <1>2, <2>1, <2>2, <2>3 DEF KeepsTypes, HasFields
<1>5. ASSUME Deliver PROVE KeepsTypes'
  <2>1. Len(channel') <= MaxInFlight
    BY <1>1, <1>2, <1>5 DEF Deliver, KeepsTypes
  <2> QED
    BY <1>2, <1>5, <2>1, ReceiveKeepsTypes DEF Deliver, KeepsTypes, HasFields
<1>6. ASSUME Fault PROVE faults' \in 0 .. MaxFaults
  BY <1>1, <1>6 DEF Fault, KeepsTypes
<1>7. ASSUME DeliverCopy PROVE KeepsTypes'
  BY <1>2, <1>6, <1>7, ReceiveKeepsTypes DEF DeliverCopy, KeepsTypes, HasFields
<1>8. ASSUME NEW k \in DOMAIN channel, channel' = Without(k) PROVE Len(channel') <= MaxInFlight
  BY <1>1, <1>2, <1>3, <1>8 DEF KeepsTypes
<1>9. ASSUME NEW k \in DOMAIN channel, Lose(k) PROVE KeepsTypes'
  <2>1. Len(channel') <= MaxInFlight /\ faults' \in 0 .. MaxFaults /\ UNCHANGED <<held, status>>
    BY <1>6, <1>8, <1>9 DEF Lose
  <2> QED
    BY <2>1 DEF KeepsTypes, HasFields
<1>10. ASSUME NEW k \in DOMAIN channel, Overtake(k) PROVE KeepsTypes'
  <2>1. Len(channel') <= MaxInFlight /\ faults' \in 0 .. MaxFaults
    BY <1>6, <1>8, <1>10 DEF Overtake
  <2>2. HasFields(held') /\ status' \in {"none", "applied", "refused"}
    BY <1>10, ReceiveKeepsTypes DEF Overtake
  <2> QED
    BY <2>1, <2>2 DEF KeepsTypes, HasFields
<1>11. ASSUME UNCHANGED vars PROVE KeepsTypes'
  BY <1>11 DEF vars, KeepsTypes, HasFields
<1> QED
  BY <1>4, <1>5, <1>7, <1>9, <1>10, <1>11 DEF Next

LEMMA InitTypes == Init => KeepsTypes
BY FeedAssumption DEF Init, KeepsTypes, HasFields, EmptyGraph

LEMMA TypesFromInvariants == ChannelInv /\ KeepsTypes => TypeOK
<1> SUFFICES ASSUME ChannelInv, KeepsTypes PROVE TypeOK
  OBVIOUS
<1>1. ASSUME NEW m \in Fulls \cup Deltas PROVE m.kind \in {"full", "delta"} /\ m.of \in Graphs
  BY <1>1 DEF Fulls, Deltas
<1>2. \A k \in DOMAIN channel : channel[k] \in Fulls \cup Deltas
  BY DEF ChannelInv
<1> QED
  BY <1>1, <1>2 DEF TypeOK, KeepsTypes, ChannelInv, HasFields

-----------------------------------------------------------------------------

\* Every payload in the channel is one that a producer made, whatever the
\* channel did to it.
THEOREM ChannelCorrect == Spec => []ChannelInv
<1> QED
  BY InitChannel, NextChannel, PTL DEF Spec

\* The types of GraphFeed's variables.
THEOREM TypeCorrect == Spec => []TypeOK
<1>1. ChannelInv /\ KeepsTypes /\ [Next]_vars => (ChannelInv /\ KeepsTypes)'
  BY NextChannel, NextTypes
<1> QED
  BY <1>1, InitChannel, InitTypes, TypesFromInvariants, PTL DEF Spec

\* Decode gives back what Encode was given, as the wire can tell it: the bag of
\* symbols and the bag of edges between symbols, nearest and highest first
\* (gcf.go:125-212, decode.go:58-167).
THEOREM FullsReadBack == Spec => []FullReadsBack
<1>1. ChannelInv => FullReadsBack
  BY SentAreGraphs, GraphReadsBack DEF ChannelInv, FullReadsBack
<1> QED
  BY <1>1, ChannelCorrect, PTL

\* Whatever is lost, doubled or overtaken, the consumer goes from one graph the
\* producer sent to another (packroot.go:132-136).
THEOREM WholeOnly == Spec => AppliesWhole
<1>1. ChannelInv /\ [Next]_vars => [WholeStep]_vars
  BY NextWhole
<1>2. [][WholeStep]_vars <=> AppliesWhole
  BY DEF WholeStep, AppliesWhole
<1> QED
  BY <1>1, <1>2, ChannelCorrect, PTL DEF Spec

-----------------------------------------------------------------------------
(* The delta between two graphs.                                           *)

\* The delta from b to g, as its reader has it.
Between(b, g) == DeltaOnWire(Diff(b, g))

\* The items of a that b lacks, as Diff lists them.
Only(a, b) == SetToSeq(Range(a) \ Range(b))

LEMMA OnlyItems ==
    ASSUME NEW a, NEW b, IsFiniteSet(Range(a))
    PROVE  /\ Only(a, b) \in Seq(Range(a) \ Range(b))
           /\ IsInjective(Only(a, b))
           /\ Range(Only(a, b)) = Range(a) \ Range(b)
<1> DEFINE S == Range(a) \ Range(b)
<1>1. IsFiniteSet(S)
  BY FS_Difference
<1>2. Only(a, b) = SetToSeq(S)
  BY DEF Only
<1> HIDE DEF S
<1>3. Only(a, b) \in Seq(S) /\ IsInjective(Only(a, b)) /\ Range(Only(a, b)) = S
  BY <1>1, <1>2, SequencesOfSet
<1> QED
  BY <1>3 DEF S

LEMMA DeltaParts ==
    ASSUME NEW b, NEW g
    PROVE  /\ DOMAIN Between(b, g).removed = DOMAIN Only(b.symbols, g.symbols)
           /\ \A i \in DOMAIN Only(b.symbols, g.symbols) :
                 Between(b, g).removed[i] = RemovalOnWire(Only(b.symbols, g.symbols)[i])
           /\ Between(b, g).added \in
                 [DOMAIN Only(g.symbols, b.symbols) -> Range(Between(b, g).added)]
           /\ \A i \in DOMAIN Only(g.symbols, b.symbols) :
                 Between(b, g).added[i] = OnWire(Only(g.symbols, b.symbols)[i])
           /\ Between(b, g).removedEdges = Only(b.edges, g.edges)
           /\ Between(b, g).addedEdges = Only(g.edges, b.edges)
           /\ Between(b, g).newRoot = RootOf(g)
<1> DEFINE gone == Only(b.symbols, g.symbols)
           new == Only(g.symbols, b.symbols)
           d == Diff(b, g)
<1>1. /\ DOMAIN d = {"removed", "added", "removedEdges", "addedEdges", "newRoot"}
      /\ d.removed = gone /\ d.added = new
      /\ d.removedEdges = Only(b.edges, g.edges)
      /\ d.addedEdges = Only(g.edges, b.edges)
      /\ d.newRoot = RootOf(g)
  BY DEF Diff, Only
<1> HIDE DEF d, gone, new
<1>2. /\ DeltaOnWire(d).removed = [i \in DOMAIN gone |-> RemovalOnWire(gone[i])]
      /\ DeltaOnWire(d).added = [i \in DOMAIN new |-> OnWire(new[i])]
      /\ DeltaOnWire(d).removedEdges = d.removedEdges
      /\ DeltaOnWire(d).addedEdges = d.addedEdges
      /\ DeltaOnWire(d).newRoot = d.newRoot
  BY <1>1 DEF DeltaOnWire
<1>3. /\ DOMAIN DeltaOnWire(d).removed = DOMAIN gone
      /\ \A i \in DOMAIN gone : DeltaOnWire(d).removed[i] = RemovalOnWire(gone[i])
  BY <1>2
<1>4. /\ DeltaOnWire(d).added \in [DOMAIN new -> Range(DeltaOnWire(d).added)]
      /\ \A i \in DOMAIN new : DeltaOnWire(d).added[i] = OnWire(new[i])
  BY <1>2 DEF Range
<1> QED
  BY <1>1, <1>2, <1>3, <1>4 DEF Between, d, gone, new

\* What VerifyDelta returns.
LEMMA Outcome ==
    ASSUME NEW h, NEW d, NEW r \in VerifyDelta(h, d)
    PROVE  \/ r = Refused
           \/ \E symbols \in SetToSeqs(Changed(MapOf(h.symbols), d.removed, d.added)),
                 edges \in SetToSeqs(Changed(MapOf(h.edges), d.removedEdges, d.addedEdges)) :
                 /\ PackRoot(symbols, edges) = d.newRoot
                 /\ r = Result(symbols, edges)
BY DEF VerifyDelta

\* Whatever base it meets, a result is a graph as the wire tells graphs.
LEMMA AppliedIsWire ==
    ASSUME NEW b, IsGraph(b), NEW g, IsGraph(g), NEW h, IsWireGraph(h),
           NEW r \in VerifyDelta(h, Between(b, g)), r.ok
    PROVE  IsWireGraph(r.graph)
<1> DEFINE w == Between(b, g)
           new == Only(g.symbols, b.symbols)
           someSymbols == Changed(MapOf(h.symbols), w.removed, w.added)
           someEdges == Changed(MapOf(h.edges), w.removedEdges, w.addedEdges)
<1>1. PICK symbols \in SetToSeqs(someSymbols), edges \in SetToSeqs(someEdges) :
          r = Result(symbols, edges)
  <2>1. ~Refused.ok
    BY DEF Refused
  <2> HIDE DEF w
  <2> QED
    BY <2>1, Outcome DEF w
<1>2. /\ h.symbols \in Seq(Range(h.symbols)) /\ h.edges \in Seq(Range(h.edges))
      /\ \A s \in Range(h.symbols) : IsSymbol(s) /\ HasWireKind(s)
      /\ \A e \in Range(h.edges) : IsEdge(e)
  BY DEF IsWireGraph, IsGraph
<1>3. /\ \A s \in Range(g.symbols) : IsSymbol(s)
      /\ \A e \in Range(g.edges) : IsEdge(e)
      /\ IsFiniteSet(Range(g.symbols)) /\ IsFiniteSet(Range(g.edges))
  BY SeqFinite DEF IsGraph
<1>4. new \in Seq(Range(g.symbols) \ Range(b.symbols))
  BY <1>3, OnlyItems
<1>5. /\ w.added \in [DOMAIN new -> Range(w.added)]
      /\ \A i \in DOMAIN new : w.added[i] = OnWire(new[i])
  BY DeltaParts
<1>6. w.added \in Seq(Range(w.added)) /\ \A s \in Range(w.added) : IsSymbol(s) /\ HasWireKind(s)
  <2> HIDE DEF new, w
  <2>1. DOMAIN w.added = 1 .. Len(new) /\ Len(new) \in Nat
    BY <1>4, <1>5
  <2>2. w.added \in [1 .. Len(new) -> Range(w.added)]
    BY <1>5, <2>1
  <2>3. ASSUME NEW i \in 1 .. Len(new)
        PROVE  IsSymbol(w.added[i]) /\ HasWireKind(w.added[i])
    <3>1. IsSymbol(new[i])
      BY <1>3, <1>4, <2>1
    <3> QED
      BY <1>5, <2>1, <3>1, SymbolOnWire
  <2>4. w.added \in Seq(Range(w.added))
    BY <2>1, <2>2
  <2>5. \A s \in Range(w.added) : IsSymbol(s) /\ HasWireKind(s)
    BY <2>1, <2>3 DEF Range
  <2> QED
    BY <2>4, <2>5
<1>7. w.addedEdges \in Seq(Range(g.edges) \ Range(b.edges))
  BY <1>3, DeltaParts, OnlyItems
<1> HIDE DEF w, new
<1>8. /\ IsFiniteSet(someSymbols) /\ someSymbols \subseteq Range(h.symbols) \cup Range(w.added)
      /\ IsFiniteSet(someEdges) /\ someEdges \subseteq Range(h.edges) \cup Range(w.addedEdges)
  BY <1>2, <1>6, <1>7, ChangedItems
<1>9. /\ \A s \in someSymbols : IsSymbol(s) /\ HasWireKind(s)
      /\ \A e \in someEdges : IsEdge(e)
  <2>1. Range(w.addedEdges) \subseteq Range(g.edges)
    BY <1>7, SeqFinite
  <2> QED
    BY <1>2, <1>3, <1>6, <1>8, <2>1
<1> HIDE DEF someSymbols, someEdges
<1>10. /\ symbols \in Seq(someSymbols) /\ Range(symbols) = someSymbols
       /\ edges \in Seq(someEdges) /\ Range(edges) = someEdges
  BY <1>1, <1>8, SequencesOfSet
<1>11. r.graph = [symbols |-> symbols, edges |-> edges]
  BY <1>1 DEF Result
<1>12. r.graph.symbols = symbols /\ r.graph.edges = edges
  BY <1>11
<1> QED
  BY <1>9, <1>10, <1>11, <1>12 DEF IsWireGraph, IsGraph

\* Between faithful graphs every outcome is the next one, whatever order the maps
\* give the base and the result.
LEMMA DeltaFits ==
    ASSUME NEW b, IsGraph(b), Faithful(b), NEW g, IsGraph(g), Faithful(g),
           NEW h, IsGraph(h), Content(h) = Content(b)
    PROVE  /\ VerifyDelta(h, Between(b, g)) # {}
           /\ \A r \in VerifyDelta(h, Between(b, g)) : r.ok /\ Content(r.graph) = Content(g)
<1> DEFINE w == Between(b, g)
           gone == Only(b.symbols, g.symbols)
           new == Only(g.symbols, b.symbols)
<1>1. /\ DistinctKeys(b.symbols) /\ DistinctKeys(b.edges)
      /\ DistinctKeys(g.symbols) /\ DistinctKeys(g.edges)
      /\ \A s \in Range(b.symbols) \cup Range(g.symbols) : IsSymbol(s) /\ OnWire(s) = s
      /\ \A e \in Range(b.edges) \cup Range(g.edges) : IsEdge(e)
  BY DEF Faithful, IsGraph, Range
<1>2. /\ IsFiniteSet(Range(b.symbols)) /\ IsFiniteSet(Range(b.edges))
      /\ IsFiniteSet(Range(g.symbols)) /\ IsFiniteSet(Range(g.edges))
      /\ IsFiniteSet(DOMAIN h.symbols) /\ IsFiniteSet(DOMAIN h.edges)
  BY SeqFinite DEF IsGraph
<1>3. Range(h.symbols) = Range(b.symbols) /\ Range(h.edges) = Range(b.edges)
  <2>1. ToBag(h.symbols) = ToBag(b.symbols) /\ ToBag(h.edges) = ToBag(b.edges)
    BY DEF Content
  <2> QED
    BY <1>1, <1>2, <2>1, DistinctIsInjective, OneBagSameItems
<1>4. /\ h.symbols \in Seq(Range(h.symbols)) /\ h.edges \in Seq(Range(h.edges))
  BY DEF IsGraph
<1>5. /\ Fits(MapOf(h.symbols), w.removed, w.added)
      /\ Changed(MapOf(h.symbols), w.removed, w.added) = Range(g.symbols)
  <2>1. /\ IsInjective(gone) /\ Range(gone) = Range(b.symbols) \ Range(g.symbols)
        /\ IsInjective(new) /\ Range(new) = Range(g.symbols) \ Range(b.symbols)
        /\ new \in Seq(Range(g.symbols) \ Range(b.symbols))
    BY <1>2, OnlyItems
  <2>2. /\ DOMAIN w.removed = DOMAIN gone
        /\ \A i \in DOMAIN gone : w.removed[i] = RemovalOnWire(gone[i])
        /\ w.added \in [DOMAIN new -> Range(w.added)]
        /\ \A i \in DOMAIN new : w.added[i] = OnWire(new[i])
    BY DeltaParts
  <2> HIDE DEF gone, new, w
  <2>3. w.added = new
    <3>1. \A i \in DOMAIN new : OnWire(new[i]) = new[i]
      BY <1>1, <2>1 DEF Range
    <3> QED
      BY <2>1, <2>2, <3>1
  <2>5. DistinctKeys(gone) /\ DistinctKeys(w.added)
    BY <1>1, <2>1, <2>3, InjectiveKeys
  <2>6. DOMAIN w.removed = DOMAIN gone /\ \A i \in DOMAIN gone : KeyOf(w.removed[i]) = KeyOf(gone[i])
    <3>1. ASSUME NEW i \in DOMAIN gone PROVE KeyOf(RemovalOnWire(gone[i])) = KeyOf(gone[i])
      <4>1. gone[i] \in Range(b.symbols)
        BY <2>1 DEF Range
      <4>2. IsSymbol(gone[i]) /\ OnWire(gone[i]) = gone[i]
        BY <1>1, <4>1
      <4>3. expandKind(Abbrev(gone[i].kind)) = gone[i].kind
        BY <4>2, SymbolOnWire DEF HasWireKind
      <4> QED
        BY <4>2, <4>3, SymbolOnWire
    <3> QED
      BY <2>2, <3>1
  <2>7. DistinctKeys(w.removed)
    BY <2>5, <2>6 DEF DistinctKeys
  <2>8. KeysOf(w.removed) = {KeyOf(x) : x \in Range(b.symbols) \ Range(g.symbols)}
    <3>1. KeysOf(w.removed) = KeysOf(gone)
      BY <2>6 DEF KeysOf
    <3> QED
      BY <2>1, <3>1, KeysOfRange
  <2>9. Range(w.added) = Range(g.symbols) \ Range(b.symbols)
    BY <2>1, <2>3
  <2> QED
    BY <1>1, <1>3, <1>4, <2>5, <2>7, <2>8, <2>9, ChangeFits
<1>6. /\ Fits(MapOf(h.edges), w.removedEdges, w.addedEdges)
      /\ Changed(MapOf(h.edges), w.removedEdges, w.addedEdges) = Range(g.edges)
  <2>1. w.removedEdges = Only(b.edges, g.edges) /\ w.addedEdges = Only(g.edges, b.edges)
    BY DeltaParts
  <2> HIDE DEF w
  <2>2. /\ IsInjective(w.removedEdges) /\ Range(w.removedEdges) = Range(b.edges) \ Range(g.edges)
        /\ IsInjective(w.addedEdges) /\ Range(w.addedEdges) = Range(g.edges) \ Range(b.edges)
    <3>1. /\ IsInjective(Only(b.edges, g.edges))
          /\ Range(Only(b.edges, g.edges)) = Range(b.edges) \ Range(g.edges)
      BY <1>2, OnlyItems
    <3>2. /\ IsInjective(Only(g.edges, b.edges))
          /\ Range(Only(g.edges, b.edges)) = Range(g.edges) \ Range(b.edges)
      BY <1>2, OnlyItems
    <3> QED
      BY <2>1, <3>1, <3>2
  <2>3. DistinctKeys(w.removedEdges) /\ DistinctKeys(w.addedEdges)
    BY <1>1, <2>2, InjectiveKeys
  <2>4. KeysOf(w.removedEdges) = {KeyOf(x) : x \in Range(b.edges) \ Range(g.edges)}
    BY <2>2, KeysOfRange
  <2> QED
    BY <1>1, <1>3, <1>4, <2>2, <2>3, <2>4, ChangeFits
<1>7. w.newRoot = RootOf(g)
  BY DeltaParts
<1> HIDE DEF w
<1>8. VerifyDelta(h, w) = { IF PackRoot(symbols, edges) = RootOf(g)
                            THEN Result(symbols, edges) ELSE Refused :
                              symbols \in SetToSeqs(Range(g.symbols)),
                              edges \in SetToSeqs(Range(g.edges)) }
  BY <1>5, <1>6, <1>7 DEF VerifyDelta
<1>9. SetToSeqs(Range(g.symbols)) # {} /\ SetToSeqs(Range(g.edges)) # {}
  BY <1>2, SequencesOfSet
<1>10. ASSUME NEW symbols \in SetToSeqs(Range(g.symbols)), NEW edges \in SetToSeqs(Range(g.edges))
       PROVE  /\ PackRoot(symbols, edges) = RootOf(g)
              /\ Result(symbols, edges).ok
              /\ Content(Result(symbols, edges).graph) = Content(g)
  <2>1. /\ symbols \in Seq(Range(g.symbols)) /\ IsInjective(symbols) /\ Range(symbols) = Range(g.symbols)
        /\ edges \in Seq(Range(g.edges)) /\ IsInjective(edges) /\ Range(edges) = Range(g.edges)
    BY <1>2, SequencesOfSet
  <2>2. PackRoot(symbols, edges) = RootOf(g)
    BY <2>1, OrderKeepsRoot
  <2>3. ToBag(symbols) = ToBag(g.symbols) /\ ToBag(edges) = ToBag(g.edges)
    BY <1>1, <2>1, DistinctIsInjective, SameItemsOneBag
  <2>4. /\ Result(symbols, edges).ok
        /\ Result(symbols, edges).graph.symbols = symbols
        /\ Result(symbols, edges).graph.edges = edges
    BY DEF Result
  <2> QED
    BY <2>2, <2>3, <2>4 DEF Content
<1>11. VerifyDelta(h, w) # {}
  <2>1. PICK symbols \in SetToSeqs(Range(g.symbols)), edges \in SetToSeqs(Range(g.edges)) : TRUE
    BY <1>9
  <2>2. (IF PackRoot(symbols, edges) = RootOf(g) THEN Result(symbols, edges) ELSE Refused)
          \in VerifyDelta(h, w)
    BY <1>8
  <2> QED
    BY <2>2
<1>12. \A r \in VerifyDelta(h, w) : r.ok /\ Content(r.graph) = Content(g)
  BY <1>8, <1>10
<1> QED
  BY <1>11, <1>12 DEF w

-----------------------------------------------------------------------------
(* What graphs full payloads give.                                         *)

\* A graph that has been read from a full payload is as the wire tells graphs.
LEMMA ToldIsWire ==
    ASSUME NEW g, IsGraph(g), NEW r, ReadAs(r, g)
    PROVE  IsWireGraph(r.graph)
<1> DEFINE p == [i \in DOMAIN g.symbols |-> OnWire(g.symbols[i])]
           s == r.graph.symbols
<1>1. IsGraph(r.graph) /\ Content(r.graph) = Told(g)
  BY DEF ReadAs
<1>2. ToBag(s) = ToBag(p)
  BY <1>1 DEF Content, Told
<1>3. \A i \in DOMAIN g.symbols : HasWireKind(OnWire(g.symbols[i]))
  BY SymbolOnWire DEF IsGraph, Range
<1>4. \A x \in Range(p) : HasWireKind(x)
  BY <1>3 DEF Range
<1> HIDE DEF p, s
<1>5. DOMAIN ToBag(s) = Range(s) /\ DOMAIN ToBag(p) = Range(p)
  BY DEF ToBag
<1>6. \A x \in Range(s) : HasWireKind(x)
  BY <1>2, <1>4, <1>5
<1> QED
  BY <1>1, <1>6 DEF IsWireGraph, s

LEMMA EmptyIsWire == IsWireGraph(EmptyGraph)
BY SentAreGraphs DEF IsWireGraph, EmptyGraph, Range

LEMMA OutcomeIsWire ==
    ASSUME IsWireGraph(held), NEW m \in Fulls \cup Deltas, NEW r \in Outcomes(m), r.ok
    PROVE  IsWireGraph(r.graph)
<1>1. CASE m \in Fulls
  <2>1. PICK g \in Graphs : m = [kind |-> "full", outcome |-> Decode(Encode(g)), of |-> g]
    BY <1>1 DEF Fulls
  <2>2. m.kind = "full" /\ m.outcome = Decode(Encode(g))
    BY <2>1
  <2>3. r = Decode(Encode(g))
    BY <2>2 DEF Outcomes
  <2>4. ReadAs(r, g)
    BY <2>3, FullsRead
  <2> QED
    BY <2>4, SentAreGraphs, ToldIsWire
<1>2. CASE m \in Deltas
  <2>1. PICK b \in Graphs \cup {EmptyGraph}, g \in Graphs :
            m = [kind |-> "delta", delta |-> Between(b, g), of |-> g]
    BY <1>2 DEF Deltas, Between
  <2>2. m.kind = "delta" /\ m.delta = Between(b, g)
    BY <2>1
  <2>3. r \in VerifyDelta(held, Between(b, g))
    BY <2>2 DEF Outcomes
  <2> QED
    BY <2>3, SentAreGraphs, AppliedIsWire
<1> QED
  BY <1>1, <1>2

-----------------------------------------------------------------------------
(* With nothing missing, the last payload tells the producer's graph.      *)

SyncInv ==
    /\ IsWireGraph(held)
    /\ ~missing =>
         /\ channel # << >> => channel[Len(channel)].of = graph
         /\ channel = << >> /\ status = "applied" =>
              RootOf(held) = RootOf(graph) \/ Content(held) = Told(graph)

LEMMA InitSync == Init => SyncInv
BY EmptyIsWire DEF Init, SyncInv

LEMMA ReceiveWire ==
    ASSUME ChannelInv, SyncInv, NEW k \in DOMAIN channel, Receive(k)
    PROVE  /\ IsWireGraph(held')
           /\ status' = "applied" => \/ RootOf(held') = RootOf(channel[k].of)
                                     \/ Content(held') = Told(channel[k].of)
<1>1. channel[k] \in Fulls \cup Deltas
  BY DEF ChannelInv
<1>2. PICK r \in Outcomes(channel[k]) :
          IF r.ok THEN held' = r.graph /\ status' = "applied"
                  ELSE held' = held /\ status' = "refused"
  BY DEF Receive
<1>3. CASE r.ok
  <2>1. IsWireGraph(r.graph)
    BY <1>1, <1>3, OutcomeIsWire DEF SyncInv
  <2>2. RootOf(r.graph) = RootOf(channel[k].of) \/ Content(r.graph) = Told(channel[k].of)
    BY <1>1, <1>3, OutcomeIsWhole
  <2>3. held' = r.graph
    BY <1>2, <1>3
  <2> QED
    BY <2>1, <2>2, <2>3
<1>4. CASE ~r.ok
  BY <1>2, <1>4 DEF SyncInv
<1> QED
  BY <1>3, <1>4

\* A payload that goes missing before a later full leaves the last one.
LEMMA LastStays ==
    ASSUME ChannelInv, NEW k \in DOMAIN channel, ~AfterLastFull(k)
    PROVE  Without(k) # << >> /\ Without(k)[Len(Without(k))] = channel[Len(channel)]
<1>1. Len(channel) \in Nat /\ k \in 1 .. Len(channel)
  BY DEF ChannelInv
<1>2. k < Len(channel)
  <2>1. PICK i \in k + 1 .. Len(channel) : channel[i].kind # "delta"
    BY DEF AfterLastFull
  <2> QED
    BY <1>1, <2>1
<1>3. /\ DOMAIN Without(k) = 1 .. Len(channel) - 1
      /\ Len(Without(k)) = Len(channel) - 1
      /\ Without(k)[Len(channel) - 1] = channel[Len(channel)]
  <2>1. Len(channel) - 1 \in Nat /\ Len(channel) - 1 \in 1 .. Len(channel) - 1
    BY <1>1, <1>2
  <2>2. Without(k)[Len(channel) - 1] =
          channel[IF Len(channel) - 1 < k THEN Len(channel) - 1 ELSE Len(channel) - 1 + 1]
    BY <2>1 DEF Without
  <2>3. ~(Len(channel) - 1 < k) /\ Len(channel) - 1 + 1 = Len(channel)
    BY <1>1, <1>2
  <2>4. DOMAIN Without(k) = 1 .. Len(channel) - 1 /\ Len(Without(k)) = Len(channel) - 1
    BY <2>1 DEF Without
  <2> QED
    BY <2>2, <2>3, <2>4
<1>4. Len(channel) - 1 \in DOMAIN Without(k)
  BY <1>1, <1>2, <1>3
<1> QED
  BY <1>3, <1>4

LEMMA NextSync == ChannelInv /\ SyncInv /\ [Next]_vars => SyncInv'
<1> SUFFICES ASSUME ChannelInv, SyncInv, [Next]_vars PROVE SyncInv'
  OBVIOUS
<1>1. Len(channel) \in Nat /\ DOMAIN channel = 1 .. Len(channel)
  BY DEF ChannelInv
<1>2. ASSUME NEW m, NEW next, Send(m, next), m.of = next, IsWireGraph(held) PROVE SyncInv'
  <2>1. channel' = Append(channel, m) /\ graph' = next /\ held' = held
    BY <1>2 DEF Send
  <2>2. channel \in Seq(Fulls \cup Deltas)
    BY DEF ChannelInv
  <2>3. channel' # << >> /\ channel'[Len(channel')] = m
    BY <2>1, <2>2
  <2> QED
    BY <1>2, <2>1, <2>3 DEF SyncInv, IsWireGraph, IsGraph, HasWireKind
<1>3. ASSUME NEW next \in Graphs, SendFull(next) \/ SendDelta(next) PROVE SyncInv'
  <2>1. CASE SendFull(next)
    BY <1>2, <2>1 DEF SendFull, SyncInv
  <2>2. CASE SendDelta(next)
    BY <1>2, <2>2 DEF SendDelta, SyncInv
  <2> QED
    BY <1>3, <2>1, <2>2
<1>4. ASSUME Deliver PROVE SyncInv'
  <2>1. /\ channel # << >> /\ 1 \in DOMAIN channel /\ Receive(1)
        /\ channel' = Tail(channel) /\ UNCHANGED <<graph, missing>>
    BY <1>1, <1>4 DEF Deliver
  <2>2. /\ IsWireGraph(held')
        /\ status' = "applied" => \/ RootOf(held') = RootOf(channel[1].of)
                                  \/ Content(held') = Told(channel[1].of)
    BY <2>1, ReceiveWire
  <2>3. channel \in Seq(Fulls \cup Deltas)
    BY DEF ChannelInv
  <2>4. channel' # << >> => channel'[Len(channel')] = channel[Len(channel)]
    BY <2>1, <2>3
  <2>5. channel' = << >> => Len(channel) = 1
    <3>1. Len(channel') = Len(channel) - 1
      BY <1>1, <2>1, <2>3
    <3>2. Len(channel) \in Nat
      BY <2>3
    <3>3. ASSUME channel' = << >> PROVE Len(channel') = 0
      BY <3>3
    <3> QED
      BY <3>1, <3>2, <3>3
  <2>6. IsWireGraph(held)'
    BY <2>2 DEF IsWireGraph, IsGraph, HasWireKind
  <2>7. ASSUME ~missing' PROVE channel' # << >> => channel'[Len(channel')].of = graph'
    BY <2>1, <2>4, <2>7 DEF SyncInv
  <2>8. ASSUME ~missing', channel' = << >>, status' = "applied"
        PROVE  RootOf(held') = RootOf(graph') \/ Content(held') = Told(graph')
    <3>1. channel[1].of = graph /\ graph' = graph
      BY <2>1, <2>5, <2>8 DEF SyncInv
    <3> QED
      BY <2>2, <2>8, <3>1
  <2>9. RootOf(held)' = RootOf(held') /\ RootOf(graph)' = RootOf(graph')
        /\ Content(held)' = Content(held') /\ Told(graph)' = Told(graph')
    OBVIOUS
  <2> QED
    BY <2>6, <2>7, <2>8 DEF SyncInv
<1>5. ASSUME DeliverCopy PROVE SyncInv'
  <2>1. channel # << >> /\ 1 \in DOMAIN channel /\ Receive(1) /\ UNCHANGED <<graph, channel, missing>>
    BY <1>1, <1>5 DEF DeliverCopy, Fault
  <2>2. IsWireGraph(held')
    BY <2>1, ReceiveWire
  <2> QED
    BY <2>1, <2>2 DEF SyncInv
<1>6. ASSUME NEW k \in DOMAIN channel, channel' = Without(k), graph' = graph,
             missing' = (missing \/ AfterLastFull(k)), IsWireGraph(held')
      PROVE  SyncInv'
  <2>1. CASE missing'
    BY <1>6, <2>1 DEF SyncInv
  <2>2. CASE ~missing'
    <3>1. ~missing /\ ~AfterLastFull(k)
      BY <1>6, <2>2
    <3>2. channel' # << >> /\ channel'[Len(channel')] = channel[Len(channel)]
      BY <1>6, <3>1, LastStays
    <3>3. channel # << >>
      BY <1>1
    <3> QED
      BY <1>6, <3>1, <3>2, <3>3 DEF SyncInv
  <2> QED
    BY <2>1, <2>2
<1>7. ASSUME NEW k \in DOMAIN channel, Lose(k) PROVE SyncInv'
  <2>1. IsWireGraph(held')
    BY <1>7 DEF Lose, SyncInv
  <2> QED
    BY <1>6, <1>7, <2>1 DEF Lose, Fault
<1>8. ASSUME NEW k \in DOMAIN channel, Overtake(k) PROVE SyncInv'
  <2>1. IsWireGraph(held')
    BY <1>8, ReceiveWire DEF Overtake
  <2> QED
    BY <1>6, <1>8, <2>1 DEF Overtake, Fault
<1>9. ASSUME UNCHANGED vars PROVE SyncInv'
  BY <1>9 DEF vars, SyncInv
<1> QED
  BY <1>3, <1>4, <1>5, <1>7, <1>8, <1>9 DEF Next

\* With the last full payload and all that followed it received in order and
\* accepted, the consumer has the producer's graph, whatever came before and
\* whatever faults there were (packroot.go:132-136).
THEOREM LastFullHeals == Spec => []InSync
<1>1. ChannelInv /\ SyncInv => InSync
  <2> SUFFICES ASSUME ChannelInv, SyncInv,
                      channel = << >>, ~missing, Faithful(graph), status = "applied"
               PROVE  Content(held) = Told(graph)
    BY DEF InSync
  <2>1. IsWireGraph(graph) /\ Told(graph) = Content(graph)
    BY SentAreGraphs, FaithfulTold DEF ChannelInv
  <2>2. CASE RootOf(held) = RootOf(graph)
    BY <2>1, <2>2, RootTells DEF SyncInv
  <2> QED
    BY <2>2 DEF SyncInv
<1> QED
  BY <1>1, InitSync, NextSync, ChannelCorrect, PTL DEF Spec

-----------------------------------------------------------------------------
(* On an orderly channel every payload is accepted.                        *)

Sendable == {g \in Graphs \cup {EmptyGraph} : Faithful(g)}

\* Payload k of ch is st[k] as a whole, or the change that leads to it.
Whole(ch, st, k) ==
    /\ st[k] \in Graphs
    /\ ch[k] = [kind |-> "full", outcome |-> Decode(Encode(st[k])), of |-> st[k]]

Change(ch, st, k) ==
    ch[k] = [kind |-> "delta", delta |-> Between(st[k - 1], st[k]), of |-> st[k]]

\* ch tells the graphs st[1], st[2], ... up to g, one by one, to a reader that
\* has st[0].
Tells(ch, g, st) ==
    /\ st \in [0 .. Len(ch) -> Sendable]
    /\ st[Len(ch)] = g
    /\ \A k \in 1 .. Len(ch) : Whole(ch, st, k) \/ Change(ch, st, k)

OrderInv ==
    faithful => /\ status # "refused"
                /\ \E st : Tells(channel, graph, st) /\ Content(held) = Content(st[0])

LEMMA EmptyIsFaithful == Faithful(EmptyGraph)
BY DEF Faithful, EndsResolve, DistinctKeys, EmptyGraph

LEMMA InitOrder == Init => OrderInv
<1> SUFFICES ASSUME Init PROVE OrderInv
  OBVIOUS
<1>1. channel = << >> /\ graph = EmptyGraph /\ held = EmptyGraph /\ status = "none"
  BY DEF Init
<1> DEFINE st == [k \in 0 .. 0 |-> EmptyGraph]
<1>2. EmptyGraph \in Sendable
  BY EmptyIsFaithful DEF Sendable
<1>3. Len(channel) = 0 /\ st \in [0 .. 0 -> Sendable] /\ st[0] = EmptyGraph /\ 1 .. 0 = {}
  BY <1>1, <1>2
<1> HIDE DEF st
<1>4. Tells(channel, graph, st)
  BY <1>1, <1>3 DEF Tells
<1> QED
  BY <1>1, <1>3, <1>4 DEF OrderInv

\* One more payload tells one more graph.
LEMMA TellsMore ==
    ASSUME NEW ch, NEW S, ch \in Seq(S), NEW m \in S, NEW g, NEW st, Tells(ch, g, st),
           NEW next \in Graphs, Faithful(next),
           \/ m = [kind |-> "full", outcome |-> Decode(Encode(next)), of |-> next]
           \/ m = [kind |-> "delta", delta |-> Between(g, next), of |-> next]
    PROVE  \E more : Tells(Append(ch, m), next, more) /\ more[0] = st[0]
<1> DEFINE n == Len(ch)
           ext == Append(ch, m)
           more == [k \in 0 .. n + 1 |-> IF k = n + 1 THEN next ELSE st[k]]
<1>1. /\ n \in Nat
      /\ Len(ext) = n + 1
      /\ ext[n + 1] = m
      /\ \A k \in 1 .. n : ext[k] = ch[k]
  OBVIOUS
<1>2. st \in [0 .. n -> Sendable] /\ st[n] = g
  BY DEF Tells
<1>3. next \in Sendable
  BY DEF Sendable
<1>4. /\ more \in [0 .. n + 1 -> Sendable]
      /\ more[n + 1] = next
      /\ \A k \in 0 .. n : more[k] = st[k]
  BY <1>1, <1>2, <1>3
<1> HIDE DEF more, ext, n
<1>5. ASSUME NEW k \in 1 .. n
      PROVE  Whole(ext, more, k) \/ Change(ext, more, k)
  <2>1. k \in 0 .. n /\ k - 1 \in 0 .. n /\ k \in 1 .. Len(ch)
    BY <1>1 DEF n
  <2>2. Whole(ch, st, k) \/ Change(ch, st, k)
    BY <2>1 DEF Tells
  <2>3. more[k] = st[k] /\ more[k - 1] = st[k - 1] /\ ext[k] = ch[k]
    BY <1>1, <1>4, <2>1
  <2> QED
    BY <2>2, <2>3 DEF Whole, Change
<1>6. Whole(ext, more, n + 1) \/ Change(ext, more, n + 1)
  <2>1. (n + 1) - 1 = n /\ n \in 0 .. n
    BY <1>1
  <2>2. more[n + 1] = next /\ more[(n + 1) - 1] = g /\ ext[n + 1] = m
    BY <1>1, <1>2, <1>4, <2>1
  <2> QED
    BY <2>2 DEF Whole, Change
<1>7. Tells(ext, next, more)
  <2>1. ASSUME NEW k \in 1 .. n + 1
        PROVE  Whole(ext, more, k) \/ Change(ext, more, k)
    <3>1. k \in 1 .. n \/ k = n + 1
      BY <1>1
    <3> QED
      BY <1>5, <1>6, <3>1
  <2> QED
    BY <1>1, <1>4, <2>1 DEF Tells
<1>8. more[0] = st[0]
  BY <1>1, <1>4
<1> QED
  BY <1>7, <1>8 DEF ext

\* The first payload is received.
LEMMA TellsRest ==
    ASSUME NEW ch, NEW S, ch \in Seq(S), ch # << >>, NEW g, NEW st, Tells(ch, g, st)
    PROVE  \E rest : Tells(Tail(ch), g, rest) /\ rest[0] = st[1]
<1> DEFINE n == Len(ch)
           tl == Tail(ch)
           rest == [k \in 0 .. n - 1 |-> st[k + 1]]
<1>1. /\ n \in Nat /\ n > 0
      /\ Len(tl) = n - 1
      /\ \A k \in 1 .. n - 1 : tl[k] = ch[k + 1]
  OBVIOUS
<1>2. st \in [0 .. n -> Sendable] /\ st[n] = g
  BY DEF Tells
<1>3. /\ rest \in [0 .. n - 1 -> Sendable]
      /\ \A k \in 0 .. n - 1 : rest[k] = st[k + 1]
  BY <1>1, <1>2
<1> HIDE DEF rest, tl, n
<1>4. rest[n - 1] = g /\ rest[0] = st[1]
  BY <1>1, <1>2, <1>3
<1>5. ASSUME NEW k \in 1 .. n - 1
      PROVE  Whole(tl, rest, k) \/ Change(tl, rest, k)
  <2>1. k \in 0 .. n - 1 /\ k - 1 \in 0 .. n - 1 /\ k + 1 \in 1 .. n
    BY <1>1
  <2>2. Whole(ch, st, k + 1) \/ Change(ch, st, k + 1)
    BY <2>1 DEF Tells, n
  <2>3. (k - 1) + 1 = k /\ (k + 1) - 1 = k
    BY <1>1
  <2>4. rest[k] = st[k + 1] /\ rest[k - 1] = st[k] /\ tl[k] = ch[k + 1]
    BY <1>1, <1>3, <2>1, <2>3
  <2> QED
    BY <2>2, <2>3, <2>4 DEF Whole, Change
<1> QED
  BY <1>1, <1>3, <1>4, <1>5 DEF Tells, tl

\* The payload that arrives first is accepted.
LEMMA FirstArrives ==
    ASSUME ChannelInv, SyncInv, channel # << >>, Receive(1),
           NEW st, Tells(channel, graph, st), Content(held) = Content(st[0])
    PROVE  Content(held') = Content(st[1]) /\ status' = "applied"
<1>1. 1 \in 1 .. Len(channel) /\ Len(channel) \in Nat
  BY DEF ChannelInv
<1>2. 0 \in 0 .. Len(channel) /\ 1 \in 0 .. Len(channel) /\ 1 - 1 = 0
  BY <1>1
<1>3. st[0] \in Sendable /\ st[1] \in Sendable
  BY <1>2 DEF Tells
<1>4. IsGraph(st[0]) /\ Faithful(st[0]) /\ IsGraph(st[1]) /\ Faithful(st[1])
  BY <1>3, SentAreGraphs DEF Sendable
<1>5. ASSUME NEW r \in Outcomes(channel[1])
      PROVE  r.ok /\ Content(r.graph) = Content(st[1])
  <2>1. CASE Whole(channel, st, 1)
    <3>1. /\ st[1] \in Graphs
          /\ channel[1].kind = "full" /\ channel[1].outcome = Decode(Encode(st[1]))
      BY <2>1 DEF Whole
    <3>2. r = Decode(Encode(st[1]))
      BY <3>1 DEF Outcomes
    <3>3. ReadAs(r, st[1])
      BY <3>1, <3>2, FullsRead
    <3> QED
      BY <1>4, <3>3, FaithfulTold DEF ReadAs
  <2>2. CASE Change(channel, st, 1)
    <3>1. channel[1].kind = "delta" /\ channel[1].delta = Between(st[0], st[1])
      BY <1>2, <2>2 DEF Change
    <3>2. r \in VerifyDelta(held, Between(st[0], st[1]))
      BY <3>1 DEF Outcomes
    <3>3. IsGraph(held)
      BY DEF SyncInv, IsWireGraph
    <3> QED
      BY <1>4, <3>2, <3>3, DeltaFits
  <2> QED
    BY <1>1, <2>1, <2>2 DEF Tells
<1>6. PICK r \in Outcomes(channel[1]) :
          IF r.ok THEN held' = r.graph /\ status' = "applied"
                  ELSE held' = held /\ status' = "refused"
  BY DEF Receive
<1> QED
  BY <1>5, <1>6

LEMMA NextOrder == ChannelInv /\ SyncInv /\ OrderInv /\ [Next]_vars => OrderInv'
<1> SUFFICES ASSUME ChannelInv, SyncInv, OrderInv, [Next]_vars, faithful'
             PROVE  /\ status' # "refused"
                    /\ \E st : Tells(channel', graph', st) /\ Content(held') = Content(st[0])
  BY DEF OrderInv
<1>1. channel \in Seq(Fulls \cup Deltas)
  BY DEF ChannelInv
<1> DEFINE Goal == /\ status' # "refused"
                   /\ \E st : Tells(channel', graph', st) /\ Content(held') = Content(st[0])
<1>2. ASSUME NEW next \in Graphs, NEW m \in Fulls \cup Deltas, Send(m, next),
             \/ m = [kind |-> "full", outcome |-> Decode(Encode(next)), of |-> next]
             \/ m = [kind |-> "delta", delta |-> Between(graph, next), of |-> next]
      PROVE  Goal
  <2>1. /\ channel' = Append(channel, m) /\ graph' = next /\ UNCHANGED <<held, status>>
        /\ faithful /\ Faithful(next)
    BY <1>2 DEF Send
  <2>2. PICK st : Tells(channel, graph, st) /\ Content(held) = Content(st[0])
    BY <2>1 DEF OrderInv
  <2>3. PICK more : Tells(Append(channel, m), next, more) /\ more[0] = st[0]
    BY <1>1, <1>2, <2>1, <2>2, TellsMore
  <2>4. Tells(channel', graph', more) /\ Content(held') = Content(more[0])
    BY <2>1, <2>2, <2>3
  <2>5. status' # "refused"
    BY <2>1 DEF OrderInv
  <2> QED
    BY <2>4, <2>5
<1>3. ASSUME NEW next \in Graphs, SendFull(next) PROVE Goal
  <2> DEFINE m == [kind |-> "full", outcome |-> Decode(Encode(next)), of |-> next]
  <2>1. m \in Fulls /\ Send(m, next)
    BY <1>3 DEF Fulls, SendFull
  <2> QED
    BY <1>2, <2>1
<1>4. ASSUME NEW next \in Graphs, SendDelta(next) PROVE Goal
  <2> DEFINE m == [kind |-> "delta", delta |-> Between(graph, next), of |-> next]
  <2>1. Send(m, next)
    BY <1>4 DEF SendDelta, Between
  <2>2. m \in Deltas
    <3>1. graph \in Graphs \cup {EmptyGraph}
      BY DEF ChannelInv
    <3> QED
      BY <3>1 DEF Deltas, Between
  <2> QED
    BY <1>2, <2>1, <2>2
<1>5. ASSUME Deliver PROVE Goal
  <2>1. /\ channel # << >> /\ Receive(1) /\ channel' = Tail(channel) /\ graph' = graph
        /\ faithful
    BY <1>5 DEF Deliver
  <2>2. PICK st : Tells(channel, graph, st) /\ Content(held) = Content(st[0])
    BY <2>1 DEF OrderInv
  <2>3. Content(held') = Content(st[1]) /\ status' = "applied"
    BY <2>1, <2>2, FirstArrives
  <2>4. PICK rest : Tells(Tail(channel), graph, rest) /\ rest[0] = st[1]
    BY <1>1, <2>1, <2>2, TellsRest
  <2>5. Tells(channel', graph', rest) /\ Content(held') = Content(rest[0])
    BY <2>1, <2>3, <2>4
  <2> QED
    BY <2>3, <2>5
<1>6. ~Fault
  BY DEF Fault
<1>7. ASSUME UNCHANGED vars PROVE Goal
  <2>1. UNCHANGED <<graph, channel, held, status>> /\ faithful
    BY <1>7 DEF vars
  <2> QED
    BY <2>1 DEF OrderInv
<1> QED
  BY <1>3, <1>4, <1>5, <1>6, <1>7 DEF Next, DeliverCopy, Lose, Overtake

\* A delta between graphs that survive the wire is never refused on an orderly
\* channel, for any graphs and whatever order Go's maps give the result
\* (packroot.go:96-100).
THEOREM DeltasAccepted == Spec => []NeverRefused
<1>1. OrderInv => NeverRefused
  BY DEF OrderInv, NeverRefused
<1> QED
  BY <1>1, InitSync, NextSync, InitOrder, NextOrder, ChannelCorrect, PTL DEF Spec
=============================================================================
