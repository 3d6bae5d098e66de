------------------------- MODULE GenericDeltaProofs -------------------------
(***************************************************************************)
(* Proofs about GenericDelta: what a consumer that holds a set's records   *)
(* makes of the delta to the next set, for all columns, values and rows.   *)
(*                                                                         *)
(* A root is a bag.  With unique identities under a key that is a column,  *)
(* the bag is a set of records that differ in their key: what a diff or an *)
(* apply does by identity, it does by record.                              *)
(***************************************************************************)
EXTENDS GenericDelta, FiniteSetTheorems, TLAPS

\* The records of s: what the root hashes.
Recs(s) == {Record(s.rows[i], s.fields) : i \in DOMAIN s.rows}

\* The cells of s are values.
Celled(s) == \A i \in DOMAIN s.rows : \A f \in Range(s.fields) : Value(s.rows[i], f) \in Values

\* s is a record set that a producer may diff: Key names one of its columns.
KeyedSet(s) ==
    /\ IsFiniteSet(DOMAIN s.rows)
    /\ Celled(s)
    /\ s.key \in Range(s.fields)

\* h has the schema and the records of s; its rows may come in another order
\* and its values may differ where their cells do not.
Holds(h, s) ==
    /\ h.key = s.key
    /\ h.fields = s.fields
    /\ IsFiniteSet(DOMAIN h.rows)
    /\ GenericPackRoot(h) = GenericPackRoot(s)

-----------------------------------------------------------------------------
(* Records and identities.                                                 *)

LEMMA RecordCell ==
    ASSUME NEW row, NEW fields, NEW f \in Range(fields)
    PROVE  Record(row, fields)[f] = canonicalCell(row, f)
BY DEF Record

\* The wire may change values, not their cells.
LEMMA RecordOnWire ==
    ASSUME NEW row, NEW fields, \A f \in Range(fields) : Value(row, f) \in Values
    PROVE  Record(RowOnWire(row, fields), fields) = Record(row, fields)
<1>1. ASSUME NEW f \in Range(fields)
      PROVE  canonicalCell(RowOnWire(row, fields), f) = canonicalCell(row, f)
  <2>1. Value(RowOnWire(row, fields), f) = OnWire[Value(row, f)]
    BY DEF Value, RowOnWire
  <2> QED
    BY <2>1, WireKeepsCells DEF canonicalCell
<1> QED
  BY <1>1 DEF Record

LEMMA RootDomain ==
    ASSUME NEW s
    PROVE  DOMAIN GenericPackRoot(s) = Recs(s)
BY DEF GenericPackRoot, Recs

LEMMA IdentitiesFromRecs ==
    ASSUME NEW s, s.key \in Range(s.fields)
    PROVE  Identities(s) = {r[s.key] : r \in Recs(s)}
<1>1. \A i \in DOMAIN s.rows :
          Record(s.rows[i], s.fields)[s.key] = canonicalCell(s.rows[i], s.key)
  BY RecordCell
<1> QED
  BY <1>1 DEF Identities, Recs

\* Two rows with one identity are one row, hence a record is counted once.
LEMMA UniqueRecs ==
    ASSUME NEW s, IdentitiesUnique(s), s.key \in Range(s.fields)
    PROVE  /\ \A r \in Recs(s) : GenericPackRoot(s)[r] = 1
           /\ \A r, q \in Recs(s) : r[s.key] = q[s.key] => r = q
<1>1. \A i \in DOMAIN s.rows :
          Record(s.rows[i], s.fields)[s.key] = canonicalCell(s.rows[i], s.key)
  BY RecordCell
<1>2. ASSUME NEW r \in Recs(s)
      PROVE  GenericPackRoot(s)[r] = 1
  <2>1. PICK i \in DOMAIN s.rows : r = Record(s.rows[i], s.fields)
    BY DEF Recs
  <2>2. {j \in DOMAIN s.rows : Record(s.rows[j], s.fields) = r} = {i}
    BY <1>1, <2>1 DEF IdentitiesUnique
  <2>3. Cardinality({i}) = 1
    BY FS_Singleton
  <2> QED
    BY <2>2, <2>3 DEF GenericPackRoot, Recs
<1>3. ASSUME NEW r \in Recs(s), NEW q \in Recs(s), r[s.key] = q[s.key]
      PROVE  r = q
  <2>1. PICK i \in DOMAIN s.rows : r = Record(s.rows[i], s.fields)
    BY DEF Recs
  <2>2. PICK j \in DOMAIN s.rows : q = Record(s.rows[j], s.fields)
    BY DEF Recs
  <2> QED
    BY <1>1, <1>3, <2>1, <2>2 DEF IdentitiesUnique
<1> QED
  BY <1>2, <1>3

\* A set that counts each record once and tells them apart by their key has
\* unique identities.
LEMMA UniqueFromRecs ==
    ASSUME NEW h, IsFiniteSet(DOMAIN h.rows), h.key \in Range(h.fields),
           \A r \in Recs(h) : GenericPackRoot(h)[r] = 1,
           \A r, q \in Recs(h) : r[h.key] = q[h.key] => r = q
    PROVE  IdentitiesUnique(h)
<1> SUFFICES ASSUME NEW i \in DOMAIN h.rows, NEW j \in DOMAIN h.rows,
                    canonicalCell(h.rows[i], h.key) = canonicalCell(h.rows[j], h.key)
             PROVE  i = j
  BY DEF IdentitiesUnique
<1> DEFINE r == Record(h.rows[i], h.fields)
           S == {k \in DOMAIN h.rows : Record(h.rows[k], h.fields) = r}
<1>1. r \in Recs(h) /\ Record(h.rows[j], h.fields) \in Recs(h)
  BY DEF Recs
<1>2. Record(h.rows[j], h.fields) = r
  BY <1>1, RecordCell
<1>3. i \in S /\ j \in S
  BY <1>2
<1>4. Cardinality(S) = 1
  BY <1>1 DEF GenericPackRoot, Recs
<1>5. IsFiniteSet(S)
  BY FS_Subset
<1> HIDE DEF S
<1>6. PICK x : S = {x}
  BY <1>4, <1>5, FS_Singleton
<1> QED
  BY <1>3, <1>6

LEMMA HoldsUnique ==
    ASSUME NEW s, IdentitiesUnique(s), s.key \in Range(s.fields), NEW h, Holds(h, s)
    PROVE  /\ IdentitiesUnique(h)
           /\ Recs(h) = Recs(s)
           /\ Identities(h) = Identities(s)
<1>1. Recs(h) = Recs(s)
  BY RootDomain DEF Holds
<1>2. IdentitiesUnique(h)
  BY <1>1, UniqueRecs, UniqueFromRecs DEF Holds
<1>3. Identities(h) = Identities(s)
  BY <1>1, IdentitiesFromRecs DEF Holds
<1> QED
  BY <1>1, <1>2, <1>3

\* With unique identities the records say all that the root says.
LEMMA RootFromRecs ==
    ASSUME NEW s, IdentitiesUnique(s), s.key \in Range(s.fields),
           NEW t, IdentitiesUnique(t), t.key \in Range(t.fields),
           Recs(s) = Recs(t)
    PROVE  GenericPackRoot(s) = GenericPackRoot(t)
<1>1. \A r \in Recs(s) : GenericPackRoot(s)[r] = GenericPackRoot(t)[r]
  BY UniqueRecs
<1>2. DOMAIN GenericPackRoot(s) = DOMAIN GenericPackRoot(t)
  BY RootDomain
<1>3. /\ GenericPackRoot(s) = [r \in Recs(s) |-> GenericPackRoot(s)[r]]
      /\ GenericPackRoot(t) = [r \in Recs(t) |-> GenericPackRoot(t)[r]]
  BY DEF GenericPackRoot, Recs
<1> QED
  BY <1>1, <1>3

LEMMA RowByIdRec ==
    ASSUME NEW s, s.key \in Range(s.fields), NEW id \in Identities(s)
    PROVE  /\ \E i \in DOMAIN s.rows : RowById(s, id) = s.rows[i]
           /\ canonicalCell(RowById(s, id), s.key) = id
           /\ Record(RowById(s, id), s.fields) \in Recs(s)
<1>1. PICK i \in DOMAIN s.rows : canonicalCell(s.rows[i], s.key) = id
  BY DEF Identities
<1> DEFINE k == CHOOSE k \in DOMAIN s.rows : canonicalCell(s.rows[k], s.key) = id
<1>2. k \in DOMAIN s.rows /\ canonicalCell(s.rows[k], s.key) = id
  BY <1>1
<1> QED
  BY <1>2 DEF RowById, Recs

-----------------------------------------------------------------------------
(* The delta from one set to another, as its decoder reads it.             *)

Wire(s, t) == Delta(DiffGenericSets(s, t)).delta

LEMMA WireFields ==
    ASSUME NEW s, NEW t
    PROVE  LET d == DiffGenericSets(s, t)
               w == Wire(s, t)
           IN  /\ w.key = t.key
               /\ w.baseRoot = GenericPackRoot(s)
               /\ w.newRoot = GenericPackRoot(t)
               /\ w.added = {RowOnWire(row, t.fields) : row \in d.added}
               /\ w.changed = {RowOnWire(row, t.fields) : row \in d.changed}
               /\ w.removed = {OnWire[v] : v \in d.removed}
<1> DEFINE d == DiffGenericSets(s, t)
<1>1. /\ d = [key |-> d.key, fields |-> d.fields, baseRoot |-> d.baseRoot,
              newRoot |-> d.newRoot, added |-> d.added, changed |-> d.changed,
              removed |-> d.removed]
      /\ d.key = t.key /\ d.fields = t.fields
      /\ d.baseRoot = GenericPackRoot(s) /\ d.newRoot = GenericPackRoot(t)
  BY DEF DiffGenericSets
<1> HIDE DEF d
<1>2. LET w == Delta(d).delta
      IN  /\ w.key = d.key /\ w.baseRoot = d.baseRoot /\ w.newRoot = d.newRoot
          /\ w.added = {RowOnWire(row, d.fields) : row \in d.added}
          /\ w.changed = {RowOnWire(row, d.fields) : row \in d.changed}
          /\ w.removed = {OnWire[v] : v \in d.removed}
  BY <1>1 DEF Delta
<1> QED
  BY <1>1, <1>2 DEF Wire, d

\* A row of a keyed set keeps its cells on the wire.
LEMMA RowKeepsCells ==
    ASSUME NEW t, KeyedSet(t), NEW i \in DOMAIN t.rows
    PROVE  LET row == RowOnWire(t.rows[i], t.fields)
           IN  /\ Record(row, t.fields) = Record(t.rows[i], t.fields)
               /\ canonicalCell(row, t.key) = canonicalCell(t.rows[i], t.key)
<1>1. Record(RowOnWire(t.rows[i], t.fields), t.fields) = Record(t.rows[i], t.fields)
  BY RecordOnWire DEF KeyedSet, Celled
<1> QED
  BY <1>1, RecordCell DEF KeyedSet

LEMMA WireRemoved ==
    ASSUME NEW s, KeyedSet(s), NEW t, SameSchema(s, t)
    PROVE  RemovedIds(Wire(s, t)) = Identities(s) \ Identities(t)
<1> DEFINE gone == {r \in Range(s.rows) : canonicalCell(r, t.key) \notin Identities(t)}
<1>1. t.key = s.key
  BY DEF SameSchema
<1>2. Wire(s, t).removed = {OnWire[v] : v \in {Value(row, t.key) : row \in gone}}
  <2>1. DiffGenericSets(s, t).removed = {Value(row, t.key) : row \in gone}
    BY DEF DiffGenericSets
  <2> QED
    BY <2>1, WireFields
<1>3. RemovedIds(Wire(s, t)) = {Canon[OnWire[Value(row, t.key)]] : row \in gone}
  BY <1>2 DEF RemovedIds
<1>4. ASSUME NEW i \in DOMAIN s.rows
      PROVE  Canon[OnWire[Value(s.rows[i], t.key)]] = canonicalCell(s.rows[i], s.key)
  <2>1. Value(s.rows[i], t.key) \in Values
    BY <1>1 DEF KeyedSet, Celled
  <2> QED
    BY <1>1, <2>1, WireKeepsCells DEF canonicalCell
<1>5. gone = {s.rows[i] : i \in {j \in DOMAIN s.rows :
                                   canonicalCell(s.rows[j], s.key) \notin Identities(t)}}
  BY <1>1 DEF Range
<1>6. RemovedIds(Wire(s, t)) =
        {canonicalCell(s.rows[i], s.key) : i \in
           {j \in DOMAIN s.rows : canonicalCell(s.rows[j], s.key) \notin Identities(t)}}
  BY <1>3, <1>4, <1>5
<1> QED
  BY <1>6 DEF Identities

LEMMA WireAdded ==
    ASSUME NEW s, NEW t, KeyedSet(t)
    PROVE  /\ AddedIds(Wire(s, t)) = Identities(t) \ Identities(s)
           /\ \A row \in Wire(s, t).added : Record(row, t.fields) \in Recs(t)
<1> DEFINE new == {i \in DOMAIN t.rows : canonicalCell(t.rows[i], t.key) \notin Identities(s)}
<1>1. DiffGenericSets(s, t).added = {t.rows[i] : i \in new}
  BY DEF DiffGenericSets, Range
<1>2. Wire(s, t).added = {RowOnWire(t.rows[i], t.fields) : i \in new}
  BY <1>1, WireFields
<1>3. \A row \in Wire(s, t).added : Record(row, t.fields) \in Recs(t)
  BY <1>2, RowKeepsCells DEF Recs
<1>4. AddedIds(Wire(s, t)) = {canonicalCell(row, t.key) : row \in Wire(s, t).added}
  BY WireFields DEF AddedIds
<1>5. AddedIds(Wire(s, t)) = {canonicalCell(t.rows[i], t.key) : i \in new}
  BY <1>2, <1>4, RowKeepsCells
<1> QED
  BY <1>3, <1>5 DEF Identities

LEMMA WireChanged ==
    ASSUME NEW s, NEW t, KeyedSet(t)
    PROVE  /\ ChangedIds(Wire(s, t)) \subseteq Identities(s) \cap Identities(t)
           /\ \A row \in Wire(s, t).changed : Record(row, t.fields) \in Recs(t)
           /\ \A i \in DOMAIN t.rows :
                LET id == canonicalCell(t.rows[i], t.key)
                IN  id \in Identities(s) \ ChangedIds(Wire(s, t))
                      => rowsEqual(RowById(s, id), t.rows[i], t.fields)
<1> DEFINE id(i) == canonicalCell(t.rows[i], t.key)
           other == {i \in DOMAIN t.rows :
                       /\ id(i) \in Identities(s)
                       /\ ~rowsEqual(RowById(s, id(i)), t.rows[i], t.fields)}
<1>1. DiffGenericSets(s, t).changed = {t.rows[i] : i \in other}
  BY DEF DiffGenericSets, Range
<1>2. Wire(s, t).changed = {RowOnWire(t.rows[i], t.fields) : i \in other}
  BY <1>1, WireFields
<1>3. \A row \in Wire(s, t).changed : Record(row, t.fields) \in Recs(t)
  BY <1>2, RowKeepsCells DEF Recs
<1>4. ChangedIds(Wire(s, t)) = {canonicalCell(row, t.key) : row \in Wire(s, t).changed}
  BY WireFields DEF ChangedIds
<1>5. ChangedIds(Wire(s, t)) = {id(i) : i \in other}
  BY <1>2, <1>4, RowKeepsCells
<1>6. ChangedIds(Wire(s, t)) \subseteq Identities(s) \cap Identities(t)
  BY <1>5 DEF Identities
<1> QED
  BY <1>3, <1>5, <1>6

-----------------------------------------------------------------------------
(* Applying the delta from s to t to a set that holds s.                   *)

\* The delta is admitted.
LEMMA WireAdmissible ==
    ASSUME NEW s, KeyedSet(s), NEW t, KeyedSet(t), Diffable(s, t), NEW h, Holds(h, s)
    PROVE  /\ GenericPackRoot(h) = Wire(s, t).baseRoot
           /\ Admissible(h, Wire(s, t))
<1>1. IdentitiesUnique(s) /\ SameSchema(s, t)
  BY DEF Diffable
<1>2. IdentitiesUnique(h) /\ Identities(h) = Identities(s)
  BY <1>1, HoldsUnique DEF KeyedSet
<1>3. RemovedIds(Wire(s, t)) = Identities(s) \ Identities(t)
  BY <1>1, WireRemoved
<1>4. AddedIds(Wire(s, t)) = Identities(t) \ Identities(s)
  BY WireAdded
<1>5. ChangedIds(Wire(s, t)) \subseteq Identities(s) \cap Identities(t)
  BY WireChanged
<1>6. Admissible(h, Wire(s, t))
  BY <1>2, <1>3, <1>4, <1>5 DEF Admissible
<1> QED
  BY <1>6, WireFields DEF Holds

\* The row that some of rows has for an identity.
LEMMA RowInRec ==
    ASSUME NEW rows, NEW key, NEW id, \E row \in rows : canonicalCell(row, key) = id
    PROVE  RowIn(rows, key, id) \in rows /\ canonicalCell(RowIn(rows, key, id), key) = id
BY DEF RowIn

\* The working copy has t's identities, and t's record for each.
LEMMA WorkIsNext ==
    ASSUME NEW s, KeyedSet(s), NEW t, KeyedSet(t), Diffable(s, t), NEW h, Holds(h, s)
    PROVE  LET work == Work(h, Wire(s, t))
           IN  /\ DOMAIN work = Identities(t)
               /\ \A id \in Identities(t) :
                    /\ canonicalCell(work[id], t.key) = id
                    /\ Record(work[id], t.fields) \in Recs(t)
<1> DEFINE w == Wire(s, t)
           work == Work(h, w)
<1>1. /\ IdentitiesUnique(s) /\ IdentitiesUnique(t)
      /\ t.key = s.key /\ t.fields = s.fields
      /\ h.key = s.key /\ h.fields = s.fields
      /\ SameSchema(s, t)
  BY DEF Diffable, SameSchema, Holds
<1>2. IdentitiesUnique(h) /\ Identities(h) = Identities(s) /\ Recs(h) = Recs(s)
  BY <1>1, HoldsUnique DEF KeyedSet
<1>3. RemovedIds(w) = Identities(s) \ Identities(t)
  BY <1>1, WireRemoved
<1>4. /\ AddedIds(w) = Identities(t) \ Identities(s)
      /\ \A row \in w.added : Record(row, t.fields) \in Recs(t)
  BY WireAdded
<1>5. /\ ChangedIds(w) \subseteq Identities(s) \cap Identities(t)
      /\ \A row \in w.changed : Record(row, t.fields) \in Recs(t)
      /\ \A i \in DOMAIN t.rows :
            LET id == canonicalCell(t.rows[i], t.key)
            IN  id \in Identities(s) \ ChangedIds(w)
                  => rowsEqual(RowById(s, id), t.rows[i], t.fields)
  BY WireChanged
<1>6. w.key = t.key
  BY WireFields
<1> HIDE DEF w
<1>7. DOMAIN work = Identities(t)
  BY <1>2, <1>3, <1>4, <1>5 DEF Work
<1>8. ASSUME NEW id \in Identities(t)
      PROVE  canonicalCell(work[id], t.key) = id /\ Record(work[id], t.fields) \in Recs(t)
  <2>1. CASE id \in ChangedIds(w)
    <3>1. work[id] = RowIn(w.changed, t.key, id)
      BY <1>6, <1>7, <2>1 DEF Work
    <3>2. \E row \in w.changed : canonicalCell(row, t.key) = id
      BY <1>6, <2>1 DEF ChangedIds
    <3> QED
      BY <1>5, <3>1, <3>2, RowInRec
  <2>2. CASE id \notin ChangedIds(w) /\ id \in AddedIds(w)
    <3>1. work[id] = RowIn(w.added, t.key, id)
      BY <1>6, <1>7, <2>2 DEF Work
    <3>2. \E row \in w.added : canonicalCell(row, t.key) = id
      BY <1>6, <2>2 DEF AddedIds
    <3> QED
      BY <1>4, <3>1, <3>2, RowInRec
  <2>3. CASE id \notin ChangedIds(w) /\ id \notin AddedIds(w)
    <3>1. work[id] = RowById(h, id)
      BY <1>7, <2>3 DEF Work
    <3>2. id \in Identities(s)
      BY <1>4, <2>3
    <3>3. /\ canonicalCell(RowById(h, id), t.key) = id
          /\ Record(RowById(h, id), t.fields) \in Recs(s)
      BY <1>1, <1>2, <3>2, RowByIdRec DEF KeyedSet
    <3>4. /\ canonicalCell(RowById(s, id), t.key) = id
          /\ Record(RowById(s, id), t.fields) \in Recs(s)
      BY <1>1, <3>2, RowByIdRec DEF KeyedSet
    <3>5. Record(RowById(h, id), t.fields) = Record(RowById(s, id), t.fields)
      <4>1. \A r, q \in Recs(s) : r[t.key] = q[t.key] => r = q
        BY <1>1, UniqueRecs DEF KeyedSet
      <4>2. t.key \in Range(t.fields)
        BY DEF KeyedSet
      <4> QED
        BY <3>3, <3>4, <4>1, <4>2, RecordCell
    <3>6. PICK i \in DOMAIN t.rows : canonicalCell(t.rows[i], t.key) = id
      BY DEF Identities
    <3>7. rowsEqual(RowById(s, id), t.rows[i], t.fields)
      BY <1>5, <2>3, <3>2, <3>6
    <3>8. Record(RowById(s, id), t.fields) = Record(t.rows[i], t.fields)
      BY <3>7 DEF rowsEqual, Record
    <3>9. Record(t.rows[i], t.fields) \in Recs(t)
      BY DEF Recs
    <3> QED
      BY <3>1, <3>3, <3>5, <3>8, <3>9
  <2> QED
    BY <2>1, <2>2, <2>3
<1> QED
  BY <1>7, <1>8 DEF w

LEMMA IdentitiesFinite ==
    ASSUME NEW s, IsFiniteSet(DOMAIN s.rows)
    PROVE  IsFiniteSet(Identities(s))
<1> DEFINE id == [i \in DOMAIN s.rows |-> canonicalCell(s.rows[i], s.key)]
<1>1. id \in Surjection(DOMAIN s.rows, Identities(s))
  BY DEF Surjection, Identities
<1> QED
  BY <1>1, FS_Surjection, Zenon

\* Read back in whatever order, the working copy holds t.
LEMMA AppliedHolds ==
    ASSUME NEW s, KeyedSet(s), NEW t, KeyedSet(t), Diffable(s, t), NEW h, Holds(h, s),
           NEW a \in Applied(h, Wire(s, t))
    PROVE  Holds(a, t)
<1> DEFINE work == Work(h, Wire(s, t))
           n == Cardinality(Identities(t))
<1>1. /\ DOMAIN work = Identities(t)
      /\ \A id \in Identities(t) :
            /\ canonicalCell(work[id], t.key) = id
            /\ Record(work[id], t.fields) \in Recs(t)
  BY WorkIsNext
<1> HIDE DEF work
<1>2. PICK order \in Bijection(1 .. n, Identities(t)) :
          a = [key |-> h.key, fields |-> h.fields,
               rows |-> [i \in DOMAIN order |-> work[order[i]]]]
  BY <1>1 DEF Applied, work
<1>3. /\ DOMAIN order = 1 .. n
      /\ \A i \in 1 .. n : order[i] \in Identities(t)
      /\ \A i, j \in 1 .. n : order[i] = order[j] => i = j
      /\ \A id \in Identities(t) : \E i \in 1 .. n : order[i] = id
  BY DEF Bijection, Injection, Surjection, IsInjective
<1>4. /\ a.key = t.key /\ a.fields = t.fields
      /\ DOMAIN a.rows = 1 .. n
      /\ \A i \in 1 .. n : a.rows[i] = work[order[i]]
  BY <1>2, <1>3 DEF Diffable, SameSchema, Holds
<1>5. n \in Nat
  BY IdentitiesFinite, FS_CardinalityType DEF KeyedSet
<1>6. IsFiniteSet(DOMAIN a.rows)
  BY <1>4, <1>5, FS_Interval
<1>7. IdentitiesUnique(a)
  BY <1>1, <1>3, <1>4 DEF IdentitiesUnique
<1>8. t.key \in Range(t.fields) /\ IdentitiesUnique(t)
  BY DEF KeyedSet, Diffable
<1>9. Recs(a) = Recs(t)
  <2>1. Recs(a) \subseteq Recs(t)
    BY <1>1, <1>3, <1>4 DEF Recs
  <2>2. ASSUME NEW r \in Recs(t) PROVE r \in Recs(a)
    <3>1. r[t.key] \in Identities(t)
      BY <1>8, IdentitiesFromRecs
    <3>2. PICK i \in 1 .. n : order[i] = r[t.key]
      BY <1>3, <3>1
    <3>3. Record(a.rows[i], t.fields) \in Recs(t) /\ Record(a.rows[i], t.fields)[t.key] = r[t.key]
      BY <1>1, <1>4, <1>8, <3>1, <3>2, RecordCell
    <3>4. Record(a.rows[i], t.fields) = r
      BY <1>8, <3>3, UniqueRecs
    <3> QED
      BY <1>4, <3>4 DEF Recs
  <2> QED
    BY <2>1, <2>2
<1>10. GenericPackRoot(a) = GenericPackRoot(t)
  BY <1>4, <1>7, <1>8, <1>9, RootFromRecs
<1> QED
  BY <1>4, <1>6, <1>10 DEF Holds

\* VerifyGenericDelta accepts the delta from s to t on any set that holds s,
\* and returns one that holds t, whatever order Go's map gives its rows
\* (generic_delta.go:224-286).
THEOREM DeltaApplies ==
    ASSUME NEW s, KeyedSet(s), NEW t, KeyedSet(t), Diffable(s, t), NEW h, Holds(h, s)
    PROVE  LET outcomes == VerifyGenericDelta(h, Wire(s, t), GenericPackRoot(t))
           IN  /\ outcomes # {}
               /\ \A r \in outcomes : r.err = "none" /\ Holds(r.set, t)
<1> DEFINE outcomes == VerifyGenericDelta(h, Wire(s, t), GenericPackRoot(t))
<1>1. GenericPackRoot(h) = Wire(s, t).baseRoot /\ Admissible(h, Wire(s, t))
  BY WireAdmissible
<1>2. outcomes = {IF GenericPackRoot(a) = GenericPackRoot(t) THEN [err |-> "none", set |-> a]
                  ELSE Rejection(h, "root_mismatch") : a \in Applied(h, Wire(s, t))}
  BY <1>1 DEF VerifyGenericDelta
<1>3. \A a \in Applied(h, Wire(s, t)) : Holds(a, t) /\ GenericPackRoot(a) = GenericPackRoot(t)
  BY AppliedHolds DEF Holds
<1>4. outcomes = {[err |-> "none", set |-> a] : a \in Applied(h, Wire(s, t))}
  BY <1>2, <1>3
<1>5. Applied(h, Wire(s, t)) # {}
  <2>1. DOMAIN Work(h, Wire(s, t)) = Identities(t)
    BY WorkIsNext
  <2>2. Bijection(1 .. Cardinality(Identities(t)), Identities(t)) # {}
    BY IdentitiesFinite, FS_CardinalityType DEF KeyedSet, ExistsBijection
  <2> QED
    BY <2>1, <2>2 DEF Applied
<1>6. \A r \in outcomes : \E a \in Applied(h, Wire(s, t)) : r = [err |-> "none", set |-> a]
  BY <1>4
<1>7. \A r \in outcomes : r.err = "none" /\ Holds(r.set, t)
  <2> HIDE DEF outcomes
  <2> QED
    BY <1>3, <1>6
<1>8. outcomes # {}
  BY <1>4, <1>5
<1> QED
  BY <1>7, <1>8

\* A full payload holds its set.
LEMMA FullHolds ==
    ASSUME NEW s, s = [key |-> s.key, fields |-> s.fields, rows |-> s.rows],
           IsFiniteSet(DOMAIN s.rows), Celled(s)
    PROVE  Holds(Full(s).set, s)
<1> DEFINE h == Full(s).set
<1>1. /\ h.key = s.key /\ h.fields = s.fields
      /\ DOMAIN h.rows = DOMAIN s.rows
      /\ \A i \in DOMAIN s.rows : h.rows[i] = RowOnWire(s.rows[i], s.fields)
  BY DEF Full
<1> HIDE DEF h
<1>2. \A i \in DOMAIN s.rows : Record(h.rows[i], h.fields) = Record(s.rows[i], s.fields)
  BY <1>1, RecordOnWire DEF Celled
<1>3. GenericPackRoot(h) = GenericPackRoot(s)
  BY <1>1, <1>2 DEF GenericPackRoot
<1> QED
  BY <1>1, <1>3 DEF Holds, h

-----------------------------------------------------------------------------
(* More than the root: the values themselves.                              *)

\* The row is what a decoder makes of a row under fields.
WireRow(row, fields) ==
    /\ row = [f \in Range(fields) |-> row[f]]
    /\ \A f \in Range(fields) : \E v \in Values : row[f] = OnWire[v]

WireRows(h) == \A i \in DOMAIN h.rows : WireRow(h.rows[i], h.fields)

LEMMA RowOnWireIsWire ==
    ASSUME NEW row, NEW fields, \A f \in Range(fields) : Value(row, f) \in Values
    PROVE  WireRow(RowOnWire(row, fields), fields)
BY DEF WireRow, RowOnWire

LEMMA FullWireRows ==
    ASSUME NEW s, s = [key |-> s.key, fields |-> s.fields, rows |-> s.rows], Celled(s)
    PROVE  WireRows(Full(s).set)
<1> DEFINE h == Full(s).set
<1>1. /\ h.fields = s.fields
      /\ DOMAIN h.rows = DOMAIN s.rows
      /\ \A i \in DOMAIN s.rows : h.rows[i] = RowOnWire(s.rows[i], s.fields)
  BY DEF Full
<1> HIDE DEF h
<1> QED
  BY <1>1, RowOnWireIsWire DEF WireRows, Celled, h

LEMMA AppliedWireRows ==
    ASSUME NEW s, KeyedSet(s), NEW t, KeyedSet(t), Diffable(s, t), NEW h, Holds(h, s),
           WireRows(h), NEW a \in Applied(h, Wire(s, t))
    PROVE  WireRows(a)
<1> DEFINE w == Wire(s, t)
           work == Work(h, w)
<1>1. h.fields = t.fields /\ h.key = t.key
  BY DEF Holds, Diffable, SameSchema
<1>2. ASSUME NEW i \in DOMAIN t.rows PROVE WireRow(RowOnWire(t.rows[i], t.fields), t.fields)
  BY RowOnWireIsWire DEF KeyedSet, Celled
<1>3. \A row \in w.added \cup w.changed : WireRow(row, t.fields)
  <2>1. /\ DiffGenericSets(s, t).added \subseteq Range(t.rows)
        /\ DiffGenericSets(s, t).changed \subseteq Range(t.rows)
    BY DEF DiffGenericSets
  <2>2. \A row \in w.added \cup w.changed :
            \E i \in DOMAIN t.rows : row = RowOnWire(t.rows[i], t.fields)
    BY <2>1, WireFields DEF Range
  <2> QED
    BY <1>2, <2>2
<1>4. w.key = t.key
  BY WireFields
<1> HIDE DEF w
<1>6. ASSUME NEW id \in DOMAIN work PROVE WireRow(work[id], t.fields)
  <2>1. CASE id \in ChangedIds(w)
    <3>1. work[id] = RowIn(w.changed, t.key, id)
      BY <1>4, <2>1 DEF Work
    <3>2. \E row \in w.changed : canonicalCell(row, t.key) = id
      BY <1>4, <2>1 DEF ChangedIds
    <3> QED
      BY <1>3, <3>1, <3>2, RowInRec
  <2>2. CASE id \notin ChangedIds(w) /\ id \in AddedIds(w)
    <3>1. work[id] = RowIn(w.added, t.key, id)
      BY <1>4, <2>2 DEF Work
    <3>2. \E row \in w.added : canonicalCell(row, t.key) = id
      BY <1>4, <2>2 DEF AddedIds
    <3> QED
      BY <1>3, <3>1, <3>2, RowInRec
  <2>3. CASE id \notin ChangedIds(w) /\ id \notin AddedIds(w)
    <3>1. work[id] = RowById(h, id) /\ id \in Identities(h)
      BY <2>3 DEF Work
    <3>2. PICK i \in DOMAIN h.rows : work[id] = h.rows[i]
      BY <1>1, <3>1, RowByIdRec DEF KeyedSet
    <3> QED
      BY <1>1, <3>2 DEF WireRows
  <2> QED
    BY <2>1, <2>2, <2>3
<1>7. PICK order \in Bijection(1 .. Cardinality(DOMAIN work), DOMAIN work) :
          a = [key |-> h.key, fields |-> h.fields,
               rows |-> [i \in DOMAIN order |-> work[order[i]]]]
  BY DEF Applied, w
<1> HIDE DEF work
<1>8. \A i \in DOMAIN order : order[i] \in DOMAIN work
  BY DEF Bijection, Injection
<1>9. /\ a.fields = t.fields
      /\ DOMAIN a.rows = DOMAIN order
      /\ \A i \in DOMAIN order : a.rows[i] = work[order[i]]
  BY <1>1, <1>7
<1> QED
  BY <1>6, <1>8, <1>9 DEF WireRows

\* No two values share a cell that the wire tells apart.
CellsTellValues == \A v, u \in Values : Canon[v] = Canon[u] => OnWire[v] = OnWire[u]

\* The rows of h, each as often as it occurs.
RowBag(q) == [r \in Range(q) |-> Cardinality({i \in DOMAIN q : q[i] = r})]

\* Where cells tell values apart, equal roots are equal bags of rows.
LEMMA HoldsRows ==
    ASSUME CellsTellValues, NEW s, Celled(s), NEW h, Holds(h, s), WireRows(h)
    PROVE  RowBag(h.rows) = RowBag([i \in DOMAIN s.rows |-> RowOnWire(s.rows[i], s.fields)])
<1> DEFINE q == [i \in DOMAIN s.rows |-> RowOnWire(s.rows[i], s.fields)]
           Rec(row) == Record(row, s.fields)
<1>1. /\ h.fields = s.fields
      /\ GenericPackRoot(h) = GenericPackRoot(s)
      /\ Recs(h) = Recs(s)
  BY RootDomain DEF Holds
<1>2. \A i \in DOMAIN h.rows : WireRow(h.rows[i], s.fields)
  BY <1>1 DEF WireRows
<1>3. \A i \in DOMAIN s.rows : WireRow(q[i], s.fields) /\ Rec(q[i]) = Rec(s.rows[i])
  BY RecordOnWire, RowOnWireIsWire DEF Celled
<1>4. ASSUME NEW a, WireRow(a, s.fields), NEW b, WireRow(b, s.fields), Rec(a) = Rec(b)
      PROVE  a = b
  <2>1. ASSUME NEW f \in Range(s.fields) PROVE a[f] = b[f]
    <3>1. PICK v \in Values : a[f] = OnWire[v]
      BY <1>4 DEF WireRow
    <3>2. PICK u \in Values : b[f] = OnWire[u]
      BY <1>4 DEF WireRow
    <3>3. DOMAIN a = Range(s.fields) /\ DOMAIN b = Range(s.fields)
      BY <1>4 DEF WireRow
    <3>4. canonicalCell(a, f) = canonicalCell(b, f)
      BY <1>4, RecordCell
    <3>5. Canon[OnWire[v]] = Canon[OnWire[u]]
      BY <3>1, <3>2, <3>3, <3>4 DEF canonicalCell, Value
    <3> QED
      BY <3>1, <3>2, <3>5, WireKeepsCells DEF CellsTellValues
  <2> QED
    BY <1>4, <2>1 DEF WireRow
<1>5. DOMAIN q = DOMAIN s.rows
  OBVIOUS
<1> HIDE DEF q
<1>6. Range(h.rows) = Range(q)
  <2>1. ASSUME NEW i \in DOMAIN h.rows PROVE \E j \in DOMAIN q : q[j] = h.rows[i]
    <3>1. PICK j \in DOMAIN s.rows : Rec(s.rows[j]) = Rec(h.rows[i])
      BY <1>1 DEF Recs
    <3> QED
      BY <1>2, <1>3, <1>4, <1>5, <3>1
  <2>2. ASSUME NEW j \in DOMAIN q PROVE \E i \in DOMAIN h.rows : h.rows[i] = q[j]
    <3>1. PICK i \in DOMAIN h.rows : Rec(h.rows[i]) = Rec(s.rows[j])
      BY <1>1, <1>5 DEF Recs
    <3> QED
      BY <1>2, <1>3, <1>4, <1>5, <3>1
  <2> QED
    BY <2>1, <2>2 DEF Range
<1>7. ASSUME NEW r \in Range(q)
      PROVE  Cardinality({i \in DOMAIN h.rows : h.rows[i] = r}) =
             Cardinality({j \in DOMAIN q : q[j] = r})
  <2>1. WireRow(r, s.fields) /\ Rec(r) \in Recs(s)
    BY <1>3, <1>5 DEF Range, Recs
  <2>2. {i \in DOMAIN h.rows : h.rows[i] = r} =
        {i \in DOMAIN h.rows : Record(h.rows[i], h.fields) = Rec(r)}
    BY <1>1, <1>2, <1>4, <2>1
  <2>3. {j \in DOMAIN q : q[j] = r} =
        {j \in DOMAIN s.rows : Record(s.rows[j], s.fields) = Rec(r)}
    BY <1>3, <1>4, <1>5, <2>1
  <2>4. GenericPackRoot(h)[Rec(r)] = GenericPackRoot(s)[Rec(r)]
    BY <1>1
  <2> QED
    BY <1>1, <2>1, <2>2, <2>3, <2>4 DEF GenericPackRoot, Recs
<1> QED
  BY <1>6, <1>7 DEF RowBag, q
=============================================================================
