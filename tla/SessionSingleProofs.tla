------------------------ MODULE SessionSingleProofs ------------------------
(***************************************************************************)
(* One encoder at a time, as a mutex around EncodeWithSession would give:  *)
(* then the steps of an encode add up to one step of AtomicSession, and    *)
(* what AtomicSession promises the client holds of the session.            *)
(***************************************************************************)
EXTENDS SessionProofs

\* One goroutine: a single encoder, which also makes the resets, and no other
\* calls of Record.
OneAtATime == QuiescentReset /\ MaxRecords = 0

\* No payload has a qualified name twice.
NoRepeats ==
    \A p \in Payloads : \A i, j \in Positions(p) :
        p.syms[i].name = p.syms[j].name => i = j

-----------------------------------------------------------------------------
(* Ids.                                                                    *)

LEMMA NamesDistinct ==
    ASSUME NoRepeats, NEW p \in Payloads \cup {NoPayload}
    PROVE  \A i, j \in Positions(p) : p.syms[i].name = p.syms[j].name => i = j
<1>1. Positions(NoPayload) = {}
  BY DEF Positions, NoPayload
<1> QED
  BY <1>1 DEF NoRepeats

\* The id of the symbol at position i of a batch, by place.
PlaceId(idx, i) == nextID + Cardinality({j \in idx : j < i})

LEMMA FreshIsPlace ==
    ASSUME NoRepeats, NEW p \in Payloads \cup {NoPayload},
           NEW idx \in SUBSET Positions(p), NEW i \in idx
    PROVE  FreshIndex(p, idx, p.syms[i].name) = PlaceId(idx, i)
<1> DEFINE q == p.syms[i].name
           Last(k) == p.syms[k].name = q /\ \A j \in idx : p.syms[j].name = q => j <= k
<1>1. \A k \in idx : p.syms[k].name = q <=> k = i
  BY NamesDistinct
<1>2. i \in Nat
  BY PayloadShape
<1>3. \A k \in idx : Last(k) <=> k = i
  BY <1>1, <1>2
<1>4. (CHOOSE k \in idx : Last(k)) = i
  BY <1>3
<1> QED
  BY <1>4 DEF FreshIndex, PlaceId

LEMMA RecordedIds ==
    ASSUME NoRepeats, NEW p \in Payloads \cup {NoPayload},
           NEW idx \in SUBSET Positions(p), Record(p, idx),
           \A i \in idx : ~Transmitted(p.syms[i].name)
    PROVE  /\ DOMAIN symbols' = DOMAIN symbols \cup NamesAt(p, idx)
           /\ \A q \in DOMAIN symbols : symbols'[q] = symbols[q]
           /\ \A i \in idx : symbols'[p.syms[i].name] = PlaceId(idx, i)
<1>1. Unrecorded(p, idx) = NamesAt(p, idx)
  BY DEF Unrecorded, NamesAt, Transmitted
<1>2. symbols' = [q \in DOMAIN symbols \cup NamesAt(p, idx) |->
                    IF Transmitted(q) THEN symbols[q]
                    ELSE nextID + Cardinality(MetBefore(p, idx, q))]
  BY <1>1 DEF Record
<1>3. ASSUME NEW i \in idx
      PROVE  Cardinality(MetBefore(p, idx, p.syms[i].name)) = Cardinality({j \in idx : j < i})
  <2> DEFINE S == {j \in idx : j < i}
             M == MetBefore(p, idx, p.syms[i].name)
             f == [j \in S |-> p.syms[j].name]
  <2>1. \A j, k \in idx : p.syms[j].name = p.syms[k].name => j = k
    BY NamesDistinct
  <2>2. M = {p.syms[j].name : j \in S}
    BY <1>1, <2>1 DEF MetBefore, NamesAt
  <2>3. IsFiniteSet(S)
    BY PayloadShape, FS_Subset
  <2>4. f \in Bijection(S, M)
    BY <2>1, <2>2 DEF Bijection, Injection, IsInjective, Surjection
  <2> HIDE DEF S, M, f
  <2>5. ExistsBijection(S, M)
    BY <2>4 DEF ExistsBijection
  <2> QED
    BY <2>3, <2>5, FS_Bijection DEF S, M
<1>4. \A i \in idx : p.syms[i].name \in NamesAt(p, idx)
  BY DEF NamesAt
<1> QED
  BY <1>2, <1>3, <1>4 DEF PlaceId, Transmitted

\* The table is dense, so the next id is the number of names.
LEMMA TableCount ==
    ASSUME TypeInv, TableDense
    PROVE  nextID = Cardinality(DOMAIN symbols)
<1>1. symbols \in [DOMAIN symbols -> Nat] /\ nextID \in Nat
  BY MapsToMember DEF TypeInv, Typed
<1> DEFINE D == DOMAIN symbols
           R == 0 .. nextID - 1
<1>2. symbols \in Bijection(D, R)
  BY <1>1 DEF TableDense, Bijection, Injection, IsInjective, Surjection
<1>3. IsFiniteSet(R) /\ Cardinality(R) = nextID
  <2>1. 0 \in Int /\ nextID - 1 \in Int
    BY <1>1
  <2>2. IsFiniteSet(R) /\ Cardinality(R) = IF 0 > nextID - 1 THEN 0 ELSE (nextID - 1) - 0 + 1
    BY <2>1, FS_Interval, Zenon
  <2> QED
    BY <1>1, <2>2
<1> HIDE DEF D, R
<1>4. IsFiniteSet(D)
  BY <1>2, <1>3, FS_Injection DEF Bijection
<1>5. ExistsBijection(D, R)
  BY <1>2 DEF ExistsBijection
<1> QED
  BY <1>3, <1>4, <1>5, FS_Bijection DEF D

-----------------------------------------------------------------------------
(* The encode in progress.                                                 *)

\* The positions of idx whose names are new are those of isNew.
Split(e, idx) ==
    \A i \in idx : i \in isNew[e] <=> ~Transmitted(payload[e].syms[i].name)

\* localIndex has the names at idx: the new ones by place, the others as recorded.
Indexed(e, idx) ==
    /\ DOMAIN localIndex[e] = NamesAt(payload[e], idx)
    /\ \A i \in idx : localIndex[e][payload[e].syms[i].name] =
                         IF i \in isNew[e] THEN PlaceId(isNew[e], i)
                         ELSE symbols[payload[e].syms[i].name]

Before(p, i, j) ==
    \/ p.syms[i].rank < p.syms[j].rank
    \/ p.syms[i].rank = p.syms[j].rank /\ i < j

LineAt(e, i) ==
    [id |-> localIndex[e][payload[e].syms[i].name],
     name |-> payload[e].syms[i].name,
     full |-> i \in isNew[e]]

\* The lines written are those of the positions done, in wire order.
Wired(e, order) ==
    LET done == Positions(payload[e]) \ todo[e]
        n == Len(lines[e])
    IN  /\ order \in [1 .. n -> done]
        /\ \A i \in done : \E m \in 1 .. n : order[m] = i
        /\ \A m, k \in 1 .. n : m < k => Before(payload[e], order[m], order[k])
        /\ \A m \in 1 .. n, i \in todo[e] : Before(payload[e], order[m], i)
        /\ \A m \in 1 .. n : lines[e][m] = LineAt(e, order[m])

Single(e) ==
    LET all == Positions(payload[e])
    IN  /\ pc[e] # "idle" => payload[e] \in Payloads
        /\ pc[e] \in {"idle", "partition", "ids"} => lines[e] = << >>
        /\ pc[e] \in {"idle", "partition"} => localIndex[e] = NoIds
        /\ pc[e] \in {"partition", "ids"} => isNew[e] \cap todo[e] = {}
        /\ pc[e] = "partition" => Split(e, all \ todo[e])
        /\ pc[e] = "ids" => Split(e, all) /\ Indexed(e, all \ (isNew[e] \cup todo[e]))
        /\ pc[e] = "emit" => Split(e, all) /\ Indexed(e, all)
        /\ pc[e] = "return" =>
             /\ DOMAIN localIndex[e] = NamesAt(payload[e], all)
             /\ \A q \in NamesAt(payload[e], all) :
                   q \in DOMAIN symbols /\ localIndex[e][q] = symbols[q]
        /\ pc[e] \in {"emit", "return"} => \E order : Wired(e, order)

LEMMA SingleUntouched ==
    ASSUME NEW e, Single(e), UNCHANGED <<symbols, nextID, pc, payload, isNew, localIndex,
                                         todo, lines>>
    PROVE  Single(e)'
<1>1. \A idx : /\ Split(e, idx) => Split(e, idx)'
               /\ Indexed(e, idx) => Indexed(e, idx)'
  BY DEF Split, Indexed, PlaceId, Transmitted, NamesAt
<1>2. \A order : Wired(e, order) => Wired(e, order)'
  BY DEF Wired, LineAt, Positions
<1> QED
  BY <1>1, <1>2 DEF Single, NamesAt, Positions

LEMMA SingleBegin ==
    ASSUME TypeInv, NEW e \in Encoders, Single(e), NEW p \in Payloads, Begin(e, p)
    PROVE  Single(e)'
<1>1. /\ UNCHANGED <<symbols, nextID, isNew, localIndex, lines>>
      /\ pc[e] = "idle" /\ payload'[e] = p /\ todo'[e] = Positions(p)
      /\ pc'[e] = IF p.syms = << >> THEN "ids" ELSE "partition"
  BY DEF Begin, table, TypeInv, Typed
<1>2. isNew[e] = {} /\ lines[e] = << >> /\ localIndex[e] = NoIds
  BY <1>1 DEF Single, TypeInv, EncoderInv
<1>3. CASE p.syms # << >>
  <2>1. pc'[e] = "partition"
    BY <1>1, <1>3
  <2> QED
    BY <1>1, <1>2, <2>1 DEF Single, Split, Positions
<1>4. CASE p.syms = << >>
  <2>1. pc'[e] = "ids" /\ Positions(p) = {}
    BY <1>1, <1>4 DEF Positions
  <2>2. DOMAIN NoIds = {}
    BY DEF NoIds
  <2> QED
    BY <1>1, <1>2, <2>1, <2>2 DEF Single, Split, Indexed, NamesAt, Positions
<1> QED
  BY <1>3, <1>4

LEMMA SinglePartition ==
    ASSUME TypeInv, NEW e \in Encoders, Single(e), Partition(e)
    PROVE  Single(e)'
<1> DEFINE p == payload[e]
           all == Positions(p)
<1>1. PICK i \in todo[e] :
        LET new == isNew[e] \cup
                     (IF Transmitted(payload[e].syms[i].name) THEN {} ELSE {i})
            last == todo[e] = {i}
        IN  /\ isNew' = [isNew EXCEPT ![e] = new]
            /\ todo' = [todo EXCEPT ![e] =
                          IF last THEN Positions(payload[e]) \ new ELSE @ \ {i}]
            /\ pc' = [pc EXCEPT ![e] = IF last THEN "ids" ELSE @]
  BY DEF Partition
<1>2. /\ UNCHANGED <<symbols, payload, localIndex, lines>> /\ pc[e] = "partition"
  BY DEF Partition, table
<1>3. PICK new : /\ new = isNew[e] \cup
                      (IF Transmitted(payload[e].syms[i].name) THEN {} ELSE {i})
                 /\ isNew'[e] = new
                 /\ todo[e] = {i} => pc'[e] = "ids" /\ todo'[e] = all \ new
                 /\ todo[e] # {i} => pc'[e] = "partition" /\ todo'[e] = todo[e] \ {i}
  BY <1>1, <1>2 DEF TypeInv, Typed
<1>4. /\ isNew[e] \cap todo[e] = {} /\ Split(e, all \ todo[e])
      /\ lines[e] = << >> /\ localIndex[e] = NoIds
  BY <1>2 DEF Single
<1>5. \A j \in all \ (todo[e] \ {i}) : j \in new <=> ~Transmitted(p.syms[j].name)
  BY <1>3, <1>4 DEF Split
<1>6. CASE todo[e] # {i}
  BY <1>2, <1>3, <1>4, <1>5, <1>6 DEF Single, Split, Transmitted, Positions
<1>7. CASE todo[e] = {i}
  <2>1. DOMAIN NoIds = {} /\ all \ (new \cup (all \ new)) = {}
    BY DEF NoIds
  <2>2. Indexed(e, all \ (isNew[e] \cup todo[e]))'
    BY <1>2, <1>3, <1>4, <1>7, <2>1 DEF Indexed, NamesAt, Positions
  <2>3. Split(e, all)'
    BY <1>2, <1>3, <1>5, <1>7 DEF Split, Transmitted, Positions
  <2> QED
    BY <1>2, <1>3, <1>4, <1>7, <2>2, <2>3 DEF Single
<1> QED
  BY <1>6, <1>7

LEMMA SingleLookUp ==
    ASSUME NoRepeats, TypeInv, NEW e \in Encoders, Single(e), LookUp(e)
    PROVE  Single(e)'
<1> DEFINE p == payload[e]
           all == Positions(p)
           done == all \ (isNew[e] \cup todo[e])
<1>1. PICK i \in todo[e] :
        /\ localIndex' = [localIndex EXCEPT ![e] =
              [r \in DOMAIN @ \cup {payload[e].syms[i].name} |->
                 IF r = payload[e].syms[i].name
                 THEN GetID(payload[e].syms[i].name) ELSE @[r]]]
        /\ todo' = [todo EXCEPT ![e] = @ \ {i}]
  BY DEF LookUp
<1> DEFINE q == p.syms[i].name
<1>2. /\ UNCHANGED <<symbols, nextID, pc, payload, isNew, lines>> /\ pc[e] = "ids"
      /\ todo'[e] = todo[e] \ {i}
      /\ localIndex'[e] = [r \in DOMAIN localIndex[e] \cup {q} |->
                             IF r = q THEN GetID(q) ELSE localIndex[e][r]]
  BY <1>1 DEF LookUp, table, TypeInv, Typed
<1>3. /\ isNew[e] \cap todo[e] = {} /\ Split(e, all) /\ Indexed(e, done) /\ lines[e] = << >>
  BY <1>2 DEF Single
<1>4. i \in all /\ i \notin isNew[e] /\ p \in Payloads \cup {NoPayload}
  BY <1>3 DEF TypeInv, Typed, EncoderInv
<1>5. all \ (isNew[e] \cup (todo[e] \ {i})) = done \cup {i}
  BY <1>4
<1>6. GetID(q) = symbols[q]
  BY <1>3, <1>4 DEF Split, GetID
<1>7. \A j \in done : p.syms[j].name # q
  BY <1>4, NamesDistinct
<1>8. DOMAIN localIndex'[e] = NamesAt(p, done \cup {i})
  BY <1>2, <1>3 DEF Indexed, NamesAt
<1>9. ASSUME NEW j \in done \cup {i}
      PROVE  localIndex'[e][p.syms[j].name] = symbols[p.syms[j].name] /\ j \notin isNew[e]
  <2>1. CASE j = i
    BY <1>2, <1>4, <1>6, <2>1
  <2>2. CASE j \in done
    <3>1. localIndex[e][p.syms[j].name] = symbols[p.syms[j].name]
      BY <1>3, <2>2 DEF Indexed
    <3>2. p.syms[j].name \in DOMAIN localIndex[e]
      BY <1>3, <2>2 DEF Indexed, NamesAt
    <3> QED
      BY <1>2, <1>7, <2>2, <3>1, <3>2
  <2> QED
    BY <2>1, <2>2
<1>10. Indexed(e, all \ (isNew[e] \cup todo[e]))'
  <2>1. (all \ (isNew[e] \cup todo[e]))' = done \cup {i}
    BY <1>2, <1>5
  <2>2. DOMAIN localIndex'[e] = NamesAt(payload'[e], done \cup {i})
    BY <1>2, <1>8
  <2>3. \A j \in done \cup {i} :
          localIndex'[e][payload'[e].syms[j].name] =
            IF j \in isNew'[e] THEN PlaceId(isNew[e], j)' ELSE symbols'[payload'[e].syms[j].name]
    BY <1>2, <1>9
  <2> HIDE DEF done, all
  <2> QED
    BY <2>1, <2>2, <2>3 DEF Indexed
<1>11. Split(e, all)'
  BY <1>2, <1>3 DEF Split, Transmitted
<1>12. isNew'[e] \cap todo'[e] = {}
  BY <1>2, <1>3
<1> QED
  BY <1>2, <1>3, <1>10, <1>11, <1>12 DEF Single

LEMMA SingleAssign ==
    ASSUME NoRepeats, TypeInv, NEW e \in Encoders, Single(e), Assign(e)
    PROVE  Single(e)'
<1> DEFINE p == payload[e]
           all == Positions(p)
           new == NamesAt(p, isNew[e])
<1>1. /\ UNCHANGED <<symbols, nextID, payload, isNew, lines>> /\ pc[e] = "ids"
      /\ todo[e] = {} /\ todo'[e] = all
      /\ pc'[e] = "emit"
      /\ localIndex'[e] = [r \in DOMAIN localIndex[e] \cup new |->
                             IF r \in new THEN FreshIndex(p, isNew[e], r)
                             ELSE localIndex[e][r]]
  BY DEF Assign, table, TypeInv, Typed
<1>2. Split(e, all) /\ Indexed(e, all \ isNew[e]) /\ lines[e] = << >>
  BY <1>1 DEF Single
<1>3. isNew[e] \in SUBSET all /\ p \in Payloads \cup {NoPayload}
  BY DEF TypeInv, Typed, EncoderInv
<1>4. DOMAIN localIndex'[e] = NamesAt(p, all)
  BY <1>1, <1>2, <1>3 DEF Indexed, NamesAt
<1>5. ASSUME NEW i \in all
      PROVE  localIndex'[e][p.syms[i].name] =
               IF i \in isNew[e] THEN PlaceId(isNew[e], i) ELSE symbols[p.syms[i].name]
  <2>1. CASE i \in isNew[e]
    <3>1. p.syms[i].name \in new
      BY <2>1 DEF NamesAt
    <3>2. FreshIndex(p, isNew[e], p.syms[i].name) = PlaceId(isNew[e], i)
      BY <1>3, <2>1, FreshIsPlace
    <3> QED
      BY <1>1, <2>1, <3>1, <3>2
  <2>2. CASE i \notin isNew[e]
    <3>1. p.syms[i].name \notin new
      BY <1>3, <2>2, NamesDistinct DEF NamesAt
    <3>2. p.syms[i].name \in DOMAIN localIndex[e]
      BY <1>2, <2>2 DEF Indexed, NamesAt
    <3>3. localIndex[e][p.syms[i].name] = symbols[p.syms[i].name]
      BY <1>2, <2>2 DEF Indexed
    <3> QED
      BY <1>1, <2>2, <3>1, <3>2, <3>3
  <2> QED
    BY <2>1, <2>2
<1>6. Indexed(e, all)'
  BY <1>1, <1>4, <1>5 DEF Indexed, NamesAt, Positions, PlaceId
<1>7. Split(e, all)'
  BY <1>1, <1>2 DEF Split, Transmitted
<1>8. Wired(e, << >>)'
  <2>1. Positions(payload'[e]) \ todo'[e] = {} /\ Len(lines'[e]) = 0 /\ 1 .. 0 = {}
    BY <1>1, <1>2
  <2>2. << >> \in [{} -> {}]
    OBVIOUS
  <2> QED
    BY <2>1, <2>2 DEF Wired
<1> QED
  BY <1>1, <1>6, <1>7, <1>8 DEF Single

LEMMA SingleEmit ==
    ASSUME TypeInv, NEW e \in Encoders, Single(e), Emit(e)
    PROVE  Single(e)'
<1> DEFINE p == payload[e]
           all == Positions(p)
           done == all \ todo[e]
           n == Len(lines[e])
<1>1. PICK i \in todo[e] :
        /\ \A j \in todo[e] : WiredBefore(payload[e], i, j)
        /\ lines' = [lines EXCEPT ![e] =
              Append(@, [id   |-> localIndex[e][payload[e].syms[i].name],
                         name |-> payload[e].syms[i].name,
                         full |-> ~Transmitted(payload[e].syms[i].name)])]
        /\ todo' = [todo EXCEPT ![e] = @ \ {i}]
  BY DEF Emit
<1>2. UNCHANGED <<symbols, nextID, pc, payload, isNew, localIndex>> /\ pc[e] = "emit"
  BY DEF Emit, table
<1>3. /\ lines[e] \in Seq(Line) /\ todo[e] \subseteq all /\ all \in SUBSET Nat
      /\ p \in Payloads \cup {NoPayload}
  BY PayloadShape DEF TypeInv, Typed, EncoderInv
<1>4. /\ Split(e, all) /\ Indexed(e, all) /\ i \in all /\ i \notin done
  BY <1>2, <1>3 DEF Single
<1>5. PICK order : Wired(e, order)
  BY <1>2 DEF Single
<1>6. /\ order \in [1 .. n -> done]
      /\ \A j \in done : \E m \in 1 .. n : order[m] = j
      /\ \A m, k \in 1 .. n : m < k => Before(p, order[m], order[k])
      /\ \A m \in 1 .. n, j \in todo[e] : Before(p, order[m], j)
      /\ \A m \in 1 .. n : lines[e][m] = LineAt(e, order[m])
  BY <1>5 DEF Wired
<1>7. todo'[e] = todo[e] \ {i} /\ lines'[e] = Append(lines[e], LineAt(e, i))
  <2>1. (i \in isNew[e]) = ~Transmitted(p.syms[i].name)
    BY <1>4 DEF Split
  <2>2. lines'[e] = Append(lines[e], [id |-> localIndex[e][payload[e].syms[i].name],
                                      name |-> payload[e].syms[i].name,
                                      full |-> ~Transmitted(payload[e].syms[i].name)])
    BY <1>1 DEF TypeInv, Typed
  <2> QED
    BY <1>1, <2>1, <2>2 DEF LineAt, TypeInv, Typed
<1> DEFINE line == LineAt(e, i)
<1> HIDE DEF line
<1>8. /\ n \in Nat
      /\ Len(lines'[e]) = n + 1
      /\ lines'[e][n + 1] = line
      /\ \A m \in 1 .. n : lines'[e][m] = lines[e][m]
  <2>1. line \in Line
    <3>1. localIndex[e][p.syms[i].name] \in Int
      BY <1>2, <1>4, MapsToMember DEF TypeInv, Typed, EncoderInv, NamesAt
    <3>2. p.syms[i].name \in Names
      BY <1>3, <1>4, PayloadShape
    <3> QED
      BY <3>1, <3>2 DEF line, LineAt, Line
  <2>2. lines'[e] = Append(lines[e], line)
    BY <1>7 DEF line
  <2> QED
    BY <1>3, <2>1, <2>2
<1> DEFINE more == [m \in 1 .. n + 1 |-> IF m = n + 1 THEN i ELSE order[m]]
           rest == todo[e] \ {i}
<1>9. all \ rest = done \cup {i}
  BY <1>3, <1>4
<1>10. /\ more[n + 1] = i
       /\ \A m \in 1 .. n : more[m] = order[m] /\ order[m] \in done
       /\ more \in [1 .. n + 1 -> done \cup {i}]
  BY <1>6, <1>8
<1>11. \A j \in rest : Before(p, i, j)
  BY <1>1, <1>3, <1>4 DEF WiredBefore, Before
<1> HIDE DEF more, n
<1>12. \A j \in done \cup {i} : \E m \in 1 .. n + 1 : more[m] = j
  <2>1. n + 1 \in 1 .. n + 1 /\ \A m \in 1 .. n : m \in 1 .. n + 1
    BY <1>8
  <2> QED
    BY <1>6, <1>10, <2>1
<1>13. ASSUME NEW m \in 1 .. n + 1, NEW k \in 1 .. n + 1, m < k
       PROVE  Before(p, more[m], more[k])
  <2>1. m \in 1 .. n /\ (k = n + 1 \/ k \in 1 .. n)
    BY <1>8, <1>13
  <2> QED
    BY <1>6, <1>10, <1>13, <2>1
<1>14. ASSUME NEW m \in 1 .. n + 1, NEW j \in rest
       PROVE  Before(p, more[m], j)
  <2>1. m = n + 1 \/ m \in 1 .. n
    BY <1>8
  <2> QED
    BY <1>6, <1>10, <1>11, <2>1
<1>15. ASSUME NEW m \in 1 .. n + 1 PROVE lines'[e][m] = LineAt(e, more[m])
  <2>1. m = n + 1 \/ m \in 1 .. n
    BY <1>8
  <2> QED
    BY <1>6, <1>8, <1>10, <2>1 DEF line
<1>16. PICK wire : wire = more
  OBVIOUS
<1>17. Wired(e, wire)'
  <2>1. /\ payload'[e] = p /\ todo'[e] = rest /\ Len(lines'[e]) = n + 1
        /\ (Positions(payload[e]) \ todo[e])' = done \cup {i}
    BY <1>2, <1>7, <1>8, <1>9
  <2>2. \A j : LineAt(e, j)' = LineAt(e, j)
    BY <1>2 DEF LineAt
  <2>3. /\ wire \in [1 .. n + 1 -> done \cup {i}]
        /\ \A j \in done \cup {i} : \E m \in 1 .. n + 1 : wire[m] = j
        /\ \A m, k \in 1 .. n + 1 : m < k => Before(p, wire[m], wire[k])
        /\ \A m \in 1 .. n + 1, j \in rest : Before(p, wire[m], j)
        /\ \A m \in 1 .. n + 1 : lines'[e][m] = LineAt(e, wire[m])
    BY <1>10, <1>12, <1>13, <1>14, <1>15, <1>16
  <2> HIDE DEF done, rest, all, p
  <2> QED
    BY <2>1, <2>2, <2>3 DEF Wired
<1>18. Split(e, all)' /\ Indexed(e, all)'
  BY <1>2, <1>4 DEF Split, Indexed, Transmitted, PlaceId, NamesAt
<1> QED
  BY <1>2, <1>17, <1>18 DEF Single

\* Finish records what Assign foresaw.
LEMMA FinishRecords ==
    ASSUME NoRepeats, TypeInv, NEW e \in Encoders, Single(e), Finish(e)
    PROVE  LET p == payload[e]
           IN  /\ DOMAIN symbols' = DOMAIN symbols \cup NamesAt(p, isNew[e])
               /\ \A q \in DOMAIN symbols : symbols'[q] = symbols[q]
               /\ \A i \in isNew[e] : symbols'[p.syms[i].name] = PlaceId(isNew[e], i)
               /\ DOMAIN localIndex[e] = NamesAt(p, Positions(p))
               /\ \A q \in NamesAt(p, Positions(p)) :
                     q \in DOMAIN symbols' /\ localIndex[e][q] = symbols'[q]
<1> DEFINE p == payload[e]
           all == Positions(p)
<1>1. Record(p, isNew[e]) /\ pc[e] = "emit" /\ todo[e] = {}
  BY DEF Finish
<1>2. Split(e, all) /\ Indexed(e, all) /\ isNew[e] \in SUBSET all
      /\ p \in Payloads \cup {NoPayload}
  BY <1>1 DEF Single, TypeInv, Typed, EncoderInv
<1>3. \A i \in isNew[e] : ~Transmitted(p.syms[i].name)
  BY <1>2 DEF Split
<1>4. /\ DOMAIN symbols' = DOMAIN symbols \cup NamesAt(p, isNew[e])
      /\ \A q \in DOMAIN symbols : symbols'[q] = symbols[q]
      /\ \A i \in isNew[e] : symbols'[p.syms[i].name] = PlaceId(isNew[e], i)
  BY <1>1, <1>2, <1>3, RecordedIds
<1>5. ASSUME NEW i \in all
      PROVE  p.syms[i].name \in DOMAIN symbols'
             /\ localIndex[e][p.syms[i].name] = symbols'[p.syms[i].name]
  <2>1. CASE i \in isNew[e]
    BY <1>2, <1>4, <2>1 DEF Indexed, NamesAt
  <2>2. CASE i \notin isNew[e]
    <3>1. p.syms[i].name \in DOMAIN symbols
      BY <1>2, <2>2 DEF Split, Transmitted
    <3> QED
      BY <1>2, <1>4, <2>2, <3>1 DEF Indexed
  <2> QED
    BY <2>1, <2>2
<1> QED
  BY <1>2, <1>4, <1>5 DEF Indexed, NamesAt

LEMMA SingleFinish ==
    ASSUME NoRepeats, TypeInv, NEW e \in Encoders, Single(e), Finish(e)
    PROVE  Single(e)'
<1>1. /\ UNCHANGED <<payload, isNew, localIndex, todo, lines>>
      /\ pc[e] = "emit" /\ pc'[e] = "return"
  BY DEF Finish, locals, TypeInv, Typed
<1>2. PICK order : Wired(e, order)
  BY <1>1 DEF Single
<1>3. Wired(e, order)'
  BY <1>1, <1>2 DEF Wired, LineAt
<1>4. /\ DOMAIN localIndex[e] = NamesAt(payload[e], Positions(payload[e]))
      /\ \A q \in NamesAt(payload[e], Positions(payload[e])) :
            q \in DOMAIN symbols' /\ localIndex[e][q] = symbols'[q]
  BY FinishRecords
<1> QED
  BY <1>1, <1>3, <1>4 DEF Single

LEMMA SingleStep ==
    ASSUME NoRepeats, OneAtATime, NEW e, Encoders = {e}, TypeInv, Single(e), [Next]_vars
    PROVE  Single(e)'
<1>1. CASE UNCHANGED vars
  BY <1>1, SingleUntouched DEF vars, table, locals
<1>2. ASSUME NEW p \in Payloads, Begin(e, p) PROVE Single(e)'
  BY <1>2, SingleBegin
<1>3. CASE Return(e)
  <2>1. pc'[e] = "idle" /\ localIndex'[e] = NoIds /\ lines'[e] = << >>
    BY <1>3 DEF Return, TypeInv, Typed
  <2> QED
    BY <2>1 DEF Single
<1>4. CASE Step(e)
  BY <1>3, <1>4, SinglePartition, SingleLookUp, SingleAssign, SingleEmit, SingleFinish DEF Step
<1>5. CASE Reset
  <2>1. UNCHANGED <<pc, payload, isNew, localIndex, todo, lines>> /\ pc[e] = "idle"
    BY <1>5 DEF Reset, locals, OneAtATime
  <2> QED
    BY <2>1 DEF Single
<1>6. ASSUME NEW p \in Payloads, RecordCall(p) PROVE FALSE
  BY <1>6 DEF RecordCall, OneAtATime, TypeInv, Typed
<1> QED
  BY <1>1, <1>2, <1>4, <1>5, <1>6 DEF Next

LEMMA SingleInit == \A e \in Encoders : Init => Single(e)
BY DEF Init, Single

-----------------------------------------------------------------------------
(* An encode, all its steps together, is one step of AtomicSession.        *)

\* The responses as AtomicSession has them: a response exists once recorded.
Answered ==
    IF Recorded = {} THEN responses
    ELSE Append(responses, Response(CHOOSE e \in Recorded : TRUE))

LEMMA AnsweredOne ==
    ASSUME NEW e, Encoders = {e}
    PROVE  /\ Answered = IF pc[e] = "return" THEN Append(responses, Response(e)) ELSE responses
           /\ Answered' = IF pc'[e] = "return" THEN Append(responses', Response(e)')
                          ELSE responses'
<1>1. /\ Recorded = IF pc[e] = "return" THEN {e} ELSE {}
      /\ Recorded' = IF pc'[e] = "return" THEN {e} ELSE {}
  BY DEF Recorded
<1>2. /\ Recorded = {e} => (CHOOSE x \in Recorded : TRUE) = e
      /\ Recorded' = {e} => (CHOOSE x \in Recorded : TRUE)' = e
  OBVIOUS
<1>3. Answered = IF pc[e] = "return" THEN Append(responses, Response(e)) ELSE responses
  BY <1>1, <1>2 DEF Answered
<1>4. Answered' = IF pc'[e] = "return" THEN Append(responses', Response(e)') ELSE responses'
  <2>1. CASE pc'[e] = "return"
    <3>1. Recorded' = {e} /\ (CHOOSE x \in Recorded : TRUE)' = e
      BY <1>1, <1>2, <2>1
    <3>2. Answered' = Append(responses', Response(CHOOSE x \in Recorded : TRUE)')
      BY <3>1 DEF Answered
    <3>3. Response(CHOOSE x \in Recorded : TRUE)' = Response(e)'
      BY <3>1 DEF Response
    <3> QED
      BY <2>1, <3>2, <3>3
  <2>2. CASE pc'[e] # "return"
    BY <1>1, <2>2 DEF Answered
  <2> QED
    BY <2>1, <2>2
<1> QED
  BY <1>3, <1>4

\* Once every position is done, the wire order is a permutation of them.
LEMMA OrderPermutes ==
    ASSUME TypeInv, NEW e \in Encoders, todo[e] = {}, NEW order, Wired(e, order)
    PROVE  /\ Len(lines[e]) = Len(payload[e].syms)
           /\ order \in [Positions(payload[e]) -> Positions(payload[e])]
<1> DEFINE n == Len(lines[e])
           k == Len(payload[e].syms)
           A == 1 .. n
           B == Positions(payload[e])
<1>1. n \in Nat /\ k \in Nat /\ B = 1 .. k
  BY PayloadShape DEF TypeInv, Typed, Positions
<1>2. /\ order \in [A -> B]
      /\ \A i \in B : \E m \in A : order[m] = i
      /\ \A l, m \in A : l < m => Before(payload[e], order[l], order[m])
  <2>1. B \ todo[e] = B
    OBVIOUS
  <2> HIDE DEF B
  <2> QED
    BY <2>1 DEF Wired, B
<1>3. \A i \in B : ~Before(payload[e], i, i)
  <2>1. \A i \in B : payload[e].syms[i].rank \in Nat /\ i \in Nat
    BY <1>1, PayloadShape DEF TypeInv, Typed
  <2> HIDE DEF B
  <2> QED
    BY <2>1 DEF Before
<1>4. \A l, m \in A : order[l] = order[m] => l = m
  <2> SUFFICES ASSUME NEW l \in A, NEW m \in A, l # m PROVE order[l] # order[m]
    OBVIOUS
  <2>1. l < m \/ m < l
    BY <1>1
  <2> QED
    BY <1>2, <1>3, <2>1
<1>5. order \in Bijection(A, B)
  BY <1>2, <1>4 DEF Bijection, Injection, IsInjective, Surjection
<1>6. /\ IsFiniteSet(A) /\ Cardinality(A) = n
      /\ Cardinality(B) = k
  <2>1. 1 \in Int /\ n \in Int /\ k \in Int
    BY <1>1
  <2>2. IsFiniteSet(A) /\ Cardinality(A) = IF 1 > n THEN 0 ELSE n - 1 + 1
    BY <2>1, FS_Interval, Zenon
  <2>3. Cardinality(1 .. k) = IF 1 > k THEN 0 ELSE k - 1 + 1
    BY <2>1, FS_Interval, Zenon
  <2> QED
    BY <1>1, <2>2, <2>3
<1>7. ExistsBijection(A, B)
  BY <1>5 DEF ExistsBijection
<1> HIDE DEF A, B
<1>8. n = k
  BY <1>6, <1>7, FS_Bijection
<1> QED
  BY <1>1, <1>2, <1>8 DEF A, B

LEMMA FinishEncodes ==
    ASSUME NoRepeats, NEW e, Encoders = {e}, TypeInv, TableDense, Single(e), Finish(e)
    PROVE  \E p \in Payloads : Promised!Encode(p)
<1> DEFINE p == payload[e]
           all == Positions(p)
           new == isNew[e]
<1>1. /\ pc[e] = "emit" /\ pc'[e] = "return" /\ todo[e] = {} /\ responses' = responses
      /\ UNCHANGED <<payload, localIndex, lines>> /\ Record(p, new)
  BY DEF Finish, locals, TypeInv, Typed
<1>2. p \in Payloads /\ Split(e, all) /\ new \in SUBSET all /\ all \in SUBSET Nat
  BY <1>1, PayloadShape DEF Single, TypeInv, Typed, EncoderInv
<1>3. /\ DOMAIN symbols' = DOMAIN symbols \cup NamesAt(p, new)
      /\ \A q \in DOMAIN symbols : symbols'[q] = symbols[q]
      /\ \A i \in new : symbols'[p.syms[i].name] = PlaceId(new, i)
      /\ DOMAIN localIndex[e] = NamesAt(p, all)
      /\ \A q \in NamesAt(p, all) :
            q \in DOMAIN symbols' /\ localIndex[e][q] = symbols'[q]
  BY FinishRecords
<1>4. Promised!Places(p) = all /\ Promised!Unseen(p) = new
  <2>1. Promised!Places(p) = all
    BY DEF Promised!Places, Positions
  <2>2. Promised!Unseen(p) = {i \in all : p.syms[i].name \notin DOMAIN symbols}
    BY <2>1 DEF Promised!Unseen
  <2>3. \A i \in all : i \in new <=> p.syms[i].name \notin DOMAIN symbols
    BY <1>2 DEF Split, Transmitted
  <2> HIDE DEF all, new
  <2> QED
    BY <1>2, <2>1, <2>2, <2>3
<1>5. \A i \in new : Promised!NewId(p, i) = PlaceId(new, i)
  <2> TAKE i \in new
  <2>1. Promised!NewId(p, i) =
          Cardinality(DOMAIN symbols) + Cardinality({j \in Promised!Unseen(p) : j < i})
    BY DEF Promised!NewId, Promised!Cardinality, Cardinality
  <2>2. {j \in Promised!Unseen(p) : j < i} = {j \in new : j < i}
    BY <1>4
  <2> QED
    BY <2>1, <2>2, TableCount DEF PlaceId
<1>6. PICK order : Wired(e, order)
  BY <1>1 DEF Single
<1>7. /\ Len(lines[e]) = Len(p.syms) /\ order \in [all -> all] /\ all = 1 .. Len(p.syms)
      /\ \A m, k \in all : m < k => Before(p, order[m], order[k])
      /\ \A m \in all : lines[e][m] = LineAt(e, order[m])
  BY <1>1, <1>6, OrderPermutes DEF Wired, Positions
<1>8. Promised!InWireOrder(p, order)
  BY <1>4, <1>7 DEF Promised!InWireOrder, Before
<1> HIDE DEF all, new
<1>9. symbols' = [q \in DOMAIN symbols \cup {p.syms[i].name : i \in Promised!Unseen(p)} |->
                    IF q \in DOMAIN symbols THEN symbols[q]
                    ELSE Promised!NewId(p, CHOOSE i \in Promised!Unseen(p) : p.syms[i].name = q)]
  <2>1. ASSUME NEW q \in NamesAt(p, new)
        PROVE  symbols'[q] = Promised!NewId(p, CHOOSE i \in new : p.syms[i].name = q)
    <3>1. PICK i \in new : p.syms[i].name = q
      BY DEF NamesAt
    <3>2. \A k \in new : p.syms[k].name = q <=> k = i
      BY <1>2, <3>1, NamesDistinct DEF all
    <3>3. (CHOOSE k \in new : p.syms[k].name = q) = i
      BY <3>2
    <3> QED
      BY <1>3, <1>5, <3>1, <3>3
  <2>2. symbols' = [q \in DOMAIN symbols' |-> symbols'[q]]
    BY <1>1 DEF Record
  <2>3. DOMAIN symbols' = DOMAIN symbols \cup {p.syms[i].name : i \in new}
    BY <1>3 DEF NamesAt
  <2> QED
    BY <1>3, <1>4, <2>1, <2>2, <2>3 DEF NamesAt
<1>10. lines[e] = [m \in Promised!Places(p) |-> Promised!Line(p, order[m], symbols')]
  <2>1. lines[e] = [m \in all |-> lines[e][m]]
    <3>1. lines[e] \in Seq(Line)
      BY DEF TypeInv, Typed
    <3> QED
      BY <1>7, <3>1
  <2>2. ASSUME NEW m \in all
        PROVE  lines[e][m] = Promised!Line(p, order[m], symbols')
    <3>1. order[m] \in all
      BY <1>7
    <3>2. localIndex[e][p.syms[order[m]].name] = symbols'[p.syms[order[m]].name]
      BY <1>3, <3>1 DEF NamesAt
    <3> QED
      BY <1>4, <1>7, <3>2 DEF LineAt, Promised!Line, new
  <2> QED
    BY <1>4, <2>1, <2>2
<1>11. EdgeLines(p, localIndex[e]) =
         {<<symbols'[x[1]], symbols'[x[2]]>> :
            x \in {x \in p.edges : {x[1], x[2]} \subseteq
                                   {p.syms[i].name : i \in Promised!Places(p)}}}
  <2>1. DOMAIN localIndex[e] = {p.syms[i].name : i \in Promised!Places(p)}
    BY <1>3, <1>4 DEF NamesAt
  <2>2. \A q \in DOMAIN localIndex[e] : localIndex[e][q] = symbols'[q]
    BY <1>3
  <2> QED
    BY <2>1, <2>2 DEF EdgeLines
<1>12. Answered = responses /\ Answered' = Append(responses, Response(e)')
  BY <1>1, AnsweredOne
<1>13. Response(e)' = [lines |-> lines[e], edges |-> EdgeLines(p, localIndex[e])]
  BY <1>1 DEF Response, EdgeLines
<1>14. Promised!Encode(p)
  BY <1>7, <1>8, <1>9, <1>10, <1>11, <1>12, <1>13, <1>4 DEF Promised!Encode, Answered
<1> QED
  BY <1>2, <1>14

LEMMA EncodesAtomically ==
    ASSUME NoRepeats, OneAtATime, NEW e, Encoders = {e}, TypeInv, TableDense, Single(e),
           [Next]_vars
    PROVE  [Promised!Next]_Promised!vars
<1>1. CASE UNCHANGED <<symbols, Answered>>
  BY <1>1 DEF Promised!vars, Answered
<1>2. CASE UNCHANGED vars
  <2>1. UNCHANGED <<symbols, pc, responses, lines, payload, localIndex>>
    BY <1>2 DEF vars, table, locals
  <2>2. Answered' = Answered
    <3>1. Response(e)' = Response(e)
      BY <2>1 DEF Response, EdgeLines
    <3> QED
      BY <2>1, <3>1, AnsweredOne
  <2> QED
    BY <1>1, <2>1, <2>2
<1>3. ASSUME UNCHANGED <<symbols, responses>>, pc[e] # "return", pc'[e] # "return"
      PROVE  [Promised!Next]_Promised!vars
  <2>1. Answered' = Answered
    BY <1>3, AnsweredOne
  <2> QED
    BY <1>1, <1>3, <2>1
<1>4. ASSUME NEW p \in Payloads, Begin(e, p) PROVE [Promised!Next]_Promised!vars
  <2>1. UNCHANGED <<symbols, responses>> /\ pc[e] # "return" /\ pc'[e] # "return"
    BY <1>4 DEF Begin, table, TypeInv, Typed
  <2> QED
    BY <1>3, <2>1
<1>5. CASE Partition(e)
  <2>1. /\ UNCHANGED <<symbols, responses>> /\ pc[e] = "partition"
        /\ \E l : pc' = [pc EXCEPT ![e] = IF l THEN "ids" ELSE @]
    BY <1>5 DEF Partition, table
  <2>2. pc'[e] \in {"partition", "ids"}
    BY <2>1 DEF TypeInv, Typed
  <2> QED
    BY <1>3, <2>1, <2>2
<1>6. CASE LookUp(e) \/ Assign(e) \/ Emit(e)
  <2>1. UNCHANGED <<symbols, responses>> /\ pc[e] # "return" /\ pc'[e] # "return"
    BY <1>6 DEF LookUp, Assign, Emit, table, TypeInv, Typed
  <2> QED
    BY <1>3, <2>1
<1>7. CASE Finish(e)
  BY <1>7, FinishEncodes DEF Promised!Next
<1>8. CASE Return(e)
  <2>1. /\ symbols' = symbols /\ pc[e] = "return" /\ pc'[e] = "idle"
        /\ responses' = Append(responses, Response(e))
    BY <1>8 DEF Return, table, TypeInv, Typed
  <2>2. Answered' = Answered
    BY <2>1, AnsweredOne
  <2> QED
    BY <1>1, <2>1, <2>2
<1>9. CASE Reset
  <2>1. /\ pc[e] = "idle" /\ pc'[e] = "idle"
        /\ symbols' = NoIds /\ responses' = << >>
    BY <1>9 DEF Reset, OneAtATime
  <2>2. Answered' = << >>
    BY <2>1, AnsweredOne
  <2>3. Promised!Reset
    BY <2>1, <2>2 DEF Promised!Reset, NoIds, Answered
  <2> QED
    BY <2>3 DEF Promised!Next
<1>10. ASSUME NEW p \in Payloads, RecordCall(p) PROVE FALSE
  BY <1>10 DEF RecordCall, OneAtATime, TypeInv, Typed
<1>11. CASE Step(e)
  BY <1>5, <1>6, <1>7, <1>8, <1>11 DEF Step
<1> QED
  BY <1>2, <1>4, <1>9, <1>10, <1>11 DEF Next

\* With one goroutine the interleaved encoder keeps AtomicSession's promise
\* (session.go:82-88, 123-131): every encode is one atomic step, whatever the
\* payloads, as long as none names a symbol twice.
THEOREM EncodesImplementPromised ==
    ASSUME NoRepeats, OneAtATime, NEW e, Encoders = {e}
    PROVE  Spec => ImplementsPromised
<1>1. Init => Promised!Init
  <2> SUFFICES ASSUME Init PROVE Promised!Init
    OBVIOUS
  <2>1. symbols = NoIds /\ pc[e] = "idle" /\ responses = << >>
    BY DEF Init
  <2>2. Answered = << >>
    BY <2>1, AnsweredOne
  <2> QED
    BY <2>1, <2>2 DEF Promised!Init, NoIds, Answered
<1>2. Init => Single(e)
  BY SingleInit
<1>3. TypeInv /\ Single(e) /\ [Next]_vars => Single(e)'
  BY SingleStep
<1>4. TypeInv /\ TableDense /\ Single(e) /\ [Next]_vars => [Promised!Next]_Promised!vars
  BY EncodesAtomically
<1> QED
  BY <1>1, <1>2, <1>3, <1>4, TypeInvariance, TableIntegrity, PTL
     DEF Spec, ImplementsPromised, Promised!Spec

-----------------------------------------------------------------------------
(* What AtomicSession promises.  Inductively: a line carries its symbol's  *)
(* id, every known symbol was declared, every reference follows a          *)
(* declaration, and no symbol is declared by two responses.                *)

HasLine(rs, k, n) == k \in DOMAIN rs /\ n \in DOMAIN rs[k].lines

Served(known, rs) ==
    /\ \A k, n : HasLine(rs, k, n) =>
         /\ rs[k].lines[n].name \in DOMAIN known
         /\ rs[k].lines[n].id = known[rs[k].lines[n].name]
    /\ \A q \in DOMAIN known : \E k, n : /\ HasLine(rs, k, n) /\ rs[k].lines[n].full
                                            /\ rs[k].lines[n].name = q
    /\ \A k, n : HasLine(rs, k, n) /\ ~rs[k].lines[n].full =>
         \E j, m : /\ HasLine(rs, j, m) /\ rs[j].lines[m].full /\ j < k
                   /\ rs[j].lines[m].name = rs[k].lines[n].name
    /\ \A k, n, j, m :
         /\ HasLine(rs, k, n) /\ rs[k].lines[n].full
         /\ HasLine(rs, j, m) /\ rs[j].lines[m].full
         /\ rs[k].lines[n].name = rs[j].lines[m].name
         => k = j

\* A sorted order of the places leaves none out.
LEMMA OrderCovers ==
    ASSUME NEW p \in Payloads, NEW order \in [Promised!Places(p) -> Promised!Places(p)],
           Promised!InWireOrder(p, order)
    PROVE  \A i \in Promised!Places(p) : \E m \in Promised!Places(p) : order[m] = i
<1> DEFINE A == Promised!Places(p)
<1>1. A = Positions(p) /\ IsFiniteSet(A) /\ A \in SUBSET Nat
  BY PayloadShape DEF Promised!Places, Positions
<1>2. \A i \in A : p.syms[i].rank \in Nat
  BY <1>1, PayloadShape
<1>3. \A l, m \in A : l < m => order[l] # order[m]
  BY <1>1, <1>2 DEF Promised!InWireOrder
<1>4. \A l, m \in A : order[l] = order[m] => l = m
  <2> SUFFICES ASSUME NEW l \in A, NEW m \in A, l # m PROVE order[l] # order[m]
    OBVIOUS
  <2>1. l < m \/ m < l
    BY <1>1
  <2> QED
    BY <1>3, <2>1
<1>5. order \in Injection(A, A)
  BY <1>4 DEF Injection, IsInjective
<1> HIDE DEF A
<1>6. order \in Surjection(A, A)
  BY <1>1, <1>5, FS_Injection
<1> QED
  BY <1>6 DEF Surjection, A

LEMMA ServedMore ==
    ASSUME NEW S, Answered \in Seq(S), Served(symbols, Answered),
           NEW p \in Payloads, Promised!Encode(p)
    PROVE  Served(symbols', Answered')
<1> DEFINE A == Promised!Places(p)
           N == Promised!Unseen(p)
           rs == Answered
<1>1. PICK order \in [A -> A] :
        /\ Promised!InWireOrder(p, order)
        /\ symbols' = [q \in DOMAIN symbols \cup {p.syms[i].name : i \in N} |->
                          IF q \in DOMAIN symbols THEN symbols[q]
                          ELSE Promised!NewId(p, CHOOSE i \in N : p.syms[i].name = q)]
        /\ \E E : rs' = Append(rs,
              [lines |-> [m \in A |-> Promised!Line(p, order[m], symbols')], edges |-> E])
  BY DEF Promised!Encode, Answered
<1>2. /\ DOMAIN symbols' = DOMAIN symbols \cup {p.syms[i].name : i \in N}
      /\ \A q \in DOMAIN symbols : symbols'[q] = symbols[q]
  BY <1>1
<1>3. N = {i \in A : p.syms[i].name \notin DOMAIN symbols}
  BY DEF Promised!Unseen
<1>4. PICK E : rs' = Append(rs,
         [lines |-> [m \in A |-> Promised!Line(p, order[m], symbols')], edges |-> E])
  BY <1>1
<1> DEFINE new == [lines |-> [m \in A |-> Promised!Line(p, order[m], symbols')], edges |-> E]
<1>5. /\ DOMAIN new.lines = A
      /\ \A m \in A : /\ new.lines[m].name = p.syms[order[m]].name
                       /\ new.lines[m].id = symbols'[p.syms[order[m]].name]
                       /\ new.lines[m].full = (order[m] \in N)
  BY DEF Promised!Line
<1>6. rs' = Append(rs, new)
  BY <1>4
<1>7. \A i \in A : \E m \in A : order[m] = i
  BY <1>1, OrderCovers
<1> HIDE DEF new, A, N, rs
<1>8. /\ Len(rs) \in Nat /\ DOMAIN rs = 1 .. Len(rs)
      /\ DOMAIN rs' = 1 .. Len(rs) + 1
      /\ rs'[Len(rs) + 1] = new
      /\ \A k \in DOMAIN rs : rs'[k] = rs[k]
  <2> DEFINE T == S \cup {new}
  <2>1. rs \in Seq(T) /\ new \in T
    BY DEF rs
  <2> HIDE DEF T
  <2> QED
    BY <1>6, <2>1
<1> DEFINE L == Len(rs) + 1
<1>9. \A k, n : HasLine(rs', k, n) <=> HasLine(rs, k, n) \/ (k = L /\ n \in A)
  BY <1>5, <1>8 DEF HasLine
<1>10. \A k, n : HasLine(rs, k, n) => rs'[k].lines[n] = rs[k].lines[n] /\ k < L
  BY <1>8 DEF HasLine
<1>11. rs'[L] = new /\ \A k, n : HasLine(rs, k, n) => k # L
  BY <1>8, <1>10 DEF HasLine
<1> HIDE DEF L
<1>12. ASSUME NEW k, NEW n, HasLine(rs', k, n)
       PROVE  /\ rs'[k].lines[n].name \in DOMAIN symbols'
              /\ rs'[k].lines[n].id = symbols'[rs'[k].lines[n].name]
  <2>1. CASE HasLine(rs, k, n)
    BY <1>2, <1>10, <2>1 DEF Served, rs
  <2>2. CASE k = L /\ n \in A
    <3>1. order[n] \in A
      BY <1>1, <2>2
    <3> QED
      BY <1>2, <1>3, <1>5, <1>11, <2>2, <3>1
  <2> QED
    BY <1>9, <1>12, <2>1, <2>2
<1>13. ASSUME NEW q \in DOMAIN symbols'
       PROVE  \E k, n : /\ HasLine(rs', k, n) /\ rs'[k].lines[n].full
                        /\ rs'[k].lines[n].name = q
  <2>1. CASE q \in DOMAIN symbols
    <3>1. PICK k, n : HasLine(rs, k, n) /\ rs[k].lines[n].full /\ rs[k].lines[n].name = q
      BY <2>1 DEF Served, rs
    <3> QED
      BY <1>9, <1>10, <3>1
  <2>2. CASE q \notin DOMAIN symbols
    <3>1. PICK i \in N : p.syms[i].name = q
      BY <1>2, <2>2
    <3>2. PICK m \in A : order[m] = i
      BY <1>3, <1>7, <3>1
    <3>3. new.lines[m].full /\ new.lines[m].name = q
      BY <1>5, <3>1, <3>2
    <3> QED
      BY <1>9, <1>11, <3>2, <3>3
  <2> QED
    BY <2>1, <2>2
<1>14. ASSUME NEW k, NEW n, HasLine(rs', k, n), ~rs'[k].lines[n].full
       PROVE  \E j, m : /\ HasLine(rs', j, m) /\ rs'[j].lines[m].full /\ j < k
                        /\ rs'[j].lines[m].name = rs'[k].lines[n].name
  <2>1. CASE HasLine(rs, k, n)
    <3>1. PICK j, m : /\ HasLine(rs, j, m) /\ rs[j].lines[m].full /\ j < k
                      /\ rs[j].lines[m].name = rs[k].lines[n].name
      BY <1>10, <1>14, <2>1 DEF Served, rs
    <3>2. HasLine(rs', j, m) /\ rs'[j].lines[m] = rs[j].lines[m]
      BY <1>9, <1>10, <3>1
    <3>3. rs'[k].lines[n] = rs[k].lines[n]
      BY <1>10, <2>1
    <3> QED
      BY <3>1, <3>2, <3>3
  <2>2. CASE k = L /\ n \in A
    <3>1. new.lines[n].name \in DOMAIN symbols
      <4>1. order[n] \in A /\ order[n] \notin N
        BY <1>1, <1>5, <1>11, <1>14, <2>2
      <4> QED
        BY <1>3, <1>5, <2>2, <4>1
    <3>2. PICK j, m : /\ HasLine(rs, j, m) /\ rs[j].lines[m].full
                      /\ rs[j].lines[m].name = new.lines[n].name
      BY <3>1 DEF Served, rs
    <3> QED
      BY <1>9, <1>10, <1>11, <2>2, <3>2
  <2> QED
    BY <1>9, <1>14, <2>1, <2>2
<1>15. ASSUME NEW k, NEW n, HasLine(rs, k, n), NEW m \in A, new.lines[m].full,
              rs[k].lines[n].name = new.lines[m].name
       PROVE  FALSE
  <2>1. rs[k].lines[n].name \in DOMAIN symbols
    BY <1>15 DEF Served, rs
  <2>2. new.lines[m].name \notin DOMAIN symbols
    BY <1>3, <1>5, <1>15
  <2> QED
    BY <1>15, <2>1, <2>2
<1>16. ASSUME NEW k, NEW n, NEW j, NEW m,
              HasLine(rs', k, n), rs'[k].lines[n].full,
              HasLine(rs', j, m), rs'[j].lines[m].full,
              rs'[k].lines[n].name = rs'[j].lines[m].name
       PROVE  k = j
  <2>1. CASE HasLine(rs, k, n) /\ HasLine(rs, j, m)
    <3>1. rs'[k].lines[n] = rs[k].lines[n] /\ rs'[j].lines[m] = rs[j].lines[m]
      BY <1>10, <2>1
    <3>2. \A k2, n2, j2, m2 :
            /\ HasLine(rs, k2, n2) /\ rs[k2].lines[n2].full
            /\ HasLine(rs, j2, m2) /\ rs[j2].lines[m2].full
            /\ rs[k2].lines[n2].name = rs[j2].lines[m2].name
            => k2 = j2
      BY DEF Served, rs
    <3> QED
      BY <1>16, <2>1, <3>1, <3>2
  <2>2. CASE HasLine(rs, k, n) /\ j = L /\ m \in A
    BY <1>10, <1>11, <1>15, <1>16, <2>2
  <2>3. CASE k = L /\ n \in A /\ HasLine(rs, j, m)
    BY <1>10, <1>11, <1>15, <1>16, <2>3
  <2> QED
    BY <1>9, <1>16, <2>1, <2>2, <2>3
<1>17. Served(symbols', rs')
  BY <1>12, <1>13, <1>14, <1>16 DEF Served
<1> QED
  BY <1>17 DEF rs

LEMMA ServedNone == Served(NoIds, << >>)
BY DEF Served, HasLine, NoIds

LEMMA ServedStep ==
    ASSUME NEW S, Answered \in Seq(S), Served(symbols, Answered),
           [Promised!Next]_Promised!vars
    PROVE  Served(symbols', Answered')
<1>1. ASSUME NEW p \in Payloads, Promised!Encode(p) PROVE Served(symbols', Answered')
  BY <1>1, ServedMore
<1>2. CASE Promised!Reset
  <2>1. symbols' = NoIds /\ Answered' = << >>
    BY <1>2 DEF Promised!Reset, Answered, NoIds
  <2> QED
    BY <2>1, ServedNone
<1>3. CASE UNCHANGED Promised!vars
  <2>1. symbols' = symbols /\ Answered' = Answered
    BY <1>3 DEF Promised!vars, Answered
  <2> QED
    BY <2>1
<1> QED
  BY <1>1, <1>2, <1>3 DEF Promised!Next

\* Every response, this encoder's next one too, is of one set.
LEMMA ResponsesAreSeq ==
    ASSUME TypeInv, NEW e
    PROVE  \E S : responses \in Seq(S) /\ Response(e) \in S
<1> DEFINE R == [lines : Seq(Line), edges : SUBSET (Int \X Int)]
           r == Response(e)
<1>1. responses \in Seq(R)
  BY DEF TypeInv, Typed
<1> HIDE DEF R, r
<1>2. responses \in Seq(R \cup {r}) /\ r \in R \cup {r}
  BY <1>1
<1> QED
  BY <1>2 DEF r

LEMMA AnsweredTyped ==
    ASSUME TypeInv, NEW e, Encoders = {e}
    PROVE  \E S : Answered \in Seq(S)
<1>1. PICK S : responses \in Seq(S) /\ Response(e) \in S
  BY ResponsesAreSeq
<1> DEFINE r == Response(e)
<1> HIDE DEF r
<1>2. Append(responses, r) \in Seq(S)
  BY <1>1 DEF r
<1> QED
  BY <1>1, <1>2, AnsweredOne DEF r

LEMMA SingleServes ==
    ASSUME NoRepeats, OneAtATime, NEW e, Encoders = {e}
    PROVE  Spec => [](TypeInv /\ TableDense /\ Single(e) /\ Served(symbols, Answered))
<1>1. Init => Single(e)
  BY SingleInit
<1>2. TypeInv /\ Single(e) /\ [Next]_vars => Single(e)'
  BY SingleStep
<1>3. Init => Served(symbols, Answered)
  <2> SUFFICES ASSUME Init PROVE Served(symbols, Answered)
    OBVIOUS
  <2>1. symbols = NoIds /\ pc[e] = "idle" /\ responses = << >>
    BY DEF Init
  <2>2. Answered = << >>
    BY <2>1, AnsweredOne
  <2> QED
    BY <2>1, <2>2, ServedNone
<1>4. TypeInv /\ TableDense /\ Single(e) /\ Served(symbols, Answered) /\ [Next]_vars
        => Served(symbols, Answered)'
  <2> SUFFICES ASSUME TypeInv, TableDense, Single(e), Served(symbols, Answered), [Next]_vars
               PROVE  Served(symbols', Answered')
    OBVIOUS
  <2>1. PICK S : Answered \in Seq(S)
    BY AnsweredTyped
  <2>2. [Promised!Next]_Promised!vars
    BY EncodesAtomically
  <2> QED
    BY <2>1, <2>2, ServedStep
<1> QED
  BY <1>1, <1>2, <1>3, <1>4, TypeInvariance, TableIntegrity, PTL DEF Spec

\* The id a response gives a symbol is the id recorded for it, known or new
\* (session.go:123-131).
THEOREM WireIdsAreRecorded ==
    ASSUME NoRepeats, OneAtATime, NEW e, Encoders = {e}
    PROVE  Spec => []WireIdsAreSessionIds
<1>1. TypeInv /\ Single(e) => WireIdsAreSessionIds
  <2> SUFFICES ASSUME TypeInv, Single(e), pc[e] = "return", NEW n \in DOMAIN lines[e]
               PROVE  /\ Transmitted(lines[e][n].name)
                      /\ lines[e][n].id = symbols[lines[e][n].name]
    BY DEF WireIdsAreSessionIds
  <2>1. PICK order : Wired(e, order)
    BY DEF Single
  <2>2. n \in 1 .. Len(lines[e])
    BY DEF TypeInv, Typed
  <2>3. lines[e][n] = LineAt(e, order[n]) /\ order[n] \in Positions(payload[e])
    BY <2>1, <2>2 DEF Wired
  <2>4. payload[e].syms[order[n]].name \in NamesAt(payload[e], Positions(payload[e]))
    BY <2>3 DEF NamesAt
  <2> QED
    BY <2>3, <2>4 DEF Single, LineAt, Transmitted
<1> QED
  BY <1>1, SingleServes, PTL

\* What is delivered is a beginning of what is answered.
LEMMA DeliveredAnswered ==
    ASSUME TypeInv, NEW e, Encoders = {e}
    PROVE  \A k, n : HasLine(responses, k, n) =>
             HasLine(Answered, k, n) /\ Answered[k] = responses[k]
<1>1. PICK S : responses \in Seq(S) /\ Response(e) \in S
  BY ResponsesAreSeq
<1> DEFINE r == Response(e)
<1> HIDE DEF r
<1>2. \A k \in DOMAIN responses : /\ k \in DOMAIN Append(responses, r)
                                   /\ Append(responses, r)[k] = responses[k]
  BY <1>1 DEF r
<1> QED
  BY <1>2, AnsweredOne DEF HasLine, r

\* The promise in terms of delivered lines.
LEMMA ServedDelivered ==
    ASSUME TypeInv, TableDense, NEW e, Encoders = {e}, Served(symbols, Answered)
    PROVE  IdsDistinct(responses) /\ ReferencesResolve(responses)
<1> DEFINE rs == responses
           at(k, n) == responses[k].lines[n]
<1>1. \A k, n : HasLine(rs, k, n) => /\ HasLine(Answered, k, n)
                                     /\ Answered[k].lines[n] = at(k, n)
  BY DeliveredAnswered
<1>2. \A k, n : HasLine(rs, k, n) => /\ at(k, n).name \in DOMAIN symbols
                                     /\ at(k, n).id = symbols[at(k, n).name]
  BY <1>1 DEF Served
<1>3. \A l : l \in LinesOf(rs) => \E k, n : HasLine(rs, k, n) /\ l = <<k, at(k, n)>>
  BY LinesOfMember DEF HasLine
<1>4. \A k, n : HasLine(rs, k, n) => <<k, at(k, n)>> \in LinesOf(rs)
  BY LinesOfMember DEF HasLine
<1>5. IdsDistinct(rs)
  <2> SUFFICES ASSUME NEW c \in Declarations(rs), NEW d \in Declarations(rs),
                      c[2].id = d[2].id
               PROVE  c[2].name = d[2].name
    BY DEF IdsDistinct
  <2>1. PICK k, n : HasLine(rs, k, n) /\ c = <<k, at(k, n)>>
    BY <1>3 DEF Declarations
  <2>2. PICK j, m : HasLine(rs, j, m) /\ d = <<j, at(j, m)>>
    BY <1>3 DEF Declarations
  <2>3. c[2] = at(k, n) /\ d[2] = at(j, m)
    BY <2>1, <2>2
  <2> HIDE DEF at
  <2> QED
    BY <1>2, <2>1, <2>2, <2>3 DEF TableDense
<1>6. ReferencesResolve(rs)
  <2> SUFFICES ASSUME NEW r \in References(rs)
               PROVE  \E d \in Declarations(rs) :
                        d[1] < r[1] /\ d[2].id = r[2].id /\ d[2].name = r[2].name
    BY DEF ReferencesResolve
  <2>1. PICK k, n : HasLine(rs, k, n) /\ r = <<k, at(k, n)>>
    BY <1>3 DEF References
  <2>2. r[1] = k /\ r[2] = at(k, n) /\ ~at(k, n).full
    BY <2>1 DEF References
  <2>3. PICK j, m : /\ HasLine(Answered, j, m) /\ Answered[j].lines[m].full /\ j < k
                    /\ Answered[j].lines[m].name = Answered[k].lines[n].name
    BY <1>1, <2>1, <2>2 DEF Served
  <2>4. HasLine(rs, j, m)
    <3>1. PICK S : responses \in Seq(S) /\ Response(e) \in S
      BY ResponsesAreSeq
    <3> DEFINE s == Response(e)
    <3> HIDE DEF s
    <3>2. k \in 1 .. Len(responses)
      BY <2>1, <3>1 DEF HasLine
    <3>3. s \in S
      BY <3>1 DEF s
    <3>4. j \in 1 .. Len(responses) /\ Answered[j] = responses[j]
      BY <2>3, <3>1, <3>2, <3>3, AnsweredOne DEF HasLine, s
    <3> QED
      BY <2>3, <3>1, <3>4 DEF HasLine
  <2>5. at(j, m).full /\ at(j, m).name = at(k, n).name
    BY <1>1, <2>1, <2>3, <2>4
  <2>6. at(j, m).id = at(k, n).id
    BY <1>2, <2>1, <2>4, <2>5
  <2>7. <<j, at(j, m)>> \in Declarations(rs)
    BY <1>4, <2>4, <2>5 DEF Declarations
  <2> QED
    BY <2>2, <2>3, <2>5, <2>6, <2>7
<1> QED
  BY <1>5, <1>6

\* No id is declared for two symbols by the responses of a session
\* (session.go:123-125).
THEOREM DeclaredOnceEach ==
    ASSUME NoRepeats, OneAtATime, NEW e, Encoders = {e}
    PROVE  Spec => []DeclaredIdsDistinct
<1>1. TypeInv /\ TableDense /\ Served(symbols, Answered) => DeclaredIdsDistinct
  BY ServedDelivered DEF DeclaredIdsDistinct
<1> QED
  BY <1>1, SingleServes, PTL

\* Every bare reference is to a symbol that an earlier response declared under
\* that id (session.go:165).
THEOREM ReferencesAreBacked ==
    ASSUME NoRepeats, OneAtATime, NEW e, Encoders = {e}
    PROVE  Spec => []BareReferencesResolve
<1>1. TypeInv /\ TableDense /\ Served(symbols, Answered) => BareReferencesResolve
  BY ServedDelivered DEF BareReferencesResolve
<1> QED
  BY <1>1, SingleServes, PTL
=============================================================================
