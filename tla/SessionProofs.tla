--------------------------- MODULE SessionProofs ---------------------------
(***************************************************************************)
(* Theorems about Session, for every set of encoders, names and payloads.  *)
(***************************************************************************)
EXTENDS Session, FiniteSetTheorems, TLAPS

(***************************************************************************)
(* A nonempty set of naturals has a least element.                         *)
(***************************************************************************)
LEMMA LeastNatural ==
    ASSUME NEW S \in SUBSET Nat, S # {}
    PROVE  \E m \in S : \A k \in S : m <= k
<1>1. PICK m \in S : \A k \in S : ~(<<k, m>> \in OpToRel(<, Nat))
  BY NatLessThanWellFounded, WFMin, Zenon
<1>2. \A k \in S : ~(k < m)
  BY <1>1, Zenon DEF OpToRel
<1> QED
  BY <1>2

(***************************************************************************)
(* The names of finitely many positions are finitely many.                 *)
(***************************************************************************)
LEMMA NamesFinite ==
    ASSUME NEW p, NEW idx, IsFiniteSet(idx)
    PROVE  IsFiniteSet(NamesAt(p, idx))
<1> DEFINE f == [i \in idx |-> p.syms[i].name]
<1>1. f \in Surjection(idx, NamesAt(p, idx))
  BY DEF Surjection, NamesAt
<1> QED
  BY <1>1, FS_Surjection

-----------------------------------------------------------------------------
(***************************************************************************)
(* Record's numbering.  The names a batch adds are ranked by the place     *)
(* where the batch first has them; the ranks are 0, 1, ... without a gap.  *)
(***************************************************************************)
LEMMA MetBeforeOthers ==
    ASSUME NEW p, NEW idx \in SUBSET Nat, NEW q \in Unrecorded(p, idx)
    PROVE  MetBefore(p, idx, q) \in SUBSET (Unrecorded(p, idx) \ {q})
BY DEF MetBefore

LEMMA MetBeforeLinear ==
    ASSUME NEW p, NEW idx \in SUBSET Nat,
           NEW q \in Unrecorded(p, idx), NEW r \in Unrecorded(p, idx), q # r
    PROVE  \/ /\ q \in MetBefore(p, idx, r)
              /\ MetBefore(p, idx, q) \subseteq MetBefore(p, idx, r)
           \/ /\ r \in MetBefore(p, idx, q)
              /\ MetBefore(p, idx, r) \subseteq MetBefore(p, idx, q)
<1> DEFINE At(s) == {i \in idx : p.syms[i].name = s}
<1>1. PICK m \in At(q) : \A k \in At(q) : m <= k
  <2>1. At(q) \in SUBSET Nat /\ At(q) # {}
    BY DEF Unrecorded, NamesAt
  <2> QED
    BY <2>1, LeastNatural
<1>2. PICK n \in At(r) : \A k \in At(r) : n <= k
  <2>1. At(r) \in SUBSET Nat /\ At(r) # {}
    BY DEF Unrecorded, NamesAt
  <2> QED
    BY <2>1, LeastNatural
<1>3. m \in Nat /\ n \in Nat /\ m # n
  BY <1>1, <1>2
<1>4. CASE m < n
  <2>1. \A j \in idx : p.syms[j].name = r => m < j
    BY <1>2, <1>3, <1>4
  <2>2. q \in MetBefore(p, idx, r)
    BY <1>1, <2>1 DEF MetBefore
  <2>3. ASSUME NEW s \in MetBefore(p, idx, q)
        PROVE  s \in MetBefore(p, idx, r)
    <3>1. PICK i \in idx : /\ p.syms[i].name = s
                           /\ \A j \in idx : p.syms[j].name = q => i < j
      BY <2>3 DEF MetBefore
    <3>2. i < m
      BY <1>1, <3>1
    <3>3. \A j \in idx : p.syms[j].name = r => i < j
      BY <1>3, <2>1, <3>2
    <3> QED
      BY <2>3, <3>1, <3>3 DEF MetBefore
  <2> QED
    BY <2>2, <2>3
<1>5. CASE n < m
  <2>1. \A j \in idx : p.syms[j].name = q => n < j
    BY <1>1, <1>3, <1>5
  <2>2. r \in MetBefore(p, idx, q)
    BY <1>2, <2>1 DEF MetBefore
  <2>3. ASSUME NEW s \in MetBefore(p, idx, r)
        PROVE  s \in MetBefore(p, idx, q)
    <3>1. PICK i \in idx : /\ p.syms[i].name = s
                           /\ \A j \in idx : p.syms[j].name = r => i < j
      BY <2>3 DEF MetBefore
    <3>2. i < n
      BY <1>2, <3>1
    <3>3. \A j \in idx : p.syms[j].name = q => i < j
      BY <1>3, <2>1, <3>2
    <3> QED
      BY <2>3, <3>1, <3>3 DEF MetBefore
  <2> QED
    BY <2>2, <2>3
<1> QED
  BY <1>3, <1>4, <1>5

LEMMA RanksDense ==
    ASSUME NEW p, NEW idx \in SUBSET Nat, IsFiniteSet(idx)
    PROVE  LET F == Unrecorded(p, idx)
               rank == [q \in F |-> Cardinality(MetBefore(p, idx, q))]
           IN  /\ IsFiniteSet(F)
               /\ Cardinality(F) \in Nat
               /\ rank \in Injection(F, 0 .. Cardinality(F) - 1)
               /\ rank \in Surjection(F, 0 .. Cardinality(F) - 1)
<1> DEFINE F == Unrecorded(p, idx)
           Met(q) == MetBefore(p, idx, q)
           rank == [q \in F |-> Cardinality(Met(q))]
<1>1. IsFiniteSet(F) /\ Cardinality(F) \in Nat
  BY NamesFinite, FS_Difference, FS_CardinalityType DEF Unrecorded
<1>2. \A q \in F : Met(q) \in SUBSET (F \ {q})
  BY MetBeforeOthers
<1>3. ASSUME NEW q \in F
      PROVE  /\ IsFiniteSet(Met(q))
             /\ Cardinality(Met(q)) \in 0 .. Cardinality(F) - 1
  <2>1. IsFiniteSet(F \ {q}) /\ Cardinality(F \ {q}) = Cardinality(F) - 1
    BY <1>1, FS_RemoveElement
  <2>2. /\ IsFiniteSet(Met(q))
        /\ Cardinality(Met(q)) <= Cardinality(F \ {q})
    BY <1>2, <2>1, FS_Subset
  <2>3. Cardinality(Met(q)) \in Nat
    BY <2>2, FS_CardinalityType
  <2> QED
    BY <1>1, <2>1, <2>2, <2>3
<1>4. ASSUME NEW q \in F, NEW r \in F, q \in Met(r), Met(q) \subseteq Met(r)
      PROVE  Cardinality(Met(q)) # Cardinality(Met(r))
  <2>1. Met(q) # Met(r)
    BY <1>2, <1>4
  <2> QED
    BY <1>3, <1>4, <2>1, FS_Subset
<1>5. ASSUME NEW q \in F, NEW r \in F, q # r
      PROVE  Cardinality(Met(q)) # Cardinality(Met(r))
  BY <1>4, <1>5, MetBeforeLinear, Zenon
<1>6. rank \in Injection(F, 0 .. Cardinality(F) - 1)
  BY <1>3, <1>5 DEF Injection, IsInjective
<1>7. /\ IsFiniteSet(0 .. Cardinality(F) - 1)
      /\ Cardinality(0 .. Cardinality(F) - 1) = Cardinality(F)
  <2>1. Cardinality(F) - 1 \in Int /\ 0 \in Int
    BY <1>1
  <2>2. /\ IsFiniteSet(0 .. Cardinality(F) - 1)
        /\ Cardinality(0 .. Cardinality(F) - 1) =
             IF 0 > Cardinality(F) - 1 THEN 0 ELSE Cardinality(F) - 1 - 0 + 1
    BY <2>1, FS_Interval, Zenon
  <2> QED
    BY <1>1, <2>2
<1>8. rank \in Surjection(F, 0 .. Cardinality(F) - 1)
  BY <1>6, <1>7, FS_Injection
<1> QED
  BY <1>1, <1>6, <1>8

(***************************************************************************)
(* Record keeps the table dense and injective, and never renumbers.        *)
(***************************************************************************)
LEMMA RecordKeepsTable ==
    ASSUME NEW p, NEW idx \in SUBSET Nat, IsFiniteSet(idx),
           symbols \in [DOMAIN symbols -> Nat], nextID \in Nat,
           TableDense, Record(p, idx)
    PROVE  /\ DOMAIN symbols' = DOMAIN symbols \cup Unrecorded(p, idx)
           /\ symbols' \in [DOMAIN symbols' -> Nat]
           /\ nextID' \in Nat
           /\ \A q \in DOMAIN symbols : symbols'[q] = symbols[q]
           /\ TableDense'
<1> DEFINE F == Unrecorded(p, idx)
           rank == [q \in F |-> Cardinality(MetBefore(p, idx, q))]
           D == DOMAIN symbols
<1>1. /\ Cardinality(F) \in Nat
      /\ rank \in Injection(F, 0 .. Cardinality(F) - 1)
      /\ rank \in Surjection(F, 0 .. Cardinality(F) - 1)
  BY RanksDense
<1>2. nextID' = nextID + Cardinality(F)
  BY DEF Record
<1>3. symbols' = [q \in D \cup F |-> IF q \in D THEN symbols[q] ELSE nextID + rank[q]]
  BY DEF Record, Transmitted
<1>4. D \cap F = {}
  BY DEF Unrecorded
<1> HIDE DEF F, rank, D
<1>5. DOMAIN symbols' = D \cup F
  BY <1>3
<1>6. \A q \in D : symbols'[q] = symbols[q]
  BY <1>3
<1>7. \A q \in F : /\ rank[q] \in 0 .. Cardinality(F) - 1
                    /\ symbols'[q] = nextID + rank[q]
  BY <1>1, <1>3, <1>4 DEF Injection
<1>8. \A q \in D : symbols[q] \in 0 .. nextID - 1
  BY DEF TableDense, D
<1>9. \A q, r \in DOMAIN symbols' : symbols'[q] = symbols'[r] => q = r
  <2> SUFFICES ASSUME NEW q \in D \cup F, NEW r \in D \cup F, symbols'[q] = symbols'[r]
               PROVE  q = r
    BY <1>5
  <2>1. CASE q \in D /\ r \in D
    BY <1>6, <2>1 DEF TableDense, D
  <2>2. CASE q \in F /\ r \in F
    <3>1. rank[q] = rank[r]
      BY <1>1, <1>7, <2>2
    <3> QED
      BY <1>1, <2>2, <3>1 DEF Injection, IsInjective
  <2>3. CASE q \in D /\ r \in F
    BY <1>1, <1>6, <1>7, <1>8, <2>3
  <2>4. CASE q \in F /\ r \in D
    BY <1>1, <1>6, <1>7, <1>8, <2>4
  <2> QED
    BY <2>1, <2>2, <2>3, <2>4
<1>10. \A q \in DOMAIN symbols' : symbols'[q] \in 0 .. nextID' - 1
  BY <1>1, <1>2, <1>5, <1>6, <1>7, <1>8
<1>11. ASSUME NEW n \in 0 .. nextID' - 1
       PROVE  \E q \in DOMAIN symbols' : symbols'[q] = n
  <2>1. CASE n < nextID
    <3>1. n \in {symbols[q] : q \in D}
      BY <1>1, <1>2, <2>1 DEF TableDense, D
    <3> QED
      BY <1>5, <1>6, <3>1
  <2>2. CASE n >= nextID
    <3>1. n - nextID \in 0 .. Cardinality(F) - 1
      BY <1>1, <1>2, <2>2
    <3>2. PICK q \in F : rank[q] = n - nextID
      BY <1>1, <3>1 DEF Surjection
    <3> QED
      BY <1>5, <1>7, <3>2
  <2> QED
    BY <1>1, <1>2, <2>1, <2>2
<1>12. TableDense'
  <2>1. {symbols'[q] : q \in DOMAIN symbols'} = 0 .. nextID' - 1
    BY <1>10, <1>11
  <2> QED
    BY <1>9, <2>1 DEF TableDense
<1>13. symbols' \in [DOMAIN symbols' -> Nat]
  <2>1. \A q \in D \cup F : symbols'[q] \in Nat
    BY <1>1, <1>2, <1>5, <1>10
  <2> QED
    BY <1>3, <2>1
<1> QED
  BY <1>1, <1>2, <1>5, <1>6, <1>12, <1>13 DEF D, F

-----------------------------------------------------------------------------
(* Types.                                                                  *)

\* The maps from qualified names to T.
MapsTo(T) == UNION {[D -> T] : D \in SUBSET Names}

LEMMA MapsToMember ==
    ASSUME NEW T, NEW f
    PROVE  f \in MapsTo(T) <=> DOMAIN f \subseteq Names /\ f \in [DOMAIN f -> T]
BY DEF MapsTo

\* TypeOK with its maps as members of sets.
Typed ==
    /\ symbols \in MapsTo(Nat)
    /\ nextID \in Nat
    /\ pc \in [Encoders -> {"idle", "partition", "ids", "emit", "return"}]
    /\ payload \in [Encoders -> Payloads \cup {NoPayload}]
    /\ isNew \in [Encoders -> SUBSET Nat]
    /\ localIndex \in [Encoders -> MapsTo(Int)]
    /\ todo \in [Encoders -> SUBSET Nat]
    /\ lines \in [Encoders -> Seq(Line)]
    /\ responses \in Seq([lines : Seq(Line), edges : SUBSET (Int \X Int)])
    /\ encodes \in 0 .. MaxEncodes
    /\ resets \in 0 .. MaxResets
    /\ records \in 0 .. MaxRecords

(***************************************************************************)
(* Typed is not inductive alone: that the id of every line is an id needs  *)
(* localIndex to hold every name of the payload by the time lines are      *)
(* written, which the two loops before it establish.                       *)
(***************************************************************************)
EncoderInv(e) ==
    /\ isNew[e] \cup todo[e] \subseteq Positions(payload[e])
    /\ pc[e] = "idle" => isNew[e] = {}
    /\ pc[e] = "return" => todo[e] = {}
    /\ pc[e] = "ids" =>
         NamesAt(payload[e], Positions(payload[e]) \ (isNew[e] \cup todo[e]))
           \subseteq DOMAIN localIndex[e]
    /\ pc[e] \in {"emit", "return"} =>
         NamesAt(payload[e], Positions(payload[e])) \subseteq DOMAIN localIndex[e]

TypeInv == Typed /\ \A e \in Encoders : EncoderInv(e)

LEMMA EncoderInvUntouched ==
    ASSUME NEW e, EncoderInv(e),
           pc'[e] = pc[e], payload'[e] = payload[e], isNew'[e] = isNew[e],
           todo'[e] = todo[e], localIndex'[e] = localIndex[e]
    PROVE  EncoderInv(e)'
BY DEF EncoderInv, Positions, NamesAt

LEMMA PayloadShape ==
    ASSUME NEW p \in Payloads \cup {NoPayload}
    PROVE  /\ p.syms \in Seq(Symbol)
           /\ p.edges \in SUBSET (Names \X Names)
           /\ Positions(p) \in SUBSET Nat
           /\ IsFiniteSet(Positions(p))
           /\ \A i \in Positions(p) : p.syms[i].name \in Names /\ p.syms[i].rank \in Nat
<1>1. p.syms \in Seq(Symbol) /\ p.edges \in SUBSET (Names \X Names)
  <2>1. CASE p \in Payloads
    BY <2>1, PayloadsAssumption
  <2>2. CASE p = NoPayload
    <3>1. p.syms = << >> /\ p.edges = {}
      BY <2>2 DEF NoPayload
    <3> QED
      BY <3>1
  <2> QED
    BY <2>1, <2>2
<1>2. Positions(p) \in SUBSET Nat
  BY <1>1 DEF Positions
<1>3. IsFiniteSet(Positions(p))
  <2>1. 1 \in Int /\ Len(p.syms) \in Int
    BY <1>1
  <2> QED
    BY <2>1, FS_Interval, Zenon DEF Positions
<1>4. \A i \in Positions(p) : p.syms[i].name \in Names /\ p.syms[i].rank \in Nat
  <2>1. \A i \in Positions(p) : p.syms[i] \in Symbol
    BY <1>1 DEF Positions
  <2> QED
    BY <2>1 DEF Symbol
<1> QED
  BY <1>1, <1>2, <1>3, <1>4

LEMMA FreshIndexIsId ==
    ASSUME NEW p, NEW new \in SUBSET Nat, NEW q, IsFiniteSet(new), nextID \in Nat
    PROVE  FreshIndex(p, new, q) \in Nat
<1> DEFINE last == CHOOSE i \in new : /\ p.syms[i].name = q
                                      /\ \A j \in new : p.syms[j].name = q => j <= i
           S == {j \in new : j < last}
<1>1. IsFiniteSet(S)
  BY FS_Subset
<1>2. Cardinality(S) \in Nat
  BY <1>1, FS_CardinalityType
<1> QED
  BY <1>2 DEF FreshIndex

LEMMA RecordTypes ==
    ASSUME NEW p \in Payloads \cup {NoPayload}, NEW idx \in SUBSET Positions(p),
           symbols \in MapsTo(Nat), nextID \in Nat, Record(p, idx)
    PROVE  symbols' \in MapsTo(Nat) /\ nextID' \in Nat
<1>1. IsFiniteSet(idx) /\ idx \in SUBSET Nat
  BY PayloadShape, FS_Subset
<1>2. /\ Cardinality(Unrecorded(p, idx)) \in Nat
      /\ \A q \in Unrecorded(p, idx) : Cardinality(MetBefore(p, idx, q)) \in Nat
  <2> DEFINE F == Unrecorded(p, idx)
             rank == [q \in F |-> Cardinality(MetBefore(p, idx, q))]
  <2>1. Cardinality(F) \in Nat /\ rank \in Injection(F, 0 .. Cardinality(F) - 1)
    BY <1>1, RanksDense
  <2>2. rank \in [F -> 0 .. Cardinality(F) - 1]
    BY <2>1 DEF Injection
  <2>3. \A q \in F : rank[q] \in Nat
    BY <2>1, <2>2
  <2> QED
    BY <2>1, <2>3
<1>3. Unrecorded(p, idx) \subseteq Names
  BY PayloadShape DEF Unrecorded, NamesAt
<1>4. DOMAIN symbols \subseteq Names /\ symbols \in [DOMAIN symbols -> Nat]
  BY MapsToMember
<1>5. /\ DOMAIN symbols' = DOMAIN symbols \cup Unrecorded(p, idx)
      /\ symbols' \in [DOMAIN symbols \cup Unrecorded(p, idx) -> Nat]
  BY <1>2, <1>4 DEF Record, Transmitted
<1>6. symbols' \in MapsTo(Nat)
  BY <1>3, <1>4, <1>5, MapsToMember
<1>7. nextID' \in Nat
  BY <1>2 DEF Record
<1> QED
  BY <1>6, <1>7

LEMMA TypeInvInit == Init => TypeInv
<1> SUFFICES ASSUME Init PROVE TypeInv
  OBVIOUS
<1>1. NoIds \in MapsTo(Nat) /\ NoIds \in MapsTo(Int)
  BY MapsToMember DEF NoIds
<1>2. Positions(NoPayload) = {}
  BY DEF Positions, NoPayload
<1>3. Typed
  BY <1>1, <1>2, BoundsAssumption DEF Init, Typed
<1>4. \A e \in Encoders : EncoderInv(e)
  BY <1>2 DEF Init, EncoderInv
<1> QED
  BY <1>3, <1>4 DEF TypeInv

LEMMA TypeInvBegin ==
    ASSUME TypeInv, NEW e \in Encoders, NEW p \in Payloads, Begin(e, p)
    PROVE  TypeInv'
<1> USE DEF TypeInv, Typed
<1>1. /\ payload' \in [Encoders -> Payloads \cup {NoPayload}]
      /\ todo' \in [Encoders -> SUBSET Nat]
      /\ pc' \in [Encoders -> {"idle", "partition", "ids", "emit", "return"}]
  BY PayloadShape DEF Begin
<1>2. encodes' \in 0 .. MaxEncodes
  BY BoundsAssumption DEF Begin
<1>3. EncoderInv(e)'
  <2>1. /\ payload'[e] = p /\ todo'[e] = Positions(p) /\ isNew'[e] = isNew[e]
        /\ pc'[e] = IF p.syms = << >> THEN "ids" ELSE "partition"
    BY DEF Begin
  <2>2. isNew'[e] = {}
    BY <2>1 DEF Begin, EncoderInv
  <2>3. NamesAt(payload'[e], {}) = {}
    BY DEF NamesAt
  <2> QED
    BY <2>1, <2>2, <2>3 DEF EncoderInv, NamesAt, Positions
<1>4. \A f \in Encoders \ {e} : EncoderInv(f)'
  BY EncoderInvUntouched DEF Begin
<1> QED
  BY <1>1, <1>2, <1>3, <1>4 DEF Begin, table, EncoderInv

LEMMA TypeInvPartition ==
    ASSUME TypeInv, NEW e \in Encoders, Partition(e)
    PROVE  TypeInv'
<1> USE DEF TypeInv, Typed
<1>1. PICK i \in todo[e] :
        LET new == isNew[e] \cup
                     (IF Transmitted(payload[e].syms[i].name) THEN {} ELSE {i})
            last == todo[e] = {i}
        IN  /\ isNew' = [isNew EXCEPT ![e] = new]
            /\ todo' = [todo EXCEPT ![e] =
                          IF last THEN Positions(payload[e]) \ new ELSE @ \ {i}]
            /\ pc' = [pc EXCEPT ![e] = IF last THEN "ids" ELSE @]
  BY DEF Partition
<1>2. PICK new \in SUBSET (isNew[e] \cup {i}) :
        /\ isNew' = [isNew EXCEPT ![e] = new]
        /\ todo' = [todo EXCEPT ![e] =
                      IF todo[e] = {i} THEN Positions(payload[e]) \ new ELSE @ \ {i}]
        /\ pc' = [pc EXCEPT ![e] = IF todo[e] = {i} THEN "ids" ELSE @]
  <2>1. isNew[e] \cup (IF Transmitted(payload[e].syms[i].name) THEN {} ELSE {i})
          \in SUBSET (isNew[e] \cup {i})
    OBVIOUS
  <2> QED
    BY <1>1, <2>1
<1>3. Positions(payload[e]) \in SUBSET Nat
  BY PayloadShape
<1>4. /\ isNew' \in [Encoders -> SUBSET Nat]
      /\ todo' \in [Encoders -> SUBSET Nat]
      /\ pc' \in [Encoders -> {"idle", "partition", "ids", "emit", "return"}]
  BY <1>2, <1>3
<1>5. EncoderInv(e)'
  <2>1. isNew[e] \cup todo[e] \subseteq Positions(payload[e])
    BY DEF EncoderInv
  <2>2. payload'[e] = payload[e] /\ localIndex'[e] = localIndex[e] /\ pc[e] = "partition"
    BY DEF Partition
  <2>3. CASE todo[e] = {i}
    <3>1. /\ pc'[e] = "ids" /\ isNew'[e] = new
          /\ todo'[e] = Positions(payload[e]) \ new
      BY <1>2, <2>3
    <3>2. Positions(payload'[e]) \ (isNew'[e] \cup todo'[e]) = {}
      BY <2>2, <3>1 DEF Positions
    <3>3. NamesAt(payload'[e], {}) = {}
      BY DEF NamesAt
    <3> QED
      BY <1>2, <2>1, <2>2, <3>1, <3>2, <3>3 DEF EncoderInv, Positions, NamesAt
  <2>4. CASE todo[e] # {i}
    BY <1>2, <2>1, <2>2, <2>4 DEF EncoderInv, Positions
  <2> QED
    BY <2>3, <2>4
<1>6. \A f \in Encoders \ {e} : EncoderInv(f)'
  BY <1>2, EncoderInvUntouched DEF Partition
<1> QED
  BY <1>4, <1>5, <1>6 DEF Partition, table, counts

LEMMA TypeInvLookUp ==
    ASSUME TypeInv, NEW e \in Encoders, LookUp(e)
    PROVE  TypeInv'
<1> USE DEF TypeInv, Typed
<1>1. PICK i \in todo[e] :
        /\ localIndex' = [localIndex EXCEPT ![e] =
              [r \in DOMAIN @ \cup {payload[e].syms[i].name} |->
                 IF r = payload[e].syms[i].name
                 THEN GetID(payload[e].syms[i].name) ELSE @[r]]]
        /\ todo' = [todo EXCEPT ![e] = @ \ {i}]
  BY DEF LookUp
<1> DEFINE q == payload[e].syms[i].name
           old == localIndex[e]
<1>2. isNew[e] \cup todo[e] \subseteq Positions(payload[e])
  BY DEF EncoderInv
<1>3. q \in Names
  BY <1>2, PayloadShape
<1>4. GetID(q) \in Int
  BY MapsToMember DEF GetID, Transmitted
<1>5. DOMAIN old \subseteq Names /\ old \in [DOMAIN old -> Int]
  BY MapsToMember
<1>6. localIndex'[e] = [r \in DOMAIN old \cup {q} |-> IF r = q THEN GetID(q) ELSE old[r]]
  BY <1>1
<1>7. localIndex'[e] \in MapsTo(Int) /\ DOMAIN localIndex'[e] = DOMAIN old \cup {q}
  <2> HIDE DEF q, old
  <2>1. /\ DOMAIN localIndex'[e] = DOMAIN old \cup {q}
        /\ localIndex'[e] \in [DOMAIN old \cup {q} -> Int]
    BY <1>4, <1>5, <1>6
  <2> QED
    BY <1>3, <1>5, <2>1, MapsToMember
<1>8. localIndex' \in [Encoders -> MapsTo(Int)] /\ todo' \in [Encoders -> SUBSET Nat]
  <2>1. \A f \in Encoders \ {e} : localIndex'[f] = localIndex[f]
    BY <1>1
  <2>2. localIndex' = [f \in Encoders |-> localIndex'[f]]
    BY <1>1
  <2>3. \A f \in Encoders : localIndex'[f] \in MapsTo(Int)
    BY <1>7, <2>1
  <2>4. todo' \in [Encoders -> SUBSET Nat]
    BY <1>1
  <2> QED
    BY <2>2, <2>3, <2>4
<1>9. EncoderInv(e)'
  <2>1. /\ payload'[e] = payload[e] /\ isNew'[e] = isNew[e] /\ pc[e] = "ids"
        /\ pc'[e] = "ids" /\ todo'[e] = todo[e] \ {i}
    BY <1>1 DEF LookUp
  <2>2. NamesAt(payload[e], Positions(payload[e]) \ (isNew[e] \cup todo[e]))
          \subseteq DOMAIN old
    BY <2>1 DEF EncoderInv
  <2>3. NamesAt(payload[e], Positions(payload[e]) \ (isNew[e] \cup (todo[e] \ {i})))
          \subseteq DOMAIN old \cup {q}
    BY <2>2 DEF NamesAt
  <2> QED
    BY <1>2, <1>7, <2>1, <2>3 DEF EncoderInv, Positions, NamesAt
<1>10. \A f \in Encoders \ {e} : EncoderInv(f)'
  BY <1>1, EncoderInvUntouched DEF LookUp
<1> QED
  BY <1>8, <1>9, <1>10 DEF LookUp, table, counts

LEMMA TypeInvAssign ==
    ASSUME TypeInv, NEW e \in Encoders, Assign(e)
    PROVE  TypeInv'
<1> USE DEF TypeInv, Typed
<1> DEFINE p == payload[e]
           new == NamesAt(p, isNew[e])
           old == localIndex[e]
<1>1. isNew[e] \subseteq Positions(p) /\ Positions(p) \in SUBSET Nat
  BY PayloadShape DEF EncoderInv
<1>2. new \subseteq Names
  <2>1. \A i \in isNew[e] : p.syms[i].name \in Names
    BY <1>1, PayloadShape
  <2> QED
    BY <2>1 DEF NamesAt
<1>3. \A r \in new : FreshIndex(p, isNew[e], r) \in Nat
  <2>1. IsFiniteSet(isNew[e])
    BY <1>1, PayloadShape, FS_Subset
  <2> QED
    BY <1>1, <2>1, FreshIndexIsId
<1>4. DOMAIN old \subseteq Names /\ old \in [DOMAIN old -> Int]
  BY MapsToMember
<1>5. /\ localIndex' = [localIndex EXCEPT ![e] =
              [r \in DOMAIN old \cup new |->
                 IF r \in new THEN FreshIndex(p, isNew[e], r) ELSE old[r]]]
      /\ todo' = [todo EXCEPT ![e] = Positions(p)]
      /\ pc' = [pc EXCEPT ![e] = "emit"]
  BY DEF Assign
<1>6. localIndex'[e] = [r \in DOMAIN old \cup new |->
                         IF r \in new THEN FreshIndex(p, isNew[e], r) ELSE old[r]]
  BY <1>5
<1>7. localIndex'[e] \in MapsTo(Int) /\ DOMAIN localIndex'[e] = DOMAIN old \cup new
  <2> HIDE DEF p, new, old
  <2>1. /\ DOMAIN localIndex'[e] = DOMAIN old \cup new
        /\ localIndex'[e] \in [DOMAIN old \cup new -> Int]
    BY <1>3, <1>4, <1>6
  <2> QED
    BY <1>2, <1>4, <2>1, MapsToMember
<1>8. /\ localIndex' \in [Encoders -> MapsTo(Int)]
      /\ todo' \in [Encoders -> SUBSET Nat]
      /\ pc' \in [Encoders -> {"idle", "partition", "ids", "emit", "return"}]
  <2>1. \A f \in Encoders \ {e} : localIndex'[f] = localIndex[f]
    BY <1>5
  <2>2. localIndex' = [f \in Encoders |-> localIndex'[f]]
    BY <1>5
  <2>3. \A f \in Encoders : localIndex'[f] \in MapsTo(Int)
    BY <1>7, <2>1
  <2>4. todo' \in [Encoders -> SUBSET Nat]
    BY <1>1, <1>5
  <2> QED
    BY <1>5, <2>2, <2>3, <2>4
<1>9. EncoderInv(e)'
  <2>1. /\ payload'[e] = p /\ isNew'[e] = isNew[e] /\ pc[e] = "ids" /\ todo[e] = {}
        /\ pc'[e] = "emit" /\ todo'[e] = Positions(p)
    BY <1>5 DEF Assign
  <2>2. NamesAt(p, Positions(p) \ isNew[e]) \subseteq DOMAIN old
    BY <2>1 DEF EncoderInv
  <2>3. NamesAt(p, Positions(p)) \subseteq DOMAIN old \cup new
    BY <2>2 DEF NamesAt
  <2> QED
    BY <1>1, <1>7, <2>1, <2>3 DEF EncoderInv, Positions, NamesAt
<1>10. \A f \in Encoders \ {e} : EncoderInv(f)'
  BY <1>5, EncoderInvUntouched DEF Assign
<1> QED
  BY <1>8, <1>9, <1>10 DEF Assign, table, counts

LEMMA TypeInvEmit ==
    ASSUME TypeInv, NEW e \in Encoders, Emit(e)
    PROVE  TypeInv'
<1> USE DEF TypeInv, Typed
<1>1. PICK i \in todo[e] :
        /\ lines' = [lines EXCEPT ![e] =
              Append(@, [id   |-> localIndex[e][payload[e].syms[i].name],
                         name |-> payload[e].syms[i].name,
                         full |-> ~Transmitted(payload[e].syms[i].name)])]
        /\ todo' = [todo EXCEPT ![e] = @ \ {i}]
  BY DEF Emit
<1> DEFINE q == payload[e].syms[i].name
           line == [id |-> localIndex[e][q], name |-> q, full |-> ~Transmitted(q)]
<1>2. pc[e] = "emit" /\ i \in Positions(payload[e])
  BY DEF Emit, EncoderInv
<1>3. q \in Names
  BY <1>2, PayloadShape
<1>4. q \in DOMAIN localIndex[e]
  BY <1>2 DEF EncoderInv, NamesAt
<1>5. localIndex[e][q] \in Int
  BY <1>4, MapsToMember
<1>6. line \in Line
  BY <1>3, <1>5 DEF Line, Transmitted
<1>7. lines' \in [Encoders -> Seq(Line)]
  BY <1>1, <1>6
<1>8. todo' \in [Encoders -> SUBSET Nat]
  BY <1>1
<1>9. EncoderInv(e)'
  BY <1>1, <1>2 DEF Emit, EncoderInv, Positions, NamesAt
<1>10. \A f \in Encoders \ {e} : EncoderInv(f)'
  BY <1>1, EncoderInvUntouched DEF Emit
<1> QED
  BY <1>7, <1>8, <1>9, <1>10 DEF Emit, table, counts

LEMMA TypeInvFinish ==
    ASSUME TypeInv, NEW e \in Encoders, Finish(e)
    PROVE  TypeInv'
<1> USE DEF TypeInv, Typed
<1>1. symbols' \in MapsTo(Nat) /\ nextID' \in Nat
  BY RecordTypes DEF Finish, EncoderInv
<1>2. /\ pc' = [pc EXCEPT ![e] = "return"] /\ pc[e] = "emit" /\ todo[e] = {}
      /\ UNCHANGED <<payload, isNew, localIndex, todo, lines>>
  BY DEF Finish, locals
<1>3. EncoderInv(e)'
  BY <1>2 DEF EncoderInv, Positions, NamesAt
<1>4. \A f \in Encoders \ {e} : EncoderInv(f)'
  BY <1>2, EncoderInvUntouched
<1> QED
  BY <1>1, <1>2, <1>3, <1>4 DEF Finish, counts

LEMMA TypeInvReturn ==
    ASSUME TypeInv, NEW e \in Encoders, Return(e)
    PROVE  TypeInv'
<1> USE DEF TypeInv, Typed
<1>1. EdgeLines(payload[e], localIndex[e]) \in SUBSET (Int \X Int)
  <2>1. payload[e].edges \in SUBSET (Names \X Names)
    BY PayloadShape
  <2>2. localIndex[e] \in [DOMAIN localIndex[e] -> Int]
    BY MapsToMember
  <2> QED
    BY <2>1, <2>2 DEF EdgeLines
<1>2. Response(e) \in [lines : Seq(Line), edges : SUBSET (Int \X Int)]
  BY <1>1 DEF Response
<1>3. responses' \in Seq([lines : Seq(Line), edges : SUBSET (Int \X Int)])
  BY <1>2 DEF Return
<1>4. NoIds \in MapsTo(Int)
  BY MapsToMember DEF NoIds
<1>5. /\ payload' \in [Encoders -> Payloads \cup {NoPayload}]
      /\ isNew' \in [Encoders -> SUBSET Nat]
      /\ localIndex' \in [Encoders -> MapsTo(Int)]
      /\ lines' \in [Encoders -> Seq(Line)]
      /\ pc' \in [Encoders -> {"idle", "partition", "ids", "emit", "return"}]
  BY <1>4 DEF Return
<1>6. EncoderInv(e)'
  <2>1. /\ pc'[e] = "idle" /\ isNew'[e] = {} /\ todo'[e] = {}
        /\ payload'[e] = NoPayload
    BY DEF Return, EncoderInv
  <2> QED
    BY <2>1 DEF EncoderInv
<1>7. \A f \in Encoders \ {e} : EncoderInv(f)'
  BY EncoderInvUntouched DEF Return
<1> QED
  BY <1>3, <1>5, <1>6, <1>7 DEF Return, table, counts

LEMMA TypeInvCalls ==
    ASSUME TypeInv, Reset \/ (\E p \in Payloads : RecordCall(p))
    PROVE  TypeInv'
<1> USE DEF TypeInv, Typed
<1>1. UNCHANGED <<pc, payload, isNew, localIndex, todo, lines>>
  BY DEF Reset, RecordCall, locals
<1>2. \A e \in Encoders : EncoderInv(e)'
  BY <1>1, EncoderInvUntouched
<1>3. CASE Reset
  <2>1. NoIds \in MapsTo(Nat)
    BY MapsToMember DEF NoIds
  <2>2. resets' \in 0 .. MaxResets
    BY <1>3, BoundsAssumption DEF Reset
  <2> QED
    BY <1>1, <1>2, <1>3, <2>1, <2>2 DEF Reset
<1>4. ASSUME NEW p \in Payloads, RecordCall(p)
      PROVE  TypeInv'
  <2>1. symbols' \in MapsTo(Nat) /\ nextID' \in Nat
    BY <1>4, RecordTypes DEF RecordCall
  <2>2. records' \in 0 .. MaxRecords
    BY <1>4, BoundsAssumption DEF RecordCall
  <2> QED
    BY <1>1, <1>2, <1>4, <2>1, <2>2 DEF RecordCall
<1> QED
  BY <1>3, <1>4

LEMMA TypeInvStep == TypeInv /\ [Next]_vars => TypeInv'
<1> SUFFICES ASSUME TypeInv, [Next]_vars PROVE TypeInv'
  OBVIOUS
<1>1. CASE UNCHANGED vars
  <2>1. UNCHANGED <<symbols, nextID, pc, payload, isNew, localIndex, todo, lines,
                    responses, encodes, resets, records>>
    BY <1>1 DEF vars, table, locals, counts
  <2>2. \A e \in Encoders : EncoderInv(e)'
    BY <2>1, EncoderInvUntouched DEF TypeInv
  <2> QED
    BY <2>1, <2>2 DEF TypeInv, Typed
<1>2. ASSUME NEW e \in Encoders, NEW p \in Payloads, Begin(e, p)
      PROVE  TypeInv'
  BY <1>2, TypeInvBegin
<1>3. ASSUME NEW e \in Encoders, Step(e)
      PROVE  TypeInv'
  BY <1>3, TypeInvPartition, TypeInvLookUp, TypeInvAssign, TypeInvEmit,
     TypeInvFinish, TypeInvReturn DEF Step
<1>4. CASE Reset \/ (\E p \in Payloads : RecordCall(p))
  BY <1>4, TypeInvCalls
<1> QED
  BY <1>1, <1>2, <1>3, <1>4 DEF Next

(***************************************************************************)
(* Type correctness of the session and of every encode in progress         *)
(* (session.go:85-207), for any number of encoders and any payloads.       *)
(***************************************************************************)
THEOREM TypeInvariance == Spec => []TypeInv
BY TypeInvInit, TypeInvStep, PTL DEF Spec

\* In particular the session's table and the maps, cursors and lines of
\* EncodeWithSession have their types (session.go:13-17, 85-207).
THEOREM TypeCorrect == Spec => []TypeOK
<1>1. TypeInv => TypeOK
  BY MapsToMember DEF TypeInv, Typed, TypeOK, IsMap
<1> QED
  BY <1>1, TypeInvariance, PTL

-----------------------------------------------------------------------------
(* The table.                                                              *)

\* What a step may do to the table: keep it, extend it, or clear it.
LEMMA TableSteps ==
    ASSUME TypeInv, TableDense, [Next]_vars
    PROVE  /\ TableDense'
           /\ \/ resets' # resets
              \/ \A q \in DOMAIN symbols :
                   q \in DOMAIN symbols' /\ symbols'[q] = symbols[q]
<1>1. CASE UNCHANGED table
  BY <1>1 DEF table, TableDense
<1>2. ASSUME NEW p \in Payloads \cup {NoPayload}, NEW idx \in SUBSET Positions(p),
             Record(p, idx)
      PROVE  /\ TableDense'
             /\ \A q \in DOMAIN symbols :
                  q \in DOMAIN symbols' /\ symbols'[q] = symbols[q]
  <2>1. IsFiniteSet(idx) /\ idx \in SUBSET Nat
    BY PayloadShape, FS_Subset
  <2>2. symbols \in [DOMAIN symbols -> Nat] /\ nextID \in Nat
    BY MapsToMember DEF TypeInv, Typed
  <2> QED
    BY <1>2, <2>1, <2>2, RecordKeepsTable
<1>3. ASSUME NEW e \in Encoders, Finish(e)
      PROVE  \E p \in Payloads \cup {NoPayload} :
               \E idx \in SUBSET Positions(p) : Record(p, idx)
  BY <1>3 DEF Finish, TypeInv, Typed, EncoderInv
<1>4. ASSUME NEW p \in Payloads, RecordCall(p)
      PROVE  Record(p, Positions(p))
  BY <1>4 DEF RecordCall
<1>5. CASE Reset
  <2>1. symbols' = NoIds /\ nextID' = 0 /\ resets' = resets + 1
    BY <1>5 DEF Reset
  <2>2. resets' # resets
    BY <2>1 DEF TypeInv, Typed
  <2>3. TableDense'
    <3>1. DOMAIN symbols' = {}
      BY <2>1 DEF NoIds
    <3>2. 0 .. nextID' - 1 = {}
      BY <2>1
    <3> QED
      BY <3>1, <3>2 DEF TableDense
  <2> QED
    BY <2>2, <2>3
<1>6. ASSUME NEW e \in Encoders, Step(e)
      PROVE  UNCHANGED table \/ Finish(e)
  BY <1>6 DEF Step, Partition, LookUp, Assign, Emit, Return
<1>7. ASSUME NEW e \in Encoders, NEW p \in Payloads, Begin(e, p)
      PROVE  UNCHANGED table
  BY <1>7 DEF Begin
<1>8. CASE UNCHANGED vars
  BY <1>1, <1>8 DEF vars
<1> QED
  BY <1>1, <1>2, <1>3, <1>4, <1>5, <1>6, <1>7, <1>8 DEF Next

LEMMA TableInit == Init => TableDense
<1> SUFFICES ASSUME Init PROVE TableDense
  OBVIOUS
<1>1. DOMAIN symbols = {} /\ nextID = 0
  BY DEF Init, NoIds
<1>2. 0 .. nextID - 1 = {}
  BY <1>1
<1> QED
  BY <1>1, <1>2 DEF TableDense

(***************************************************************************)
(* Whatever the encoders, resets and payloads do, the ids recorded are     *)
(* 0 .. nextID - 1, each for one symbol (session.go:48-57).                *)
(***************************************************************************)
THEOREM TableIntegrity == Spec => []TableDense
<1>1. TypeInv /\ TableDense /\ [Next]_vars => TableDense'
  BY TableSteps
<1> QED
  BY <1>1, TableInit, TypeInvariance, PTL DEF Spec

(***************************************************************************)
(* A recorded id never changes before the next Reset (session.go:123-124). *)
(***************************************************************************)
THEOREM IdsAreStable == Spec => IdsStable
<1>1. TypeInv /\ TableDense /\ [Next]_vars =>
        [\/ resets' # resets
         \/ \A q \in DOMAIN symbols :
              q \in DOMAIN symbols' /\ symbols'[q] = symbols[q]]_vars
  BY TableSteps
<1> QED
  BY <1>1, TypeInvariance, TableIntegrity, PTL DEF Spec, IdsStable

-----------------------------------------------------------------------------
(***************************************************************************)
(* What the client of a session can count on however encodes interleave,   *)
(* as long as the session is not reset under them.                         *)
(***************************************************************************)

LEMMA LinesOfMember ==
    ASSUME NEW rs, NEW l
    PROVE  l \in LinesOf(rs) <=>
             \E k \in DOMAIN rs : \E n \in DOMAIN rs[k].lines : l = <<k, rs[k].lines[n]>>
BY DEF LinesOf

(***************************************************************************)
(* Before the first reset the table only grows.  The calls made are        *)
(* counted, so a step that leaves no reset behind it began with none and   *)
(* is none; the same for Record.                                           *)
(***************************************************************************)
LEMMA CallsCounted ==
    ASSUME TypeInv, [Next]_vars
    PROVE  /\ resets' = 0 => resets = 0 /\ ~Reset
           /\ records' = 0 => records = 0 /\ ~\E p \in Payloads : RecordCall(p)
<1>1. resets \in Nat /\ records \in Nat
  BY BoundsAssumption DEF TypeInv, Typed
<1>2. Reset => resets' = resets + 1 /\ records' = records
  BY DEF Reset
<1>3. (\E p \in Payloads : RecordCall(p)) => resets' = resets /\ records' = records + 1
  BY DEF RecordCall
<1>4. ASSUME NEW e \in Encoders, Step(e) \/ \E p \in Payloads : Begin(e, p)
      PROVE  resets' = resets /\ records' = records
  BY <1>4 DEF Step, Begin, Partition, LookUp, Assign, Emit, Finish, Return, counts
<1>5. \/ Reset
      \/ \E p \in Payloads : RecordCall(p)
      \/ resets' = resets /\ records' = records
  BY <1>4 DEF Next, vars, counts
<1> QED
  BY <1>1, <1>2, <1>3, <1>5

LEMMA TableGrows ==
    ASSUME resets' = 0, TypeInv, [Next]_vars
    PROVE  DOMAIN symbols \subseteq DOMAIN symbols'
<1>1. CASE UNCHANGED table
  BY <1>1 DEF table
<1>2. ASSUME NEW p, NEW idx, Record(p, idx)
      PROVE  DOMAIN symbols \subseteq DOMAIN symbols'
  BY <1>2 DEF Record
<1>3. ASSUME NEW e \in Encoders, Step(e)
      PROVE  UNCHANGED table \/ \E p, idx : Record(p, idx)
  BY <1>3 DEF Step, Partition, LookUp, Assign, Emit, Finish, Return
<1>4. ASSUME NEW p \in Payloads, RecordCall(p)
      PROVE  \E idx : Record(p, idx)
  BY <1>4 DEF RecordCall
<1>5. ASSUME NEW e \in Encoders, NEW p \in Payloads, Begin(e, p)
      PROVE  UNCHANGED table
  BY <1>5 DEF Begin
<1>6. CASE UNCHANGED vars
  BY <1>1, <1>6 DEF vars
<1> QED
  BY <1>1, <1>2, <1>3, <1>4, <1>5, <1>6, CallsCounted DEF Next

-----------------------------------------------------------------------------
(***************************************************************************)
(* Recorded symbols were declared.  Inductively: an encoder has, for every *)
(* position it has emitted, either declared the symbol itself or seen that *)
(* it was recorded, and what is recorded was declared by a response that   *)
(* is delivered or about to be.                                            *)
(***************************************************************************)
Says(ls, q) == \E n \in DOMAIN ls : ls[n].name = q /\ ls[n].full

Said(q) ==
    \/ \E k \in DOMAIN responses : Says(responses[k].lines, q)
    \/ \E e \in Encoders : pc[e] = "return" /\ Says(lines[e], q)

EmittedSaid(e) ==
    pc[e] = "emit" =>
        \A i \in Positions(payload[e]) \ todo[e] :
            LET q == payload[e].syms[i].name IN Transmitted(q) \/ Says(lines[e], q)

RecordedSaid == \A q \in DOMAIN symbols : Said(q)

DeclInv == RecordedSaid /\ \A e \in Encoders : EmittedSaid(e)

LEMMA DeclInvInit == Init => DeclInv
BY DEF Init, DeclInv, RecordedSaid, EmittedSaid, NoIds

LEMMA SaysAppend ==
    ASSUME NEW ls \in Seq(Line), NEW l \in Line, NEW q
    PROVE  /\ Says(ls, q) => Says(Append(ls, l), q)
           /\ l.name = q /\ l.full => Says(Append(ls, l), q)
<1>1. /\ DOMAIN Append(ls, l) = 1 .. Len(ls) + 1
      /\ \A n \in DOMAIN ls : n \in 1 .. Len(ls) + 1 /\ Append(ls, l)[n] = ls[n]
      /\ Append(ls, l)[Len(ls) + 1] = l
      /\ Len(ls) + 1 \in 1 .. Len(ls) + 1
  OBVIOUS
<1> QED
  BY <1>1 DEF Says

\* Steps that neither record, nor emit, nor return keep what was said.
LEMMA SaidKept ==
    ASSUME NEW q, Said(q), responses' = responses, lines' = lines,
           \A e \in Encoders : pc[e] = "return" => pc'[e] = "return"
    PROVE  Said(q)'
BY DEF Said, Says

LEMMA EmittedSaidKept ==
    ASSUME NEW e, EmittedSaid(e), DOMAIN symbols \subseteq DOMAIN symbols',
           pc'[e] = pc[e], payload'[e] = payload[e], todo'[e] = todo[e],
           lines'[e] = lines[e]
    PROVE  EmittedSaid(e)'
BY DEF EmittedSaid, Transmitted, Says, Positions

LEMMA DeclInvEmit ==
    ASSUME TypeInv, TypeInv', DeclInv, NEW e \in Encoders, Emit(e)
    PROVE  DeclInv'
<1>1. PICK i \in todo[e] :
        /\ lines' = [lines EXCEPT ![e] =
              Append(@, [id   |-> localIndex[e][payload[e].syms[i].name],
                         name |-> payload[e].syms[i].name,
                         full |-> ~Transmitted(payload[e].syms[i].name)])]
        /\ todo' = [todo EXCEPT ![e] = @ \ {i}]
  BY DEF Emit
<1> DEFINE q == payload[e].syms[i].name
           line == [id |-> localIndex[e][q], name |-> q, full |-> ~Transmitted(q)]
<1>2. /\ UNCHANGED <<symbols, pc, payload, responses>>
      /\ pc[e] = "emit"
  BY DEF Emit, table
<1>3. lines \in [Encoders -> Seq(Line)] /\ todo \in [Encoders -> SUBSET Nat]
  BY DEF TypeInv, Typed
<1>4. line \in Line
  <2>1. i \in Positions(payload[e])
    BY DEF TypeInv, EncoderInv
  <2>2. q \in Names
    BY <2>1, PayloadShape DEF TypeInv, Typed
  <2>3. q \in DOMAIN localIndex[e]
    BY <1>2, <2>1 DEF TypeInv, EncoderInv, NamesAt
  <2>4. localIndex[e][q] \in Int
    BY <2>3, MapsToMember DEF TypeInv, Typed
  <2> QED
    BY <2>2, <2>4 DEF Line, Transmitted
<1>5. lines'[e] = Append(lines[e], line) /\ todo'[e] = todo[e] \ {i}
  BY <1>1, <1>3
<1>6. \A f \in Encoders \ {e} : lines'[f] = lines[f] /\ todo'[f] = todo[f]
  BY <1>1, <1>3
<1>7. EmittedSaid(e)'
  <2> SUFFICES ASSUME NEW j \in Positions(payload[e]) \ (todo[e] \ {i})
               PROVE  LET r == payload[e].syms[j].name
                      IN  Transmitted(r)' \/ Says(lines'[e], r)
    BY <1>2, <1>5, Zenon DEF EmittedSaid, Positions
  <2>1. CASE j = i
    <3>1. line.name = q /\ (~Transmitted(q) => line.full)
      BY DEF Transmitted
    <3>2. lines[e] \in Seq(Line)
      BY <1>3
    <3> HIDE DEF line, q
    <3>3. ~Transmitted(q) => Says(lines'[e], q)
      BY <1>4, <1>5, <3>1, <3>2, SaysAppend
    <3> USE DEF q
    <3> QED
      BY <1>2, <2>1, <3>3 DEF Transmitted
  <2>2. CASE j # i
    <3>1. LET r == payload[e].syms[j].name IN Transmitted(r) \/ Says(lines[e], r)
      BY <1>2, <2>2 DEF DeclInv, EmittedSaid
    <3> QED
      BY <1>2, <1>3, <1>4, <1>5, <3>1, SaysAppend DEF Transmitted
  <2> QED
    BY <2>1, <2>2
<1>8. \A f \in Encoders \ {e} : EmittedSaid(f)'
  BY <1>2, <1>6, EmittedSaidKept DEF DeclInv
<1>9. RecordedSaid'
  <2> SUFFICES ASSUME NEW r \in DOMAIN symbols PROVE Said(r)'
    BY <1>2 DEF RecordedSaid
  <2>1. Said(r)
    BY DEF DeclInv, RecordedSaid
  <2>2. \A f \in Encoders : pc[f] = "return" => lines'[f] = lines[f] /\ pc'[f] = "return"
    BY <1>2, <1>6
  <2> QED
    BY <1>2, <2>1, <2>2 DEF Said
<1> QED
  BY <1>7, <1>8, <1>9 DEF DeclInv

LEMMA DeclInvFinish ==
    ASSUME TypeInv, DeclInv, NEW e \in Encoders, Finish(e)
    PROVE  DeclInv'
<1> DEFINE p == payload[e]
<1>1. /\ Record(p, isNew[e])
      /\ pc' = [pc EXCEPT ![e] = "return"] /\ pc[e] = "emit" /\ todo[e] = {}
      /\ UNCHANGED <<payload, isNew, localIndex, todo, lines, responses>>
  BY DEF Finish, locals
<1>2. pc \in [Encoders -> {"idle", "partition", "ids", "emit", "return"}]
  BY DEF TypeInv, Typed
<1>3. DOMAIN symbols' = DOMAIN symbols \cup Unrecorded(p, isNew[e])
  BY <1>1 DEF Record
<1>4. \A f \in Encoders : pc[f] = "return" => pc'[f] = "return"
  BY <1>1, <1>2
<1>5. ASSUME NEW q \in Unrecorded(p, isNew[e])
      PROVE  Said(q)'
  <2>1. PICK i \in isNew[e] : q = p.syms[i].name
    BY DEF Unrecorded, NamesAt
  <2>2. ~Transmitted(q)
    BY DEF Unrecorded, Transmitted
  <2>3. i \in Positions(p) \ todo[e]
    BY <1>1 DEF TypeInv, EncoderInv
  <2>4. Says(lines[e], q)
    BY <1>1, <2>1, <2>2, <2>3 DEF DeclInv, EmittedSaid
  <2>5. pc'[e] = "return" /\ lines'[e] = lines[e]
    BY <1>1, <1>2
  <2>6. Says(lines'[e], q)
    BY <2>4, <2>5
  <2> QED
    BY <2>5, <2>6 DEF Said
<1>6. RecordedSaid'
  BY <1>1, <1>3, <1>4, <1>5, SaidKept DEF DeclInv, RecordedSaid
<1>7. \A f \in Encoders : EmittedSaid(f)'
  <2>1. EmittedSaid(e)'
    BY <1>1, <1>2 DEF EmittedSaid
  <2>2. \A f \in Encoders \ {e} : EmittedSaid(f)'
    BY <1>1, <1>2, <1>3, EmittedSaidKept DEF DeclInv
  <2> QED
    BY <2>1, <2>2
<1> QED
  BY <1>6, <1>7 DEF DeclInv

LEMMA DeclInvReturn ==
    ASSUME TypeInv, DeclInv, NEW e \in Encoders, Return(e)
    PROVE  DeclInv'
<1>1. /\ responses' = Append(responses, Response(e))
      /\ UNCHANGED <<symbols, nextID, todo>>
      /\ pc'[e] = "idle"
      /\ \A f \in Encoders \ {e} : /\ pc'[f] = pc[f] /\ lines'[f] = lines[f]
                                   /\ payload'[f] = payload[f]
  BY DEF Return, table, TypeInv, Typed
<1>2. /\ DOMAIN responses' = 1 .. Len(responses) + 1
      /\ \A k \in DOMAIN responses : /\ k \in 1 .. Len(responses) + 1
                                     /\ responses'[k] = responses[k]
      /\ responses'[Len(responses) + 1] = Response(e)
      /\ Len(responses) + 1 \in 1 .. Len(responses) + 1
  <2>1. responses \in Seq([lines : Seq(Line), edges : SUBSET (Int \X Int)])
    BY DEF TypeInv, Typed
  <2> QED
    BY <1>1, <2>1
<1>3. Response(e).lines = lines[e]
  BY DEF Response
<1>4. ASSUME NEW q, Said(q)
      PROVE  Said(q)'
  <2>1. CASE \E k \in DOMAIN responses : Says(responses[k].lines, q)
    BY <1>2, <2>1 DEF Said
  <2>2. CASE Says(lines[e], q)
    BY <1>2, <1>3, <2>2 DEF Said
  <2>3. ASSUME NEW f \in Encoders \ {e}, pc[f] = "return", Says(lines[f], q)
        PROVE  Said(q)'
    <3>1. pc'[f] = "return" /\ Says(lines'[f], q)
      BY <1>1, <2>3
    <3> QED
      BY <3>1 DEF Said
  <2> QED
    BY <1>4, <2>1, <2>2, <2>3 DEF Said
<1>5. RecordedSaid'
  BY <1>1, <1>4 DEF DeclInv, RecordedSaid
<1>6. EmittedSaid(e)'
  BY <1>1 DEF EmittedSaid
<1>7. \A f \in Encoders \ {e} : EmittedSaid(f)'
  BY <1>1, EmittedSaidKept DEF DeclInv
<1> QED
  BY <1>5, <1>6, <1>7 DEF DeclInv

\* The steps that change neither the table nor anything a client can see.
LEMMA DeclInvQuiet ==
    ASSUME TypeInv, DeclInv, NEW e \in Encoders,
           Partition(e) \/ LookUp(e) \/ Assign(e) \/ \E p \in Payloads : Begin(e, p)
    PROVE  DeclInv'
<1>1. /\ UNCHANGED <<symbols, lines, responses>>
      /\ pc[e] # "return"
      /\ \A f \in Encoders \ {e} : /\ pc'[f] = pc[f] /\ payload'[f] = payload[f]
                                   /\ todo'[f] = todo[f]
  BY DEF Partition, LookUp, Assign, Begin, table, TypeInv, Typed
<1>2. RecordedSaid'
  BY <1>1, SaidKept DEF DeclInv, RecordedSaid
<1>3. \A f \in Encoders \ {e} : EmittedSaid(f)'
  BY <1>1, EmittedSaidKept DEF DeclInv
<1>4. EmittedSaid(e)'
  <2>1. CASE Assign(e)
    <3>1. todo'[e] = Positions(payload'[e])
      BY <2>1 DEF Assign, TypeInv, Typed
    <3> QED
      BY <3>1 DEF EmittedSaid, Positions
  <2>2. CASE Partition(e) \/ LookUp(e) \/ \E p \in Payloads : Begin(e, p)
    <3>1. pc'[e] # "emit"
      BY <2>2 DEF Partition, LookUp, Begin, TypeInv, Typed
    <3> QED
      BY <3>1 DEF EmittedSaid
  <2> QED
    BY <2>1, <2>2
<1> QED
  BY <1>2, <1>3, <1>4 DEF DeclInv

LEMMA DeclInvStep ==
    ASSUME resets' = 0, records' = 0, TypeInv, TypeInv', DeclInv, [Next]_vars
    PROVE  DeclInv'
<1>1. CASE UNCHANGED vars
  <2>1. UNCHANGED <<symbols, pc, payload, todo, lines, responses>>
    BY <1>1 DEF vars, table, locals
  <2>2. RecordedSaid'
    BY <2>1, SaidKept DEF DeclInv, RecordedSaid
  <2>3. \A e \in Encoders : EmittedSaid(e)'
    BY <2>1, EmittedSaidKept DEF DeclInv
  <2> QED
    BY <2>2, <2>3 DEF DeclInv
<1>2. ~\E p \in Payloads : RecordCall(p)
  BY CallsCounted
<1>3. ASSUME NEW e \in Encoders, Step(e) \/ \E p \in Payloads : Begin(e, p)
      PROVE  DeclInv'
  BY <1>3, DeclInvQuiet, DeclInvEmit, DeclInvFinish, DeclInvReturn DEF Step
<1> QED
  BY <1>1, <1>2, <1>3, CallsCounted DEF Next

(***************************************************************************)
(* With any number of encoders interleaving, no response is needed to make *)
(* sense of the table that is not delivered or about to be: as long as the *)
(* application neither resets nor records itself, every recorded symbol    *)
(* was declared in full (session.go:162-176, 197-204).                     *)
(***************************************************************************)
THEOREM RecordedSymbolsWereDeclared == Spec => []RecordedWasDeclared
<1> DEFINE Inv == resets = 0 /\ records = 0 => DeclInv
<1>1. Inv => RecordedWasDeclared
  <2> SUFFICES ASSUME DeclInv, NEW q \in DOMAIN symbols
               PROVE  \E l \in Written : l[2].name = q /\ l[2].full
    BY DEF RecordedWasDeclared
  <2>1. Said(q)
    BY DEF DeclInv, RecordedSaid
  <2>2. ASSUME NEW k \in DOMAIN responses, Says(responses[k].lines, q)
        PROVE  \E l \in Written : l[2].name = q /\ l[2].full
    <3>1. PICK n \in DOMAIN responses[k].lines :
            responses[k].lines[n].name = q /\ responses[k].lines[n].full
      BY <2>2 DEF Says
    <3>2. <<k, responses[k].lines[n]>> \in Written
      BY LinesOfMember DEF Written
    <3> QED
      BY <3>1, <3>2
  <2>3. ASSUME NEW e \in Encoders, pc[e] = "return", Says(lines[e], q)
        PROVE  \E l \in Written : l[2].name = q /\ l[2].full
    <3> DEFINE rs == <<[lines |-> lines[e]]>>
    <3>1. PICK n \in DOMAIN lines[e] : lines[e][n].name = q /\ lines[e][n].full
      BY <2>3 DEF Says
    <3>2. DOMAIN rs = {1} /\ rs[1].lines = lines[e]
      OBVIOUS
    <3> HIDE DEF rs
    <3>3. <<1, lines[e][n]>> \in LinesOf(rs)
      BY <3>2, LinesOfMember
    <3>4. <<1, lines[e][n]>> \in Written
      BY <2>3, <3>3 DEF Written, rs
    <3> QED
      BY <3>1, <3>4
  <2> QED
    BY <2>1, <2>2, <2>3 DEF Said
<1>2. TypeInv /\ TypeInv' /\ Inv /\ [Next]_vars => Inv'
  BY DeclInvStep, CallsCounted
<1>3. Init => Inv
  BY DeclInvInit
<1> QED
  BY <1>1, <1>2, <1>3, TypeInvariance, PTL DEF Spec

-----------------------------------------------------------------------------
(***************************************************************************)
(* Delivered symbols are recorded.  Inductively: a position the partition  *)
(* passed is new or of a recorded symbol, Record covers the new ones, and  *)
(* an encoder's lines are about its payload.                               *)
(***************************************************************************)
Passed(e) ==
    /\ pc[e] = "partition" =>
         \A i \in Positions(payload[e]) \ (isNew[e] \cup todo[e]) :
            Transmitted(payload[e].syms[i].name)
    /\ pc[e] \in {"ids", "emit"} =>
         \A i \in Positions(payload[e]) \ isNew[e] :
            Transmitted(payload[e].syms[i].name)
    /\ pc[e] = "return" =>
         \A i \in Positions(payload[e]) : Transmitted(payload[e].syms[i].name)

OwnLines(e) ==
    /\ pc[e] \in {"idle", "partition", "ids"} => lines[e] = << >>
    /\ \A n \in DOMAIN lines[e] :
         lines[e][n].name \in NamesAt(payload[e], Positions(payload[e]))

Delivered ==
    \A k \in DOMAIN responses : \A n \in DOMAIN responses[k].lines :
        Transmitted(responses[k].lines[n].name)

RecInv == Delivered /\ \A e \in Encoders : Passed(e) /\ OwnLines(e)

LEMMA RecInvInit == Init => RecInv
BY DEF Init, RecInv, Delivered, Passed, OwnLines, NamesAt

LEMMA PassedKept ==
    ASSUME NEW e, Passed(e), OwnLines(e), DOMAIN symbols \subseteq DOMAIN symbols',
           pc'[e] = pc[e], payload'[e] = payload[e], todo'[e] = todo[e],
           isNew'[e] = isNew[e], lines'[e] = lines[e]
    PROVE  Passed(e)' /\ OwnLines(e)'
BY DEF Passed, OwnLines, Transmitted, Positions, NamesAt

LEMMA RecInvBegin ==
    ASSUME TypeInv, RecInv, NEW e \in Encoders, NEW p \in Payloads, Begin(e, p)
    PROVE  RecInv'
<1>1. /\ UNCHANGED <<symbols, isNew, lines, responses>>
      /\ pc[e] = "idle" /\ payload'[e] = p /\ todo'[e] = Positions(p)
      /\ pc'[e] = IF p.syms = << >> THEN "ids" ELSE "partition"
      /\ \A f \in Encoders \ {e} : /\ pc'[f] = pc[f] /\ payload'[f] = payload[f]
                                   /\ todo'[f] = todo[f]
  BY DEF Begin, table, TypeInv, Typed
<1>2. lines'[e] = << >>
  BY <1>1 DEF RecInv, OwnLines
<1>3. Passed(e)'
  <2>1. CASE p.syms = << >>
    BY <1>1, <2>1 DEF Passed, Positions
  <2>2. CASE p.syms # << >>
    BY <1>1, <2>2 DEF Passed, Positions
  <2> QED
    BY <2>1, <2>2
<1>4. OwnLines(e)'
  BY <1>2 DEF OwnLines
<1>5. \A f \in Encoders \ {e} : Passed(f)' /\ OwnLines(f)'
  BY <1>1, PassedKept DEF RecInv
<1>6. Delivered'
  BY <1>1 DEF RecInv, Delivered, Transmitted
<1> QED
  BY <1>3, <1>4, <1>5, <1>6 DEF RecInv

LEMMA RecInvPartition ==
    ASSUME TypeInv, RecInv, NEW e \in Encoders, Partition(e)
    PROVE  RecInv'
<1>1. PICK i \in todo[e] :
        LET new == isNew[e] \cup
                     (IF Transmitted(payload[e].syms[i].name) THEN {} ELSE {i})
            last == todo[e] = {i}
        IN  /\ isNew' = [isNew EXCEPT ![e] = new]
            /\ todo' = [todo EXCEPT ![e] =
                          IF last THEN Positions(payload[e]) \ new ELSE @ \ {i}]
            /\ pc' = [pc EXCEPT ![e] = IF last THEN "ids" ELSE @]
  BY DEF Partition
<1>2. /\ UNCHANGED <<symbols, payload, lines, responses>> /\ pc[e] = "partition"
      /\ \A f \in Encoders \ {e} : /\ pc'[f] = pc[f] /\ isNew'[f] = isNew[f]
                                   /\ todo'[f] = todo[f]
  BY <1>1 DEF Partition, table, TypeInv, Typed
<1>3. PICK new : /\ new = isNew[e] \cup
                      (IF Transmitted(payload[e].syms[i].name) THEN {} ELSE {i})
                 /\ isNew'[e] = new
                 /\ todo[e] = {i} => pc'[e] = "ids"
                 /\ todo[e] # {i} => pc'[e] = "partition" /\ todo'[e] = todo[e] \ {i}
  BY <1>1, <1>2 DEF TypeInv, Typed
<1>4. \A j \in Positions(payload[e]) \ (new \cup (todo[e] \ {i})) :
        Transmitted(payload[e].syms[j].name)
  BY <1>2, <1>3 DEF RecInv, Passed
<1>5. Passed(e)'
  BY <1>2, <1>3, <1>4 DEF Passed, Transmitted, Positions
<1>6. OwnLines(e)'
  BY <1>2, <1>3 DEF RecInv, OwnLines, NamesAt, Positions
<1>7. \A f \in Encoders \ {e} : Passed(f)' /\ OwnLines(f)'
  BY <1>2, PassedKept DEF RecInv
<1>8. Delivered'
  BY <1>2 DEF RecInv, Delivered, Transmitted
<1> QED
  BY <1>5, <1>6, <1>7, <1>8 DEF RecInv

LEMMA RecInvIds ==
    ASSUME TypeInv, RecInv, NEW e \in Encoders, LookUp(e) \/ Assign(e)
    PROVE  RecInv'
<1>1. /\ UNCHANGED <<symbols, payload, isNew, lines, responses>>
      /\ pc[e] = "ids" /\ pc'[e] \in {"ids", "emit"}
      /\ \A f \in Encoders \ {e} : pc'[f] = pc[f] /\ todo'[f] = todo[f]
  BY DEF LookUp, Assign, table, TypeInv, Typed
<1>2. Passed(e)' /\ OwnLines(e)'
  BY <1>1 DEF RecInv, Passed, OwnLines, Transmitted, Positions, NamesAt
<1>3. \A f \in Encoders \ {e} : Passed(f)' /\ OwnLines(f)'
  BY <1>1, PassedKept DEF RecInv
<1>4. Delivered'
  BY <1>1 DEF RecInv, Delivered, Transmitted
<1> QED
  BY <1>2, <1>3, <1>4 DEF RecInv

LEMMA RecInvEmit ==
    ASSUME TypeInv, RecInv, NEW e \in Encoders, Emit(e)
    PROVE  RecInv'
<1>1. PICK i \in todo[e] :
        lines' = [lines EXCEPT ![e] =
              Append(@, [id   |-> localIndex[e][payload[e].syms[i].name],
                         name |-> payload[e].syms[i].name,
                         full |-> ~Transmitted(payload[e].syms[i].name)])]
  BY DEF Emit
<1>2. /\ UNCHANGED <<symbols, pc, payload, isNew, responses>> /\ pc[e] = "emit"
      /\ \A f \in Encoders \ {e} : lines'[f] = lines[f] /\ todo'[f] = todo[f]
  BY DEF Emit, table, TypeInv, Typed
<1>3. Passed(e)'
  BY <1>2 DEF RecInv, Passed, Transmitted, Positions
<1>4. OwnLines(e)'
  <2> DEFINE l == [id   |-> localIndex[e][payload[e].syms[i].name],
                  name |-> payload[e].syms[i].name,
                  full |-> ~Transmitted(payload[e].syms[i].name)]
  <2>1. lines'[e] = Append(lines[e], l) /\ l.name = payload[e].syms[i].name
    BY <1>1 DEF TypeInv, Typed
  <2> HIDE DEF l
  <2>2. lines[e] \in Seq(Line)
    BY DEF TypeInv, Typed
  <2>3. \A n \in DOMAIN lines'[e] : lines'[e][n] = l \/
            (n \in DOMAIN lines[e] /\ lines'[e][n] = lines[e][n])
    BY <2>1, <2>2
  <2>4. payload[e].syms[i].name \in NamesAt(payload[e], Positions(payload[e]))
    BY DEF NamesAt, TypeInv, EncoderInv
  <2>5. \A n \in DOMAIN lines[e] :
          lines[e][n].name \in NamesAt(payload[e], Positions(payload[e]))
    BY DEF RecInv, OwnLines
  <2>6. \A n \in DOMAIN lines'[e] :
          lines'[e][n].name \in NamesAt(payload[e], Positions(payload[e]))
    BY <2>1, <2>3, <2>4, <2>5
  <2> QED
    BY <1>2, <2>6 DEF OwnLines, NamesAt, Positions
<1>5. \A f \in Encoders \ {e} : Passed(f)' /\ OwnLines(f)'
  BY <1>2, PassedKept DEF RecInv
<1>6. Delivered'
  BY <1>2 DEF RecInv, Delivered, Transmitted
<1> QED
  BY <1>3, <1>4, <1>5, <1>6 DEF RecInv

LEMMA RecInvFinish ==
    ASSUME TypeInv, RecInv, NEW e \in Encoders, Finish(e)
    PROVE  RecInv'
<1> DEFINE p == payload[e]
<1>1. /\ Record(p, isNew[e]) /\ pc[e] = "emit" /\ pc'[e] = "return"
      /\ UNCHANGED <<payload, isNew, todo, lines, responses>>
      /\ \A f \in Encoders \ {e} : pc'[f] = pc[f]
  BY DEF Finish, locals, TypeInv, Typed
<1>2. DOMAIN symbols' = DOMAIN symbols \cup Unrecorded(p, isNew[e])
  BY <1>1 DEF Record
<1>3. \A i \in Positions(p) : p.syms[i].name \in DOMAIN symbols'
  BY <1>1, <1>2 DEF RecInv, Passed, Transmitted, Unrecorded, NamesAt
<1>4. Passed(e)'
  BY <1>1, <1>3 DEF Passed, Transmitted, Positions
<1>5. OwnLines(e)'
  BY <1>1 DEF RecInv, OwnLines, NamesAt, Positions
<1>6. \A f \in Encoders \ {e} : Passed(f)' /\ OwnLines(f)'
  BY <1>1, <1>2, PassedKept DEF RecInv
<1>7. Delivered'
  BY <1>1, <1>2 DEF RecInv, Delivered, Transmitted
<1> QED
  BY <1>4, <1>5, <1>6, <1>7 DEF RecInv

LEMMA RecInvReturn ==
    ASSUME TypeInv, RecInv, NEW e \in Encoders, Return(e)
    PROVE  RecInv'
<1>1. /\ responses' = Append(responses, Response(e))
      /\ UNCHANGED <<symbols, nextID, todo>>
      /\ pc[e] = "return" /\ pc'[e] = "idle" /\ lines'[e] = << >>
      /\ \A f \in Encoders \ {e} : /\ pc'[f] = pc[f] /\ lines'[f] = lines[f]
                                   /\ payload'[f] = payload[f] /\ isNew'[f] = isNew[f]
  BY DEF Return, table, TypeInv, Typed
<1>2. \A n \in DOMAIN lines[e] : Transmitted(lines[e][n].name)
  BY <1>1 DEF RecInv, Passed, OwnLines, NamesAt
<1>3. Response(e).lines = lines[e]
  BY DEF Response
<1>4. \A k \in DOMAIN responses' :
        responses'[k] = Response(e) \/
        (k \in DOMAIN responses /\ responses'[k] = responses[k])
  <2>1. responses \in Seq([lines : Seq(Line), edges : SUBSET (Int \X Int)])
    BY DEF TypeInv, Typed
  <2> QED
    BY <1>1, <2>1
<1>5. Delivered'
  <2> SUFFICES ASSUME NEW k \in DOMAIN responses', NEW n \in DOMAIN responses'[k].lines
               PROVE  responses'[k].lines[n].name \in DOMAIN symbols
    BY <1>1 DEF Delivered, Transmitted
  <2>1. CASE responses'[k] = Response(e)
    BY <1>2, <1>3, <2>1 DEF Transmitted
  <2>2. CASE k \in DOMAIN responses /\ responses'[k] = responses[k]
    BY <2>2 DEF RecInv, Delivered, Transmitted
  <2> QED
    BY <1>4, <2>1, <2>2
<1>6. Passed(e)' /\ OwnLines(e)'
  BY <1>1 DEF Passed, OwnLines
<1>7. \A f \in Encoders \ {e} : Passed(f)' /\ OwnLines(f)'
  BY <1>1, PassedKept DEF RecInv
<1> QED
  BY <1>5, <1>6, <1>7 DEF RecInv

LEMMA RecInvStep ==
    ASSUME resets' = 0, TypeInv, RecInv, [Next]_vars
    PROVE  RecInv'
<1>1. DOMAIN symbols \subseteq DOMAIN symbols'
  BY TableGrows
<1>2. CASE UNCHANGED <<pc, payload, isNew, todo, lines, responses>>
  <2>1. \A e \in Encoders : Passed(e)' /\ OwnLines(e)'
    BY <1>1, <1>2, PassedKept DEF RecInv
  <2>2. Delivered'
    BY <1>1, <1>2 DEF RecInv, Delivered, Transmitted
  <2> QED
    BY <2>1, <2>2 DEF RecInv
<1>3. CASE UNCHANGED vars \/ \E p \in Payloads : RecordCall(p)
  BY <1>2, <1>3 DEF vars, locals, RecordCall
<1>4. ASSUME NEW e \in Encoders, Step(e)
      PROVE  RecInv'
  BY <1>4, RecInvPartition, RecInvIds, RecInvEmit, RecInvFinish, RecInvReturn DEF Step
<1> QED
  BY <1>3, <1>4, RecInvBegin, CallsCounted DEF Next

(***************************************************************************)
(* With any number of encoders interleaving, whatever the client was sent  *)
(* is in the session's table until the session is reset: Record misses no  *)
(* symbol of a delivered response (session.go:96-102, 197-204).            *)
(***************************************************************************)
THEOREM DeliveredSymbolsAreRecorded == Spec => []DeliveredIsRecorded
<1> DEFINE Inv == resets = 0 => RecInv
<1>1. Inv => DeliveredIsRecorded
  BY LinesOfMember DEF RecInv, Delivered, DeliveredIsRecorded
<1>2. TypeInv /\ Inv /\ [Next]_vars => Inv'
  BY RecInvStep, CallsCounted
<1>3. Init => Inv
  BY RecInvInit
<1> QED
  BY <1>1, <1>2, <1>3, TypeInvariance, PTL DEF Spec

-----------------------------------------------------------------------------
(***************************************************************************)
(* Known symbols keep their id on the wire.  The ids assigned to new       *)
(* symbols overwrite a looked-up one only where a name is known at one     *)
(* position and new at another.                                            *)
(***************************************************************************)
AsRecorded(e, i) ==
    LET q == payload[e].syms[i].name IN localIndex[e][q] = symbols[q]

IdKept(e) ==
    /\ pc[e] = "ids" =>
         \A i \in Positions(payload[e]) \ (isNew[e] \cup todo[e]) : AsRecorded(e, i)
    /\ pc[e] \in {"emit", "return"} =>
         \A i \in Positions(payload[e]) \ isNew[e] :
            \/ payload[e].syms[i].name \in NamesAt(payload[e], isNew[e])
            \/ AsRecorded(e, i)

IdInv == \A e \in Encoders : IdKept(e)

LEMMA TableExtends ==
    ASSUME resets' = 0, TypeInv, TableDense, [Next]_vars
    PROVE  \A q \in DOMAIN symbols : q \in DOMAIN symbols' /\ symbols'[q] = symbols[q]
<1>1. resets' = resets
  BY CallsCounted
<1> QED
  BY <1>1, TableSteps

LEMMA IdKeptKept ==
    ASSUME NEW e \in Encoders, IdKept(e), Passed(e),
           \A q \in DOMAIN symbols : symbols'[q] = symbols[q],
           pc'[e] = pc[e] \/ (pc[e] = "emit" /\ pc'[e] = "return"),
           payload'[e] = payload[e], isNew'[e] = isNew[e], localIndex'[e] = localIndex[e],
           pc[e] = "ids" => todo'[e] = todo[e]
    PROVE  IdKept(e)'
<1>1. CASE pc[e] = "ids"
  BY <1>1 DEF IdKept, Passed, AsRecorded, Transmitted, Positions
<1>2. CASE pc[e] = "emit"
  BY <1>2 DEF IdKept, Passed, AsRecorded, Transmitted, Positions
<1>3. CASE pc[e] = "return"
  BY <1>3 DEF IdKept, Passed, AsRecorded, Transmitted, Positions
<1>4. CASE pc[e] \notin {"ids", "emit", "return"}
  BY <1>4 DEF IdKept
<1> QED
  BY <1>1, <1>2, <1>3, <1>4

LEMMA IdInvLookUp ==
    ASSUME TypeInv, RecInv, IdInv, NEW e \in Encoders, LookUp(e)
    PROVE  IdKept(e)'
<1>1. PICK i \in todo[e] :
        /\ localIndex' = [localIndex EXCEPT ![e] =
              [r \in DOMAIN @ \cup {payload[e].syms[i].name} |->
                 IF r = payload[e].syms[i].name
                 THEN GetID(payload[e].syms[i].name) ELSE @[r]]]
        /\ todo' = [todo EXCEPT ![e] = @ \ {i}]
  BY DEF LookUp
<1> DEFINE p == payload[e]
           q == p.syms[i].name
<1>2. /\ UNCHANGED <<symbols, pc, payload, isNew>> /\ pc[e] = "ids"
      /\ todo'[e] = todo[e] \ {i}
      /\ localIndex'[e] = [r \in DOMAIN localIndex[e] \cup {q} |->
                             IF r = q THEN GetID(q) ELSE localIndex[e][r]]
  BY <1>1 DEF LookUp, table, TypeInv, Typed
<1>3. ASSUME NEW j \in Positions(p) \ (isNew[e] \cup (todo[e] \ {i}))
      PROVE  localIndex'[e][p.syms[j].name] = symbols[p.syms[j].name]
  <2>1. p.syms[j].name \in DOMAIN symbols
    BY <1>2 DEF RecInv, Passed, Transmitted
  <2>2. CASE p.syms[j].name = q
    BY <1>2, <2>1, <2>2 DEF GetID, Transmitted
  <2>3. CASE p.syms[j].name # q
    <3>1. j \in Positions(p) \ (isNew[e] \cup todo[e])
      BY <2>3
    <3>2. localIndex[e][p.syms[j].name] = symbols[p.syms[j].name]
      BY <1>2, <3>1 DEF IdInv, IdKept, AsRecorded
    <3>3. p.syms[j].name \in DOMAIN localIndex[e]
      BY <1>2, <3>1 DEF TypeInv, EncoderInv, NamesAt
    <3> QED
      BY <1>2, <2>3, <3>2, <3>3
  <2> QED
    BY <2>2, <2>3
<1> QED
  BY <1>2, <1>3 DEF IdKept, AsRecorded, Positions

LEMMA IdInvAssign ==
    ASSUME TypeInv, RecInv, IdInv, NEW e \in Encoders, Assign(e)
    PROVE  IdKept(e)'
<1> DEFINE p == payload[e]
           new == NamesAt(p, isNew[e])
<1>1. /\ UNCHANGED <<symbols, payload, isNew>> /\ pc[e] = "ids" /\ todo[e] = {}
      /\ pc'[e] = "emit"
      /\ localIndex'[e] = [r \in DOMAIN localIndex[e] \cup new |->
                             IF r \in new THEN FreshIndex(p, isNew[e], r)
                             ELSE localIndex[e][r]]
  BY DEF Assign, table, TypeInv, Typed
<1>2. ASSUME NEW j \in Positions(p) \ isNew[e], p.syms[j].name \notin new
      PROVE  localIndex'[e][p.syms[j].name] = symbols[p.syms[j].name]
  <2>1. localIndex[e][p.syms[j].name] = symbols[p.syms[j].name]
    BY <1>1 DEF IdInv, IdKept, AsRecorded
  <2>2. p.syms[j].name \in DOMAIN localIndex[e]
    BY <1>1 DEF TypeInv, EncoderInv, NamesAt
  <2> QED
    BY <1>1, <1>2, <2>1, <2>2
<1> QED
  BY <1>1, <1>2 DEF IdKept, AsRecorded, Positions

LEMMA IdInvStep ==
    ASSUME resets' = 0, TypeInv, TypeInv', TableDense, RecInv, IdInv, [Next]_vars
    PROVE  IdInv'
<1> SUFFICES ASSUME NEW e \in Encoders PROVE IdKept(e)'
  BY DEF IdInv
<1>1. IdKept(e) /\ Passed(e)
  BY DEF IdInv, RecInv
<1>2. \A q \in DOMAIN symbols : symbols'[q] = symbols[q]
  BY TableExtends
<1>3. CASE UNCHANGED <<pc, payload, isNew, localIndex, todo>>
  BY <1>1, <1>2, <1>3, IdKeptKept
<1>4. CASE UNCHANGED vars \/ \E p \in Payloads : RecordCall(p)
  BY <1>3, <1>4 DEF vars, locals, RecordCall
<1>5. ASSUME NEW f \in Encoders, f # e, Step(f) \/ \E p \in Payloads : Begin(f, p)
      PROVE  IdKept(e)'
  <2>1. /\ pc'[e] = pc[e] /\ payload'[e] = payload[e] /\ isNew'[e] = isNew[e]
        /\ localIndex'[e] = localIndex[e] /\ todo'[e] = todo[e]
    BY <1>5 DEF Step, Partition, LookUp, Assign, Emit, Finish, Return, Begin, locals,
               TypeInv, Typed
  <2> QED
    BY <1>1, <1>2, <2>1, IdKeptKept
<1>6. ASSUME NEW p \in Payloads, Begin(e, p)
      PROVE  IdKept(e)'
  <2>1. payload'[e] = p /\ todo'[e] = Positions(p) /\ pc'[e] \in {"ids", "partition"}
    BY <1>6 DEF Begin, TypeInv, Typed
  <2> QED
    BY <2>1 DEF IdKept, Positions
<1>7. CASE Partition(e)
  <2>1. PICK i \in todo[e] :
          LET new == isNew[e] \cup
                       (IF Transmitted(payload[e].syms[i].name) THEN {} ELSE {i})
              last == todo[e] = {i}
          IN  /\ isNew' = [isNew EXCEPT ![e] = new]
              /\ todo' = [todo EXCEPT ![e] =
                            IF last THEN Positions(payload[e]) \ new ELSE @ \ {i}]
              /\ pc' = [pc EXCEPT ![e] = IF last THEN "ids" ELSE @]
    BY <1>7 DEF Partition
  <2>2. pc[e] = "partition" /\ payload' = payload
    BY <1>7 DEF Partition
  <2>3. \/ pc'[e] = "partition"
        \/ pc'[e] = "ids" /\ todo'[e] = Positions(payload[e]) \ isNew'[e]
    BY <2>1, <2>2 DEF TypeInv, Typed
  <2> QED
    BY <2>2, <2>3 DEF IdKept, Positions
<1>8. CASE Emit(e) \/ Finish(e)
  <2>1. /\ pc[e] = "emit" /\ pc'[e] \in {"emit", "return"}
        /\ payload'[e] = payload[e] /\ isNew'[e] = isNew[e]
        /\ localIndex'[e] = localIndex[e]
    BY <1>8 DEF Emit, Finish, locals, TypeInv, Typed
  <2> QED
    BY <1>1, <1>2, <2>1, IdKeptKept
<1>9. CASE Return(e)
  <2>1. pc'[e] = "idle"
    BY <1>9 DEF Return, TypeInv, Typed
  <2> QED
    BY <2>1 DEF IdKept
<1>10. CASE Step(e)
  BY <1>7, <1>8, <1>9, <1>10, IdInvLookUp, IdInvAssign DEF Step
<1>11. ASSUME NEW f \in Encoders, Step(f) \/ \E p \in Payloads : Begin(f, p)
       PROVE  IdKept(e)'
  BY <1>5, <1>6, <1>10, <1>11
<1> QED
  BY <1>4, <1>11, CallsCounted DEF Next

(***************************************************************************)
(* With any number of encoders interleaving, a symbol found known by the   *)
(* partition is written with the id recorded for it, until the session is  *)
(* reset (session.go:126-131).                                             *)
(***************************************************************************)
THEOREM KnownSymbolsKeepTheirId == Spec => []KnownKeepTheirId
<1> DEFINE Inv == resets = 0 => RecInv /\ IdInv
<1>1. Inv => KnownKeepTheirId
  <2> SUFFICES ASSUME RecInv, IdInv,
                      NEW e \in Encoders, pc[e] \in {"emit", "return"},
                      NEW i \in Positions(payload[e]),
                      payload[e].syms[i].name \notin NamesAt(payload[e], isNew[e])
               PROVE  LET q == payload[e].syms[i].name
                      IN  Transmitted(q) /\ localIndex[e][q] = symbols[q]
    BY DEF KnownKeepTheirId, NamesAt
  <2>1. i \notin isNew[e]
    BY DEF NamesAt
  <2> QED
    BY <2>1 DEF IdInv, IdKept, AsRecorded, RecInv, Passed
<1>2. TypeInv /\ TypeInv' /\ TableDense /\ Inv /\ [Next]_vars => Inv'
  BY IdInvStep, RecInvStep, CallsCounted
<1>3. Init => Inv
  BY RecInvInit DEF Init, IdInv, IdKept
<1> QED
  BY <1>1, <1>2, <1>3, TypeInvariance, TableIntegrity, PTL DEF Spec
=============================================================================
