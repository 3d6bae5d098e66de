--------------------------- MODULE GroupedProofs ---------------------------
(***************************************************************************)
(* Theorems about GroupedDocument: what EncodeGenericGrouped writes,       *)
(* decodeGroupedArray reads, for any number of records, and refuses when a *)
(* line is lost or doubled.  The lines are followed from group to group:   *)
(* Laid says where each group's lines are in the document, GroupsRead      *)
(* which records the loop has after some of the groups, and which of the   *)
(* array's records each of them is; GoesWrong, what a damaged document has *)
(* where the loop cannot go on.                                            *)
(***************************************************************************)
EXTENDS GroupedDocument, FiniteSetTheorems, SequenceTheorems, TLAPS

-----------------------------------------------------------------------------
(* Sequences.                                                              *)

\* Induction on the naturals, for a set.
LEMMA Induct ==
    ASSUME NEW S \in SUBSET Nat, 0 \in S, \A n \in S : n + 1 \in S
    PROVE  \A n \in Nat : n \in S
<1> SUFFICES ASSUME Nat \ S # {} PROVE FALSE
  OBVIOUS
<1> DEFINE T == Nat \ S
<1>1. T \in SUBSET Nat /\ T # {}
  OBVIOUS
<1> HIDE DEF T
<1>2. PICK m \in T : \A k \in T : ~(<<k, m>> \in OpToRel(<, Nat))
  BY <1>1, NatLessThanWellFounded, WFMin, Zenon
<1>3. \A k \in T : ~(k < m)
  BY <1>1, <1>2, Zenon DEF OpToRel
<1>4. m \in Nat /\ m # 0 /\ m \notin S
  BY DEF T
<1>5. m - 1 \in Nat /\ m - 1 < m /\ (m - 1) + 1 = m
  BY <1>4
<1>6. m - 1 \notin T
  BY <1>3, <1>5
<1>7. m - 1 \in S
  BY <1>5, <1>6 DEF T
<1> QED
  BY <1>4, <1>5, <1>7

-----------------------------------------------------------------------------
(* Picking elements of a sequence.                                         *)

\* What has been picked after each of the first n elements.
PickedUpTo(s, places, n, f) ==
    /\ f = [i \in 0 .. n |-> f[i]]
    /\ f[0] = << >>
    /\ \A i \in 1 .. n : f[i] = IF i \in places THEN Append(f[i - 1], s[i]) ELSE f[i - 1]

\* Picked is its recursive function, which exists.
LEMMA PicksExist ==
    ASSUME NEW S, NEW s \in Seq(S), NEW places
    PROVE  \E f : PickedUpTo(s, places, Len(s), f) /\ Picked(s, places) = f[Len(s)]
<1> DEFINE step(f, i) == IF i = 0 THEN << >>
                         ELSE IF i \in places THEN Append(f[i - 1], s[i]) ELSE f[i - 1]
           N == {n \in Nat : \E f : PickedUpTo(s, places, n, f)}
<1>1. 0 \in N
  <2> DEFINE f == [i \in 0 .. 0 |-> << >>]
  <2>1. PickedUpTo(s, places, 0, f)
    BY DEF PickedUpTo
  <2> QED
    BY <2>1
<1>2. ASSUME NEW n \in N PROVE n + 1 \in N
  <2>1. n \in Nat
    OBVIOUS
  <2>2. PICK f : PickedUpTo(s, places, n, f)
    OBVIOUS
  <2> DEFINE g == [i \in 0 .. n + 1 |-> IF i = n + 1 THEN step(f, n + 1) ELSE f[i]]
  <2>3. g[0] = << >> /\ g = [i \in 0 .. n + 1 |-> g[i]]
    BY <2>1, <2>2 DEF PickedUpTo
  <2>4. ASSUME NEW i \in 1 .. n + 1
        PROVE  g[i] = IF i \in places THEN Append(g[i - 1], s[i]) ELSE g[i - 1]
    <3>1. i - 1 \in 0 .. n /\ i - 1 \in 0 .. n + 1 /\ i - 1 # n + 1 /\ i # 0 /\ i \in 0 .. n + 1
      BY <2>1
    <3>2. g[i - 1] = f[i - 1]
      BY <3>1
    <3>3. CASE i = n + 1
      BY <3>1, <3>2, <3>3
    <3>4. CASE i # n + 1
      <4>1. i \in 1 .. n
        BY <2>1, <3>4
      <4>2. g[i] = f[i]
        BY <3>1, <3>4
      <4> QED
        BY <2>2, <3>2, <4>1, <4>2 DEF PickedUpTo
    <3> QED
      BY <3>3, <3>4
  <2>5. PickedUpTo(s, places, n + 1, g)
    <3> HIDE DEF g
    <3> QED
      BY <2>3, <2>4 DEF PickedUpTo
  <2> QED
    BY <2>1, <2>5
<1>3. PICK f : PickedUpTo(s, places, Len(s), f)
  <2>1. N \in SUBSET Nat
    OBVIOUS
  <2>2. \A n \in Nat : n \in N
    <3> HIDE DEF N
    <3> QED
      BY <1>1, <1>2, <2>1, Induct
  <2> QED
    BY <2>2
<1> DEFINE F(g) == g = [i \in 0 .. Len(s) |-> step(g, i)]
<1>4. ASSUME NEW g PROVE F(g) <=> PickedUpTo(s, places, Len(s), g)
  <2>1. Len(s) \in Nat
    OBVIOUS
  <2>2. ASSUME F(g) PROVE PickedUpTo(s, places, Len(s), g)
    <3>1. \A i \in 0 .. Len(s) : g[i] = step(g, i)
      BY <2>2
    <3>2. g = [i \in 0 .. Len(s) |-> g[i]]
      BY <2>2
    <3> QED
      BY <2>1, <3>1, <3>2 DEF PickedUpTo
  <2>3. ASSUME PickedUpTo(s, places, Len(s), g) PROVE F(g)
    <3>1. \A i \in 0 .. Len(s) : g[i] = step(g, i)
      <4> TAKE i \in 0 .. Len(s)
      <4>1. i = 0 \/ i \in 1 .. Len(s)
        BY <2>1
      <4> QED
        BY <2>3, <4>1 DEF PickedUpTo
    <3>2. g = [i \in 0 .. Len(s) |-> g[i]]
      BY <2>3 DEF PickedUpTo
    <3> QED
      BY <3>1, <3>2
  <2> QED
    BY <2>2, <2>3
<1>5. Picked(s, places) = (CHOOSE g : F(g))[Len(s)]
  BY DEF Picked
<1>6. F(CHOOSE g : F(g))
  <2> HIDE DEF F
  <2>1. F(f)
    BY <1>3, <1>4
  <2> QED
    BY <2>1
<1> QED
  <2> HIDE DEF F
  <2> QED
    BY <1>4, <1>5, <1>6

\* What is picked are the elements at those places, in order.
PlacesOf(s, places, t, p) ==
    /\ p \in [1 .. Len(t) -> places]
    /\ \A k \in 1 .. Len(t) : t[k] = s[p[k]]
    /\ \A j, k \in 1 .. Len(t) : j < k => p[j] < p[k]
    /\ \A i \in places : \E k \in 1 .. Len(t) : p[k] = i

\* A sequence with one more element.
LEMMA LongerBy ==
    ASSUME NEW S, NEW t \in Seq(S), NEW x \in S
    PROVE  /\ Append(t, x) \in Seq(S)
           /\ Len(Append(t, x)) = Len(t) + 1
           /\ Append(t, x)[Len(t) + 1] = x
           /\ \A k \in 1 .. Len(t) : Append(t, x)[k] = t[k]
BY AppendProperties

\* One more place, i, after n others.
PlaceAfter(p, n, i) == [k \in 1 .. n + 1 |-> IF k = n + 1 THEN i ELSE p[k]]

\* One more place, after all the others, is one more element.
LEMMA PickMore ==
    ASSUME NEW S, NEW s \in Seq(S), NEW n \in Nat, n + 1 <= Len(s), NEW places \in SUBSET (1 .. n),
           NEW t \in Seq(S), NEW p, PlacesOf(s, places, t, p)
    PROVE  PlacesOf(s, places \cup {n + 1}, Append(t, s[n + 1]), PlaceAfter(p, Len(t), n + 1))
<1> DEFINE u == Append(t, s[n + 1])
           q == [k \in 1 .. Len(t) + 1 |-> IF k = Len(t) + 1 THEN n + 1 ELSE p[k]]
<1>0. q = PlaceAfter(p, Len(t), n + 1)
  BY DEF PlaceAfter
<1>1. s[n + 1] \in S
  OBVIOUS
<1>2. /\ Len(u) = Len(t) + 1
      /\ u[Len(t) + 1] = s[n + 1]
      /\ \A k \in 1 .. Len(t) : u[k] = t[k]
  BY <1>1, LongerBy
<1>3. Len(t) \in Nat
  OBVIOUS
<1>4. \A k \in 1 .. Len(t) : /\ k \in 1 .. Len(t) + 1 /\ k # Len(t) + 1
                             /\ q[k] = p[k] /\ p[k] \in places /\ p[k] \in 1 .. n
  <2> TAKE k \in 1 .. Len(t)
  <2>1. k \in 1 .. Len(t) + 1 /\ k # Len(t) + 1
    BY <1>3
  <2>2. p[k] \in places
    BY DEF PlacesOf
  <2> QED
    BY <2>1, <2>2
<1>5. Len(t) + 1 \in 1 .. Len(t) + 1 /\ q[Len(t) + 1] = n + 1
  BY <1>3
<1>6. \A k \in 1 .. Len(t) + 1 : k = Len(t) + 1 \/ k \in 1 .. Len(t)
  BY <1>3
<1> HIDE DEF u
<1>7. q \in [1 .. Len(u) -> places \cup {n + 1}]
  BY <1>2, <1>4, <1>6
<1> HIDE DEF q
<1>8. \A k \in 1 .. Len(u) : u[k] = s[q[k]]
  BY <1>2, <1>4, <1>5, <1>6 DEF PlacesOf
<1>9. ASSUME NEW j \in 1 .. Len(u), NEW k \in 1 .. Len(u), j < k PROVE q[j] < q[k]
  <2>1. j \in 1 .. Len(t)
    BY <1>2, <1>3, <1>9
  <2>2. q[j] = p[j] /\ p[j] \in 1 .. n
    BY <1>4, <2>1
  <2>3. CASE k = Len(t) + 1
    BY <1>5, <2>2, <2>3
  <2>4. CASE k \in 1 .. Len(t)
    BY <1>4, <1>9, <2>1, <2>2, <2>4 DEF PlacesOf
  <2> QED
    BY <1>2, <1>6, <2>3, <2>4
<1>10. ASSUME NEW i \in places \cup {n + 1} PROVE \E k \in 1 .. Len(u) : q[k] = i
  <2>1. CASE i = n + 1
    BY <1>2, <1>5, <2>1
  <2>2. CASE i \in places
    <3>1. PICK k \in 1 .. Len(t) : p[k] = i
      BY <2>2 DEF PlacesOf
    <3> QED
      BY <1>2, <1>4, <3>1
  <2> QED
    BY <2>1, <2>2
<1> QED
  BY <1>0, <1>7, <1>8, <1>9, <1>10 DEF PlacesOf, u

\* The places do not depend on what is at them.
LEMMA PickedAlike ==
    ASSUME NEW S, NEW s \in Seq(S), NEW U, NEW u \in Seq(U), Len(u) = Len(s),
           NEW places \in SUBSET (1 .. Len(s))
    PROVE  /\ Picked(s, places) \in Seq(S)
           /\ Picked(u, places) \in Seq(U)
           /\ Len(Picked(s, places)) = Len(Picked(u, places))
           /\ \E p : PlacesOf(s, places, Picked(s, places), p) /\ PlacesOf(u, places, Picked(u, places), p)
<1>1. PICK f : PickedUpTo(s, places, Len(s), f) /\ Picked(s, places) = f[Len(s)]
  BY PicksExist, Zenon
<1>0. PICK g : PickedUpTo(u, places, Len(u), g) /\ Picked(u, places) = g[Len(u)]
  BY PicksExist, Zenon
<1> DEFINE upTo(n) == places \cap (1 .. n)
           good(n) == /\ f[n] \in Seq(S)
                      /\ g[n] \in Seq(U)
                      /\ Len(f[n]) = Len(g[n])
                      /\ \E p : PlacesOf(s, upTo(n), f[n], p) /\ PlacesOf(u, upTo(n), g[n], p)
           N == {n \in Nat : n <= Len(s) => good(n)}
<1>2. 0 \in N
  <2>1. f[0] = << >> /\ g[0] = << >> /\ upTo(0) = {}
    BY <1>0, <1>1 DEF PickedUpTo
  <2> DEFINE p == [k \in 1 .. 0 |-> 1]
  <2>2. Len(<< >>) = 0 /\ 1 .. 0 = {}
    OBVIOUS
  <2>3. \A x : PlacesOf(x, {}, << >>, p)
    BY <2>2 DEF PlacesOf
  <2> HIDE DEF p
  <2>4. \E q : PlacesOf(s, {}, << >>, q) /\ PlacesOf(u, {}, << >>, q)
    BY <2>3
  <2>5. << >> \in Seq(S) /\ << >> \in Seq(U)
    OBVIOUS
  <2> QED
    BY <2>1, <2>4, <2>5
<1>3. ASSUME NEW n \in N PROVE n + 1 \in N
  <2>1. n \in Nat /\ n + 1 \in Nat
    OBVIOUS
  <2> SUFFICES ASSUME n + 1 <= Len(s) PROVE good(n + 1)
    BY <2>1
  <2>2. n <= Len(s) /\ n + 1 \in 1 .. Len(s) /\ (n + 1) - 1 = n
    BY <2>1
  <2>3. good(n)
    BY <2>2
  <2>4. /\ f[n + 1] = IF n + 1 \in places THEN Append(f[n], s[n + 1]) ELSE f[n]
        /\ g[n + 1] = IF n + 1 \in places THEN Append(g[n], u[n + 1]) ELSE g[n]
    BY <1>0, <1>1, <2>2 DEF PickedUpTo
  <2>5. PICK p : PlacesOf(s, upTo(n), f[n], p) /\ PlacesOf(u, upTo(n), g[n], p)
    BY <2>3
  <2>6. upTo(n) \in SUBSET (1 .. n)
    OBVIOUS
  <2>7. CASE n + 1 \in places
    <3>1. upTo(n + 1) = upTo(n) \cup {n + 1}
      BY <2>1, <2>7
    <3>2. s[n + 1] \in S /\ f[n] \in Seq(S)
      BY <2>2, <2>3
    <3>3. u[n + 1] \in U /\ g[n] \in Seq(U) /\ n + 1 <= Len(u)
      BY <2>2, <2>3
    <3> DEFINE q == PlaceAfter(p, Len(f[n]), n + 1)
    <3> HIDE DEF upTo
    <3>4. PlacesOf(s, upTo(n) \cup {n + 1}, Append(f[n], s[n + 1]), q)
      BY <2>1, <2>5, <2>6, <3>2, PickMore
    <3>5. PlacesOf(u, upTo(n) \cup {n + 1}, Append(g[n], u[n + 1]), PlaceAfter(p, Len(g[n]), n + 1))
      BY <2>1, <2>5, <2>6, <3>3, PickMore
    <3>6. Len(f[n]) = Len(g[n])
      BY <2>3
    <3>7. PlacesOf(u, upTo(n) \cup {n + 1}, Append(g[n], u[n + 1]), q)
      BY <3>5, <3>6
    <3>8. Append(f[n], s[n + 1]) \in Seq(S) /\ Len(Append(f[n], s[n + 1])) = Len(f[n]) + 1
      BY <3>2, LongerBy
    <3>9. Append(g[n], u[n + 1]) \in Seq(U) /\ Len(Append(g[n], u[n + 1])) = Len(g[n]) + 1
      BY <3>3, LongerBy
    <3> HIDE DEF q
    <3> QED
      BY <2>4, <2>7, <3>1, <3>4, <3>6, <3>7, <3>8, <3>9
  <2>8. CASE n + 1 \notin places
    <3>1. upTo(n + 1) = upTo(n)
      BY <2>1, <2>8
    <3>2. f[n + 1] = f[n] /\ g[n + 1] = g[n]
      BY <2>4, <2>8
    <3> HIDE DEF upTo
    <3> QED
      BY <2>3, <3>1, <3>2
  <2> QED
    BY <2>7, <2>8
<1>4. good(Len(s))
  <2>1. N \in SUBSET Nat /\ Len(s) \in Nat
    OBVIOUS
  <2>2. \A n \in Nat : n \in N
    <3> HIDE DEF N
    <3> QED
      BY <1>2, <1>3, <2>1, Induct
  <2>3. Len(s) \in N
    BY <2>1, <2>2
  <2>4. Len(s) <= Len(s)
    BY <2>1
  <2>5. Len(s) <= Len(s) => good(Len(s))
    <3> HIDE DEF good
    <3> QED
      BY <2>3
  <2> HIDE DEF good
  <2> QED
    BY <2>4, <2>5
<1>5. upTo(Len(s)) = places
  OBVIOUS
<1>6. \E p : PlacesOf(s, places, f[Len(s)], p) /\ PlacesOf(u, places, g[Len(s)], p)
  <2> HIDE DEF upTo
  <2> QED
    BY <1>4, <1>5
<1>7. f[Len(s)] \in Seq(S) /\ g[Len(s)] \in Seq(U) /\ Len(f[Len(s)]) = Len(g[Len(s)])
  BY <1>4
<1>8. Picked(s, places) = f[Len(s)] /\ Picked(u, places) = g[Len(s)]
  BY <1>0, <1>1
<1>9. \E p : PlacesOf(s, places, Picked(s, places), p) /\ PlacesOf(u, places, Picked(u, places), p)
  BY <1>6, <1>8, Zenon
<1>10. /\ Picked(s, places) \in Seq(S)
       /\ Picked(u, places) \in Seq(U)
       /\ Len(Picked(s, places)) = Len(Picked(u, places))
  BY <1>7, <1>8, Zenon
<1> QED
  BY <1>9, <1>10, Zenon

\* What is picked are the elements at the places, in order.
LEMMA PickedPlaces ==
    ASSUME NEW S, NEW s \in Seq(S), NEW places \in SUBSET (1 .. Len(s))
    PROVE  /\ Picked(s, places) \in Seq(S)
           /\ \E p : PlacesOf(s, places, Picked(s, places), p)
<1> DEFINE t == Picked(s, places)
<1>1. /\ t \in Seq(S) /\ t \in Seq(S) /\ Len(t) = Len(t)
      /\ \E p : PlacesOf(s, places, t, p) /\ PlacesOf(s, places, t, p)
  BY PickedAlike
<1> QED
  BY <1>1, Zenon

\* Something picked is something at one of the places, and the other way round.
LEMMA PickedElements ==
    ASSUME NEW S, NEW s \in Seq(S), NEW places \in SUBSET (1 .. Len(s))
    PROVE  /\ \A k \in 1 .. Len(Picked(s, places)) : \E i \in places : Picked(s, places)[k] = s[i]
           /\ \A i \in places : \E k \in 1 .. Len(Picked(s, places)) : Picked(s, places)[k] = s[i]
<1>1. PICK t, p : t = Picked(s, places) /\ PlacesOf(s, places, t, p)
  BY PickedPlaces
<1>2. \A k \in 1 .. Len(t) : \E i \in places : t[k] = s[i]
  BY <1>1 DEF PlacesOf
<1>3. \A i \in places : \E k \in 1 .. Len(t) : t[k] = s[i]
  BY <1>1 DEF PlacesOf
<1> QED
  BY <1>1, <1>2, <1>3, Zenon

\* Nothing is picked twice.
LEMMA PickedOnce ==
    ASSUME NEW S, NEW s \in Seq(S), NEW places \in SUBSET (1 .. Len(s)),
           \A i, j \in places : s[i] = s[j] => i = j
    PROVE  \A j, k \in 1 .. Len(Picked(s, places)) :
              Picked(s, places)[j] = Picked(s, places)[k] => j = k
<1> DEFINE t == Picked(s, places)
<1>1. PICK p : PlacesOf(s, places, t, p)
  BY PickedPlaces
<1>2. Len(t) \in Nat
  <2>1. t \in Seq(S)
    BY PickedPlaces
  <2> HIDE DEF t
  <2> QED
    BY <2>1
<1> HIDE DEF t
<1>3. ASSUME NEW j \in 1 .. Len(t), NEW k \in 1 .. Len(t), t[j] = t[k] PROVE j = k
  <2>1. p[j] \in places /\ p[k] \in places
    BY <1>1 DEF PlacesOf
  <2>11. t[j] = s[p[j]] /\ t[k] = s[p[k]]
    BY <1>1 DEF PlacesOf
  <2>12. s[p[j]] = s[p[k]]
    BY <1>3, <2>11
  <2>13. p[j] = p[k]
    BY <2>1, <2>12
  <2>14. p[j] \in Nat
    <3>1. \A i \in places : i \in 1 .. Len(s)
      OBVIOUS
    <3>2. \A i \in 1 .. Len(s) : i \in Nat
      OBVIOUS
    <3> QED
      BY <2>1, <3>1, <3>2, Zenon
  <2>2. p[j] = p[k] /\ p[j] \in Nat
    BY <2>13, <2>14
  <2>3. ~(j < k) /\ ~(k < j)
    BY <1>1, <2>2 DEF PlacesOf
  <2> QED
    BY <1>2, <2>3
<1> QED
  BY <1>3 DEF t

\* Among the numbers with a property there is a least one.
LEMMA Least ==
    ASSUME NEW T \in SUBSET Nat, NEW n \in T
    PROVE  \E m \in T : \A k \in T : m <= k
<1>1. T # {}
  OBVIOUS
<1>2. PICK m \in T : \A k \in T : ~(<<k, m>> \in OpToRel(<, Nat))
  BY <1>1, NatLessThanWellFounded, WFMin, Zenon
<1>3. \A k \in T : ~(k < m)
  BY <1>2, Zenon DEF OpToRel
<1> QED
  BY <1>3

\* Distinct keeps every element, and each once.
LEMMA DistinctElements ==
    ASSUME NEW S, NEW s \in Seq(S)
    PROVE  /\ Distinct(s) \in Seq(S)
           /\ \A j, k \in 1 .. Len(Distinct(s)) : Distinct(s)[j] = Distinct(s)[k] => j = k
           /\ ToSet(Distinct(s)) = ToSet(s)
<1> DEFINE first == {i \in DOMAIN s : \A j \in 1 .. i - 1 : s[j] # s[i]}
<1>1. Distinct(s) = Picked(s, first)
  BY DEF Distinct
<1>2. DOMAIN s = 1 .. Len(s) /\ Len(s) \in Nat
  OBVIOUS
<1>3. first \in SUBSET (1 .. Len(s))
  BY <1>2
<1>4. \A i, j \in first : s[i] = s[j] => i = j
  <2> SUFFICES ASSUME NEW i \in first, NEW j \in first, s[i] = s[j], i # j PROVE FALSE
    OBVIOUS
  <2>1. i \in 1 .. Len(s) /\ j \in 1 .. Len(s)
    BY <1>3
  <2>2. i \in 1 .. j - 1 \/ j \in 1 .. i - 1
    BY <1>2, <2>1
  <2> QED
    BY <2>2
<1>5. ASSUME NEW i \in 1 .. Len(s) PROVE \E m \in first : s[m] = s[i]
  <2> DEFINE T == {j \in 1 .. Len(s) : s[j] = s[i]}
  <2>1. T \in SUBSET Nat /\ i \in T
    OBVIOUS
  <2>2. PICK m \in T : \A k \in T : m <= k
    BY <2>1, Least
  <2>3. m \in 1 .. Len(s) /\ s[m] = s[i]
    OBVIOUS
  <2>4. ASSUME NEW j \in 1 .. m - 1 PROVE s[j] # s[m]
    <3>1. j \in 1 .. Len(s) /\ ~(m <= j)
      BY <1>2, <2>3
    <3> QED
      BY <2>2, <2>3, <3>1
  <2> QED
    BY <1>2, <2>3, <2>4
<1> HIDE DEF first
<1>6. Distinct(s) \in Seq(S)
  BY <1>1, <1>3, PickedPlaces
<1>7. \A j, k \in 1 .. Len(Distinct(s)) : Distinct(s)[j] = Distinct(s)[k] => j = k
  BY <1>1, <1>3, <1>4, PickedOnce
<1>8. /\ \A k \in 1 .. Len(Distinct(s)) : \E i \in first : Distinct(s)[k] = s[i]
      /\ \A i \in first : \E k \in 1 .. Len(Distinct(s)) : Distinct(s)[k] = s[i]
  <2>1. /\ \A k \in 1 .. Len(Picked(s, first)) : \E i \in first : Picked(s, first)[k] = s[i]
        /\ \A i \in first : \E k \in 1 .. Len(Picked(s, first)) : Picked(s, first)[k] = s[i]
    BY <1>3, PickedElements
  <2> QED
    BY <1>1, <2>1
<1>9. ToSet(Distinct(s)) = ToSet(s)
  <2>1. DOMAIN Distinct(s) = 1 .. Len(Distinct(s))
    BY <1>6
  <2>2. ASSUME NEW x \in ToSet(Distinct(s)) PROVE x \in ToSet(s)
    BY <1>2, <1>3, <1>8, <2>1 DEF ToSet
  <2>3. ASSUME NEW x \in ToSet(s) PROVE x \in ToSet(Distinct(s))
    <3>1. PICK i \in 1 .. Len(s) : x = s[i]
      BY <1>2 DEF ToSet
    <3>2. PICK m \in first : s[m] = s[i]
      BY <1>5
    <3>3. PICK k \in 1 .. Len(Distinct(s)) : Distinct(s)[k] = s[m]
      BY <1>8
    <3> QED
      BY <2>1, <3>1, <3>2, <3>3 DEF ToSet
  <2> QED
    BY <2>2, <2>3
<1> QED
  BY <1>6, <1>7, <1>9

-----------------------------------------------------------------------------
(* Sequences in a row.                                                     *)

\* The first sequences of s, one after the other.
FlatUpTo(s, n, f) ==
    /\ f = [i \in 0 .. n |-> f[i]]
    /\ f[0] = << >>
    /\ \A i \in 1 .. n : f[i] = f[i - 1] \o s[i]

\* The recursive function behind FlattenSeq exists.
LEMMA FlatExist ==
    ASSUME NEW T, NEW s \in Seq(Seq(T))
    PROVE  \E f : FlatUpTo(s, Len(s), f)
<1> DEFINE N == {n \in Nat : \E f : FlatUpTo(s, n, f)}
<1>1. 0 \in N
  <2> DEFINE f == [i \in 0 .. 0 |-> << >>]
  <2>1. FlatUpTo(s, 0, f)
    BY DEF FlatUpTo
  <2> QED
    BY <2>1
<1>2. ASSUME NEW n \in N PROVE n + 1 \in N
  <2>1. n \in Nat
    OBVIOUS
  <2>2. PICK f : FlatUpTo(s, n, f)
    OBVIOUS
  <2> DEFINE g == [i \in 0 .. n + 1 |-> IF i = n + 1 THEN f[n] \o s[n + 1] ELSE f[i]]
  <2>3. g[0] = << >> /\ g = [i \in 0 .. n + 1 |-> g[i]]
    BY <2>1, <2>2 DEF FlatUpTo
  <2>4. ASSUME NEW i \in 1 .. n + 1 PROVE g[i] = g[i - 1] \o s[i]
    <3>1. i - 1 \in 0 .. n /\ i - 1 \in 0 .. n + 1 /\ i - 1 # n + 1 /\ i # 0 /\ i \in 0 .. n + 1
      BY <2>1
    <3>2. g[i - 1] = f[i - 1]
      BY <3>1
    <3>3. CASE i = n + 1
      <4>1. i - 1 = n
        BY <2>1, <3>3
      <4>2. g[i] = f[n] \o s[n + 1]
        BY <3>1, <3>3
      <4> HIDE DEF g
      <4> QED
        BY <3>2, <3>3, <4>1, <4>2
    <3>4. CASE i # n + 1
      <4>1. i \in 1 .. n
        BY <2>1, <3>4
      <4>2. g[i] = f[i]
        BY <3>1, <3>4
      <4> HIDE DEF g
      <4> QED
        BY <2>2, <3>2, <4>1, <4>2 DEF FlatUpTo
    <3> QED
      BY <3>3, <3>4
  <2>5. FlatUpTo(s, n + 1, g)
    <3> HIDE DEF g
    <3> QED
      BY <2>3, <2>4 DEF FlatUpTo
  <2> QED
    BY <2>1, <2>5
<1>3. N \in SUBSET Nat
  OBVIOUS
<1>4. \A n \in Nat : n \in N
  <2> HIDE DEF N
  <2> QED
    BY <1>1, <1>2, <1>3, Induct
<1>5. Len(s) \in N
  BY <1>4
<1> QED
  BY <1>5

\* Its values are sequences of the elements.
LEMMA FlatTyped ==
    ASSUME NEW T, NEW s \in Seq(Seq(T)), NEW f, FlatUpTo(s, Len(s), f)
    PROVE  \A k \in 0 .. Len(s) : f[k] \in Seq(T)
<1> DEFINE N == {n \in Nat : n <= Len(s) => f[n] \in Seq(T)}
<1>1. 0 \in N
  BY DEF FlatUpTo
<1>2. ASSUME NEW n \in N PROVE n + 1 \in N
  <2>1. n \in Nat
    OBVIOUS
  <2> SUFFICES ASSUME n + 1 <= Len(s) PROVE f[n + 1] \in Seq(T)
    BY <2>1
  <2>2. n <= Len(s) /\ n + 1 \in 1 .. Len(s) /\ (n + 1) - 1 = n
    BY <2>1
  <2>3. f[n] \in Seq(T) /\ s[n + 1] \in Seq(T)
    BY <2>2
  <2>4. f[n + 1] = f[n] \o s[n + 1]
    BY <2>2 DEF FlatUpTo
  <2> QED
    BY <2>3, <2>4
<1>3. N \in SUBSET Nat
  OBVIOUS
<1>4. \A n \in Nat : n \in N
  <2> HIDE DEF N
  <2> QED
    BY <1>1, <1>2, <1>3, Induct
<1> QED
  BY <1>4

\* FlattenSeq is its last value.
LEMMA FlatIs ==
    ASSUME NEW T, NEW s \in Seq(Seq(T))
    PROVE  \E f : FlatUpTo(s, Len(s), f) /\ FlattenSeq(s) = f[Len(s)]
<1>1. PICK f : FlatUpTo(s, Len(s), f)
  BY FlatExist
<1>2. Len(s) \in Nat
  OBVIOUS
<1>3. CASE Len(s) = 0
  <2>1. s = << >>
    BY <1>3
  <2>2. FlattenSeq(s) = << >>
    BY <1>3, <2>1 DEF FlattenSeq
  <2> QED
    BY <1>1, <1>3, <2>2 DEF FlatUpTo
<1>4. CASE Len(s) # 0
  <2> DEFINE F(g) == g = [i \in 1 .. Len(s) |-> IF i = 1 THEN s[i] ELSE g[i - 1] \o s[i]]
             h == [i \in 1 .. Len(s) |-> f[i]]
  <2>1. FlattenSeq(s) = (CHOOSE g : F(g))[Len(s)]
    BY <1>4 DEF FlattenSeq
  <2>2. F(h)
    <3>1. ASSUME NEW i \in 1 .. Len(s) PROVE h[i] = IF i = 1 THEN s[i] ELSE h[i - 1] \o s[i]
      <4>1. f[i] = f[i - 1] \o s[i] /\ h[i] = f[i]
        BY <1>1 DEF FlatUpTo
      <4>2. CASE i = 1
        <5>1. f[i - 1] = << >>
          BY <1>1, <4>2 DEF FlatUpTo
        <5>2. s[i] \in Seq(T)
          OBVIOUS
        <5>3. << >> \o s[i] = s[i]
          BY <5>2
        <5> QED
          BY <4>1, <4>2, <5>1, <5>3
      <4>3. CASE i # 1
        <5>1. i - 1 \in 1 .. Len(s)
          BY <1>2, <4>3
        <5>2. h[i - 1] = f[i - 1]
          BY <5>1
        <5> HIDE DEF h
        <5> QED
          BY <4>1, <4>3, <5>2
      <4> QED
        BY <4>2, <4>3
    <3>2. h = [i \in 1 .. Len(s) |-> h[i]]
      OBVIOUS
    <3> HIDE DEF h
    <3> QED
      BY <3>1, <3>2
  <2>3. PICK g : g = (CHOOSE x : F(x))
    OBVIOUS
  <2>4. F(g)
    <3> HIDE DEF F, h
    <3> QED
      BY <2>2, <2>3
  <2> DEFINE e == [i \in 0 .. Len(s) |-> IF i = 0 THEN << >> ELSE g[i]]
  <2>5. e[0] = << >> /\ e = [i \in 0 .. Len(s) |-> e[i]]
    BY <1>2
  <2>6. ASSUME NEW i \in 1 .. Len(s) PROVE e[i] = e[i - 1] \o s[i]
    <3>1. e[i] = g[i] /\ g[i] = IF i = 1 THEN s[i] ELSE g[i - 1] \o s[i]
      <4>1. g[i] = IF i = 1 THEN s[i] ELSE g[i - 1] \o s[i]
        BY <2>4
      <4>2. e[i] = g[i]
        BY <1>2
      <4> QED
        BY <4>1, <4>2
    <3>2. CASE i = 1
      <4>1. e[i - 1] = << >>
        BY <2>5, <3>2
      <4>2. s[i] \in Seq(T)
        OBVIOUS
      <4>3. << >> \o s[i] = s[i]
        BY <4>2
      <4> HIDE DEF e
      <4> QED
        BY <3>1, <3>2, <4>1, <4>3
    <3>3. CASE i # 1
      <4>1. i - 1 \in 0 .. Len(s) /\ i - 1 # 0
        BY <1>2, <3>3
      <4>2. e[i - 1] = g[i - 1]
        BY <4>1
      <4> HIDE DEF e
      <4> QED
        BY <3>1, <3>3, <4>2
    <3> QED
      BY <3>2, <3>3
  <2>7. Len(s) \in 0 .. Len(s) /\ e[Len(s)] = g[Len(s)]
    BY <1>2, <1>4
  <2> HIDE DEF e, F
  <2>8. FlatUpTo(s, Len(s), e)
    BY <2>5, <2>6 DEF FlatUpTo
  <2> QED
    BY <2>1, <2>3, <2>7, <2>8
<1> QED
  BY <1>3, <1>4

-----------------------------------------------------------------------------
(* Objects.                                                                *)

\* An object with no key twice.
Plain(o) ==
    /\ IsObject(o)
    /\ o.items \in Seq(Range(o.items))
    /\ \A i, j \in DOMAIN o.items : o.items[i].key = o.items[j].key => i = j

\* What toAny makes of an object has no key twice.
LEMMA RecordsArePlain == \A o : IsRecord(o) => Plain(o)
BY Zenon DEF IsRecord, Plain

\* Every sequence is one of its own elements.
LEMMA OfItsOwn ==
    ASSUME NEW T, NEW t \in Seq(T)
    PROVE  /\ t \in Seq(Range(t))
           /\ DOMAIN t = 1 .. Len(t)
           /\ Len(t) \in Nat
<1>1. DOMAIN t = 1 .. Len(t) /\ Len(t) \in Nat /\ t = [i \in 1 .. Len(t) |-> t[i]]
  OBVIOUS
<1>2. \A i \in 1 .. Len(t) : t[i] \in Range(t)
  BY <1>1 DEF Range
<1>3. t \in [1 .. Len(t) -> Range(t)]
  BY <1>1, <1>2
<1>4. t \in Seq(Range(t))
  BY <1>1, <1>3
<1> QED
  BY <1>1, <1>4

\* Get finds the value under a key.
LEMMA GetThere ==
    ASSUME NEW o, Plain(o), NEW i \in DOMAIN o.items
    PROVE  Get(o, o.items[i].key) = o.items[i].val
<1> DEFINE n == o.items[i].key
           c == CHOOSE j \in DOMAIN o.items : o.items[j].key = n
<1>1. c \in DOMAIN o.items /\ o.items[c].key = n
  OBVIOUS
<1>2. c = i
  BY <1>1 DEF Plain
<1>3. Get(o, n) = o.items[c].val
  BY DEF Get, Plain
<1> QED
  BY <1>2, <1>3

\* Get finds nothing under what is no key.
LEMMA GetNone ==
    ASSUME NEW o, NEW n, \A i \in DOMAIN o.items : o.items[i].key # n
    PROVE  Get(o, n) = Absent
BY DEF Get

\* The keys of an object, as a set.
LEMMA KeySet ==
    ASSUME NEW o, Plain(o)
    PROVE  /\ \A i \in DOMAIN o.items : o.items[i].key \in ToSet(Keys(o))
           /\ \A n \in ToSet(Keys(o)) : \E i \in DOMAIN o.items : o.items[i].key = n
           /\ Keys(o) \in Seq(ToSet(Keys(o)))
           /\ Len(Keys(o)) = Len(o.items)
           /\ \A i \in DOMAIN o.items : Keys(o)[i] = o.items[i].key
<1> DEFINE t == [i \in DOMAIN o.items |-> o.items[i].key]
           T == {o.items[i].key : i \in DOMAIN o.items}
<1>1. DOMAIN o.items = 1 .. Len(o.items) /\ Len(o.items) \in Nat
  BY DEF Plain
<1>2. t \in Seq(T) /\ Len(t) = Len(o.items)
  BY <1>1
<1>3. Keys(o) = SubSeq(t, 1, Len(o.items))
  BY DEF Keys, Mapped
<1>4. SubSeq(t, 1, Len(t)) = t
  <2> HIDE DEF t, T
  <2> QED
    BY <1>2, SubSeqFull
<1>5. Keys(o) = t
  BY <1>2, <1>3, <1>4
<1>6. ToSet(Keys(o)) = T
  <2>1. DOMAIN t = DOMAIN o.items
    OBVIOUS
  <2> QED
    BY <1>5 DEF ToSet
<1> QED
  BY <1>1, <1>2, <1>5, <1>6

\* The same, with the set of the keys.
LEMMA GetWhenKey ==
    ASSUME NEW o, Plain(o), NEW n
    PROVE  n \notin ToSet(Keys(o)) => Get(o, n) = Absent
BY KeySet, GetNone

\* A record has a value for each of its keys and for nothing else.
LEMMA RecordHas ==
    ASSUME NEW o, IsRecord(o), NEW n
    PROVE  /\ Has(o, n) <=> n \in ToSet(Keys(o))
           /\ n \in ToSet(Keys(o)) =>
                 Get(o, n).kind \in {"null", "scalar", "object", "array"}
           /\ n \in ToSet(Keys(o)) => \E i \in DOMAIN o.items :
                 o.items[i].key = n /\ o.items[i].val = Get(o, n)
<1>1. Plain(o)
  BY RecordsArePlain, Zenon
<1>2. CASE n \in ToSet(Keys(o))
  <2>1. PICK i \in DOMAIN o.items : o.items[i].key = n
    BY <1>1, <1>2, KeySet
  <2>2. Get(o, n) = o.items[i].val
    BY <1>1, <2>1, GetThere
  <2>3. Get(o, n).kind \in {"null", "scalar", "object", "array"}
    BY <2>2 DEF IsRecord
  <2>4. Get(o, n) # Absent
    BY <2>3 DEF Absent
  <2> QED
    BY <1>2, <2>1, <2>2, <2>3, <2>4 DEF Has
<1>3. CASE n \notin ToSet(Keys(o))
  BY <1>1, <1>3, GetWhenKey DEF Has
<1> QED
  BY <1>2, <1>3

\* o has these fields, but for those whose value is Absent.
HasFields(o, names, vals) ==
    /\ Plain(o)
    /\ \A k \in 1 .. Len(names) : Get(o, names[k]) = vals[k]
    /\ \A n : n \notin ToSet(names) => Get(o, n) = Absent
    /\ \A n : n \in ToSet(Keys(o)) <=>
                 \E k \in 1 .. Len(names) : names[k] = n /\ vals[k] # Absent

\* The object of the fields that have a value.
LEMMA InlinedIs ==
    ASSUME NEW N, NEW names \in Seq(N), NEW V, NEW vals \in [1 .. Len(names) -> V],
           \A j, k \in 1 .. Len(names) : names[j] = names[k] => j = k
    PROVE  HasFields(Inlined(names, vals), names, vals)
<1> DEFINE ps == [k \in DOMAIN names |-> Pair(names[k], vals[k])]
           there == {k \in DOMAIN names : vals[k] # Absent}
           T == {Pair(names[k], vals[k]) : k \in DOMAIN names}
           items == Picked(ps, there)
           o == Inlined(names, vals)
<1>1. DOMAIN names = 1 .. Len(names) /\ Len(names) \in Nat
  OBVIOUS
<1>2. ps \in Seq(T) /\ Len(ps) = Len(names)
  BY <1>1
<1>3. \A k \in 1 .. Len(names) : ps[k].key = names[k] /\ ps[k].val = vals[k]
  BY <1>1 DEF Pair
<1>4. there \in SUBSET (1 .. Len(ps))
  BY <1>1, <1>2
<1>5. o = Object(items)
  BY DEF Inlined
<1>6. o.kind = "object" /\ o.items = items
  BY <1>5 DEF Object
<1>7. \A k \in 1 .. Len(names) : k \in there <=> vals[k] # Absent
  BY <1>1
<1> HIDE DEF ps, there, T
<1>8. items \in Seq(T)
  BY <1>2, <1>4, PickedPlaces
<1>9. items \in Seq(Range(items)) /\ DOMAIN items = 1 .. Len(items) /\ Len(items) \in Nat
  <2> HIDE DEF items
  <2> QED
    BY <1>8, OfItsOwn
<1>10. PICK p : PlacesOf(ps, there, items, p)
  BY <1>2, <1>4, PickedPlaces
<1>11. \A k \in 1 .. Len(items) : p[k] \in there /\ items[k] = ps[p[k]]
  BY <1>10 DEF PlacesOf
<1>12. \A k \in there : k \in 1 .. Len(names)
  BY <1>2, <1>4
<1>13. \A k \in 1 .. Len(items) : /\ p[k] \in 1 .. Len(names) /\ vals[p[k]] # Absent
                                  /\ items[k].key = names[p[k]] /\ items[k].val = vals[p[k]]
  BY <1>3, <1>7, <1>11, <1>12
<1> HIDE DEF items
<1>14. ASSUME NEW j \in 1 .. Len(items), NEW k \in 1 .. Len(items), items[j].key = items[k].key
       PROVE  j = k
  <2>1. names[p[j]] = names[p[k]]
    BY <1>13, <1>14
  <2>2. p[j] = p[k] /\ p[j] \in Nat
    BY <1>13, <2>1
  <2>3. ~(j < k) /\ ~(k < j)
    BY <1>10, <2>2 DEF PlacesOf
  <2> QED
    BY <1>9, <2>3
<1> HIDE DEF o
<1>15. Plain(o)
  BY <1>6, <1>9, <1>14 DEF Plain, IsObject
<1>16. ASSUME NEW k \in 1 .. Len(names), vals[k] # Absent
       PROVE  /\ Get(o, names[k]) = vals[k]
              /\ names[k] \in ToSet(Keys(o))
  <2>1. PICK j \in 1 .. Len(items) : p[j] = k
    BY <1>7, <1>10, <1>16 DEF PlacesOf
  <2>2. items[j].key = names[k] /\ items[j].val = vals[k]
    BY <1>13, <2>1
  <2>3. j \in DOMAIN o.items /\ o.items[j].key = names[k] /\ o.items[j].val = vals[k]
    BY <1>6, <1>9, <2>2
  <2>4. Get(o, o.items[j].key) = o.items[j].val
    BY <1>15, <2>3, GetThere
  <2> QED
    BY <1>15, <2>3, <2>4, KeySet
<1>17. ASSUME NEW k \in 1 .. Len(names), vals[k] = Absent
       PROVE  Get(o, names[k]) = Absent
  <2>1. ASSUME NEW j \in DOMAIN o.items PROVE o.items[j].key # names[k]
    <3>1. j \in 1 .. Len(items)
      BY <1>6, <1>9
    <3>2. o.items[j].key = names[p[j]] /\ p[j] \in 1 .. Len(names) /\ p[j] # k
      BY <1>6, <1>13, <1>17, <3>1
    <3> QED
      BY <3>2
  <2> QED
    BY <2>1, GetNone
<1>18. ASSUME NEW n, n \in ToSet(Keys(o))
       PROVE  \E k \in 1 .. Len(names) : names[k] = n /\ vals[k] # Absent
  <2>1. PICK j \in DOMAIN o.items : o.items[j].key = n
    BY <1>15, <1>18, KeySet
  <2> QED
    BY <1>6, <1>9, <1>13, <2>1
<1>19. ASSUME NEW n, n \notin ToSet(names) PROVE Get(o, n) = Absent
  <2>1. ASSUME NEW j \in DOMAIN o.items PROVE o.items[j].key # n
    <3>1. o.items[j].key = names[p[j]] /\ p[j] \in DOMAIN names
      BY <1>1, <1>6, <1>9, <1>13
    <3> QED
      BY <1>19, <3>1 DEF ToSet
  <2> QED
    BY <2>1, GetNone
<1>20. \A k \in 1 .. Len(names) : Get(o, names[k]) = vals[k]
  BY <1>16, <1>17
<1>21. \A n : n \in ToSet(Keys(o)) <=>
                 \E k \in 1 .. Len(names) : names[k] = n /\ vals[k] # Absent
  BY <1>16, <1>18
<1>22. HasFields(o, names, vals)
  BY <1>15, <1>19, <1>20, <1>21 DEF HasFields
<1> QED
  BY <1>22 DEF o

\* Set changes what the object has for one key.
LEMMA SetIs ==
    ASSUME NEW o, IsRecord(o), NEW n, NEW v, v # Absent
    PROVE  /\ Plain(Set(o, n, v))
           /\ ToSet(Keys(Set(o, n, v))) = ToSet(Keys(o)) \cup {n}
           /\ Get(Set(o, n, v), n) = v
           /\ \A m : m # n => Get(Set(o, n, v), m) = Get(o, m)
<1> DEFINE s == Set(o, n, v)
<1>1. Plain(o)
  BY RecordsArePlain, Zenon
<1>2. DOMAIN o.items = 1 .. Len(o.items) /\ Len(o.items) \in Nat
  BY <1>1 DEF Plain
<1>3. CASE Has(o, n)
  <2> DEFINE t == [i \in DOMAIN o.items |-> IF o.items[i].key = n THEN Pair(n, v) ELSE o.items[i]]
             T == {t[i] : i \in DOMAIN o.items}
  <2>1. s = Object(SubSeq(t, 1, Len(o.items)))
    BY <1>3 DEF Set, Mapped
  <2>2. t \in Seq(T) /\ Len(t) = Len(o.items) /\ DOMAIN t = DOMAIN o.items
    BY <1>2
  <2>3. \A i \in DOMAIN o.items :
           t[i].key = o.items[i].key /\ t[i].val = IF o.items[i].key = n THEN v ELSE o.items[i].val
    BY DEF Pair
  <2> HIDE DEF t, T
  <2>4. SubSeq(t, 1, Len(t)) = t
    BY <2>2, SubSeqFull
  <2>5. s = Object(t)
    BY <2>1, <2>2, <2>4
  <2>6. s.kind = "object" /\ s.items = t
    BY <2>5 DEF Object
  <2>7. t \in Seq(Range(t))
    BY <2>2, OfItsOwn
  <2> HIDE DEF s
  <2>8. Plain(s)
    <3>1. \A i, j \in DOMAIN t : t[i].key = t[j].key => i = j
      BY <1>1, <2>2, <2>3 DEF Plain
    <3> QED
      BY <2>6, <2>7, <3>1 DEF Plain, IsObject
  <2>9. DOMAIN s.items = DOMAIN o.items /\ \A i \in DOMAIN o.items :
           s.items[i].key = o.items[i].key
           /\ s.items[i].val = IF o.items[i].key = n THEN v ELSE o.items[i].val
    BY <2>2, <2>3, <2>6
  <2>10. n \in ToSet(Keys(o))
    BY <1>3, RecordHas
  <2>11. ToSet(Keys(s)) = ToSet(Keys(o)) \cup {n}
    <3>1. \A m \in ToSet(Keys(s)) : m \in ToSet(Keys(o))
      <4> TAKE m \in ToSet(Keys(s))
      <4>1. PICK i \in DOMAIN s.items : s.items[i].key = m
        BY <2>8, KeySet
      <4> QED
        BY <1>1, <2>9, <4>1, KeySet
    <3>2. \A m \in ToSet(Keys(o)) : m \in ToSet(Keys(s))
      <4> TAKE m \in ToSet(Keys(o))
      <4>1. PICK i \in DOMAIN o.items : o.items[i].key = m
        BY <1>1, KeySet
      <4> QED
        BY <2>8, <2>9, <4>1, KeySet
    <3> QED
      BY <2>10, <3>1, <3>2
  <2>12. Get(s, n) = v
    <3>1. PICK i \in DOMAIN o.items : o.items[i].key = n
      BY <1>1, <2>10, KeySet
    <3>2. i \in DOMAIN s.items /\ s.items[i].key = n /\ s.items[i].val = v
      BY <2>9, <3>1
    <3> QED
      BY <2>8, <3>2, GetThere
  <2>13. ASSUME NEW m, m # n PROVE Get(s, m) = Get(o, m)
    <3>1. CASE m \in ToSet(Keys(o))
      <4>1. PICK i \in DOMAIN o.items : o.items[i].key = m
        BY <1>1, <3>1, KeySet
      <4>2. i \in DOMAIN s.items /\ s.items[i].key = m /\ s.items[i].val = o.items[i].val
        BY <2>9, <2>13, <4>1
      <4>3. Get(s, m) = s.items[i].val
        BY <2>8, <4>2, GetThere
      <4>4. Get(o, m) = o.items[i].val
        BY <1>1, <4>1, GetThere
      <4> QED
        BY <4>2, <4>3, <4>4
    <3>2. CASE m \notin ToSet(Keys(o))
      <4>1. m \notin ToSet(Keys(s))
        BY <2>11, <2>13, <3>2
      <4> QED
        BY <1>1, <2>8, <3>2, <4>1, GetWhenKey
    <3> QED
      BY <3>1, <3>2
  <2> QED
    BY <2>8, <2>11, <2>12, <2>13 DEF s
<1>4. CASE ~Has(o, n)
  <2> DEFINE T == Range(o.items) \cup {Pair(n, v)}
             t == Append(o.items, Pair(n, v))
  <2>1. o.items \in Seq(T) /\ Pair(n, v) \in T
    <3>1. \A i \in 1 .. Len(o.items) : o.items[i] \in T
      BY <1>2 DEF Range
    <3>2. o.items = [i \in 1 .. Len(o.items) |-> o.items[i]]
      BY <1>1, <1>2 DEF Plain
    <3>3. o.items \in [1 .. Len(o.items) -> T]
      <4> HIDE DEF T
      <4> QED
        BY <3>1, <3>2
    <3> QED
      BY <1>2, <3>3
  <2>2. /\ t \in Seq(T)
        /\ Len(t) = Len(o.items) + 1
        /\ t[Len(o.items) + 1] = Pair(n, v)
        /\ \A i \in 1 .. Len(o.items) : t[i] = o.items[i]
    <3> HIDE DEF T
    <3> QED
      BY <2>1, LongerBy
  <2>3. s = Object(t)
    BY <1>4 DEF Set
  <2> HIDE DEF t, T
  <2>4. s.kind = "object" /\ s.items = t
    BY <2>3 DEF Object
  <2>5. t \in Seq(Range(t)) /\ DOMAIN t = 1 .. Len(o.items) + 1
    BY <2>2, OfItsOwn
  <2>6. n \notin ToSet(Keys(o))
    BY <1>4, RecordHas
  <2>7. \A i \in 1 .. Len(o.items) : o.items[i].key # n
    BY <1>1, <1>2, <2>6, KeySet
  <2>8. Pair(n, v).key = n /\ Pair(n, v).val = v
    BY DEF Pair
  <2> HIDE DEF s
  <2>9. Plain(s)
    <3>1. ASSUME NEW i \in DOMAIN t, NEW j \in DOMAIN t, t[i].key = t[j].key PROVE i = j
      <4>1. \A k \in DOMAIN t : k = Len(o.items) + 1 \/ k \in 1 .. Len(o.items)
        BY <1>2, <2>5
      <4>2. CASE i \in 1 .. Len(o.items) /\ j \in 1 .. Len(o.items)
        BY <1>1, <1>2, <2>2, <3>1, <4>2 DEF Plain
      <4>3. CASE i = Len(o.items) + 1 /\ j \in 1 .. Len(o.items)
        BY <2>2, <2>7, <2>8, <3>1, <4>3
      <4>4. CASE j = Len(o.items) + 1 /\ i \in 1 .. Len(o.items)
        BY <2>2, <2>7, <2>8, <3>1, <4>4
      <4> QED
        BY <4>1, <4>2, <4>3, <4>4
    <3> QED
      BY <2>4, <2>5, <3>1 DEF Plain, IsObject
  <2>10. DOMAIN s.items = 1 .. Len(o.items) + 1 /\ Len(o.items) + 1 \in 1 .. Len(o.items) + 1
    BY <1>2, <2>4, <2>5
  <2>11. \A i \in DOMAIN o.items : i \in DOMAIN s.items /\ s.items[i] = o.items[i]
    BY <1>2, <2>2, <2>4, <2>10
  <2>12. s.items[Len(o.items) + 1].key = n /\ s.items[Len(o.items) + 1].val = v
    BY <2>2, <2>4, <2>8
  <2>13. ToSet(Keys(s)) = ToSet(Keys(o)) \cup {n}
    <3>1. ASSUME NEW m \in ToSet(Keys(s)) PROVE m \in ToSet(Keys(o)) \cup {n}
      <4>1. PICK i \in DOMAIN s.items : s.items[i].key = m
        BY <2>9, KeySet
      <4>2. i = Len(o.items) + 1 \/ i \in DOMAIN o.items
        BY <1>2, <2>10
      <4> QED
        BY <1>1, <2>11, <2>12, <4>1, <4>2, KeySet
    <3>2. ASSUME NEW m \in ToSet(Keys(o)) PROVE m \in ToSet(Keys(s))
      <4>1. PICK i \in DOMAIN o.items : o.items[i].key = m
        BY <1>1, KeySet
      <4> QED
        BY <2>9, <2>11, <4>1, KeySet
    <3>3. n \in ToSet(Keys(s))
      BY <2>9, <2>10, <2>12, KeySet
    <3> QED
      BY <3>1, <3>2, <3>3
  <2>14. Get(s, n) = v
    BY <2>9, <2>10, <2>12, GetThere
  <2>15. ASSUME NEW m, m # n PROVE Get(s, m) = Get(o, m)
    <3>1. CASE m \in ToSet(Keys(o))
      <4>1. PICK i \in DOMAIN o.items : o.items[i].key = m
        BY <1>1, <3>1, KeySet
      <4>2. i \in DOMAIN s.items /\ s.items[i] = o.items[i]
        BY <2>11, <4>1
      <4>3. Get(s, s.items[i].key) = s.items[i].val
        BY <2>9, <4>2, GetThere
      <4>4. Get(o, m) = o.items[i].val
        BY <1>1, <4>1, GetThere
      <4> QED
        BY <4>1, <4>2, <4>3, <4>4
    <3>2. CASE m \notin ToSet(Keys(o))
      <4>1. m \notin ToSet(Keys(s))
        BY <2>13, <2>15, <3>2
      <4> QED
        BY <1>1, <2>9, <3>2, <4>1, GetWhenKey
    <3> QED
      BY <3>1, <3>2
  <2> QED
    BY <2>9, <2>13, <2>14, <2>15 DEF s
<1> QED
  BY <1>3, <1>4

\* The elements of two sequences, one after the other.
LEMMA BothElements ==
    ASSUME NEW T, NEW a \in Seq(T), NEW b \in Seq(T)
    PROVE  \A x : x \in ToSet(a \o b) <=> x \in ToSet(a) \/ x \in ToSet(b)
<1>1. Range(a \o b) = Range(a) \cup Range(b)
  BY RangeConcatenation
<1>2. \A y : ToSet(y) = Range(y)
  BY DEF ToSet, Range
<1> QED
  BY <1>1, <1>2, Zenon

\* What stands in a row of sequences stands in one of them.
LEMMA FlatElements ==
    ASSUME NEW T, NEW s \in Seq(Seq(T))
    PROVE  /\ FlattenSeq(s) \in Seq(T)
           /\ \A x : x \in ToSet(FlattenSeq(s)) <=> \E i \in 1 .. Len(s) : x \in ToSet(s[i])
<1>1. PICK f : FlatUpTo(s, Len(s), f) /\ FlattenSeq(s) = f[Len(s)]
  BY FlatIs
<1>2. \A k \in 0 .. Len(s) : f[k] \in Seq(T)
  BY <1>1, FlatTyped
<1>3. Len(s) \in Nat
  OBVIOUS
<1> DEFINE ok(n) == \A x : x \in ToSet(f[n]) <=> \E i \in 1 .. n : x \in ToSet(s[i])
           N == {n \in Nat : n <= Len(s) => ok(n)}
<1>4. 0 \in N
  BY <1>1 DEF FlatUpTo, ToSet
<1>5. ASSUME NEW n \in N PROVE n + 1 \in N
  <2>1. n \in Nat /\ n + 1 \in Nat
    OBVIOUS
  <2> SUFFICES ASSUME n + 1 <= Len(s) PROVE ok(n + 1)
    BY <2>1
  <2>2. n <= Len(s) /\ n \in 0 .. Len(s) /\ n + 1 \in 1 .. Len(s) /\ (n + 1) - 1 = n
    <3> HIDE DEF N
    <3> QED
      BY <1>3, <2>1
  <2>3. ok(n)
    <3> HIDE DEF ok
    <3> QED
      BY <2>2
  <2>4. f[n] \in Seq(T) /\ s[n + 1] \in Seq(T) /\ f[n + 1] = f[n] \o s[n + 1]
    <3>1. f[n + 1] = f[n] \o s[n + 1]
      BY <1>1, <2>2 DEF FlatUpTo
    <3>2. f[n] \in Seq(T)
      BY <1>2, <2>2
    <3>3. s[n + 1] \in Seq(T)
      BY <2>2
    <3> QED
      BY <3>1, <3>2, <3>3
  <2>5. \A x : x \in ToSet(f[n] \o s[n + 1]) <=> x \in ToSet(f[n]) \/ x \in ToSet(s[n + 1])
    <3>1. f[n] \in Seq(T) /\ s[n + 1] \in Seq(T)
      BY <2>4
    <3> QED
      BY <3>1, BothElements, Zenon
  <2>6. ASSUME NEW x PROVE (\E i \in 1 .. n + 1 : x \in ToSet(s[i])) <=>
                 (x \in ToSet(s[n + 1]) \/ \E i \in 1 .. n : x \in ToSet(s[i]))
    <3>1. \A i \in 1 .. n + 1 : i = n + 1 \/ i \in 1 .. n
      BY <2>1
    <3>2. \A i \in 1 .. n : i \in 1 .. n + 1
      BY <2>1
    <3>3. n + 1 \in 1 .. n + 1
      BY <2>1
    <3> QED
      BY <3>1, <3>2, <3>3, Zenon
  <2> QED
    BY <2>3, <2>4, <2>5, <2>6, Zenon
<1>6. N \in SUBSET Nat
  OBVIOUS
<1>7. ok(Len(s))
  <2>1. \A n \in Nat : n \in N
    <3> HIDE DEF N
    <3> QED
      BY <1>4, <1>5, <1>6, Induct
  <2>2. Len(s) \in N
    BY <1>3, <2>1
  <2>3. Len(s) <= Len(s) => ok(Len(s))
    <3> HIDE DEF ok
    <3> QED
      BY <2>2
  <2> HIDE DEF ok
  <2> QED
    BY <1>3, <2>3
<1>8. FlattenSeq(s) \in Seq(T)
  BY <1>1, <1>2, <1>3
<1> QED
  BY <1>1, <1>7, <1>8

-----------------------------------------------------------------------------
(* Records that can be grouped.                                            *)

\* arr is what an application may pass to EncodeGenericGrouped.
Takes(arr, key, group) ==
    /\ arr \in Seq(Range(arr))
    /\ \A i \in DOMAIN arr : IsRecord(arr[i])
    /\ Groupable(arr, key, group)

\* The fields of some records are their keys.
LEMMA FieldsAre ==
    ASSUME NEW arr, arr \in Seq(Range(arr)), \A i \in DOMAIN arr : IsRecord(arr[i])
    PROVE  /\ tabularFields(arr) \in Seq(ToSet(tabularFields(arr)))
           /\ \A j, k \in 1 .. Len(tabularFields(arr)) :
                 tabularFields(arr)[j] = tabularFields(arr)[k] => j = k
           /\ \A n : n \in ToSet(tabularFields(arr)) <=>
                        \E i \in 1 .. Len(arr) : n \in ToSet(Keys(arr[i]))
<1> DEFINE ks == [i \in DOMAIN arr |-> Keys(arr[i])]
           T == UNION {ToSet(Keys(arr[i])) : i \in DOMAIN arr}
           F == tabularFields(arr)
<1>1. DOMAIN arr = 1 .. Len(arr) /\ Len(arr) \in Nat
  OBVIOUS
<1>2. ASSUME NEW i \in DOMAIN arr PROVE Plain(arr[i]) /\ IsObject(arr[i]) /\ Keys(arr[i]) \in Seq(T)
  <2>1. IsRecord(arr[i]) /\ Plain(arr[i])
    BY RecordsArePlain
  <2>2. Keys(arr[i]) \in Seq(ToSet(Keys(arr[i])))
    BY <2>1, KeySet
  <2>3. \A n \in ToSet(Keys(arr[i])) : n \in T
    OBVIOUS
  <2> HIDE DEF T
  <2>4. Keys(arr[i]) \in Seq(T)
    BY <2>2, <2>3, SeqMonotonic
  <2> QED
    BY <2>1, <2>4 DEF IsRecord
<1>3. ks \in Seq(Seq(T)) /\ Len(ks) = Len(arr)
  <2> HIDE DEF T
  <2> QED
    BY <1>1, <1>2
<1>4. Mapped(Keys, arr) = SubSeq(ks, 1, Len(arr))
  BY DEF Mapped
<1>5. F = Distinct(FlattenSeq(Mapped(Keys, arr)))
  BY <1>2 DEF tabularFields
<1>6. \A i \in 1 .. Len(arr) : ks[i] = Keys(arr[i])
  BY <1>1
<1> HIDE DEF ks, T, F
<1>7. SubSeq(ks, 1, Len(ks)) = ks
  BY <1>3, SubSeqFull
<1>8. F = Distinct(FlattenSeq(ks))
  BY <1>3, <1>4, <1>5, <1>7
<1>9. FlattenSeq(ks) \in Seq(T) /\ \A x : x \in ToSet(FlattenSeq(ks)) <=>
                                      \E i \in 1 .. Len(ks) : x \in ToSet(ks[i])
  BY <1>3, FlatElements
<1>10. /\ F \in Seq(T)
       /\ \A j, k \in 1 .. Len(F) : F[j] = F[k] => j = k
       /\ ToSet(F) = ToSet(FlattenSeq(ks))
  BY <1>8, <1>9, DistinctElements
<1>11. F \in Seq(ToSet(F))
  <2>1. F \in Seq(Range(F))
    BY <1>10, OfItsOwn
  <2>2. Range(F) = ToSet(F)
    BY DEF Range, ToSet
  <2> QED
    BY <2>1, <2>2
<1>12. \A n : n \in ToSet(F) <=> \E i \in 1 .. Len(arr) : n \in ToSet(Keys(arr[i]))
  BY <1>3, <1>6, <1>9, <1>10
<1> QED
  BY <1>10, <1>11, <1>12 DEF F

\* Records that can be grouped have flat values.
LEMMA FlatValues ==
    ASSUME NEW arr, NEW key, NEW group, Takes(arr, key, group), NEW i \in DOMAIN arr, NEW n
    PROVE  /\ Get(arr[i], n) = Absent \/ Get(arr[i], n).kind \in {"null", "scalar"}
           /\ Get(arr[i], n).kind # "attached"
<1>1. IsRecord(arr[i]) /\ Plain(arr[i]) /\ allPrimitives(Members(arr[i]))
  BY RecordsArePlain DEF Takes, Groupable
<1>2. CASE n \in ToSet(Keys(arr[i]))
  <2>1. PICK j \in DOMAIN arr[i].items : arr[i].items[j].key = n /\ arr[i].items[j].val = Get(arr[i], n)
    BY <1>1, <1>2, RecordHas
  <2> DEFINE items == arr[i].items
             t == [k \in DOMAIN items |-> items[k].val]
             T == {items[k].val : k \in DOMAIN items}
  <2>2. DOMAIN items = 1 .. Len(items) /\ Len(items) \in Nat
    BY <1>1 DEF Plain
  <2>3. Members(arr[i]) = SubSeq(t, 1, Len(items))
    BY DEF Members, Mapped
  <2>4. t \in Seq(T) /\ Len(t) = Len(items) /\ DOMAIN t = 1 .. Len(items) /\ t[j] = items[j].val
    BY <2>2
  <2> HIDE DEF t, T
  <2>5. SubSeq(t, 1, Len(t)) = t
    BY <2>4, SubSeqFull
  <2>6. ~IsNested(t[j])
    BY <1>1, <2>2, <2>3, <2>4, <2>5 DEF allPrimitives
  <2>7. Get(arr[i], n).kind \in {"null", "scalar", "object", "array"}
    BY <1>1, <1>2, RecordHas
  <2>8. Get(arr[i], n) = t[j]
    BY <2>1, <2>4
  <2> QED
    BY <2>6, <2>7, <2>8 DEF IsNested
<1>3. CASE n \notin ToSet(Keys(arr[i]))
  BY <1>1, <1>3, GetWhenKey DEF Absent
<1> QED
  BY <1>2, <1>3

\* Records are clustered by values, a missing one being a null.
LEMMA GroupValueIs ==
    ASSUME NEW arr, NEW key, NEW group, Takes(arr, key, group), NEW i \in DOMAIN arr
    PROVE  /\ GroupValue(arr[i], group) # Absent
           /\ GroupValue(arr[i], group).kind # "attached"
<1>1. Get(arr[i], group).kind # "attached"
  BY FlatValues
<1>2. Null.kind = "null" /\ Absent.kind = "absent"
  BY DEF Null, Absent
<1> QED
  BY <1>1, <1>2 DEF GroupValue, Has

\* Two sequences with the same items are one.
LEMMA EqualByItems ==
    ASSUME NEW S, NEW s \in Seq(S), NEW T, NEW t \in Seq(T), Len(s) = Len(t),
           \A k \in 1 .. Len(t) : s[k] = t[k]
    PROVE  s = t
<1>1. s = [k \in 1 .. Len(s) |-> s[k]] /\ t = [k \in 1 .. Len(t) |-> t[k]]
  OBVIOUS
<1> QED
  BY <1>1

\* What the encoder derives from the records.
Constants(arr, key, group) == FactoredFields(arr, tabularFields(arr), key, group)
Bare(arr, key, group) == PerRecord(tabularFields(arr), group, Constants(arr, key, group))
Header(arr, key, group) ==
    TableBody(Len(arr), FALSE,
              HeaderEntries(arr, tabularFields(arr), key, Constants(arr, key, group)), group)

\* The header's fields.
LEMMA HeaderIs ==
    ASSUME NEW arr, NEW key, NEW group
    PROVE  /\ Header(arr, key, group).form = "table"
           /\ Header(arr, key, group).count = Len(arr)
           /\ Header(arr, key, group).group = group
           /\ Header(arr, key, group).entries =
                 HeaderEntries(arr, tabularFields(arr), key, Constants(arr, key, group))
BY DEF Header, TableBody

\* A constant field has one value in all the records, and is neither the key
\* nor the group.
LEMMA ConstantsAre ==
    ASSUME NEW arr, NEW key, NEW group, Takes(arr, key, group), NEW f \in Constants(arr, key, group)
    PROVE  /\ f # key /\ f # group
           /\ Get(arr[1], f) # Absent
           /\ \A i \in DOMAIN arr : Get(arr[i], f) = Get(arr[1], f)
<1>1. f \in FactoredFields(arr, tabularFields(arr), key, group)
  BY DEF Constants
<1>2. /\ f \notin {key, group}
      /\ Has(arr[1], f)
      /\ \A i \in DOMAIN arr : Get(arr[i], f) = Get(arr[1], f)
  BY <1>1 DEF FactoredFields
<1> QED
  BY <1>2 DEF Has

\* The header's entries, one for each field.
LEMMA EntriesAre ==
    ASSUME NEW arr, NEW key, NEW group, Takes(arr, key, group),
           NEW F, F = tabularFields(arr), NEW E, E = Header(arr, key, group).entries
    PROVE  /\ E \in Seq(Range(E))
           /\ Len(E) = Len(F)
           /\ DOMAIN E = 1 .. Len(F)
           /\ \A k \in 1 .. Len(F) :
                 /\ E[k].name = F[k]
                 /\ E[k].isKey <=> F[k] = key
                 /\ F[k] \in Constants(arr, key, group) => E[k].const = Get(arr[1], F[k])
                 /\ E[k].const = Absent <=> F[k] \notin Constants(arr, key, group)
<1> DEFINE C == Constants(arr, key, group)
           t == [k \in DOMAIN F |-> Entry(F[k], IF F[k] \in C THEN Get(arr[1], F[k]) ELSE Absent,
                                          F[k] = key)]
           T == {t[k] : k \in DOMAIN F}
<1>1. F \in Seq(ToSet(F))
  BY FieldsAre DEF Takes
<1>2. DOMAIN F = 1 .. Len(F) /\ Len(F) \in Nat
  BY <1>1
<1>3. t \in Seq(T) /\ Len(t) = Len(F) /\ DOMAIN t = 1 .. Len(F)
  BY <1>2
<1>4. E = SubSeq(t, 1, Len(F))
  <2>1. E = HeaderEntries(arr, F, key, C)
    BY HeaderIs
  <2> QED
    BY <2>1 DEF HeaderEntries, Mapped
<1>5. \A k \in 1 .. Len(F) : /\ t[k].name = F[k]
                             /\ t[k].isKey <=> F[k] = key
                             /\ t[k].const = IF F[k] \in C THEN Get(arr[1], F[k]) ELSE Absent
  BY <1>2 DEF Entry
<1> HIDE DEF t, T
<1>6. SubSeq(t, 1, Len(t)) = t
  BY <1>3, SubSeqFull
<1>7. E = t
  BY <1>3, <1>4, <1>6
<1>8. E \in Seq(Range(E))
  BY <1>3, <1>7, OfItsOwn
<1>9. \A k \in 1 .. Len(F) : F[k] \in C => Get(arr[1], F[k]) # Absent
  BY ConstantsAre
<1> QED
  BY <1>3, <1>5, <1>7, <1>8, <1>9

\* The names of entries, one by one.
LEMMA NamesAre ==
    ASSUME NEW T, NEW E \in Seq(T)
    PROVE  /\ Names(E) \in Seq({E[k].name : k \in DOMAIN E})
           /\ Len(Names(E)) = Len(E)
           /\ DOMAIN Names(E) = 1 .. Len(E)
           /\ \A k \in 1 .. Len(E) : Names(E)[k] = E[k].name
<1> DEFINE t == [k \in DOMAIN E |-> E[k].name]
           N == {E[k].name : k \in DOMAIN E}
<1>1. DOMAIN E = 1 .. Len(E) /\ Len(E) \in Nat
  OBVIOUS
<1>2. t \in Seq(N) /\ Len(t) = Len(E) /\ DOMAIN t = 1 .. Len(E)
  BY <1>1
<1>3. Names(E) = SubSeq(t, 1, Len(E))
  BY DEF Names, Mapped
<1>4. \A k \in 1 .. Len(E) : t[k] = E[k].name
  BY <1>1
<1> HIDE DEF t, N
<1>5. SubSeq(t, 1, Len(t)) = t
  BY <1>2, SubSeqFull
<1> QED
  BY <1>2, <1>3, <1>4, <1>5 DEF N

\* The decoder takes the same names from the header as the encoder from the records.
LEMMA NamesRead ==
    ASSUME NEW arr, NEW key, NEW group, Takes(arr, key, group)
    PROVE  /\ Names(Header(arr, key, group).entries) = tabularFields(arr)
           /\ PerRecordNames(Header(arr, key, group)) = Bare(arr, key, group)
<1> DEFINE E == Header(arr, key, group).entries
           F == tabularFields(arr)
           C == Constants(arr, key, group)
           bareE == {k \in DOMAIN E : E[k].const = Absent /\ E[k].name # Header(arr, key, group).group}
           bareF == {k \in DOMAIN F : F[k] # group /\ F[k] \notin C}
<1>1. F \in Seq(ToSet(F))
  BY FieldsAre DEF Takes
<1>2. DOMAIN F = 1 .. Len(F) /\ Len(F) \in Nat
  BY <1>1
<1>3. /\ E \in Seq(Range(E))
      /\ Len(E) = Len(F)
      /\ DOMAIN E = 1 .. Len(F)
      /\ \A k \in 1 .. Len(F) : E[k].name = F[k] /\ (E[k].const = Absent <=> F[k] \notin C)
  BY EntriesAre
<1>4. /\ Names(E) \in Seq({E[k].name : k \in DOMAIN E})
      /\ Len(Names(E)) = Len(E)
      /\ \A k \in 1 .. Len(E) : Names(E)[k] = E[k].name
  BY <1>3, NamesAre
<1>5. Header(arr, key, group).group = group
  BY HeaderIs
<1>6. PerRecordNames(Header(arr, key, group)) = Names(Picked(E, bareE))
  BY DEF PerRecordNames
<1>7. Bare(arr, key, group) = Picked(F, bareF)
  BY DEF Bare, PerRecord
<1>8. bareE = bareF
  BY <1>2, <1>3, <1>5
<1>9. bareF \in SUBSET (1 .. Len(F))
  BY <1>2
<1> HIDE DEF E, F, C, bareE, bareF
<1>10. Names(E) = F
  <2>1. Len(Names(E)) = Len(F) /\ \A k \in 1 .. Len(F) : Names(E)[k] = F[k]
    BY <1>3, <1>4
  <2> QED
    BY <1>1, <1>4, <2>1, EqualByItems
<1>11. /\ Picked(E, bareF) \in Seq(Range(E))
       /\ Picked(F, bareF) \in Seq(ToSet(F))
       /\ Len(Picked(E, bareF)) = Len(Picked(F, bareF))
       /\ \E p : PlacesOf(E, bareF, Picked(E, bareF), p) /\ PlacesOf(F, bareF, Picked(F, bareF), p)
  <2>1. bareF \in SUBSET (1 .. Len(E)) /\ Len(E) = Len(F)
    BY <1>3, <1>9
  <2> QED
    BY <1>1, <1>3, <2>1, PickedAlike
<1>12. PICK a, b : a = Picked(E, bareF) /\ b = Picked(F, bareF)
  OBVIOUS
<1>13. PICK p : PlacesOf(E, bareF, a, p) /\ PlacesOf(F, bareF, b, p)
  BY <1>11, <1>12
<1>14. a \in Seq(Range(E)) /\ b \in Seq(ToSet(F)) /\ Len(a) = Len(b)
  BY <1>11, <1>12
<1>15. \A k \in 1 .. Len(b) : a[k].name = b[k]
  <2> TAKE k \in 1 .. Len(b)
  <2>1. p[k] \in bareF /\ a[k] = E[p[k]] /\ b[k] = F[p[k]]
    BY <1>13, <1>14 DEF PlacesOf
  <2> QED
    BY <1>3, <1>9, <2>1
<1>16. /\ Names(a) \in Seq({a[k].name : k \in DOMAIN a})
       /\ Len(Names(a)) = Len(a)
       /\ \A k \in 1 .. Len(a) : Names(a)[k] = a[k].name
  BY <1>14, NamesAre
<1>17. Names(a) = b
  <2>1. Len(Names(a)) = Len(b) /\ \A k \in 1 .. Len(b) : Names(a)[k] = b[k]
    BY <1>14, <1>15, <1>16
  <2> QED
    BY <1>14, <1>16, <2>1, EqualByItems
<1> QED
  BY <1>6, <1>7, <1>8, <1>10, <1>12, <1>17 DEF E, F

\* The columns of the rows: every field once but the group and the constants.
LEMMA BareIs ==
    ASSUME NEW arr, NEW key, NEW group, Takes(arr, key, group), NEW P, P = Bare(arr, key, group)
    PROVE  /\ P \in Seq(ToSet(tabularFields(arr)))
           /\ \A j, k \in 1 .. Len(P) : P[j] = P[k] => j = k
           /\ \A f \in ToSet(tabularFields(arr)) :
                 f # group /\ f \notin Constants(arr, key, group) => \E k \in 1 .. Len(P) : P[k] = f
<1> DEFINE F == tabularFields(arr)
           C == Constants(arr, key, group)
           bareF == {k \in DOMAIN F : F[k] # group /\ F[k] \notin C}
<1>1. F \in Seq(ToSet(F)) /\ \A j, k \in 1 .. Len(F) : F[j] = F[k] => j = k
  BY FieldsAre DEF Takes
<1>2. DOMAIN F = 1 .. Len(F) /\ Len(F) \in Nat
  BY <1>1
<1>3. P = Picked(F, bareF)
  BY DEF Bare, PerRecord
<1>4. bareF \in SUBSET (1 .. Len(F))
  BY <1>2
<1>5. ASSUME NEW f \in ToSet(F), f # group, f \notin C PROVE \E i \in bareF : F[i] = f
  BY <1>5 DEF ToSet
<1>6. \A i, j \in bareF : F[i] = F[j] => i = j
  BY <1>1, <1>2
<1> HIDE DEF F, bareF
<1>7. Picked(F, bareF) \in Seq(ToSet(F))
  BY <1>1, <1>4, PickedPlaces
<1>8. \A j, k \in 1 .. Len(Picked(F, bareF)) : Picked(F, bareF)[j] = Picked(F, bareF)[k] => j = k
  BY <1>1, <1>4, <1>6, PickedOnce
<1>9. \A i \in bareF : \E k \in 1 .. Len(Picked(F, bareF)) : Picked(F, bareF)[k] = F[i]
  BY <1>1, <1>4, PickedElements
<1>10. ASSUME NEW f \in ToSet(F), f # group, f \notin C PROVE \E k \in 1 .. Len(P) : P[k] = f
  BY <1>3, <1>5, <1>9, <1>10
<1> QED
  BY <1>3, <1>7, <1>8, <1>10 DEF F

\* The cells of a record's row.
RowCells(o, per) == Mapped(LAMBDA f : Get(o, f), per)

\* The cells of a row, one by one.
LEMMA CellsAre ==
    ASSUME NEW N, NEW per \in Seq(N), NEW o
    PROVE  /\ RowCells(o, per) \in Seq(Range(RowCells(o, per)))
           /\ Len(RowCells(o, per)) = Len(per)
           /\ \A k \in 1 .. Len(per) : RowCells(o, per)[k] = Get(o, per[k])
<1> DEFINE t == [k \in DOMAIN per |-> Get(o, per[k])]
           V == {Get(o, per[k]) : k \in 1 .. Len(per)}
<1>1. DOMAIN per = 1 .. Len(per) /\ Len(per) \in Nat
  OBVIOUS
<1>2. t \in Seq(V) /\ Len(t) = Len(per) /\ \A k \in 1 .. Len(per) : t[k] = Get(o, per[k])
  BY <1>1
<1>3. RowCells(o, per) = SubSeq(t, 1, Len(per))
  BY DEF RowCells, Mapped
<1> HIDE DEF t, V
<1>4. SubSeq(t, 1, Len(t)) = t
  BY <1>2, SubSeqFull
<1>5. t \in Seq(Range(t))
  BY <1>2, OfItsOwn
<1> QED
  BY <1>2, <1>3, <1>4, <1>5

\* What the decoder makes of the i-th record's row.
RecordRead(arr, key, group, i) ==
    GroupRecord(Header(arr, key, group), GroupValue(arr[i], group), Bare(arr, key, group),
                RowCells(arr[i], Bare(arr, key, group)))

\* The values of its entries.
LEMMA ValuesRead ==
    ASSUME NEW arr, NEW key, NEW group, Takes(arr, key, group), NEW i \in DOMAIN arr,
           NEW k \in 1 .. Len(tabularFields(arr))
    PROVE  EntryValue(Header(arr, key, group), GroupValue(arr[i], group), Bare(arr, key, group),
                      RowCells(arr[i], Bare(arr, key, group)), Header(arr, key, group).entries[k])
             = IF tabularFields(arr)[k] = group THEN GroupValue(arr[i], group)
               ELSE Get(arr[i], tabularFields(arr)[k])
<1> DEFINE F == tabularFields(arr)
           C == Constants(arr, key, group)
           P == Bare(arr, key, group)
           cells == RowCells(arr[i], P)
           e == Header(arr, key, group).entries[k]
           v == GroupValue(arr[i], group)
<1>1. /\ e.name = F[k]
      /\ F[k] \in C => e.const = Get(arr[1], F[k])
      /\ e.const = Absent <=> F[k] \notin C
  BY EntriesAre
<1>2. Header(arr, key, group).group = group
  BY HeaderIs
<1>3. F[k] \in ToSet(F)
  <2>1. F \in Seq(ToSet(F))
    BY FieldsAre DEF Takes
  <2> QED
    BY <2>1
<1>4. /\ P \in Seq(ToSet(F))
      /\ \A a, b \in 1 .. Len(P) : P[a] = P[b] => a = b
      /\ F[k] # group /\ F[k] \notin C => \E a \in 1 .. Len(P) : P[a] = F[k]
  BY <1>3, BareIs
<1>5. DOMAIN P = 1 .. Len(P)
  BY <1>4
<1>6. \A a \in 1 .. Len(P) : cells[a] = Get(arr[i], P[a])
  BY <1>4, CellsAre
<1>7. F[k] \in C => Get(arr[i], F[k]) = Get(arr[1], F[k])
  BY ConstantsAre
<1>8. EntryValue(Header(arr, key, group), v, P, cells, e)
        = IF F[k] = group THEN v
          ELSE IF F[k] \in C THEN Get(arr[i], F[k])
          ELSE cells[CHOOSE a \in DOMAIN P : P[a] = F[k]]
  <2> HIDE DEF e, F, C, P, cells, v
  <2> QED
    BY <1>1, <1>2, <1>7 DEF EntryValue
<1>9. ASSUME F[k] # group, F[k] \notin C
      PROVE  cells[CHOOSE a \in DOMAIN P : P[a] = F[k]] = Get(arr[i], F[k])
  <2>1. PICK c : c = CHOOSE a \in DOMAIN P : P[a] = F[k]
    OBVIOUS
  <2>2. c \in 1 .. Len(P) /\ P[c] = F[k]
    BY <1>4, <1>5, <1>9, <2>1
  <2> QED
    BY <1>6, <2>1, <2>2
<1> QED
  BY <1>8, <1>9

\* A row reads back as its record.
LEMMA RecordReadsBack ==
    ASSUME NEW arr, NEW key, NEW group, Takes(arr, key, group), NEW i \in DOMAIN arr
    PROVE  /\ SameRecord(RecordRead(arr, key, group, i), InItsGroup(arr[i], group))
           /\ Get(RecordRead(arr, key, group, i), key) = Get(arr[i], key)
<1> DEFINE F == tabularFields(arr)
           P == Bare(arr, key, group)
           o == arr[i]
           v == GroupValue(o, group)
           cells == RowCells(o, P)
           body == Header(arr, key, group)
           E == body.entries
           t == [k \in DOMAIN E |-> EntryValue(body, v, P, cells, E[k])]
           V == {t[k] : k \in DOMAIN E}
           r == RecordRead(arr, key, group, i)
           w == InItsGroup(o, group)
<1>1. /\ F \in Seq(ToSet(F))
      /\ \A a, b \in 1 .. Len(F) : F[a] = F[b] => a = b
      /\ \A n : n \in ToSet(F) <=> \E a \in 1 .. Len(arr) : n \in ToSet(Keys(arr[a]))
  BY FieldsAre DEF Takes
<1>2. DOMAIN F = 1 .. Len(F) /\ Len(F) \in Nat
  BY <1>1
<1>3. Len(E) = Len(F) /\ DOMAIN E = 1 .. Len(F)
  BY EntriesAre
<1>4. Names(E) = F
  BY NamesRead
<1>5. r = Inlined(F, SubSeq(t, 1, Len(E)))
  BY <1>4 DEF RecordRead, GroupRecord, Mapped
<1>6. \A k \in 1 .. Len(F) : t[k] = IF F[k] = group THEN v ELSE Get(o, F[k])
  BY <1>3, ValuesRead
<1>7. t \in Seq(V) /\ Len(t) = Len(F) /\ t \in [1 .. Len(F) -> V]
  BY <1>2, <1>3
<1> HIDE DEF t, V
<1>8. SubSeq(t, 1, Len(t)) = t
  BY <1>7, SubSeqFull
<1>9. r = Inlined(F, t)
  BY <1>3, <1>5, <1>7, <1>8
<1>10. /\ Plain(r)
       /\ \A k \in 1 .. Len(F) : Get(r, F[k]) = t[k]
       /\ \A n : n \notin ToSet(F) => Get(r, n) = Absent
       /\ \A n : n \in ToSet(Keys(r)) <=> \E k \in 1 .. Len(F) : F[k] = n /\ t[k] # Absent
  <2> HIDE DEF F, r
  <2>1. \A j, k \in 1 .. Len(F) : F[j] = F[k] => j = k
    BY <1>1
  <2>2. F \in Seq(ToSet(F)) /\ t \in [1 .. Len(F) -> V]
    BY <1>1, <1>7
  <2>3. HasFields(Inlined(F, t), F, t)
    BY <2>1, <2>2, InlinedIs
  <2> QED
    BY <1>9, <2>3, Zenon DEF HasFields
<1>11. IsRecord(o) /\ Plain(o) /\ v # Absent
  BY RecordsArePlain, GroupValueIs DEF Takes
<1>12. /\ Plain(w)
       /\ ToSet(Keys(w)) = ToSet(Keys(o)) \cup {group}
       /\ Get(w, group) = v
       /\ \A m : m # group => Get(w, m) = Get(o, m)
  BY <1>11, SetIs DEF InItsGroup
<1>13. key # group /\ key \in ToSet(F) /\ group \in ToSet(F)
  BY DEF Takes, Groupable
<1>14. \A n \in ToSet(F) : \E k \in 1 .. Len(F) : F[k] = n
  BY <1>2 DEF ToSet
<1>15. \A n \in ToSet(Keys(o)) : n \in ToSet(F)
  <2>1. DOMAIN arr = 1 .. Len(arr)
    BY DEF Takes
  <2> QED
    BY <1>1, <2>1
<1>16. \A n : Has(o, n) <=> n \in ToSet(Keys(o))
  BY <1>11, RecordHas
<1> HIDE DEF r, w, v, F, o
<1>17. \A n \in ToSet(F) : Get(r, n) = IF n = group THEN v ELSE Get(o, n)
  BY <1>6, <1>10, <1>14
<1>18. \A n : n \in ToSet(Keys(r)) <=> n \in ToSet(Keys(w))
  <2> TAKE n
  <2>1. CASE n = group
    <3>1. PICK k \in 1 .. Len(F) : F[k] = group
      BY <1>13, <1>14
    <3> QED
      BY <1>6, <1>10, <1>11, <1>12, <2>1, <3>1
  <2>2. CASE n # group
    <3>1. n \in ToSet(Keys(w)) <=> n \in ToSet(Keys(o))
      BY <1>12, <2>2
    <3>2. n \in ToSet(Keys(r)) <=> \E k \in 1 .. Len(F) : F[k] = n /\ Get(o, n) # Absent
      BY <1>6, <1>10, <2>2
    <3>3. n \in ToSet(Keys(o)) <=> Get(o, n) # Absent
      BY <1>16 DEF Has
    <3> QED
      BY <1>14, <1>15, <3>1, <3>2, <3>3
  <2> QED
    BY <2>1, <2>2
<1>19. \A n \in ToSet(Keys(w)) : Get(r, n) = Get(w, n)
  <2> TAKE n \in ToSet(Keys(w))
  <2>1. n \in ToSet(F)
    BY <1>12, <1>13, <1>15
  <2> QED
    BY <1>12, <1>17, <2>1
<1>20. SameRecord(r, w)
  <2>1. ToSet(Keys(r)) = ToSet(Keys(w))
    BY <1>18
  <2> QED
    BY <1>10, <1>19, <2>1 DEF SameRecord, Plain
<1>21. Get(r, key) = Get(o, key)
  BY <1>13, <1>17
<1> QED
  BY <1>20, <1>21 DEF r, w, o

\* c is a and then b.
Joins(c, a, b) ==
    /\ Len(c) = Len(a) + Len(b) /\ Len(c) >= Len(a)
    /\ Len(a) \in Nat /\ Len(b) \in Nat /\ Len(c) \in Nat
    /\ \A k \in 1 .. Len(a) : c[k] = a[k]
    /\ \A k \in 1 .. Len(b) : c[Len(a) + k] = b[k]

\* Two sequences, one after the other.
LEMMA JoinIs ==
    ASSUME NEW T, NEW a \in Seq(T), NEW b \in Seq(T)
    PROVE  Joins(a \o b, a, b)
<1>1. a \o b \in Seq(T) /\ Len(a \o b) = Len(a) + Len(b)
  OBVIOUS
<1>2. \A c \in 1 .. Len(a) : (a \o b)[c] = a[c]
  OBVIOUS
<1>3. ASSUME NEW c \in 1 .. Len(b) PROVE (a \o b)[Len(a) + c] = b[c]
  OBVIOUS
<1>4. Len(a) \in Nat /\ Len(b) \in Nat /\ Len(a \o b) \in Nat
  BY <1>1
<1>5. Len(a \o b) >= Len(a)
  OBVIOUS
<1> QED
  BY <1>1, <1>2, <1>3, <1>4, <1>5 DEF Joins

\* Where the elements of the k-th sequence stand in the row t.
StandsAt(t, f, s, k) ==
    /\ Len(f[k]) = Len(f[k - 1]) + Len(s[k])
    /\ Len(t) >= Len(f[k])
    /\ \A j \in 1 .. Len(s[k]) : t[Len(f[k - 1]) + j] = s[k][j]

\* Sequence k stands in the whole after the first k - 1.
LEMMA FlatAt ==
    ASSUME NEW T, NEW s \in Seq(Seq(T)), NEW f, FlatUpTo(s, Len(s), f), NEW k \in 1 .. Len(s)
    PROVE  StandsAt(f[Len(s)], f, s, k)
<1>1. \A n \in 0 .. Len(s) : f[n] \in Seq(T)
  BY FlatTyped
<1>2. Len(s) \in Nat /\ k \in Nat /\ k - 1 \in 0 .. Len(s) /\ k \in 0 .. Len(s)
  OBVIOUS
<1>3. s[k] \in Seq(T) /\ f[k - 1] \in Seq(T) /\ f[k] = f[k - 1] \o s[k]
  <2>1. s[k] \in Seq(T)
    OBVIOUS
  <2>2. f[k] = f[k - 1] \o s[k]
    BY DEF FlatUpTo
  <2> QED
    BY <1>1, <1>2, <2>1, <2>2
<1>4. Len(f[k]) = Len(f[k - 1]) + Len(s[k])
  BY <1>3
<1> DEFINE here(n) == \A j \in 1 .. Len(s[k]) : f[n][Len(f[k - 1]) + j] = s[k][j]
           long(n) == Len(f[n]) >= Len(f[k])
           N == {n \in Nat : \A m \in 0 .. Len(s) : m = k + n => here(m) /\ long(m)}
<1>5. 0 \in N
  <2>1. here(k)
    <3>1. Joins(f[k], f[k - 1], s[k])
      BY <1>3, JoinIs, Zenon
    <3> QED
      BY <3>1 DEF Joins
  <2>2. long(k)
    BY <1>1, <1>2
  <2>3. \A m \in 0 .. Len(s) : m = k + 0 => m = k
    BY <1>2
  <2> HIDE DEF here, long
  <2> QED
    BY <2>1, <2>2, <2>3
<1>6. ASSUME NEW n \in N PROVE n + 1 \in N
  <2>1. n \in Nat
    OBVIOUS
  <2> SUFFICES ASSUME NEW l \in 0 .. Len(s), l = k + (n + 1) PROVE here(l) /\ long(l)
    <3> HIDE DEF here, long
    <3> QED
      BY <2>1
  <2>2. PICK m \in 0 .. Len(s) : m = k + n
    <3>1. k + n \in 0 .. Len(s)
      BY <1>2, <2>1
    <3> QED
      BY <3>1
  <2>3. m + 1 = l /\ m + 1 \in 1 .. Len(s) /\ (m + 1) - 1 = m /\ m + 1 \in 0 .. Len(s)
    BY <1>2, <2>1, <2>2
  <2>4. here(m) /\ long(m)
    <3> HIDE DEF here, long
    <3> QED
      BY <2>2
  <2>5. f[m] \in Seq(T) /\ s[m + 1] \in Seq(T) /\ f[m + 1] = f[m] \o s[m + 1]
    <3>1. f[m + 1] = f[m] \o s[m + 1]
      BY <2>3 DEF FlatUpTo
    <3>2. s[m + 1] \in Seq(T)
      BY <2>3
    <3>3. f[m] \in Seq(T)
      BY <1>1, <2>2
    <3> QED
      BY <3>1, <3>2, <3>3
  <2>6. /\ Len(f[m + 1]) >= Len(f[m])
        /\ \A c \in 1 .. Len(f[m]) : f[m + 1][c] = f[m][c]
    <3>1. Joins(f[m + 1], f[m], s[m + 1])
      BY <2>5, JoinIs, Zenon
    <3> HIDE DEF N, here, long
    <3>2. \A c \in 1 .. Len(f[m]) : f[m + 1][c] = f[m][c]
      BY <3>1 DEF Joins
    <3>3. Len(f[m + 1]) >= Len(f[m])
      BY <3>1 DEF Joins
    <3> QED
      BY <3>2, <3>3
  <2>7. Len(f[m]) \in Nat /\ Len(f[m + 1]) \in Nat /\ Len(f[k]) \in Nat
    <3> HIDE DEF N, here, long
    <3>1. f[m] \in Seq(T)
      BY <1>1, <2>2, Zenon
    <3>2. f[m + 1] \in Seq(T)
      BY <1>1, <2>3, Zenon
    <3>3. f[k] \in Seq(T)
      BY <1>1, <1>2, Zenon
    <3> QED
      BY <3>1, <3>2, <3>3
  <2>8. long(m + 1)
    BY <2>4, <2>6, <2>7
  <2>9. here(m + 1)
    <3> TAKE j \in 1 .. Len(s[k])
    <3>1. Len(f[k - 1]) \in Nat /\ Len(s[k]) \in Nat
      BY <1>3
    <3>2. Len(f[k - 1]) + j \in 1 .. Len(f[m])
      <4>1. PICK a, b, c : a = Len(f[k - 1]) /\ b = Len(s[k]) /\ c = Len(f[m])
        OBVIOUS
      <4>2. a \in Nat /\ b \in Nat /\ c \in Nat /\ j \in 1 .. b
        BY <2>7, <3>1, <4>1
      <4>3. c >= a + b
        BY <1>4, <2>4, <4>1
      <4>4. a + j \in 1 .. c
        BY <4>2, <4>3
      <4> QED
        BY <4>1, <4>4
    <3> QED
      BY <2>4, <2>6, <3>2
  <2> HIDE DEF here, long
  <2> QED
    BY <2>3, <2>8, <2>9
<1>7. N \in SUBSET Nat
  OBVIOUS
<1>8. \A n \in Nat : n \in N
  <2> HIDE DEF N
  <2> QED
    BY <1>5, <1>6, <1>7, Induct
<1>9. here(Len(s)) /\ long(Len(s))
  <2>1. PICK n \in Nat : Len(s) = k + n
    <3>1. Len(s) - k \in Nat /\ Len(s) = k + (Len(s) - k)
      BY <1>2
    <3> QED
      BY <3>1
  <2>2. n \in N /\ Len(s) \in 0 .. Len(s)
    BY <1>2, <1>8
  <2> HIDE DEF here, long
  <2> QED
    BY <2>1, <2>2
<1> QED
  BY <1>4, <1>9 DEF StandsAt

-----------------------------------------------------------------------------
(* The groups.                                                             *)

\* The places of a group's records.
OfGroup(arr, group, v) == {i \in DOMAIN arr : GroupValue(arr[i], group) = v}

\* Every value that records are clustered by has one group.
LEMMA ValuesAre ==
    ASSUME NEW arr, arr \in Seq(Range(arr)), NEW group
    PROVE  /\ GroupValues(arr, group) \in Seq(ToSet(GroupValues(arr, group)))
           /\ \A j, k \in 1 .. Len(GroupValues(arr, group)) :
                 GroupValues(arr, group)[j] = GroupValues(arr, group)[k] => j = k
           /\ \A i \in DOMAIN arr : \E k \in 1 .. Len(GroupValues(arr, group)) :
                 GroupValues(arr, group)[k] = GroupValue(arr[i], group)
           /\ \A k \in 1 .. Len(GroupValues(arr, group)) : \E i \in DOMAIN arr :
                 GroupValues(arr, group)[k] = GroupValue(arr[i], group)
<1> DEFINE t == [i \in DOMAIN arr |-> GroupValue(arr[i], group)]
           T == {GroupValue(arr[i], group) : i \in DOMAIN arr}
           V == GroupValues(arr, group)
<1>1. DOMAIN arr = 1 .. Len(arr) /\ Len(arr) \in Nat
  OBVIOUS
<1>2. t \in Seq(T) /\ Len(t) = Len(arr) /\ DOMAIN t = DOMAIN arr
  BY <1>1
<1>3. V = Distinct(SubSeq(t, 1, Len(arr)))
  BY DEF GroupValues, Mapped
<1>4. \A i \in DOMAIN arr : t[i] = GroupValue(arr[i], group)
  OBVIOUS
<1> HIDE DEF t, T, V
<1>5. SubSeq(t, 1, Len(t)) = t
  BY <1>2, SubSeqFull
<1>6. V = Distinct(t)
  BY <1>2, <1>3, <1>5
<1>7. /\ V \in Seq(T)
      /\ \A j, k \in 1 .. Len(V) : V[j] = V[k] => j = k
      /\ ToSet(V) = ToSet(t)
  BY <1>2, <1>6, DistinctElements
<1>8. V \in Seq(Range(V)) /\ DOMAIN V = 1 .. Len(V)
  BY <1>7, OfItsOwn
<1>9. Range(V) = ToSet(V)
  BY DEF Range, ToSet
<1>10. ASSUME NEW i \in DOMAIN arr
       PROVE  \E k \in 1 .. Len(V) : V[k] = GroupValue(arr[i], group)
  <2>1. GroupValue(arr[i], group) \in ToSet(t)
    BY <1>2, <1>4 DEF ToSet
  <2>2. GroupValue(arr[i], group) \in ToSet(V)
    BY <1>7, <2>1
  <2> QED
    BY <1>8, <2>2 DEF ToSet
<1>11. ASSUME NEW k \in 1 .. Len(V)
       PROVE  \E i \in DOMAIN arr : V[k] = GroupValue(arr[i], group)
  <2>1. V[k] \in ToSet(t)
    BY <1>7, <1>8 DEF ToSet
  <2> QED
    BY <1>2, <1>4, <2>1 DEF ToSet
<1> QED
  BY <1>7, <1>8, <1>9, <1>10, <1>11 DEF V

\* A group's records, in the order they came.
LEMMA MembersAre ==
    ASSUME NEW arr, arr \in Seq(Range(arr)), NEW group, NEW v
    PROVE  /\ GroupMembers(arr, group, v) \in Seq(Range(arr))
           /\ \E p : PlacesOf(arr, OfGroup(arr, group, v), GroupMembers(arr, group, v), p)
<1>1. OfGroup(arr, group, v) \in SUBSET (1 .. Len(arr))
  BY DEF OfGroup
<1>2. GroupMembers(arr, group, v) = Picked(arr, OfGroup(arr, group, v))
  BY DEF GroupMembers, OfGroup
<1>3. /\ Picked(arr, OfGroup(arr, group, v)) \in Seq(Range(arr))
      /\ \E p : PlacesOf(arr, OfGroup(arr, group, v), Picked(arr, OfGroup(arr, group, v)), p)
  BY <1>1, PickedPlaces
<1> QED
  BY <1>2, <1>3, Zenon

\* Its own line, and a row for each of them.
GroupLine(v, n, group) == Line(NameLead(0, group), GroupBody(v, n))

\* A cluster is the line of the group and the rows of its members.
LEMMA ClusterIs ==
    ASSUME NEW v, NEW U, NEW members \in Seq(U), NEW group, NEW per
    PROVE  /\ Cluster(v, members, group, per) \in Seq(Range(Cluster(v, members, group, per)))
           /\ Len(Cluster(v, members, group, per)) = Len(members) + 1
           /\ Cluster(v, members, group, per)[1] = GroupLine(v, Len(members), group)
           /\ \A j \in 1 .. Len(members) :
                 Cluster(v, members, group, per)[j + 1] = MemberLine(members[j], per)
<1> DEFINE t == [k \in DOMAIN members |-> MemberLine(members[k], per)]
           h == GroupLine(v, Len(members), group)
           T == {MemberLine(members[k], per) : k \in DOMAIN members} \cup {h}
           c == Cluster(v, members, group, per)
<1>1. DOMAIN members = 1 .. Len(members) /\ Len(members) \in Nat
  OBVIOUS
<1>2. t \in Seq(T) /\ Len(t) = Len(members) /\ \A k \in 1 .. Len(members) : t[k] = MemberLine(members[k], per)
  BY <1>1
<1>3. c = <<h>> \o SubSeq(t, 1, Len(members))
  BY DEF Cluster, Mapped, GroupLine
<1>4. h \in T
  OBVIOUS
<1> HIDE DEF t, T, h, c
<1>5. SubSeq(t, 1, Len(t)) = t
  BY <1>2, SubSeqFull
<1>6. c = <<h>> \o t
  BY <1>2, <1>3, <1>5
<1>7. <<h>> \in Seq(T) /\ Len(<<h>>) = 1 /\ <<h>>[1] = h
  BY <1>4
<1>8. c \in Seq(T) /\ Len(c) = Len(members) + 1 /\ c[1] = h /\ \A j \in 1 .. Len(members) : c[j + 1] = t[j]
  BY <1>1, <1>2, <1>6, <1>7
<1>9. c \in Seq(Range(c))
  BY <1>8, OfItsOwn
<1> QED
  BY <1>2, <1>8, <1>9 DEF c, h

-----------------------------------------------------------------------------
(* The document.                                                           *)

\* The groups' lines.
Clusters(arr, key, group) ==
    Mapped(LAMBDA v : Cluster(v, GroupMembers(arr, group, v), group, Bare(arr, key, group)),
           GroupValues(arr, group))

\* The document is the header and the clusters.
LEMMA DocumentIs ==
    ASSUME NEW arr, NEW key, NEW group
    PROVE  EncodeGenericGrouped(arr, key, group)
             = <<Line(RootLead, Header(arr, key, group))>> \o FlattenSeq(Clusters(arr, key, group))
BY DEF EncodeGenericGrouped, Clusters, Header, Constants, Bare

\* What the k-th group has on its lines, the first of which is line a.
GroupLaid(lines, arr, key, group, k, a) ==
    LET v == GroupValues(arr, group)[k]
        members == GroupMembers(arr, group, v)
    IN  /\ lines[a] = GroupLine(v, Len(members), group)
        /\ \A j \in 1 .. Len(members) : lines[a + j] = MemberLine(members[j], Bare(arr, key, group))

\* The number of its records.
Size(arr, group, k) == Len(GroupMembers(arr, group, GroupValues(arr, group)[k]))

\* The group after the k-th begins on line at[k].
Laid(lines, arr, key, group, at) ==
    /\ lines \in Seq(Range(lines))
    /\ lines[1] = Line(RootLead, Header(arr, key, group))
    /\ at \in [0 .. Len(GroupValues(arr, group)) -> Nat]
    /\ at[0] = 2 /\ at[Len(GroupValues(arr, group))] = Len(lines) + 1
    /\ \A k \in 1 .. Len(GroupValues(arr, group)) :
          /\ Size(arr, group, k) \in Nat
          /\ at[k] = at[k - 1] + Size(arr, group, k) + 1
          /\ GroupLaid(lines, arr, key, group, k, at[k - 1])

\* The groups' lines as sequences of lines.
LEMMA ClustersAre ==
    ASSUME NEW arr, arr \in Seq(Range(arr)), NEW key, NEW group
    PROVE  /\ \E T : Clusters(arr, key, group) \in Seq(Seq(T))
           /\ Len(Clusters(arr, key, group)) = Len(GroupValues(arr, group))
           /\ \A k \in 1 .. Len(GroupValues(arr, group)) :
                 /\ Size(arr, group, k) \in Nat
                 /\ Len(Clusters(arr, key, group)[k]) = Size(arr, group, k) + 1
                 /\ Clusters(arr, key, group)[k][1]
                      = GroupLine(GroupValues(arr, group)[k], Size(arr, group, k), group)
                 /\ \A j \in 1 .. Size(arr, group, k) :
                       Clusters(arr, key, group)[k][j + 1]
                         = MemberLine(GroupMembers(arr, group, GroupValues(arr, group)[k])[j],
                                      Bare(arr, key, group))
<1> DEFINE V == GroupValues(arr, group)
           members(v) == GroupMembers(arr, group, v)
           P == Bare(arr, key, group)
           t == [k \in DOMAIN V |-> Cluster(V[k], members(V[k]), group, P)]
           T == UNION {Range(t[k]) : k \in DOMAIN V}
           c == Clusters(arr, key, group)
<1>1. DOMAIN V = 1 .. Len(V) /\ Len(V) \in Nat
  <2>1. V \in Seq(ToSet(V))
    BY ValuesAre
  <2> QED
    BY <2>1
<1>2. c = SubSeq(t, 1, Len(V))
  BY DEF Clusters, Mapped
<1>3. \A k \in 1 .. Len(V) : t[k] = Cluster(V[k], members(V[k]), group, P)
  BY <1>1
<1>4. \A k \in 1 .. Len(V) : Size(arr, group, k) = Len(members(V[k]))
  BY DEF Size
<1>5. \A v : members(v) \in Seq(Range(arr))
  BY MembersAre
<1>6. \A k \in 1 .. Len(V) : Range(t[k]) \in SUBSET T
  BY <1>1
<1>7. DOMAIN t = 1 .. Len(V)
  BY <1>1
<1>71. t = [k \in 1 .. Len(V) |-> t[k]]
  BY <1>1
<1> HIDE DEF V, members, P, t, T
<1>8. ASSUME NEW k \in 1 .. Len(V)
      PROVE  /\ t[k] \in Seq(Range(t[k]))
             /\ Len(t[k]) = Len(members(V[k])) + 1
             /\ t[k][1] = GroupLine(V[k], Len(members(V[k])), group)
             /\ \A j \in 1 .. Len(members(V[k])) : t[k][j + 1] = MemberLine(members(V[k])[j], P)
  <2>1. members(V[k]) \in Seq(Range(arr))
    BY <1>5
  <2> DEFINE u == Cluster(V[k], members(V[k]), group, P)
  <2>2. /\ u \in Seq(Range(u))
        /\ Len(u) = Len(members(V[k])) + 1
        /\ u[1] = GroupLine(V[k], Len(members(V[k])), group)
        /\ \A j \in 1 .. Len(members(V[k])) : u[j + 1] = MemberLine(members(V[k])[j], P)
    BY <2>1, ClusterIs
  <2>3. t[k] = u
    BY <1>3
  <2> HIDE DEF u
  <2> QED
    BY <2>2, <2>3, Zenon
<1>9. t \in Seq(Seq(T)) /\ Len(t) = Len(V)
  <2>1. \A k \in 1 .. Len(V) : t[k] \in Seq(T)
    BY <1>6, <1>8, SeqMonotonic
  <2>2. t \in [1 .. Len(V) -> Seq(T)]
    BY <1>71, <2>1
  <2> QED
    BY <1>1, <2>2
<1>10. SubSeq(t, 1, Len(t)) = t
  BY <1>9, SubSeqFull
<1>11. c = t
  BY <1>2, <1>9, <1>10
<1>12. \A k \in 1 .. Len(V) : Len(members(V[k])) \in Nat
  BY <1>5
<1> HIDE DEF c
<1>13. /\ \E S : c \in Seq(Seq(S))
       /\ Len(c) = Len(V)
  BY <1>9, <1>11
<1>14. ASSUME NEW k \in 1 .. Len(V)
       PROVE  /\ Size(arr, group, k) \in Nat
              /\ Len(c[k]) = Size(arr, group, k) + 1
              /\ c[k][1] = GroupLine(V[k], Size(arr, group, k), group)
              /\ \A j \in 1 .. Size(arr, group, k) : c[k][j + 1] = MemberLine(members(V[k])[j], P)
  BY <1>4, <1>8, <1>11, <1>12
<1> QED
  BY <1>13, <1>14 DEF V, members, P, c

\* Every document is laid out like that.
LEMMA LinesLaid ==
    ASSUME NEW arr, arr \in Seq(Range(arr)), NEW key, NEW group
    PROVE  \E at : Laid(EncodeGenericGrouped(arr, key, group), arr, key, group, at)
<1> DEFINE V == GroupValues(arr, group)
           c == Clusters(arr, key, group)
           h == Line(RootLead, Header(arr, key, group))
           size(k) == Size(arr, group, k)
           row(k, j) == MemberLine(GroupMembers(arr, group, V[k])[j], Bare(arr, key, group))
           lines == EncodeGenericGrouped(arr, key, group)
<1>1. PICK T : c \in Seq(Seq(T))
  BY ClustersAre
<1>2. /\ Len(c) = Len(V)
      /\ \A k \in 1 .. Len(V) : /\ size(k) \in Nat
                                /\ Len(c[k]) = size(k) + 1
                                /\ c[k][1] = GroupLine(V[k], size(k), group)
                                /\ \A j \in 1 .. size(k) : c[k][j + 1] = row(k, j)
  BY ClustersAre
<1>3. lines = <<h>> \o FlattenSeq(c)
  BY DocumentIs
<1>4. \A k \in 1 .. Len(V), a \in Nat :
         /\ lines[a] = GroupLine(V[k], size(k), group)
         /\ \A j \in 1 .. size(k) : lines[a + j] = row(k, j)
         => GroupLaid(lines, arr, key, group, k, a)
  BY DEF GroupLaid, Size
<1> HIDE DEF V, c, h, size, row, lines
<1>5. PICK f : FlatUpTo(c, Len(c), f) /\ FlattenSeq(c) = f[Len(c)]
  BY <1>1, FlatIs
<1>6. \A k \in 0 .. Len(c) : f[k] \in Seq(T)
  BY <1>1, <1>5, FlatTyped
<1>7. Len(V) \in Nat /\ Len(c) \in Nat
  BY <1>1, <1>2
<1>8. ASSUME NEW k \in 1 .. Len(V)
      PROVE  /\ Len(f[k]) = Len(f[k - 1]) + size(k) + 1
             /\ f[Len(V)][Len(f[k - 1]) + 1] = GroupLine(V[k], size(k), group)
             /\ \A j \in 1 .. size(k) : f[Len(V)][Len(f[k - 1]) + (j + 1)] = row(k, j)
  <2>1. k \in 1 .. Len(c)
    BY <1>2
  <2>2. /\ Len(f[k]) = Len(f[k - 1]) + Len(c[k])
        /\ \A j \in 1 .. Len(c[k]) : f[Len(c)][Len(f[k - 1]) + j] = c[k][j]
    <3>1. StandsAt(f[Len(c)], f, c, k)
      BY <1>1, <1>5, <2>1, FlatAt
    <3> QED
      BY <3>1 DEF StandsAt
  <2>3. /\ size(k) \in Nat
        /\ Len(c[k]) = size(k) + 1
        /\ c[k][1] = GroupLine(V[k], size(k), group)
        /\ \A j \in 1 .. size(k) : c[k][j + 1] = row(k, j)
    BY <1>2
  <2>4. Len(f[k - 1]) \in Nat
    <3>1. k - 1 \in 0 .. Len(c)
      BY <1>7, <2>1
    <3> QED
      BY <1>6, <3>1
  <2>5. Len(f[k]) = Len(f[k - 1]) + size(k) + 1
    BY <2>2, <2>3, <2>4
  <2>6. 1 \in 1 .. Len(c[k]) /\ \A j \in 1 .. size(k) : j + 1 \in 1 .. Len(c[k])
    BY <2>3
  <2>7. f[Len(V)][Len(f[k - 1]) + 1] = GroupLine(V[k], size(k), group)
    BY <1>2, <2>2, <2>3, <2>6
  <2>8. \A j \in 1 .. size(k) : f[Len(V)][Len(f[k - 1]) + (j + 1)] = row(k, j)
    BY <1>2, <2>2, <2>3, <2>6
  <2> QED
    BY <2>5, <2>7, <2>8
<1> DEFINE at == [k \in 0 .. Len(V) |-> Len(f[k]) + 2]
           F == f[Len(V)]
           S == T \cup {h}
<1>9. \A k \in 0 .. Len(V) : Len(f[k]) \in Nat /\ at[k] = Len(f[k]) + 2
  BY <1>2, <1>6
<1>10. F \in Seq(S) /\ F \in Seq(T) /\ <<h>> \in Seq(S)
  <2>1. F \in Seq(T)
    BY <1>2, <1>6, <1>7
  <2>2. T \in SUBSET S
    OBVIOUS
  <2> HIDE DEF F, S
  <2>3. F \in Seq(S)
    BY <2>1, <2>2, SeqMonotonic
  <2> QED
    BY <2>1, <2>3 DEF S
<1>11. lines = <<h>> \o F
  BY <1>2, <1>3, <1>5
<1>12. \A k \in 1 .. Len(V), j \in Nat :
          Len(f[k - 1]) + j <= Len(F) /\ j > 0 => lines[at[k - 1] + (j - 1)] = F[Len(f[k - 1]) + j]
  <2> TAKE k \in 1 .. Len(V), j \in Nat
  <2> HAVE Len(f[k - 1]) + j <= Len(F) /\ j > 0
  <2>1. k - 1 \in 0 .. Len(V)
    BY <1>7
  <2>2. PICK m \in Nat : m = Len(f[k - 1])
    BY <1>9, <2>1
  <2>3. at[k - 1] + (j - 1) = 1 + (m + j) /\ m + j \in 1 .. Len(F)
    <3>1. at[k - 1] = m + 2
      BY <1>9, <2>1, <2>2
    <3>2. Len(F) \in Nat
      BY <1>7, <1>9
    <3> HIDE DEF at, F
    <3> QED
      BY <2>2, <3>1, <3>2
  <2>4. Joins(lines, <<h>>, F)
    BY <1>10, <1>11, JoinIs, Zenon
  <2>5. Len(<<h>>) = 1
    OBVIOUS
  <2>6. lines[1 + (m + j)] = F[m + j]
    <3> HIDE DEF F
    <3> QED
      BY <2>3, <2>4, <2>5 DEF Joins
  <2> QED
    <3> HIDE DEF F, at
    <3> QED
      BY <2>2, <2>3, <2>6
<1>13. /\ lines \in Seq(Range(lines))
       /\ lines[1] = h
       /\ Len(lines) = Len(F) + 1
  <2>1. lines \in Seq(S) /\ lines[1] = h /\ Len(lines) = Len(F) + 1
    <3> HIDE DEF F, S
    <3> QED
      BY <1>10, <1>11
  <2> QED
    BY <2>1, OfItsOwn
<1>14. /\ at \in [0 .. Len(V) -> Nat]
       /\ at[0] = 2
       /\ at[Len(V)] = Len(lines) + 1
  <2>1. at \in [0 .. Len(V) -> Nat]
    BY <1>9
  <2>2. f[0] = << >> /\ 0 \in 0 .. Len(V) /\ Len(V) \in 0 .. Len(V)
    BY <1>5, <1>7 DEF FlatUpTo
  <2>3. at[0] = 2
    BY <1>9, <2>2
  <2>4. at[Len(V)] = Len(F) + 2
    BY <2>2
  <2>5. Len(F) \in Nat
    BY <1>9, <2>2
  <2> HIDE DEF at, F
  <2> QED
    BY <1>13, <2>1, <2>3, <2>4, <2>5
<1>15. ASSUME NEW k \in 1 .. Len(V)
       PROVE  /\ size(k) \in Nat
              /\ at[k] = at[k - 1] + size(k) + 1
              /\ GroupLaid(lines, arr, key, group, k, at[k - 1])
  <2>1. k - 1 \in 0 .. Len(V) /\ k \in 0 .. Len(V)
    BY <1>7
  <2>2. PICK m, n, x, a : m = Len(f[k - 1]) /\ n = size(k) /\ x = Len(F) /\ a = at[k - 1]
    OBVIOUS
  <2>3. m \in Nat /\ n \in Nat /\ a = m + 2
    BY <1>2, <1>9, <2>1, <2>2
  <2>4. Len(f[k]) = m + n + 1 /\ at[k] = Len(f[k]) + 2
    BY <1>8, <1>9, <2>1, <2>2
  <2>5. x \in Nat /\ x >= m + n + 1
    <3>1. Len(f[Len(c)]) >= Len(f[k])
      <4>1. k \in 1 .. Len(c)
        BY <1>2
      <4>2. StandsAt(f[Len(c)], f, c, k)
        BY <1>1, <1>5, <4>1, FlatAt
      <4> QED
        BY <4>2 DEF StandsAt
    <3>2. F = f[Len(c)] /\ Len(F) \in Nat
      BY <1>2, <1>7, <1>9
    <3> HIDE DEF F
    <3> QED
      BY <2>2, <2>4, <3>1, <3>2
  <2> HIDE DEF at, F
  <2>6. lines[a] = GroupLine(V[k], size(k), group)
    <3>1. \A j \in Nat : m + j <= x /\ j > 0 => lines[a + (j - 1)] = F[m + j]
      BY <1>12, <2>2
    <3>2. \A j \in Nat : j = 1 => a + (j - 1) = a /\ m + j <= x /\ j > 0
      BY <2>3, <2>5
    <3>4. PICK j \in Nat : j = 1
      OBVIOUS
    <3>5. lines[a] = F[m + j]
      BY <3>1, <3>2, <3>4
    <3>3. F[m + 1] = GroupLine(V[k], size(k), group)
      BY <1>8, <2>2 DEF F
    <3> QED
      BY <3>3, <3>4, <3>5
  <2>7. ASSUME NEW j \in 1 .. size(k) PROVE lines[a + j] = row(k, j)
    <3>1. j \in 1 .. n
      BY <2>2
    <3>2. PICK l \in Nat : l = j + 1
      BY <2>3, <3>1
    <3>3. m + l <= x /\ l > 0 /\ a + (l - 1) = a + j
      BY <2>3, <2>5, <3>1, <3>2
    <3>4. lines[a + (l - 1)] = F[m + l]
      BY <1>12, <2>2, <3>2, <3>3
    <3>5. F[m + l] = row(k, j)
      BY <1>8, <2>2, <3>2 DEF F
    <3> QED
      BY <3>3, <3>4, <3>5
  <2>8. GroupLaid(lines, arr, key, group, k, at[k - 1])
    <3>1. a \in Nat
      BY <2>3
    <3>2. GroupLaid(lines, arr, key, group, k, a)
      BY <1>4, <2>6, <2>7, <3>1
    <3> QED
      BY <2>2, <3>2
  <2>9. at[k] = at[k - 1] + size(k) + 1
    BY <2>2, <2>3, <2>4
  <2>10. size(k) \in Nat
    BY <2>2, <2>3, Zenon
  <2> QED
    BY <2>8, <2>9, <2>10, Zenon
<1> HIDE DEF at
<1>16. Laid(lines, arr, key, group, at)
  BY <1>13, <1>14, <1>15 DEF Laid, V, h, size
<1> QED
  BY <1>16 DEF lines

-----------------------------------------------------------------------------
(* The decoder's loop.                                                     *)

\* What has been read after each of the first n turns.
DecodedUpTo(lines, i, body, per, n, a) ==
    /\ a = [k \in 0 .. n |-> a[k]]
    /\ a[0] = Reading(TRUE, << >>, i, {})
    /\ \A k \in 1 .. n : a[k] = ReadGroup(lines, body, per, a[k - 1])

\* decodeGroups is its recursive function, which exists.
LEMMA DecodesExist ==
    ASSUME NEW lines, lines \in Seq(Range(lines)), NEW i, NEW body, NEW per
    PROVE  \E a : /\ DecodedUpTo(lines, i, body, per, Len(lines), a)
                  /\ decodeGroups(lines, i, body, per) = a[Len(lines)]
<1> DEFINE first == Reading(TRUE, << >>, i, {})
           read(s) == ReadGroup(lines, body, per, s)
           N == {n \in Nat : \E a : DecodedUpTo(lines, i, body, per, n, a)}
<1>0. Len(lines) \in Nat
  OBVIOUS
<1>1. 0 \in N
  <2> DEFINE a == [k \in 0 .. 0 |-> first]
  <2>1. a[0] = first /\ a = [k \in 0 .. 0 |-> a[k]] /\ 1 .. 0 = {}
    OBVIOUS
  <2> HIDE DEF a
  <2>2. DecodedUpTo(lines, i, body, per, 0, a)
    BY <2>1 DEF DecodedUpTo
  <2> QED
    BY <2>2
<1>2. ASSUME NEW n \in N PROVE n + 1 \in N
  <2>1. n \in Nat
    OBVIOUS
  <2>2. PICK a : DecodedUpTo(lines, i, body, per, n, a)
    OBVIOUS
  <2> DEFINE b == [k \in 0 .. n + 1 |-> IF k = n + 1 THEN read(a[n]) ELSE a[k]]
  <2> HIDE DEF read
  <2>3. b[0] = first /\ b = [k \in 0 .. n + 1 |-> b[k]]
    <3>1. 0 # n + 1 /\ 0 \in 0 .. n + 1
      BY <2>1
    <3>2. b[0] = a[0]
      BY <3>1
    <3> QED
      BY <2>2, <3>2 DEF DecodedUpTo
  <2>4. ASSUME NEW k \in 1 .. n + 1 PROVE b[k] = read(b[k - 1])
    <3>1. k - 1 \in 0 .. n /\ k - 1 \in 0 .. n + 1 /\ k - 1 # n + 1 /\ k \in 0 .. n + 1
      BY <2>1
    <3>2. b[k - 1] = a[k - 1]
      BY <3>1
    <3>3. CASE k = n + 1
      <4>1. k - 1 = n
        BY <2>1, <3>3
      <4>2. b[k] = read(a[n])
        BY <3>1, <3>3
      <4> HIDE DEF b
      <4> QED
        BY <3>2, <4>1, <4>2
    <3>4. CASE k # n + 1
      <4>1. k \in 1 .. n
        BY <2>1, <3>4
      <4>2. b[k] = a[k]
        BY <3>1, <3>4
      <4>3. a[k] = read(a[k - 1])
        BY <2>2, <4>1 DEF DecodedUpTo, read
      <4> HIDE DEF b
      <4> QED
        BY <3>2, <4>2, <4>3
    <3> QED
      BY <3>3, <3>4
  <2>5. DecodedUpTo(lines, i, body, per, n + 1, b)
    <3> HIDE DEF b
    <3> QED
      BY <2>3, <2>4 DEF DecodedUpTo, read
  <2> QED
    BY <2>1, <2>5
<1>3. PICK a : DecodedUpTo(lines, i, body, per, Len(lines), a)
  <2>1. N \in SUBSET Nat
    OBVIOUS
  <2>2. \A n \in Nat : n \in N
    <3> HIDE DEF N
    <3> QED
      BY <1>1, <1>2, <2>1, Induct
  <2> QED
    BY <1>0, <2>2
<1> DEFINE F(g) == g = [n \in 0 .. Len(lines) |-> IF n = 0 THEN first ELSE read(g[n - 1])]
<1>5. decodeGroups(lines, i, body, per) = (CHOOSE g : F(g))[Len(lines)]
  BY DEF decodeGroups
<1> HIDE DEF first, read
<1>4. ASSUME NEW g PROVE F(g) <=> DecodedUpTo(lines, i, body, per, Len(lines), g)
  <2>2. ASSUME F(g) PROVE DecodedUpTo(lines, i, body, per, Len(lines), g)
    <3>1. \A n \in 0 .. Len(lines) : g[n] = IF n = 0 THEN first ELSE read(g[n - 1])
      BY <2>2
    <3>2. g = [n \in 0 .. Len(lines) |-> g[n]]
      BY <2>2
    <3>3. g[0] = first /\ \A n \in 1 .. Len(lines) : g[n] = read(g[n - 1])
      BY <1>0, <3>1
    <3> QED
      BY <3>2, <3>3 DEF DecodedUpTo, first, read
  <2>3. ASSUME DecodedUpTo(lines, i, body, per, Len(lines), g) PROVE F(g)
    <3>1. g[0] = first /\ \A n \in 1 .. Len(lines) : g[n] = read(g[n - 1])
      BY <2>3 DEF DecodedUpTo, first, read
    <3>2. g = [n \in 0 .. Len(lines) |-> g[n]]
      BY <2>3 DEF DecodedUpTo
    <3>3. \A n \in 0 .. Len(lines) : g[n] = IF n = 0 THEN first ELSE read(g[n - 1])
      BY <1>0, <3>1
    <3> QED
      BY <3>2, <3>3
  <2> QED
    BY <2>2, <2>3
<1>6. F(CHOOSE g : F(g))
  <2> HIDE DEF F
  <2>1. F(a)
    BY <1>3, <1>4
  <2> QED
    BY <2>1
<1> QED
  <2> HIDE DEF F
  <2> QED
    BY <1>4, <1>5, <1>6

\* Once the last line is read, the turns that are left change nothing.
LEMMA DecodedStays ==
    ASSUME NEW lines, lines \in Seq(Range(lines)), NEW i, NEW body, NEW per, NEW a,
           DecodedUpTo(lines, i, body, per, Len(lines), a),
           NEW n \in 0 .. Len(lines), a[n].next > Len(lines)
    PROVE  a[Len(lines)] = a[n]
<1> DEFINE N == {m \in Nat : \A l \in 0 .. Len(lines) : l = n + m => a[l] = a[n]}
<1>1. Len(lines) \in Nat
  OBVIOUS
<1>2. 0 \in N
  OBVIOUS
<1>3. ASSUME NEW m \in N PROVE m + 1 \in N
  <2> SUFFICES ASSUME NEW l \in 0 .. Len(lines), l = n + (m + 1) PROVE a[l] = a[n]
    OBVIOUS
  <2>1. l \in 1 .. Len(lines) /\ l - 1 \in 0 .. Len(lines) /\ l - 1 = n + m
    BY <1>1
  <2>2. a[l - 1] = a[n]
    BY <2>1
  <2>3. a[l] = ReadGroup(lines, body, per, a[l - 1])
    BY <2>1 DEF DecodedUpTo
  <2> HIDE DEF N
  <2>4. a[l] = ReadGroup(lines, body, per, a[n])
    BY <2>2, <2>3
  <2> QED
    BY <2>4 DEF ReadGroup
<1>4. N \in SUBSET Nat
  OBVIOUS
<1>5. \A m \in Nat : m \in N
  <2> HIDE DEF N
  <2> QED
    BY <1>2, <1>3, <1>4, Induct
<1>6. PICK m \in Nat : Len(lines) = n + m
  <2>1. Len(lines) - n \in Nat /\ Len(lines) = n + (Len(lines) - n)
    BY <1>1
  <2> QED
    BY <2>1
<1>7. m \in N /\ Len(lines) \in 0 .. Len(lines)
  BY <1>1, <1>5
<1> QED
  BY <1>6, <1>7

-----------------------------------------------------------------------------
(* One group.                                                              *)

\* A line's cells.
LEMMA RowIs ==
    ASSUME NEW o, NEW per
    PROVE  /\ CellsOf(MemberLine(o, per)) = RowCells(o, per)
           /\ MemberLine(o, per).lead.mark # "##"
BY DEF CellsOf, MemberLine, Line, CellsBody, NoLead, RowCells

\* l is the line of a group of n records.
Announces(l, v, n, group) ==
    /\ l.lead.mark = "" /\ l.lead.depth = 0 /\ l.lead.name = group
    /\ l.body.form = "group" /\ l.body.value = v /\ l.body.count = n
    /\ SpeltAs(l) = l

\* The line of a group announces it.
LEMMA GroupLineIs ==
    ASSUME NEW v, NEW n, NEW group
    PROVE  Announces(GroupLine(v, n, group), v, n, group)
<1>1. /\ NameLead(0, group).mark = "" /\ NameLead(0, group).depth = 0
      /\ NameLead(0, group).name = group
  BY DEF NameLead
<1>2. /\ GroupBody(v, n).form = "group" /\ GroupBody(v, n).value = v
      /\ GroupBody(v, n).count = n
  BY DEF GroupBody
<1>3. /\ GroupLine(v, n, group).lead = NameLead(0, group)
      /\ GroupLine(v, n, group).body = GroupBody(v, n)
  BY DEF GroupLine, Line
<1>4. SpeltAs(GroupLine(v, n, group)) = GroupLine(v, n, group)
  BY <1>2, <1>3 DEF SpeltAs
<1> QED
  BY <1>1, <1>2, <1>3, <1>4 DEF Announces

\* Rows of records that can be grouped are read as rows.
LEMMA MemberReads ==
    ASSUME NEW arr, NEW key, NEW group, Takes(arr, key, group), NEW i \in DOMAIN arr,
           NEW P, P = Bare(arr, key, group)
    PROVE  /\ Len(RowCells(arr[i], P)) = Len(P)
           /\ \A c \in ToSet(RowCells(arr[i], P)) : c.kind # "attached"
<1> DEFINE t == RowCells(arr[i], P)
<1>1. P \in Seq(ToSet(tabularFields(arr)))
  BY BareIs
<1>2. /\ t \in Seq(Range(t))
      /\ Len(t) = Len(P)
      /\ \A k \in 1 .. Len(P) : t[k] = Get(arr[i], P[k])
  BY <1>1, CellsAre
<1> HIDE DEF t
<1>3. DOMAIN t = 1 .. Len(P)
  BY <1>2
<1>4. ASSUME NEW c \in ToSet(t) PROVE c.kind # "attached"
  <2>1. PICK k \in 1 .. Len(P) : c = t[k]
    BY <1>3 DEF ToSet
  <2>2. c = Get(arr[i], P[k])
    BY <1>2, <2>1
  <2> QED
    BY <2>2, FlatValues
<1> QED
  BY <1>2, <1>4 DEF t

\* The groups' lines follow one another up to the last line.
LEMMA GroupsFit ==
    ASSUME NEW lines, NEW arr, NEW key, NEW group, NEW at, Laid(lines, arr, key, group, at),
           NEW L \in Nat, L = Len(GroupValues(arr, group)), NEW k \in 0 .. L, NEW l \in 0 .. L, k <= l
    PROVE  at[k] + (l - k) <= at[l]
<1> DEFINE N == {n \in Nat : \A m \in 0 .. L : m = k + n => at[k] + n <= at[m]}
<1>1. \A m \in 0 .. L : at[m] \in Nat
  BY DEF Laid
<1>2. 0 \in N
  <2>1. ASSUME NEW m \in 0 .. L, m = k + 0 PROVE at[k] + 0 <= at[m]
    <3>1. m = k /\ at[k] \in Nat
      BY <1>1, <2>1
    <3> QED
      BY <3>1
  <2> QED
    BY <2>1
<1>3. ASSUME NEW n \in N PROVE n + 1 \in N
  <2>1. n \in Nat /\ n + 1 \in Nat
    OBVIOUS
  <2> SUFFICES ASSUME NEW m \in 0 .. L, m = k + (n + 1) PROVE at[k] + (n + 1) <= at[m]
    BY <2>1
  <2>2. m \in 1 .. L /\ m - 1 \in 0 .. L /\ m - 1 = k + n
    BY <2>1
  <2>3. at[k] + n <= at[m - 1]
    BY <2>2
  <2>4. Size(arr, group, m) \in Nat /\ at[m] = at[m - 1] + Size(arr, group, m) + 1
    BY <2>2 DEF Laid
  <2>5. at[k] \in Nat /\ at[m - 1] \in Nat
    BY <1>1, <2>2
  <2> HIDE DEF N
  <2> QED
    BY <2>1, <2>3, <2>4, <2>5
<1>4. N \in SUBSET Nat
  OBVIOUS
<1>5. \A n \in Nat : n \in N
  <2> HIDE DEF N
  <2> QED
    BY <1>2, <1>3, <1>4, Induct
<1>6. PICK n \in Nat : n = l - k /\ l = k + n
  <2>1. l - k \in Nat /\ l = k + (l - k)
    OBVIOUS
  <2> QED
    BY <2>1
<1>7. at[k] + n <= at[l]
  <2>1. n \in N
    BY <1>5
  <2> QED
    BY <1>6, <2>1
<1> QED
  BY <1>6, <1>7

\* t has the n elements of s after a.
IsPart(t, s, a, n) == Len(t) = n /\ \A j \in 1 .. n : t[j] = s[a + j]

\* A part of a sequence, element by element.
LEMMA PartOf ==
    ASSUME NEW T, NEW s \in Seq(T), NEW a \in Nat, NEW n \in Nat, a + n <= Len(s)
    PROVE  IsPart(SubSeq(s, a + 1, a + n), s, a, n) /\ SubSeq(s, a + 1, a + n) \in Seq(T)
<1>1. a + 1 \in 1 .. Len(s) + 1 /\ a + n \in a .. Len(s)
  OBVIOUS
<1>2. SubSeq(s, a + 1, a + n) = [j \in 1 .. ((a + n) - (a + 1)) + 1 |-> s[(a + 1) + j - 1]]
  OBVIOUS
<1>3. ((a + n) - (a + 1)) + 1 = n /\ \A j \in 1 .. n : (a + 1) + j - 1 = a + j /\ a + j \in 1 .. Len(s)
  OBVIOUS
<1>4. SubSeq(s, a + 1, a + n) = [j \in 1 .. n |-> s[a + j]]
  BY <1>2, <1>3
<1>5. \A j \in 1 .. n : s[a + j] \in T
  BY <1>3
<1>6. [j \in 1 .. n |-> s[a + j]] \in Seq(T) /\ Len([j \in 1 .. n |-> s[a + j]]) = n
  BY <1>5
<1> QED
  BY <1>3, <1>4, <1>6 DEF IsPart

\* G has the records of the n lines after line a.
RecordsOf(G, lines, a, n, body, per) ==
    /\ G \in Seq(Range(G)) /\ Len(G) = n
    /\ \A j \in 1 .. n : G[j] = GroupRecord(body, lines[a].body.value, per, CellsOf(lines[a + j]))

\* The records of a group are those of the lines after its own.
LEMMA RecordsAre ==
    ASSUME NEW T, NEW lines \in Seq(T), NEW a \in Nat, NEW n \in Nat, a + n <= Len(lines),
           SpeltAs(lines[a]) = lines[a], lines[a].body.count = n,
           NEW body, NEW per, NEW G, G = GroupRecords(lines, a, body, per)
    PROVE  RecordsOf(G, lines, a, n, body, per)
<1> DEFINE sub == SubSeq(lines, a + 1, a + n)
           t == [j \in DOMAIN sub |-> GroupRecord(body, lines[a].body.value, per, CellsOf(sub[j]))]
           U == {t[j] : j \in DOMAIN sub}
<1>1. G = SubSeq(t, 1, Len(sub))
  BY DEF GroupRecords, Mapped
<1>2. sub \in Seq(T) /\ Len(sub) = n /\ \A j \in 1 .. n : sub[j] = lines[a + j]
  <2>1. IsPart(sub, lines, a, n) /\ sub \in Seq(T)
    BY PartOf, Zenon
  <2> HIDE DEF sub
  <2> QED
    BY <2>1 DEF IsPart
<1> HIDE DEF sub
<1>3. DOMAIN sub = 1 .. n
  BY <1>2
<1>4. t \in Seq(U) /\ Len(t) = n
  <2>1. t = [j \in 1 .. n |-> t[j]] /\ \A j \in 1 .. n : t[j] \in U
    BY <1>3
  <2> HIDE DEF t, U
  <2> QED
    BY <2>1
<1>5. \A j \in 1 .. n : t[j] = GroupRecord(body, lines[a].body.value, per, CellsOf(sub[j]))
  BY <1>3
<1> HIDE DEF t, U
<1>6. SubSeq(t, 1, Len(t)) = t
  BY <1>4, SubSeqFull
<1>7. G = t
  BY <1>1, <1>2, <1>4, <1>6
<1>8. G \in Seq(Range(G)) /\ Len(G) = n
  BY <1>4, <1>7, OfItsOwn
<1> QED
  BY <1>2, <1>5, <1>7, <1>8 DEF RecordsOf

\* A record of each group.
LEMMA SomeMember ==
    ASSUME NEW arr, arr \in Seq(Range(arr)), NEW group, NEW k \in 1 .. Len(GroupValues(arr, group))
    PROVE  Size(arr, group, k) > 0
<1> DEFINE v == GroupValues(arr, group)[k]
           members == GroupMembers(arr, group, v)
<1>1. PICK i \in DOMAIN arr : v = GroupValue(arr[i], group)
  BY ValuesAre
<1>2. PICK p : PlacesOf(arr, OfGroup(arr, group, v), members, p)
  BY MembersAre
<1>3. members \in Seq(Range(arr))
  BY MembersAre
<1>4. i \in OfGroup(arr, group, v)
  BY <1>1 DEF OfGroup
<1> HIDE DEF v, members
<1>5. \E j \in 1 .. Len(members) : p[j] = i
  BY <1>2, <1>4 DEF PlacesOf
<1>6. Len(members) > 0
  BY <1>3, <1>5
<1> QED
  BY <1>6 DEF Size, members, v

\* What the decoder reads of the k-th group, on the n lines after line a.
GroupIsRead(lines, arr, key, group, at, k, v, a, n, body, per, G) ==
    /\ a \in 1 .. Len(lines) /\ n \in Nat /\ at[k] = a + n + 1
    /\ Announces(lines[a], v, n, group)
    /\ \A groups : v \notin groups => GroupAt(lines, a, body, per, groups)
    /\ G \in Seq(Range(G)) /\ Len(G) = n
    /\ \E p : /\ p \in [1 .. n -> OfGroup(arr, group, v)]
              /\ \A j \in 1 .. n : G[j] = RecordRead(arr, key, group, p[j])
              /\ \A i, j \in 1 .. n : i < j => p[i] < p[j]
              /\ \A i \in OfGroup(arr, group, v) : \E j \in 1 .. n : p[j] = i

\* The line and the rows of group k are read as one more group.
LEMMA GroupRead ==
    ASSUME NEW lines, NEW arr, NEW key, NEW group, NEW at, Laid(lines, arr, key, group, at),
           Takes(arr, key, group), NEW k \in 1 .. Len(GroupValues(arr, group)),
           NEW v, v = GroupValues(arr, group)[k], NEW a, a = at[k - 1],
           NEW n, n = Size(arr, group, k),
           NEW body, body = Header(arr, key, group), NEW per, per = Bare(arr, key, group),
           NEW G, G = GroupRecords(lines, a, body, per)
    PROVE  GroupIsRead(lines, arr, key, group, at, k, v, a, n, body, per, G)
<1> DEFINE L == Len(GroupValues(arr, group))
           members == GroupMembers(arr, group, v)
<1>1. L \in Nat
  <2>1. GroupValues(arr, group) \in Seq(ToSet(GroupValues(arr, group)))
    BY ValuesAre DEF Takes
  <2> HIDE DEF Takes
  <2> QED
    BY <2>1
<1>2. /\ lines \in Seq(Range(lines))
      /\ at \in [0 .. L -> Nat]
      /\ at[0] = 2 /\ at[L] = Len(lines) + 1
      /\ n \in Nat
      /\ at[k] = a + n + 1
      /\ GroupLaid(lines, arr, key, group, k, a)
  BY DEF Laid
<1>3. n = Len(members)
  BY DEF Size
<1>4. /\ lines[a] = GroupLine(v, n, group)
      /\ \A j \in 1 .. n : lines[a + j] = MemberLine(members[j], per)
  <2>1. /\ lines[a] = GroupLine(v, Len(members), group)
        /\ \A j \in 1 .. Len(members) : lines[a + j] = MemberLine(members[j], per)
    BY <1>2 DEF GroupLaid
  <2> HIDE DEF members
  <2> QED
    BY <1>3, <2>1
<1>5. PICK p : PlacesOf(arr, OfGroup(arr, group, v), members, p)
  BY MembersAre DEF Takes
<1>6. /\ p \in [1 .. n -> OfGroup(arr, group, v)]
      /\ \A j \in 1 .. n : members[j] = arr[p[j]]
      /\ \A i, j \in 1 .. n : i < j => p[i] < p[j]
      /\ \A i \in OfGroup(arr, group, v) : \E j \in 1 .. n : p[j] = i
  BY <1>3, <1>5 DEF PlacesOf
<1>7. \A j \in 1 .. n : p[j] \in DOMAIN arr /\ GroupValue(arr[p[j]], group) = v
  <2>1. \A j \in 1 .. n : p[j] \in OfGroup(arr, group, v)
    BY <1>6
  <2> QED
    BY <2>1 DEF OfGroup
<1> HIDE DEF members
<1>8. /\ a \in 1 .. Len(lines)
      /\ a + n <= Len(lines)
      /\ a \in Nat
  <2>1. k \in 0 .. L /\ L \in 0 .. L /\ 0 \in 0 .. L /\ k - 1 \in 0 .. L /\ k <= L /\ 0 <= k - 1
    BY <1>1
  <2>2. PICK M, m \in 0 .. L : M = L /\ m = k - 1
    BY <2>1
  <2> HIDE DEF L
  <2>3. L = Len(GroupValues(arr, group))
    BY DEF L
  <2>4. at[k] + (L - k) <= at[L]
    BY <1>1, <2>1, <2>3, GroupsFit
  <2>5. 0 <= m
    BY <1>1, <2>1, <2>2
  <2>6. at[0] + (m - 0) <= at[m]
    BY <1>1, <2>1, <2>2, <2>3, <2>5, GroupsFit
  <2>7. at[k] \in Nat /\ at[m] \in Nat /\ at[L] \in Nat
    BY <1>2, <2>1
  <2>8. a = at[m]
    BY <2>2
  <2>9. Len(lines) \in Nat
    BY <1>2
  <2>10. m \in Nat /\ a \in Nat
    BY <1>1, <2>2, <2>7, <2>8
  <2>11. at[k] <= Len(lines) + 1
    <3>1. PICK x, y, z : x = at[k] /\ y = Len(lines) /\ z = L
      OBVIOUS
    <3>2. x \in Nat /\ y \in Nat /\ z \in Nat /\ k \in Nat /\ k <= z
      BY <1>1, <2>1, <2>7, <2>9, <3>1
    <3>3. x + (z - k) <= y + 1
      BY <1>2, <2>4, <3>1
    <3> QED
      BY <3>1, <3>2, <3>3
  <2>12. 2 <= a
    BY <1>2, <2>6, <2>8, <2>10
  <2> QED
    BY <1>2, <2>9, <2>10, <2>11, <2>12
<1>81. /\ lines \in Seq(Range(lines)) /\ a \in Nat /\ n \in Nat
       /\ a + n <= Len(lines)
  BY <1>2, <1>8
<1>9. \A j \in 1 .. n : /\ CellsOf(lines[a + j]) = RowCells(arr[p[j]], per)
                        /\ lines[a + j].lead.mark # "##"
                        /\ Len(CellsOf(lines[a + j])) = Len(per)
                        /\ \A c \in ToSet(CellsOf(lines[a + j])) : c.kind # "attached"
  <2> TAKE j \in 1 .. n
  <2>1. lines[a + j] = MemberLine(arr[p[j]], per)
    BY <1>4, <1>6
  <2>2. CellsOf(lines[a + j]) = RowCells(arr[p[j]], per) /\ lines[a + j].lead.mark # "##"
    BY <2>1, RowIs
  <2>3. /\ Len(RowCells(arr[p[j]], per)) = Len(per)
        /\ \A c \in ToSet(RowCells(arr[p[j]], per)) : c.kind # "attached"
    BY <1>7, MemberReads
  <2> QED
    BY <2>2, <2>3
<1>10. n > 0
  BY SomeMember DEF Takes
<1>11. GroupRows(lines, a + 1, a + n, Len(per))
  <2>1. ASSUME NEW i \in a + 1 .. a + n
        PROVE  /\ lines[i].lead.mark # "##"
               /\ Len(CellsOf(lines[i])) = Len(per)
               /\ \A c \in ToSet(CellsOf(lines[i])) : c.kind # "attached"
    <3>1. PICK j \in 1 .. n : i = a + j
      <4>1. i - a \in 1 .. n /\ i = a + (i - a)
        BY <1>81
      <4> QED
        BY <4>1
    <3> QED
      BY <1>9, <3>1
  <2> QED
    BY <1>8, <2>1 DEF GroupRows
<1>12. body.group = group
  BY HeaderIs
<1>23. Announces(lines[a], v, n, group)
  BY <1>4, GroupLineIs, Zenon
<1>13. /\ lines[a].body.form = "group" /\ lines[a].body.count = n /\ lines[a].body.value = v
       /\ lines[a].lead.depth = 0 /\ lines[a].lead.name = group
       /\ SpeltAs(lines[a]) = lines[a]
  BY <1>23 DEF Announces
<1>14. \A groups : v \notin groups => GroupAt(lines, a, body, per, groups)
  <2> TAKE groups
  <2> HAVE v \notin groups
  <2>1. lines[a].body.count > 0
    BY <1>10, <1>13
  <2>2. GroupRows(lines, a + 1, a + lines[a].body.count, Len(per))
    BY <1>11, <1>13
  <2> QED
    BY <1>12, <1>13, <2>1, <2>2 DEF GroupAt
<1>15. /\ G \in Seq(Range(G)) /\ Len(G) = n
       /\ \A j \in 1 .. n :
             G[j] = GroupRecord(body, lines[a].body.value, per, CellsOf(lines[a + j]))
  <2>1. RecordsOf(G, lines, a, n, body, per)
    <3>1. lines[a].body.count = n /\ SpeltAs(lines[a]) = lines[a]
      BY <1>13
    <3>2. G = GroupRecords(lines, a, body, per)
      OBVIOUS
    <3>3. lines \in Seq(Range(lines)) /\ a \in Nat /\ n \in Nat /\ a + n <= Len(lines)
      BY <1>81
    <3> QED
      BY <3>1, <3>2, <3>3, RecordsAre, Zenon
  <2> QED
    BY <2>1 DEF RecordsOf
<1>22. \A j \in 1 .. n : G[j] = RecordRead(arr, key, group, p[j])
  BY <1>7, <1>9, <1>13, <1>15 DEF RecordRead
<1>24. a \in 1 .. Len(lines) /\ n \in Nat /\ at[k] = a + n + 1
  BY <1>2, <1>8
<1> QED
  BY <1>6, <1>14, <1>15, <1>22, <1>23, <1>24 DEF GroupIsRead

-----------------------------------------------------------------------------
(* All the groups.                                                         *)

\* The number of each record's group.
Numbers(arr, group, which) ==
    /\ which \in [DOMAIN arr -> 1 .. Len(GroupValues(arr, group))]
    /\ \A i \in DOMAIN arr : GroupValues(arr, group)[which[i]] = GroupValue(arr[i], group)

\* The records of each group can be numbered.
LEMMA NumbersExist ==
    ASSUME NEW arr, arr \in Seq(Range(arr)), NEW group
    PROVE  \E which : Numbers(arr, group, which)
<1> DEFINE V == GroupValues(arr, group)
           g(i) == CHOOSE k \in 1 .. Len(V) : V[k] = GroupValue(arr[i], group)
           which == [i \in DOMAIN arr |-> g(i)]
<1>1. \A i \in DOMAIN arr : \E k \in 1 .. Len(V) : V[k] = GroupValue(arr[i], group)
  BY ValuesAre
<1> HIDE DEF V
<1>2. \A i \in DOMAIN arr : g(i) \in 1 .. Len(V) /\ V[g(i)] = GroupValue(arr[i], group)
  BY <1>1
<1> HIDE DEF g
<1>3. which \in [DOMAIN arr -> 1 .. Len(V)]
  BY <1>2
<1>4. \A i \in DOMAIN arr : V[which[i]] = GroupValue(arr[i], group)
  BY <1>2
<1> HIDE DEF which
<1> QED
  BY <1>3, <1>4 DEF Numbers, V

\* Record i comes before record j in the document.
Before(which, i, j) ==
    \/ which[i] < which[j]
    \/ /\ which[i] = which[j]
       /\ i < j

\* R has the records of the first k groups, those of arr at the places q.
GroupsRead(R, q, arr, key, group, which, k) ==
    /\ R \in Seq(Range(R))
    /\ q \in [1 .. Len(R) -> DOMAIN arr]
    /\ \A c \in 1 .. Len(R) : R[c] = RecordRead(arr, key, group, q[c])
    /\ \A c, d \in 1 .. Len(R) : c < d => Before(which, q[c], q[d])
    /\ \A i \in DOMAIN arr : which[i] <= k <=> \E c \in 1 .. Len(R) : q[c] = i

\* No record is read twice.
LEMMA ReadOnce ==
    ASSUME NEW arr, arr \in Seq(Range(arr)), NEW key, NEW group, NEW which, Numbers(arr, group, which),
           NEW k, NEW R, NEW q, GroupsRead(R, q, arr, key, group, which, k)
    PROVE  \A c, d \in 1 .. Len(R) : q[c] = q[d] => c = d
<1> SUFFICES ASSUME NEW c \in 1 .. Len(R), NEW d \in 1 .. Len(R), q[c] = q[d], c # d PROVE FALSE
  OBVIOUS
<1>1. c < d \/ d < c
  OBVIOUS
<1>2. Before(which, q[c], q[c])
  BY <1>1 DEF GroupsRead
<1>3. q[c] \in DOMAIN arr /\ which[q[c]] \in 1 .. Len(GroupValues(arr, group))
  BY DEF GroupsRead, Numbers
<1>4. q[c] \in Nat /\ which[q[c]] \in Nat
  BY <1>3
<1> QED
  BY <1>2, <1>4 DEF Before

\* The keys of the records read are unique, as they are before.
LEMMA KeysUnique ==
    ASSUME NEW arr, NEW key, NEW group, Takes(arr, key, group), NEW which,
           Numbers(arr, group, which),
           NEW k, NEW R, NEW q, GroupsRead(R, q, arr, key, group, which, k)
    PROVE  UniqueKeys(R, key)
<1>1. DOMAIN R = 1 .. Len(R)
  BY DEF GroupsRead
<1>2. \A c \in 1 .. Len(R) : q[c] \in DOMAIN arr /\ Get(R[c], key) = Get(arr[q[c]], key)
  BY RecordReadsBack DEF GroupsRead
<1>3. \A i \in DOMAIN arr : Get(arr[i], key) # Absent
  BY DEF Takes, Groupable
<1>4. \A i, j \in DOMAIN arr : Get(arr[i], key) = Get(arr[j], key) => i = j
  BY DEF Takes, Groupable
<1>5. \A c, d \in 1 .. Len(R) : q[c] = q[d] => c = d
  BY ReadOnce DEF Takes
<1> QED
  BY <1>1, <1>2, <1>3, <1>4, <1>5 DEF UniqueKeys

\* The places p after the m places q.
PlacesJoined(q, m, p, n) == [c \in 1 .. m + n |-> IF c <= m THEN q[c] ELSE p[c - m]]

\* One more group.
LEMMA MoreRead ==
    ASSUME NEW arr, arr \in Seq(Range(arr)), NEW key, NEW group, NEW which,
           Numbers(arr, group, which),
           NEW k \in 1 .. Len(GroupValues(arr, group)), NEW v, v = GroupValues(arr, group)[k],
           NEW R, NEW q, GroupsRead(R, q, arr, key, group, which, k - 1),
           NEW n \in Nat, NEW G, G \in Seq(Range(G)), Len(G) = n,
           NEW p, p \in [1 .. n -> OfGroup(arr, group, v)],
           \A j \in 1 .. n : G[j] = RecordRead(arr, key, group, p[j]),
           \A i, j \in 1 .. n : i < j => p[i] < p[j],
           \A i \in OfGroup(arr, group, v) : \E j \in 1 .. n : p[j] = i
    PROVE  GroupsRead(R \o G, PlacesJoined(q, Len(R), p, n), arr, key, group, which, k)
<1> DEFINE m == Len(R)
           w == R \o G
           r == PlacesJoined(q, m, p, n)
           T == Range(R) \cup Range(G)
<1>1. /\ R \in Seq(Range(R)) /\ m \in Nat
      /\ q \in [1 .. m -> DOMAIN arr]
      /\ \A c \in 1 .. m : R[c] = RecordRead(arr, key, group, q[c])
      /\ \A c, d \in 1 .. m : c < d => Before(which, q[c], q[d])
      /\ \A i \in DOMAIN arr : which[i] <= k - 1 <=> \E c \in 1 .. m : q[c] = i
  BY DEF GroupsRead
<1>2. R \in Seq(T) /\ G \in Seq(T)
  <2>1. Range(R) \in SUBSET T /\ Range(G) \in SUBSET T
    OBVIOUS
  <2> HIDE DEF T
  <2> QED
    BY <1>1, <2>1, SeqMonotonic
<1> HIDE DEF T
<1>3. Joins(w, R, G) /\ w \in Seq(T)
  BY <1>2, JoinIs
<1>4. w \in Seq(Range(w))
  <2> HIDE DEF w
  <2> QED
    BY <1>3, OfItsOwn
<1>5. r = [c \in 1 .. m + n |-> IF c <= m THEN q[c] ELSE p[c - m]]
  BY DEF PlacesJoined
<1> HIDE DEF w, r, m
<1>6. /\ Len(w) = m + n
      /\ \A c \in 1 .. m : w[c] = R[c]
      /\ \A c \in 1 .. n : w[m + c] = G[c]
  BY <1>3 DEF Joins, m
<1>7. \A c \in 1 .. m : c \in 1 .. m + n /\ r[c] = q[c]
  BY <1>1, <1>5
<1>8. \A c \in 1 .. n : m + c \in 1 .. m + n /\ r[m + c] = p[c]
  <2> TAKE c \in 1 .. n
  <2>1. m + c \in 1 .. m + n /\ ~(m + c <= m) /\ (m + c) - m = c
    BY <1>1
  <2> QED
    BY <1>5, <2>1
<1>9. \A c \in 1 .. m + n : \/ c \in 1 .. m
                            \/ \E e \in 1 .. n : c = m + e
  <2> TAKE c \in 1 .. m + n
  <2>1. CASE c <= m
    BY <1>1, <2>1
  <2>2. CASE ~(c <= m)
    <3>1. c - m \in 1 .. n /\ c = m + (c - m)
      BY <1>1, <2>2
    <3> QED
      BY <3>1
  <2> QED
    BY <2>1, <2>2
<1>10. \A i \in DOMAIN arr : i \in OfGroup(arr, group, v) <=> which[i] = k
  <2>1. \A a, b \in 1 .. Len(GroupValues(arr, group)) :
           GroupValues(arr, group)[a] = GroupValues(arr, group)[b] => a = b
    BY ValuesAre
  <2>2. \A i \in DOMAIN arr : /\ which[i] \in 1 .. Len(GroupValues(arr, group))
                              /\ GroupValues(arr, group)[which[i]] = GroupValue(arr[i], group)
    BY DEF Numbers
  <2> QED
    BY <2>1, <2>2 DEF OfGroup
<1>11. \A e \in 1 .. n : p[e] \in DOMAIN arr /\ which[p[e]] = k
  <2>1. \A e \in 1 .. n : p[e] \in OfGroup(arr, group, v)
    OBVIOUS
  <2> QED
    BY <1>10, <2>1 DEF OfGroup
<1>12. \A c \in 1 .. m : q[c] \in DOMAIN arr /\ which[q[c]] <= k - 1
  BY <1>1
<1>13. \A i \in DOMAIN arr : which[i] \in Nat /\ k \in Nat
  BY DEF Numbers
<1>14. r \in [1 .. m + n -> DOMAIN arr]
  <2>1. \A c \in 1 .. m : r[c] \in DOMAIN arr
    BY <1>7, <1>12
  <2>2. \A c \in 1 .. n : r[m + c] \in DOMAIN arr
    BY <1>8, <1>11
  <2>3. \A c \in 1 .. m + n : r[c] \in DOMAIN arr
    BY <1>9, <2>1, <2>2, Zenon
  <2>4. r = [c \in 1 .. m + n |-> r[c]]
    BY <1>5
  <2> QED
    BY <2>3, <2>4
<1>15. \A c \in 1 .. m + n : w[c] = RecordRead(arr, key, group, r[c])
  <2> TAKE c \in 1 .. m + n
  <2>1. CASE c \in 1 .. m
    <3>1. w[c] = R[c] /\ r[c] = q[c] /\ R[c] = RecordRead(arr, key, group, q[c])
      BY <1>1, <1>6, <1>7, <2>1
    <3> QED
      BY <3>1, Zenon
  <2>2. CASE \E e \in 1 .. n : c = m + e
    <3>1. PICK e \in 1 .. n : c = m + e
      BY <2>2
    <3>2. w[c] = G[e] /\ r[c] = p[e] /\ G[e] = RecordRead(arr, key, group, p[e])
      BY <1>6, <1>8, <3>1
    <3> QED
      BY <3>2, Zenon
  <2> QED
    BY <1>9, <2>1, <2>2
<1>16. ASSUME NEW c \in 1 .. m + n, NEW d \in 1 .. m + n, c < d PROVE Before(which, r[c], r[d])
  <2>1. CASE c \in 1 .. m /\ d \in 1 .. m
    BY <1>1, <1>7, <1>16, <2>1
  <2>2. CASE c \in 1 .. m /\ \E e \in 1 .. n : d = m + e
    <3>1. PICK e \in 1 .. n : d = m + e
      BY <2>2
    <3>2. r[c] = q[c] /\ r[d] = p[e]
      BY <1>7, <1>8, <2>2, <3>1
    <3>3. which[q[c]] < which[p[e]]
      <4>1. which[q[c]] <= k - 1 /\ which[q[c]] \in Nat /\ k \in Nat
        BY <1>12, <1>13, <2>2
      <4>2. which[p[e]] = k
        BY <1>11
      <4> QED
        BY <4>1, <4>2
    <3> QED
      BY <3>2, <3>3 DEF Before
  <2>3. CASE /\ \E e \in 1 .. n : c = m + e
             /\ \E e \in 1 .. n : d = m + e
    <3>1. PICK e \in 1 .. n : c = m + e
      BY <2>3
    <3>2. PICK f \in 1 .. n : d = m + f
      BY <2>3
    <3>3. e < f
      BY <1>1, <1>16, <3>1, <3>2
    <3>4. r[c] = p[e] /\ r[d] = p[f] /\ which[p[e]] = which[p[f]]
      BY <1>8, <1>11, <3>1, <3>2
    <3>5. p[e] < p[f]
      BY <3>3
    <3> QED
      BY <3>4, <3>5 DEF Before
  <2>4. ~(/\ \E e \in 1 .. n : c = m + e
          /\ d \in 1 .. m)
    BY <1>1, <1>16
  <2> QED
    BY <1>9, <2>1, <2>2, <2>3, <2>4
<1>17. ASSUME NEW i \in DOMAIN arr PROVE which[i] <= k <=> \E c \in 1 .. m + n : r[c] = i
  <2>1. which[i] <= k <=> which[i] <= k - 1 \/ which[i] = k
    BY <1>13
  <2>2. ASSUME which[i] <= k - 1 PROVE \E c \in 1 .. m + n : r[c] = i
    BY <1>1, <1>7, <2>2
  <2>3. ASSUME which[i] = k PROVE \E c \in 1 .. m + n : r[c] = i
    <3>1. PICK e \in 1 .. n : p[e] = i
      BY <1>10, <2>3
    <3> QED
      BY <1>8, <3>1
  <2>4. ASSUME NEW c \in 1 .. m + n, r[c] = i PROVE which[i] <= k
    <3>1. CASE c \in 1 .. m
      BY <1>7, <1>12, <2>1, <2>4, <3>1
    <3>2. CASE \E e \in 1 .. n : c = m + e
      BY <1>8, <1>11, <2>1, <2>4, <3>2
    <3> QED
      BY <1>9, <3>1, <3>2
  <2> QED
    BY <2>1, <2>2, <2>3, <2>4
<1> QED
  BY <1>4, <1>6, <1>14, <1>15, <1>16, <1>17 DEF GroupsRead, w, r, m

\* The header says which column has the key.
LEMMA KeyColumnIs ==
    ASSUME NEW arr, NEW key, NEW group, Takes(arr, key, group)
    PROVE  KeyColumn(Header(arr, key, group)) = key
<1> DEFINE F == tabularFields(arr)
           E == Header(arr, key, group).entries
<1>1. /\ DOMAIN E = 1 .. Len(F)
      /\ \A k \in 1 .. Len(F) : E[k].name = F[k] /\ (E[k].isKey <=> F[k] = key)
  BY EntriesAre
<1>2. F \in Seq(ToSet(F))
  BY FieldsAre DEF Takes
<1>3. PICK k \in 1 .. Len(F) : F[k] = key
  <2>1. key \in ToSet(F)
    BY DEF Takes, Groupable
  <2>2. DOMAIN F = 1 .. Len(F)
    BY <1>2
  <2> QED
    BY <2>1, <2>2 DEF ToSet
<1>4. KeyColumn(Header(arr, key, group)) = E[CHOOSE j \in DOMAIN E : E[j].isKey].name
  BY DEF KeyColumn
<1> HIDE DEF E, F
<1>5. PICK c : c = CHOOSE j \in DOMAIN E : E[j].isKey
  OBVIOUS
<1>6. c \in DOMAIN E /\ E[c].isKey
  BY <1>1, <1>3, <1>5
<1> QED
  BY <1>1, <1>4, <1>5, <1>6

\* The values of the first k groups.
ValuesUpTo(arr, group, k) == {GroupValues(arr, group)[m] : m \in 1 .. k}

\* The decoder has read the first k groups.
HasRead(s, arr, key, group, at, which, k) ==
    \E R, q : /\ s = Reading(TRUE, R, at[k], ValuesUpTo(arr, group, k))
              /\ GroupsRead(R, q, arr, key, group, which, k)

\* What one more turn of the loop does.
Turns(lines, body, per, R, next, groups, G) ==
    ReadGroup(lines, body, per, Reading(TRUE, R, next, groups))
      = Reading(TRUE, R \o G, next + lines[next].body.count + 1,
                groups \cup {lines[next].body.value})

\* A turn of the loop at a good group adds its records.
LEMMA TurnReads ==
    ASSUME NEW lines, NEW body, NEW per, NEW R, NEW next, NEW groups,
           next \in Nat, Len(lines) \in Nat, next <= Len(lines), lines[next].lead.mark # "##",
           SpeltAs(lines[next]) = lines[next], GroupAt(lines, next, body, per, groups),
           NEW G, G = GroupRecords(lines, next, body, per),
           UniqueKeys(R \o G, KeyColumn(body))
    PROVE  Turns(lines, body, per, R, next, groups, G)
<1> DEFINE s == Reading(TRUE, R, next, groups)
<1>1. s.ok = TRUE /\ s.val = R /\ s.next = next /\ s.groups = groups
  BY DEF Reading
<1> HIDE DEF s
<1>2. ~(~s.ok \/ s.next > Len(lines))
  <2>1. ~(next > Len(lines))
    OBVIOUS
  <2> QED
    BY <1>1, <2>1
<1>3. /\ GroupAt(lines, s.next, body, per, s.groups)
      /\ UniqueKeys(s.val \o GroupRecords(lines, s.next, body, per), KeyColumn(body))
  BY <1>1
<1>4. lines[s.next].lead.mark # "##" /\ SpeltAs(lines[s.next]) = lines[s.next]
  BY <1>1
<1>5. ReadGroup(lines, body, per, s)
        = Reading(TRUE, s.val \o GroupRecords(lines, s.next, body, per),
                  s.next + lines[s.next].body.count + 1, s.groups \cup {lines[s.next].body.value})
  BY <1>2, <1>3, <1>4 DEF ReadGroup
<1>6. ReadGroup(lines, body, per, s)
        = Reading(TRUE, R \o G, next + lines[next].body.count + 1,
                  groups \cup {lines[next].body.value})
  BY <1>1, <1>5
<1> QED
  BY <1>6 DEF s, Turns

\* Turn k of the loop reads group k.
LEMMA StepRead ==
    ASSUME NEW lines, NEW arr, NEW key, NEW group, NEW at, Laid(lines, arr, key, group, at),
           Takes(arr, key, group), NEW which, Numbers(arr, group, which),
           NEW k \in 1 .. Len(GroupValues(arr, group)),
           NEW s, HasRead(s, arr, key, group, at, which, k - 1)
    PROVE  HasRead(ReadGroup(lines, Header(arr, key, group), Bare(arr, key, group), s),
                   arr, key, group, at, which, k)
<1> DEFINE V == GroupValues(arr, group)
           v == V[k]
           a == at[k - 1]
           n == Size(arr, group, k)
           body == Header(arr, key, group)
           per == Bare(arr, key, group)
           G == GroupRecords(lines, a, body, per)
           groups == ValuesUpTo(arr, group, k - 1)
<1>1. PICK R, q : /\ s = Reading(TRUE, R, a, groups)
                  /\ GroupsRead(R, q, arr, key, group, which, k - 1)
  BY DEF HasRead
<1>2. GroupIsRead(lines, arr, key, group, at, k, v, a, n, body, per, G)
  BY GroupRead
<1>3. arr \in Seq(Range(arr))
  BY DEF Takes
<1>4. \A i, j \in 1 .. Len(V) : V[i] = V[j] => i = j
  BY <1>3, ValuesAre
<1>5. Len(V) \in Nat
  <2>1. V \in Seq(ToSet(V))
    BY <1>3, ValuesAre
  <2> HIDE DEF V
  <2> QED
    BY <2>1
<1>6. v \notin groups /\ ValuesUpTo(arr, group, k) = groups \cup {v}
  <2>1. \A m \in 1 .. k - 1 : m \in 1 .. Len(V) /\ m # k
    BY <1>5
  <2>2. \A m : m \in 1 .. k <=> m \in 1 .. k - 1 \/ m = k
    BY <1>5
  <2> QED
    BY <1>4, <2>1, <2>2 DEF ValuesUpTo
<1>7. KeyColumn(body) = key
  BY KeyColumnIs
<1> HIDE DEF v, a, n, body, per, G, groups
<1>8. /\ a \in 1 .. Len(lines) /\ n \in Nat /\ at[k] = a + n + 1
      /\ Announces(lines[a], v, n, group)
      /\ GroupAt(lines, a, body, per, groups)
      /\ G \in Seq(Range(G)) /\ Len(G) = n
  BY <1>2, <1>6 DEF GroupIsRead
<1>9. PICK p : /\ p \in [1 .. n -> OfGroup(arr, group, v)]
               /\ \A j \in 1 .. n : G[j] = RecordRead(arr, key, group, p[j])
               /\ \A i, j \in 1 .. n : i < j => p[i] < p[j]
               /\ \A i \in OfGroup(arr, group, v) : \E j \in 1 .. n : p[j] = i
  BY <1>2 DEF GroupIsRead
<1>10. GroupsRead(R \o G, PlacesJoined(q, Len(R), p, n), arr, key, group, which, k)
  <2>1. v = V[k]
    BY DEF v
  <2>2. n \in Nat /\ G \in Seq(Range(G)) /\ Len(G) = n
    BY <1>8
  <2> QED
    BY <1>1, <1>3, <1>9, <2>1, <2>2, MoreRead
<1>11. UniqueKeys(R \o G, KeyColumn(body))
  <2>1. UniqueKeys(R \o G, key)
    BY <1>10, KeysUnique
  <2> QED
    BY <1>7, <2>1
<1>12. /\ lines[a].lead.mark # "##" /\ lines[a].body.count = n /\ lines[a].body.value = v
       /\ SpeltAs(lines[a]) = lines[a]
  BY <1>8 DEF Announces
<1>13. a <= Len(lines)
  BY <1>8
<1>14. ReadGroup(lines, body, per, Reading(TRUE, R, a, groups))
         = Reading(TRUE, R \o G, a + lines[a].body.count + 1, groups \cup {lines[a].body.value})
  <2>1. G = GroupRecords(lines, a, body, per)
    BY DEF G
  <2>2. /\ GroupAt(lines, a, body, per, groups) /\ lines[a].lead.mark # "##"
        /\ SpeltAs(lines[a]) = lines[a]
    BY <1>8, <1>12
  <2>3. a \in Nat /\ Len(lines) \in Nat
    <3>1. lines \in Seq(Range(lines))
      BY DEF Laid
    <3>2. Len(lines) \in Nat
      BY <3>1
    <3> QED
      BY <1>8, <3>2
  <2>4. Turns(lines, body, per, R, a, groups, G)
    BY <1>11, <1>13, <2>1, <2>2, <2>3, TurnReads, Zenon
  <2> QED
    BY <2>4 DEF Turns
<1>15. ReadGroup(lines, body, per, s) = Reading(TRUE, R \o G, at[k], ValuesUpTo(arr, group, k))
  <2>1. a + lines[a].body.count + 1 = at[k]
    BY <1>8, <1>12
  <2>2. groups \cup {lines[a].body.value} = ValuesUpTo(arr, group, k)
    BY <1>6, <1>12
  <2> QED
    BY <1>1, <1>14, <2>1, <2>2
<1> QED
  BY <1>10, <1>15 DEF HasRead, body, per

\* All the groups are read, and the document is at its end.
LEMMA AllRead ==
    ASSUME NEW lines, NEW arr, NEW key, NEW group, NEW at, Laid(lines, arr, key, group, at),
           Takes(arr, key, group), NEW which, Numbers(arr, group, which)
    PROVE  \E R, q :
              /\ decodeGroups(lines, 2, Header(arr, key, group), Bare(arr, key, group))
                   = Reading(TRUE, R, Len(lines) + 1, ValuesUpTo(arr, group, Len(GroupValues(arr, group))))
              /\ GroupsRead(R, q, arr, key, group, which, Len(GroupValues(arr, group)))
<1> DEFINE L == Len(GroupValues(arr, group))
           body == Header(arr, key, group)
           per == Bare(arr, key, group)
<1>1. L \in Nat
  <2>1. GroupValues(arr, group) \in Seq(ToSet(GroupValues(arr, group)))
    BY ValuesAre DEF Takes
  <2> QED
    BY <2>1
<1>2. /\ lines \in Seq(Range(lines))
      /\ at \in [0 .. L -> Nat]
      /\ at[0] = 2 /\ at[L] = Len(lines) + 1
  BY DEF Laid
<1>3. PICK a : /\ DecodedUpTo(lines, 2, body, per, Len(lines), a)
               /\ decodeGroups(lines, 2, body, per) = a[Len(lines)]
  BY <1>2, DecodesExist
<1>4. Len(lines) \in Nat
  BY <1>2
<1>5. L <= Len(lines)
  <2>1. L = Len(GroupValues(arr, group))
    OBVIOUS
  <2> HIDE DEF L
  <2>2. PICK o \in 0 .. L : o = 0
    BY <1>1
  <2>3. L \in 0 .. L /\ o <= L
    BY <1>1, <2>2
  <2>4. at[o] + (L - o) <= at[L]
    BY <1>1, <2>1, <2>3, GroupsFit
  <2> QED
    BY <1>1, <1>2, <1>4, <2>2, <2>4
<1> DEFINE read(k) == HasRead(a[k], arr, key, group, at, which, k)
           N == {k \in Nat : k <= L => read(k)}
<1>6. 0 \in N
  <2>1. a[0] = Reading(TRUE, << >>, 2, {})
    BY <1>3 DEF DecodedUpTo
  <2>2. ValuesUpTo(arr, group, 0) = {}
    BY DEF ValuesUpTo
  <2> DEFINE q == [c \in 1 .. 0 |-> c]
  <2>3. q \in [1 .. 0 -> DOMAIN arr]
    OBVIOUS
  <2>4. << >> \in Seq(Range(<< >>)) /\ Len(<< >>) = 0 /\ 1 .. 0 = {}
    OBVIOUS
  <2>5. \A i \in DOMAIN arr : ~(which[i] <= 0)
    BY <1>1 DEF Numbers
  <2> HIDE DEF q
  <2>6. GroupsRead(<< >>, q, arr, key, group, which, 0)
    BY <2>3, <2>4, <2>5 DEF GroupsRead
  <2> HIDE DEF L, body, per
  <2>7. read(0)
    BY <1>2, <2>1, <2>2, <2>6 DEF HasRead
  <2> QED
    BY <2>7
<1>7. ASSUME NEW k \in N PROVE k + 1 \in N
  <2>1. k \in Nat /\ k + 1 \in Nat
    OBVIOUS
  <2> SUFFICES ASSUME k + 1 <= L PROVE read(k + 1)
    BY <2>1
  <2>2. read(k)
    <3>1. k <= L
      BY <1>1, <2>1
    <3> HIDE DEF read
    <3> QED
      BY <3>1
  <2>3. PICK l \in 1 .. L : l = k + 1 /\ l - 1 = k
    BY <1>1, <2>1
  <2>4. a[l] = ReadGroup(lines, body, per, a[l - 1])
    <3>1. l \in 1 .. Len(lines)
      BY <1>1, <1>4, <1>5, <2>3
    <3> QED
      BY <1>3, <3>1 DEF DecodedUpTo
  <2>5. HasRead(a[l - 1], arr, key, group, at, which, l - 1)
    BY <2>2, <2>3
  <2>6. HasRead(ReadGroup(lines, body, per, a[l - 1]), arr, key, group, at, which, l)
    BY <2>5, StepRead
  <2>7. HasRead(a[l], arr, key, group, at, which, l)
    BY <2>4, <2>6
  <2> HIDE DEF body, per, L
  <2> QED
    BY <2>3, <2>7
<1>8. N \in SUBSET Nat
  OBVIOUS
<1>9. read(L)
  <2>1. \A k \in Nat : k \in N
    <3> HIDE DEF N
    <3> QED
      BY <1>6, <1>7, <1>8, Induct
  <2>2. L \in N
    BY <1>1, <2>1
  <2> HIDE DEF read, L
  <2> QED
    BY <1>1, <2>2
<1>10. PICK R, q : /\ a[L] = Reading(TRUE, R, at[L], ValuesUpTo(arr, group, L))
                   /\ GroupsRead(R, q, arr, key, group, which, L)
  BY <1>9 DEF HasRead
<1> HIDE DEF L, body, per, N, read
<1>11. a[L].next > Len(lines)
  <2>1. a[L].next = Len(lines) + 1
    <3>1. a[L].next = at[L]
      BY <1>10 DEF Reading
    <3> QED
      BY <1>2, <3>1
  <2> QED
    BY <1>4, <2>1
<1>12. L \in 0 .. Len(lines)
  BY <1>1, <1>4, <1>5
<1>13. a[Len(lines)] = a[L]
  BY <1>2, <1>3, <1>11, <1>12, DecodedStays
<1>14. decodeGroups(lines, 2, body, per) = Reading(TRUE, R, Len(lines) + 1, ValuesUpTo(arr, group, L))
  BY <1>2, <1>3, <1>10, <1>13
<1> QED
  BY <1>10, <1>14 DEF L, body, per

\* All the records are read: as many as there were.
CountsAll(R, q, arr) ==
    /\ Len(R) = Len(arr)
    /\ \A i \in DOMAIN arr : \E c \in 1 .. Len(R) : q[c] = i

\* The groups have all the records, each once.
LEMMA AllCounted ==
    ASSUME NEW arr, arr \in Seq(Range(arr)), NEW key, NEW group, NEW which,
           Numbers(arr, group, which), NEW R, NEW q,
           GroupsRead(R, q, arr, key, group, which, Len(GroupValues(arr, group)))
    PROVE  CountsAll(R, q, arr)
<1> DEFINE n == Len(R)
           m == Len(arr)
           L == Len(GroupValues(arr, group))
<1>1. \A c, d \in 1 .. n : q[c] = q[d] => c = d
  BY ReadOnce
<1>2. /\ R \in Seq(Range(R))
      /\ q \in [1 .. n -> DOMAIN arr]
      /\ \A i \in DOMAIN arr : which[i] <= L => \E c \in 1 .. n : q[c] = i
  BY DEF GroupsRead
<1>3. DOMAIN arr = 1 .. m /\ m \in Nat /\ n \in Nat
  BY <1>2
<1>4. L \in Nat
  <2>1. GroupValues(arr, group) \in Seq(ToSet(GroupValues(arr, group)))
    BY ValuesAre
  <2> QED
    BY <2>1
<1>5. \A i \in DOMAIN arr : which[i] <= L
  <2>1. \A i \in DOMAIN arr : which[i] \in 1 .. L
    BY DEF Numbers
  <2> HIDE DEF L
  <2> QED
    BY <1>4, <2>1
<1> HIDE DEF n, m, L
<1>6. \A i \in DOMAIN arr : \E c \in 1 .. n : q[c] = i
  BY <1>2, <1>5
<1>7. q \in Bijection(1 .. n, 1 .. m)
  <2>1. q \in [1 .. n -> 1 .. m]
    <3>1. q \in [1 .. n -> DOMAIN arr]
      BY <1>2
    <3>2. DOMAIN arr = 1 .. m
      BY <1>3
    <3> QED
      BY <3>1, <3>2, Zenon
  <2>2. q \in Injection(1 .. n, 1 .. m)
    <3>1. \A c, d \in 1 .. n : q[c] = q[d] => c = d
      BY <1>1 DEF n
    <3> QED
      BY <2>1, <3>1 DEF Injection, IsInjective
  <2>3. q \in Surjection(1 .. n, 1 .. m)
    BY <1>3, <1>6, <2>1 DEF Surjection
  <2> QED
    BY <2>2, <2>3 DEF Bijection
<1>8. ExistsBijection(1 .. n, 1 .. m)
  BY <1>7 DEF ExistsBijection
<1>9. Cardinality(1 .. m) = n
  BY <1>3, <1>8, FS_CountingElements
<1>10. Cardinality(1 .. m) = IF 1 > m THEN 0 ELSE m - 1 + 1
  <2>1. 1 \in Int /\ m \in Int
    BY <1>3
  <2> QED
    BY <2>1, FS_Interval, Zenon
<1>11. n = m
  BY <1>3, <1>9, <1>10
<1> QED
  BY <1>6, <1>11 DEF CountsAll, n, m

\* What is read are the records in groups.
LEMMA GroupedRecords ==
    ASSUME NEW arr, NEW key, NEW group, Takes(arr, key, group), NEW which,
           Numbers(arr, group, which), NEW R, NEW q,
           GroupsRead(R, q, arr, key, group, which, Len(GroupValues(arr, group))),
           NEW r, r.ok, r.val.items = R
    PROVE  RowsInGroups(r, arr, group)
<1> DEFINE place(i) == CHOOSE c \in 1 .. Len(R) : q[c] = i
           at == [i \in DOMAIN arr |-> place(i)]
<1>1. arr \in Seq(Range(arr)) /\ DOMAIN arr = 1 .. Len(arr)
  BY DEF Takes
<1>2. Len(R) = Len(arr) /\ \A i \in DOMAIN arr : \E c \in 1 .. Len(R) : q[c] = i
  <2>1. CountsAll(R, q, arr)
    BY <1>1, AllCounted
  <2> QED
    BY <2>1 DEF CountsAll
<1>3. \A i \in DOMAIN arr : place(i) \in 1 .. Len(R) /\ q[place(i)] = i
  BY <1>2
<1> HIDE DEF place
<1>4. at \in [DOMAIN arr -> DOMAIN arr]
  BY <1>1, <1>2, <1>3
<1>5. \A i \in DOMAIN arr : at[i] \in 1 .. Len(R) /\ q[at[i]] = i
  BY <1>3
<1> HIDE DEF at
<1>6. /\ \A c \in 1 .. Len(R) : R[c] = RecordRead(arr, key, group, q[c])
      /\ \A c, d \in 1 .. Len(R) : c < d => Before(which, q[c], q[d])
  BY DEF GroupsRead
<1>7. \A i \in DOMAIN arr : SameRecord(R[at[i]], InItsGroup(arr[i], group))
  <2> TAKE i \in DOMAIN arr
  <2>1. R[at[i]] = RecordRead(arr, key, group, i)
    BY <1>5, <1>6
  <2> QED
    BY <2>1, RecordReadsBack
<1>8. \A i, j \in DOMAIN arr : at[i] = at[j] => i = j
  BY <1>5
<1>9. \A i \in DOMAIN arr : which[i] \in Nat /\ i \in Nat /\ at[i] \in Nat
  <2>1. \A i \in DOMAIN arr : which[i] \in 1 .. Len(GroupValues(arr, group))
    BY DEF Numbers
  <2> QED
    BY <1>1, <1>5, <2>1
<1>10. \A i, j \in DOMAIN arr :
          GroupValue(arr[i], group) = GroupValue(arr[j], group) <=> which[i] = which[j]
  <2>1. \A a, b \in 1 .. Len(GroupValues(arr, group)) :
           GroupValues(arr, group)[a] = GroupValues(arr, group)[b] => a = b
    BY <1>1, ValuesAre
  <2>2. \A i \in DOMAIN arr : /\ which[i] \in 1 .. Len(GroupValues(arr, group))
                              /\ GroupValues(arr, group)[which[i]] = GroupValue(arr[i], group)
    BY DEF Numbers
  <2> QED
    BY <2>1, <2>2
<1>11. \A i, j \in DOMAIN arr : at[i] < at[j] => Before(which, i, j)
  <2> TAKE i \in DOMAIN arr, j \in DOMAIN arr
  <2> HAVE at[i] < at[j]
  <2>1. Before(which, q[at[i]], q[at[j]])
    BY <1>5, <1>6
  <2> QED
    BY <1>5, <2>1
<1>12. ASSUME NEW i \in DOMAIN arr, NEW j \in DOMAIN arr, which[i] = which[j], i < j
       PROVE  at[i] < at[j]
  <2>1. at[i] # at[j]
    BY <1>8, <1>9, <1>12
  <2>2. ~(at[j] < at[i])
    <3>1. ~Before(which, j, i)
      BY <1>9, <1>12 DEF Before
    <3> QED
      BY <1>11, <3>1
  <2> QED
    BY <1>9, <2>1, <2>2
<1>13. ASSUME NEW i \in DOMAIN arr, NEW j \in DOMAIN arr, which[i] = which[j],
              NEW k \in DOMAIN arr, at[k] \in at[i] .. at[j]
       PROVE  which[k] = which[i]
  <2>1. at[i] <= at[k] /\ at[k] <= at[j]
    BY <1>9, <1>13
  <2>2. which[i] <= which[k]
    <3>1. at[i] = at[k] \/ at[i] < at[k]
      BY <1>9, <2>1
    <3>2. CASE at[i] = at[k]
      BY <1>8, <1>9, <3>2
    <3>3. CASE at[i] < at[k]
      BY <1>9, <1>11, <3>3 DEF Before
    <3> QED
      BY <3>1, <3>2, <3>3
  <2>3. which[k] <= which[j]
    <3>1. at[k] = at[j] \/ at[k] < at[j]
      BY <1>9, <2>1
    <3>2. CASE at[k] = at[j]
      BY <1>8, <1>9, <3>2
    <3>3. CASE at[k] < at[j]
      BY <1>9, <1>11, <3>3 DEF Before
    <3> QED
      BY <3>1, <3>2, <3>3
  <2> QED
    BY <1>9, <1>13, <2>2, <2>3
<1>14. \A i, j \in DOMAIN arr :
          GroupValue(arr[i], group) = GroupValue(arr[j], group) =>
             /\ i < j => at[i] < at[j]
             /\ \A k \in DOMAIN arr : at[k] \in at[i] .. at[j] =>
                   GroupValue(arr[k], group) = GroupValue(arr[i], group)
  BY <1>10, <1>12, <1>13
<1>15. r.ok /\ Len(r.val.items) = Len(arr)
  BY <1>2
<1>16. \A i \in DOMAIN arr : SameRecord(r.val.items[at[i]], InItsGroup(arr[i], group))
  BY <1>7
<1> QED
  BY <1>4, <1>8, <1>14, <1>15, <1>16 DEF RowsInGroups

-----------------------------------------------------------------------------
(* The whole document.                                                     *)

\* The decoder accepts the header.
LEMMA HeaderAccepted ==
    ASSUME NEW arr, NEW key, NEW group, Takes(arr, key, group),
           NEW body, body = Header(arr, key, group)
    PROVE  /\ \E k \in DOMAIN body.entries :
                 \A j \in DOMAIN body.entries : body.entries[j].isKey <=> j = k
           /\ \E k \in DOMAIN body.entries : /\ body.entries[k].name = body.group
                                             /\ ~body.entries[k].isKey
                                             /\ body.entries[k].const = Absent
<1> DEFINE F == tabularFields(arr)
           E == body.entries
<1>1. /\ DOMAIN E = 1 .. Len(F)
      /\ \A k \in 1 .. Len(F) : /\ E[k].name = F[k]
                                /\ E[k].isKey <=> F[k] = key
                                /\ E[k].const = Absent <=> F[k] \notin Constants(arr, key, group)
  BY EntriesAre
<1>2. F \in Seq(ToSet(F)) /\ \A j, k \in 1 .. Len(F) : F[j] = F[k] => j = k
  BY FieldsAre DEF Takes
<1>3. key \in ToSet(F) /\ group \in ToSet(F) /\ key # group
  BY DEF Takes, Groupable
<1>4. body.group = group
  BY HeaderIs
<1>5. group \notin Constants(arr, key, group)
  BY ConstantsAre
<1> HIDE DEF E, F
<1>6. DOMAIN F = 1 .. Len(F)
  BY <1>2
<1>7. PICK k \in 1 .. Len(F) : F[k] = key
  BY <1>3, <1>6 DEF ToSet
<1>8. PICK g \in 1 .. Len(F) : F[g] = group
  BY <1>3, <1>6 DEF ToSet
<1>9. \A j \in DOMAIN E : E[j].isKey <=> j = k
  BY <1>1, <1>2, <1>7
<1>10. E[g].name = body.group /\ ~E[g].isKey /\ E[g].const = Absent
  BY <1>1, <1>3, <1>4, <1>5, <1>8
<1>11. \E i \in DOMAIN E : \A j \in DOMAIN E : E[j].isKey <=> j = i
  BY <1>1, <1>7, <1>9
<1>12. \E i \in DOMAIN E : E[i].name = body.group /\ ~E[i].isKey /\ E[i].const = Absent
  BY <1>1, <1>8, <1>10
<1> QED
  BY <1>11, <1>12 DEF E

\* The reader takes the document for a grouped array and reads it whole.
LEMMA ArrayIsGrouped ==
    ASSUME NEW arr, NEW key, NEW group, Takes(arr, key, group), group # << >>
    PROVE  /\ IsGrouped(EncodeGenericGrouped(arr, key, group))
           /\ RowsInGroups(DecodeGrouped(EncodeGenericGrouped(arr, key, group)), arr, group)
<1> DEFINE lines == EncodeGenericGrouped(arr, key, group)
           body == Header(arr, key, group)
           per == Bare(arr, key, group)
           L == Len(GroupValues(arr, group))
<1>1. arr \in Seq(Range(arr))
  BY DEF Takes
<1>2. PICK at : Laid(lines, arr, key, group, at)
  BY <1>1, LinesLaid
<1>3. PICK which : Numbers(arr, group, which)
  BY <1>1, NumbersExist
<1>4. PICK R, q :
         /\ decodeGroups(lines, 2, body, per) = Reading(TRUE, R, Len(lines) + 1, ValuesUpTo(arr, group, L))
         /\ GroupsRead(R, q, arr, key, group, which, L)
  BY <1>2, <1>3, AllRead
<1>5. lines = <<Line(RootLead, body)>> \o FlattenSeq(Clusters(arr, key, group))
  BY DocumentIs
<1>6. lines \in Seq(Range(lines)) /\ lines[1] = Line(RootLead, body) /\ at[0] = 2 /\ at[L] = Len(lines) + 1
  BY <1>2 DEF Laid
<1>7. body.form = "table" /\ body.count = Len(arr) /\ body.group = group
  BY HeaderIs
<1>8. PerRecordNames(body) = per
  BY NamesRead
<1>9. /\ \E k \in DOMAIN body.entries :
            \A j \in DOMAIN body.entries : body.entries[j].isKey <=> j = k
      /\ \E k \in DOMAIN body.entries : /\ body.entries[k].name = body.group
                                        /\ ~body.entries[k].isKey
                                        /\ body.entries[k].const = Absent
  BY HeaderAccepted
<1> DEFINE r == Parsed(Array(R), Len(lines) + 1)
<1>10. Len(R) = Len(arr)
  <2>1. CountsAll(R, q, arr)
    BY <1>1, <1>3, <1>4, AllCounted
  <2> QED
    BY <2>1 DEF CountsAll
<1> HIDE DEF lines, body, per, L
<1>11. lines[1].lead = RootLead /\ lines[1].body = body
  BY <1>6 DEF Line
<1>12. Len(lines) \in Nat
  BY <1>6
<1>13. lines # << >>
  <2>1. at \in [0 .. L -> Nat] /\ L \in Nat
    <3>1. GroupValues(arr, group) \in Seq(ToSet(GroupValues(arr, group)))
      BY <1>1, ValuesAre
    <3>2. L \in Nat
      BY <3>1 DEF L
    <3> QED
      BY <1>2, <3>2 DEF Laid, L
  <2>2. PICK o \in 0 .. L : o = 0 /\ o <= L /\ L \in 0 .. L
    BY <2>1
  <2>3. L = Len(GroupValues(arr, group))
    BY DEF L
  <2>4. at[o] + (L - o) <= at[L]
    BY <1>2, <2>1, <2>2, <2>3, GroupsFit
  <2>5. Len(lines) > 0
    BY <1>6, <1>12, <2>1, <2>2, <2>4
  <2> QED
    BY <2>5
<1>14. IsGrouped(lines)
  BY <1>7, <1>11, <1>13 DEF IsGrouped, NoGroup
<1>15. decodeGroupedArray(lines, 1, body) = Counted(decodeGroups(lines, 1 + 1, body, per), body.count)
  BY <1>8, <1>9 DEF decodeGroupedArray
<1>16. decodeGroupedArray(lines, 1, body) = r
  <2>1. 1 + 1 = 2
    OBVIOUS
  <2>2. PICK d : d = decodeGroups(lines, 2, body, per)
    OBVIOUS
  <2>3. d.ok /\ d.val = R /\ d.next = Len(lines) + 1
    BY <1>4, <2>2 DEF Reading
  <2>4. Counted(d, body.count) = r
    BY <1>7, <1>10, <2>3 DEF Counted
  <2> QED
    BY <1>15, <2>1, <2>2, <2>4
<1>17. r.next = Len(lines) + 1 /\ r.ok /\ r.val = Array(R)
  BY DEF Parsed
<1>18. AtEnd(r, Len(lines)) = r
  BY <1>12, <1>17 DEF AtEnd
<1>19. DecodeGrouped(lines) = r
  BY <1>11, <1>16, <1>18 DEF DecodeGrouped
<1>20. r.val.items = R
  BY <1>17 DEF Array
<1> HIDE DEF r
<1>21. RowsInGroups(r, arr, group)
  BY <1>3, <1>4, <1>17, <1>20, GroupedRecords DEF L
<1> QED
  BY <1>14, <1>19, <1>21 DEF lines

-----------------------------------------------------------------------------
(* Lines lost and doubled.                                                 *)

\* Neither a header nor what passes for a group's line.
IsRow(l) == l.lead.mark # "##" /\ SpeltAs(l).body.form # "group"

\* The line of a member is a row, unless it is spelt like a group's.
LEMMA MemberIsRow ==
    ASSUME NEW o, NEW per, SpeltAs(MemberLine(o, per)) = MemberLine(o, per)
    PROVE  IsRow(MemberLine(o, per))
<1>1. NoLead(0).mark = "" /\ CellsBody(RowCells(o, per)).form = "cells"
  BY DEF NoLead, CellsBody
<1>2. /\ MemberLine(o, per).lead = NoLead(0)
      /\ MemberLine(o, per).body = CellsBody(RowCells(o, per))
  BY DEF MemberLine, Line, RowCells
<1> QED
  BY <1>1, <1>2 DEF IsRow

\* Where the loop is after a turn at a line that is no header, if it goes on.
LEMMA TurnGoesOn ==
    ASSUME NEW lines, NEW body, NEW per, NEW s, s.ok, s.next \in Nat, Len(lines) \in Nat,
           s.next <= Len(lines), lines[s.next].lead.mark # "##",
           ReadGroup(lines, body, per, s).ok
    PROVE  /\ GroupAt(lines, s.next, body, per, s.groups)
           /\ ReadGroup(lines, body, per, s).next
                = s.next + SpeltAs(lines[s.next]).body.count + 1
<1>1. ~(~s.ok \/ s.next > Len(lines))
  OBVIOUS
<1> DEFINE good == /\ GroupAt(lines, s.next, body, per, s.groups)
                   /\ UniqueKeys(s.val \o GroupRecords(lines, s.next, body, per), KeyColumn(body))
           more == Reading(TRUE, s.val \o GroupRecords(lines, s.next, body, per),
                           s.next + SpeltAs(lines[s.next]).body.count + 1,
                           s.groups \cup {SpeltAs(lines[s.next]).body.value})
           stop == Reading(FALSE, s.val, s.next, s.groups)
<1>2. ReadGroup(lines, body, per, s) = IF good THEN more ELSE stop
  BY <1>1 DEF ReadGroup
<1>3. ~stop.ok /\ more.next = s.next + SpeltAs(lines[s.next]).body.count + 1
  BY DEF Reading
<1>4. good => GroupAt(lines, s.next, body, per, s.groups)
  OBVIOUS
<1> HIDE DEF good, more, stop
<1> QED
  BY <1>2, <1>3, <1>4

\* It stops at a row.
LEMMA StopsAtRow ==
    ASSUME NEW lines, NEW body, NEW per, NEW s, s.ok, s.next \in Nat, Len(lines) \in Nat,
           s.next <= Len(lines), IsRow(lines[s.next])
    PROVE  ~ReadGroup(lines, body, per, s).ok
<1> SUFFICES ASSUME ReadGroup(lines, body, per, s).ok PROVE FALSE
  OBVIOUS
<1>1. lines[s.next].lead.mark # "##" /\ SpeltAs(lines[s.next]).body.form # "group"
  BY DEF IsRow
<1>2. GroupAt(lines, s.next, body, per, s.groups)
  BY <1>1, TurnGoesOn
<1> QED
  BY <1>1, <1>2 DEF GroupAt

\* After an error a turn changes nothing.
LEMMA NoTurn ==
    ASSUME NEW lines, NEW body, NEW per, NEW s, ~s.ok
    PROVE  ReadGroup(lines, body, per, s) = s
BY Zenon DEF ReadGroup

\* An error is the last word.
LEMMA ErrorStays ==
    ASSUME NEW lines, lines \in Seq(Range(lines)), NEW i, NEW body, NEW per, NEW a,
           DecodedUpTo(lines, i, body, per, Len(lines), a),
           NEW n \in 0 .. Len(lines), ~a[n].ok
    PROVE  ~a[Len(lines)].ok
<1> DEFINE N == {m \in Nat : \A l \in 0 .. Len(lines) : l = n + m => ~a[l].ok}
<1>1. Len(lines) \in Nat
  OBVIOUS
<1>2. 0 \in N
  OBVIOUS
<1>3. ASSUME NEW m \in N PROVE m + 1 \in N
  <2> SUFFICES ASSUME NEW l \in 0 .. Len(lines), l = n + (m + 1) PROVE ~a[l].ok
    OBVIOUS
  <2>1. l \in 1 .. Len(lines) /\ l - 1 \in 0 .. Len(lines) /\ l - 1 = n + m
    BY <1>1
  <2>2. ~a[l - 1].ok
    BY <2>1
  <2>3. a[l] = ReadGroup(lines, body, per, a[l - 1])
    BY <2>1 DEF DecodedUpTo
  <2> HIDE DEF N
  <2>4. a[l] = a[l - 1]
    BY <2>2, <2>3, NoTurn
  <2> QED
    BY <2>2, <2>4
<1>4. N \in SUBSET Nat
  OBVIOUS
<1>5. \A m \in Nat : m \in N
  <2> HIDE DEF N
  <2> QED
    BY <1>2, <1>3, <1>4, Induct
<1>6. PICK m \in Nat : Len(lines) = n + m
  <2>1. Len(lines) - n \in Nat /\ Len(lines) = n + (Len(lines) - n)
    BY <1>1
  <2> QED
    BY <2>1
<1>7. m \in N /\ Len(lines) \in 0 .. Len(lines)
  BY <1>1, <1>5
<1> QED
  BY <1>6, <1>7

\* D begins like lines, up to line a - 1.
BeginsLike(D, lines, a) ==
    /\ D \in Seq(Range(D))
    /\ a - 1 <= Len(D)
    /\ \A i \in 1 .. a - 1 : D[i] = lines[i]

\* The k-th group's line says its value and how many records it has.
LEMMA GroupSays ==
    ASSUME NEW lines, NEW arr, NEW key, NEW group, NEW at, Laid(lines, arr, key, group, at),
           NEW k \in 1 .. Len(GroupValues(arr, group))
    PROVE  /\ lines[at[k - 1]].lead.mark # "##"
           /\ lines[at[k - 1]].body.count = Size(arr, group, k)
           /\ SpeltAs(lines[at[k - 1]]) = lines[at[k - 1]]
<1> DEFINE v == GroupValues(arr, group)[k]
           n == Size(arr, group, k)
           a == at[k - 1]
<1>1. GroupLaid(lines, arr, key, group, k, a)
  BY DEF Laid
<1>2. lines[a] = GroupLine(v, n, group)
  BY <1>1 DEF GroupLaid, Size
<1> HIDE DEF v, n, a
<1>3. Announces(lines[a], v, n, group)
  BY <1>2, GroupLineIs
<1>4. lines[a].lead.mark # "##" /\ lines[a].body.count = n /\ SpeltAs(lines[a]) = lines[a]
  BY <1>3 DEF Announces
<1> QED
  BY <1>4 DEF n, a

\* As long as the lines are as they should be, the loop is where it should be.
LEMMA InStepSoFar ==
    ASSUME NEW lines, NEW arr, NEW key, NEW group, NEW at, Laid(lines, arr, key, group, at),
           NEW L \in Nat, L = Len(GroupValues(arr, group)), NEW k \in 0 .. L - 1,
           NEW D, BeginsLike(D, lines, at[k]),
           NEW body, NEW per, NEW b, DecodedUpTo(D, 2, body, per, Len(D), b)
    PROVE  k + 1 <= Len(D) /\ (b[k].ok => b[k].next = at[k])
<1>1. /\ at \in [0 .. L -> Nat] /\ at[0] = 2
      /\ \A l \in 1 .. L : /\ Size(arr, group, l) \in Nat
                           /\ at[l] = at[l - 1] + Size(arr, group, l) + 1
  BY DEF Laid
<1>2. /\ D \in Seq(Range(D)) /\ at[k] - 1 <= Len(D)
      /\ \A i \in 1 .. at[k] - 1 : D[i] = lines[i]
  BY DEF BeginsLike
<1>3. Len(D) \in Nat
  BY <1>2
<1>4. k \in 0 .. L /\ at[k] \in Nat
  BY <1>1
<1>5. \A l \in 0 .. k : at[l] + (k - l) <= at[k]
  <2> TAKE l \in 0 .. k
  <2>1. l \in 0 .. L /\ l <= k
    BY <1>4
  <2> QED
    BY <1>4, <2>1, GroupsFit
<1>6. k + 1 <= Len(D)
  <2>1. PICK o \in 0 .. k : o = 0
    BY <1>4
  <2>2. 2 + (k - 0) <= at[k]
    BY <1>1, <1>5, <2>1
  <2> QED
    BY <1>2, <1>3, <1>4, <2>2
<1> DEFINE N == {m \in Nat : m <= k /\ b[m].ok => b[m].next = at[m]}
<1>7. 0 \in N
  <2>1. b[0] = Reading(TRUE, << >>, 2, {})
    BY DEF DecodedUpTo
  <2>2. b[0].next = 2
    BY <2>1 DEF Reading
  <2> QED
    BY <1>1, <2>2
<1>8. ASSUME NEW m \in N PROVE m + 1 \in N
  <2>1. m \in Nat /\ m + 1 \in Nat
    OBVIOUS
  <2> SUFFICES ASSUME m + 1 <= k, b[m + 1].ok PROVE b[m + 1].next = at[m + 1]
    BY <2>1
  <2>2. m <= k /\ (b[m].ok => b[m].next = at[m])
    BY <1>4, <2>1
  <2> HIDE DEF N
  <2>3. PICK l \in 1 .. k : l = m + 1 /\ l - 1 = m
    BY <1>4, <2>1
  <2>4. l \in 1 .. L /\ l \in 1 .. Len(D)
    BY <1>3, <1>4, <1>6, <2>3
  <2>5. b[l] = ReadGroup(D, body, per, b[m])
    BY <2>3, <2>4 DEF DecodedUpTo
  <2>6. b[m].ok
    <3>1. b[l].ok
      BY <2>3
    <3> QED
      BY <2>5, <3>1, NoTurn
  <2>7. b[m].next = at[m] /\ at[m] \in Nat /\ m \in 0 .. k
    <3>1. m \in 0 .. k /\ m \in 0 .. L
      BY <1>4, <2>1, <2>2
    <3>2. at[m] \in Nat
      BY <1>1, <3>1
    <3>3. b[m].next = at[m]
      BY <2>2, <2>6
    <3> QED
      BY <3>1, <3>2, <3>3
  <2>8. at[m] \in 1 .. at[k] - 1 /\ at[m] <= Len(D)
    <3>1. at[m] + (k - m) <= at[k] /\ 2 + (m - 0) <= at[m]
      <4>1. at[m] + (k - m) <= at[k]
        BY <1>5, <2>7
      <4>2. PICK o \in 0 .. L : o = 0 /\ m \in 0 .. L /\ o <= m
        BY <1>4, <2>7
      <4>3. at[o] + (m - o) <= at[m]
        BY <4>2, GroupsFit
      <4> QED
        BY <1>1, <4>1, <4>2, <4>3
    <3> QED
      BY <1>2, <1>3, <1>4, <2>1, <2>3, <2>7, <3>1
  <2>9. D[at[m]] = lines[at[m]]
    BY <1>2, <2>8
  <2>10. /\ lines[at[l - 1]].lead.mark # "##"
         /\ lines[at[l - 1]].body.count = Size(arr, group, l)
         /\ SpeltAs(lines[at[l - 1]]) = lines[at[l - 1]]
    BY <2>4, GroupSays
  <2>11. /\ D[b[m].next].lead.mark # "##"
         /\ SpeltAs(D[b[m].next]).body.count = Size(arr, group, l)
    BY <2>3, <2>7, <2>9, <2>10
  <2>12. b[m].next \in Nat /\ b[m].next <= Len(D)
    BY <2>7, <2>8
  <2>13. ReadGroup(D, body, per, b[m]).ok
    BY <2>3, <2>5
  <2>14. ReadGroup(D, body, per, b[m]).next = b[m].next + SpeltAs(D[b[m].next]).body.count + 1
    BY <1>3, <2>6, <2>11, <2>12, <2>13, TurnGoesOn
  <2>15. b[l].next = at[m] + Size(arr, group, l) + 1
    BY <2>5, <2>7, <2>11, <2>14
  <2>16. at[l] = at[l - 1] + Size(arr, group, l) + 1
    BY <1>1, <2>4
  <2> QED
    BY <2>3, <2>15, <2>16
<1>9. N \in SUBSET Nat
  OBVIOUS
<1>10. k \in N
  <2>1. k \in Nat
    BY <1>4
  <2> HIDE DEF N
  <2> QED
    BY <1>7, <1>8, <1>9, <2>1, Induct
<1>11. b[k].ok => b[k].next = at[k]
  BY <1>4, <1>10
<1> QED
  BY <1>6, <1>11

\* How D goes wrong from line a on, where lines has a group of n records: the
\* line of the group is gone; or the lines are too few; or a row is left over.
GoesWrong(D, lines, a, n) ==
    /\ BeginsLike(D, lines, a)
    /\ a <= Len(D)
    /\ \/ IsRow(D[a])
       \/ D[a] = lines[a] /\ a + n > Len(D)
       \/ D[a] = lines[a] /\ a + n + 1 <= Len(D) /\ IsRow(D[a + n + 1])

\* Then it is refused.
LEMMA WrongIsRefused ==
    ASSUME NEW lines, NEW arr, NEW key, NEW group, NEW at, Laid(lines, arr, key, group, at),
           NEW L \in Nat, L = Len(GroupValues(arr, group)), NEW k \in 0 .. L - 1,
           NEW D, GoesWrong(D, lines, at[k], Size(arr, group, k + 1)), NEW body, NEW per
    PROVE  ~decodeGroups(D, 2, body, per).ok
<1> DEFINE a == at[k]
           n == Size(arr, group, k + 1)
<1>1. /\ BeginsLike(D, lines, a) /\ D \in Seq(Range(D))
      /\ a <= Len(D)
  BY DEF GoesWrong, BeginsLike
<1>2. PICK b : /\ DecodedUpTo(D, 2, body, per, Len(D), b)
               /\ decodeGroups(D, 2, body, per) = b[Len(D)]
  BY <1>1, DecodesExist
<1> SUFFICES ASSUME b[Len(D)].ok PROVE FALSE
  BY <1>2
<1>3. Len(D) \in Nat
  BY <1>1
<1>4. \A t \in 0 .. Len(D) : b[t].ok
  BY <1>1, <1>2, ErrorStays
<1>5. k + 1 <= Len(D) /\ (b[k].ok => b[k].next = a)
  BY <1>1, <1>2, InStepSoFar
<1>6. PICK l \in 1 .. L : l = k + 1 /\ l - 1 = k
  OBVIOUS
<1>7. /\ k \in 0 .. Len(D) /\ l \in 1 .. Len(D) /\ l \in 0 .. Len(D)
  BY <1>3, <1>5, <1>6
<1>8. b[k].ok /\ b[l].ok /\ b[k].next = a
  BY <1>4, <1>5, <1>7
<1>9. b[l] = ReadGroup(D, body, per, b[k])
  BY <1>2, <1>6, <1>7 DEF DecodedUpTo
<1>10. n \in Nat /\ a \in Nat
  <2>1. \A m \in 1 .. L : Size(arr, group, m) \in Nat
    BY DEF Laid
  <2>2. at \in [0 .. L -> Nat] /\ k \in 0 .. L
    BY DEF Laid
  <2> QED
    BY <1>6, <2>1, <2>2
<1>11. ~IsRow(D[a])
  <2> SUFFICES ASSUME IsRow(D[a]) PROVE FALSE
    OBVIOUS
  <2> HIDE DEF a, n
  <2>1. b[k].next \in Nat /\ b[k].next <= Len(D) /\ IsRow(D[b[k].next])
    BY <1>1, <1>8, <1>10
  <2>2. ~ReadGroup(D, body, per, b[k]).ok
    BY <1>3, <1>8, <2>1, StopsAtRow
  <2> QED
    BY <1>8, <1>9, <2>2
<1>12. /\ D[a] = lines[a]
       /\ a + n > Len(D) \/ (a + n + 1 <= Len(D) /\ IsRow(D[a + n + 1]))
  BY <1>11 DEF GoesWrong
<1>13. D[a].lead.mark # "##" /\ SpeltAs(D[a]).body.count = n
  <2>1. /\ lines[at[l - 1]].lead.mark # "##" /\ lines[at[l - 1]].body.count = Size(arr, group, l)
        /\ SpeltAs(lines[at[l - 1]]) = lines[at[l - 1]]
    BY <1>6, GroupSays
  <2> QED
    BY <1>6, <1>12, <2>1
<1> HIDE DEF a, n
<1>14. /\ GroupAt(D, b[k].next, body, per, b[k].groups)
       /\ ReadGroup(D, body, per, b[k]).next = b[k].next + SpeltAs(D[b[k].next]).body.count + 1
  <2>1. /\ b[k].next \in Nat /\ b[k].next <= Len(D) /\ D[b[k].next].lead.mark # "##"
        /\ ReadGroup(D, body, per, b[k]).ok
    BY <1>1, <1>8, <1>9, <1>10, <1>13
  <2> QED
    BY <1>3, <1>8, <2>1, TurnGoesOn
<1>15. a + n <= Len(D)
  <2>1. GroupRows(D, a + 1, a + SpeltAs(D[a]).body.count, Len(per))
    BY <1>8, <1>14 DEF GroupAt
  <2> QED
    BY <1>13, <2>1 DEF GroupRows
<1>16. a + n + 1 <= Len(D) /\ IsRow(D[a + n + 1])
  BY <1>3, <1>10, <1>12, <1>15
<1>17. b[l].next = a + n + 1
  BY <1>8, <1>9, <1>13, <1>14
<1>18. l + 1 \in 1 .. Len(D) /\ (l + 1) - 1 = l
  <2>1. k + 2 <= a
    <3>1. PICK o \in 0 .. L : o = 0 /\ o <= k /\ k \in 0 .. L /\ at[o] = 2
      BY DEF Laid
    <3>2. at[o] + (k - o) <= at[k]
      BY <3>1, GroupsFit
    <3> QED
      BY <3>1, <3>2 DEF a
  <2> QED
    BY <1>3, <1>6, <1>10, <1>16, <2>1
<1>19. b[l + 1] = ReadGroup(D, body, per, b[l])
  BY <1>2, <1>18 DEF DecodedUpTo
<1>20. ~ReadGroup(D, body, per, b[l]).ok
  <2>1. b[l].next \in Nat /\ b[l].next <= Len(D) /\ IsRow(D[b[l].next])
    BY <1>10, <1>16, <1>17
  <2> QED
    BY <1>3, <1>8, <2>1, StopsAtRow
<1>21. b[l + 1].ok
  BY <1>3, <1>4, <1>18
<1> QED
  BY <1>19, <1>20, <1>21

\* Every line after the header is in a group.
LEMMA InSomeGroup ==
    ASSUME NEW lines, NEW arr, NEW key, NEW group, NEW at, Laid(lines, arr, key, group, at),
           NEW L \in Nat, L = Len(GroupValues(arr, group)), NEW p \in 2 .. Len(lines)
    PROVE  \E k \in 0 .. L - 1 : at[k] <= p /\ p <= at[k] + Size(arr, group, k + 1)
<1>1. /\ at \in [0 .. L -> Nat] /\ at[0] = 2 /\ at[L] = Len(lines) + 1
      /\ lines \in Seq(Range(lines))
      /\ \A l \in 1 .. L : /\ Size(arr, group, l) \in Nat
                           /\ at[l] = at[l - 1] + Size(arr, group, l) + 1
  BY DEF Laid
<1> DEFINE T == {l \in 0 .. L : at[l] > p}
<1>2. Len(lines) \in Nat /\ p \in Nat
  BY <1>1
<1>3. L \in T /\ T \in SUBSET Nat
  BY <1>1, <1>2
<1>4. PICK l \in T : \A m \in T : l <= m
  <2> HIDE DEF T
  <2> QED
    BY <1>3, Least
<1>5. l \in 0 .. L /\ at[l] > p /\ l # 0
  BY <1>1, <1>2
<1>6. l \in 1 .. L /\ l - 1 \in 0 .. L - 1 /\ l - 1 \in 0 .. L /\ ~(l <= l - 1)
  BY <1>5
<1>7. l - 1 \notin T
  <2> HIDE DEF T
  <2> QED
    BY <1>4, <1>6
<1>8. at[l - 1] <= p
  <2>1. ~(at[l - 1] > p)
    BY <1>6, <1>7
  <2>2. at[l - 1] \in Nat
    BY <1>1, <1>6
  <2> QED
    BY <1>2, <2>1, <2>2
<1>9. p <= at[l - 1] + Size(arr, group, l)
  <2>1. at[l - 1] \in Nat /\ at[l] \in Nat
    BY <1>1, <1>6
  <2>2. Size(arr, group, l) \in Nat /\ at[l] = at[l - 1] + Size(arr, group, l) + 1
    BY <1>1, <1>6
  <2> HIDE DEF T
  <2> QED
    BY <1>2, <1>5, <2>1, <2>2
<1>10. (l - 1) + 1 = l
  BY <1>6
<1> QED
  BY <1>6, <1>8, <1>9, <1>10

\* What is known of a group from its own lines and those after it.
GroupStands(lines, a, n) ==
    /\ lines \in Seq(Range(lines))
    /\ a \in Nat /\ n \in Nat /\ a >= 2 /\ n >= 1 /\ a + n <= Len(lines)
    /\ IsRow(lines[a + 1]) /\ IsRow(lines[a + n])
    /\ a + n < Len(lines) => a + n + 2 <= Len(lines) /\ IsRow(lines[a + n + 2])

\* Every group has its rows, none of them spelt like a group's line, and what
\* comes next is another.
LEMMA GroupsStand ==
    ASSUME NEW lines, NEW arr, NEW key, NEW group, NEW at, Laid(lines, arr, key, group, at),
           arr \in Seq(Range(arr)),
           \A i \in DOMAIN lines : SpeltAs(lines[i]) = lines[i],
           NEW L \in Nat, L = Len(GroupValues(arr, group)), NEW k \in 0 .. L - 1
    PROVE  GroupStands(lines, at[k], Size(arr, group, k + 1))
<1>1. /\ at \in [0 .. L -> Nat] /\ at[0] = 2 /\ at[L] = Len(lines) + 1
      /\ lines \in Seq(Range(lines))
      /\ \A l \in 1 .. L : /\ Size(arr, group, l) \in Nat
                           /\ at[l] = at[l - 1] + Size(arr, group, l) + 1
  BY DEF Laid
<1>2. Len(lines) \in Nat
  BY <1>1
<1>3. ASSUME NEW l \in 1 .. L
      PROVE  /\ at[l - 1] \in Nat /\ at[l] \in Nat /\ Size(arr, group, l) \in Nat
             /\ at[l - 1] >= 2 /\ Size(arr, group, l) >= 1
             /\ at[l] = at[l - 1] + Size(arr, group, l) + 1
             /\ at[l] <= Len(lines) + 1
             /\ \A j \in 1 .. Size(arr, group, l) : IsRow(lines[at[l - 1] + j])
  <2>1. l - 1 \in 0 .. L /\ l \in 0 .. L /\ L \in 0 .. L /\ l <= L
    OBVIOUS
  <2>2. at[l - 1] \in Nat /\ at[l] \in Nat
    BY <1>1, <2>1
  <2>3. Size(arr, group, l) \in Nat /\ at[l] = at[l - 1] + Size(arr, group, l) + 1
    BY <1>1
  <2>4. Size(arr, group, l) > 0
    BY SomeMember
  <2>5. at[l] + (L - l) <= at[L]
    BY <2>1, GroupsFit
  <2>6. at[l - 1] >= 2
    <3>1. PICK o \in 0 .. L : o = 0 /\ o <= l - 1
      BY <2>1
    <3>2. at[o] + ((l - 1) - o) <= at[l - 1]
      BY <2>1, <3>1, GroupsFit
    <3> QED
      BY <1>1, <2>1, <2>2, <3>1, <3>2
  <2>7. at[l] <= Len(lines) + 1
    BY <1>1, <1>2, <2>2, <2>5
  <2>8. \A j \in 1 .. Size(arr, group, l) : IsRow(lines[at[l - 1] + j])
    <3> TAKE j \in 1 .. Size(arr, group, l)
    <3>1. GroupLaid(lines, arr, key, group, l, at[l - 1])
      BY DEF Laid
    <3>2. PICK o : lines[at[l - 1] + j] = MemberLine(o, Bare(arr, key, group))
      BY <3>1 DEF GroupLaid, Size
    <3>3. at[l - 1] + j \in DOMAIN lines
      BY <1>1, <1>2, <2>2, <2>3, <2>6, <2>7
    <3>4. SpeltAs(lines[at[l - 1] + j]) = lines[at[l - 1] + j]
      BY <3>3
    <3> QED
      BY <3>2, <3>4, MemberIsRow
  <2>9. Size(arr, group, l) >= 1
    BY <2>3, <2>4
  <2> QED
    BY <2>2, <2>3, <2>6, <2>7, <2>8, <2>9
<1>4. PICK l \in 1 .. L : l = k + 1 /\ l - 1 = k
  OBVIOUS
<1>5. PICK a, n : a = at[k] /\ n = Size(arr, group, k + 1)
  OBVIOUS
<1>6. /\ a \in Nat /\ n \in Nat /\ a >= 2 /\ n >= 1
      /\ at[l] = a + n + 1 /\ at[l] <= Len(lines) + 1
      /\ \A j \in 1 .. n : IsRow(lines[a + j])
  BY <1>3, <1>4, <1>5
<1>7. a + n <= Len(lines)
  BY <1>2, <1>6
<1>8. IsRow(lines[a + 1]) /\ IsRow(lines[a + n])
  <2>1. 1 \in 1 .. n /\ n \in 1 .. n
    BY <1>6
  <2> QED
    BY <1>6, <2>1
<1>9. a + n < Len(lines) => a + n + 2 <= Len(lines) /\ IsRow(lines[a + n + 2])
  <2> SUFFICES ASSUME a + n < Len(lines)
               PROVE  a + n + 2 <= Len(lines) /\ IsRow(lines[a + n + 2])
    OBVIOUS
  <2>1. l # L
    BY <1>1, <1>2, <1>6
  <2>2. PICK m \in 1 .. L : m = l + 1 /\ m - 1 = l
    BY <2>1
  <2>3. PICK c, d : c = at[m - 1] /\ d = Size(arr, group, m)
    OBVIOUS
  <2>4. /\ c \in Nat /\ d \in Nat /\ d >= 1 /\ at[m] = c + d + 1 /\ at[m] <= Len(lines) + 1
        /\ \A j \in 1 .. d : IsRow(lines[c + j])
    BY <1>3, <2>3
  <2>5. c = a + n + 1
    BY <1>6, <2>2, <2>3
  <2>6. 1 \in 1 .. d /\ c + 1 = a + n + 2
    BY <1>6, <2>4, <2>5
  <2>7. IsRow(lines[a + n + 2])
    BY <2>4, <2>6
  <2>8. a + n + 2 <= Len(lines)
    BY <1>2, <1>6, <2>4, <2>5
  <2> QED
    BY <2>7, <2>8
<1>10. GroupStands(lines, a, n)
  BY <1>1, <1>6, <1>7, <1>8, <1>9 DEF GroupStands
<1> QED
  BY <1>5, <1>10

\* A line of the group twice: a row is left over.
LEMMA DoubledGoesWrong ==
    ASSUME NEW lines, NEW a, NEW n, GroupStands(lines, a, n), NEW p \in a .. a + n
    PROVE  GoesWrong(Doubled(lines, p), lines, a, n)
<1> DEFINE D == Doubled(lines, p)
           T == Range(lines)
<1>1. /\ lines \in Seq(T) /\ a \in Nat /\ n \in Nat /\ a >= 2 /\ n >= 1 /\ a + n <= Len(lines)
      /\ IsRow(lines[a + n])
  BY DEF GroupStands
<1>2. PICK len \in Nat : len = Len(lines)
  BY <1>1
<1>3. D = [i \in 1 .. len + 1 |-> lines[IF i <= p THEN i ELSE i - 1]]
  BY <1>2 DEF Doubled
<1> HIDE DEF D, T
<1>4. p \in Nat /\ a <= p /\ p <= a + n /\ a + n <= len
  BY <1>1, <1>2
<1>5. \A i \in 1 .. len : lines[i] \in T
  BY <1>1, <1>2
<1>6. \A i \in 1 .. len + 1 : (IF i <= p THEN i ELSE i - 1) \in 1 .. len
  BY <1>1, <1>2, <1>4
<1>7. D \in Seq(T) /\ Len(D) = len + 1
  <2>1. D \in [1 .. len + 1 -> T]
    BY <1>3, <1>5, <1>6
  <2>2. len + 1 \in Nat
    BY <1>2
  <2> QED
    BY <2>1, <2>2
<1>8. D \in Seq(Range(D))
  BY <1>7, OfItsOwn
<1>9. \A i \in 1 .. a : i \in 1 .. len + 1 /\ D[i] = lines[i]
  <2>1. \A i \in 1 .. a : i \in 1 .. len + 1 /\ i <= p
    BY <1>1, <1>4
  <2> QED
    BY <1>3, <2>1
<1>10. D[a] = lines[a] /\ \A i \in 1 .. a - 1 : D[i] = lines[i]
  <2>1. a \in 1 .. a /\ \A i \in 1 .. a - 1 : i \in 1 .. a
    BY <1>1
  <2> QED
    BY <1>9, <2>1
<1>11. D[a + n + 1] = lines[a + n]
  <2>1. a + n + 1 \in 1 .. len + 1 /\ ~(a + n + 1 <= p) /\ (a + n + 1) - 1 = a + n
    BY <1>1, <1>2, <1>4
  <2> QED
    BY <1>3, <2>1
<1>12. BeginsLike(D, lines, a)
  <2>1. a - 1 <= Len(D)
    BY <1>1, <1>2, <1>4, <1>7
  <2> QED
    BY <1>8, <1>10, <2>1 DEF BeginsLike
<1>13. a <= Len(D) /\ a + n + 1 <= Len(D) /\ IsRow(D[a + n + 1])
  BY <1>1, <1>2, <1>4, <1>7, <1>11
<1> QED
  BY <1>10, <1>12, <1>13 DEF GoesWrong, D

\* A line of the group lost: its own, or one of its rows.
LEMMA DroppedGoesWrong ==
    ASSUME NEW lines, NEW a, NEW n, GroupStands(lines, a, n), NEW p \in a .. a + n
    PROVE  GoesWrong(Dropped(lines, p), lines, a, n)
<1> DEFINE D == Dropped(lines, p)
           T == Range(lines)
<1>1. /\ lines \in Seq(T) /\ a \in Nat /\ n \in Nat /\ a >= 2 /\ n >= 1 /\ a + n <= Len(lines)
      /\ IsRow(lines[a + 1])
      /\ a + n < Len(lines) => a + n + 2 <= Len(lines) /\ IsRow(lines[a + n + 2])
  BY DEF GroupStands
<1>2. PICK len \in Nat : len = Len(lines)
  BY <1>1
<1>3. D = [i \in 1 .. len - 1 |-> lines[IF i < p THEN i ELSE i + 1]]
  BY <1>2 DEF Dropped
<1> HIDE DEF D, T
<1>4. p \in Nat /\ a <= p /\ p <= a + n /\ a + n <= len
  BY <1>1, <1>2
<1>5. \A i \in 1 .. len : lines[i] \in T
  BY <1>1, <1>2
<1>6. \A i \in 1 .. len - 1 : (IF i < p THEN i ELSE i + 1) \in 1 .. len
  BY <1>1, <1>2, <1>4
<1>7. D \in Seq(T) /\ Len(D) = len - 1
  <2>1. D \in [1 .. len - 1 -> T]
    BY <1>3, <1>5, <1>6
  <2>2. len - 1 \in Nat
    BY <1>1, <1>2, <1>4
  <2> QED
    BY <2>1, <2>2
<1>8. D \in Seq(Range(D))
  BY <1>7, OfItsOwn
<1>9. \A i \in 1 .. a - 1 : D[i] = lines[i]
  <2>1. \A i \in 1 .. a - 1 : i \in 1 .. len - 1 /\ i < p
    BY <1>1, <1>4
  <2> QED
    BY <1>3, <2>1
<1>10. BeginsLike(D, lines, a) /\ a <= Len(D)
  <2>1. a - 1 <= Len(D) /\ a <= Len(D)
    BY <1>1, <1>2, <1>4, <1>7
  <2> QED
    BY <1>8, <1>9, <2>1 DEF BeginsLike
<1>11. CASE p = a
  <2>1. a \in 1 .. len - 1 /\ ~(a < p)
    BY <1>1, <1>2, <1>4, <1>11
  <2>2. D[a] = lines[a + 1]
    BY <1>3, <2>1
  <2> QED
    BY <1>1, <1>10, <2>2 DEF GoesWrong, D
<1>12. CASE p # a
  <2>1. a \in 1 .. len - 1 /\ a < p
    BY <1>1, <1>2, <1>4, <1>12
  <2>2. D[a] = lines[a]
    BY <1>3, <2>1
  <2>3. CASE a + n < len
    <3>1. a + n + 2 <= len /\ IsRow(lines[a + n + 2])
      BY <1>1, <1>2, <2>3
    <3>2. a + n + 1 \in 1 .. len - 1 /\ ~(a + n + 1 < p) /\ (a + n + 1) + 1 = a + n + 2
      BY <1>1, <1>2, <1>4, <3>1
    <3>3. D[a + n + 1] = lines[a + n + 2]
      BY <1>3, <3>2
    <3>4. a + n + 1 <= Len(D)
      BY <1>7, <3>2
    <3> QED
      BY <1>10, <2>2, <3>1, <3>3, <3>4 DEF GoesWrong, D
  <2>4. CASE ~(a + n < len)
    <3>1. a + n > Len(D)
      BY <1>1, <1>2, <1>4, <1>7, <2>4
    <3> QED
      BY <1>10, <2>2, <3>1 DEF GoesWrong, D
  <2> QED
    BY <2>3, <2>4
<1> QED
  BY <1>11, <1>12

\* A document whose groups cannot be read is refused.
LEMMA NoGroupsNoArray ==
    ASSUME NEW D, NEW body, ~decodeGroups(D, 2, body, PerRecordNames(body)).ok,
           Len(D) \in Nat, D[1].body = body
    PROVE  ~DecodeGrouped(D).ok
<1> DEFINE r == decodeGroups(D, 1 + 1, body, PerRecordNames(body))
           c == Counted(r, body.count)
           d == decodeGroupedArray(D, 1, body)
<1>1. 1 + 1 = 2
  OBVIOUS
<1>2. ~r.ok
  BY <1>1
<1> HIDE DEF r
<1>3. c = Failed
  BY <1>2 DEF Counted
<1>4. d = Failed
  BY <1>3 DEF decodeGroupedArray, r
<1> HIDE DEF d
<1>5. ~Failed.ok /\ Failed.next = 0
  BY DEF Failed
<1>6. ~AtEnd(d, Len(D)).ok
  BY <1>4, <1>5 DEF AtEnd
<1> QED
  BY <1>6 DEF DecodeGrouped, d

\* A line of a group twice, or lost, and the document is refused, if no row is
\* spelt like a group's line.
LEMMA DamageIsRefused ==
    ASSUME NEW arr, NEW key, NEW group, Takes(arr, key, group), group # << >>,
           NEW lines, lines = EncodeGenericGrouped(arr, key, group),
           \A i \in DOMAIN lines : SpeltAs(lines[i]) = lines[i],
           NEW p \in 2 .. Len(lines), NEW D, D = Dropped(lines, p) \/ D = Doubled(lines, p)
    PROVE  IsGrouped(D) /\ ~DecodeGrouped(D).ok
<1>1. arr \in Seq(Range(arr))
  BY DEF Takes
<1>2. PICK at : Laid(lines, arr, key, group, at)
  BY <1>1, LinesLaid
<1>3. PICK L \in Nat : L = Len(GroupValues(arr, group))
  <2>1. GroupValues(arr, group) \in Seq(ToSet(GroupValues(arr, group)))
    BY <1>1, ValuesAre
  <2> QED
    BY <2>1
<1> DEFINE body == Header(arr, key, group)
<1>4. PICK k \in 0 .. L - 1 : at[k] <= p /\ p <= at[k] + Size(arr, group, k + 1)
  BY <1>2, <1>3, InSomeGroup
<1>5. PICK a, n : a = at[k] /\ n = Size(arr, group, k + 1)
  OBVIOUS
<1>6. GroupStands(lines, a, n)
  BY <1>1, <1>2, <1>3, <1>5, GroupsStand
<1>7. GoesWrong(D, lines, a, n)
  <2>1. p \in a .. a + n
    BY <1>4, <1>5, <1>6 DEF GroupStands
  <2> QED
    BY <1>6, <2>1, DoubledGoesWrong, DroppedGoesWrong
<1>8. ~decodeGroups(D, 2, body, PerRecordNames(body)).ok
  BY <1>2, <1>3, <1>5, <1>7, WrongIsRefused
<1>9. body.form = "table" /\ body.group = group
  BY HeaderIs
<1> HIDE DEF body
<1>10. lines[1].lead = RootLead /\ lines[1].body = body
  <2>1. lines[1] = Line(RootLead, body)
    BY <1>2 DEF Laid, body
  <2> QED
    BY <2>1 DEF Line
<1>11. D \in Seq(Range(D)) /\ a <= Len(D) /\ \A i \in 1 .. a - 1 : D[i] = lines[i]
  BY <1>7 DEF GoesWrong, BeginsLike
<1>12. Len(D) \in Nat /\ Len(D) >= 2 /\ D[1] = lines[1]
  <2>1. a \in Nat /\ a >= 2 /\ 1 \in 1 .. a - 1
    BY <1>6 DEF GroupStands
  <2> QED
    BY <1>11, <2>1
<1>13. D # << >>
  BY <1>12
<1>14. IsGrouped(D)
  BY <1>9, <1>10, <1>12, <1>13 DEF IsGrouped, NoGroup
<1> QED
  BY <1>8, <1>10, <1>12, <1>14, NoGroupsNoArray

-----------------------------------------------------------------------------
(* What the application has collected.                                     *)

\* The records collected are ones the application may have.
Collected == pool \in DOMAIN Records /\ rows \in Seq(Records[pool])

\* The invariant: the application has records of its kind.
LEMMA CollectedAlways == Spec => []Collected
<1>1. Init => Collected
  BY DEF Init, Collected
<1>2. Collected /\ [Next]_vars => Collected'
  <2> SUFFICES ASSUME Collected, [Next]_vars PROVE Collected'
    OBVIOUS
  <2>1. CASE Next
    <3>1. PICK r \in Records[pool] : Collect(r)
      BY <2>1 DEF Next
    <3>2. rows' = Append(rows, r) /\ pool' = pool
      BY <3>1 DEF Collect
    <3>3. Append(rows, r) \in Seq(Records[pool])
      BY LongerBy DEF Collected
    <3> QED
      BY <3>2, <3>3 DEF Collected
  <2>2. CASE UNCHANGED vars
    BY <2>2 DEF vars, Collected
  <2> QED
    BY <2>1, <2>2
<1> QED
  BY <1>1, <1>2, PTL DEF Spec

\* What the encoder takes in groups is records with a group field.
LEMMA CollectedTaken ==
    ASSUME Collected, Groupable(rows, KeyName, GroupName)
    PROVE  Takes(rows, KeyName, GroupName) /\ GroupName # << >>
<1>1. rows \in Seq(Records[pool]) /\ pool \in DOMAIN Records
  BY DEF Collected
<1>2. \A i \in DOMAIN rows : IsRecord(rows[i])
  <2>1. \A i \in DOMAIN rows : rows[i] \in Records[pool]
    BY <1>1
  <2> QED
    BY <1>1, <2>1, RecordsAssumption
<1>3. rows \in Seq(Range(rows))
  BY <1>1, OfItsOwn
<1>4. Takes(rows, KeyName, GroupName)
  BY <1>2, <1>3 DEF Takes
<1>5. GroupName # << >>
  <2>1. GroupName \in ToSet(tabularFields(rows))
    BY DEF Groupable
  <2>2. PICK i \in 1 .. Len(rows) : GroupName \in ToSet(Keys(rows[i]))
    BY <1>2, <1>3, <2>1, FieldsAre
  <2>3. i \in DOMAIN rows
    BY <1>1
  <2>4. IsRecord(rows[i]) /\ Plain(rows[i])
    BY <1>2, <2>3, RecordsArePlain
  <2>5. PICK k \in DOMAIN rows[i].items : rows[i].items[k].key = GroupName
    BY <2>2, <2>4, KeySet
  <2> QED
    BY <2>4, <2>5 DEF IsRecord
<1> QED
  BY <1>4, <1>5

\* The invariant is enough: the text is that of what has been collected.
LEMMA CollectedReadsBack == Collected => GroupedReadsBack
<1> SUFFICES ASSUME Collected, Groupable(rows, KeyName, GroupName)
             PROVE  /\ IsGrouped(EncodeGenericGrouped(rows, KeyName, GroupName))
                    /\ RowsInGroups(DecodeGrouped(EncodeGenericGrouped(rows, KeyName, GroupName)),
                                    rows, GroupName)
  BY DEF GroupedReadsBack
<1> QED
  BY CollectedTaken, ArrayIsGrouped

\* The same, of what is damaged.
LEMMA CollectedIsProtected == Collected => GroupedCountsProtect
<1> DEFINE lines == EncodeGenericGrouped(rows, KeyName, GroupName)
<1> SUFFICES ASSUME Collected, Groupable(rows, KeyName, GroupName),
                    \A i \in DOMAIN lines : SpeltAs(lines[i]) = lines[i], NEW p \in 2 .. Len(lines),
                    NEW D \in {Dropped(lines, p), Doubled(lines, p)}
             PROVE  IsGrouped(D) /\ ~DecodeGrouped(D).ok
  BY DEF GroupedCountsProtect
<1>1. Takes(rows, KeyName, GroupName) /\ GroupName # << >>
  BY CollectedTaken
<1>2. D = Dropped(lines, p) \/ D = Doubled(lines, p)
  OBVIOUS
<1> QED
  BY <1>1, <1>2, DamageIsRefused

\* GroupedReadsBack: whatever records an application has collected, if the
\* encoder takes them in groups, the decoder returns each of them once, with its
\* fields and values, those of a group together and in the order they came
\* (EncodeGenericGrouped and decodeGroupedArray in constant_grouping.go).
THEOREM GroupedSafe == Spec => []GroupedReadsBack
BY CollectedAlways, CollectedReadsBack, PTL

\* GroupedCountsProtect: whatever records an application has collected, if one
\* line of their grouped text is lost or comes twice, a group's own or a
\* record's, decodeGroupedArray returns an error (constant_grouping.go:339-423),
\* unless one of the rows is spelt like a group's line, as "g=y [3]" is.
THEOREM GroupedProtected == Spec => []GroupedCountsProtect
BY CollectedAlways, CollectedIsProtected, PTL
=============================================================================
