------------------------- MODULE DeltaSessionProofs -------------------------
(***************************************************************************)
(* Proofs about DeltaSession, for every policy, every set of states, all   *)
(* line lengths and any channel.                                           *)
(***************************************************************************)
EXTENDS DeltaSession, GenericDeltaProofs

-----------------------------------------------------------------------------
(* Lengths are natural numbers.                                            *)

\* A product of naturals is a natural.
LEMMA ProductNatural ==
    ASSUME NEW a \in Nat, NEW b \in Nat
    PROVE  a * b \in Nat
  BY SMT

\* A set has finitely many rows.
LEMMA RowsFinite ==
    ASSUME NEW s \in Sets
    PROVE  IsFiniteSet(Range(s.rows))
<1>1. DOMAIN s.rows = 1 .. Len(s.rows) /\ Len(s.rows) \in Nat
  BY SetsAssumption
<1>2. 1 \in Int /\ Len(s.rows) \in Int
  BY <1>1
<1>3. IsFiniteSet(DOMAIN s.rows)
  BY <1>1, <1>2, FS_Interval, Zenon
<1> DEFINE row == [i \in DOMAIN s.rows |-> s.rows[i]]
<1>4. row \in Surjection(DOMAIN s.rows, Range(s.rows))
  BY DEF Surjection, Range
<1>5. QED
  BY <1>3, <1>4, FS_Surjection, Zenon

\* A full payload has a positive length (its header).
LEMMA FullLenPositive ==
    ASSUME NEW s \in Sets
    PROVE  FullLen(s) \in Nat /\ 0 < FullLen(s)
<1>1. Len(s.rows) \in Nat
  BY SetsAssumption
<1>2. RowLen * Len(s.rows) \in Nat
  BY <1>1, ProductNatural, LengthsAssumption
<1>3. FullHead \in Nat /\ FullHead > 0
  BY LengthsAssumption
<1>4. QED
  BY <1>2, <1>3 DEF FullLen

\* A section of a finite set of lines has a length.
LEMMA SectionLenNatural ==
    ASSUME NEW lines, IsFiniteSet(lines), NEW len \in Nat
    PROVE  SectionLen(lines, len) \in Nat
<1>1. Cardinality(lines) \in Nat
  BY FS_CardinalityType, Zenon
<1>2. len * Cardinality(lines) \in Nat
  BY <1>1, ProductNatural
<1>3. SectionHead \in Nat
  BY LengthsAssumption
<1>4. QED
  BY <1>2, <1>3 DEF SectionLen

\* The delta between two states has a length.
LEMMA DeltaLenNatural ==
    ASSUME NEW s \in Sets, NEW t \in Sets
    PROVE  DeltaLen(DiffGenericSets(s, t)) \in Nat
<1> DEFINE d == DiffGenericSets(s, t)
           gone == {r \in Range(s.rows) : canonicalCell(r, t.key) \notin Identities(t)}
<1>1. d.added \subseteq Range(t.rows) /\ d.changed \subseteq Range(t.rows)
  BY DEF DiffGenericSets
<1>2. IsFiniteSet(d.added) /\ IsFiniteSet(d.changed)
  BY <1>1, RowsFinite, FS_Subset, Zenon
<1>3. gone \subseteq Range(s.rows)
  OBVIOUS
<1>4. IsFiniteSet(gone)
  BY <1>3, RowsFinite, FS_Subset, Zenon
<1>5. d.removed = {Value(row, t.key) : row \in gone}
  BY DEF DiffGenericSets
<1>6. IsFiniteSet({Value(row, t.key) : row \in gone})
  <2> DEFINE ids == {Value(row, t.key) : row \in gone}
             id == [row \in gone |-> Value(row, t.key)]
  <2> HIDE DEF gone
  <2>1. id \in Surjection(gone, ids)
    BY DEF Surjection
  <2>2. QED
    BY <1>4, <2>1, FS_Surjection, Zenon
<1>7. IsFiniteSet(d.removed)
  BY <1>5, <1>6
<1> HIDE DEF d
<1>8. RowLen \in Nat /\ IdLen \in Nat /\ DeltaHead \in Nat
  BY LengthsAssumption
<1>9. /\ SectionLen(d.added, RowLen) \in Nat
      /\ SectionLen(d.changed, RowLen) \in Nat
      /\ SectionLen(d.removed, IdLen) \in Nat
  BY <1>2, <1>7, <1>8, SectionLenNatural
<1>10. DeltaLen(d) \in Nat
  BY <1>8, <1>9 DEF DeltaLen
<1>11. QED
  BY <1>10 DEF d

-----------------------------------------------------------------------------
(* The size guard.                                                         *)

\* cum counts at least the delta bytes since the last full (a manual full    *)
\* does not reset it), and the guard keeps it below a full of the base.      *)
GuardInv ==
    /\ base \in Sets
    /\ cum \in Nat
    /\ spent \in Nat
    /\ spent <= cum
    /\ policy.mode = "SizeGuard" => cum < FullLen(base)

\* GuardInv holds initially.
LEMMA GuardInvInit == Init => GuardInv
<1> SUFFICES ASSUME Init PROVE GuardInv
  OBVIOUS
<1>1. base \in Sets /\ cum = 0 /\ spent = 0
  BY DEF Init
<1>2. 0 < FullLen(base)
  BY <1>1, FullLenPositive
<1>3. QED
  BY <1>1, <1>2 DEF GuardInv

\* An anchor establishes GuardInv for its state.
LEMMA AnchorGuards ==
    ASSUME NEW next \in Sets, reanchor(next)
    PROVE  GuardInv'
<1>1. base' = next /\ cum' = 0 /\ spent' = 0
  BY DEF reanchor, SendFull
<1>2. 0 < FullLen(next)
  BY FullLenPositive
<1>3. FullLen(base') = FullLen(next)
  BY <1>1
<1>4. QED
  BY <1>1, <1>2, <1>3 DEF GuardInv, FullLen

\* Every outcome of Next keeps GuardInv.
LEMMA NextCallGuards ==
    ASSUME GuardInv, NEW next \in Sets, NextCall(next)
    PROVE  GuardInv'
<1>0. policy' = policy
  BY DEF NextCall
<1>1. CASE NextOnNewSchema(next)
  BY <1>1, AnchorGuards DEF NextOnNewSchema
<1>2. CASE NextFails(next)
  BY <1>0, <1>2 DEF NextFails, GuardInv, FullLen
<1>3. CASE NextOnCadence(next)
  BY <1>3, AnchorGuards DEF NextOnCadence
<1>4. CASE NextAsDelta(next)
  <2> DEFINE d == DiffGenericSets(base, next)
  <2>1. /\ ~AnchorDue(d, next)
        /\ base' = next
        /\ cum' = cum + DeltaLen(d)
        /\ spent' = spent + DeltaLen(d)
    BY <1>4 DEF NextAsDelta
  <2>2. DeltaLen(d) \in Nat
    BY DeltaLenNatural DEF GuardInv
  <2> HIDE DEF d
  <2>3. FullLen(next) \in Nat
    BY FullLenPositive
  <2>4. cum \in Nat /\ spent \in Nat /\ spent <= cum
    BY DEF GuardInv
  <2>5. policy.mode = "SizeGuard" => cum + DeltaLen(d) < FullLen(next)
    BY <2>1, <2>2, <2>3, <2>4 DEF AnchorDue
  <2>6. policy'.mode = "SizeGuard" => cum' < FullLen(base)'
    BY <2>1, <2>5, <1>0 DEF FullLen
  <2>7. cum' \in Nat /\ spent' \in Nat /\ spent' <= cum'
    BY <2>1, <2>2, <2>4
  <2>8. QED
    BY <2>1, <2>6, <2>7 DEF GuardInv
<1>5. QED
  BY <1>1, <1>2, <1>3, <1>4 DEF NextCall

\* Every step keeps GuardInv.
LEMMA GuardInvStep == GuardInv /\ [Next]_vars => GuardInv'
<1> SUFFICES ASSUME GuardInv, [Next]_vars PROVE GuardInv'
  OBVIOUS
<1>1. ASSUME NEW next \in Sets, NextCall(next) PROVE GuardInv'
  BY <1>1, NextCallGuards
<1>2. CASE CurrentFull
  <2>1. UNCHANGED <<base, policy, cum>> /\ spent' = 0
    BY <1>2 DEF CurrentFull, SendFull, session
  <2>2. QED
    BY <2>1 DEF GuardInv, FullLen
<1>3. ASSUME UNCHANGED <<base, policy, cum, spent>> PROVE GuardInv'
  BY <1>3 DEF GuardInv, FullLen
<1>4. CASE Deliver
  BY <1>4, <1>3 DEF Deliver, session, history
<1>5. CASE DeliverCopy
  BY <1>5, <1>3 DEF DeliverCopy, session, history
<1>6. ASSUME NEW k \in DOMAIN channel, Lose(k) PROVE GuardInv'
  BY <1>6, <1>3 DEF Lose, session
<1>7. ASSUME NEW k \in DOMAIN channel, Overtake(k) PROVE GuardInv'
  BY <1>7, <1>3 DEF Overtake, session, history
<1>8. CASE UNCHANGED vars
  BY <1>8, <1>3 DEF vars, session, history
<1>9. QED
  BY <1>1, <1>2, <1>4, <1>5, <1>6, <1>7, <1>8 DEF Next

\* The size guard's promise (generic_delta_session.go:41-44): between two
\* full payloads the deltas never add up to a full payload of the current
\* state, for all states and lengths, failing calls and manual fulls included.
THEOREM SizeGuardBounds == Spec => []SizeGuardBound
<1>1. Init => GuardInv
  BY GuardInvInit
<1>2. GuardInv /\ [Next]_vars => GuardInv'
  BY GuardInvStep
<1>3. GuardInv => SizeGuardBound
  <2> SUFFICES ASSUME GuardInv, policy.mode = "SizeGuard" PROVE spent < FullLen(base)
    BY DEF SizeGuardBound
  <2>1. FullLen(base) \in Nat
    BY FullLenPositive DEF GuardInv
  <2>2. QED
    BY <2>1 DEF GuardInv
<1>4. QED
  BY <1>1, <1>2, <1>3, PTL DEF Spec

-----------------------------------------------------------------------------
(* The channel holds payloads that the session made.                       *)

\* A session sends the states as full payloads and the diffs of two of them.
Fulls == {Full(s) : s \in Sets}

Deltas == {Delta(DiffGenericSets(s, t)) : s \in Sets, t \in Sets}

ChannelInv ==
    /\ base \in Sets
    /\ channel \in Seq(Fulls \cup Deltas)

LEMMA PayloadKind ==
    ASSUME NEW s, NEW t
    PROVE  /\ Full(s).kind = "full" /\ Full(s).root = GenericPackRoot(s)
           /\ LET m == Delta(DiffGenericSets(s, t))
              IN  /\ m.kind = "delta"
                  /\ m.root = GenericPackRoot(t)
                  /\ m.delta = Wire(s, t)
                  /\ m.delta.newRoot = GenericPackRoot(t)
<1>1. Full(s).kind = "full" /\ Full(s).root = GenericPackRoot(s)
  BY DEF Full
<1>2. DiffGenericSets(s, t).newRoot = GenericPackRoot(t)
  BY DEF DiffGenericSets
<1>3. LET m == Delta(DiffGenericSets(s, t))
      IN  m.kind = "delta" /\ m.root = DiffGenericSets(s, t).newRoot /\ m.delta = Wire(s, t)
  BY DEF Delta, Wire
<1> QED
  BY <1>1, <1>2, <1>3, WireFields

LEMMA WithoutIsSeq ==
    ASSUME NEW S, channel \in Seq(S), NEW k \in DOMAIN channel
    PROVE  /\ Without(k) \in Seq(S)
           /\ Len(Without(k)) = Len(channel) - 1
           /\ \A i \in 1 .. Len(channel) - 1 :
                Without(k)[i] = channel[IF i < k THEN i ELSE i + 1]
<1> DEFINE n == Len(channel) - 1
           f == [i \in 1 .. n |-> channel[IF i < k THEN i ELSE i + 1]]
<1>1. Len(channel) \in Nat /\ DOMAIN channel = 1 .. Len(channel) /\ k \in 1 .. Len(channel)
  OBVIOUS
<1>2. n \in Nat
  BY <1>1
<1>3. \A i \in 1 .. n : channel[IF i < k THEN i ELSE i + 1] \in S
  BY <1>1, <1>2
<1>4. f \in [1 .. n -> S]
  BY <1>3
<1>5. f \in Seq(S) /\ Len(f) = n
  BY <1>2, <1>4
<1> QED
  BY <1>5 DEF Without

\* What the actions do to the channel.
LEMMA ChannelMoves ==
    ASSUME [Next]_vars
    PROVE  \/ channel' = channel /\ base' = base
           \/ channel # << >> /\ channel' = Tail(channel) /\ base' = base
           \/ \E k \in DOMAIN channel : channel' = Without(k) /\ base' = base
           \/ \E next \in Sets : /\ channel' = Append(channel, Full(next))
                                 /\ base' = next
           \/ channel' = Append(channel, Full(base)) /\ base' = base
           \/ \E next \in Sets : /\ channel' = Append(channel, Delta(DiffGenericSets(base, next)))
                                 /\ base' = next
<1>1. ASSUME NEW next \in Sets, NextCall(next)
      PROVE  \/ channel' = channel /\ base' = base
             \/ channel' = Append(channel, Full(next)) /\ base' = next
             \/ channel' = Append(channel, Delta(DiffGenericSets(base, next))) /\ base' = next
  BY <1>1 DEF NextCall, NextOnNewSchema, NextFails, NextOnCadence, NextAsDelta, reanchor,
              SendFull, Send
<1>2. CASE CurrentFull
  BY <1>2 DEF CurrentFull, SendFull, Send, session
<1>3. CASE Deliver
  BY <1>3 DEF Deliver, session
<1>4. CASE DeliverCopy
  BY <1>4 DEF DeliverCopy, session
<1>5. ASSUME NEW k \in DOMAIN channel, Lose(k) \/ Overtake(k)
      PROVE  channel' = Without(k) /\ base' = base
  BY <1>5 DEF Lose, Overtake, session
<1>6. CASE UNCHANGED vars
  BY <1>6 DEF vars, session
<1> QED
  BY <1>1, <1>2, <1>3, <1>4, <1>5, <1>6 DEF Next

LEMMA ChannelInvStep == ChannelInv /\ [Next]_vars => ChannelInv'
<1> SUFFICES ASSUME ChannelInv, [Next]_vars PROVE ChannelInv'
  OBVIOUS
<1> DEFINE P == Fulls \cup Deltas
<1>1. base \in Sets /\ channel \in Seq(P)
  BY DEF ChannelInv
<1>2. \A s \in Sets : Full(s) \in P
  BY DEF Fulls
<1>3. \A s, t \in Sets : Delta(DiffGenericSets(s, t)) \in P
  BY DEF Deltas
<1> HIDE DEF P
<1>4. \A m \in P : Append(channel, m) \in Seq(P)
  BY <1>1
<1>5. channel # << >> => Tail(channel) \in Seq(P)
  BY <1>1
<1>6. \A k \in DOMAIN channel : Without(k) \in Seq(P)
  BY <1>1, WithoutIsSeq
<1>7. base' \in Sets /\ channel' \in Seq(P)
  BY <1>1, <1>2, <1>3, <1>4, <1>5, <1>6, ChannelMoves
<1> QED
  BY <1>7 DEF ChannelInv, P, Fulls, Deltas

LEMMA ChannelInvInit == Init => ChannelInv
<1> SUFFICES ASSUME Init PROVE ChannelInv
  OBVIOUS
<1>1. base \in Sets /\ channel = <<Full(base)>>
  BY DEF Init
<1>2. Full(base) \in Fulls \cup Deltas
  BY <1>1 DEF Fulls
<1> QED
  BY <1>1, <1>2 DEF ChannelInv

LEMMA ChannelCorrect == Spec => []ChannelInv
<1> QED
  BY ChannelInvInit, ChannelInvStep, PTL DEF Spec

\* What SetsAssumption says of a state.
LEMMA SetShape ==
    ASSUME NEW s \in Sets
    PROVE  /\ s = [key |-> s.key, fields |-> s.fields, rows |-> s.rows]
           /\ IsFiniteSet(DOMAIN s.rows)
           /\ Celled(s)
<1>1. /\ s = [key |-> s.key, fields |-> s.fields, rows |-> s.rows]
      /\ DOMAIN s.rows = 1 .. Len(s.rows)
      /\ Len(s.rows) \in Nat
      /\ \A i \in DOMAIN s.rows : Range(s.rows[i]) \subseteq Values
  BY SetsAssumption
<1>2. IsFiniteSet(DOMAIN s.rows)
  <2>1. 1 \in Int /\ Len(s.rows) \in Int
    BY <1>1
  <2> QED
    BY <1>1, <2>1, FS_Interval, Zenon
<1>3. Celled(s)
  BY <1>1, ValuesAssumption DEF Celled, Value, Range
<1> QED
  BY <1>1, <1>2, <1>3

-----------------------------------------------------------------------------
(* The consumer never holds a mixture.                                     *)

\* A payload's root is the only root that it can give the consumer.
LEMMA ReceiveWhole ==
    ASSUME ChannelInv, NEW k \in DOMAIN channel, Receive(k)
    PROVE  GenericPackRoot(held') \in {GenericPackRoot(held), channel[k].root}
<1> DEFINE m == channel[k]
<1>1. m \in Fulls \cup Deltas
  BY DEF ChannelInv
<1>2. CASE m \in Fulls
  <2>1. PICK s \in Sets : m = Full(s)
    BY <1>2 DEF Fulls
  <2>2. m.kind = "full" /\ m.root = GenericPackRoot(s)
    BY <2>1, PayloadKind
  <2>3. held' = m.set
    BY <2>2 DEF Receive
  <2>4. Holds(Full(s).set, s)
    BY SetShape, FullHolds
  <2> QED
    BY <2>1, <2>2, <2>3, <2>4 DEF Holds
<1>3. CASE m \in Deltas
  <2>1. PICK s \in Sets, t \in Sets : m = Delta(DiffGenericSets(s, t))
    BY <1>3 DEF Deltas
  <2>2. m.kind = "delta" /\ m.root = m.delta.newRoot
    BY <2>1, PayloadKind
  <2>3. PICK r \in VerifyGenericDelta(held, m.delta, m.delta.newRoot) : held' = r.set
    BY <2>2 DEF Receive
  <2>4. r.set = held \/ GenericPackRoot(r.set) = m.delta.newRoot
    BY <2>3 DEF VerifyGenericDelta, Rejection
  <2> QED
    BY <2>2, <2>3, <2>4
<1> QED
  BY <1>1, <1>2, <1>3

\* A step that changes what the consumer holds receives a payload.
LEMMA HeldMoves ==
    ASSUME ChannelInv, [Next]_vars
    PROVE  held' = held \/ \E k \in DOMAIN channel : Receive(k)
<1>1. channel # << >> => 1 \in DOMAIN channel
  BY DEF ChannelInv
<1>2. ASSUME NEW next \in Sets, NextCall(next) PROVE held' = held
  BY <1>2 DEF NextCall, consumer
<1>3. CASE CurrentFull
  BY <1>3 DEF CurrentFull, consumer
<1>4. CASE Deliver
  BY <1>1, <1>4 DEF Deliver
<1>5. CASE DeliverCopy
  BY <1>1, <1>5 DEF DeliverCopy
<1>6. ASSUME NEW k \in DOMAIN channel, Lose(k) \/ Overtake(k)
      PROVE  held' = held \/ Receive(k)
  BY <1>6 DEF Lose, Overtake, consumer
<1>7. CASE UNCHANGED vars
  BY <1>7 DEF vars, consumer
<1> QED
  BY <1>2, <1>3, <1>4, <1>5, <1>6, <1>7 DEF Next

\* Whatever is lost, doubled or overtaken, the consumer goes from one state the
\* producer emitted to another, and an error leaves its set as it was
\* (generic_delta.go:224-228).
THEOREM WholeOnly == Spec => AppliesWhole
<1>1. ChannelInv /\ [Next]_vars =>
        [GenericPackRoot(held') \in
           {GenericPackRoot(held)} \cup {channel[k].root : k \in DOMAIN channel}]_vars
  BY HeldMoves, ReceiveWhole
<1> QED
  BY <1>1, ChannelCorrect, PTL DEF Spec, AppliesWhole

-----------------------------------------------------------------------------
(* The cadence.                                                            *)

LEMMA Division ==
    ASSUME NEW n \in Nat \ {0}, NEW t \in Nat
    PROVE  /\ t % n \in 0 .. n - 1
           /\ t \div n \in Nat
           /\ t = n * (t \div n) + (t % n)
  BY SMT

LEMMA RemainderUnique ==
    ASSUME NEW n \in Nat \ {0}, NEW q \in Nat, NEW p \in Nat,
           NEW r \in 0 .. n - 1, NEW s \in 0 .. n - 1,
           n * q + r = n * p + s
    PROVE  r = s
<1>1. CASE q < p
  <2>1. n * p >= n * (q + 1)
    BY <1>1
  <2>2. n * (q + 1) = n * q + n
    OBVIOUS
  <2> QED
    BY <2>1, <2>2
<1>2. CASE p < q
  <2>1. n * q >= n * (p + 1)
    BY <1>2
  <2>2. n * (p + 1) = n * p + n
    OBVIOUS
  <2> QED
    BY <2>1, <2>2
<1>3. CASE p = q
  BY <1>3
<1> QED
  BY <1>1, <1>2, <1>3

\* A remainder goes up by one or back to zero.
LEMMA RemainderNext ==
    ASSUME NEW n \in Nat \ {0}, NEW t \in Nat
    PROVE  (t + 1) % n = 0 \/ (t + 1) % n = (t % n) + 1
<1> DEFINE q == t \div n
           r == t % n
           p == (t + 1) \div n
           s == (t + 1) % n
<1>1. q \in Nat /\ r \in 0 .. n - 1 /\ t = n * q + r
  BY Division
<1>2. t + 1 \in Nat
  OBVIOUS
<1>3. p \in Nat /\ s \in 0 .. n - 1 /\ t + 1 = n * p + s
  BY <1>2, Division
<1> HIDE DEF q, r, p, s
<1>4. CASE r + 1 < n
  <2>1. n * q + (r + 1) = n * p + s
    BY <1>1, <1>3
  <2>2. r + 1 \in 0 .. n - 1
    BY <1>1, <1>4
  <2>3. r + 1 = s
    BY <1>1, <1>3, <2>1, <2>2, RemainderUnique
  <2> QED
    BY <2>3 DEF r, s
<1>5. CASE r + 1 = n
  <2>1. n * (q + 1) = n * q + n /\ q + 1 \in Nat
    BY <1>1
  <2>2. n * (q + 1) + 0 = n * p + s
    BY <1>1, <1>3, <1>5, <2>1
  <2>3. 0 \in 0 .. n - 1
    OBVIOUS
  <2>4. 0 = s
    BY <1>3, <2>1, <2>2, <2>3, RemainderUnique
  <2> QED
    BY <2>4 DEF s
<1> QED
  BY <1>1, <1>4, <1>5

\* The next turn's place in the cadence: turn is counted modulo Period, which
\* the cadence divides.
LEMMA TurnNext ==
    ASSUME NEW p \in Policies, NEW t \in 0 .. Period - 1
    PROVE  LET u == (t + 1) % Period
               n == Cadence(p)
           IN  /\ u \in 0 .. Period - 1
               /\ t % n \in 0 .. n - 1
               /\ u % n = 0 \/ u % n = (t % n) + 1
<1> DEFINE n == Cadence(p)
<1>1. Period \in Nat \ {0} /\ Period % n = 0
  BY PolicyAssumption
<1>2. n \in Nat \ {0}
  <2>1. p.n \in Int
    BY PolicyAssumption
  <2> QED
    BY <2>1 DEF Cadence, DefaultReanchorN
<1> HIDE DEF n
<1>3. t \in Nat /\ t + 1 \in Nat
  BY <1>1
<1>4. (t + 1) % Period \in 0 .. Period - 1
  BY <1>1, <1>3, Division
<1>5. CASE t + 1 = Period
  <2>1. (t + 1) % Period = 0
    BY <1>1, <1>5
  <2>2. 0 % n = 0
    BY <1>2
  <2> QED
    BY <1>2, <1>3, <1>4, <2>1, <2>2, Division DEF n
<1>6. CASE t + 1 < Period
  <2>1. (t + 1) % Period = t + 1
    BY <1>1, <1>3, <1>6
  <2> QED
    BY <1>2, <1>3, <1>4, <2>1, Division, RemainderNext DEF n
<1> QED
  BY <1>1, <1>5, <1>6

\* Unless a failing call skipped an anchor, the deltas since the last one are
\* no more than the turns since the cadence last came round.
CadenceInv ==
    /\ policy \in Policies
    /\ turn \in 0 .. Period - 1
    /\ gap \in Nat
    /\ (policy.mode = "FixedN" /\ ~skipped) => gap <= turn % Cadence(policy)

LEMMA CadenceInvInit == Init => CadenceInv
<1> SUFFICES ASSUME Init PROVE CadenceInv
  OBVIOUS
<1>1. policy \in Policies /\ turn = 0 /\ gap = 0
  BY DEF Init
<1>2. Period \in Nat \ {0}
  BY PolicyAssumption
<1>3. turn \in 0 .. Period - 1
  BY <1>1, <1>2
<1>4. turn % Cadence(policy) \in Nat
  BY <1>1, <1>3, TurnNext
<1> QED
  BY <1>1, <1>3, <1>4 DEF CadenceInv

LEMMA CadenceInvStep == CadenceInv /\ [Next]_vars => CadenceInv'
<1> SUFFICES ASSUME CadenceInv, [Next]_vars PROVE CadenceInv'
  OBVIOUS
<1> DEFINE n == Cadence(policy)
<1>1. ASSUME NEW next \in Sets, NextCall(next) PROVE CadenceInv'
  <2>1. policy' = policy /\ turn' = (turn + 1) % Period
    BY <1>1 DEF NextCall
  <2>2. /\ turn' \in 0 .. Period - 1
        /\ turn % n \in Nat /\ turn' % n \in Nat
        /\ turn' % n = 0 \/ turn' % n = (turn % n) + 1
    <3>1. turn' \in 0 .. Period - 1 /\ turn % n \in 0 .. n - 1
      BY <2>1, TurnNext DEF CadenceInv
    <3>2. turn' % n \in 0 .. n - 1
      BY <3>1, TurnNext DEF CadenceInv
    <3> QED
      BY <2>1, <3>1, <3>2, TurnNext DEF CadenceInv
  <2>3. Cadence(policy)' = n
    BY <2>1 DEF Cadence
  <2>4. CASE gap' = 0
    BY <2>1, <2>2, <2>3, <2>4 DEF CadenceInv
  <2>5. CASE NextFails(next)
    <3>1. gap' = gap /\ skipped' = (skipped \/ turn' % n = 0)
      BY <2>5 DEF NextFails
    <3>2. (policy.mode = "FixedN" /\ ~skipped') => gap <= turn % n /\ turn' % n = (turn % n) + 1
      BY <2>2, <3>1 DEF CadenceInv
    <3>3. gap \in Nat
      BY DEF CadenceInv
    <3>4. (policy'.mode = "FixedN" /\ ~skipped') => gap' <= turn' % n
      BY <2>1, <2>2, <3>1, <3>2, <3>3
    <3> HIDE DEF n
    <3> QED
      BY <2>1, <2>2, <2>3, <3>1, <3>3, <3>4 DEF CadenceInv
  <2>6. CASE NextAsDelta(next)
    <3>1. gap' = gap + 1 /\ skipped' = skipped
          /\ ~AnchorDue(DiffGenericSets(base, next), next)
      BY <2>6 DEF NextAsDelta
    <3>2. policy.mode = "FixedN" => turn' % n # 0
      BY <3>1 DEF AnchorDue
    <3>3. gap \in Nat
      BY DEF CadenceInv
    <3>4. (policy.mode = "FixedN" /\ ~skipped) => gap <= turn % n
      BY DEF CadenceInv
    <3>5. (policy'.mode = "FixedN" /\ ~skipped') => gap' <= turn' % n
      BY <2>1, <2>2, <3>1, <3>2, <3>3, <3>4
    <3> HIDE DEF n
    <3> QED
      BY <2>1, <2>2, <2>3, <3>1, <3>3, <3>5 DEF CadenceInv
  <2>7. NextOnNewSchema(next) \/ NextOnCadence(next) => gap' = 0
    BY DEF NextOnNewSchema, NextOnCadence, reanchor, SendFull
  <2> QED
    BY <1>1, <2>4, <2>5, <2>6, <2>7 DEF NextCall
<1>2. CASE CurrentFull
  <2>1. policy' = policy /\ turn' = turn /\ gap' = 0
    BY <1>2 DEF CurrentFull, SendFull, session
  <2>2. turn % n \in 0 .. n - 1
    BY TurnNext DEF CadenceInv
  <2>3. Cadence(policy)' = n
    BY <2>1 DEF Cadence
  <2> HIDE DEF n
  <2> QED
    BY <2>1, <2>2, <2>3 DEF CadenceInv
<1>3. ASSUME UNCHANGED <<policy, turn, gap, skipped>> PROVE CadenceInv'
  BY <1>3 DEF CadenceInv, Cadence
<1>4. CASE Deliver
  BY <1>3, <1>4 DEF Deliver, session, history
<1>5. CASE DeliverCopy
  BY <1>3, <1>5 DEF DeliverCopy, session, history
<1>6. ASSUME NEW k \in DOMAIN channel, Lose(k) \/ Overtake(k) PROVE CadenceInv'
  BY <1>3, <1>6 DEF Lose, Overtake, session
<1>7. CASE UNCHANGED vars
  BY <1>3, <1>7 DEF vars, session, history
<1> QED
  BY <1>1, <1>2, <1>4, <1>5, <1>6, <1>7 DEF Next

\* FixedN's promise (generic_delta_session.go:16-17): no n deltas in a row
\* without an anchor, for every n, whatever anchors schema changes and manual
\* fulls add, as long as no call of Next fails on an anchor turn.
THEOREM CadenceKept == Spec => []CadenceBound
<1>1. CadenceInv => CadenceBound
  <2> SUFFICES ASSUME CadenceInv, policy.mode = "FixedN", ~skipped
               PROVE  gap < Cadence(policy)
    BY DEF CadenceBound
  <2>1. turn % Cadence(policy) \in 0 .. Cadence(policy) - 1
    BY TurnNext DEF CadenceInv
  <2>2. gap <= turn % Cadence(policy) /\ gap \in Nat
    BY DEF CadenceInv
  <2>3. Cadence(policy) \in Int
    BY PolicyAssumption DEF CadenceInv, Cadence, DefaultReanchorN
  <2> QED
    BY <2>1, <2>2, <2>3
<1> QED
  BY <1>1, CadenceInvInit, CadenceInvStep, PTL DEF Spec

-----------------------------------------------------------------------------
(* Types.                                                                  *)

Shaped(h) == DOMAIN h = {"key", "fields", "rows"}

Statuses == {"none", "base_mismatch", "delta_invalid", "root_mismatch"}

LEMMA ReceiveTyped ==
    ASSUME ChannelInv, Shaped(held), NEW k \in DOMAIN channel, Receive(k)
    PROVE  Shaped(held') /\ status' \in Statuses
<1> DEFINE m == channel[k]
<1>1. m \in Fulls \cup Deltas
  BY DEF ChannelInv
<1>2. CASE m \in Fulls
  <2>1. PICK s \in Sets : m = Full(s)
    BY <1>2 DEF Fulls
  <2>2. m.kind = "full"
    BY <2>1, PayloadKind
  <2>3. held' = Full(s).set /\ status' = "none"
    BY <2>1, <2>2 DEF Receive
  <2>4. Shaped(Full(s).set)
    BY SetShape DEF Full, Shaped
  <2> QED
    BY <2>3, <2>4 DEF Statuses
<1>3. CASE m \in Deltas
  <2>1. PICK s \in Sets, t \in Sets : m = Delta(DiffGenericSets(s, t))
    BY <1>3 DEF Deltas
  <2>2. m.kind = "delta"
    BY <2>1, PayloadKind
  <2>3. PICK r \in VerifyGenericDelta(held, m.delta, m.delta.newRoot) :
            held' = r.set /\ status' = r.err
    BY <2>2 DEF Receive
  <2>4. /\ r.err \in Statuses
        /\ r.set = held \/ \E a \in Applied(held, m.delta) : r.set = a
    BY <2>3 DEF VerifyGenericDelta, Rejection, Statuses
  <2>5. \A a \in Applied(held, m.delta) : Shaped(a)
    BY DEF Applied, Shaped
  <2> QED
    BY <2>3, <2>4, <2>5
<1> QED
  BY <1>1, <1>2, <1>3

\* The part of TypeOK that no other invariant gives.
RestTyped ==
    /\ answer \in {"full", "delta", "error"}
    /\ Len(channel) <= MaxInFlight
    /\ Shaped(held)
    /\ status \in Statuses
    /\ faults \in 0 .. MaxFaults

LEMMA RestTypedInit == Init => RestTyped
<1> SUFFICES ASSUME Init PROVE RestTyped
  OBVIOUS
<1>1. Len(channel) = 1
  BY DEF Init
<1>2. Shaped(held)
  BY DEF Init, Shaped, ZeroSet
<1> QED
  BY <1>1, <1>2, ChannelAssumption DEF Init, RestTyped, Statuses

LEMMA RestTypedStep == ChannelInv /\ RestTyped /\ [Next]_vars => RestTyped'
<1> SUFFICES ASSUME ChannelInv, RestTyped, [Next]_vars PROVE RestTyped'
  OBVIOUS
<1> DEFINE P == Fulls \cup Deltas
<1>1. channel \in Seq(P) /\ MaxInFlight \in Nat /\ MaxFaults \in Nat
  BY ChannelAssumption DEF ChannelInv
<1> HIDE DEF P
<1>2. Len(channel) \in Nat /\ (channel # << >> => 1 \in DOMAIN channel)
  BY <1>1
<1>3. ASSUME NEW m, Send(m) PROVE Len(channel') <= MaxInFlight
  BY <1>1, <1>2, <1>3 DEF Send
<1>4. ASSUME NEW k \in DOMAIN channel, channel' = Without(k)
      PROVE  Len(channel') <= MaxInFlight
  <2>1. Len(channel') = Len(channel) - 1
    BY <1>1, <1>4, WithoutIsSeq
  <2> QED
    BY <1>1, <1>2, <2>1 DEF RestTyped
<1>5. ASSUME Fault PROVE faults' \in 0 .. MaxFaults
  BY <1>1, <1>5 DEF Fault, RestTyped
<1>6. ASSUME NEW next \in Sets, NextCall(next) PROVE RestTyped'
  <2>1. UNCHANGED <<held, status, faults>>
    BY <1>6 DEF NextCall, consumer
  <2>2. answer' \in {"full", "delta", "error"}
    BY <1>6 DEF NextCall, NextOnNewSchema, NextFails, NextOnCadence, NextAsDelta, reanchor
  <2>3. channel' = channel \/ \E m : Send(m)
    BY <1>6 DEF NextCall, NextOnNewSchema, NextFails, NextOnCadence, NextAsDelta, reanchor, SendFull
  <2>4. Len(channel') <= MaxInFlight
    BY <1>3, <2>3 DEF RestTyped
  <2> QED
    BY <2>1, <2>2, <2>4 DEF RestTyped, Shaped
<1>7. CASE CurrentFull
  <2>1. UNCHANGED <<held, status, faults, answer>>
    BY <1>7 DEF CurrentFull, consumer, session
  <2>2. Len(channel') <= MaxInFlight
    BY <1>3, <1>7 DEF CurrentFull, SendFull
  <2> QED
    BY <2>1, <2>2 DEF RestTyped, Shaped
<1>8. CASE Deliver
  <2>1. Shaped(held') /\ status' \in Statuses
    BY <1>2, <1>8, ReceiveTyped DEF Deliver, RestTyped
  <2>2. Len(channel') <= MaxInFlight
    BY <1>1, <1>2, <1>8 DEF Deliver, RestTyped
  <2> QED
    BY <1>8, <2>1, <2>2 DEF Deliver, session, RestTyped, Shaped
<1>9. CASE DeliverCopy
  <2>1. Shaped(held') /\ status' \in Statuses
    BY <1>2, <1>9, ReceiveTyped DEF DeliverCopy, RestTyped
  <2> QED
    BY <1>5, <1>9, <2>1 DEF DeliverCopy, session, RestTyped, Shaped
<1>10. ASSUME NEW k \in DOMAIN channel, Lose(k) PROVE RestTyped'
  <2>1. Len(channel') <= MaxInFlight /\ faults' \in 0 .. MaxFaults
    BY <1>4, <1>5, <1>10 DEF Lose
  <2> QED
    BY <1>10, <2>1 DEF Lose, session, consumer, RestTyped, Shaped
<1>11. ASSUME NEW k \in DOMAIN channel, Overtake(k) PROVE RestTyped'
  <2>1. Len(channel') <= MaxInFlight /\ faults' \in 0 .. MaxFaults
    BY <1>4, <1>5, <1>11 DEF Overtake
  <2>2. Shaped(held') /\ status' \in Statuses
    BY <1>11, ReceiveTyped DEF Overtake, RestTyped
  <2> QED
    BY <1>11, <2>1, <2>2 DEF Overtake, session, RestTyped, Shaped
<1>12. CASE UNCHANGED vars
  BY <1>12 DEF vars, session, consumer, RestTyped, Shaped
<1> QED
  BY <1>6, <1>7, <1>8, <1>9, <1>10, <1>11, <1>12 DEF Next

\* The types of the session's fields, the channel and the consumer
\* (generic_delta_session.go:53-61).
THEOREM TypeCorrect == Spec => []TypeOK
<1>1. ChannelInv /\ GuardInv /\ CadenceInv /\ RestTyped => TypeOK
  <2> SUFFICES ASSUME ChannelInv, GuardInv, CadenceInv, RestTyped PROVE TypeOK
    OBVIOUS
  <2>1. ASSUME NEW k \in DOMAIN channel PROVE channel[k].kind \in {"full", "delta"}
    <3>1. channel[k] \in Fulls \cup Deltas
      BY DEF ChannelInv
    <3> QED
      BY <3>1, PayloadKind DEF Fulls, Deltas
  <2> QED
    BY <2>1 DEF TypeOK, GuardInv, CadenceInv, RestTyped, Shaped, Statuses
<1>2. Init => GuardInv /\ CadenceInv /\ RestTyped
  BY GuardInvInit, CadenceInvInit, RestTypedInit
<1>3. /\ ChannelInv /\ GuardInv /\ CadenceInv /\ RestTyped
      /\ [Next]_vars
      => (GuardInv /\ CadenceInv /\ RestTyped)'
  BY GuardInvStep, CadenceInvStep, RestTypedStep
<1> QED
  BY <1>1, <1>2, <1>3, ChannelCorrect, PTL DEF Spec

-----------------------------------------------------------------------------
(* What a payload does to a consumer that holds the state it is about.     *)

\* Key names one of the columns ("Key names the identity column",
\* generic_delta.go:12-14), for states that have a key.  Nothing checks it, and
\* without it the rows lose their identity on the wire.
KeysAreColumns == \A s \in Sets : s.key # NoKey => s.key \in Range(s.fields)

LEMMA DiffableKeyed ==
    ASSUME KeysAreColumns, NEW s \in Sets, NEW t \in Sets, Diffable(s, t)
    PROVE  KeyedSet(s) /\ KeyedSet(t)
<1>1. t.key # NoKey /\ s.key = t.key
  BY DEF Diffable, SameSchema
<1> QED
  BY <1>1, SetShape DEF KeyedSet, KeysAreColumns

LEMMA FullArrives ==
    ASSUME NEW k \in DOMAIN channel, NEW s \in Sets, channel[k] = Full(s), Receive(k)
    PROVE  Holds(held', s) /\ WireRows(held') /\ status' = "none"
<1>1. channel[k].kind = "full"
  BY PayloadKind
<1>2. held' = Full(s).set /\ status' = "none"
  BY <1>1 DEF Receive
<1> QED
  BY <1>2, SetShape, FullHolds, FullWireRows

LEMMA DeltaArrives ==
    ASSUME KeysAreColumns, NEW s \in Sets, NEW t \in Sets, Diffable(s, t), Holds(held, s),
           NEW k \in DOMAIN channel, channel[k] = Delta(DiffGenericSets(s, t)), Receive(k)
    PROVE  /\ Holds(held', t) /\ status' = "none"
           /\ WireRows(held) => WireRows(held')
<1>1. channel[k].kind = "delta" /\ channel[k].delta = Wire(s, t)
      /\ channel[k].delta.newRoot = GenericPackRoot(t)
  BY PayloadKind
<1>2. PICK r \in VerifyGenericDelta(held, Wire(s, t), GenericPackRoot(t)) :
          held' = r.set /\ status' = r.err
  BY <1>1 DEF Receive
<1>3. KeyedSet(s) /\ KeyedSet(t)
  BY DiffableKeyed
<1>4. r.err = "none" /\ Holds(r.set, t)
  BY <1>3, DeltaApplies
<1>5. r.set \in Applied(held, Wire(s, t))
  BY <1>2, <1>4 DEF VerifyGenericDelta, Rejection
<1> QED
  BY <1>2, <1>3, <1>4, <1>5, AppliedWireRows

\* A copy of a delta does nothing to the state that the delta led to.
LEMMA DeltaArrivesAgain ==
    ASSUME KeysAreColumns, NEW s \in Sets, NEW t \in Sets, Diffable(s, t), Holds(held, t),
           NEW k \in DOMAIN channel, channel[k] = Delta(DiffGenericSets(s, t)), Receive(k)
    PROVE  Holds(held', t)
<1>1. channel[k].kind = "delta" /\ channel[k].delta = Wire(s, t)
      /\ channel[k].delta.newRoot = GenericPackRoot(t)
  BY PayloadKind
<1>2. PICK r \in VerifyGenericDelta(held, Wire(s, t), GenericPackRoot(t)) : held' = r.set
  BY <1>1 DEF Receive
<1>3. CASE GenericPackRoot(s) = GenericPackRoot(t)
  <2>1. Holds(held, s)
    BY <1>3 DEF Holds, Diffable, SameSchema
  <2> QED
    BY <2>1, DeltaArrives
<1>4. CASE GenericPackRoot(s) # GenericPackRoot(t)
  <2>1. GenericPackRoot(held) # Wire(s, t).baseRoot
    BY <1>4, WireFields DEF Holds
  <2>2. r.set = held
    BY <1>2, <2>1 DEF VerifyGenericDelta, Rejection
  <2> QED
    BY <1>2, <2>2
<1> QED
  BY <1>3, <1>4

-----------------------------------------------------------------------------
(* A channel that keeps order and loses nothing.  The payloads on their    *)
(* way tell the producer's states st[1], st[2], ... one by one, from the   *)
(* state st[0] that the consumer holds.                                    *)

OrderlyChannel == ~MayLose /\ ~MayDuplicate /\ ~MayReorder

Snapshot(ch, st, k) == ch[k] = Full(st[k])

Change(ch, st, k) ==
    /\ ch[k] = Delta(DiffGenericSets(st[k - 1], st[k]))
    /\ Diffable(st[k - 1], st[k])

Tells(ch, b, st) ==
    /\ st \in [0 .. Len(ch) -> Sets]
    /\ st[Len(ch)] = b
    /\ \A k \in 1 .. Len(ch) : Snapshot(ch, st, k) \/ Change(ch, st, k)

Expects(ch, st, h) ==
    \/ Holds(h, st[0])
    \/ Len(ch) > 0 /\ Snapshot(ch, st, 1)

OrderInv ==
    /\ status = "none"
    /\ WireRows(held)
    /\ \E st : Tells(channel, base, st) /\ Expects(channel, st, held)

LEMMA OrderInvInit == Init => OrderInv
<1> SUFFICES ASSUME Init PROVE OrderInv
  OBVIOUS
<1>1. base \in Sets /\ channel = <<Full(base)>> /\ held = ZeroSet /\ status = "none"
  BY DEF Init
<1> DEFINE st == [k \in 0 .. 1 |-> base]
<1>2. Len(channel) = 1 /\ channel[1] = Full(base)
  BY <1>1
<1>3. Tells(channel, base, st)
  BY <1>1, <1>2 DEF Tells, Snapshot
<1>4. Expects(channel, st, held)
  BY <1>2 DEF Expects, Snapshot
<1>5. WireRows(held)
  BY <1>1 DEF WireRows, ZeroSet
<1> QED
  BY <1>1, <1>3, <1>4, <1>5 DEF OrderInv

\* One more payload tells one more state.
LEMMA TellsMore ==
    ASSUME NEW ch, NEW S, ch \in Seq(S), NEW m \in S, NEW b, NEW st, Tells(ch, b, st),
           NEW next \in Sets,
           \/ m = Full(next)
           \/ m = Delta(DiffGenericSets(b, next)) /\ Diffable(b, next)
    PROVE  \E more : /\ Tells(Append(ch, m), next, more)
                     /\ \A h : Expects(ch, st, h) => Expects(Append(ch, m), more, h)
<1> DEFINE n == Len(ch)
           ext == Append(ch, m)
           more == [k \in 0 .. n + 1 |-> IF k = n + 1 THEN next ELSE st[k]]
<1>1. /\ n \in Nat
      /\ Len(ext) = n + 1
      /\ ext[n + 1] = m
      /\ \A k \in 1 .. n : ext[k] = ch[k]
  OBVIOUS
<1>2. st \in [0 .. n -> Sets] /\ st[n] = b
  BY DEF Tells
<1>3. /\ more \in [0 .. n + 1 -> Sets]
      /\ more[n + 1] = next
      /\ \A k \in 0 .. n : more[k] = st[k]
  BY <1>1, <1>2
<1> HIDE DEF more, ext, n
<1>4. ASSUME NEW k \in 1 .. n
      PROVE  Snapshot(ext, more, k) \/ Change(ext, more, k)
  <2>1. k \in 0 .. n /\ k - 1 \in 0 .. n /\ k \in 1 .. Len(ch)
    BY <1>1 DEF n
  <2>2. Snapshot(ch, st, k) \/ Change(ch, st, k)
    BY <2>1 DEF Tells
  <2>3. more[k] = st[k] /\ more[k - 1] = st[k - 1] /\ ext[k] = ch[k]
    BY <1>1, <1>3, <2>1
  <2> QED
    BY <2>2, <2>3 DEF Snapshot, Change
<1>5. Snapshot(ext, more, n + 1) \/ Change(ext, more, n + 1)
  <2>1. (n + 1) - 1 = n /\ n \in 0 .. n
    BY <1>1
  <2>2. more[n + 1] = next /\ more[(n + 1) - 1] = b /\ ext[n + 1] = m
    BY <1>1, <1>2, <1>3, <2>1
  <2> QED
    BY <2>2 DEF Snapshot, Change
<1>6. Tells(ext, next, more)
  BY <1>1, <1>3, <1>4, <1>5 DEF Tells
<1>7. ASSUME NEW h, Expects(ch, st, h) PROVE Expects(ext, more, h)
  <2>1. more[0] = st[0]
    BY <1>1, <1>3
  <2>2. n > 0 => ext[1] = ch[1] /\ more[1] = st[1]
    BY <1>1, <1>3
  <2> QED
    BY <1>1, <1>7, <2>1, <2>2 DEF Expects, Snapshot, n
<1> QED
  BY <1>6, <1>7 DEF ext

\* The first payload is received.
LEMMA TellsRest ==
    ASSUME NEW ch, NEW S, ch \in Seq(S), ch # << >>, NEW b, NEW st, Tells(ch, b, st)
    PROVE  \E rest : Tells(Tail(ch), b, rest) /\ rest[0] = st[1]
<1> DEFINE n == Len(ch)
           tl == Tail(ch)
           rest == [k \in 0 .. n - 1 |-> st[k + 1]]
<1>1. /\ n \in Nat /\ n > 0
      /\ Len(tl) = n - 1
      /\ \A k \in 1 .. n - 1 : tl[k] = ch[k + 1]
  OBVIOUS
<1>2. st \in [0 .. n -> Sets] /\ st[n] = b
  BY DEF Tells
<1>3. /\ rest \in [0 .. n - 1 -> Sets]
      /\ \A k \in 0 .. n - 1 : rest[k] = st[k + 1]
  BY <1>1, <1>2
<1> HIDE DEF rest, tl, n
<1>4. rest[n - 1] = b /\ rest[0] = st[1]
  BY <1>1, <1>2, <1>3
<1>5. ASSUME NEW k \in 1 .. n - 1
      PROVE  Snapshot(tl, rest, k) \/ Change(tl, rest, k)
  <2>1. k \in 0 .. n - 1 /\ k - 1 \in 0 .. n - 1 /\ k + 1 \in 1 .. n
    BY <1>1
  <2>2. Snapshot(ch, st, k + 1) \/ Change(ch, st, k + 1)
    BY <2>1 DEF Tells, n
  <2>3. (k - 1) + 1 = k /\ (k + 1) - 1 = k
    BY <1>1
  <2>4. rest[k] = st[k + 1] /\ rest[k - 1] = st[k] /\ tl[k] = ch[k + 1]
    BY <1>1, <1>3, <2>1, <2>3
  <2> QED
    BY <2>2, <2>3, <2>4 DEF Snapshot, Change
<1> QED
  BY <1>1, <1>3, <1>4, <1>5 DEF Tells, tl

\* The payload that arrives first.
LEMMA FirstArrives ==
    ASSUME KeysAreColumns, ChannelInv, channel # << >>, Receive(1), WireRows(held),
           NEW st, Tells(channel, base, st), Expects(channel, st, held)
    PROVE  Holds(held', st[1]) /\ WireRows(held') /\ status' = "none"
<1>1. 1 \in DOMAIN channel /\ 1 \in 1 .. Len(channel) /\ Len(channel) \in Nat
  BY DEF ChannelInv
<1>2. st[0] \in Sets /\ st[1] \in Sets
  BY <1>1 DEF Tells
<1>3. CASE Snapshot(channel, st, 1)
  BY <1>1, <1>2, <1>3, FullArrives DEF Snapshot
<1>4. CASE Change(channel, st, 1) /\ Holds(held, st[0])
  <2>1. /\ channel[1] = Delta(DiffGenericSets(st[0], st[1]))
        /\ Diffable(st[0], st[1])
    BY <1>4 DEF Change
  <2> QED
    BY <1>1, <1>2, <1>4, <2>1, DeltaArrives
<1> QED
  BY <1>1, <1>3, <1>4 DEF Tells, Expects

\* What a step is on such a channel.
LEMMA OrderlyStep ==
    ASSUME OrderlyChannel, [Next]_vars
    PROVE  \/ UNCHANGED <<base, channel, held, status>>
           \/ /\ UNCHANGED <<held, status>>
              /\ \E next \in Sets : /\ base' = next
                                    /\ \/ channel' = Append(channel, Full(next))
                                       \/ /\ channel' = Append(channel, Delta(DiffGenericSets(base, next)))
                                          /\ Diffable(base, next)
           \/ /\ UNCHANGED <<held, status, base>>
              /\ channel' = Append(channel, Full(base))
           \/ /\ channel # << >> /\ channel' = Tail(channel)
              /\ base' = base /\ Receive(1)
<1>1. ASSUME NEW next \in Sets, NextCall(next)
      PROVE  /\ UNCHANGED <<held, status>>
             /\ \/ UNCHANGED <<base, channel>>
                \/ /\ base' = next
                   /\ \/ channel' = Append(channel, Full(next))
                      \/ /\ channel' = Append(channel, Delta(DiffGenericSets(base, next)))
                         /\ Diffable(base, next)
  BY <1>1 DEF NextCall, NextOnNewSchema, NextFails, NextOnCadence, NextAsDelta, reanchor,
              SendFull, Send, consumer
<1>2. CASE CurrentFull
  BY <1>2 DEF CurrentFull, SendFull, Send, session, consumer
<1>3. CASE Deliver
  BY <1>3 DEF Deliver, session
<1>4. ~DeliverCopy
  BY DEF OrderlyChannel, DeliverCopy
<1>5. \A k \in DOMAIN channel : ~Lose(k) /\ ~Overtake(k)
  BY DEF OrderlyChannel, Lose, Overtake
<1>6. CASE UNCHANGED vars
  BY <1>6 DEF vars, session, consumer
<1> QED
  BY <1>1, <1>2, <1>3, <1>4, <1>5, <1>6 DEF Next

LEMMA OrderInvStep ==
    ASSUME KeysAreColumns, OrderlyChannel
    PROVE  ChannelInv /\ OrderInv /\ [Next]_vars => OrderInv'
<1> SUFFICES ASSUME ChannelInv, OrderInv, [Next]_vars PROVE OrderInv'
  OBVIOUS
<1> DEFINE P == Fulls \cup Deltas
<1>1. channel \in Seq(P) /\ base \in Sets
  BY DEF ChannelInv
<1>2. PICK st : Tells(channel, base, st) /\ Expects(channel, st, held)
  BY DEF OrderInv
<1>3. \A s \in Sets : Full(s) \in P
  BY DEF Fulls
<1>4. \A s, t \in Sets : Delta(DiffGenericSets(s, t)) \in P
  BY DEF Deltas
<1> HIDE DEF P
<1>5. CASE UNCHANGED <<base, channel, held, status>>
  BY <1>5 DEF OrderInv, WireRows
<1>6. ASSUME UNCHANGED <<held, status>>, NEW next \in Sets, base' = next,
             NEW m \in P, channel' = Append(channel, m),
             \/ m = Full(next)
             \/ m = Delta(DiffGenericSets(base, next)) /\ Diffable(base, next)
      PROVE  OrderInv'
  <2>1. PICK more : /\ Tells(Append(channel, m), next, more)
                    /\ \A h : Expects(channel, st, h) => Expects(Append(channel, m), more, h)
    BY <1>1, <1>2, <1>6, TellsMore
  <2>2. Tells(channel', base', more) /\ Expects(channel', more, held')
    BY <1>2, <1>6, <2>1
  <2>3. status' = "none" /\ WireRows(held')
    BY <1>6 DEF OrderInv
  <2> QED
    BY <2>2, <2>3 DEF OrderInv
<1>7. ASSUME channel # << >>, channel' = Tail(channel), base' = base, Receive(1)
      PROVE  OrderInv'
  <2>1. PICK rest : Tells(Tail(channel), base, rest) /\ rest[0] = st[1]
    BY <1>1, <1>2, <1>7, TellsRest
  <2>2. Holds(held', st[1]) /\ WireRows(held') /\ status' = "none"
    BY <1>2, <1>7, FirstArrives DEF OrderInv
  <2>3. Tells(channel', base', rest) /\ Expects(channel', rest, held')
    BY <1>7, <2>1, <2>2 DEF Expects
  <2> QED
    BY <2>2, <2>3 DEF OrderInv
<1>8. ASSUME UNCHANGED <<held, status>>, NEW next \in Sets, base' = next,
             channel' = Append(channel, Full(next))
      PROVE  OrderInv'
  <2> DEFINE m == Full(next)
  <2>1. m \in P /\ channel' = Append(channel, m)
    BY <1>3, <1>8
  <2>2. m = Full(next)
    BY DEF m
  <2>3. UNCHANGED <<held, status>> /\ base' = next
    BY <1>8
  <2> HIDE DEF m
  <2> QED
    BY <1>6, <2>1, <2>2, <2>3
<1>9. ASSUME UNCHANGED <<held, status>>, NEW next \in Sets, base' = next,
             channel' = Append(channel, Delta(DiffGenericSets(base, next))),
             Diffable(base, next)
      PROVE  OrderInv'
  BY <1>1, <1>4, <1>6, <1>9
<1>10. CASE UNCHANGED <<held, status, base>> /\ channel' = Append(channel, Full(base))
  <2>1. /\ UNCHANGED <<held, status>>
        /\ base' = base
        /\ channel' = Append(channel, Full(base))
        /\ base \in Sets
    BY <1>1, <1>10
  <2> QED
    BY <1>8, <2>1
<1> QED
  BY <1>5, <1>7, <1>8, <1>9, <1>10, OrderlyStep

LEMMA OrderCorrect ==
    ASSUME KeysAreColumns, OrderlyChannel
    PROVE  Spec => []OrderInv
<1> QED
  BY OrderInvInit, OrderInvStep, ChannelCorrect, PTL DEF Spec

\* On a channel that loses nothing the consumer accepts every payload
\* (generic_delta_session_test.go:182-184), whatever the states, the policy and
\* the anchors, and whichever calls of Next fail.
THEOREM NothingRejected ==
    ASSUME KeysAreColumns, OrderlyChannel
    PROVE  Spec => []NeverRejects
<1>1. OrderInv => NeverRejects
  BY DEF OrderInv, NeverRejects
<1> QED
  BY <1>1, OrderCorrect, PTL

\* With nothing on its way the consumer holds the producer's key, columns and
\* rows, value for value, as long as the wire tells apart only values whose
\* cells differ (which int64 values beyond 2^53 break, generic_delta.go:60).
THEOREM ConsumerInSync ==
    ASSUME KeysAreColumns, OrderlyChannel, CellsTellValues
    PROVE  Spec => []InSync
<1>1. ChannelInv /\ OrderInv => InSync
  <2> SUFFICES ASSUME ChannelInv, OrderInv, channel = << >> PROVE InSync
    BY DEF InSync
  <2>1. PICK st : Tells(channel, base, st) /\ Expects(channel, st, held)
    BY DEF OrderInv
  <2>2. Len(channel) = 0
    OBVIOUS
  <2>3. Holds(held, base)
    BY <2>1, <2>2 DEF Tells, Expects
  <2>4. RowBag(held.rows) = RowBag([i \in DOMAIN base.rows |-> RowOnWire(base.rows[i], base.fields)])
    BY <2>3, SetShape, HoldsRows DEF ChannelInv, OrderInv
  <2> QED
    BY <2>3, <2>4 DEF InSync, RowBag, Holds
<1> QED
  BY <1>1, OrderCorrect, ChannelCorrect, PTL

\* The roots on their way move as the payloads do.
LEMMA InflightRoots ==
    ASSUME ChannelInv
    PROVE  LET roots(ch) == [k \in DOMAIN ch |-> ch[k].root]
           IN  /\ channel # << >> => /\ roots(channel) # << >>
                                     /\ Head(roots(channel)) = channel[1].root
                                     /\ roots(Tail(channel)) = Tail(roots(channel))
               /\ \A m \in Fulls \cup Deltas :
                     roots(Append(channel, m)) = Append(roots(channel), m.root)
<1> DEFINE P == Fulls \cup Deltas
           roots(ch) == [k \in DOMAIN ch |-> ch[k].root]
<1>1. channel \in Seq(P)
  BY DEF ChannelInv
<1> HIDE DEF P
<1>2. /\ Len(channel) \in Nat /\ DOMAIN channel = 1 .. Len(channel)
      /\ DOMAIN roots(channel) = 1 .. Len(channel)
      /\ Len(roots(channel)) = Len(channel)
      /\ \A k \in 1 .. Len(channel) : roots(channel)[k] = channel[k].root
  BY <1>1
<1>3. roots(channel) \in Seq({channel[k].root : k \in 1 .. Len(channel)})
  BY <1>2
<1>4. ASSUME channel # << >>
      PROVE  /\ roots(channel) # << >>
             /\ Head(roots(channel)) = channel[1].root
             /\ roots(Tail(channel)) = Tail(roots(channel))
  <2>1. Len(channel) > 0
    BY <1>1, <1>4
  <2>2. /\ DOMAIN Tail(channel) = 1 .. Len(channel) - 1
        /\ \A k \in 1 .. Len(channel) - 1 : Tail(channel)[k] = channel[k + 1]
    BY <1>1, <1>4
  <2>3. /\ Tail(roots(channel)) = [k \in 1 .. Len(channel) - 1 |-> roots(channel)[k + 1]]
        /\ Head(roots(channel)) = roots(channel)[1]
    BY <1>2, <1>3, <2>1
  <2>4. \A k \in 1 .. Len(channel) - 1 : roots(channel)[k + 1] = Tail(channel)[k].root
    BY <1>2, <2>2
  <2> QED
    BY <1>2, <2>1, <2>2, <2>3, <2>4
<1>5. ASSUME NEW m \in P
      PROVE  roots(Append(channel, m)) = Append(roots(channel), m.root)
  <2>1. /\ DOMAIN Append(channel, m) = 1 .. Len(channel) + 1
        /\ \A k \in 1 .. Len(channel) + 1 :
              Append(channel, m)[k] = IF k = Len(channel) + 1 THEN m ELSE channel[k]
    BY <1>1
  <2> DEFINE T == {channel[k].root : k \in 1 .. Len(channel)} \cup {m.root}
  <2>2. roots(channel) \in Seq(T) /\ m.root \in T
    BY <1>2
  <2> HIDE DEF T
  <2>3. Append(roots(channel), m.root) =
          [k \in 1 .. Len(channel) + 1 |->
             IF k = Len(channel) + 1 THEN m.root ELSE roots(channel)[k]]
    BY <1>2, <2>2
  <2> QED
    BY <1>2, <2>1, <2>3
<1> QED
  BY <1>4, <1>5 DEF P

Roots(ch) == [k \in DOMAIN ch |-> ch[k].root]

\* What a step of such a session is to SnapshotStream.
LEMMA SnapshotStep ==
    ASSUME KeysAreColumns, OrderlyChannel, ChannelInv, OrderInv, [Next]_vars
    PROVE  [Snapshots!Next]_Snapshots!vars
<1> DEFINE P == Fulls \cup Deltas
           Contents == {GenericPackRoot(s) : s \in Sets}
<1>1. \A m \in P : Roots(Append(channel, m)) = Append(Roots(channel), m.root)
  BY InflightRoots DEF Roots
<1>2. base \in Sets
  BY DEF ChannelInv
<1>3. ASSUME UNCHANGED <<held, status>>, NEW next \in Sets, base' = next,
             NEW m \in P, channel' = Append(channel, m), m.root = GenericPackRoot(next)
      PROVE  Snapshots!Next
  <2>1. Roots(channel') = Append(Roots(channel), GenericPackRoot(next))
    BY <1>1, <1>3
  <2>2. GenericPackRoot(next) \in Contents
    OBVIOUS
  <2>3. GenericPackRoot(base') = GenericPackRoot(next) /\ GenericPackRoot(held') = GenericPackRoot(held)
    BY <1>3
  <2>4. Snapshots!Publish(GenericPackRoot(next))
    BY <2>1, <2>3 DEF Snapshots!Publish, Roots
  <2> QED
    BY <2>2, <2>4 DEF Snapshots!Next
<1>4. ASSUME channel # << >>, channel' = Tail(channel), base' = base, Receive(1)
      PROVE  Snapshots!Next
  <2>1. PICK st : Tells(channel, base, st) /\ Expects(channel, st, held)
    BY DEF OrderInv
  <2>2. Holds(held', st[1])
    BY <1>4, <2>1, FirstArrives DEF OrderInv
  <2>3. channel[1].root = GenericPackRoot(st[1])
    <3>1. 1 \in 1 .. Len(channel)
      BY <1>4 DEF ChannelInv
    <3>2. Snapshot(channel, st, 1) \/ Change(channel, st, 1)
      BY <2>1, <3>1 DEF Tells
    <3> QED
      BY <3>2 DEF Snapshot, Change, Full, Delta, DiffGenericSets
  <2>4. /\ Roots(channel) # << >>
        /\ Head(Roots(channel)) = channel[1].root
        /\ Roots(channel') = Tail(Roots(channel))
    BY <1>4, InflightRoots DEF Roots
  <2>5. GenericPackRoot(held') = Head(Roots(channel)) /\ GenericPackRoot(base') = GenericPackRoot(base)
    BY <1>4, <2>2, <2>3, <2>4 DEF Holds
  <2> QED
    BY <2>4, <2>5 DEF Snapshots!Next, Snapshots!Receive, Roots
<1>5. CASE UNCHANGED <<base, channel, held, status>>
  BY <1>5 DEF Snapshots!vars
<1>6. ASSUME NEW s \in Sets PROVE Full(s) \in P /\ Full(s).root = GenericPackRoot(s)
  BY DEF Fulls, Full
<1>7. ASSUME NEW s \in Sets, NEW t \in Sets
      PROVE  /\ Delta(DiffGenericSets(s, t)) \in P
             /\ Delta(DiffGenericSets(s, t)).root = GenericPackRoot(t)
  <2>1. Delta(DiffGenericSets(s, t)) \in P
    BY DEF Deltas
  <2>2. Delta(DiffGenericSets(s, t)).root = GenericPackRoot(t)
    BY DEF Delta, DiffGenericSets
  <2> QED
    BY <2>1, <2>2
<1> HIDE DEF P
<1>8. ASSUME UNCHANGED <<held, status>>, NEW next \in Sets, base' = next,
             channel' = Append(channel, Full(next))
      PROVE  Snapshots!Next
  <2> DEFINE m == Full(next)
  <2>1. m \in P /\ channel' = Append(channel, m) /\ m.root = GenericPackRoot(next)
    BY <1>6, <1>8
  <2> HIDE DEF m
  <2> QED
    BY <1>3, <1>8, <2>1
<1>9. ASSUME UNCHANGED <<held, status>>, NEW next \in Sets, base' = next,
             channel' = Append(channel, Delta(DiffGenericSets(base, next)))
      PROVE  Snapshots!Next
  <2> DEFINE m == Delta(DiffGenericSets(base, next))
  <2>1. m \in P /\ channel' = Append(channel, m) /\ m.root = GenericPackRoot(next)
    BY <1>2, <1>7, <1>9
  <2> HIDE DEF m
  <2> QED
    BY <1>3, <1>9, <2>1
<1>10. CASE UNCHANGED <<held, status, base>> /\ channel' = Append(channel, Full(base))
  <2>1. /\ UNCHANGED <<held, status>>
        /\ base' = base
        /\ channel' = Append(channel, Full(base))
    BY <1>10
  <2> QED
    BY <1>2, <1>8, <2>1
<1> QED
  BY <1>4, <1>5, <1>8, <1>9, <1>10, OrderlyStep

\* On such a channel a delta stream is as good as sending every state whole
\* (generic_delta_session.go:6-8): the session with its consumer implements
\* SnapshotStream, every state in its order and none skipped.
THEOREM DeltasImplementSnapshots ==
    ASSUME KeysAreColumns, OrderlyChannel
    PROVE  Spec => ImplementsSnapshots
<1>1. Init => Snapshots!Init
  <2> SUFFICES ASSUME Init PROVE Snapshots!Init
    OBVIOUS
  <2>1. base \in Sets /\ channel = <<Full(base)>> /\ held = ZeroSet
    BY DEF Init
  <2>2. [k \in DOMAIN channel |-> channel[k].root] = <<GenericPackRoot(base)>>
    BY <2>1 DEF Full
  <2> QED
    BY <2>1, <2>2 DEF Snapshots!Init
<1>2. ChannelInv /\ OrderInv /\ [Next]_vars => [Snapshots!Next]_Snapshots!vars
  BY SnapshotStep
<1> QED
  BY <1>1, <1>2, OrderCorrect, ChannelCorrect, PTL DEF Spec, ImplementsSnapshots, Snapshots!Spec

-----------------------------------------------------------------------------
(* Any channel.  From the last full payload on, the payloads on their way  *)
(* tell the producer's states one by one up to base; once that full has    *)
(* arrived (f = 0), the consumer holds the state before the first of them, *)
(* or already the state after it when it was delivered and a copy is kept. *)

Mends(ch, b, st, f, h) ==
    /\ f \in 0 .. Len(ch)
    /\ st \in [0 .. Len(ch) -> Sets]
    /\ st[Len(ch)] = b
    /\ \A k \in f + 1 .. Len(ch) : Change(ch, st, k)
    /\ f > 0 => Snapshot(ch, st, f)
    /\ f = 0 => \/ Holds(h, st[0])
                \/ Len(ch) > 0 /\ Holds(h, st[1])

MendInv == missing \/ \E st, f : Mends(channel, base, st, f, held)

\* A full payload is appended.
LEMMA MendsAnew ==
    ASSUME NEW ch, NEW S, ch \in Seq(S), NEW next \in Sets, Full(next) \in S, NEW h
    PROVE  \E st, f : Mends(Append(ch, Full(next)), next, st, f, h)
<1> DEFINE n == Len(ch)
           ext == Append(ch, Full(next))
           st == [k \in 0 .. n + 1 |-> next]
<1>1. n \in Nat /\ Len(ext) = n + 1 /\ ext[n + 1] = Full(next)
  OBVIOUS
<1>2. st \in [0 .. n + 1 -> Sets] /\ st[n + 1] = next
  BY <1>1
<1> HIDE DEF n, ext, st
<1>3. n + 1 \in 0 .. n + 1 /\ n + 1 # 0 /\ \A k \in (n + 1) + 1 .. n + 1 : FALSE
  BY <1>1
<1>4. Mends(ext, next, st, n + 1, h)
  BY <1>1, <1>2, <1>3 DEF Mends, Snapshot
<1> QED
  BY <1>4 DEF ext

\* A delta is appended.
LEMMA MendsMore ==
    ASSUME NEW ch, NEW S, ch \in Seq(S), NEW b, NEW st, NEW f, NEW h, Mends(ch, b, st, f, h),
           NEW next \in Sets, Diffable(b, next), NEW m \in S,
           m = Delta(DiffGenericSets(b, next))
    PROVE  \E more : Mends(Append(ch, m), next, more, f, h)
<1> DEFINE n == Len(ch)
           ext == Append(ch, m)
           more == [k \in 0 .. n + 1 |-> IF k = n + 1 THEN next ELSE st[k]]
<1>1. /\ n \in Nat
      /\ Len(ext) = n + 1
      /\ ext[n + 1] = m
      /\ \A k \in 1 .. n : ext[k] = ch[k]
  OBVIOUS
<1>2. st \in [0 .. n -> Sets] /\ st[n] = b /\ f \in 0 .. n
  BY DEF Mends
<1>3. /\ more \in [0 .. n + 1 -> Sets]
      /\ more[n + 1] = next
      /\ \A k \in 0 .. n : more[k] = st[k]
  BY <1>1, <1>2
<1> HIDE DEF more, ext, n
<1>4. ASSUME NEW k \in f + 1 .. n + 1 PROVE Change(ext, more, k)
  <2>1. CASE k = n + 1
    <3>1. (n + 1) - 1 = n /\ n \in 0 .. n
      BY <1>1
    <3>2. more[n + 1] = next /\ more[(n + 1) - 1] = b /\ ext[n + 1] = m
      BY <1>1, <1>2, <1>3, <3>1
    <3> QED
      BY <2>1, <3>2 DEF Change
  <2>2. CASE k # n + 1
    <3>1. k \in f + 1 .. n /\ k \in 1 .. n /\ k \in 0 .. n /\ k - 1 \in 0 .. n
      BY <1>1, <1>2, <2>2
    <3>2. Change(ch, st, k)
      BY <3>1 DEF Mends, n
    <3>3. more[k] = st[k] /\ more[k - 1] = st[k - 1] /\ ext[k] = ch[k]
      BY <1>1, <1>3, <3>1
    <3> QED
      BY <3>2, <3>3 DEF Change
  <2> QED
    BY <2>1, <2>2
<1>5. ASSUME f > 0 PROVE Snapshot(ext, more, f)
  <2>1. f \in 1 .. n /\ f \in 0 .. n
    BY <1>1, <1>2, <1>5
  <2>2. Snapshot(ch, st, f)
    BY <1>5 DEF Mends
  <2> QED
    BY <1>1, <1>3, <2>1, <2>2 DEF Snapshot
<1>6. ASSUME f = 0 PROVE Holds(h, more[0]) \/ Holds(h, more[1])
  <2>1. Holds(h, st[0]) \/ (n > 0 /\ Holds(h, st[1]))
    BY <1>6 DEF Mends, n
  <2>2. more[0] = st[0] /\ (n > 0 => more[1] = st[1])
    BY <1>1, <1>3
  <2> QED
    BY <2>1, <2>2
<1>7. Mends(ext, next, more, f, h)
  BY <1>1, <1>2, <1>3, <1>4, <1>5, <1>6 DEF Mends
<1> QED
  BY <1>7 DEF ext

\* The payload at position k leaves the channel: it came before the last full,
\* or it is the first and the consumer now holds the state it told of.
LEMMA MendsShorter ==
    ASSUME NEW ch, NEW rest, NEW b, NEW st, NEW f, NEW h, Mends(ch, b, st, f, h),
           Len(ch) \in Nat, NEW k \in 1 .. Len(ch),
           Len(rest) = Len(ch) - 1,
           \A i \in 1 .. Len(ch) - 1 : rest[i] = ch[IF i < k THEN i ELSE i + 1],
           NEW g,
           \/ k < f
           \/ k = 1 /\ f \in 0 .. 1 /\ Holds(g, st[1])
    PROVE  \E st2, f2 : Mends(rest, b, st2, f2, g)
<1> DEFINE n == Len(ch)
           st2 == [i \in 0 .. n - 1 |-> st[i + 1]]
           f2 == IF f = 0 THEN 0 ELSE f - 1
<1>1. n \in Nat /\ n > 0 /\ Len(rest) = n - 1 /\ f \in 0 .. n
  BY DEF Mends
<1>2. st \in [0 .. n -> Sets] /\ st[n] = b
  BY DEF Mends
<1>3. /\ st2 \in [0 .. n - 1 -> Sets]
      /\ \A i \in 0 .. n - 1 : st2[i] = st[i + 1]
  BY <1>1, <1>2
<1>4. f2 \in 0 .. n - 1 /\ f <= f2 + 1 /\ k <= f2 + 1
  BY <1>1
<1>5. f2 > 0 => /\ f2 = f - 1 /\ k < f /\ f > 0
  BY <1>1
<1>6. f2 = 0 => k = 1 /\ f \in 0 .. 1 /\ Holds(g, st[1])
  BY <1>1
<1>7. \A i \in 1 .. n - 1 : rest[i] = ch[IF i < k THEN i ELSE i + 1]
  OBVIOUS
<1> HIDE DEF st2, f2, n
<1>8. st2[n - 1] = b /\ st2[0] = st[1]
  BY <1>1, <1>2, <1>3
<1>9. ASSUME NEW i \in f2 + 1 .. n - 1 PROVE Change(rest, st2, i)
  <2>1. /\ i \in 0 .. n - 1 /\ i - 1 \in 0 .. n - 1 /\ i \in 1 .. n - 1
        /\ i + 1 \in f + 1 .. n /\ ~(i < k)
    BY <1>1, <1>4
  <2>2. Change(ch, st, i + 1)
    BY <2>1 DEF Mends, n
  <2>3. (i - 1) + 1 = i /\ (i + 1) - 1 = i
    BY <1>1, <1>4
  <2>4. rest[i] = ch[i + 1]
    BY <1>7, <2>1
  <2>5. st2[i] = st[i + 1] /\ st2[i - 1] = st[i]
    BY <1>3, <2>1, <2>3
  <2> QED
    BY <2>2, <2>3, <2>4, <2>5 DEF Change
<1>10. ASSUME f2 > 0 PROVE Snapshot(rest, st2, f2)
  <2>1. f2 \in 1 .. n - 1 /\ f2 \in 0 .. n - 1 /\ ~(f2 < k) /\ f2 + 1 = f
    BY <1>1, <1>4, <1>5, <1>10
  <2>2. Snapshot(ch, st, f)
    BY <1>5, <1>10 DEF Mends
  <2>3. rest[f2] = ch[f] /\ st2[f2] = st[f]
    BY <1>3, <1>7, <2>1
  <2> QED
    BY <2>2, <2>3 DEF Snapshot
<1>11. f2 = 0 => Holds(g, st2[0])
  BY <1>6, <1>8
<1>12. Mends(rest, b, st2, f2, g)
  BY <1>1, <1>3, <1>4, <1>8, <1>9, <1>10, <1>11 DEF Mends
<1> QED
  BY <1>12

\* What a step is to the payloads and the two ends, whatever the channel does.
LEMMA MendStep ==
    ASSUME [Next]_vars
    PROVE  \/ UNCHANGED <<base, channel, held, missing>>
           \/ \E next \in Sets \cup {base} : /\ base' = next
                                           /\ channel' = Append(channel, Full(next))
           \/ /\ UNCHANGED <<held, missing>>
              /\ \E next \in Sets : /\ base' = next
                                    /\ channel' = Append(channel, Delta(DiffGenericSets(base, next)))
                                    /\ Diffable(base, next)
           \/ /\ channel # << >> /\ Receive(1)
              /\ channel' \in {channel, Tail(channel)}
              /\ UNCHANGED <<base, missing>>
           \/ \E k \in DOMAIN channel : /\ channel' = Without(k)
                                         /\ base' = base
                                         /\ missing' = (missing \/ AfterLastFull(k))
<1>1. ASSUME NEW next \in Sets, NextCall(next)
      PROVE  \/ UNCHANGED <<base, channel, held, missing>>
             \/ base' = next /\ channel' = Append(channel, Full(next))
             \/ /\ UNCHANGED <<held, missing>>
                /\ base' = next
                /\ channel' = Append(channel, Delta(DiffGenericSets(base, next)))
                /\ Diffable(base, next)
  BY <1>1 DEF NextCall, NextOnNewSchema, NextFails, NextOnCadence, NextAsDelta, reanchor,
              SendFull, Send, consumer
<1>2. CASE CurrentFull
  BY <1>2 DEF CurrentFull, SendFull, Send, session
<1>3. CASE Deliver
  BY <1>3 DEF Deliver, session, history
<1>4. CASE DeliverCopy
  BY <1>4 DEF DeliverCopy, session, history
<1>5. ASSUME NEW k \in DOMAIN channel, Lose(k)
      PROVE  channel' = Without(k) /\ base' = base /\ missing' = (missing \/ AfterLastFull(k))
  BY <1>5 DEF Lose, session
<1>6. ASSUME NEW k \in DOMAIN channel, Overtake(k)
      PROVE  channel' = Without(k) /\ base' = base /\ missing' = (missing \/ AfterLastFull(k))
  BY <1>6 DEF Overtake, session
<1>7. CASE UNCHANGED vars
  BY <1>7 DEF vars, session, consumer, history
<1> QED
  BY <1>1, <1>2, <1>3, <1>4, <1>5, <1>6, <1>7 DEF Next

\* The first payload arrives, and leaves the channel or stays as a copy.
LEMMA MendArrives ==
    ASSUME KeysAreColumns, ChannelInv, channel # << >>, Receive(1),
           NEW st, NEW f, Mends(channel, base, st, f, held), f \in 0 .. 1
    PROVE  Holds(held', st[1])
<1>1. 1 \in DOMAIN channel /\ 1 \in 1 .. Len(channel) /\ Len(channel) \in Nat
  BY DEF ChannelInv
<1>2. st[0] \in Sets /\ st[1] \in Sets
  BY <1>1 DEF Mends
<1>3. CASE f = 1
  BY <1>1, <1>2, <1>3, FullArrives DEF Mends, Snapshot
<1>4. CASE f = 0
  <2>1. 1 \in f + 1 .. Len(channel)
    BY <1>1, <1>4
  <2>2. Change(channel, st, 1)
    BY <2>1 DEF Mends
  <2>3. channel[1] = Delta(DiffGenericSets(st[0], st[1])) /\ Diffable(st[0], st[1])
    BY <2>2 DEF Change
  <2>4. Holds(held, st[0]) \/ Holds(held, st[1])
    BY <1>4 DEF Mends
  <2> QED
    BY <1>1, <1>2, <2>3, <2>4, DeltaArrives, DeltaArrivesAgain
<1> QED
  BY <1>3, <1>4

\* A payload that leaves the channel early with a full after it came before the
\* last full.
LEMMA LeavesBefore ==
    ASSUME ChannelInv, NEW k \in DOMAIN channel, ~AfterLastFull(k),
           NEW st, NEW f, Mends(channel, base, st, f, held)
    PROVE  k < f
<1>1. Len(channel) \in Nat /\ DOMAIN channel = 1 .. Len(channel)
  BY DEF ChannelInv
<1>2. PICK i \in k + 1 .. Len(channel) : channel[i].kind # "delta"
  BY DEF AfterLastFull
<1>3. ASSUME i \in f + 1 .. Len(channel) PROVE FALSE
  <2>1. Change(channel, st, i)
    BY <1>3 DEF Mends
  <2>2. channel[i].kind = "delta"
    BY <2>1 DEF Change, Delta
  <2> QED
    BY <1>2, <2>2
<1>4. f \in 0 .. Len(channel)
  BY DEF Mends
<1> QED
  BY <1>1, <1>2, <1>3, <1>4

LEMMA MendInvInit == Init => MendInv
<1> SUFFICES ASSUME Init PROVE MendInv
  OBVIOUS
<1>1. base \in Sets /\ channel = <<Full(base)>>
  BY DEF Init
<1> DEFINE st == [k \in 0 .. 1 |-> base]
<1>2. Len(channel) = 1 /\ channel[1] = Full(base)
  BY <1>1
<1>3. Mends(channel, base, st, 1, held)
  BY <1>1, <1>2 DEF Mends, Snapshot
<1> QED
  BY <1>3 DEF MendInv

LEMMA MendInvStep ==
    ASSUME KeysAreColumns
    PROVE  ChannelInv /\ MendInv /\ [Next]_vars => MendInv'
<1> SUFFICES ASSUME ChannelInv, MendInv, [Next]_vars, ~missing' PROVE MendInv'
  BY DEF MendInv
<1> DEFINE P == Fulls \cup Deltas
<1>1. channel \in Seq(P) /\ base \in Sets
  BY DEF ChannelInv
<1>2. /\ \A s \in Sets : Full(s) \in P
      /\ \A s, t \in Sets : Delta(DiffGenericSets(s, t)) \in P
  BY DEF Fulls, Deltas
<1> HIDE DEF P
<1>3. Len(channel) \in Nat /\ DOMAIN channel = 1 .. Len(channel)
  BY <1>1
<1>4. ASSUME NEW st, NEW f, Mends(channel', base', st, f, held') PROVE MendInv'
  BY <1>4 DEF MendInv
<1>5. CASE UNCHANGED <<base, channel, held, missing>>
  BY <1>5 DEF MendInv
<1>6. ASSUME NEW next \in Sets, base' = next, channel' = Append(channel, Full(next))
      PROVE  MendInv'
  <2>1. PICK st, f : Mends(Append(channel, Full(next)), next, st, f, held')
    BY <1>1, <1>2, MendsAnew
  <2> QED
    BY <1>4, <1>6, <2>1
<1>7. ASSUME UNCHANGED <<held, missing>>, NEW next \in Sets, base' = next,
             channel' = Append(channel, Delta(DiffGenericSets(base, next))),
             Diffable(base, next)
      PROVE  MendInv'
  <2> DEFINE m == Delta(DiffGenericSets(base, next))
  <2>1. m \in P
    BY <1>1, <1>2
  <2>2. m = Delta(DiffGenericSets(base, next)) /\ channel' = Append(channel, m)
    BY <1>7
  <2> HIDE DEF m
  <2>3. PICK st, f : Mends(channel, base, st, f, held)
    BY <1>7 DEF MendInv
  <2>4. PICK more : Mends(Append(channel, m), next, more, f, held)
    BY <1>1, <1>7, <2>1, <2>2, <2>3, MendsMore
  <2> QED
    BY <1>4, <1>7, <2>2, <2>4
<1>8. ASSUME channel # << >>, Receive(1), channel' \in {channel, Tail(channel)},
             UNCHANGED <<base, missing>>
      PROVE  MendInv'
  <2>1. PICK st, f : Mends(channel, base, st, f, held)
    BY <1>8 DEF MendInv
  <2>2. f \in 0 .. Len(channel) /\ Len(channel) > 0
    BY <1>1, <1>8, <2>1 DEF Mends
  <2>3. f \in 0 .. 1 => Holds(held', st[1])
    BY <1>8, <2>1, MendArrives
  <2>4. CASE channel' = Tail(channel)
    <3>1. /\ Len(Tail(channel)) = Len(channel) - 1
          /\ \A i \in 1 .. Len(channel) - 1 :
                Tail(channel)[i] = channel[IF i < 1 THEN i ELSE i + 1]
      BY <1>1, <1>8
    <3>2. 1 \in 1 .. Len(channel)
      BY <1>3, <2>2
    <3>3. \/ 1 < f
          \/ 1 = 1 /\ f \in 0 .. 1 /\ Holds(held', st[1])
      BY <1>3, <2>2, <2>3
    <3>4. PICK st2, f2 : Mends(Tail(channel), base, st2, f2, held')
      BY <1>3, <2>1, <3>1, <3>2, <3>3, MendsShorter
    <3> QED
      BY <1>4, <1>8, <2>4, <3>4
  <2>5. CASE channel' = channel
    <3>1. f = 0 => Holds(held', st[1])
      BY <2>2, <2>3
    <3>2. Mends(channel, base, st, f, held')
      BY <2>1, <2>2, <3>1 DEF Mends
    <3> QED
      BY <1>4, <1>8, <2>5, <3>2
  <2> QED
    BY <1>8, <2>4, <2>5
<1>9. ASSUME NEW k \in DOMAIN channel, channel' = Without(k), base' = base,
             missing' = (missing \/ AfterLastFull(k))
      PROVE  MendInv'
  <2>1. ~missing /\ ~AfterLastFull(k)
    BY <1>9
  <2>2. PICK st, f : Mends(channel, base, st, f, held)
    BY <2>1 DEF MendInv
  <2>3. k < f
    BY <2>1, <2>2, LeavesBefore
  <2>4. k \in 1 .. Len(channel)
    BY <1>3
  <2>5. /\ Len(Without(k)) = Len(channel) - 1
        /\ \A i \in 1 .. Len(channel) - 1 :
              Without(k)[i] = channel[IF i < k THEN i ELSE i + 1]
    BY <1>3, <2>4 DEF Without
  <2>6. PICK st2, f2 : Mends(Without(k), base, st2, f2, held')
    BY <1>3, <2>2, <2>3, <2>4, <2>5, MendsShorter
  <2> QED
    BY <1>4, <1>9, <2>6
<1> QED
  BY <1>1, <1>5, <1>6, <1>7, <1>8, <1>9, MendStep

\* What the channel lost, repeated or reordered before the last full payload
\* does not matter: with that payload and the deltas after it received in order,
\* the consumer has the producer's content (what a re-anchor is for,
\* generic_delta_session.go:3-8), for every policy and number of faults.
THEOREM AnchorsHeal ==
    ASSUME KeysAreColumns
    PROVE  Spec => []AnchorHeals
<1>1. MendInv => AnchorHeals
  <2> SUFFICES ASSUME MendInv, channel = << >>, ~missing
               PROVE  GenericPackRoot(held) = GenericPackRoot(base)
    BY DEF AnchorHeals
  <2>1. PICK st, f : Mends(channel, base, st, f, held)
    BY DEF MendInv
  <2>2. Len(channel) = 0
    OBVIOUS
  <2>3. Holds(held, base)
    BY <2>1, <2>2 DEF Mends
  <2> QED
    BY <2>3 DEF Holds
<1> QED
  BY <1>1, MendInvInit, MendInvStep, ChannelCorrect, PTL DEF Spec
=============================================================================
