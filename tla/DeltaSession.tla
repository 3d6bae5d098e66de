---------------------------- MODULE DeltaSession ----------------------------
(***************************************************************************)
(* A producer that runs a GenericDeltaSession (generic_delta_session.go),  *)
(* the channel its payloads travel on, and the consumer loop that the      *)
(* package's tests give: a full payload is decoded and held, a delta is    *)
(* decoded and applied with VerifyGenericDelta, and on an error the        *)
(* consumer keeps the set it holds.                                        *)
(*                                                                         *)
(* The session has no lock and is used by one goroutine, so a call of Next *)
(* is a step.  Payload lengths are counted as a header, section headers    *)
(* and lines of fixed length.                                              *)
(*                                                                         *)
(* A definition marked "Mutant" is a broken variant of the one after it,   *)
(* kept to show which property notices the mistake; nothing uses it.       *)
(***************************************************************************)
EXTENDS GenericDelta

CONSTANTS
    Sets,         \* the states the application hands to the session
    Policies,     \* the policies a session may be created with
    FullHead, DeltaHead, SectionHead, RowLen, IdLen,  \* bytes of a line
    Period,       \* bound: turn is kept modulo this multiple of the cadence
    MaxCum,       \* bound: cum, which failing anchor turns would let grow
    MaxInFlight,  \* bound: payloads in the channel
    MaxFaults,    \* bound: losses, duplications and reorderings
    MayLose, MayDuplicate, MayReorder  \* what the channel may do

DefaultReanchorN == 15

\* FixedN(n) and NewGenericDeltaSession both replace n <= 0.
Cadence(p) == IF p.n <= 0 THEN DefaultReanchorN ELSE p.n

ASSUME PolicyAssumption ==
    /\ Policies \subseteq [mode : {"FixedN", "SizeGuard"}, n : Int]
    /\ Period \in Nat \ {0}
    /\ \A p \in Policies : Period % Cadence(p) = 0

ASSUME LengthsAssumption ==
    /\ FullHead \in Nat \ {0}
    /\ {DeltaHead, SectionHead, RowLen, IdLen} \subseteq Nat

ASSUME SetsAssumption ==
    \A s \in Sets :
        /\ s = [key |-> s.key, fields |-> s.fields, rows |-> s.rows]
        /\ s.key \in Columns \cup {NoKey}
        /\ s.fields \in Seq(Columns)
        /\ DOMAIN s.rows = 1 .. Len(s.rows)
        /\ Len(s.rows) \in Nat
        /\ \A i \in DOMAIN s.rows : /\ DOMAIN s.rows[i] \subseteq Columns
                                    /\ Range(s.rows[i]) \subseteq Values

ASSUME ChannelAssumption ==
    /\ MaxInFlight \in Nat \ {0}
    /\ MaxCum \in Nat
    /\ MaxFaults \in Nat
    /\ {MayLose, MayDuplicate, MayReorder} \subseteq BOOLEAN

VARIABLES
    base, policy, turn, cum,  \* the fields of GenericDeltaSession
    answer,           \* what the last Next returned: "full", "delta", "error"
    channel,          \* payloads on their way
    held,             \* the consumer's set
    status,           \* what its last apply returned: "none" or the error
    faults,           \* channel faults so far
    \* History, read by the properties only:
    spent, gap,       \* delta bytes, and deltas, since the last full
    skipped,          \* since then a call of Next failed on an anchor turn
    missing           \* the last full, or a payload after it, was lost or came early

session == <<base, policy, turn, cum, answer>>
consumer == <<held, status>>
history == <<spent, gap, skipped, missing>>
vars == <<session, channel, consumer, faults, history>>

\* The zero GenericSet.
ZeroSet == [key |-> NoKey, fields |-> << >>, rows |-> << >>]

-----------------------------------------------------------------------------
(* Lengths of the payloads.                                                *)

FullLen(s) == FullHead + RowLen * Len(s.rows)

SectionLen(lines, len) == IF lines = {} THEN 0 ELSE SectionHead + len * Cardinality(lines)

DeltaLen(d) ==
    DeltaHead + SectionLen(d.added, RowLen) + SectionLen(d.changed, RowLen)
              + SectionLen(d.removed, IdLen)

-----------------------------------------------------------------------------
(* The producer.                                                           *)

Send(m) ==
    /\ Len(channel) < MaxInFlight
    /\ channel' = Append(channel, m)

SendFull(s) ==
    /\ Send(Full(s))
    /\ spent' = 0
    /\ gap' = 0
    /\ skipped' = FALSE
    /\ missing' = FALSE

\* Mutant: the full payload is credited to the counter instead.
reanchorWithCredit(next) ==
    /\ SendFull(next)
    /\ base' = next
    /\ cum' = cum - FullLen(next)
    /\ answer' = "full"

\* Mutant: the payload is built from the base before next replaces it.
reanchorOnOldBase(next) ==
    /\ SendFull(base)
    /\ base' = next
    /\ cum' = 0
    /\ answer' = "full"

\* Mutant: the payload goes out and the base stays.
reanchorKeepingBase(next) ==
    /\ SendFull(next)
    /\ base' = base
    /\ cum' = 0
    /\ answer' = "full"

reanchor(next) ==
    /\ SendFull(next)
    /\ base' = next
    /\ cum' = 0
    /\ answer' = "full"

\* Mutant: an anchor after every n deltas.
AnchorDueLate(d, next) ==
    \/ policy.mode = "SizeGuard" /\ cum + DeltaLen(d) >= FullLen(next)
    \/ policy.mode = "FixedN" /\ turn' % (Cadence(policy) + 1) = 0

\* Mutant: this turn's delta is left out of the size guard.
AnchorDueBefore(d, next) ==
    \/ policy.mode = "SizeGuard" /\ cum >= FullLen(next)
    \/ policy.mode = "FixedN" /\ turn' % Cadence(policy) = 0

\* The policy's decision on a turn whose diff is d.
AnchorDue(d, next) ==
    \/ policy.mode = "SizeGuard" /\ cum + DeltaLen(d) >= FullLen(next)
    \/ policy.mode = "FixedN" /\ turn' % Cadence(policy) = 0

\* The outcomes of Next(next), after turn++.
NextOnNewSchema(next) ==
    /\ ~SameSchema(base, next)
    /\ reanchor(next)

NextFails(next) ==
    /\ SameSchema(base, next)
    /\ ~Diffable(base, next)
    /\ answer' = "error"
    /\ skipped' = (skipped \/ turn' % Cadence(policy) = 0)
    /\ UNCHANGED <<base, cum, channel, spent, gap, missing>>

NextOnCadence(next) ==
    /\ Diffable(base, next)
    /\ AnchorDue(DiffGenericSets(base, next), next)
    /\ reanchor(next)

\* Mutant: the base is advanced only by an anchor.
NextAsDeltaFromAnchor(next) ==
    LET d == DiffGenericSets(base, next)
    IN  /\ Diffable(base, next)
        /\ ~AnchorDue(d, next)
        /\ cum + DeltaLen(d) <= MaxCum
        /\ Send(Delta(d))
        /\ base' = base
        /\ cum' = cum + DeltaLen(d)
        /\ answer' = "delta"
        /\ spent' = spent + DeltaLen(d)
        /\ gap' = gap + 1
        /\ UNCHANGED <<skipped, missing>>

NextAsDelta(next) ==
    LET d == DiffGenericSets(base, next)
    IN  /\ Diffable(base, next)
        /\ ~AnchorDue(d, next)
        /\ cum + DeltaLen(d) <= MaxCum
        /\ Send(Delta(d))
        /\ base' = next
        /\ cum' = cum + DeltaLen(d)
        /\ answer' = "delta"
        /\ spent' = spent + DeltaLen(d)
        /\ gap' = gap + 1
        /\ UNCHANGED <<skipped, missing>>

\* Next(next): whatever the outcome, the turn has been counted.
NextCall(next) ==
    /\ Len(channel) < MaxInFlight
    /\ turn' = (turn + 1) % Period
    /\ \/ NextOnNewSchema(next)
       \/ NextFails(next)
       \/ NextOnCadence(next)
       \/ NextAsDelta(next)
    /\ UNCHANGED <<policy, consumer, faults>>

\* CurrentFull, sent as a manual anchor: the session does not notice.
CurrentFull ==
    /\ SendFull(base)
    /\ UNCHANGED <<session, consumer, faults>>

-----------------------------------------------------------------------------
(* The consumer.                                                           *)

\* The payload at position k of the channel arrives.
Receive(k) ==
    LET m == channel[k]
    IN  \/ /\ m.kind = "full"
           /\ held' = m.set
           /\ status' = "none"
        \/ /\ m.kind = "delta"
           /\ \E r \in VerifyGenericDelta(held, m.delta, m.delta.newRoot) :
                 /\ held' = r.set
                 /\ status' = r.err

Without(k) == [i \in 1 .. Len(channel) - 1 |-> channel[IF i < k THEN i ELSE i + 1]]

Deliver ==
    /\ channel # << >>
    /\ Receive(1)
    /\ channel' = Tail(channel)
    /\ UNCHANGED <<session, faults, history>>

-----------------------------------------------------------------------------
(* Faults of the channel.                                                  *)

Fault == faults < MaxFaults /\ faults' = faults + 1

\* No full payload follows position k of the channel.
AfterLastFull(k) == \A i \in k + 1 .. Len(channel) : channel[i].kind = "delta"

\* A payload is lost.
Lose(k) ==
    /\ MayLose
    /\ Fault
    /\ channel' = Without(k)
    /\ missing' = (missing \/ AfterLastFull(k))
    /\ UNCHANGED <<session, consumer, spent, gap, skipped>>

\* A payload is delivered and a copy of it stays on its way.
DeliverCopy ==
    /\ MayDuplicate
    /\ Fault
    /\ channel # << >>
    /\ Receive(1)
    /\ UNCHANGED <<session, channel, history>>

\* A payload overtakes those sent before it.
Overtake(k) ==
    /\ MayReorder
    /\ Fault
    /\ k > 1
    /\ Receive(k)
    /\ channel' = Without(k)
    /\ missing' = (missing \/ AfterLastFull(k))
    /\ UNCHANGED <<session, spent, gap, skipped>>

-----------------------------------------------------------------------------

Init ==
    /\ base \in Sets
    /\ policy \in Policies
    /\ turn = 0
    /\ cum = 0
    /\ answer = "full"
    /\ channel = <<Full(base)>>
    /\ held = ZeroSet
    /\ status = "none"
    /\ faults = 0
    /\ spent = 0
    /\ gap = 0
    /\ skipped = FALSE
    /\ missing = FALSE

Next ==
    \/ \E next \in Sets : NextCall(next)
    \/ CurrentFull
    \/ Deliver
    \/ DeliverCopy
    \/ \E k \in DOMAIN channel : Lose(k) \/ Overtake(k)

Spec == Init /\ [][Next]_vars

\* The application keeps producing and the channel keeps delivering.
FairSpec ==
    /\ Spec
    /\ WF_vars(\E next \in Sets : NextCall(next))
    /\ WF_vars(Deliver)

-----------------------------------------------------------------------------
(* Properties.                                                             *)

\* Types of the session's state, the channel and the consumer.
TypeOK ==
    /\ base \in Sets
    /\ policy \in Policies
    /\ turn \in 0 .. Period - 1
    /\ {cum, spent, gap} \subseteq Nat
    /\ answer \in {"full", "delta", "error"}
    /\ Len(channel) <= MaxInFlight
    /\ \A k \in DOMAIN channel : channel[k].kind \in {"full", "delta"}
    /\ DOMAIN held = {"key", "fields", "rows"}
    /\ status \in {"none", "base_mismatch", "delta_invalid", "root_mismatch"}
    /\ faults \in 0 .. MaxFaults

\* SizeGuard bounds the delta bytes between two anchors by one full payload
\* of the current state (generic_delta_session.go:41-44), whatever anchors
\* schema changes and manual fulls add and whichever calls of Next fail.
SizeGuardBound == policy.mode = "SizeGuard" => spent < FullLen(base)

\* FixedN lets no run of n deltas pass without an anchor, whatever anchors
\* schema changes and manual fulls add (generic_delta_session.go:16-17); a
\* call of Next that fails on an anchor turn costs that anchor.
CadenceBound ==
    (policy.mode = "FixedN" /\ ~skipped) => gap < Cadence(policy)

\* On a channel that loses nothing the consumer never meets a payload it
\* cannot apply (generic_delta_session_test.go:182-184).
NeverRejects == status = "none"

\* With nothing on its way, the consumer holds the producer's state as its
\* decoder would read it from a full payload: key, columns, and the rows as
\* a bag of values, not just the cells that the root hashes.
InSync ==
    LET rows(s) == [i \in DOMAIN s.rows |-> RowOnWire(s.rows[i], s.fields)]
        bag(q) == [r \in Range(q) |-> Cardinality({i \in DOMAIN q : q[i] = r})]
    IN  channel = << >> => /\ held.key = base.key
                           /\ held.fields = base.fields
                           /\ bag(held.rows) = bag(rows(base))

\* Whatever the channel does, the consumer goes from one state the producer
\* emitted to another: it never holds a mixture of two, and an error leaves
\* its set as it was (generic_delta.go:224-228).
AppliesWhole ==
    [][GenericPackRoot(held') \in
         {GenericPackRoot(held)} \cup {channel[k].root : k \in DOMAIN channel}]_vars

\* What the channel did before the last full payload does not matter: with that
\* payload and all that followed it received in order, the consumer has the
\* producer's content, even if stale deltas were applied or refused before it.
AnchorHeals ==
    (channel = << >> /\ ~missing) => GenericPackRoot(held) = GenericPackRoot(base)

\* Finitely many faults are got over: from some time on the consumer accepts
\* every payload, since anchors keep coming.
RejectionsEnd == <>[](status = "none")

\* A delta stream is as good as sending each state whole.
Snapshots == INSTANCE SnapshotStream WITH
    Contents <- {GenericPackRoot(s) : s \in Sets},
    Nothing <- GenericPackRoot(ZeroSet),
    current <- GenericPackRoot(base),
    inflight <- [k \in DOMAIN channel |-> channel[k].root],
    replica <- GenericPackRoot(held)

ImplementsSnapshots == Snapshots!Spec
=============================================================================
