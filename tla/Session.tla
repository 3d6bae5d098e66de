------------------------------ MODULE Session ------------------------------
(***************************************************************************)
(* The dedup session of session.go.  A Session is a table from qualified   *)
(* names to ids behind one mutex.  EncodeWithSession never holds that      *)
(* mutex for longer than one table access, so each access is a step here   *)
(* and the encoders interleave between them:                               *)
(*                                                                         *)
(*   Begin      the call starts                                            *)
(*   Partition  Transmitted once per symbol, in payload order              *)
(*   LookUp     GetID once per symbol the partition found known            *)
(*   Assign     nextSessionID, read once; new symbols numbered from it     *)
(*   Emit       Transmitted AGAIN per symbol, in wire order; one line each *)
(*   Finish     Record of the symbols the partition found new              *)
(*   Return     the caller gets the response and delivers it               *)
(*                                                                         *)
(* A symbol is its qualified name and its place in the wire order (rank:   *)
(* distance ascending, then score descending); kind, score and provenance  *)
(* text are abstracted.  An edge is a pair of qualified names.             *)
(*                                                                         *)
(* A definition marked "Mutant" is a broken variant of the one after it,   *)
(* kept to show which property notices the mistake; nothing uses it.       *)
(***************************************************************************)
EXTENDS Integers, Sequences, FiniteSets, SessionClient

CONSTANTS
    Encoders,        \* tool handlers that share the session
    Names,           \* qualified names
    Payloads,        \* what a handler may ask to encode
    MaxEncodes,      \* bound: calls of EncodeWithSession
    MaxResets,       \* bound: calls of Reset
    MaxRecords,      \* bound: calls of Record by the application itself
    QuiescentReset   \* the application resets only between encodes

Symbol == [name : Names, rank : Nat]

ASSUME PayloadsAssumption ==
    Payloads \subseteq [syms : Seq(Symbol), edges : SUBSET (Names \X Names)]

ASSUME BoundsAssumption ==
    /\ MaxEncodes \in Nat
    /\ MaxResets \in Nat
    /\ MaxRecords \in Nat
    /\ QuiescentReset \in BOOLEAN

VARIABLES
    symbols,     \* Session.symbols: qualified name -> id
    nextID,      \* Session.nextID
    pc,          \* where each encoder is in EncodeWithSession
    payload,     \* its argument
    isNew,       \* payload positions its partition found new
    localIndex,  \* its localIndex map: qualified name -> id on the wire
    todo,        \* payload positions its current loop has still to visit
    lines,       \* the symbol lines it has written
    responses,   \* what the client has received since the last Reset
    encodes, resets, records  \* calls made so far

table == <<symbols, nextID>>
locals == <<payload, isNew, localIndex, todo, lines>>
counts == <<encodes, resets, records>>
vars == <<table, pc, locals, responses, counts>>

NoPayload == [syms |-> << >>, edges |-> {}]
NoIds == [q \in {} |-> 0]

-----------------------------------------------------------------------------
(* The table's operations, each one critical section.                      *)

Transmitted(q) == q \in DOMAIN symbols

GetID(q) == IF Transmitted(q) THEN symbols[q] ELSE -1

NamesAt(p, idx) == {p.syms[i].name : i \in idx}

Unrecorded(p, idx) == NamesAt(p, idx) \ DOMAIN symbols

\* The names of the batch that Record's loop meets before it first meets q.
MetBefore(p, idx, q) ==
    {r \in Unrecorded(p, idx) :
        \E i \in idx : /\ p.syms[i].name = r
                       /\ \A j \in idx : p.syms[j].name = q => i < j}

\* Mutant: the "exists" test dropped, so a symbol recorded meanwhile by
\* another encoder is numbered again.
RecordOverwriting(p, idx) ==
    LET batch == NamesAt(p, idx)
        rank(q) == Cardinality({r \in batch : \E i \in idx :
                      p.syms[i].name = r /\ \A j \in idx : p.syms[j].name = q => i < j})
    IN  /\ symbols' = [q \in DOMAIN symbols \cup batch |->
                         IF q \in batch THEN nextID + rank(q) ELSE symbols[q]]
        /\ nextID' = nextID + Cardinality(batch)

\* Mutant: nextID++ outside the "exists" test.
RecordCountingAll(p, idx) ==
    /\ symbols' = [q \in DOMAIN symbols \cup Unrecorded(p, idx) |->
                     IF Transmitted(q) THEN symbols[q]
                     ELSE nextID + Cardinality(MetBefore(p, idx, q))]
    /\ nextID' = nextID + Cardinality(idx)

\* Record(symbols), for the positions idx of payload p.
Record(p, idx) ==
    /\ symbols' = [q \in DOMAIN symbols \cup Unrecorded(p, idx) |->
                     IF Transmitted(q) THEN symbols[q]
                     ELSE nextID + Cardinality(MetBefore(p, idx, q))]
    /\ nextID' = nextID + Cardinality(Unrecorded(p, idx))

-----------------------------------------------------------------------------
(* EncodeWithSession.                                                      *)

Positions(p) == 1 .. Len(p.syms)

\* Mutant: an unstable sort.
WiredBeforeUnstable(p, i, j) ==
    \/ p.syms[i].rank < p.syms[j].rank
    \/ p.syms[i].rank = p.syms[j].rank /\ i >= j

\* groupByDistance is a stable sort, so wire order is rank, then position.
WiredBefore(p, i, j) ==
    \/ p.syms[i].rank < p.syms[j].rank
    \/ p.syms[i].rank = p.syms[j].rank /\ i <= j

\* Mutant: ids follow the wire order, as Encode's do.
FreshIndexAsWired(p, new, q) ==
    LET at == CHOOSE i \in new : p.syms[i].name = q
    IN  nextID + Cardinality({j \in new \ {at} : WiredBefore(p, j, at)})

\* Mutant: ids local to the response, not continued from the session's.
FreshIndexLocal(p, new, q) ==
    LET at == CHOOSE i \in new : p.syms[i].name = q
    IN  Cardinality({j \in Positions(p) : j < at})

\* The localIndex entries of the new symbols: consecutive ids in payload
\* order, a later occurrence of a name overwriting an earlier one.
FreshIndex(p, new, q) ==
    LET last == CHOOSE i \in new : /\ p.syms[i].name = q
                                   /\ \A j \in new : p.syms[j].name = q => j <= i
    IN  nextID + Cardinality({j \in new : j < last})

\* Edge lines: an edge with an endpoint outside the payload is skipped.
EdgeLines(p, index) ==
    {<<index[e[1]], index[e[2]]>> :
        e \in {e \in p.edges : {e[1], e[2]} \subseteq DOMAIN index}}

Begin(e, p) ==
    /\ pc[e] = "idle"
    /\ encodes < MaxEncodes
    /\ encodes' = encodes + 1
    /\ payload' = [payload EXCEPT ![e] = p]
    /\ todo' = [todo EXCEPT ![e] = Positions(p)]
    /\ pc' = [pc EXCEPT ![e] = IF p.syms = << >> THEN "ids" ELSE "partition"]
    /\ UNCHANGED <<table, isNew, localIndex, lines, responses, resets, records>>

\* Mutant: isNew without the negation.
PartitionInverted(e) ==
    /\ pc[e] = "partition"
    /\ \E i \in todo[e] :
         /\ \A j \in todo[e] : i <= j
         /\ LET new == isNew[e] \cup
                         (IF Transmitted(payload[e].syms[i].name) THEN {i} ELSE {})
                last == todo[e] = {i}
            IN  /\ isNew' = [isNew EXCEPT ![e] = new]
                /\ todo' = [todo EXCEPT ![e] =
                              IF last THEN Positions(payload[e]) \ new ELSE @ \ {i}]
                /\ pc' = [pc EXCEPT ![e] = IF last THEN "ids" ELSE @]
    /\ UNCHANGED <<table, payload, localIndex, lines, responses, counts>>

Partition(e) ==
    /\ pc[e] = "partition"
    /\ \E i \in todo[e] :
         /\ \A j \in todo[e] : i <= j
         /\ LET new == isNew[e] \cup
                         (IF Transmitted(payload[e].syms[i].name) THEN {} ELSE {i})
                last == todo[e] = {i}
            IN  /\ isNew' = [isNew EXCEPT ![e] = new]
                /\ todo' = [todo EXCEPT ![e] =
                              IF last THEN Positions(payload[e]) \ new ELSE @ \ {i}]
                /\ pc' = [pc EXCEPT ![e] = IF last THEN "ids" ELSE @]
    /\ UNCHANGED <<table, payload, localIndex, lines, responses, counts>>

LookUp(e) ==
    /\ pc[e] = "ids"
    /\ \E i \in todo[e] :
         /\ \A j \in todo[e] : i <= j
         /\ LET q == payload[e].syms[i].name
            IN  localIndex' = [localIndex EXCEPT ![e] =
                                 [r \in DOMAIN @ \cup {q} |->
                                    IF r = q THEN GetID(q) ELSE @[r]]]
         /\ todo' = [todo EXCEPT ![e] = @ \ {i}]
    /\ UNCHANGED <<table, pc, payload, isNew, lines, responses, counts>>

\* Mutant: the new symbols are recorded before their lines are written.
AssignRecording(e) ==
    /\ pc[e] = "ids"
    /\ todo[e] = {}
    /\ LET new == NamesAt(payload[e], isNew[e])
       IN  localIndex' = [localIndex EXCEPT ![e] =
                            [r \in DOMAIN @ \cup new |->
                               IF r \in new THEN FreshIndex(payload[e], isNew[e], r)
                               ELSE @[r]]]
    /\ Record(payload[e], isNew[e])
    /\ todo' = [todo EXCEPT ![e] = Positions(payload[e])]
    /\ pc' = [pc EXCEPT ![e] = "emit"]
    /\ UNCHANGED <<payload, isNew, lines, responses, counts>>

Assign(e) ==
    /\ pc[e] = "ids"
    /\ todo[e] = {}
    /\ LET new == NamesAt(payload[e], isNew[e])
       IN  localIndex' = [localIndex EXCEPT ![e] =
                            [r \in DOMAIN @ \cup new |->
                               IF r \in new THEN FreshIndex(payload[e], isNew[e], r)
                               ELSE @[r]]]
    /\ todo' = [todo EXCEPT ![e] = Positions(payload[e])]
    /\ pc' = [pc EXCEPT ![e] = "emit"]
    /\ UNCHANGED <<table, payload, isNew, lines, responses, counts>>

Emit(e) ==
    /\ pc[e] = "emit"
    /\ \E i \in todo[e] :
         /\ \A j \in todo[e] : WiredBefore(payload[e], i, j)
         /\ LET q == payload[e].syms[i].name
            IN  lines' = [lines EXCEPT ![e] =
                            Append(@, [id   |-> localIndex[e][q],
                                       name |-> q,
                                       full |-> ~Transmitted(q)])]
         /\ todo' = [todo EXCEPT ![e] = @ \ {i}]
    /\ UNCHANGED <<table, pc, payload, isNew, localIndex, responses, counts>>

\* Mutant: a response without edges returns before it records.
FinishEarly(e) ==
    /\ pc[e] = "emit"
    /\ todo[e] = {}
    /\ IF EdgeLines(payload[e], localIndex[e]) = {}
       THEN UNCHANGED table
       ELSE Record(payload[e], isNew[e])
    /\ pc' = [pc EXCEPT ![e] = "return"]
    /\ UNCHANGED <<locals, responses, counts>>

Finish(e) ==
    /\ pc[e] = "emit"
    /\ todo[e] = {}
    /\ Record(payload[e], isNew[e])
    /\ pc' = [pc EXCEPT ![e] = "return"]
    /\ UNCHANGED <<locals, responses, counts>>

Response(e) ==
    [lines |-> lines[e], edges |-> EdgeLines(payload[e], localIndex[e])]

Return(e) ==
    /\ pc[e] = "return"
    /\ responses' = Append(responses, Response(e))
    /\ pc' = [pc EXCEPT ![e] = "idle"]
    /\ payload' = [payload EXCEPT ![e] = NoPayload]
    /\ isNew' = [isNew EXCEPT ![e] = {}]
    /\ localIndex' = [localIndex EXCEPT ![e] = NoIds]
    /\ lines' = [lines EXCEPT ![e] = << >>]
    /\ UNCHANGED <<table, todo, counts>>

-----------------------------------------------------------------------------
(* The calls the application makes on the Session itself.                  *)

\* Mutant: the counter restarts at GetID's "not found".
ResetBelowZero ==
    /\ resets < MaxResets
    /\ QuiescentReset => \A e \in Encoders : pc[e] = "idle"
    /\ symbols' = NoIds
    /\ nextID' = -1
    /\ responses' = << >>
    /\ resets' = resets + 1
    /\ UNCHANGED <<pc, locals, encodes, records>>

\* The client that reads the responses starts afresh with the session.
Reset ==
    /\ resets < MaxResets
    /\ QuiescentReset => \A e \in Encoders : pc[e] = "idle"
    /\ symbols' = NoIds
    /\ nextID' = 0
    /\ responses' = << >>
    /\ resets' = resets + 1
    /\ UNCHANGED <<pc, locals, encodes, records>>

RecordCall(p) ==
    /\ records < MaxRecords
    /\ records' = records + 1
    /\ Record(p, Positions(p))
    /\ UNCHANGED <<pc, locals, responses, encodes, resets>>

-----------------------------------------------------------------------------
Init ==
    /\ symbols = NoIds
    /\ nextID = 0
    /\ pc = [e \in Encoders |-> "idle"]
    /\ payload = [e \in Encoders |-> NoPayload]
    /\ isNew = [e \in Encoders |-> {}]
    /\ localIndex = [e \in Encoders |-> NoIds]
    /\ todo = [e \in Encoders |-> {}]
    /\ lines = [e \in Encoders |-> << >>]
    /\ responses = << >>
    /\ encodes = 0
    /\ resets = 0
    /\ records = 0

Step(e) ==
    \/ Partition(e)
    \/ LookUp(e)
    \/ Assign(e)
    \/ Emit(e)
    \/ Finish(e)
    \/ Return(e)

Next ==
    \/ \E e \in Encoders, p \in Payloads : Begin(e, p)
    \/ \E e \in Encoders : Step(e)
    \/ Reset
    \/ \E p \in Payloads : RecordCall(p)

Spec == Init /\ [][Next]_vars

\* A call that has started runs on: its goroutine is scheduled and the mutex
\* is only ever held for one table access.
Fairness == \A e \in Encoders : WF_vars(Step(e))

FairSpec == Spec /\ Fairness

-----------------------------------------------------------------------------
(* Properties.                                                             *)

Line == [id : Int, name : Names, full : BOOLEAN]

\* f is a Go map from qualified names to T.
IsMap(f, T) == DOMAIN f \subseteq Names /\ f \in [DOMAIN f -> T]

\* The type invariant: the session's table and the maps, cursors and lines of
\* EncodeWithSession have the shapes of the Go values (session.go:13-17, 85-207).
TypeOK ==
    /\ IsMap(symbols, Nat)
    /\ nextID \in Nat
    /\ pc \in [Encoders -> {"idle", "partition", "ids", "emit", "return"}]
    /\ payload \in [Encoders -> Payloads \cup {NoPayload}]
    /\ isNew \in [Encoders -> SUBSET Nat]
    /\ DOMAIN localIndex = Encoders /\ \A e \in Encoders : IsMap(localIndex[e], Int)
    /\ todo \in [Encoders -> SUBSET Nat]
    /\ lines \in [Encoders -> Seq(Line)]
    /\ responses \in Seq([lines : Seq(Line), edges : SUBSET (Int \X Int)])
    /\ encodes \in 0 .. MaxEncodes
    /\ resets \in 0 .. MaxResets
    /\ records \in 0 .. MaxRecords

\* Record hands out ids 0, 1, 2, ... with no gap and no id twice, whatever
\* encoders, resets and duplicate names do (session.go:48-57, 74-79).
TableDense ==
    /\ {symbols[q] : q \in DOMAIN symbols} = 0 .. nextID - 1
    /\ \A q, r \in DOMAIN symbols : symbols[q] = symbols[r] => q = r

\* An id, once given, is the symbol's id until the session is reset
\* (session.go:123-124, "session-stable IDs").
IdsStable ==
    [][\/ resets' # resets
       \/ \A q \in DOMAIN symbols :
            q \in DOMAIN symbols' /\ symbols'[q] = symbols[q]]_vars

\* Lines the client has, or will have once an encode that recorded returns.
Written ==
    LinesOf(responses) \cup
    UNION {LinesOf(<<[lines |-> lines[e]]>>) : e \in {e \in Encoders : pc[e] = "return"}}

\* However encodes interleave, a symbol the session calls transmitted has
\* been written out in full by one of them: a later bare reference is never
\* to a symbol nobody declared (session.go:162-176 against 198-204), unless the
\* application reset the session or recorded a symbol itself.
RecordedWasDeclared ==
    resets = 0 /\ records = 0 =>
        \A q \in DOMAIN symbols : \E l \in Written : l[2].name = q /\ l[2].full

\* However encodes interleave, what a client was sent is what the session
\* remembers, as long as it is not reset: no delivered symbol is missed by
\* Record (session.go:198-204).
DeliveredIsRecorded ==
    resets = 0 => \A l \in LinesOf(responses) : Transmitted(l[2].name)

\* A symbol the partition found known, wherever the payload has it, is written
\* with its session id, even when others record meanwhile (session.go:126-131).
\* A name known at one of its places and new at another gets a fresh id instead
\* (session.go:133-138).
KnownKeepTheirId ==
    \A e \in Encoders : resets = 0 /\ pc[e] \in {"emit", "return"} =>
        \A q \in NamesAt(payload[e], Positions(payload[e]))
                  \ NamesAt(payload[e], isNew[e]) :
            Transmitted(q) /\ localIndex[e][q] = symbols[q]

\* Every symbol an encode was given is eventually transmitted, if no Reset takes
\* back what the encode's partition relied on.
EventuallyRecorded ==
    \A e \in Encoders, q \in Names :
        q \in NamesAt(payload[e], Positions(payload[e]))
            ~> Transmitted(q) \/ resets > 0

\* The id a finished response gives a symbol is the id the session recorded
\* for it (session.go:123-125).
WireIdsAreSessionIds ==
    \A e \in Encoders : pc[e] = "return" =>
        \A n \in DOMAIN lines[e] :
            LET l == lines[e][n] IN Transmitted(l.name) /\ l.id = symbols[l.name]

\* No id is declared for two symbols by the responses of a session.
DeclaredIdsDistinct == IdsDistinct(responses)

\* A bare reference is to a symbol sent in a prior response (session.go:165).
BareReferencesResolve == ReferencesResolve(responses)

\* With one encode at a time the steps of an encode add up to one step of the
\* promised session, taken when it records; its return is invisible.
Recorded ==
    {e \in Encoders : pc[e] = "return"}

Promised ==
    INSTANCE AtomicSession WITH
        known <- symbols,
        responses <- IF Recorded = {} THEN responses
                     ELSE Append(responses, Response(CHOOSE e \in Recorded : TRUE))

ImplementsPromised == Promised!Spec
=============================================================================
