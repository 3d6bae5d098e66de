------------------------------ MODULE GraphFeed ------------------------------
(***************************************************************************)
(* A producer that keeps a consumer supplied with its graph, as full       *)
(* payloads (Encode) or as deltas from the graph it sent last              *)
(* (EncodeDelta), over a channel; and the consumer of the package's        *)
(* conformance test (conformance_test.go:213-246): it decodes, applies a   *)
(* delta to the graph it holds with VerifyDelta, and on an error keeps     *)
(* that.  The library keeps no state between these calls.                  *)
(*                                                                         *)
(* A definition marked "Mutant" is a broken variant of the one after it,   *)
(* kept to show which property notices the mistake; nothing uses it.       *)
(***************************************************************************)
EXTENDS GraphCodec

CONSTANTS
    Graphs,       \* the graphs a producer may have
    MaxInFlight,  \* bound: payloads in the channel
    MaxFaults     \* bound: losses, copies and overtakings

ASSUME FeedAssumption ==
    /\ MaxInFlight \in Nat \ {0}
    /\ MaxFaults \in Nat
    /\ \A g \in Graphs : IsGraph(g)

VARIABLES
    graph,    \* the graph the producer sent last
    channel,  \* payloads on their way, as their readers decode them
    held,     \* the graph the consumer has
    status,   \* what its last decoding or apply returned
    faults,   \* channel faults so far
    \* History, read by the properties only:
    faithful, \* no fault so far, and every graph so far survives the wire
    missing   \* the last full, or a payload after it, was lost or came early

vars == <<graph, channel, held, status, faults, faithful, missing>>

EmptyGraph == [symbols |-> << >>, edges |-> << >>]

-----------------------------------------------------------------------------
(* What a graph must be like for the wire to tell all of it.               *)

\* Every edge end is the name of exactly one symbol.
EndsResolve(g) ==
    \A i \in DOMAIN g.edges : \A q \in {g.edges[i].source, g.edges[i].target} :
        Cardinality({j \in DOMAIN g.symbols : g.symbols[j].name = q}) = 1

\* Identities are unique, scores have two decimals and kinds do not look like
\* a short form.
Faithful(g) ==
    /\ EndsResolve(g)
    /\ DistinctKeys(g.symbols)
    /\ DistinctKeys(g.edges)
    /\ \A i \in DOMAIN g.symbols : OnWire(g.symbols[i]) = g.symbols[i]

-----------------------------------------------------------------------------
(* The producer.                                                           *)

Send(m, next) ==
    /\ Len(channel) < MaxInFlight
    /\ channel' = Append(channel, m)
    /\ graph' = next
    /\ faithful' = (faithful /\ Faithful(next))
    /\ UNCHANGED <<held, status, faults>>

SendFull(next) ==
    /\ Send([kind |-> "full", outcome |-> Decode(Encode(next)), of |-> next], next)
    /\ missing' = FALSE

SendDelta(next) ==
    /\ Send([kind |-> "delta", delta |-> DeltaOnWire(Diff(graph, next)), of |-> next], next)
    /\ UNCHANGED missing

-----------------------------------------------------------------------------
(* The consumer.                                                           *)

\* What the payload makes of the graph held, or an error.
Outcomes(m) == IF m.kind = "full" THEN {m.outcome} ELSE VerifyDelta(held, m.delta)

\* Mutant: the result is taken over before the error is looked at.
ReceiveAnyhow(k) ==
    \E r \in Outcomes(channel[k]) :
        /\ held' = IF r.ok THEN r.graph ELSE r
        /\ status' = IF r.ok THEN "applied" ELSE "refused"

Receive(k) ==
    \E r \in Outcomes(channel[k]) :
        IF r.ok THEN held' = r.graph /\ status' = "applied"
                ELSE held' = held /\ status' = "refused"

Without(k) == [i \in 1 .. Len(channel) - 1 |-> channel[IF i < k THEN i ELSE i + 1]]

Deliver ==
    /\ channel # << >>
    /\ Receive(1)
    /\ channel' = Tail(channel)
    /\ UNCHANGED <<graph, faults, faithful, missing>>

-----------------------------------------------------------------------------
(* Faults of the channel.                                                  *)

Fault ==
    /\ faults < MaxFaults
    /\ faults' = faults + 1
    /\ faithful' = FALSE
    /\ UNCHANGED graph

\* No full payload follows position k of the channel.
AfterLastFull(k) == \A i \in k + 1 .. Len(channel) : channel[i].kind = "delta"

Lose(k) ==
    /\ Fault
    /\ channel' = Without(k)
    /\ missing' = (missing \/ AfterLastFull(k))
    /\ UNCHANGED <<held, status>>

\* A payload is delivered and a copy of it stays on its way.
DeliverCopy ==
    /\ Fault
    /\ channel # << >>
    /\ Receive(1)
    /\ UNCHANGED <<channel, missing>>

\* A payload overtakes those sent before it.
Overtake(k) ==
    /\ Fault
    /\ k > 1
    /\ Receive(k)
    /\ channel' = Without(k)
    /\ missing' = (missing \/ AfterLastFull(k))

-----------------------------------------------------------------------------

Init ==
    /\ graph = EmptyGraph
    /\ channel = << >>
    /\ held = EmptyGraph
    /\ status = "none"
    /\ faults = 0
    /\ faithful = TRUE
    /\ missing = FALSE

Next ==
    \/ \E next \in Graphs : SendFull(next) \/ SendDelta(next)
    \/ Deliver
    \/ DeliverCopy
    \/ \E k \in DOMAIN channel : Lose(k) \/ Overtake(k)

Spec == Init /\ [][Next]_vars

-----------------------------------------------------------------------------
(* Properties.                                                             *)

\* Types of the graphs, the channel and the consumer's answer.
TypeOK ==
    /\ graph \in Graphs \cup {EmptyGraph}
    /\ Len(channel) <= MaxInFlight
    /\ \A k \in DOMAIN channel : channel[k].kind \in {"full", "delta"} /\ channel[k].of \in Graphs
    /\ DOMAIN held = {"symbols", "edges"}
    /\ status \in {"none", "applied", "refused"}
    /\ faults \in 0 .. MaxFaults

\* A graph up to the order of its items.
Content(g) == [symbols |-> ToBag(g.symbols), edges |-> ToBag(g.edges)]

\* The content that a full payload's reader should get: symbols as their lines
\* spell them, and the edges between them.
Told(g) ==
    [symbols |-> ToBag([i \in DOMAIN g.symbols |-> OnWire(g.symbols[i])]),
     edges |-> Restrict(ToBag(g.edges), {e \in Range(g.edges) :
         {e.source, e.target} \subseteq {g.symbols[i].name : i \in DOMAIN g.symbols}})]

\* r is all of g, nearest and highest first.
ReadAs(r, g) ==
    LET s == r.graph.symbols
    IN  /\ r.ok
        /\ IsGraph(r.graph)
        /\ Content(r.graph) = Told(g)
        /\ \A i, j \in DOMAIN s : i < j =>
              \/ s[i].distance < s[j].distance
              \/ s[i].distance = s[j].distance /\ s[i].score >= s[j].score

\* Decode gets back every symbol and every edge that Encode can write, in the
\* order nearest and highest first, also when two symbols have one name and so
\* both lines the id of the last (gcf.go:125-130, 173-184).
FullReadsBack == ReadAs(Decode(Encode(graph)), graph)

\* A delta between graphs that survive the wire is never refused on an orderly
\* channel, whatever order Go's maps give the result (packroot.go:96-100).
NeverRefused == faithful => status # "refused"

\* Whatever the channel does, the consumer goes from one graph the producer
\* sent to another, kinds and scores as the wire has them: it never holds a
\* mixture, although a delta may come to a base it was not made for.
AppliesWhole ==
    [][\/ held' = held
       \/ \E k \in DOMAIN channel :
             \/ RootOf(held') = RootOf(channel[k].of)
             \/ Content(held') = Told(channel[k].of)]_vars

\* With the last full payload and all that followed it received in order and
\* accepted, the consumer has the producer's graph, whatever came before.
InSync ==
    (channel = << >> /\ ~missing /\ Faithful(graph) /\ status = "applied")
        => Content(held) = Told(graph)
=============================================================================
