--------------------------- MODULE AtomicSession ---------------------------
(***************************************************************************)
(* What the dedup session promises its client, with each encode one step:  *)
(* a response declares in full exactly the symbols the client has not seen, *)
(* gives them the next ids in payload order, and names every other symbol  *)
(* by the id it was declared with.                                         *)
(***************************************************************************)
EXTENDS Integers, Sequences, FiniteSets, SessionClient

CONSTANTS
    Names,
    Payloads   \* as in Session; here no payload names a symbol twice

VARIABLES
    known,     \* qualified name -> id, for the symbols the client holds
    responses  \* the responses of this session, in order

vars == <<known, responses>>

Places(p) == 1 .. Len(p.syms)

\* Positions of p whose symbols the client has not seen.
Unseen(p) == {i \in Places(p) : p.syms[i].name \notin DOMAIN known}

\* The id the symbol at an unseen position gets: the next ones, in order.
NewId(p, i) ==
    Cardinality(DOMAIN known) + Cardinality({j \in Unseen(p) : j < i})

\* A line for the symbol at position i, once ids holds every symbol's id.
Line(p, i, ids) ==
    [id |-> ids[p.syms[i].name], name |-> p.syms[i].name, full |-> i \in Unseen(p)]

\* The wire order of the lines: a permutation sorted by rank, ties as given.
InWireOrder(p, order) ==
    \A m, n \in Places(p) :
        m < n => \/ p.syms[order[m]].rank < p.syms[order[n]].rank
                 \/ /\ p.syms[order[m]].rank = p.syms[order[n]].rank
                    /\ order[m] < order[n]

Init ==
    /\ known = [q \in {} |-> 0]
    /\ responses = << >>

Encode(p) ==
    \E order \in [Places(p) -> Places(p)] :
        /\ InWireOrder(p, order)
        /\ known' = [q \in DOMAIN known \cup {p.syms[i].name : i \in Unseen(p)} |->
                       IF q \in DOMAIN known THEN known[q]
                       ELSE NewId(p, CHOOSE i \in Unseen(p) : p.syms[i].name = q)]
        /\ responses' = Append(responses,
              [lines |-> [m \in Places(p) |-> Line(p, order[m], known')],
               edges |-> {<<known'[e[1]], known'[e[2]]>> :
                            e \in {e \in p.edges :
                                     {e[1], e[2]} \subseteq
                                     {p.syms[i].name : i \in Places(p)}}}])

Reset ==
    /\ known' = [q \in {} |-> 0]
    /\ responses' = << >>

Next == Reset \/ \E p \in Payloads : Encode(p)

Spec == Init /\ [][Next]_vars

-----------------------------------------------------------------------------
(* The promise kept to the client, as one invariant of the responses:      *)
(* references resolve (session.go:82-83), an id means one symbol           *)
(* (session.go:123-125), nothing is sent in full twice (session.go:10-11). *)
ClientServed ==
    /\ ReferencesResolve(responses)
    /\ IdsDistinct(responses)
    /\ DeclaredOnce(responses)
=============================================================================
