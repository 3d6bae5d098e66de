----------------------------- MODULE MCSession -----------------------------
(* Instances of Session for TLC: three names, payloads in and out of wire  *)
(* order, overlapping and disjoint, with a skipped edge.                   *)
EXTENDS Session

CONSTANTS x, y, z

S(q, r) == [name |-> q, rank |-> r]
P(syms, edges) == [syms |-> syms, edges |-> edges]

MCNames == {x, y, z}

\* No name twice in one payload.  The first is out of wire order, the second
\* has a tie and an edge to a symbol outside it.
DistinctPayloads ==
    { P(<<S(x, 1), S(y, 0)>>, {<<x, y>>}),
      P(<<S(y, 0), S(z, 0)>>, {<<y, z>>, <<x, z>>}),
      P(<<S(z, 0)>>, {}) }

\* As above and larger, and the empty payload.
SequentialPayloads ==
    DistinctPayloads \cup
    { P(<<S(z, 0), S(x, 0), S(y, 0)>>, {<<z, x>>, <<x, y>>}),
      P(<< >>, {}) }

\* Two symbols that share a qualified name (a type and a method of it, say).
RepeatingPayloads ==
    { P(<<S(x, 0), S(x, 1), S(y, 0)>>, {<<x, y>>}),
      P(<<S(y, 0), S(z, 0)>>, {}) }

\* With a payload out of wire order whose names are distinct.
MixedPayloads ==
    RepeatingPayloads \cup {P(<<S(x, 1), S(y, 0)>>, {<<x, y>>})}
=============================================================================
