--------------------------- MODULE SessionClient ---------------------------
(***************************************************************************)
(* What the reader of a session's responses can make of their lines.  A    *)
(* line "@id kind name ..." declares name as id; a line                    *)
(* "@id  # previously transmitted" refers to the symbol declared as id.    *)
(* The name of a referring line is the symbol the encoder meant: it is not *)
(* on the wire.                                                            *)
(***************************************************************************)
EXTENDS Integers, Sequences

\* Every line of the responses rs, with the response it is in.
LinesOf(rs) ==
    UNION {{<<k, rs[k].lines[n]>> : n \in DOMAIN rs[k].lines} : k \in DOMAIN rs}

Declarations(rs) == {l \in LinesOf(rs) : l[2].full}
References(rs) == {l \in LinesOf(rs) : ~l[2].full}

\* No id is declared for two symbols.
IdsDistinct(rs) ==
    \A c, d \in Declarations(rs) : c[2].id = d[2].id => c[2].name = d[2].name

\* A reference means what an earlier response declared its id to be.
ReferencesResolve(rs) ==
    \A r \in References(rs) :
        \E d \in Declarations(rs) :
            d[1] < r[1] /\ d[2].id = r[2].id /\ d[2].name = r[2].name

\* No symbol is sent in full by two responses: what deduplication is for.
DeclaredOnce(rs) ==
    \A c, d \in Declarations(rs) : c[2].name = d[2].name => c[1] = d[1]
=============================================================================
