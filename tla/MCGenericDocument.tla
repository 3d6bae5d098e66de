-------------------------- MODULE MCGenericDocument --------------------------
(* An instance of GenericDocument for TLC: records with the fields id, b    *)
(* and o, or only some of them; o has the nested values.                   *)
EXTENDS GenericDocument

CONSTANTS one, two, three, four

s1 == Scalar(one)
s2 == Scalar(two)
s3 == Scalar(three)
s4 == Scalar(four)

Obj(pairs) == Object(SelectSeq(pairs, LAMBDA p : p.val # Absent))
Field(n, v) == Obj(<<Named(n, v)>>)
Rec(id, b, o) == Obj(<<Named("id", id), Named("b", b), Named("o", o)>>)

\* Objects that flatten, with nulls and an inner object, and that do not.
PQ(p, q) == Obj(<<Named("p", p), Named("q", q)>>)
Objects ==
    { PQ(s1, s2), PQ(Null, Null), PQ(Null, s1),
      PQ(PQ(s1, Null), s2), PQ(PQ(Null, Null), s1), PQ(Null, PQ(s1, s2)),
      PQ(Field("p", s1), Field("q", Null)), Field("p", Object(<< >>)), Object(<< >>) }

\* Objects with three fields, which may be inlined.
PQR(p, q, r) == Obj(<<Named("p", p), Named("q", q), Named("r", r)>>)
Inlines ==
    { PQR(s1, Null, s2), PQR(Null, Null, Null), PQR(s1, PQ(s1, s2), s2), PQ(s1, s2),
      Object(<<Pair(<<"p", "q">>, s1), Named("q", s2), Named("r", Null)>>),
      Object(<<Pair(<<"p", "q">>, s2), Named("q", s1), Named("r", s1)>>) }

\* Arrays of nothing, of scalars, of arrays, and of records.
Arrays ==
    { Array(<< >>), Array(<<s1, Null>>), Array(<<Array(<<s2>>), Object(<< >>)>>),
      Array(<<PQ(s1, s2), PQ(s1, Absent)>>), Array(<<PQ(s2, Null)>>),
      Array(<<PQ(s1, s1), Object(<< >>)>>), Array(<<PQ(s1, Array(<<s2>>))>>),
      Array(<<Object(<<Named("p", s1), Pair(<<"q", "r">>, s2)>>)>>) }

\* Names with a '>' in them, and the label that keyed maps use.
Odd ==
    { Object(<<Named("id", i), Pair(<<"o", "p">>, v), Named("o", o)>>) :
        i \in {s1, s2}, v \in {s1, Null, PQ(s1, s2)}, o \in {PQ(s1, s2)} } \cup
    { Object(<<Pair(<<"", "">>, s1)>>), Object(<<Pair(<<"o", "p">>, s1)>>),
      Object(<<Pair(<<"o", "p">>, Array(<<s1, Array(<< >>)>>))>>),
      Object(<<Named("key", s1), Named("_key", s2)>>), Object(<<Named("o", s1), Named("key", s2)>>) }

\* A few of each: three at a time.
Mixed ==
    { Rec(s1, s1, PQ(s1, s2)), Rec(s2, Null, PQ(Null, PQ(s1, s2))), Rec(s1, Absent, Null),
      Rec(s2, s1, Absent), Rec(s1, Absent, PQR(s1, Null, s2)), Rec(s2, s1, PQR(s2, s1, s1)),
      Rec(Absent, s1, Array(<<PQ(s1, s2)>>)), Rec(s1, Absent, Array(<<PQ(s2, Null), PQ(s1, s1)>>)),
      Rec(s2, s2, Array(<< >>)), Object(<<Pair(<<"o", "p">>, s1), Named("id", s2)>>) }

MCRecords ==
    [k \in {"objects", "inlines", "arrays", "scalars", "odd", "mixed", "keyed"} |->
        CASE k = "objects" -> {Rec(s1, Absent, o) : o \in Objects \cup {Absent, Null, s1}}
          [] k = "inlines" -> {Rec(Absent, b, o) : b \in {Absent, s1}, o \in Inlines \cup {Null}}
          [] k = "arrays" -> {Rec(Absent, b, o) : b \in {s1}, o \in Arrays \cup {Absent, Null, s1}}
          [] k = "scalars" -> {Rec(i, b, o) : i \in {s1, s2, Absent}, b \in {s1, Null, Absent},
                                                 o \in {s1, s2}}
          [] k = "odd" -> Odd
          [] k = "keyed" -> {Rec(i, b, s1) : i \in {s1, s2, s3, s4}, b \in {s1, Null, Absent}}
          [] k = "mixed" -> Mixed]

MCMaxRows == [k \in DOMAIN MCRecords |-> IF k \in {"mixed", "keyed"} THEN 3 ELSE 2]

MCMemberNames == << <<"key">>, <<"m", "n">>, <<"b">> >>
MCKeyName == <<"id">>
MCGroupName == <<"b">>
\* A record's only cell may be spelt "b=2 [3]".
MCSpelt == <<s4>> :> Line(NameLead(0, MCGroupName), GroupBody(s2, 3))
MCOther == Scalar(one)
=============================================================================
