--------------------------- MODULE MCDeltaSession ---------------------------
(* Instances of DeltaSession for TLC: tables of at most two rows whose key *)
(* is the column idCol, with changes of key and of columns between them.      *)
EXTENDS DeltaSession, TLC

CONSTANTS
    idCol, valCol, noteCol,  \* columns
    x, y,           \* strings
    big, bigger,    \* int64 values that one float64 stands for: 2^53, 2^53+1
    unsigned, digits  \* a uint32 and the string of its digits

MCColumns == {idCol, valCol, noteCol}
MCValues == {Null, x, y, big, bigger, unsigned, digits}

\* canonicalCell: int64 goes through float64; a uint32 falls to the default
\* case, which quotes its digits.
MCCanon == [v \in MCValues |-> IF v = bigger THEN big
                               ELSE IF v = unsigned THEN digits
                               ELSE v]

\* The wire carries int64 in full; a uint32 is written as a quoted string.
MCOnWire == [v \in MCValues |-> IF v = unsigned THEN digits ELSE v]

Row(i, v) == idCol :> i @@ valCol :> v
Tab(key, fields, rows) == [key |-> key, fields |-> fields, rows |-> rows]
Keyed(rows) == Tab(idCol, <<idCol, valCol>>, rows)

\* One schema: empty, one row, a changed row, two rows, a row without valCol and
\* one with a uint32.
OneSchema ==
    { Keyed(<< >>),
      Keyed(<<Row(x, x)>>),
      Keyed(<<Row(x, y)>>),
      Keyed(<<Row(x, y), Row(y, x)>>),
      Keyed(<<Row(y, unsigned), idCol :> x>>) }

\* The same rows under another key: one row, a row added, that row changed.
OtherKey ==
    { Tab(valCol, <<idCol, valCol>>, <<Row(x, y)>>),
      Tab(valCol, <<idCol, valCol>>, <<Row(x, y), Row(y, x)>>),
      Tab(valCol, <<idCol, valCol>>, <<Row(y, y)>>) }

\* Other columns: no rows, and one.
OtherColumns ==
    { Tab(idCol, <<idCol, noteCol>>, << >>),
      Tab(idCol, <<idCol, noteCol>>, <<idCol :> x @@ noteCol :> y>>) }

\* The n of SizeGuard is not used.
EverySecond == {[mode |-> "FixedN", n |-> 2]}
BothPolicies == {[mode |-> "FixedN", n |-> 2], [mode |-> "SizeGuard", n |-> 1]}

ValidSets == OneSchema \cup OtherKey \cup OtherColumns

\* One identity twice, first of its schema or not; and no key.
InvalidSets ==
    { Keyed(<<Row(x, x), Row(x, y)>>),
      Tab(valCol, <<idCol, valCol>>, <<Row(x, y), Row(x, y)>>),
      Tab(NoKey, <<idCol, valCol>>, <<Row(x, y)>>) }

\* A few of each kind.
SomeSets ==
    { Keyed(<< >>),
      Keyed(<<Row(x, x)>>),
      Keyed(<<Row(x, y), Row(y, x)>>),
      Keyed(<<Row(y, unsigned), idCol :> x>>),
      Keyed(<<Row(x, x), Row(x, y)>>),
      Tab(valCol, <<idCol, valCol>>, <<Row(x, y), Row(y, x)>>),
      Tab(idCol, <<idCol, noteCol>>, << >>) }

\* Snowflake-like identities and counters.
BigSets == { Keyed(<<Row(x, big)>>), Keyed(<<Row(x, bigger)>>), Keyed(<<Row(y, x)>>) }
=============================================================================
