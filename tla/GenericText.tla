----------------------------- MODULE GenericText -----------------------------
(***************************************************************************)
(* The lines of a document in the generic profile below its first.  A line *)
(* is what it leads with, its indentation and the mark in front, and what  *)
(* follows.  Quoting keeps the parts of a line apart and is left out.      *)
(***************************************************************************)
EXTENDS GenericValue

\* Leads: "## ", "## name ", "@id ", ".name ", "name" and nothing.
RootLead == [depth |-> 0, mark |-> "##", id |-> 0, name |-> << >>]
SectionLead(d, n) == [depth |-> d, mark |-> "##", id |-> 0, name |-> n]
ItemLead(d, i) == [depth |-> d, mark |-> "@", id |-> i, name |-> << >>]
AttachLead(d, n) == [depth |-> d, mark |-> ".", id |-> 0, name |-> n]
NameLead(d, n) == [depth |-> d, mark |-> "", id |-> 0, name |-> n]
NoLead(d) == [depth |-> d, mark |-> "", id |-> 0, name |-> << >>]

\* What follows: "=value", "{}" (nothing after a section's name), the cells of
\* a row or of an inline body, "[N]: values", "[N]" and "[N]{entries} group=g",
\* and a group's "=value [N]".
ValueBody(v) == [form |-> "value", value |-> v]
ObjectBody == [form |-> "object"]
CellsBody(cells) == [form |-> "cells", cells |-> cells]
ListBody(vs) == [form |-> "list", count |-> Len(vs), values |-> vs]
ItemsBody(n) == [form |-> "items", count |-> n]
TableBody(n, keyed, entries, group) ==
    [form |-> "table", count |-> n, keyed |-> keyed, entries |-> entries, group |-> group]
GroupBody(v, n) == [form |-> "group", value |-> v, count |-> n]

IsArrayBody(b) == b.form \in {"list", "items", "table"}

\* An entry of a field declaration: "@" before the key column, "=value" after a
\* constant one.
Entry(n, const, isKey) == [name |-> n, const |-> const, isKey |-> isKey]
Column(n) == Entry(n, Absent, FALSE)
NoGroup == << >>

\* A cell is a value, Absent, or this: "^", or "^{fields}".
Attached(fields) == [kind |-> "attached", items |-> fields]

Line(lead, body) == [lead |-> lead, body |-> body]
=============================================================================
