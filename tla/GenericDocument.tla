--------------------------- MODULE GenericDocument ---------------------------
(***************************************************************************)
(* The records that an application has collected (GroupedDocument),        *)
(* encoded as an array, inside other values, as a map, or grouped, and     *)
(* decoded; whole, or with a row lost or doubled.                          *)
(***************************************************************************)
EXTENDS GroupedDocument, GenericEncoder, GenericDecoder

CONSTANTS
    MemberNames,  \* names for the records as members of a map
    Other         \* a scalar beside the records

ASSUME DocumentAssumption ==
    /\ \A kind \in DOMAIN Records : MaxRows[kind] \in 1 .. Len(MemberNames)
    /\ KeyName # GroupName
    /\ \A i, j \in DOMAIN MemberNames : MemberNames[i] = MemberNames[j] => i = j

-----------------------------------------------------------------------------
(* Values with the records in them.                                        *)

Parts(v) ==
    CASE IsObject(v) -> Members(v)
      [] IsArray(v) -> v.items
      [] OTHER -> << >>

RECURSIVE Subvalues(_)
Subvalues(v) == <<v>> \o FlattenSeq(Mapped(LAMBDA w : Subvalues(w), Parts(v)))

\* No field with a '>' in its name is part of a shared array schema: without
\* this the code loses step (SharedSchemasReadBack).
SharesColumnsOnly(v) ==
    \A i \in DOMAIN Subvalues(v) :
        LET parts == Parts(Subvalues(v)[i])
        IN  Len(parts) > 1 =>
                \A f \in ToSet(tabularFields(parts)) :
                    \A n \in ToSet(sharedArraySchema(parts, f)) : ~IsPath(n)

\* Whatever becomes a table has all its keys in the order of the header.
KeysInOrder(v) ==
    \A i \in DOMAIN Subvalues(v) :
        LET parts == Parts(Subvalues(v)[i])
            fields == tabularFields(parts)
        IN  \A k \in DOMAIN parts : fields # << >> =>
                /\ \A n \in ToSet(fields) : ~IsPath(n)
                /\ Keys(parts[k]) = SelectSeq(fields, LAMBDA f : Has(parts[k], f))

\* The same JSON value: objects do not order their keys.
RECURSIVE Same(_, _)
Same(v, w) ==
    /\ v.kind = w.kind
    /\ CASE IsObject(v) -> /\ ToSet(Keys(v)) = ToSet(Keys(w))
                           /\ Len(v.items) = Len(w.items)
                           /\ \A n \in ToSet(Keys(v)) : Same(Get(v, n), Get(w, n))
         [] IsArray(v) -> /\ Len(v.items) = Len(w.items)
                          /\ \A i \in DOMAIN v.items : Same(v.items[i], w.items[i])
         [] OTHER -> v = w

Decoded(v) == DecodeGeneric(EncodeGeneric(v, flat))

ReadAs(r, v) == r.ok /\ Same(r.val, v)

ReadsBack(v) == ReadAs(Decoded(v), v)

Named(n, v) == Pair(<<n>>, v)

\* At the root, between other members of an object, and among other items.
AsArray ==
    { Array(rows),
      Object(<<Named("x", Other), Named("rows", Array(rows)), Named("y", Other)>>),
      Array(<<Array(rows), Other, Null>>) }

\* As the members of a map: alone, in an object, and in records.
AsMap ==
    LET map == Object([i \in DOMAIN rows |-> Pair(MemberNames[i], rows[i])])
    IN  { map,
          Object(<<Named("x", Other), Named("map", map)>>),
          Array(<<Object(<<Named("x", Other), Named("map", map)>>), Object(<<Named("map", map)>>)>>) }

\* As an array within records, the schema of the first being shared.
Nested ==
    Array(<<Object(<<Named("rows", Array(rows)), Named("x", Other)>>),
            Object(<<Named("rows", Array(Reverse(rows)))>>),
            Object(<<Named("rows", Null), Named("x", Other)>>)>>)

\* The lines of a root array that stand for items, rows and inline bodies.
RowLines(lines) ==
    {k \in DOMAIN lines : lines[k].lead.depth = 0 /\ lines[k].lead.mark \in {"", "@"}}

\* Some row has attachments.
HasAttachments(lines) ==
    \E k \in RowLines(lines) : lines[k].lead.mark = "@" /\ lines[k].body.form = "cells"

\* The text with one row twice, or without it.
Damaged(lines) ==
    {Doubled(lines, k) : k \in RowLines(lines)} \cup
    {Dropped(lines, k) : k \in IF HasAttachments(lines) THEN {} ELSE RowLines(lines)}

-----------------------------------------------------------------------------
(* Properties.                                                             *)

\* An array reads back, whichever fields are missing, null, nested, constant or
\* named like a path, from whichever record on, flattened or not
\* (roundtrip_test.go:27-29).
ArraysReadBack == \A v \in AsArray : SharesColumnsOnly(v) => ReadsBack(v)

\* So do arrays inside records, of which only the first may say its fields.
AttachmentsReadBack == SharesColumnsOnly(Nested) => ReadsBack(Nested)

\* So do maps of records, whatever names their fields have.
MapsReadBack == \A v \in AsMap : SharesColumnsOnly(v) => ReadsBack(v)

\* The keys of every record come back in their order too, when they are in one
\* order everywhere: values that come on later lines take the place that the
\* header gives them (decode_generic.go:603-607).
KeysKeepOrder ==
    \A v \in AsArray : SharesColumnsOnly(v) /\ KeysInOrder(v) => Decoded(v).val = v

\* DecodeGeneric refuses a root array with a row or another item doubled, or
\* missing if none has attachments: "fewer OR more items than declared, is an
\* error" (decode_generic.go:247-252).  A row that is lost may leave its
\* attachments to the row before, and an inline body that is lost may be
\* replaced by a row.
CountsProtect ==
    \A damaged \in Damaged(EncodeGeneric(Array(rows), flat)) : ~DecodeGeneric(damaged).ok

\* "the lossless round-trip invariant" (roundtrip_test.go:29), for arrays of
\* records with arrays.
SharedSchemasReadBack == ReadsBack(Array(rows))
=============================================================================
