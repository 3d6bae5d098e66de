--------------------------- MODULE GenericEncoder ---------------------------
(***************************************************************************)
(* EncodeGeneric (generic.go, keyed_map.go).  "flat" is ~NoFlatten; the    *)
(* other options are as EncodeGeneric sets them.  A map[string]any is an   *)
(* object with its keys in order, and empty ones are OrderedMaps.          *)
(*                                                                         *)
(* A definition marked "Mutant" is a broken variant of the one after it,   *)
(* kept to show which property notices the mistake; nothing uses it.       *)
(***************************************************************************)
EXTENDS GenericText

MinInlineFields == 3

\* The keys, if these are objects with the same keys and no nested value.
CommonKeys(objects) ==
    IF \A i \in DOMAIN objects :
          /\ IsObject(objects[i]) /\ allPrimitives(Members(objects[i]))
          /\ Keys(objects[i]) = Keys(objects[1])
    THEN Keys(objects[1]) ELSE << >>

\* The fields that "^{fields}" declares in the first record.
inlineSchemaFieldsMin(arr, f) ==
    LET enough(fields) == IF Len(fields) >= MinInlineFields THEN fields ELSE << >>
    IN  IF IsObject(Get(arr[1], f)) THEN enough(CommonKeys(ValuesOf(arr, f))) ELSE << >>

\* An array of flat records, none of them empty.
IsFlatTable(v) ==
    /\ IsArray(v)
    /\ tabularFields(v.items) # << >>
    /\ \A k \in DOMAIN v.items : v.items[k].items # << >> /\ allPrimitives(Members(v.items[k]))

CommonFields(arrays) ==
    IF \A i \in DOMAIN arrays :
          IsFlatTable(arrays[i]) /\ tabularFields(arrays[i].items) = tabularFields(arrays[1].items)
    THEN tabularFields(arrays[1].items) ELSE << >>

\* Mutant: the first record may lack the field.
sharedArraySchemaAnywhere(arr, f) ==
    IF ValuesOf(arr, f) # << >> THEN CommonFields(ValuesOf(arr, f)) ELSE << >>

\* Arrays of flat records with the same fields, in the first record too.  That
\* the first record's header leaves out a field with '>' in it is not looked at.
sharedArraySchema(arr, f) ==
    IF IsArray(Get(arr[1], f)) THEN CommonFields(ValuesOf(arr, f)) ELSE << >>

\* The value at the end of a chain of keys.
resolveKeyChain(item, path) ==
    LET top == Get(item, <<Head(path)>>)
    IN  IF top = Null THEN Null
        ELSE FoldLeft(LAMBDA v, k : Get(v, <<k>>), top, Tail(path))

\* The objects have keys, the same ones, all of them names without '>', and each
\* has a scalar in all of them, or an object in all of them.
SameShape(objects, keys) ==
    /\ \A i \in DOMAIN objects :
          /\ IsObject(objects[i]) /\ keys # << >> /\ Keys(objects[i]) = keys
          /\ \A k \in ToSet(keys) :
                LET v == Get(objects[i], k)
                IN  /\ ~IsArray(v)
                    /\ v # Null => (IsObject(v) <=> IsObject(Get(objects[1], k)))
    /\ \A k \in ToSet(keys) : ~IsPath(k) /\ k # <<"">>

\* Some record has the field, with nulls at the ends of all the paths.
AllNulls(arr, f, leaves) ==
    \E i \in DOMAIN arr : /\ Get(arr[i], f) \notin {Absent, Null}
                          /\ \A j \in DOMAIN leaves : resolveKeyChain(arr[i], leaves[j]) = Null

\* The paths through each key, none at all if one key has none.
AllLeaves(leavesOf) ==
    IF Contains(leavesOf, << >>) THEN << >> ELSE FlattenSeq(leavesOf)

\* The path columns that replace a field, none if it must stay.  All its objects
\* have one shape, no null stands for an inner object, no object is all nulls,
\* and no name on the way is empty or has a '>'.
RECURSIVE analyzeFlattenable(_, _, _)
LeavesOf(objects, keys, path) ==
    IF ~SameShape(objects, keys) THEN << >>
    ELSE AllLeaves(Mapped(LAMBDA k : IF IsObject(Get(objects[1], k))
                                     THEN analyzeFlattenable(objects, k, path)
                                     ELSE <<path \o k>>, keys))

analyzeFlattenable(arr, f, parent) ==
    LET objects == ValuesOf(arr, f)
        unlessNull(leaves) == IF AllNulls(arr, f, leaves) THEN << >> ELSE leaves
    IN  IF \/ IsPath(f) \/ f = <<"">>
           \/ parent # << >> /\ \E i \in DOMAIN arr : Get(arr[i], f) = Null
           \/ objects = << >>
        THEN << >> ELSE unlessNull(LeavesOf(objects, Keys(objects[1]), parent \o f))

\* The plain columns with one scalar in all of two or more records, but not all
\* the columns.
ConstantColumns(arr, columns) ==
    LET same(c) == /\ ~IsPath(c)
                   /\ Has(arr[1], c) /\ ~IsNested(Get(arr[1], c))
                   /\ \A i \in DOMAIN arr : Get(arr[i], c) = Get(arr[1], c)
        all == SelectSeq(columns, same)
    IN  IF Len(arr) < 2 THEN {}
        ELSE ToSet(IF all = columns THEN Front(all) ELSE all)

-----------------------------------------------------------------------------

\* Two members or more, all of them objects, and a field that can be a column.
keyedMapEligible(o) ==
    /\ Len(o.items) >= 2
    /\ \E f \in ToSet(tabularFields(Members(o))) : ~IsPath(f)

\* Mutant: a field may have that name.
KeyLabelFixed(fields) == <<"key">>

\* "key", with "_" in front as long as a field has that name.
KeyLabel(fields) ==
    << FoldLeft(LAMBDA l, f : IF Contains(fields, <<l>>) THEN "_" \o l ELSE l, "key", fields) >>

\* An object or an array, its lead first and what it leads at depth; or a scalar.
RECURSIVE ValueLines(_, _, _, _, _)

\* A section for an object or a table, a name before anything else.
MemberLines(n, v, depth, flat) ==
    LET named == ~IsNested(v) \/ (IsArray(v) /\ v.items # << >> /\ allPrimitives(v.items))
        deeper == IsObject(v) /\ ~keyedMapEligible(v)
    IN  ValueLines(IF named THEN NameLead(depth, n) ELSE SectionLead(depth, n),
                   v, IF deeper THEN depth + 1 ELSE depth, flat, TRUE)

encodeOrderedObject(o, depth, flat) ==
    FlattenSeq(Mapped(LAMBDA p : MemberLines(p.key, p.val, depth, flat), o.items))

encodeExpanded(lead, arr, depth, flat) ==
    <<Line(lead, ItemsBody(Len(arr)))>>
    \o FlattenSeq([i \in DOMAIN arr |->
           ValueLines(ItemLead(depth, i - 1), arr[i], depth + 1, flat, FALSE)])

\* The body of an attached field in the i-th row of a table at depth.
AttachmentLines(v, f, i, depth, flat, inline, shared) ==
    IF inline # << >>
    THEN <<Line(NoLead(depth), CellsBody(Mapped(LAMBDA k : Get(v, k), inline)))>>
    ELSE IF IsArray(v) /\ i > 1 /\ shared # << >> /\ tabularFields(v.items) = shared
    THEN <<Line(AttachLead(depth, f), ItemsBody(Len(v.items)))>>
         \o Mapped(LAMBDA o : Line(NoLead(depth + 2),
                                   CellsBody(Mapped(LAMBDA k : Get(o, k), shared))),
                   v.items)
    ELSE ValueLines(AttachLead(depth, f), v, depth + 2, flat, FALSE)

\* What a table does with its fields: loose ones, with '>' in their names, are
\* attached; bare columns have cells; shared has the schemas of array fields.
Layout(arr, fields, leaves, columns, constant) ==
    [columns |-> columns,
     constant |-> constant,
     bare |-> SelectSeq(columns, LAMBDA c : c \notin constant),
     loose |-> SelectSeq(fields, LAMBDA f : leaves[f] = << >> /\ IsPath(f)),
     inline |-> Tabulated([c \in ToSet(columns) |->
                    IF IsPath(c) THEN << >> ELSE inlineSchemaFieldsMin(arr, c)]),
     shared |-> Tabulated([f \in ToSet(fields) |->
                    IF leaves[f] = << >> THEN sharedArraySchema(arr, f) ELSE << >>])]

ColumnsOf(fields, leaves) ==
    FlattenSeq(Mapped(LAMBDA f : IF leaves[f] # << >> THEN leaves[f]
                                 ELSE IF IsPath(f) THEN << >> ELSE <<f>>, fields))

LaidOut(arr, fields, leaves, columns, factorConst) ==
    Layout(arr, fields, leaves, columns,
           IF factorConst THEN ConstantColumns(arr, columns) ELSE {})

Flattened(arr, fields, leaves, factorConst) ==
    LaidOut(arr, fields, leaves, ColumnsOf(fields, leaves), factorConst)

LayoutOf(arr, fields, flat, factorConst) ==
    Flattened(arr, fields,
              Tabulated([f \in ToSet(fields) |->
                  IF flat THEN analyzeFlattenable(arr, f, << >>) ELSE << >>]),
              factorConst)

CellOf(v, schema) == IF IsNested(v) THEN Attached(schema) ELSE v

\* The i-th row of a table, o, with these of its fields attached.
RowLinesOf(o, i, t, attached, depth, flat) ==
    LET schema(c) == IF c \in DOMAIN t.inline THEN t.inline[c] ELSE << >>
        first(c) == IF i = 1 THEN schema(c) ELSE << >>
    IN  <<Line(IF attached = << >> THEN NoLead(depth) ELSE ItemLead(depth, i - 1),
               CellsBody(Mapped(LAMBDA c : CellOf(resolveKeyChain(o, c), first(c)), t.bare)))>>
        \o FlattenSeq(Mapped(LAMBDA f : AttachmentLines(Get(o, f), f, i, depth, flat,
                                                        schema(f), t.shared[f]), attached))

TableLines(lead, arr, t, depth, flat, keyed) ==
    LET entry(c) == Entry(c, IF c \in t.constant THEN Get(arr[1], c) ELSE Absent, FALSE)
        attached(o) == SelectSeq(t.bare, LAMBDA c : IsNested(resolveKeyChain(o, c)))
                       \o SelectSeq(t.loose, LAMBDA f : Has(o, f))
    IN  IF t.columns = << >> THEN encodeExpanded(lead, arr, depth, flat)
        ELSE <<Line(lead, TableBody(Len(arr), keyed, Mapped(entry, t.columns), NoGroup))>>
             \o FlattenSeq([i \in DOMAIN arr |->
                    RowLinesOf(arr[i], i, t, attached(arr[i]), depth, flat)])

\* The header, rows and attachments of a table; records without any column
\* become items.
encodeTabular(lead, arr, fields, depth, flat, keyed, factorConst) ==
    TableLines(lead, arr, LayoutOf(arr, fields, flat, factorConst /\ ~keyed), depth, flat, keyed)

\* A keyed map's rows are its members with one more field, their names.
LabelledTable(lead, o, fields, label, depth, flat) ==
    encodeTabular(lead,
                  Mapped(LAMBDA p : Object(Append(p.val.items, Pair(label, Scalar(p.key)))), o.items),
                  <<label>> \o fields, depth, flat, TRUE, FALSE)

encodeKeyedMap(lead, o, depth, flat) ==
    LabelledTable(lead, o, tabularFields(Members(o)), KeyLabel(tabularFields(Members(o))), depth, flat)

\* writeArray and its kin.
ArrayLines(lead, arr, depth, flat, factorConst) ==
    IF allPrimitives(arr)
    THEN <<Line(lead, IF arr = << >> THEN ItemsBody(0) ELSE ListBody(arr))>>
    ELSE IF tabularFields(arr) # << >>
    THEN encodeTabular(lead, arr, tabularFields(arr), depth, flat, FALSE, factorConst)
    ELSE encodeExpanded(lead, arr, depth, flat)

ValueLines(lead, v, depth, flat, factorConst) ==
    CASE IsArray(v) -> ArrayLines(lead, v.items, depth, flat, factorConst)
      [] IsObject(v) -> IF keyedMapEligible(v) THEN encodeKeyedMap(lead, v, depth, flat)
                        ELSE <<Line(lead, ObjectBody)>> \o encodeOrderedObject(v, depth, flat)
      [] OTHER -> <<Line(lead, ValueBody(v))>>

\* The lines of a document; nothing below the header is an empty object.
EncodeGeneric(v, flat) ==
    IF IsObject(v) /\ ~keyedMapEligible(v) THEN encodeOrderedObject(v, 0, flat)
    ELSE ValueLines(IF IsNested(v) THEN RootLead ELSE NoLead(0), v, 0, flat, TRUE)
=============================================================================
