# gcf-go in TLA+

This directory is the verification project of gcf-go, the Go implementation of
the GCF text format: TLA+ modules translated from the source, TLC
configurations that check them on small instances, and theorems that TLAPS
proves for every instance. Paths and line numbers are those of the repository.

## 1. The system

gcf-go is one Go package, `gcf`, and a command line tool around it. It writes
and reads a token-economical text format with two profiles: *graph* (symbols of
a code base and edges between them) and *generic* (any JSON-like value).

| Component | Source | State it keeps | Operations | What makes it hard |
|---|---|---|---|---|
| Dedup session | `session.go` | `symbols` (qualified name → id), `nextID`, one mutex | `EncodeWithSession`, `Record`, `Reset`, `Transmitted`, `GetID` | shared by concurrent tool handlers; the mutex covers one table access, an encode makes many |
| Generic delta | `generic_delta.go` | none (pure functions on `GenericSet`) | `GenericPackRoot`, `DiffGenericSets`, `EncodeGenericFull/Delta`, `DecodeGenericFull/Delta`, `VerifyGenericDelta` | identities and roots go through `canonicalCell`, wire values through `formatScalar`; neither is the identity |
| Generic delta session | `generic_delta_session.go` | `base`, `policy`, `turn`, `cum` | `CurrentFull`, `Next` | producer and consumer stay in step over a channel; two re-anchor policies; calls that fail |
| Streaming graph encoder | `stream.go` | `symIndex`, `nextID`, `currentGroup`, `groupCounts`, `groupOrder`, `edgeCount`, `edgesStarted`, a mutex | `WriteSymbol`, `WriteEdge`, `WriteBareRef`, `Close` | nothing is buffered, so any order of calls goes straight to the reader |
| Graph codec | `gcf.go`, `decode.go` | none | `Encode`, `Decode` | ids after sorting; declared counts |
| Graph delta, pack root | `delta.go`, `packroot.go` | none | `EncodeDelta`, `DecodeDelta`, `PackRoot`, `VerifyDelta` | identity is (kind, name), edges carry names only; Go map order |
| Streaming generic encoder | `stream_generic.go` | `current`, `sections`, `err`, a mutex | `BeginArray`, `BeginKeyedMap`, `WriteRow`, `EndArray`, `WriteKV`, `WriteSection`, `WriteInlineArray`, `Close` | which table is open; a deferred error |
| Generic encoder | `generic.go`, `encode_helpers.go` | none | `EncodeGeneric` | tabular eligibility, flattening, attachments |
| Generic decoder | `decode_generic.go`, `decode_helpers.go` | none | `DecodeGeneric`, `validateSummaryCounts` | the same choices undone from text |
| Constant grouping | `constant_grouping.go` | none | `EncodeGenericGrouped` and its reader | factored columns must come back in place |
| Keyed maps | `keyed_map.go` | none | `keyedMapEligible`, `keyedRowsToMap` | a map written as a table |
| Ordered map | `orderedmap.go` | keys and values | `Set`, `Get`, JSON (un)marshalling | key order |
| Scalars | `scalar.go` | none | `formatScalar`, `parseScalar`, `needsQuote`, `formatNumber` | quoting, number domain |
| Command line | `cmd/gcf/main.go` | none | `encode`, `decode`, ... | file I/O |
| Evaluations | `eval/` | none | benchmarks against language models | not part of the library |

How they interact. `EncodeWithSession` shares `groupByDistance` with `Encode`,
reads and updates the `Session` through its locked methods, and its responses
are read by a client that resolves bare references against earlier ones.
`GenericDeltaSession.Next` calls `DiffGenericSets` and the two encoders of
`generic_delta.go`; the consumer on the other end calls the two decoders and
`VerifyGenericDelta`. The stream encoders write to an `io.Writer` whose reader
runs the same `Decode`/`DecodeGeneric` as for buffered output. There are no
callbacks, timers or persisted state in the library, so there is no crash
recovery to model; what is hard is interleaving, the order of legal calls,
values whose conversions collide, and a channel that the library does not own.

What each component must get right:

* session: ids dense, unique and stable; every bare reference resolves to what
  was declared under that id; nothing delivered is forgotten;
* generic delta and its session: the consumer holds the producer's state
  whenever all is delivered; a payload is applied whole or not at all; faults
  heal at the next anchor; both policies keep their bound; a valid state is
  never refused;
* stream encoder: the reader has what was written, under the right distance and
  names; the trailer tells the truth; the output is decodable at every moment;
* streaming generic encoder: the text decodes to the document that the calls
  describe, or it is refused;
* graph codec and graph delta: every symbol and every edge that can be written
  reads back; a right delta is accepted whatever Go's map order, and what is
  accepted is a graph that was sent;
* generic encoder, grouping, keyed maps and their decoder: any value reads back,
  its keys in their order, whichever of the tabular forms the encoder chose; a
  lost or doubled row is noticed.

## 2. Modules

Built in this order, the behaviour that matters most first.

### 2.1 Session family

`SessionClient` holds what a client can tell from the responses alone (which ids
were declared for what, which references resolve). `AtomicSession` is the
abstract specification: an encode is one step that declares exactly the unseen
symbols under the next ids. `Session` is the code. `MCSession` gives TLC names
and payloads.

| `Session` | Code |
|---|---|
| `symbols`, `nextID` | the fields of `Session`, session.go:13-17 |
| `pc`, `payload`, `isNew`, `localIndex`, `todo`, `lines` | where a call of `EncodeWithSession` is and its locals (`todo` is the loop cursor) |
| `Begin`, `Partition`, `LookUp`, `Assign`, `Emit`, `Finish`, `Return` | one step per acquisition of the mutex: 85-97, 98-102 (`Transmitted`), 126-131 (`GetID`), 132-138 (`nextSessionID`), 140-178 (`Transmitted` again per line), 197-204 (`Record`), 204-207 |
| `Reset`, `RecordCall` | the application's own calls of `Reset` and `Record` |
| `responses` | what the client has been given since the last reset |

`SessionProofs` has what holds for any number of encoders and resets, and what
holds of deliveries without a reset; `SessionSingleProofs` has the refinement of
`AtomicSession` by one encoder.

The order of lines is `groupByDistance`'s: distance, then score, ties in payload
order, folded into one `rank`. Edge lines are the pairs of ids the code would
write, unknown endpoints skipped.

### 2.2 Generic delta family

`GenericDelta` has the operators of generic_delta.go, `DeltaSession` the session,
the channel and the consumer loop of `TestSessionConsumerStaysInSync`,
`SnapshotStream` the abstract promise: it is as if every state were sent whole.
`MCDeltaSession` gives TLC tables. `GenericDeltaProofs` proves about the
operators, `DeltaSessionProofs` about the session.

Two conversions are CONSTANT functions because the code's errors live there:
`Canon` (`canonicalCell`) and `OnWire` (what `parseScalar` reads where
`formatScalar` wrote). In `MCDeltaSession`, `Canon` sends two int64 values that
one float64 stands for to one cell, and `OnWire` sends a `uint32` to the string
of its digits, which is what the default case of `formatScalar` and then
`parseScalar` do. `WireKeepsCells` (the cell survives the wire) is assumed; it
was read off the type switches of `canonicalCell` and `formatScalar`.

A root is the bag of records it hashes, so equal roots means equal bags: SHA-256
is taken to have no collision. It leaves out the key, the order of columns and
of rows, and for a table without rows the columns, exactly as the code does.

| `DeltaSession` | Code |
|---|---|
| `base`, `policy`, `turn`, `cum` | the fields of `GenericDeltaSession` |
| `NextCall` = `NextOnNewSchema` \/ `NextFails` \/ `NextOnCadence` \/ `NextAsDelta` | the returns of `Next`, generic_delta_session.go:81-109, after `turn++` |
| `reanchor`, `CurrentFull` | 113-118, 70-72 |
| `Deliver`, `Receive` | one turn of the consumer loop; an error keeps the held set |
| `Lose`, `DeliverCopy`, `Overtake` | faults of the channel |
| `spent`, `gap`, `skipped`, `missing` | history, read by properties only |

`VerifyGenericDelta` is a set of outcomes because Go's map order decides the
order of the resulting rows. A payload is modelled as its decoder reads it, with
a header, section headers and lines of fixed length for the size guard.

### 2.3 Stream family

`GraphReader` is `Decode` as the fold over lines it is: a reader's state and
what one more line does to it. `StreamEncoder` extends it with the encoder and
runs a reader along every line written. `MCStreamEncoder` instantiates it.

| `StreamEncoder` | Code |
|---|---|
| `symIndex` ... `edgesStarted` | the fields of `StreamEncoder`, stream.go:22-39 |
| `WriteSymbol` (with `EnterGroup`, `FirstInGroup`, `NewId`, `CountLine`) | 88-126 |
| `WriteEdge` | 131-154; a call that skips its edge (135-139) changes nothing and is a stutter |
| `WriteBareRef`, `Close` | 159-182, 186-226 |
| `out`, `reader` | the lines written, and `Decode`'s variables after them |
| `sentSymbols`, `sentEdges`, `bareRefs` | history: what callers passed |

Each method holds the mutex for its whole body, so a call is one step. A group
is its distance: the header's name spells it one to one for the non-negative
distances the type's documentation has (a negative one panics in Go).

### 2.4 Generic stream family

`GenericReader` is `DecodeGeneric` as a fold over the lines that a streaming
encoder can write: the root object, its deferred tables and keyed maps, and the
count check of the trailer. `GenericStream` has the encoder and runs the reader
along. `MCGenericStream` gives TLC symmetry sets.

| `GenericStream` | Code |
|---|---|
| `current`, `sections`, `err` | the fields of `GenericStreamEncoder`, stream_generic.go:23-40, names and field names aside |
| `BeginArray`, `BeginKeyedMap` (with `Begin`), `RefuseFields` | 51-73, 90-113; a call after a refusal is a stutter |
| `WriteRow`, `EndArray` | 117-131, 134-149; without a table both are stutters |
| `WriteKV`, `WriteInlineArray`, `WriteSection` | 152-181 |
| `Close` = `CloseWithError` \/ `CloseWithTrailer` | 185-206 |
| `reader` | `DecodeGeneric` on what has been written |
| `sent`, `mistakes`, `trailing` | history: the document that the calls describe, what callers did that the format has no place for, and whether some line that is no row came after an ended array |

The methods check almost nothing, so the model lets callers do almost anything
and names what they did wrong: `name` (a name used before), `width`, `blank` (a
row without values), `member` (a member key twice), `keyOnly` (a keyed map
without value fields), `inArray` (a line that is no row while a table is open),
`afterSection` (anything but a section after a
section) and `key` (a key that needs quotes). A pair or an inline array after an
array that has ended is no such mistake, since the usage of the type has one
(stream_generic.go:16-22); it is noted in `trailing`. A table header's quoted names
come back as written; the keys that `WriteKV` writes unquoted do not.

### 2.5 Graph family

`GraphDelta` has the graphs, their root and their deltas, `GraphCodec` the whole
payloads (`Encode` as the lines that `GraphReader` reads), `GraphFeed` a producer
and a consumer over a channel. `GraphFeedProofs` has the
theorems, `MCGraphFeed` gives TLC graphs.

| Definition | Code |
|---|---|
| `PackRoot` (`SymbolRecord`, `KindOf`, `EdgeRecord`) | packroot.go:14-60; what is hashed, as a bag |
| `VerifyDelta` (`MapOf`, `Fits`, `Changed`) | packroot.go:64-139; a set of outcomes, one for each order of Go's maps |
| `OnWire`, `RemovalOnWire`, `DeltaOnWire` | what `EncodeDelta` prints of a symbol and `DecodeDelta` reads: kinds through `KindAbbrev` and `KindExpand`, scores through "%.2f" (`Printed`) |
| `groupByDistance` with `OutputOrder` and `NearestFirst`, `symIndex` with `LastLineOf`, `SymbolLines` with `GroupHeader` | gcf.go:232-256, 122-130, 160-184 |
| `ValidEdges`, `SortedEdges` with `EdgeOrder` and `LowestIdsFirst`, `EdgeLines` with `EdgeSection` | gcf.go:132-140, 195-212, 186-222 |
| `Decode` with `Scan` and `OutcomeOf` | decode.go:53-134 (a line is `Read` of `GraphReader`), 136-143 |
| `Deliver`, `Receive` | one turn of the consumer of conformance_test.go:210-246; an error keeps the graph held |
| `SendFull`, `SendDelta`, `Lose`, `DeliverCopy`, `Overtake` | the application and the channel, which the library leaves to its users |

A graph may be in any order, have a name twice, an edge to a name without a
symbol, a third decimal, or a kind spelt like a short form. `Faithful` names
those that the wire can tell in full; `NeverRefused` is about them, the other
properties about all.

### 2.6 Generic codec family

`GenericValue` has the values, `GenericText` the lines. `GroupedEncoder` and
`GroupedDecoder` write and read grouped arrays, `GenericEncoder` and
`GenericDecoder` everything else; all are pure. `GroupedDocument` puts the first
two to work: an application collects records, and at any moment may encode what
it has, grouped by a field. `GenericDocument` extends it with the other ways to
encode the same records: as a root array, in an object, in an array, as the
members of a map, or as an array inside other records. `MCGenericDocument` gives
TLC the records, `GroupedProofs` has the theorems about `GroupedDocument`.

A name is the sequence of its parts between '>', which is all that the code asks
of a name besides equality; "" is a part. A line is what it leads with (depth,
mark, id, name) and a body; cells, entries and values stay values, so
quoting is left out (section 6). A parser returns what it read and the line that
comes next, as the Go functions do.

| Definition | Code |
|---|---|
| `inlineSchemaFieldsMin`, `sharedArraySchema`, `analyzeFlattenable`, `resolveKeyChain`, `ConstantColumns` | generic.go:292-345, 347-399, 407-574, 576-598, 689-745 |
| `encodeTabular` with `LayoutOf`, `TableLines`, `RowLinesOf`, `AttachmentLines` | 609-969 |
| `encodeOrderedObject` with `MemberLines`, `encodeExpanded` with `ValueLines`, `ArrayLines`, `EncodeGeneric` | 128-202, 245-282, 204-243 and 921-935, 89-126 |
| `keyedMapEligible`, `KeyLabel`, `encodeKeyedMap`, `keyedRowsToMap` | keyed_map.go |
| `Groupable`, `FactoredFields`, `HeaderEntries`, `PerRecord`, `GroupValues`, `GroupMembers`, `Cluster`, `EncodeGenericGrouped` | constant_grouping.go:529-576, 578-607, 609-623, 625-634, 636-647, 649-671 |
| `parseTabularBody` with `ReadRow`, `Attachments`, `GoOnWithRows`; `unflattenPaths`, `Reordered` | decode_generic.go:554-943, 473-546 |
| `parseAttachment`, `parseArrayFromHeader`, `parseExpandedBody` with `ReadBody`, `parseObjectBody` with `ReadMember`, `parseArraySection` | 971-1092, 258-393, 395-463, 109-238, 240-256 |
| `WithConstants` | constant_grouping.go:169-254 |
| `decodeGroupedArray` with `KeyColumn`, `PerRecordNames`; `decodeGroups` with `ReadGroup`, `GroupAt`, `GroupRows`, `GroupRecord`, `UniqueKeys`; `DecodeGrouped` | constant_grouping.go:274-436, decode_generic.go:240-256 |
| `SpeltAs` | `parseGroupSubheader`, constant_grouping.go:456-490 |

The recursion over nested values is written with RECURSIVE operators in
`GenericEncoder`, `GenericDecoder` and `GenericDocument`, so these have no
theorems. Records in groups have no nested values: the modules for them have no
recursive operator, and the decoder's loop over the groups is a function of the
number of its turns. `parseGroupSubheader` goes by the text alone, and a row that
needs no quotes (scalar.go:23-67) may have that of a group's line: `Spelt` has
such rows with the lines they are spelt like, and `SpeltAs` is what is made of a
line where a group's is expected. `Mapped` and `Tabulated` are the identity on their sequence
or function; they make TLC compute it once.

### 2.7 What the plan leaves

The plan was: the session and its refinement, the generic delta session, the
streams, the graph family, then the generic codec; each modelled, checked, and
proved in that order. Every safety property and action property of the runs has a
theorem, except the five about generic documents other than grouped ones
(`ArraysReadBack`, `AttachmentsReadBack`, `MapsReadBack`, `KeysKeepOrder`,
`CountsProtect`). What cannot be proved is named, with the reason, at the end of
section 5; what is not modelled, in section 6.

## 3. Runs

| Run | Instance | What it shows |
|---|---|---|
| `session_one_encoder` | one encoder, 5 payloads, 3 encodes, 1 reset between encodes | the lock-granular session implements `AtomicSession`; wire ids are session ids, never shared, and references resolve |
| `session_concurrent` | two encoders, 3 payloads of which one repeats a name, 2 encodes, 1 reset at any moment, 1 direct `Record` | what survives interleaving: ids stay dense, injective and stable; until the reset, nothing delivered is forgotten, known symbols keep their id and (with fairness) every symbol is recorded in the end; without the direct `Record` either, nothing is recorded that was not declared |
| `session_colliding_ids` | two encoders | *violation*: one id declared for two symbols |
| `delta_in_order` | both policies, 7 sets (valid and not, three schemas), orderly channel of 2 | no payload refused, consumer in sync, both bounds kept, `SnapshotStream` implemented |
| `delta_unreliable` | `FixedN(2)`, 10 valid sets, 2 faults of any kind | a payload is applied whole or not at all, anchors heal, refusals end |
| `delta_big_integers` | two int64 values with one float64 | *violation*: a change is not sent and both sides agree it was |
| `stream_symbols_first` | 2 names, 3 distances (0, 1, 3), 3 symbols, 2 edges, 1 bare reference | reader has what was written, output always decodable, trailer's totals right |
| `generic_stream` | 3 names (one needs quotes), one value, widths to 2, any 5 calls and `Close` | without mistakes or lines after an array the text so far decodes to the document so far; with them it is refused or right |
| `generic_stream_usage` | the same | *violation*: an array, `EndArray`, `WriteKV` and `Close`, as in the usage of the type, do not read back |
| `graph_feed` | 8 graphs (4 that the wire can tell), channel of 2, 1 fault | full payloads read back; right deltas are accepted; the consumer goes from one graph sent to another and is in step after a full and all that followed |
| `generic_document` | seven kinds of records, all pairs of each kind, all triples of two, flattened or not: 7,946 collections, each encoded in eight ways | whatever is encoded reads back, in order; rows are counted, and in a grouped array without a row spelt like a group's line any line lost or doubled is noticed |
| `generic_shared` | the same | *violation*: arrays of records with a '>' in a field's name do not read back |

### Bounds and why they are enough

* Session: three names suffice for a payload out of wire order, one that
  overlaps it and one disjoint from both; of one encoder's three encodes the last
  sees what two others left behind. Two encoders make one encode each or both in
  a row, and the direct `Record` or an encode that ends early is what a running
  one finds changed under it; the theorems have any number. `MaxEncodes`, `MaxResets` and `MaxRecords` only
  cap counters.
* Delta: two rows and two values show every kind of change (added, changed,
  removed, reordered, key or column replaced, a row that lacks a column). `turn`
  is kept modulo `Period`, a multiple of every cadence, which is all `Next` looks
  at. `MaxCum` caps `cum`, which only failing anchor turns can let grow past a
  few deltas. Line lengths (`FullHead` 8, `RowLen` 2, ...) are chosen so that a
  size-guarded session sends up to several deltas before an anchor. Two payloads
  in flight are what an overtaking needs.
* Stream: three symbols over three distances leave a group and return to it;
  two names make one repeat; distance 3 is a `distance_N` group.

* Generic stream: five calls are a table with a row, something after it, and a
  second table with a row; also a row, a blank row and a loose line, the shortest
  way past the trailer's check. Names other than the one that needs quotes are
  symmetric; the run has no liveness property. With one value, rows and inline
  arrays differ in their width and pairs in their key; which cell goes where,
  for any values, is in `TextReadsBack` and `TrailerProtects`.

* Graph: two names, of which each graph may have either, both or one twice, and
  three distances give every order of lines; one fault is a loss, a copy or an
  overtaking; a channel of two is what an overtaking needs.
* Generic documents: the tabular forms are chosen by comparing each record with
  the first, so two records show every choice, and a third shows what lies
  between two that agree (a field missing or null in the middle, a schema
  declared by the first and used by the third). Objects nest two deep inside a
  record, which is what flattening a null inside an object needs. Three fields
  are what an inline schema needs. The kind made for grouping (`keyed`) has four
  ids, of which one, alone in its row, is spelt like a line that announces a group
  of three; and a group field that is a value, a null or missing. So three records
  may all be taken with or without such a row, have a factored field, and make a
  group whose members another record stands between; a null and a missing field
  fall into one group.

`CHECK_DEADLOCK FALSE` is set where the bounded behaviour really ends: all
encodes made, the stream closed, or the records collected. The delta session
never stops, nor does the graph feed.

### Fairness

* `Session`: weak fairness of each encoder's next step. A goroutine inside
  `EncodeWithSession` runs, and the mutex is held for one table access at a time
  and released by `defer`, so it is never withheld for ever. Starting an encode,
  `Reset` and `Record` are not fair: nothing obliges an application to call them.
* `DeltaSession`: weak fairness of some call of `Next` and of delivery. The
  library cannot make the application produce updates; `RejectionsEnd` says what
  happens as long as it does. Faults are bounded by `MaxFaults`, without which
  nothing could be promised. The choice among the states is not fair.
* `StreamEncoder`, `GenericStream`, `GraphFeed`, `GroupedDocument` and
  `GenericDocument` have no liveness property: every call returns, and nobody is obliged to send.

## 4. Known divergences

What the runs that expect a violation show, each quoted with its line in
`PROJECT.json`:

1. Two concurrent encodes may declare two symbols with one id (session.go:132):
   `nextSessionID` is read, not reserved (`session_colliding_ids`).
2. A change between int64 values that one float64 stands for is invisible to
   `DiffGenericSets` and to both roots (generic_delta.go:60; `delta_big_integers`).
3. When records have arrays whose items have a field with '>' in its name,
   `sharedArraySchema` counts that field in, the first record's header leaves it
   out, and the later records' rows, all cells below a bare `[N]`, are refused or,
   when no other field is left, have no header at all (generic.go:347;
   `generic_shared`). The other properties of `GenericDocument` are stated for
   `SharesColumnsOnly`.
4. A pair or an inline array written after an array, as in the usage that
   stream_generic.go:16-22 documents, is read as a row of that array, and the text
   is refused (stream_generic.go:157; `generic_stream_usage`). `ReadBack` is
   stated for texts without such a line (`~trailing`).

Seen while modelling, with no run of their own:

* A payload with a qualified name twice makes wire ids and session ids drift
  apart for the rest of the session (session.go:133): `BareReferencesResolve` of
  `session_one_encoder` fails with `RepeatingPayloads` in place of
  `SequentialPayloads`.
* A symbol written after an edge, in the group last open, lands in the edges
  section, and `Decode` refuses the text (stream.go:102): `DecodeAccepts` fails
  with `SymbolsFirst = FALSE`.
* A row of a grouped array may be spelt like a group's line, since `needsQuote`
  (scalar.go:23-67) does not look for one. A group's own line that is lost may
  then go unnoticed: in

      ## [3]{@k,g} group=g
      g=x [2]
      g=y [3]
      b
      g=z [1]
      c

  without `g=x [2]` the key `g=y [3]` is read as a group of three, `b`, `g=z [1]`
  and `c`, and the total is right. No doc or comment says otherwise of such a
  text, so no run does. `GroupedCountsProtect` excepts texts with a row of this
  kind; without the exception TLC finds this document. `GroupedReadsBack` does
  not: a text without damage is read row by row, whatever the rows are spelt like.
* With two kinds of one qualified name and an edge to it, `PackRoot` depends on
  the order of the symbols (packroot.go:35), against packroot.go:10-13; in
  `VerifyDelta` Go's map order decides, so the same delta may be accepted once
  and refused once. `Faithful` asks for edge ends that are unique.
* A graph with a score of more than two decimals cannot be sent as a delta: the
  root hashes the score in full, the line has "%.2f" (delta.go:55).
* A kind that is spelt like a short form ("fn") comes back as the kind it is
  short for (delta.go:80).
* `VerifyDelta` is not given the base root, so a delta may be applied to another
  base than its own when it fits and the result's root is right.
* A row with attachments that is lost from a one-column table leaves its
  attachments' lines to be read as a row's text, and an inline body that is lost
  may be replaced by the next row: the count comes out right and the text is
  accepted. `CountsProtect` excepts tables with attachments from losses.
* Item lines (`@0 =1`) whose header line is lost are passed over
  (decode_generic.go:192).
* A base with a repeated identity is installed unchecked, by
  `NewGenericDeltaSession` or by a schema change, and then every state of that
  schema is refused, anchor turns included (generic_delta_session.go:89). The
  guard of `NextFails` is this.
* A group opened by `WriteBareRef` is missing from the trailer (stream.go:171),
  which is why `TrailerTellsTotals` asks for no bare references.
* `WriteSection` writes its header without indentation and indents nothing after
  it: every section is empty, and what follows belongs to the root.
* `WriteKV` does not quote its key, and `DecodeGeneric` passes over a pair whose
  key is not a bare one (decode_generic.go:192-195), although the comment at
  decode_generic.go:226-228 rules that out for lines of an object body.
* `WriteInlineArray` may use a name again: the array replaces what was there,
  where every other duplicate is an error (decode_generic.go:221).
* A row without values counts for the encoder and is a blank line for the reader.
  Alone that makes the trailer wrong, so the text is refused; with a loose line
  in a table one column wide the two cancel out, and a wrong document is
  accepted (`Undetectable` has `blank` for that reason).
* `Reset` between an encode's partition and its `GetID` puts the answer for "not
  found" on the wire as `@-1`.
* When another encoder records a symbol between this encode's partition and its
  emission, the line becomes a bare reference with an id only this response uses.
* `Decode` refuses a bare reference line (four fields where it wants five), so
  session responses and streams with bare references are for a client that
  tracks ids, not for `Decode`; `DecodeAccepts` and `ReaderKeepsUp` are stated
  for output without them. An empty provenance has the same effect.
* A failed `Next` on an anchor turn of `FixedN` costs that anchor (`skipped`).
* `CurrentFull` sent as a manual anchor does not reset `cum`: the size guard
  then anchors earlier than it need, never later.
* A key that is not one of the columns is accepted by `GenericPackRoot` and
  `DiffGenericSets`, but its cells are not on the wire: the rows that arrive have
  no identity of their own (generic_delta.go:103-113). `KeysAreColumns` of the
  proofs excludes it.
* `VerifyGenericDelta` never looks at the delta's key: after a lost full with
  another key over the same columns, a delta whose base root matches is applied
  under the held key. `AppliesWhole` holds all the same because the result is
  hashed.

## 5. Proofs

Proof modules extend the module they are about and TLAPS; none of these depends
on the instances TLC uses.

`SessionProofs`, for any encoders, payloads, resets and direct `Record` calls:
`TypeCorrect`, `TableIntegrity` (ids are exactly 0 .. nextID-1, no two names
share one) and `IdsAreStable`. The heart is `RanksDense`: the position of a name
among those `Record` meets first is a bijection from the new names to
0 .. n-1, by induction on the least counterexample since `Record`'s loop is a
function of a finite set of positions. The type invariant is strengthened by
`EncoderInv`: a line's id exists only because the loops that fill `localIndex`
have passed its position, so each program counter says which positions are done.

The same module, for any number of encodes, resets and direct `Record` calls:
`RecordedSymbolsWereDeclared`, `DeliveredSymbolsAreRecorded`,
`KnownSymbolsKeepTheirId`. Each property says itself how long it lasts (until the
first reset, the first also until the first direct `Record`), and its invariant
has the same condition in front: the calls are counted, so a step after which
there was no reset began without one (`CallsCounted`). The invariants follow a
symbol through an encode: what it has emitted is declared by it or was
recorded, hence declared, before; what the partition passed is new or recorded;
what it recorded stays, because the table only grows. A reset in mid-encode
really breaks each of them, so the condition is needed.

`SessionSingleProofs`, for one encoder that is not interrupted (`OneAtATime`:
resets between encodes, no direct `Record` calls) and payloads without a
repeated name (`NoRepeats`), for any number of encodes and resets:
`EncodesImplementPromised` (the lock-granular encode refines `AtomicSession`),
`WireIdsAreRecorded`, `DeclaredOnceEach` and `ReferencesAreBacked`. `Single` says
how far the encode is: while it emits, the lines out are those of a permutation
of the payload's positions (`Wired`), the ids that it took from `nextSessionID`
are the ones that `Record` will give in the end, and the responses seen by the
refinement (`Answered`) already include the one that is recorded and not yet
returned, so the step of `AtomicSession` is the one that records. `Served` then
follows the client: what a response declares under an id is what the table has
there. Neither hypothesis can be dropped: two encoders break
`DeclaredIdsDistinct` (`session_colliding_ids`), a repeated name breaks
`BareReferencesResolve` (section 4).

`GenericDeltaProofs`: `DeltaApplies`. The delta from one keyed set to another,
as the wire shows it, is accepted by every run of `VerifyGenericDelta` on a set
that holds the first, and leaves one that holds the second, whatever the tables
and Go's map order. Roots are bags of records, so the argument is about bags:
with unique identities, the identities, the records and the row of each
identity determine the root and are determined by it; what is added, changed and
removed then gives the next set's records identity by identity.

`DeltaSessionProofs`, for all sets, policies, line lengths and any number of
calls:

* `TypeCorrect`, and `SizeGuardBounds`: `spent` is at most `cum` (a manual anchor
  clears only `spent`), and `cum` stays below the full length of the base, by the
  test in `Next` for a delta, because it is cleared for an anchor, and because a
  failing call changes neither.
* `CadenceKept`: `CadenceInv` ties `gap`, the deltas since the last full, to
  `turn` modulo the cadence.
* `WholeOnly`: `ChannelInv` says that the channel only ever holds payloads that
  a producer made of two states. This one needs no hypothesis: faults included.
* `NothingRejected`, `ConsumerInSync` and `DeltasImplementSnapshots`, on an
  `OrderlyChannel` (one that neither loses, doubles nor reorders). `OrderInv`
  has the states that the payloads in flight tell, one by one: the first starts
  from what the consumer holds, each from the one before it, and the last is the
  producer's base. `DeltaApplies` makes the step of `Receive`.
* `AnchorsHeal`, with any faults: `MendInv` follows the payloads from the last
  full one on, lost ones noted by `missing`; once that full payload has been
  received, the rest is the argument of `OrderInv`.

Two hypotheses are about the application's states. `KeysAreColumns`: the key is
one of the columns, as generic_delta.go:12-14 defines it; the code does not
check it, and section 4 says what happens otherwise. `CellsTellValues`, for
`ConsumerInSync` only: values with one cell print alike. Without it the
consumer's values differ from the producer's though the roots agree, which is
what `delta_big_integers` shows.

`StreamEncoderProofs`: `TypeCorrect`, and for callers that write symbols before
edges `ReaderHasWhatWasWritten`, `IdsMeanTheirNames` and `OutputIsReadable`.
`ReaderKeepsUp` is not inductive; `Follows` adds that the reader's section is
the writer's (its distance is that of the last group header until the edges
begin, its edges flag is `edgesStarted`) and that the tables agree. The
hypothesis `SymbolsFirst` is needed: without it TLC finds a counterexample
(section 4). `TrailerIsRight` states the trailer's totals and group counts. They
are cardinalities of sets of lines, so `TellInv` counts along: the lines above
the trailer never change, a line belongs to the group of the last header above
it, and each group's count is that of its lines. Symbols first here too: one
written after edges into the group last open gets no header of its own, so a
reader of the text counts it nowhere.

`GenericStreamProofs`: `TypeCorrect`, `TextReadsBack` and `TrailerProtects`, for
all names, values, widths and any number of calls. `Follows` strengthens `ReadBack`: until a mistake
is blamed or a line trails an array, the reader's counts are those of the ended tables and of the active
one, a reader inside a table means that the last "## " line began one, and while
the encoder has an active array that table is the last entry, under the same
header, without a blank row. `RowMistakes`, `LooseLineMistakes` and `Trail` are what
makes the steps go through: drop one and `InStep` is lost. `TrailerProtects` is about
calls with such mistakes (`AcceptedIsFaithful`). Its invariant `Accounted` says
that a reader without an error has, table by table, no fewer rows than the
encoder (`NoFewer`), and where it has as many it is in step: a line among the
rows is an error or a row more for the reader alone, which no later call makes
up for, so a trailer with equal counts tells of the document that was sent.

`GraphFeedProofs`, for all graphs, bounds and faults: `TypeCorrect`,
`FullsReadBack`, `WholeOnly`, `LastFullHeals` and `DeltasAccepted`. `ChannelInv`
says that the channel only ever holds payloads that a producer made of two graphs. A delta
that `VerifyDelta` applies leaves a graph with the root that the delta names
(packroot.go:132-136), whatever base it met; a full payload replaces the graph.
`RootTells` is the lemma behind the rest: the root of a graph that the wire can
tell determines its symbols and its edges as they are on the wire. From it
`DeltaFits` has the delta between two graphs accepted on a copy of the first,
under every order of Go's maps. `OrderInv` and `SyncInv` then follow the payloads
in flight, as in the delta session.

That `Decode` reads back what `Encode` writes (`GraphReadsBack`) is proved in four
parts. `SortExists`: a strict order of a finite set has a sorted sequence, in
which each member stands at the number of those below it, so the CHOOSE of
`SortedBy` is one; `OrderedBag` makes a bijection of positions of that, hence
equal bags. `LastLineTells`: an id belongs to one name, though a name may have
several lines. `ReadsSymbols` and `ReadsEdgeLines` follow the reader from line to
line with what it has by then (`SymbolsTo`, `Named`, `EdgesTo`); the induction is
on a set of line numbers (`Induct`), since only one over an operator is out of
reach. `DecodesGraph` puts them together, and `NearestAreFirst` adds that the
order survives printing.

`GroupedProofs`, for any number of records with any fields: `GroupedSafe` and
`GroupedProtected`. Nothing is assumed of the records but that they are what
`toAny` makes of JSON objects (`RecordsAssumption`: no key twice, a value under
each). The steps of the first:

1. `PickedPlaces`, `DistinctElements` and `FlatAt` say what the sequence operators
   return: the elements at some places in order, each element once, and where
   each of several sequences stands in their concatenation. Their recursive
   functions exist by induction on the length (`Induct`).
2. `RecordReadsBack`: a record's cells, with the constants and the group's value
   put back under the entries of the header, are the record (`SameRecord`). This
   is where a missing field, a factored one and the group field meet.
3. `LinesLaid`: group k has its line and its rows from line `at[k - 1]` on.
4. `StepRead`: turn k of the loop finds a new value, rows of the right width and
   keys not seen before, and adds the records of group k. `GroupsRead` says which
   records of the array those read so far are: those of the groups so far, in the
   order of groups and then of places; `AllRead` is the induction.
5. `AllCounted`: that is a bijection of places, so the header's count is right;
   `GroupedRecords` turns it round into the places that `RowsInGroups` asks for.

The second needs less: `InStepSoFar` says that as long as the lines are those that
were written, the loop has failed or is at the beginning of a group. For a line
of group k, lost or doubled, `GoesWrong` lists what it then meets: a row where
the group's line should be, too few lines, or a row left over after the rows
that were announced. `ErrorStays` carries the error to the end. That the row is
not taken for a group's line is the hypothesis of the theorem, that `SpeltAs`
leaves every line as it is; `GroupedSafe` needs no such hypothesis.

Assumptions: the named ASSUMEs of the modules, which TLC evaluates on every
run (bounds are naturals, payloads and sets have their shapes, `WireKeepsCells`;
`ScoresAssumption`: "%.2f" keeps the order of scores; `RecordsAssumption`;
`SpeltAssumption`: what a row is spelt like is a line of a group), and the hypotheses named
above, each part of the theorem's statement.

Model-checked only:

* liveness (`EventuallyRecorded`, `RejectionsEnd`): ENABLED is out of the
  prover's reach;
* generic documents other than grouped ones (`ArraysReadBack`,
  `AttachmentsReadBack`, `MapsReadBack`, `KeysKeepOrder`, `CountsProtect`): values
  nest to any depth, the encoder and the decoder recurse over them, and what a
  recursive operator computes for every value is an induction over data, which is
  out of the prover's reach. Factored constants and keyed maps go through the same
  `encodeTabular` and `parseTabularBody`, whose cells may be nested values.

## 6. Not modelled, and why

* In the generic codec: `toAny` (reflection over Go types), the options that only
  tests set (`encodeOpts`), a `map[string]any` that is empty (an `OrderedMap` is
  taken), the decoder's second way to read attachments (indented, inline bodies
  after `.name`), comments, and documents with a repeated key.
* In the graph family: provenance, edge types and statuses, delta sections inside
  a full payload, and malformed lines.
* In the generic stream: a key label with '>' in it (which the encoder does not
  refuse), repeated field names, names that look like syntax other than by
  needing quotes, and cells that print alike though they differ.
* Character-level code: quoting, number formatting, header fields, token counts
  and the wording of errors. The repository's fuzz and conformance tests are the
  right tool there; a conversion that a property depends on is modelled by what
  it does (`Canon`, `OnWire`).
* Of `orderedmap.go`, JSON reading and writing; `cmd/gcf` is I/O around the
  library, and `eval/` holds benchmarks that call external models.
