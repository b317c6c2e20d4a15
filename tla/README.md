# A verification development for the column engine

TLA+ models of the column engine (C++, `src/src/`), checked by TLC on small
instances, with theorems for all instances checked by TLAPS. Paths below are
relative to `src/src/` unless they start with `tests/`.

1. [The system](#1-the-system)
2. [What is hard](#2-what-is-hard)
3. [Modules](#3-modules)
4. [How the models correspond to the code](#4-how-the-models-correspond-to-the-code)
5. [Runs and bounds](#5-runs-and-bounds)
6. [Where the engine departs from what it promises](#6-where-the-engine-departs-from-what-it-promises)
7. [Fairness](#7-fairness)
8. [Proofs](#8-proofs)
9. [What is only model-checked, what is not modelled](#9-what-is-only-model-checked-what-is-not-modelled)
10. [Plan](#10-plan)

## 1. The system

A program converts CSV to a columnar file; a library runs queries written with
a fluent API over such a file. One thread does everything; nothing is written
to disk by a query.

| component | code | state | operations |
|---|---|---|---|
| CSV conversion | `convert/`, `format/schema_reader.cpp` | the row group being filled, the offset written to | `ConvertToColumnar`, `ConvertToCsv` |
| Column codecs | `types/types.cpp` | none | `WriteType`, `GetBatch` for int64 (blocks of 512, run lengths) and string (Bloom filter, dictionary, int64 indices) |
| File metadata | `format/meta_reader.cpp` | none | `GetMeta` |
| Files | `io/` | a position | `Read`, `Peek`, `Jump`, `Write` |
| Scan | `engine/engine.cpp:43-96` | `current_row_group_`, `columns_`, `scan_options_` | `GetNext`, `SetColumns`, `SetScanOptions` |
| Operators | `engine/engine.cpp:100-442`, `engine/engine.h` | per operator: `skipped_`, `ready_`, `cur_idx_`, `groups_` | `GetNext` |
| Hash table | `engine/hashmap.h` | `map_`, `is_used_`, `size_` | `FindOrInsert`, `operator[]`, `Rebuild`, `FirstUsed`, `NextUsed` |
| Predicates, expressions, aggregators | `engine/predicates.*`, `engine/expressions.*`, `engine/aggregators.*` | an aggregator's running value | `CheckBatch`, `Get`, `Next`, `GetResult` |
| Parser | `engine/parser.cpp` | `columns_for_scan_`, `cur_schema_`, `str_scan_options_` | `GetColumnId`, `ParseWhere`, `ParseAggregate`, `ParseAdd` |
| Pipeline | `engine/pipeline.*` | `root_`, `selected_columns_`, `pending_*` | the calls of the API and `Run` |
| Facade | `api/` | a pipeline | forwards each call |
| Programs | `app/` | flags | read them, call the library, print |

How they interact. Each call on a pipeline asks the parser for the positions of
the columns it names. The parser *registers* a column of the file the first
time it is named: it appends it to the list of columns to scan and to the
current schema, and its position in the schema is handed to the operator that
is being made. A string condition also leaves *scan options* (n-grams to look
for, skip empty strings) in the parser. `Run` gives the scan its columns and
options, and pulls the root operator until it is exhausted. Every operator
pulls its child: a batch at a time (`FilterOp`, `AddColOp`, `AddCaseOp`,
`AsOp`), or all of it through `GetAllBatches` (`LimitOp`, `OffsetOp`, `SortOp`,
`Engine::Run`), `TopKOp`'s loop or `AggregateOp::Run`. The scan drops a row
group whose stored Bloom filter or dictionary shows that no string of a column
with options can be wanted.

What makes each correct:

- *Hash table*: every key inserted is found, at one place, through any
  sequence of rebuilds; the probes end; what is emitted is what was added.
- *Scan*: the batches are whole row groups in file order, and no group that was
  dropped has a row the query wants.
- *Parser and pipeline*: the positions handed out while the lists still grow
  are right for the batches that arrive later; pending orders and offsets turn
  into operators that mean what was asked.
- *Operators*: the answer is one that the calls describe, there is no undefined
  behaviour, and a run ends.
- *Codecs*: the rows read are the rows written, and the reader leaves the file
  where the next chunk starts, whether it read the chunk or jumped over it; a
  chunk jumped over has no wanted string.
- *LIKE*: the greedy search finds a match whenever there is one, and the filter
  of a pattern accepts every chunk with a string it matches.
- *Conversion and metadata*: the table stored is the one the text describes,
  survives being printed and converted again, and its chunks are where the
  metadata says.

## 2. What is hard

There is no concurrency, and a query has no crash to recover from. What is hard
to test is sequences: of calls (what an early call resolved and a later one
changed), of batches (what an operator keeps between pulls), of hash collisions
around a rebuild, of row groups some of which are dropped, of values that fill
a run, a block or a width exactly, and of characters in a text. `PROJECT.json`
lists the hazards with their lines; the most important are

- a rebuild in the middle of an insertion, and the reference returned after it
  (`engine/hashmap.h:107-109`, `187-207`);
- probe loops without a bound (`engine/hashmap.h:99`, `127`, `194`);
- dropping a row group in the middle of the loop over columns, by recursion
  (`engine/engine.cpp:85-87`);
- positions given out early (`engine/parser.cpp:25-40`,
  `engine/pipeline.cpp:118`);
- calls that only leave a note for a later one (`engine/pipeline.cpp:62-103`);
- scan options that hold for the whole query (`engine/parser.cpp:148-177`);
- batches without rows (`engine/engine.h:192`, `engine/engine.cpp:433`), and with
  more rows than 16 bits number (`engine/engine.h:192`, `engine/engine.cpp:92`);
- types fixed when a call is parsed and taken at run time by a `std::get`
  (`engine/pipeline.cpp:139`, `engine/parser.cpp:239`);
- a second `Run` on a pipeline whose operators keep what they have
  (`engine/pipeline.cpp:212`);
- a run of the run-length code that ends at a new value, at 255 and at a block
  boundary, and a reader that finds the block of a run from the rows read so far
  (`types/types.cpp:211`, `225`);
- row and word counts cut to 16 bits (`types/types.cpp:65`);
- jumps over a chunk from three places in it (`types/types.cpp:119`);
- the quotation mark that toggles a flag, and the last line without a newline
  (`convert/convert.cpp:49`, `57`).

## 3. Modules

| module | what it is |
|---|---|
| `GroupTable` | abstract: one counter per grouping key, each emitted once |
| `HashMap` | the open-addressing table as `AggregateOp` drives it; implements `GroupTable` |
| `HashMapProofs` | theorems about `HashMap` |
| `Scan` | `ScanOp::GetNext`, without whoever pulls it |
| `ScanDrain` | `Scan` drained by a consumer; its properties |
| `ScanProofs` | theorems about `ScanDrain` |
| `RowOrder` | the order in which `TopKOp` ranks rows |
| `BestRows` | abstract: read rows, then return the best of them in order |
| `TopK` | the loop of `TopKOp` with its bounded heap; implements `BestRows` |
| `TopKProofs` | theorems about `TopK` |
| `Operators` | extends `Scan` with the chain of operators and the pulls between them |
| `Pipeline` | extends `Operators` with the parser, the calls and `Run`: the whole path of a query |
| `QuerySemantics` | abstract: what a list of calls means as relational algebra, without positions, batches or pruning |
| `Query` | `Pipeline` from a chosen file, compared with `QuerySemantics` |
| `QueryProofs` | theorems about `Query` |
| `Int64Codec` | `WriteType` and `GetBatch` of a chunk of integers: blocks, runs, widths |
| `Int64CodecProofs` | theorems about `Int64Codec` |
| `Bloom` | the n-grams and bits of `BloomFilter`, without state |
| `StringCodec` | extends `Int64Codec` and `Bloom`: filter, dictionary, and the indices as a chunk of integers |
| `StringCodecProofs` | theorems about `StringCodec` |
| `Like` | extends `Bloom`: `LikeMatch`, and the filter the parser makes of a pattern |
| `LikeProofs` | theorems about `Like` |
| `Convert` | text to columnar file, metadata, and back to text |
| `ConvertProofs` | theorems about `Convert` |
| `MCHashMap`, `MCScan`, `MCTopK`, `MCQuery`, `MCInt64Codec`, `MCStringCodec`, `MCLike`, `MCConvert` | the instances TLC checks |

Definitions that begin with `\* Fault:` are wrong variants of the definition
that follows them, each the effect of a plausible mistake in the code. No
specification uses them: putting one in the place of its original makes TLC
report the property that `PROJECT.json` pairs it with, which shows that the
property can be violated.

## 4. How the models correspond to the code

**HashMap.** One step is one turn of a loop: `ProbeHit`, `ProbeNext` and
`ProbeInsert` are the three ways through the body of `FindOrInsert` (lines
99-121) and of `operator[]`, whose body is the same and which runs with `retry`
set; `RebuildSkip`, `RebuildTake`, `PlaceNext`, `PlacePut` and `RebuildDone`
are the lines of `Rebuild`. So the half-rebuilt table, and a lookup between two
probes, are states. The mask `hash & (size - 1)` is `hash % size`, as sizes
start at 8 and double; the model needs no power of two. Hash functions are
arbitrary: `HashFns` is any set of functions from keys to naturals. The table's
value is the number of rows added, which is what `slot.count` is, and stands for
any aggregate. The prefetching path of `ProcessBatch` makes the same calls.

**Scan.** A file is a sequence of row groups of rows. `Pruned` is the decision
of `ColumnTypeString::GetBatch`: the Bloom bits asked for are not all in the
chunk's filter, or empty strings are refused and the dictionary holds no
character. `WordBits` gives each string the bits `BloomFilter::Add` sets for
it; collisions are equal bits. `SkipGroup` is the recursion of line 86: it goes
through the head of `GetNext` again, and may reach the end of the file.

**TopK.** One step is one row: it is pushed while the heap has room, replaces
the front, or is discarded; the last push makes a heap of the rows. The rows of
the heap are a set and `front` is `heap.front()`. Of the standard library's heap
functions only their promise is used: afterwards `front` is a row that is not
better than any other, whichever it is if several are equal. `seen`, the rows
read, is history that the properties compare with. How rows are spread over
batches matters only before the first row (`FirstBatch`): an input with a batch
and no row ends in `heap[0]` of an empty heap.

**Operators.** The chain is the sequence `plan`; `act` is the operator that
runs and `dir` whether it was called or its child has answered. An action is a
way through a `GetNext` between two pulls. Values are integers: a string stands
by its rank, so every comparison is `<`. A batch has columns, each with its name
and its type, and rows. Sorting is any arrangement `std::sort` may produce, and
the groups come in any order the hash table may give. The slot of a group is a
`count` for a leading `COUNT(*)` (`HasCountAll`) and the list `rest` of the other
aggregators, which the first row of the group makes (`UpdateSlot`).

What reads a row (a condition, an expression, an aggregate: `Readers`) carries the
type it `takes`, fixed when its call was parsed. `Throw` is the exception of a
`std::get`: on a column of the other type (`Mistyped`), or on the value of a `Case`
that is not of the type of its column (`Throws`); string conditions may look at
their column even when the batch has no rows (`LooksFirst`). Undefined behaviour is
the step `Misbehave`: a column index past a batch (`Misplaced`),
`selection.back()` of an empty selection (`Unfit`), `heap[0]` of an empty heap
(`Unfinished`), a row group whose rows a `RowIndex` cannot number, on which the
loop that fills the selection never ends (`TooLong`), and a column added to a
selection that started over at 0 (`Wrapped`): the column ends at the last position,
which is then not the greatest.

**Pipeline.** A call is a record of its parsed arguments: a predicate is a
column, the set of values it accepts and what it pushes down; an expression is a
function of a column, or a literal. `Register` is `GetColumnId`, and
`RegisterAll` the same of the names of a call in the code's order; `NoCol` is a
name that is not given, such as the second column of an order. A condition has
the type of its value, except that an `IN` is of integers on any column; an
expression has the type of its values and the type it takes, which for the mere
name of a column are that column's. A `Case` is of integers if either of its
values is (`CaseType`). An unknown column, or a string where an integer column
asks for an integer (`Unparsed`), is an exception (`Refuse`, `RunRefused`),
reading `columns_for_scan_` past its end is `Overrun`. `NoBatch` is the
`nullopt` of `GetNext`.

`RunAgain` is a second `Run`: it gives the scan its columns and options
anew and starts the root, and finds the scan at its end and every operator with
what it kept. A copy of the pipeline shares the operators, so running a copy
after the original is the same step.

**Int64Codec.** A step is a turn of a loop of `WriteType` or `GetBatch`. A chunk
is its header and a sequence of items, an item being what one or two `Write`s
put down and one or two `Read`s take up; `result` and `at` count bytes. Items
know their place and width, which no action uses except to ask, before a read,
whether the item there is as wide as the reader takes it: a reader out of step
with the writer has no next step, and `ReadEnds` fails. Differences wrap modulo
2^64 as the casts do (`Span`), and `Write` keeps only what its bytes hold
(`Capacity`).

**StringCodec.** The filter, the dictionary in the order of first occurrence and
the end of each word; then the indices, through the actions of `Int64Codec`.
The header's counts are taken modulo `CountSpan`. `PruneByBloom` and
`PruneEmpty` are the two early returns of `GetBatch` with their jumps. A chunk
whose word count was cut is read at the wrong place (`TearString`), and nothing
is said of what follows.

**Like.** `Cut` and `InPart` are the loop that cuts the pattern; `StartsWith`,
`EndsWith`, `Find` and `FindNothing` the four ways through a turn of the loop
over the parts; they are tried in the order of the code. `IsLike` is the meaning
of LIKE character by character; `_` is a character like any other, as in the
code. `Stripped` is what `ParseWhere` makes the filter from.

**Convert.** `TakeChar`, `EndField`, `RejectField` and `InputEnds` are the ways
through the character loop; `LastRow`, `NoLastRow` and `RejectLastRow` what
happens at the end of the input. `WriteChunk` to `WriteTrailer` write the file,
`ReadTrailer` and `ReadMeta` are `GetMeta`, and `ReadChunk`, `PrintField` and
`GroupPrinted` are `ConvertToCsv` with `PrintTable`. The file is a sequence of
items that lie one after the other, and a read needs an item of its width at its
position. `Again` converts the text that was printed. A column chunk is one
item: that a chunk is read as it was written is what the codec modules show.
`stoll` is the constant `Stoll`, and the numerals that are printed for 64-bit
integers are `Numerals`: of it only `NumeralsAssumption` is used, that it reads
each numeral as itself; a field it makes no numeral of is refused (`Parsed`).
The reference does not run over the text: a character is `Quoted` if an odd
number of quotation marks stand before it, the separators are the commas and
newlines that are not, field `m` is what lies between separators `m - 1` and `m`
without its quotation marks (`FieldText`), and it belongs to column `m` modulo
the number of columns. What it says of a text (`Accepts`, `RowsOfText`) includes
the code's rules, which a user may not expect: quotation marks never reach a
value, doubled ones included; an unterminated one takes in the rest of the text;
an integer is what `stoll` makes of its field, and what follows it there is
ignored; in a last line without a newline an empty last field is not there, so
that a one-column line `""` is dropped, and a line that has only the first of
several fields is dropped without an error.

**Query.** `AnswerCorrect` compares the answer with `QuerySemantics`, which
describes a set of row lists, since ties and groups have no promised order.
`Supported` is the conjunction of the conditions under which the engine gives
that answer. Each condition is a limitation of the code with its own name and
comment: it excludes queries, so read it as part of the result. `WellMade` are those
of them without which a query throws or has no defined behaviour; with `LimitsFit` (no
`Add` or `Case` after a `Limit` of more rows than positions) and `GroupsFit` (no row
group of more rows than a position counts) they are `Answerable`. `Supported` needs
neither of these two: it has `FewRows`, and so few rows can be numbered.

## 5. Runs and bounds

| run | question | bounds |
|---|---|---|
| `hashmap` | is the table searchable in every state, do calls return, does it implement `GroupTable`? | 3 keys, all 125 hash functions into {0, 1, 3, 5, 7}, 2 positions at first, 4 rows. Two keys already exceed half of the table: every behaviour with 3 keys rebuilds twice, the residues collide or separate in tables of 2, 4 and 8 positions, and runs wrap around the end |
| `scan` | does pruning lose a wanted row, are batches whole? | files of 0 to 3 of 5 kinds of row groups (mixed, empty strings only, without rows), 4 lists of columns, 6 options and none for each string column, one pair of colliding strings. Three groups let a skipped group stand first, between and last, and twice in a row |
| `topk` | does the bounded heap return the best rows, in order? | every input of up to 4 rows with 3 values for either key, limits 1 to 3, both directions, with and without a second column. With 4 rows a heap of any of these limits fills and must replace or discard; three values make ties of equal, better and worse rows |
| `query_filters` | conditions, Case, Add, Limit, Select, Count over pruned scans; do types fail only where `Answerable` says? | every list of up to 4 calls from 17, six of them with types that do not match or with strings as values: a sum of strings, cases of two types and of two strings, groups by a string with a string maximum, an `IN` on strings, a `length`; 4 files, one with a row group without rows |
| `query_orders` | OrderBy, Offset, Limit, Rename, Select "*"; do numbers of rows beyond a position fail only where `Answerable` says? | every list of up to 4 calls from 12, with limits of 0, `IndexRange` and one more; 5 files, one of 6 rows of which 4 are in one row group and one with a row group of 5; `RowLimit` 4, `IndexRange` 5, so on either side of each bound |
| `query_groups` | groups and aggregates, conditions on them, order by aggregate; a second `Run` of each | every list of up to 4 calls from 10; 3 files; 2 groups to a batch, so answers cross batches |
| `int64` | is what is read what was written, byte by byte? | every chunk of up to 7 rows of 4 values, the least and the greatest integer among them; blocks of 3 rows, runs of at most 2, widths of 1 to 3 "bytes" of a bit. Seven rows are two full blocks and a part; a run can end at a value, at a block and at its bound, at the same or at different rows; each block can need any width; both encodings are chosen |
| `strings` | does a chunk come back, or is it rightly jumped over? | every chunk of up to 5 strings of 4 words; no options, or one of 5 parts with or without skipping empty strings; counts wrap at 4; `b` and `bb` have the same bits, and the bits of the others overlap. Five strings exceed the row count, and 4 words the word count |
| `like` | is the verdict that of LIKE, and the filter sound? | every pattern of up to 5 characters of `a`, `b`, `%` and every string of up to 5 of `a`, `b`: up to three parts, anchored or not, that occur more than once or overlap |
| `convert` | is the stored table the text's, and does it survive printing? | every text of up to 6 of `a`, comma, newline, quotation mark (one or two string columns) and of up to 5 of `a`, digit, comma, newline (an integer column), and of up to 4 of two digits, one of them 0, minus, blank, newline, quotation mark (only an integer column; integers have two digits, three are out of range); row groups of 1 or 2 rows. Six characters make three groups of one column and two rows of two, with any quoting between |
| `query_case`, `query_ties` | section 6 | up to 2 calls |

The bounds of the query runs are `MaxCalls` (calls before `Run`) and the
constants that are larger in the code: `RowLimit` (65535), `IndexRange` (65536)
and `ChunkSize` (1024). The files have at most 4 rows, within `RowLimit`, as
`FewRows` requires, but for two files of `query_orders`, with which only
`AlwaysAnswered` is about more rows. Four calls are
enough for each interaction that involves positions: a column registered, one
computed, one grouped or renamed, and a condition, order or selection that uses
them. `MaxRows` bounds the input of the hash table and of the heap, and the rows
of a chunk. In the codecs `BlockSize` (512), `MaxRun` (255), `CountSpan`
(65536), `WordBytes` (8), `Half` (2^63) and `Capacity` are the code's widths
made small; `MaxPattern` and `MaxText` bound the strings. Every run stops by
itself when its work is done, so deadlock is not checked.

What the runs show, besides their absence of errors: the probes of the hash
table end (`CallsReturn`), a drained scan ends (`DrainEnds`), a query's `Run`
ends (`RunEnds`), and so do storing and reading a chunk (`ReadEnds`,
`StringReadEnds`) and a conversion there and back (`ConversionEnds`); a second
`Run` answers no rows, whatever the operators kept (`SecondRunEmpty`); a
query that is `Answerable`, supported or not, takes none of the steps to an exception or
to undefined behaviour that section 4 names (`AlwaysAnswered`); and
for every query that makes sense, supported or not, a batch arrives with the
columns of the parser's schema in its order (`LayoutAgrees`; not after a `Count`,
which leaves the schema alone, nor with an order that a later call overtakes). A
query makes sense (`Sensible`, in `QuerySemantics`) if each call names columns it
has, makes none under a name that the file or the query has, groups by columns of
different names, and has the right types (`RightType`: conditions compare strings with
strings and integers with integers, expressions take what their column has, the values
of a `Case` are of one type and sums are of integers; the semantics keeps the names of
the query's string columns, `strings`, for this).

## 6. Where the engine departs from what it promises

Two runs end in a violation; each is a disagreement between the code and what
its tests say of it.

- `query_case`: the condition of a `Case` is pushed down to the scan like that
  of a `Where`. With `LIKE` or `<> ''` the row groups without a matching row
  disappear, with all the rows that should take the `else` value
  (`engine/pipeline.cpp:136`; `tests/engine/test_engine.cpp:625`).
- `query_ties`: without a `Limit`, the second column of an `OrderBy` is
  forgotten (`engine/pipeline.cpp:203`; `tests/engine/test_engine.cpp:684, 700`).

The other limitations that the conditions of `Supported` name: the second
column's direction is ignored (`SecondKeysAscend`); an `Offset` into an order is
lost without a `Limit` (`OffsetsLimited`); a pushed-down condition after a
`Limit` or `Offset` changes what they cut (`PushedBeforeCut`); a string
condition after a computed or grouped column looks its file column up at the
wrong index (`StringsFirst`); an order is resolved after the calls that follow
it (`OrdersKept`); `Select` before a group, and most calls after `Count`, keep
positions of the schema before them (`SelectedAfterGroups`, `CountLast`); `Add`,
`Case` and an ordered `Limit` are undefined on a batch without rows
(`RowsLeft`, `GroupsFilled`); results are cut at 65535 rows (`FewRows`). Two more
limits are in `Answerable`: a row group of more than 65535 rows is never finished
(`GroupsFit`), and `Add` or `Case` after a `Limit` of more than 65536 rows may write
past the new column (`LimitsFit`). And types: a sum of strings, a `Case` of two types
and a condition or an expression on a column of the other type throw in the middle of
`Run`, when a row comes that needs them (`RightType`).

Three limits of the other parts, which their properties carry in their
statements:

- the filter of a LIKE pattern with several parts is made from the pattern
  without its `%` signs (`engine/parser.cpp:173`), so n-grams that span two parts
  are asked for: `'%a%b%'` matches `axb`, whose chunk lacks the bits of `ab` and
  is dropped. `FilterAccepts` therefore speaks of patterns of one part;
- a pattern without `%` matches every string that begins with it, since
  `LikeMatch` is done with the first part before it looks at the end
  (`Verdict`);
- a chunk keeps as many strings as 16 bits count, and one with 65536 distinct
  strings or more cannot be read (`StringsRead`, `StringReadEnds`); a batch size
  of 0 converts for ever (`JobsAssumption`).

## 7. Fairness

The program is one thread and every call runs to its end, so weak fairness on
the steps of a call that has started is what the code gives: `WF(Step)` in
`HashMap` (whether another row comes is not assumed), `WF(Next)` in
`ScanDrain` (the loop of `GetAllBatches`), `WF(Next)` in `Int64Codec` and `Convert`
and `WF(StringNext)` in `StringCodec` (each is one function after the other),
`WF(Execute \/ Answer \/ Fail)` in
`Query` (whether `Run` is ever called is not assumed). `Like` states no fairness
and no liveness property.

## 8. Proofs

`HashMapProofs` proves, for every set of keys, hash function, initial capacity
and number of rows, from `HashMapAssumption` (`NoKey` and `Free` are not values,
hashes are naturals, capacity is positive):

- `Inductive`: the invariant `IInv`, and from it `TypeCorrect`,
  `AlwaysSearchable`, `AlwaysHalfFree`, `AlwaysRightReference`;
- `ProbeCanStop`: in a state of `IInv` a probe has an unused position ahead;
- `NeverLost`: no step takes a key or its rows out of the table;
- `Refinement`: the table implements `GroupTable`.

The argument. `Searchable` alone is not inductive: that a key can take the
unused position its probe met needs that the probe passed only used positions
with other keys (`ProbeInv`), that a moved slot keeps the new table reachable
needs the same of the new table (`PlaceInv`), and that the table stays
searchable when the arrays are exchanged needs that the new one holds exactly
the slots copied so far (`RebuildInv`). `HalfFree` needs that the new table has
as many used positions as the part of the old one already copied. The lemma
`PutReachable` is the heart of open addressing: putting a slot in the first
unused position from its home keeps every slot reachable. For the refinement, a
group's counter is the value in the key's slot, which `NoDuplicates` makes
unique; every step of a probe or a rebuild leaves the counters as they are
(`GroupsKept`), and `Update` is the abstract `Add`.

`ScanProofs` proves, for every file, list of columns, options and assignment of
Bloom bits, from `ScanAssumption`: `Inductive` and from it `ScanTypeCorrect`,
`AlwaysInOrder`, `PruningSound`, `BatchesWhole`, `EndIsReached`. The
strengthening `CallInv` says what holds in the middle of a call: the open group
is new and the chunks read so far are its columns, unpruned: a pruned chunk is
empty and its column has options, so its group is dropped at once. The lemma
`PrunedHasNoMatch` says that a pruned chunk has no value its predicate can
accept.

`TopKProofs` proves, for every set of integers as values, every set of positive
limits and every number of rows (`TopKAssumption`): `Inductive` and from it
`TypeCorrect`, `BestKeptAlways`, `StableCutAlways`, and `Refinement`, by which
the heap implements the selection in `BestRows`. `BestKept` needs `LoopInv`: that
the front of a full heap is a worst row of it. The lemma `WeakOrder` says that
`Better` is a strict weak order; from it, a row that is not better than the
front is not better than any row kept, and no row left out is better than one
that replaces the front. With one column the row numbers make the order total
on equal keys, which is what `StableCutAlways` rests on; with two columns rows
may tie, and then any of them may be kept.

`Int64CodecProofs` proves, for every set of chunks, block size, longest run, and
widths (`WidthsAssumption`, `InputsAssumption`: `Capacity` of the widest is the
whole range, and a chunk has no more blocks than its count can say):
`Inductive` and from it `Types`, `RowsReadBack` and `ChunkReadWhole`. Reader and
writer meet only in the sequence of items, so the invariant says of it what both
need: an item stands for rows of one block with one difference (`ItemInv`), and
items follow each other in rows and in bytes without a gap (`ChainInv`). The run
being formed is rows of one block (`RunInv`). The reader is always where an item
starts (`ReadInv`), and `BlockAt`, which moves on by at most one block, is that
item's block, because no item spans two. That a difference survives being stored
in its block's width needs that block's bounds hold for its rows (`MeasureInv`),
that the width is enough for the largest difference (`HeadInv`), and the
arithmetic of the wrap-around.

`StringCodecProofs` proves, for every set of words and every choice of bits for
the n-grams, three theorems about a chunk of strings (`StringsAssumption`: a chunk
has no more blocks of indices than its count can say).

- `PruningSound`: a chunk is jumped over only if it has no wanted string. The
  n-grams of a part that occurs in a string are n-grams of the string
  (`GramsOfPart`), so its bits are in the chunk's filter, which has the bits of
  every string; and a chunk whose words have no characters has no word but the
  empty one.
- `StringsReadBack` and `StringChunkEndRight`: the strings come back, and the file
  is left at the chunk's end from each of the three places in it. The indices are
  stored by the actions of `Int64Codec`, and the proof uses that module's lemmas
  with the indices as its rows, which are not one of its `Inputs`: what `IInv`
  needs of them is only `Storable`. `WordsInv` says that the words lie in the
  chunk where the offsets say, which are the sums of their lengths; `IndexInv`
  that the index of a row is that of its word; `EndInv` how far the reader is.

`LikeProofs` proves, for every pattern and string (`StringsAssumption`: they are
strings of `Chars`), three theorems.

- `NoMatchLost`: `LikeMatch` is true just if the parts can be laid in the string
  in order, without overlap and with the ends tied that the pattern ties. The
  invariant `EarlyInv` says that the parts found so far can be laid so as to end
  at `pos`, and in no way so as to end before it; so a part that cannot be found
  from `pos` on cannot be found in any way, and taking it at its first place
  keeps every choice for the rest.
- `VerdictIsLike`: and that is LIKE, character by character, except that a pattern
  without `%` matches every string that begins with it. `IsLike` is a
  function that holds of `k` characters of the pattern the positions they may end
  at; the proof never unfolds it, but takes any function with that step (`Marks`)
  and shows, while the pattern is being cut (`CutInv`), that its value at the last
  cut is where the parts so far may end.
- `FilterIsSound`: a chunk with a string that the pattern matches passes the
  filter made from it, if the pattern has at most one part: then what is kept of
  the pattern without its `%` signs is that part (`KeptInv`), it occurs in the
  string, and `GramsOfPart` applies.

`QueryProofs` proves, for every file, every set of calls and every number of them,
from `SchemaAssumption`, `CallsAssumption`, `LimitAssumption` and `TablesAssumption`
(the schema has a column, and each has a name and a type; the lists in a call are lists,
its numbers are natural, its conditions and expressions have a type, and only `COUNT(*)`
is of no column; the two limits are positive, and `RowLimit` is less than `IndexRange`;
a file is a list of row groups):

- `NothingTwice`: a second `Run` answers no rows. A chain is `Dry` up to an
  operator when the scan is at its end and no aggregation below has anything left
  to emit. `DryInv`: `nullopt` comes only from a dry chain, and an aggregation
  that has read its input stands on one. So `Run` ends with the whole chain dry,
  and in the second run it stays so (`RerunInv`): nothing but `nullopt` comes up,
  and no operator gathers anything.
- `PositionsRight`: of a query that makes sense the batch that reaches
  `Engine::Run` has the columns of `cur_schema_` in its order. The hazard is that
  a position is handed out for a list that later calls extend. The invariant
  `Lay` relates three things after every call: the columns to scan, `cur_schema_`
  and the chain made so far. `Turns` says what the chain makes of a list of
  columns, with their names and types: an operator appends a column, renames one,
  or puts a list of its own in the place of all; and that each operator finds what
  it reads, of the type it takes (`Fits`). By `Lay` the chain turns the columns to scan
  into those of the schema; the names of the schema differ from each other and
  from those of the file columns that are not scanned yet; these are the columns
  the query still has, with the schema's, unless it is grouped. The crucial case
  is a registration in the middle of a chain (`RegisterLay`): the new column goes
  to the end of the scan, and so to the end behind every operator
  (`TurnsAppend`), because a name that an operator of the chain renames is not one
  that the query still has, and a grouped query has no columns but the schema's. While the query
  runs, `RunNames` holds the columns behind each operator, and every batch on its
  way, or kept in an operator, has the columns of its place (`Carried`). A query
  that registers no column reads the first one, which then stands behind the
  schema's.
- `NeverFails`: an answerable query takes none of the steps to an exception or to
  undefined behaviour that the model has (section 4 lists them): it names no unknown
  column, uses no position past the end of a list, takes no value out of a column or a
  result of the other type, gives no operator that needs rows a batch without any, and
  neither numbers nor extends more rows than positions can count. What the model has no
  step for stays outside: sums and literals beyond 64 bits, texts that do not parse,
  regular expressions and dates, and what a `string_view` points to.

  `Answerable` is `WellMade`, which is a part of `Supported`, with `LimitsFit` and
  `GroupsFit`. The conditions of `Supported` that it lacks (`PushedBeforeCut`,
  `CasesDoNotPush` and those on second columns and offsets) are about which answer it
  is: queries that break these are answered too, though perhaps wrongly. So are those
  that break `FewRows`, as long as no row group and no `Limit` before an `Add` or a
  `Case` has more rows than a position can count. The invariant `AInv` adds two
  parts to that of `PositionsRight`.

  `BuildFine`, while the calls are made: a string condition is a condition on
  a column that `columns_for_scan_` has; what `Select` noted lies within
  `cur_schema_`; a pending order is one of the calls so far; and nothing that needs
  rows stands behind a cut, nor anything that adds a column behind a limit beyond
  `IndexRange` (`CutsKept`). After a `Count` the columns are unknown,
  and `BuildFine` says only that nothing refers to one and that the chain still
  finds what it uses. With it no call can be refused or go past the end of a list
  (`NotRefused`, `NotOverrun`), and `Run` finds its columns (`RunNotRefused`).
  That the types in `cur_schema_` are those of the query (`Typed`, `StringsRight`) is
  in the invariant of `PositionsRight`; from it, `RightType` makes every call leave
  an operator that `Fits` (`CallTyped`).

  `RunFine`, while the query runs: every position an operator uses is within the
  batch that reaches it, and of the type it takes (`Flows`), and a batch from
  operators that cut nothing has rows (`Filled`), since the row groups have rows, a
  filter passes on no empty batch, and an aggregation none without groups; and a row
  group being read has no more rows than can be numbered (`ScanFilled`). `Spaced`
  says that the batches with rows are the only ones that reach an `Add`, a `Case` or
  a `TopK`, and that none that starts over at 0 reaches an `Add` or a `Case`. Then no
  operator can throw or misbehave (`NotThrowing`, `NotMisbehaving`) and the selected
  columns exist (`NotFailing`).

`ConvertProofs` proves, for every text, schema, batch size and choice of the
characters (`JobsAssumption`: a text is a string, there is a column, a batch
size is positive; `CharsAssumption`: separators and quotation mark are different
characters; `NumeralsAssumption`: `stoll` reads a numeral as itself, and a
numeral has neither separators nor quotation marks), from `TableInv`, the
conjunction of four invariants:

- `ChunksAreFound`: what `GetMeta` reads through the trailer finds every chunk,
  the row groups but the last are full, and `ConvertToCsv` prints the columns of
  one group. `FileInv` lays the items one after the other, chunks, metadata,
  schema and trailer in turn; an item that begins where a read begins is then
  the only one there (`OneItem`). `GroupsInv` counts the groups and their rows,
  and `PrintInv` says which chunk the reader is behind.
- `RowsAreAsWritten`: the table stored is the text's, and a text is refused just
  if it has to be. `TextInv` says how many fields have been read (`FieldsInv`):
  as many as there are separators before the reader, with `lock` telling whether
  the reader is within quotation marks and `current_str` being what is `Pending`
  since the last separator; and that the values stored, and those of the group
  being formed, are those of their fields (`ValuesInv`). So the loop's rows and
  columns and the reference's numbering of fields are matched once and for all.
- `PrintedReadsBack`: the text printed is accepted and stores the same table.
  `CopyInv` says that the text printed so far has, field by field, the values of
  the table (`Shown`). It rests on three facts: a stored value has no quotation
  mark and converting it again changes nothing (`Plain`, `ValuePlain`); a value
  with a separator is quoted and comes back without its marks, and another
  comes back as it is (`FieldBack`); the separators that are printed are outside
  of quotation marks, since each value closes what it opens.

Neither property is inductive. TLC checked `TextInv` and `CopyInv` on the
instance of `MCConvert` before they were proved; what the checks showed to be
missing at first are the two ways in which a text can come to its end in
`rowEnd`, with a last line that has no newline or just behind one.

Where a property speaks of a function defined over numbers (`Table`, `Unquoted`,
`IsLike`, `Stripped`, `Meaning`, `RegisterAll`), the proofs show that a function
with that step exists and use nothing but the step; facts for every number come
from the well-foundedness of the numbers (`WFMin`), with the set of
counterexamples in the place of an induction hypothesis.

## 9. What is only model-checked, what is not modelled

Only model-checked:

- the liveness properties `CallsReturn`, `DrainEnds`, `RunEnds`, `ReadEnds`,
  `StringReadEnds` and `ConversionEnds`, which are outside of what the prover can
  do;
- `AnswerCorrect` of `Query`. It compares the rows of the answer with what a fold
  over the calls means; the proof would show for every operator that its batches
  together are the meaning of its call, up to arrangements of rows that tie, and
  that what a chain does to batches is what it does to their concatenation.
  What is proved on the way there: the query does not fail, a batch has the right
  columns, the heap selects the best rows, the table counts every group once,
  and the scan drops no wanted row.

Some invariants are only proved: the inductive invariants, `LoopInv` of `TopK`
and `EndIsEnd` of `ScanDrain`. No run names them: the runs name the properties
they are there for.

Not modelled, and why:

- text: the parser's tokenising, malformed arguments and their exceptions (but for a
  string where an integer column asks for an integer),
  formatting of answers. Arguments come parsed;
- 64-bit overflow of sums, of `col + N` and of literals in calls; `AVG` accumulates in
  128 bits;
- in queries, predicates come as the set of values they accept with the bits they
  ask for; `Like` and `StringCodec` show when such bits are right;
- regular expressions (RE2), dates and `strftime`;
- which rows are lost beyond 65535: the model has the limit and the wrap-around as
  constants, but no reference says what the answer then should be; `query_orders` goes
  beyond them to see that nothing fails;
- memory: what a `string_view` of a batch points to is taken to live as long as it is
  used;
- how `std::make_heap`, `pop_heap`, `push_heap` and `std::sort` work: `TopK` uses
  what they promise. `Operators` uses the selection that `TopK` is shown to
  implement, stated there over its own rows;
- two pipelines made from one prefix that go on differently before either runs
  (`api/columnar_engine.cpp:21`): only a second `Run` is modelled;
- the characters of `stoll`: which ones it skips, reads and refuses is a constant, of
  which the instance `MCConvert` gives one with blanks, signs, zeros and a range;
- more than 2^32 characters in a chunk's dictionary (`words_size`), and chunks of
  more blocks than 16 bits count, where `WriteType` would write past its vectors;
- `ReadSchema` and `PrintSchema`, the text file with the columns' types; a
  columnar file that is broken or too small, and the exceptions for it; opening,
  mapping and failing to write files;
- command line programs: they read flags, call the library and print.

## 10. Plan

Done: the hash table with its refinement and proofs; the scan with its proofs;
the bounded heap with its refinement and proofs; the whole path of a query with
its reference semantics and a second `Run`, and of its safety properties the proofs of
all but `AnswerCorrect`; both codecs with their proofs; LIKE and its
filter with their proofs; the conversion there and back with its proofs.

What could follow:

1. Proofs: `AnswerCorrect` for queries without orders and groups, where each
   operator maps or drops rows.
2. Branches: two pipelines with a common prefix, which share the scan and the
   operators made so far but not the parser's lists.
3. The schema file, and the parser's tokenising loops.
