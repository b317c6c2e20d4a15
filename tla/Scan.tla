-------------------------------- MODULE Scan --------------------------------
(***************************************************************************)
(* ScanOp::GetNext with the row-group pruning of ColumnTypeString::        *)
(* GetBatch.  A row group whose chunk of some pushed-down column cannot    *)
(* hold a wanted string comes back empty and the whole group is skipped.   *)
(* Reading one column chunk is a step.  Whoever pulls batches is the       *)
(* business of the modules that use this one.                              *)
(*                                                                         *)
(* A batch is its columns, each a name and a type, and the rows of its     *)
(* selection, in order.                                                    *)
(***************************************************************************)
EXTENDS Integers, Sequences

CONSTANTS
    RealSchema,     \* the file's columns: a sequence of [name, type] records
    Empty,          \* the empty string
    WordBits,       \* the Bloom filter bits that Add sets for each string
    NoOptions       \* no scan options for a column (nullptr)

VARIABLES
    table,          \* the file, fixed: row groups of rows of values
    columns,        \* columns_: the file columns to read
    options,        \* scan_options_, one for each of columns, or empty
    rowGroup,       \* current_row_group_: groups opened so far
    scanPc,         \* "idle", "read" in the loop over columns, or "end"
    chunks,         \* result.columns: the column chunks read so far
    ret             \* what the last GetNext returned

\* std::nullopt, in place of a batch: anything without columns and rows.
NoBatch == [none |-> TRUE]

scanVars == <<table, columns, options, rowGroup, scanPc, chunks, ret>>

Column(g, c) == [r \in 1 .. Len(table[g]) |-> table[g][r][c]]

\* Fault: the filter holds the first string of the chunk only.
ChunkBitsOfFirst(g, c) == UNION {WordBits[table[g][r][c]] : r \in 1 .. Len(table[g]) \cap {1}}

\* The Bloom filter WriteType stored in front of a string chunk.
ChunkBits(g, c) == UNION {WordBits[table[g][r][c]] : r \in 1 .. Len(table[g])}

\* Fault: one empty string is enough.
AllEmptyIfOne(g, c) == \E r \in 1 .. Len(table[g]) : table[g][r][c] = Empty

\* raw_size == 0: the dictionary holds nothing but the empty string.
AllEmpty(g, c) == \A r \in 1 .. Len(table[g]) : table[g][r][c] = Empty

\* Whether GetBatch returns no values for the chunk, given options.
Pruned(g, c, opts) ==
    /\ RealSchema[c].type = "string"
    /\ opts # NoOptions
    /\ \/ ~ (opts.bloom \subseteq ChunkBits(g, c))
       \/ opts.skip_empty /\ AllEmpty(g, c)

GetBatch(g, c, opts) == IF Pruned(g, c, opts) THEN <<>> ELSE Column(g, c)

OptionsAt(k) == IF options = <<>> THEN NoOptions ELSE options[k]

NumRowGroups == Len(table)

\* A ScanOp just made by MakeScan, with its columns and options.
ScanInit(cols, opts) ==
    /\ columns = cols
    /\ options = opts
    /\ rowGroup = 0
    /\ scanPc = "idle"
    /\ chunks = <<>>
    /\ ret = NoBatch

\* Fault: <= for <.
OpenGroupPastEnd ==
    /\ IF rowGroup <= NumRowGroups
       THEN scanPc' = "read" /\ rowGroup' = rowGroup + 1
       ELSE scanPc' = "end" /\ UNCHANGED rowGroup
    /\ chunks' = <<>>

\* Fault: the last group is left out.
OpenGroupBeforeLast ==
    /\ IF rowGroup + 1 < NumRowGroups
       THEN scanPc' = "read" /\ rowGroup' = rowGroup + 1
       ELSE scanPc' = "end" /\ UNCHANGED rowGroup
    /\ chunks' = <<>>

\* Fault: the result of the last call is not cleared.
OpenGroupOldResult ==
    /\ IF rowGroup < NumRowGroups
       THEN scanPc' = "read" /\ rowGroup' = rowGroup + 1
       ELSE scanPc' = "end" /\ UNCHANGED rowGroup
    /\ UNCHANGED chunks

\* Begins a group, or gives up at the end of the file: the head of GetNext,
\* which a skipped group runs again by recursion.
OpenGroup ==
    /\ IF rowGroup < NumRowGroups
       THEN scanPc' = "read" /\ rowGroup' = rowGroup + 1
       ELSE scanPc' = "end" /\ UNCHANGED rowGroup
    /\ chunks' = <<>>

GetNext ==
    /\ scanPc = "idle"
    /\ OpenGroup
    /\ UNCHANGED <<table, columns, options, ret>>

\* Fault: the k-th column of the file in place of the k-th one asked for.
NextChunkOfFile ==
    LET k == Len(chunks) + 1 IN GetBatch(rowGroup, k, OptionsAt(k))

\* The chunk the loop over the columns reads next.
NextChunk ==
    LET k == Len(chunks) + 1 IN GetBatch(rowGroup, columns[k], OptionsAt(k))

\* An empty chunk of a column that has options drops its group.
Dropped == NextChunk = <<>> /\ OptionsAt(Len(chunks) + 1) # NoOptions

ReadColumn ==
    /\ scanPc = "read" /\ Len(chunks) < Len(columns)
    /\ ~ Dropped
    /\ chunks' = Append(chunks, NextChunk)
    /\ UNCHANGED <<table, columns, options, rowGroup, scanPc, ret>>

\* Fault: the recursion reads the same group again.
SkipGroupSame ==
    /\ scanPc = "read" /\ Len(chunks) < Len(columns)
    /\ Dropped
    /\ chunks' = <<>>
    /\ UNCHANGED <<table, columns, options, rowGroup, scanPc, ret>>

\* Fault: the recursion starts over from the first group.
SkipGroupRewind ==
    /\ scanPc = "read" /\ Len(chunks) < Len(columns)
    /\ Dropped
    /\ rowGroup' = 1
    /\ chunks' = <<>>
    /\ UNCHANGED <<table, columns, options, scanPc, ret>>

SkipGroup ==
    /\ scanPc = "read" /\ Len(chunks) < Len(columns)
    /\ Dropped
    /\ OpenGroup
    /\ UNCHANGED <<table, columns, options, ret>>

\* All columns are read: the batch has as many rows as its first column.
ReturnBatch ==
    /\ scanPc = "read" /\ Len(chunks) = Len(columns)
    /\ ret' = [cols |-> [k \in 1 .. Len(columns) |-> RealSchema[columns[k]]],
               rows |-> [r \in 1 .. Len(chunks[1]) |->
                            [k \in 1 .. Len(columns) |-> chunks[k][r]]]]
    /\ scanPc' = "idle"
    /\ UNCHANGED <<table, columns, options, rowGroup, chunks>>

\* Fault: the end of the file rewinds the scan.
ReturnNoneRewind ==
    /\ scanPc = "end"
    /\ ret' = NoBatch
    /\ scanPc' = "idle"
    /\ rowGroup' = 0
    /\ UNCHANGED <<table, columns, options, chunks>>

ReturnNone ==
    /\ scanPc = "end"
    /\ ret' = NoBatch
    /\ scanPc' = "idle"
    /\ UNCHANGED <<table, columns, options, rowGroup, chunks>>

=============================================================================
