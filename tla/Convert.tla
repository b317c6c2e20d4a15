------------------------------ MODULE Convert ------------------------------
(***************************************************************************)
(* ConvertToColumnar reads a CSV file character by character, forms row    *)
(* groups of batch_size rows and writes the columnar file; ConvertToCsv    *)
(* finds the groups again through the trailer (GetMeta) and prints them.   *)
(* The model converts a text, prints the table, and converts what was      *)
(* printed (round 2).                                                      *)
(*                                                                         *)
(* A turn of a loop is a step.  The columnar file is a sequence of items   *)
(* that know where they lie; a read takes the item that lies at the        *)
(* reader's position.  A column chunk is one item of ChunkSize bytes: that *)
(* GetBatch takes as many bytes as WriteType returned is shown in          *)
(* Int64Codec and StringCodec.                                             *)
(***************************************************************************)
EXTENDS Integers, Sequences, FiniteSets, SequencesExt

CONSTANTS
    Comma, Newline, Quote,
    Numerals,       \* the numbers of 64 bits, each as to_string prints it
    Stoll(_),       \* the numeral of the number stoll reads at the start of a
                    \* string; none of Numerals when it throws
    Jobs            \* [text, columns, batch_size]: texts to convert, with the
                    \* types of their columns

ASSUME JobsAssumption ==
    \A job \in Jobs :
        job \in [text : Seq(ToSet(job.text)), columns : Seq({"int64", "string"}) \ {<<>>},
                batch_size : Nat \ {0}]

ASSUME CharsAssumption == Comma # Newline /\ Quote \notin {Comma, Newline}

\* What to_string prints has characters, none of them special, and stoll reads
\* the same number there.
ASSUME NumeralsAssumption ==
    \A s \in Numerals :
        /\ s # <<>> /\ s \in Seq(ToSet(s)) /\ Stoll(s) = s
        /\ \A k \in 1 .. Len(s) : s[k] \notin {Comma, Newline, Quote}

VARIABLES
    job,            \* the arguments; the second round has its own text
    round,          \* 1, or 2 when the printed text is converted
    pc,
    rpos,           \* FileReader::pos_
    row,            \* the loop counter: rows of the group being formed
    status, lock, current_str,
    batch,          \* the rows of the group, by columns
    batch_meta,     \* of the writer, later of the reader: [size, offset]
    offset,
    file,           \* the columnar file: items [at, bytes, v]
    columns, r, j,  \* of the printing loops: the group, its row and column
    csv,            \* the text printed
    first           \* the table the first round stored

parseVars == <<rpos, row, status, lock, current_str, batch>>
storeVars == <<batch_meta, offset, file>>
printVars == <<columns, r, j, csv>>
vars == <<job, round, pc, parseVars, storeVars, printVars, first>>

text == job.text
Cols == Len(job.columns)
NoRows == [c \in 1 .. Cols |-> <<>>]

ParseInit(cols) ==
    /\ rpos = 0 /\ row = 0 /\ status = 0 /\ lock = FALSE /\ current_str = <<>>
    /\ batch = [c \in 1 .. cols |-> <<>>]

Init ==
    /\ job \in Jobs
    /\ round = 1 /\ pc = "group"
    /\ ParseInit(Cols)
    /\ batch_meta = <<>> /\ offset = 0 /\ file = <<>>
    /\ columns = <<>> /\ r = 0 /\ j = 0 /\ csv = <<>>
    /\ first = <<>>

-----------------------------------------------------------------------------
(* ConvertToColumnar: the rows                                             *)

Eof == rpos >= Len(text)

\* while (!reader.Eof())
NextGroup ==
    /\ pc = "group"
    /\ IF Eof THEN pc' = "meta" /\ UNCHANGED row
              ELSE pc' = "row" /\ row' = 0
    /\ UNCHANGED <<job, round, rpos, status, lock, current_str, batch, storeVars,
                   printVars, first>>

NextRow ==
    /\ pc = "row"
    /\ pc' = IF row < job.batch_size THEN "chars" ELSE "write"
    /\ current_str' = <<>> /\ status' = 0 /\ lock' = FALSE
    /\ UNCHANGED <<job, round, rpos, row, batch, storeVars, printVars, first>>

Symbol == text[rpos + 1]

\* Fault: quotation marks do not keep separators.
IsSeparatorAnywhere == Symbol \in {Comma, Newline}

IsSeparator == Symbol \in {Comma, Newline} /\ ~ lock

\* A value is the numeral printed for it; there is none when stoll throws, for
\* want of a digit or for a number beyond 64 bits.
Parsed(s) == IF Stoll(s) \in Numerals THEN Stoll(s) ELSE <<>>

Invalid(type, s) == type = "int64" /\ Parsed(s) = <<>>

ConvertType(type, s) == IF type = "int64" THEN Parsed(s) ELSE s

TypeNow == job.columns[status + 1]

Push == batch' = [batch EXCEPT ![status + 1] =
                     Append(@, ConvertType(TypeNow, current_str))]

Throw ==
    /\ pc' = "error"
    /\ UNCHANGED <<job, round, parseVars, storeVars, printVars, first>>

\* A comma behind the last column, a newline before it, or no number.
BadField ==
    \/ Symbol = Comma /\ status >= Cols - 1
    \/ Symbol = Newline /\ status # Cols - 1
    \/ Invalid(TypeNow, current_str)

RejectField ==
    /\ pc = "chars" /\ ~ Eof /\ IsSeparator /\ BadField
    /\ Throw

EndField ==
    /\ pc = "chars" /\ ~ Eof /\ IsSeparator /\ ~ BadField
    /\ Push
    /\ current_str' = <<>>
    /\ IF Symbol = Newline
       THEN status' = 0 /\ pc' = "rowEnd"
       ELSE status' = status + 1 /\ UNCHANGED pc
    /\ rpos' = rpos + 1
    /\ UNCHANGED <<job, round, row, lock, storeVars, printVars, first>>

TakeChar ==
    /\ pc = "chars" /\ ~ Eof /\ ~ IsSeparator
    /\ IF Symbol = Quote
       THEN lock' = ~ lock /\ UNCHANGED current_str
       ELSE current_str' = Append(current_str, Symbol) /\ UNCHANGED lock
    /\ rpos' = rpos + 1
    /\ UNCHANGED <<job, round, pc, row, status, batch, storeVars, printVars, first>>

InputEnds ==
    /\ pc = "chars" /\ Eof
    /\ pc' = "rowEnd"
    /\ UNCHANGED <<job, round, parseVars, storeVars, printVars, first>>

RowDone ==
    /\ pc = "rowEnd" /\ ~ Eof
    /\ row' = row + 1
    /\ pc' = "row"
    /\ UNCHANGED <<job, round, rpos, status, lock, current_str, batch, storeVars,
                   printVars, first>>

LastField == status = Cols - 1 /\ current_str # <<>>

\* The last line has no newline, and its last field has characters.
LastRow ==
    /\ pc = "rowEnd" /\ Eof /\ LastField
    /\ ~ Invalid(TypeNow, current_str)
    /\ Push
    /\ pc' = "write"
    /\ UNCHANGED <<job, round, rpos, row, status, lock, current_str, storeVars,
                   printVars, first>>

RejectLastRow ==
    /\ pc = "rowEnd" /\ Eof
    /\ IF LastField THEN Invalid(TypeNow, current_str) ELSE status # 0
    /\ Throw

NoLastRow ==
    /\ pc = "rowEnd" /\ Eof /\ ~ LastField /\ status = 0
    /\ pc' = "write"
    /\ UNCHANGED <<job, round, parseVars, storeVars, printVars, first>>

-----------------------------------------------------------------------------
(* ConvertToColumnar: the file                                             *)

FileSize == IF file = <<>> THEN 0 ELSE Last(file).at + Last(file).bytes

\* FileWriter::Write, of each of a sequence of values `bytes` long.
Written(values, bytes) ==
    file \o [k \in 1 .. Len(values) |->
                [at |-> FileSize + (k - 1) * bytes, bytes |-> bytes, v |-> values[k]]]

\* What WriteType returns for a chunk; any positive size would do.
ChunkSize(values) == 7 + Len(values)

\* Fault: the offset is the one behind the chunk.
MetaAfter(size) == [size |-> size, offset |-> offset + size]

MetaOf(size) == [size |-> size, offset |-> offset]

\* Column j + 1 of the group.
WriteChunk ==
    /\ pc = "write" /\ j < Cols
    /\ LET size == ChunkSize(batch[j + 1])
       IN  /\ file' = Written(<<batch[j + 1]>>, size)
           /\ batch_meta' = Append(batch_meta, MetaOf(size))
           /\ offset' = offset + size
    /\ batch' = [batch EXCEPT ![j + 1] = <<>>]
    /\ j' = j + 1
    /\ UNCHANGED <<job, round, pc, rpos, row, status, lock, current_str, columns, r,
                   csv, first>>

GroupWritten ==
    /\ pc = "write" /\ j >= Cols
    /\ j' = 0
    /\ pc' = "group"
    /\ UNCHANGED <<job, round, parseVars, storeVars, columns, r, csv, first>>

WriteMeta ==
    /\ pc = "meta"
    /\ file' = Written(batch_meta, 16)
    /\ pc' = "schema"
    /\ UNCHANGED <<job, round, parseVars, batch_meta, offset, printVars, first>>

WriteSchema ==
    /\ pc = "schema"
    /\ file' = Written(job.columns, 10)
    /\ pc' = "trailer"
    /\ UNCHANGED <<job, round, parseVars, batch_meta, offset, printVars, first>>

WriteTrailer ==
    /\ pc = "trailer"
    /\ file' = Written(<<offset, Len(batch_meta), Cols>>, 8)
    /\ pc' = "stored"
    /\ UNCHANGED <<job, round, parseVars, batch_meta, offset, printVars, first>>

-----------------------------------------------------------------------------
(* GetMeta and PrintTable                                                  *)

ItemsAt(p) == {k \in 1 .. Len(file) : file[k].at = p}

\* There are n items of `bytes` bytes from position p on.
Readable(p, n, bytes) ==
    \A k \in 0 .. n - 1 : \E m \in ItemsAt(p + k * bytes) : file[m].bytes = bytes

\* The value of the item at p.
ValueAt(p) == file[CHOOSE k \in ItemsAt(p) : TRUE].v

\* Fault: the trailer is taken for two numbers.
TrailerAtEnd == FileSize - 16

TrailerAt == FileSize - 24

\* The table the columnar file holds: its groups of columns, as rows.
Groups == Len(batch_meta) \div Cols
Chunk(g, c) == file[(g - 1) * Cols + c].v
GroupRows(g) == [n \in 1 .. Len(Chunk(g, 1)) |-> [c \in 1 .. Cols |-> Chunk(g, c)[n]]]
Table ==
    LET upTo[g \in 0 .. Groups] == IF g = 0 THEN <<>> ELSE upTo[g - 1] \o GroupRows(g)
    IN  upTo[Groups]

\* Three numbers from the end of the file, then Jump to the first of them.
ReadTrailer ==
    /\ pc = "stored" /\ round = 1
    /\ Readable(TrailerAt, 3, 8)
    /\ rpos' = ValueAt(TrailerAt)
    /\ first' = Table
    /\ pc' = "readMeta"
    /\ UNCHANGED <<job, round, row, status, lock, current_str, batch, storeVars,
                   printVars>>

ReadMeta ==
    /\ pc = "readMeta"
    /\ LET n == ValueAt(TrailerAt + 8)
           m == ValueAt(TrailerAt + 16)
       IN  /\ Readable(rpos, n, 16) /\ Readable(rpos + n * 16, m, 10)
           /\ batch_meta' = [k \in 1 .. n |-> ValueAt(rpos + (k - 1) * 16)]
           /\ job' = [job EXCEPT !.columns =
                         [k \in 1 .. m |-> ValueAt(rpos + n * 16 + (k - 1) * 10)]]
    /\ rpos' = 0
    /\ row' = 0
    /\ pc' = "print"
    /\ UNCHANGED <<round, status, lock, current_str, batch, offset, file, printVars,
                   first>>

\* One chunk after the other; row counts them (the code calls it batch).
ReadChunk ==
    /\ pc = "print" /\ row < Len(batch_meta) /\ Len(columns) < Cols
    /\ Readable(rpos, 1, batch_meta[row + 1].size)
    /\ columns' = Append(columns, ValueAt(rpos))
    /\ rpos' = rpos + batch_meta[row + 1].size
    /\ row' = row + 1
    /\ UNCHANGED <<job, round, pc, status, lock, current_str, batch, storeVars, r, j,
                   csv, first>>

\* Fault: only newlines are quoted.
NeedsQuotingLines(s) == \E k \in 1 .. Len(s) : s[k] = Newline

NeedsQuoting(s) == \E k \in 1 .. Len(s) : s[k] \in {Newline, Comma}

Field(s) == IF NeedsQuoting(s) THEN <<Quote>> \o s \o <<Quote>> ELSE s

GroupRead == Len(columns) = Cols

PrintField ==
    /\ pc = "print" /\ GroupRead /\ r < Len(columns[1])
    /\ csv' = csv \o (IF j > 0 THEN <<Comma>> ELSE <<>>) \o Field(columns[j + 1][r + 1])
                  \o (IF j = Cols - 1 THEN <<Newline>> ELSE <<>>)
    /\ j' = (j + 1) % Cols
    /\ r' = IF j = Cols - 1 THEN r + 1 ELSE r
    /\ UNCHANGED <<job, round, pc, parseVars, storeVars, columns, first>>

GroupPrinted ==
    /\ pc = "print" /\ GroupRead /\ r >= Len(columns[1])
    /\ columns' = <<>> /\ r' = 0
    /\ UNCHANGED <<job, round, pc, parseVars, storeVars, j, csv, first>>

Printed ==
    /\ pc = "print" /\ row >= Len(batch_meta) /\ columns = <<>>
    /\ pc' = "printed"
    /\ UNCHANGED <<job, round, parseVars, storeVars, printVars, first>>

\* The printed text is converted in its turn.
Again ==
    /\ pc = "printed"
    /\ job' = [job EXCEPT !.text = csv]
    /\ round' = 2
    /\ pc' = "group"
    /\ rpos' = 0
    /\ batch_meta' = <<>> /\ offset' = 0 /\ file' = <<>>
    /\ UNCHANGED <<row, status, lock, current_str, batch, printVars, first>>

Next ==
    \/ NextGroup \/ NextRow
    \/ RejectField \/ EndField \/ TakeChar \/ InputEnds
    \/ RowDone \/ LastRow \/ RejectLastRow \/ NoLastRow
    \/ WriteChunk \/ GroupWritten \/ WriteMeta \/ WriteSchema \/ WriteTrailer
    \/ ReadTrailer \/ ReadMeta \/ ReadChunk \/ PrintField \/ GroupPrinted \/ Printed
    \/ Again

Spec == Init /\ [][Next]_vars /\ WF_vars(Next)

-----------------------------------------------------------------------------
(* What the text means                                                     *)

\* Character k of a text stands between two quotation marks.
Quoted(t, k) == Cardinality({q \in 1 .. k - 1 : t[q] = Quote}) % 2 = 1

Separates(t, k) == t[k] \in {Comma, Newline} /\ ~ Quoted(t, k)

\* The number of separators among the first n characters.
SeparatorsIn(t, n) == Cardinality({k \in 1 .. n : Separates(t, k)})

\* Where the m-th separator stands; behind the text for a field that none ends.
Separator(t, m) ==
    IF m = 0 THEN 0
    ELSE IF m > SeparatorsIn(t, Len(t)) THEN Len(t) + 1
    ELSE CHOOSE k \in 1 .. Len(t) : Separates(t, k) /\ SeparatorsIn(t, k) = m

\* A string without its quotation marks.
Unquoted(s) ==
    LET kept[n \in 0 .. Len(s)] ==
            IF n = 0 THEN <<>>
            ELSE IF s[n] = Quote THEN kept[n - 1] ELSE Append(kept[n - 1], s[n])
    IN  kept[Len(s)]

\* The characters before the m-th separator, without quotation marks.
FieldText(t, m) == Unquoted(SubSeq(t, Separator(t, m - 1) + 1, Separator(t, m) - 1))

\* The fields are those that a separator ends, and what stands behind the last
\* one if the last line lacks that field only and it has characters.
FieldCount(t) ==
    LET n == SeparatorsIn(t, Len(t))
    IN  IF n % Cols = Cols - 1 /\ FieldText(t, n + 1) # <<>> THEN n + 1 ELSE n

TypeOf(m) == job.columns[((m - 1) % Cols) + 1]

\* Every line has its columns, and every integer field a number.
Accepts(t) ==
    /\ \A m \in 1 .. SeparatorsIn(t, Len(t)) :
           (t[Separator(t, m)] = Newline) <=> (m % Cols = 0)
    /\ FieldCount(t) % Cols = 0
    /\ \A m \in 1 .. FieldCount(t) : ~ Invalid(TypeOf(m), FieldText(t, m))

RowsOfText(t) ==
    [n \in 1 .. FieldCount(t) \div Cols |->
        [c \in 1 .. Cols |->
            LET m == (n - 1) * Cols + c IN ConvertType(TypeOf(m), FieldText(t, m))]]

-----------------------------------------------------------------------------
(* Properties                                                              *)

\* A text is stored just if every line has its columns, and the table stored
\* is the one its unquoted separators make (ConvertToColumnar).
RowsAsWritten ==
    /\ pc = "stored" => Accepts(text) /\ Table = RowsOfText(text)
    /\ pc = "error" => ~ Accepts(text)

\* A table printed and converted again is the same table, and the printed
\* text is accepted (PrintTable's quoting, and ConvertToColumnar's reading).
RoundTrip ==
    round = 2 => pc # "error" /\ (pc = "stored" => Table = first)

\* The meta data, read back through the trailer, finds the chunks: the k-th
\* entry the k-th chunk, with its size; and the row groups but the last have
\* batch_size rows, the columns of a group as many; what is being printed are
\* the columns of one group, in their order (convert.cpp and meta_reader.cpp,
\* and what ScanOp relies on).
ChunksFound ==
    pc \in {"stored", "print"} =>
        /\ \A k \in 1 .. Len(batch_meta) :
               /\ file[k].at = batch_meta[k].offset
               /\ file[k].bytes = batch_meta[k].size
               /\ ItemsAt(batch_meta[k].offset) = {k}
        /\ \A g \in 1 .. Groups, c \in 1 .. Cols :
               /\ Len(Chunk(g, c)) = Len(Chunk(g, 1))
               /\ IF g < Groups THEN Len(Chunk(g, c)) = job.batch_size
                                ELSE Len(Chunk(g, c)) <= job.batch_size
        /\ pc = "print" =>
               \A c \in 1 .. Len(columns) : columns[c] = Chunk((row - 1) \div Cols + 1, c)

\* Every conversion ends, in a file or an error, and a stored file can be
\* read back; for a batch size of at least 1.
ConversionEnds == <>(pc = "error" \/ (pc = "stored" /\ round = 2))
=============================================================================
