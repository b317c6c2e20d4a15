----------------------------- MODULE Int64Codec -----------------------------
(***************************************************************************)
(* ColumnTypeInt64: WriteType stores a chunk of integers, GetBatch reads   *)
(* it back.  Each block of BlockSize rows keeps its least value, and the   *)
(* rows are stored as differences from it, in as many bytes as the widest  *)
(* difference of the block needs: one by one, or, when few values are      *)
(* distinct, as runs [count, difference].                                  *)
(*                                                                         *)
(* A turn of a loop is a step.  The chunk is its header and its items, an  *)
(* item being what one or two Writes put down and one or two Reads take    *)
(* up.  Where the reader asks for another number of bytes than the item    *)
(* has, it would get bytes of no meaning: the model has no such step.      *)
(* Widths are constants: Span is 2^64, Capacity[n] is 256^n, CountSpan     *)
(* 2^16, MaxRun 255.                                                       *)
(***************************************************************************)
EXTENDS Integers, Sequences, FiniteSets

CONSTANTS
    BlockSize,      \* block_size
    RleDecision,    \* rle_decision
    MaxRun,         \* the largest value of cnt, a uint8_t
    Half,           \* an int64_t lies in -Half .. Half - 1
    WordBytes,      \* sizeof(int64_t)
    Capacity,       \* how many values n bytes can hold
    CountSpan,      \* how many values a uint16_t can hold
    Inputs          \* the chunks to store: sequences of values

Span == 2 * Half
Int64 == - Half .. Half - 1

ASSUME WidthsAssumption ==
    /\ BlockSize \in Nat \ {0}
    /\ RleDecision \in Nat
    /\ MaxRun \in Nat \ {0}
    /\ Half \in Nat \ {0}
    /\ WordBytes \in Nat \ {0}
    /\ CountSpan \in Nat \ {0}
    /\ Capacity \in [1 .. WordBytes -> Nat \ {0}]
    /\ Capacity[WordBytes] = Span

\* More rows than CountSpan - 1 blocks hold would write past the vectors
\* of WriteType: the converter's batches are far smaller.
Storable(d) == d \in Seq(Int64) /\ Len(d) <= BlockSize * (CountSpan - 1)

ASSUME InputsAssumption == \A d \in Inputs : Storable(d)

VARIABLES
    data,           \* the rows to store
    pc,             \* "start", "measure", "head", "runs", "plain", "written",
                    \* "readRuns", "readPlain" or "done"
    i,              \* the loop counter
    min_val, max_val, unique,
    cnt, val_last,  \* the run being formed
    head,           \* the chunk: its header
    body,           \* the chunk: its items
    result,         \* the bytes written, which WriteType returns
    block, count,   \* of the reading loops: count runs over the chunk, or
                    \* over a block when there are no runs
    pos,            \* the items read
    at,             \* the bytes read
    out             \* the rows read

writeVars == <<i, min_val, max_val, unique, cnt, val_last, head, body, result>>
readVars == <<block, count, pos, at, out>>
codecVars == <<data, pc, writeVars, readVars>>

BlockOf(r) == r \div BlockSize
Blocks(n) == ((n + BlockSize - 1) \div BlockSize) % CountSpan

NoHead == [rle |-> FALSE, n_values |-> 0, blocks |-> 0, min |-> <<>>, sz |-> <<>>]

CodecInit ==
    /\ i = 0 /\ min_val = <<>> /\ max_val = <<>> /\ unique = {}
    /\ cnt = 0 /\ val_last = 0
    /\ head = NoHead /\ body = <<>> /\ result = 0
    /\ block = 0 /\ count = 0 /\ pos = 0 /\ at = 0 /\ out = <<>>

Init == data \in Inputs /\ pc = "start" /\ CodecInit

-----------------------------------------------------------------------------
(* WriteType                                                               *)

Allocate ==
    /\ pc = "start"
    /\ pc' = "measure"
    /\ min_val' = [b \in 0 .. Blocks(Len(data)) - 1 |-> 0]
    /\ max_val' = min_val'
    /\ UNCHANGED <<data, i, unique, cnt, val_last, head, body, result, readVars>>

Lowest(b, r, v) == IF r % BlockSize = 0 \/ min_val[b] > v THEN v ELSE min_val[b]
Highest(b, r, v) == IF r % BlockSize = 0 \/ max_val[b] < v THEN v ELSE max_val[b]

Measure ==
    /\ pc = "measure" /\ i < Len(data)
    /\ LET k == BlockOf(i)
           v == data[i + 1]
       IN  /\ min_val' = [min_val EXCEPT ![k] = Lowest(k, i, v)]
           /\ max_val' = [max_val EXCEPT ![k] = Highest(k, i, v)]
           /\ unique' = unique \cup {v}
    /\ i' = i + 1
    /\ UNCHANGED <<data, pc, cnt, val_last, head, body, result, readVars>>

\* Fault: a byte too few for a delta that fills the bytes before it.
BytesForAtMost(delta) ==
    CHOOSE n \in 1 .. WordBytes :
        /\ delta <= Capacity[n]
        /\ \A k \in 1 .. WordBytes : delta <= Capacity[k] => n <= k

\* (64 - clz(delta) + 7) / 8, or 1 for 0: the bytes that delta fills.
BytesFor(delta) ==
    CHOOSE n \in 1 .. WordBytes :
        /\ delta < Capacity[n]
        /\ \A k \in 1 .. WordBytes : delta < Capacity[k] => n <= k

HeadBytes(blocks) == 7 + 13 * blocks

WriteHead ==
    /\ pc = "head"
    /\ head' = [rle |-> Cardinality(unique) * RleDecision < Len(data),
                n_values |-> Len(data),
                blocks |-> Blocks(Len(data)),
                min |-> min_val,
                sz |-> [b \in DOMAIN min_val |->
                           BytesFor((max_val[b] - min_val[b]) % Span)]]
    /\ result' = HeadBytes(Blocks(Len(data)))
    /\ pc' = IF head'.rle THEN "runs" ELSE "plain"
    /\ UNCHANGED <<data, i, min_val, max_val, unique, cnt, val_last, body, readVars>>

MeasureDone ==
    /\ pc = "measure" /\ i >= Len(data)
    /\ pc' = "head"
    /\ i' = 0
    /\ UNCHANGED <<data, min_val, max_val, unique, cnt, val_last, head, body,
                   result, readVars>>

ValNorm(r) == (data[r + 1] - min_val[BlockOf(r)]) % Span

CountBytes == IF head.rle THEN 1 ELSE 0

\* n rows from the row `first` on, as one difference of `size` bytes.  first
\* and at say where the item lies; no action reads them.
Write(first, n, size, val) ==
    /\ body' = Append(body, [first |-> first, at |-> result, n |-> n,
                             size |-> size, val |-> val % Capacity[size]])
    /\ result' = result + CountBytes + size

\* Fault: a run goes on into the next block.
RunEndsAnywhere == cnt # 0 /\ (ValNorm(i) # val_last \/ cnt = MaxRun)

\* Fault: a run of MaxRun rows goes on, and cnt starts again from 0.
RunEndsUnbounded ==
    cnt # 0 /\ (ValNorm(i) # val_last \/ BlockOf(i) # BlockOf(i - 1))

RunEnds ==
    /\ cnt # 0
    /\ ValNorm(i) # val_last \/ BlockOf(i) # BlockOf(i - 1) \/ cnt = MaxRun

WriteRun ==
    /\ pc = "runs" /\ i < Len(data) /\ RunEnds
    /\ Write(i - cnt, cnt, head.sz[BlockOf(i - 1)], val_last)
    /\ cnt' = 0
    /\ UNCHANGED <<data, pc, i, min_val, max_val, unique, val_last, head, readVars>>

GrowRun ==
    /\ pc = "runs" /\ i < Len(data) /\ ~ RunEnds
    /\ val_last' = ValNorm(i)
    /\ cnt' = (cnt + 1) % (MaxRun + 1)
    /\ i' = i + 1
    /\ UNCHANGED <<data, pc, min_val, max_val, unique, head, body, result, readVars>>

\* Fault: the last run takes the bytes of the first block.
LastSizeOfFirst == head.sz[0]

\* sz.back()
LastSize == head.sz[head.blocks - 1]

WriteLastRun ==
    /\ pc = "runs" /\ i >= Len(data)
    /\ Write(i - cnt, cnt, LastSize, val_last)
    /\ pc' = "written"
    /\ UNCHANGED <<data, i, min_val, max_val, unique, cnt, val_last, head, readVars>>

WritePlain ==
    /\ pc = "plain" /\ i < Len(data)
    /\ Write(i, 1, head.sz[BlockOf(i)], ValNorm(i))
    /\ i' = i + 1
    /\ UNCHANGED <<data, pc, min_val, max_val, unique, cnt, val_last, head, readVars>>

PlainDone ==
    /\ pc = "plain" /\ i >= Len(data)
    /\ pc' = "written"
    /\ UNCHANGED <<data, writeVars, readVars>>

WriteNext ==
    \/ Allocate \/ Measure \/ MeasureDone \/ WriteHead
    \/ WriteRun \/ GrowRun \/ WriteLastRun
    \/ WritePlain \/ PlainDone

-----------------------------------------------------------------------------
(* GetBatch                                                                *)

ReadHead ==
    /\ pc = "written"
    /\ at' = at + HeadBytes(head.blocks)
    /\ pc' = IF head.rle THEN "readRuns" ELSE "readPlain"
    /\ UNCHANGED <<data, writeVars, block, count, pos, out>>

BlockStart(b) == b * BlockSize

\* Fault: the block is left one row late.
BlockAtLate ==
    IF block + 1 < head.blocks /\ count > BlockStart(block + 1) THEN block + 1 ELSE block

\* The block of the next run.
BlockAt ==
    IF block + 1 < head.blocks /\ count >= BlockStart(block + 1) THEN block + 1 ELSE block

\* The next item is there, and as wide as the reader takes it.
Aligned(size) == pos < Len(body) /\ body[pos + 1].size = size

\* static_cast<int64_t>(val + min): modulo Span, into the signed range.
Decode(val, base) == ((val + base + Half) % Span) - Half

ReadRun ==
    /\ pc = "readRuns" /\ count < head.n_values
    /\ Aligned(head.sz[BlockAt])
    /\ LET run == body[pos + 1]
       IN  /\ out' = out \o [r \in 1 .. run.n |-> Decode(run.val, head.min[BlockAt])]
           /\ count' = count + run.n
           /\ at' = at + 1 + run.size
    /\ block' = BlockAt
    /\ pos' = pos + 1
    /\ UNCHANGED <<data, pc, writeVars>>

RunsRead ==
    /\ pc = "readRuns" /\ count >= head.n_values
    /\ pc' = "done"
    /\ UNCHANGED <<data, writeVars, readVars>>

\* Fault: the last block is read as a full one.
RowsInFull(b) == BlockSize

RowsIn(b) ==
    (IF b + 1 < head.blocks THEN BlockStart(b + 1) ELSE head.n_values) - BlockStart(b)

ReadPlain ==
    /\ pc = "readPlain" /\ block < head.blocks /\ count < RowsIn(block)
    /\ Aligned(head.sz[block])
    /\ out' = Append(out, Decode(body[pos + 1].val, head.min[block]))
    /\ pos' = pos + 1
    /\ at' = at + head.sz[block]
    /\ count' = count + 1
    /\ UNCHANGED <<data, pc, writeVars, block>>

NextBlock ==
    /\ pc = "readPlain" /\ block < head.blocks /\ count >= RowsIn(block)
    /\ block' = block + 1
    /\ count' = 0
    /\ UNCHANGED <<data, pc, writeVars, pos, at, out>>

PlainRead ==
    /\ pc = "readPlain" /\ block >= head.blocks
    /\ pc' = "done"
    /\ UNCHANGED <<data, writeVars, readVars>>

ReadNext == ReadHead \/ ReadRun \/ RunsRead \/ ReadPlain \/ NextBlock \/ PlainRead

Next == WriteNext \/ ReadNext

Spec == Init /\ [][Next]_codecVars
FairSpec == Spec /\ WF_codecVars(Next)

-----------------------------------------------------------------------------
(* Properties                                                              *)

Pcs == {"start", "measure", "head", "runs", "plain", "written",
        "readRuns", "readPlain", "done"}

Items == [first : Nat, at : Nat, n : 1 .. MaxRun, size : 1 .. WordBytes,
          val : 0 .. Span - 1]

\* The types of the variables.  Every stored run has 1 to MaxRun rows.
TypeOK ==
    /\ pc \in Pcs /\ data \in Seq(Int64) /\ i \in 0 .. Len(data)
    /\ unique \subseteq Int64 /\ cnt \in 0 .. MaxRun /\ val_last \in 0 .. Span - 1
    /\ body \in Seq(Items) /\ result \in Nat
    /\ block \in Nat /\ count \in Nat /\ pos \in 0 .. Len(body) /\ at \in Nat
    /\ out \in Seq(Int64)

\* The rows read are the rows written: the block a run is decoded with is
\* the block it was encoded with, and no difference loses a byte
\* (WriteType and GetBatch).
RoundTrip == pc = "done" => out = data

\* The reader takes an item as wide as the writer made it, block by block,
\* and exactly the bytes WriteType says it wrote, so that the file stands at
\* the next chunk (WriteType's result and GetBatch).
WholeChunkRead ==
    /\ pc = "readRuns" /\ count < head.n_values => Aligned(head.sz[BlockAt])
    /\ pc = "readPlain" /\ block < head.blocks /\ count < RowsIn(block) =>
           Aligned(head.sz[block])
    /\ pc = "done" => at = result

\* Storing a chunk and reading it back end, whatever the rows.
ReadEnds == <>(pc = "done")
-----------------------------------------------------------------------------
(* The inductive invariant                                                 *)

N == Len(data)
Written == pc \notin {"start", "measure", "head"}

\* The blocks' bounds hold for the rows looked at so far.
Bounded(n) ==
    \A r \in 0 .. n - 1 :
        min_val[BlockOf(r)] <= data[r + 1] /\ data[r + 1] <= max_val[BlockOf(r)]

MeasureInv ==
    /\ Storable(data)
    /\ pc # "start" => /\ min_val \in [0 .. Blocks(N) - 1 -> Int64]
                       /\ max_val \in [0 .. Blocks(N) - 1 -> Int64]
    /\ IsFiniteSet(unique) /\ (N = 0 => unique = {})
    /\ pc = "start" => i = 0
    /\ pc = "measure" => Bounded(i)
    /\ pc = "head" => i = 0 /\ cnt = 0 /\ body = <<>>
    /\ pc \in {"start", "measure"} => cnt = 0 /\ body = <<>>
    /\ pc \notin {"start", "measure"} => Bounded(N)

\* The difference of row r, and that its block has the bytes for it.
Norm(r) == data[r + 1] - min_val[BlockOf(r)]

HeadInv ==
    Written =>
        /\ head.rle \in BOOLEAN /\ (head.rle => N > 0)
        /\ head.n_values = N /\ head.blocks = Blocks(N) /\ head.min = min_val
        /\ head.sz \in [0 .. Blocks(N) - 1 -> 1 .. WordBytes]
        /\ \A r \in 0 .. N - 1 : Norm(r) < Capacity[head.sz[BlockOf(r)]]
        /\ pc \in {"runs", "readRuns"} => head.rle
        /\ pc \in {"plain", "readPlain"} => ~ head.rle

\* The rows that items stand for so far.
Stored == IF pc = "runs" THEN i - cnt ELSE IF pc = "plain" THEN i ELSE N

\* Where item k lies, or would lie: its first row and its first byte.
FirstOf(k) == IF k = Len(body) + 1 THEN Stored ELSE body[k].first
AtOf(k) == IF k = Len(body) + 1 THEN result ELSE body[k].at

\* An item stands for rows of one block, all of the same difference.
ItemInv ==
    Written =>
        \A k \in 1 .. Len(body) :
            LET it == body[k]
            IN  /\ it.first + it.n <= N
                /\ it.size = head.sz[BlockOf(it.first)]
                /\ ~ head.rle => it.first = k - 1 /\ it.n = 1
                /\ \A r \in it.first .. it.first + it.n - 1 :
                       BlockOf(r) = BlockOf(it.first) /\ it.val = Norm(r)

\* The items follow each other, in rows and in bytes.
ChainInv ==
    Written =>
        /\ FirstOf(1) = 0 /\ AtOf(1) = HeadBytes(Blocks(N))
        /\ ~ head.rle => Len(body) = Stored
        /\ \A k \in 1 .. Len(body) :
               /\ FirstOf(k + 1) = body[k].first + body[k].n
               /\ AtOf(k + 1) = body[k].at + CountBytes + body[k].size

\* The run being formed.
RunInv ==
    pc = "runs" =>
        /\ cnt <= i
        /\ cnt = 0 => i < N
        /\ \A r \in i - cnt .. i - 1 :
               BlockOf(r) = BlockOf(i - 1) /\ val_last = Norm(r)

Reading == {"readRuns", "readPlain", "done"}

ReadInv ==
    /\ pc \notin Reading => pos = 0 /\ at = 0 /\ out = <<>> /\ block = 0 /\ count = 0
    /\ pc \in Reading =>
           /\ Len(out) = FirstOf(pos + 1) /\ at = AtOf(pos + 1)
           /\ \A r \in 1 .. Len(out) : out[r] = data[r]
    /\ pc = "readRuns" =>
           /\ count = Len(out)
           /\ block < head.blocks /\ BlockStart(block) <= count
           /\ block + 1 < head.blocks => count <= BlockStart(block + 1)
    /\ pc = "readPlain" =>
           /\ block <= head.blocks
           /\ IF block < head.blocks
              THEN count <= RowsIn(block) /\ Len(out) = BlockStart(block) + count
              ELSE Len(out) = N
    /\ pc = "done" => Len(out) = N

IInv ==
    /\ TypeOK /\ MeasureInv /\ HeadInv /\ ItemInv /\ ChainInv /\ RunInv /\ ReadInv
=============================================================================
