----------------------------- MODULE Operators ------------------------------
(***************************************************************************)
(* The operators of engine.cpp and engine.h, pulled by Engine::Run.  The   *)
(* operators of a query form a chain: plan[1] pulls from the scan, plan[i] *)
(* from plan[i - 1], and GetAllBatches in Engine::Run, numbered            *)
(* Len(plan) + 1, from the last.  A call of GetNext goes "down" the chain, *)
(* its result comes "up" in ret.                                           *)
(*                                                                         *)
(* Values are integers: a string stands by its rank among the strings.     *)
(* A column holds values of one type, so every comparison is <.  What      *)
(* reads a row was compiled for a type, and std::get throws on a column of *)
(* the other one.                                                          *)
(*                                                                         *)
(* The heap of TopKOp keeps the best rows seen so far; here they are       *)
(* selected when the input ends.                                           *)
(***************************************************************************)
EXTENDS Scan, FiniteSets, SequencesExt, TLC


CONSTANTS
    RowLimit,       \* default limit of GetAllBatches (65535 in the code)
    IndexRange,     \* values of a RowIndex (65536 in the code)
    ChunkSize,      \* groups in a batch of AggregateOp (1024 in the code)
    NoValue         \* a minimum or maximum of no rows

ASSUME LimitAssumption ==
    /\ RowLimit \in Nat \ {0} /\ ChunkSize \in Nat \ {0}
    /\ IndexRange \in Nat /\ RowLimit < IndexRange

VARIABLES
    plan,           \* the operators, from the scan upwards
    act,            \* the operator that runs, 0 for the scan
    dir,            \* "down", "up", "done", "thrown" after an exception, or
                    \* "undefined" after undefined behaviour
    mem             \* what each operator keeps

opVars == <<plan, act, dir, mem>>

\* An operator just constructed: result and skipped_ of the collecting
\* operators, and of AggregateOp ready_, is_string_column_, groups_ and the
\* groups still to emit.
Fresh == [batch |-> NoBatch, skipped |-> 0, ready |-> FALSE, keys |-> <<>>,
          groups |-> <<>>, out |-> <<>>]

EngineRun == [op |-> "Run"]

Running == IF act <= Len(plan) THEN plan[act] ELSE EngineRun

\* The operators that run GetAllBatches, or a loop like it, over their child.
Collecting == {"Limit", "Offset", "Sort", "TopK", "Run"}

Forwarding == {"Filter", "AddCol", "AddCase", "As"}

Smaller(a, b) == IF a < b THEN a ELSE b

\* The number of rows GetAllBatches keeps for operator n, and all of them for
\* the loop of a TopKOp, which has no limit of its own.
Keeps(n, rows) ==
    CASE n.op = "Limit" -> Smaller(n.n, Len(rows))
      [] n.op = "TopK" -> Len(rows)
      [] OTHER -> Smaller(RowLimit, Len(rows))

\* GetAllBatches appends the selected rows of b to what it has, up to the
\* limit; the columns are those of the first batch.
Gather(n, had, b) ==
    LET rows == (IF had = NoBatch THEN <<>> ELSE had.rows) \o b.rows
    IN  [cols |-> IF had = NoBatch THEN b.cols ELSE had.cols,
         rows |-> SubSeq(rows, 1, Keeps(n, rows))]

\* The selection of a gathered batch counts 0, 1, 2 ... in a RowIndex.
Numbered(rows) == [i \in 1 .. Len(rows) |-> rows[((i - 1) % IndexRange) + 1]]

\* The arrangements of rows in which no row comes before one that Better
\* puts ahead of it: std::sort promises no more.
Arrangements(rows, Better(_, _)) ==
    {[i \in 1 .. Len(rows) |-> rows[p[i]]] :
        p \in {q \in Permutations(1 .. Len(rows)) :
                  \A i, j \in 1 .. Len(rows) : i < j => ~ Better(q[j], q[i])}}

\* LessAt on the sort column, turned round by std::reverse.
SortedRows(n, rows) ==
    Arrangements(rows, LAMBDA i, j :
        IF n.desc THEN rows[i][n.id] > rows[j][n.id] ELSE rows[i][n.id] < rows[j][n.id])

\* is_better: the second key, if there is one, always ascends; without one
\* the earlier row wins a tie.
TopKBetter(n, rows, i, j) ==
    \/ IF n.desc THEN rows[i][n.id] > rows[j][n.id] ELSE rows[i][n.id] < rows[j][n.id]
    \/ /\ rows[i][n.id] = rows[j][n.id]
       /\ IF n.id2 = 0 THEN i < j ELSE rows[i][n.id2] < rows[j][n.id2]

TopKRows(n, rows) ==
    {Numbered(SubSeq(s, 1, Smaller(n.n, Len(rows)))) :
        s \in Arrangements(rows, LAMBDA i, j : TopKBetter(n, rows, i, j))}

-----------------------------------------------------------------------------
(* What the operators compute on rows.                                     *)

\* The rows FilterOp leaves in the selection.
Selected(n, rows) ==
    LET kept[i \in 0 .. Len(rows)] ==
            IF i = 0 THEN <<>>
            ELSE IF rows[i][n.id] \in n.sat THEN Append(kept[i - 1], rows[i])
            ELSE kept[i - 1]
    IN  kept[Len(rows)]

\* An expression reads a column or, with id 0, is a literal.
ValueOf(e, row) == IF e.id = 0 THEN e.val ELSE e.fun[row[e.id]]

\* The expression AddCaseOp takes for row.
Branch(n, row) == IF row[n.id] \in n.sat THEN n.then ELSE n.else

AddedValue(n, row) ==
    IF n.op = "AddCase" THEN ValueOf(Branch(n, row), row) ELSE ValueOf(n.expr, row)

\* vector::insert at begin() + at.
Insert(s, at, e) == SubSeq(s, 1, at) \o <<e>> \o SubSeq(s, at + 1, Len(s))

AddColumn(n, b) ==
    [cols |-> Insert(b.cols, n.at, [name |-> n.name, type |-> n.type]),
     rows |-> [i \in 1 .. Len(b.rows) |-> Insert(b.rows[i], n.at, AddedValue(n, b.rows[i]))]]

RenamedCol(n, col) == IF col.name = n.from THEN [col EXCEPT !.name = n.to] ELSE col

Renamed(n, b) == [b EXCEPT !.cols = [i \in DOMAIN @ |-> RenamedCol(n, @[i])]]

\* Fault: a minimum or maximum starts at 0.
AggStartZero(fun) ==
    CASE fun \in {"COUNT", "SUM", "MIN", "MAX"} -> 0
      [] fun = "AVG" -> [sum |-> 0, count |-> 0]
      [] fun = "COUNT DISTINCT" -> {}

\* The state of a new Aggregator, its Next for value v, and its GetResult.
AggStart(fun) ==
    CASE fun \in {"COUNT", "SUM"} -> 0
      [] fun \in {"MIN", "MAX"} -> NoValue
      [] fun = "AVG" -> [sum |-> 0, count |-> 0]
      [] fun = "COUNT DISTINCT" -> {}

AggNext(fun, st, v) ==
    CASE fun = "COUNT" -> st + 1
      [] fun = "SUM" -> st + v
      [] fun = "MIN" -> IF st = NoValue \/ v < st THEN v ELSE st
      [] fun = "MAX" -> IF st = NoValue \/ v > st THEN v ELSE st
      [] fun = "AVG" -> [sum |-> st.sum + v, count |-> st.count + 1]
      [] fun = "COUNT DISTINCT" -> st \cup {v}

\* C++ division rounds towards zero.
AggResult(fun, st) ==
    CASE fun = "AVG" -> IF st.sum < 0 THEN - ((- st.sum) \div st.count)
                                      ELSE st.sum \div st.count
      [] fun = "COUNT DISTINCT" -> Cardinality(st)
      [] OTHER -> st

\* has_count_all_: the first aggregate is a COUNT(*), which the slot of a
\* group counts itself; the other aggregates are in its list rest.
HasCountAll(n) == n.aggs # <<>> /\ n.aggs[1].fun = "COUNT"

RestAggs(n) == IF HasCountAll(n) THEN Tail(n.aggs) ELSE n.aggs

NewSlot == [count |-> 0, rest |-> <<>>]

\* The first row of a group makes the aggregators of rest.
UpdateSlot(n, slot, row) ==
    LET aggs == RestAggs(n)
        rest == IF slot.rest # <<>> THEN slot.rest
                ELSE [a \in 1 .. Len(aggs) |-> AggStart(aggs[a].fun)]
    IN  [count |-> IF HasCountAll(n) THEN slot.count + 1 ELSE slot.count,
         rest |-> [a \in 1 .. Len(aggs) |->
                      AggNext(aggs[a].fun, rest[a],
                              IF aggs[a].id = 0 THEN 0 ELSE row[aggs[a].id])]]

\* FindOrInsert and UpdateSlot for one row.  BuildKey is the group columns.
AddRow(n, groups, row) ==
    LET key == [k \in 1 .. Len(n.ids) |-> row[n.ids[k]]]
        slot == IF key \in DOMAIN groups THEN groups[key] ELSE NewSlot
    IN  [k \in DOMAIN groups \cup {key} |->
            IF k = key THEN UpdateSlot(n, slot, row) ELSE groups[k]]

\* The groups when all rows have been added, one after the other.
ProcessBatch(n, groups, rows) ==
    LET after[i \in 0 .. Len(rows)] ==
            IF i = 0 THEN groups ELSE AddRow(n, after[i - 1], rows[i])
    IN  after[Len(rows)]

GroupRow(n, groups, key) ==
    LET slot == groups[key]
        aggs == RestAggs(n)
    IN  key \o (IF HasCountAll(n) THEN <<slot.count>> ELSE <<>>) \o
        [a \in 1 .. Len(aggs) |-> AggResult(aggs[a].fun, slot.rest[a])]

\* is_string_column_ for batch b; all the batches of a child agree.
KeyTypes(n, b) == [k \in 1 .. Len(n.ids) |-> b.cols[n.ids[k]].type]

KeyCols(n, keys) == [k \in 1 .. Len(n.names) |-> [name |-> n.names[k], type |-> keys[k]]]

AggCols(n) ==
    [a \in 1 .. Len(n.aggs) |-> [name |-> n.aggs[a].name, type |-> n.aggs[a].type]]

\* Fault: the aggregates come first.
GroupColsLast(n, keys) == AggCols(n) \o KeyCols(n, keys)

GroupCols(n, keys) == KeyCols(n, keys) \o AggCols(n)

-----------------------------------------------------------------------------
(* Exceptions and undefined behaviour.                                     *)

\* What reads row for operator n: the condition, expressions or aggregates,
\* each with the position of its column, 0 for none, and the type it takes.
Readers(n, row) ==
    CASE n.op = "Filter" -> {n}
      [] n.op = "AddCol" -> {n.expr}
      [] n.op = "AddCase" -> {n} \cup (IF n.id > Len(row) THEN {} ELSE {Branch(n, row)})
      [] n.op = "Aggregate" -> {n.aggs[a] : a \in 1 .. Len(n.aggs)}
      [] OTHER -> {}

Misplaced(r, cols) == r.id > Len(cols)

Mistyped(r, cols) == r.id \in 1 .. Len(cols) /\ cols[r.id].type # r.takes

\* Operator n cannot work on batch b: a column is missing, or selection.back()
\* is taken of an empty selection.
Unfit(n, b) ==
    \/ \E i \in 1 .. Len(b.rows) : \E r \in Readers(n, b.rows[i]) : Misplaced(r, b.cols)
    \/ n.op \in {"AddCol", "AddCase"} /\ (b.rows = <<>> \/ n.at > Len(b.cols))
    \/ n.op = "Aggregate" /\ \E k \in DOMAIN n.ids : n.ids[k] > Len(b.cols)

\* A std::get in operator n throws: a column is of the other type, or the value
\* of a Case is.
Throws(n, b) ==
    \E i \in 1 .. Len(b.rows) :
        \/ \E r \in Readers(n, b.rows[i]) : Mistyped(r, b.cols)
        \/ n.op = "AddCase" /\ n.id <= Len(b.rows[i]) /\ Branch(n, b.rows[i]).type # n.type

\* CheckBatch of some string predicates takes its column before it looks for
\* rows, also when there are none.
LooksFirst(n, b) == n.op = "Filter" /\ n.takes = "string" /\ b.rows = <<>>

\* The selection of the batch operator m is given has started over at 0: a
\* Limit or TopKOp below it numbered more rows than a RowIndex can.
Wrapped(m) ==
    \E j \in 1 .. m - 1 :
        /\ plan[j].op \in {"Limit", "TopK"}
        /\ \A i \in j + 1 .. m - 1 : plan[i].op \in Forwarding
        /\ plan[j].n > IndexRange /\ Len(mem[j].batch.rows) > IndexRange

\* Fault: TopKOp has no case for the limit 0 and takes heap[0] all the same.
UnfinishedAtZero(n, b) ==
    \/ n.op = "Sort" /\ n.id > Len(b.cols)
    \/ n.op = "TopK" /\ (n.n = 0 \/ b.rows = <<>>)

\* Operator n cannot finish: the sort column is missing, or TopKOp takes
\* heap[0] of an empty heap.
Unfinished(n, b) ==
    \/ n.op = "Sort" /\ n.id > Len(b.cols)
    \/ /\ n.op = "TopK" /\ n.n > 0
       /\ \/ b.rows = <<>>
          \/ Len(b.rows) > 1 /\ (n.id > Len(b.cols) \/ n.id2 > Len(b.cols))

-----------------------------------------------------------------------------
(* The pulls.                                                              *)

PullChild == act' = act - 1 /\ dir' = "down"

Return(b) == ret' = b /\ act' = act + 1 /\ dir' = "up"

scanKept == <<table, columns, options, rowGroup, scanPc, chunks>>

\* The scan is called and works.
CallScan ==
    /\ act = 0 /\ dir = "down"
    /\ GetNext \/ ReadColumn \/ SkipGroup
    /\ UNCHANGED opVars

\* The chunks read are a row group with more rows than a RowIndex can number:
\* the loop that fills the selection does not end.
TooLong == scanPc = "read" /\ Len(chunks) = Len(columns) /\ Len(chunks[1]) >= IndexRange

ScanReturns ==
    /\ act = 0 /\ dir = "down"
    /\ \/ ReturnBatch /\ ~ TooLong
       \/ ReturnNone
    /\ act' = 1 /\ dir' = "up"
    /\ UNCHANGED <<plan, mem>>

\* Fault: ready_ is not set, so the input is aggregated again and again.
CallChildUnready ==
    /\ dir = "down" /\ act > 0
    /\ \/ Running.op \in Forwarding /\ UNCHANGED mem
       \/ Running.op \in Collecting /\ mem' = [mem EXCEPT ![act].batch = NoBatch]
       \/ Running.op = "Aggregate" /\ UNCHANGED mem
    /\ PullChild
    /\ UNCHANGED <<plan, ret, scanKept>>

\* An operator is called and calls its child first.
CallChild ==
    /\ dir = "down" /\ act > 0
    /\ \/ Running.op \in Forwarding /\ UNCHANGED mem
       \/ Running.op \in Collecting /\ mem' = [mem EXCEPT ![act].batch = NoBatch]
       \/ /\ Running.op = "Aggregate" /\ ~ mem[act].ready
          /\ mem' = [mem EXCEPT ![act].ready = TRUE]
    /\ PullChild
    /\ UNCHANGED <<plan, ret, scanKept>>

\* Fault: a batch without rows is passed on.
FilterEmpty ==
    /\ dir = "up" /\ Running.op = "Filter" /\ ret # NoBatch
    /\ ~ Unfit(Running, ret) /\ ~ Throws(Running, ret)
    /\ Return([ret EXCEPT !.rows = Selected(Running, @)])
    /\ UNCHANGED <<plan, mem, scanKept>>

\* FilterOp asks again when no row of the batch is left.
Filter ==
    /\ dir = "up" /\ Running.op = "Filter" /\ ret # NoBatch
    /\ ~ Unfit(Running, ret) /\ ~ Throws(Running, ret)
    /\ LET rows == Selected(Running, ret.rows)
       IN  IF rows = <<>> THEN PullChild /\ UNCHANGED ret
                          ELSE Return([ret EXCEPT !.rows = rows])
    /\ UNCHANGED <<plan, mem, scanKept>>

\* AddColOp, AddCaseOp and AsOp change each batch.
Transform ==
    /\ dir = "up" /\ ret # NoBatch
    /\ \/ /\ Running.op \in {"AddCol", "AddCase"}
          /\ ~ Unfit(Running, ret) /\ ~ Throws(Running, ret)
          /\ Return(AddColumn(Running, ret))
       \/ Running.op = "As" /\ Return(Renamed(Running, ret))
    /\ UNCHANGED <<plan, mem, scanKept>>

\* nullopt passes through them.
PassNone ==
    /\ dir = "up" /\ Running.op \in Forwarding /\ ret = NoBatch
    /\ Return(NoBatch)
    /\ UNCHANGED <<plan, mem, scanKept>>

\* A turn of the loop of GetAllBatches or of TopKOp.
Collect ==
    /\ dir = "up" /\ Running.op \in Collecting /\ ret # NoBatch
    /\ mem' = [mem EXCEPT ![act].batch = Gather(Running, @, ret)]
    /\ PullChild
    /\ UNCHANGED <<plan, ret, scanKept>>

\* No batch came at all.
CollectNone ==
    /\ dir = "up" /\ Running.op \in Collecting \ {"Run"}
    /\ ret = NoBatch /\ mem[act].batch = NoBatch
    /\ Return(NoBatch)
    /\ UNCHANGED <<plan, mem, scanKept>>

Limit(b) ==
    /\ Running.op = "Limit"
    /\ Return([b EXCEPT !.rows = Numbered(@)])
    /\ UNCHANGED mem

Offset(b) ==
    LET skip == Smaller(Running.n - mem[act].skipped, Len(b.rows))
    IN  /\ Running.op = "Offset"
        /\ Return([b EXCEPT !.rows = SubSeq(@, skip + 1, Len(@))])
        /\ mem' = [mem EXCEPT ![act].skipped = @ + skip]

Sort(b) ==
    /\ Running.op = "Sort"
    /\ \E rows \in SortedRows(Running, b.rows) : Return([b EXCEPT !.rows = rows])
    /\ UNCHANGED mem

TopK(b) ==
    /\ Running.op = "TopK"
    /\ IF Running.n = 0 THEN Return([b EXCEPT !.rows = <<>>])
       ELSE \E rows \in TopKRows(Running, b.rows) : Return([b EXCEPT !.rows = rows])
    /\ UNCHANGED mem

\* The child is exhausted, and what was gathered is returned.
FinishCollect ==
    /\ dir = "up" /\ ret = NoBatch /\ Running.op \in Collecting
    /\ LET b == mem[act].batch
       IN  /\ b # NoBatch /\ ~ Unfinished(Running, b)
           /\ Limit(b) \/ Offset(b) \/ Sort(b) \/ TopK(b)
    /\ UNCHANGED <<plan, scanKept>>

\* AggregateOp::Run: every row of the batch goes to its group.
Aggregate ==
    /\ dir = "up" /\ Running.op = "Aggregate" /\ ret # NoBatch
    /\ ~ Unfit(Running, ret) /\ ~ Throws(Running, ret)
    /\ mem' = [mem EXCEPT ![act].keys = KeyTypes(Running, ret),
                          ![act].groups = ProcessBatch(Running, @, ret.rows)]
    /\ PullChild
    /\ UNCHANGED <<plan, ret, scanKept>>

\* The input is over: the groups will come in the order of the hash table.
AggregateRun ==
    /\ dir = "up" /\ Running.op = "Aggregate" /\ ret = NoBatch
    /\ LET groups == mem[act].groups
       IN  \E keys \in SetToSeqs(DOMAIN groups) :
               mem' = [mem EXCEPT ![act].out =
                          [i \in 1 .. Len(keys) |-> GroupRow(Running, groups, keys[i])]]
    /\ dir' = "down"
    /\ UNCHANGED <<plan, act, ret, scanKept>>

\* The rest of AggregateOp::GetNext: the next groups, or nullopt.
EmitGroups ==
    /\ dir = "down" /\ act > 0 /\ Running.op = "Aggregate" /\ mem[act].ready
    /\ LET out == mem[act].out
           n == Smaller(ChunkSize, Len(out))
       IN  /\ Return(IF out = <<>> THEN NoBatch
                     ELSE [cols |-> GroupCols(Running, mem[act].keys),
                           rows |-> SubSeq(out, 1, n)])
           /\ mem' = [mem EXCEPT ![act].out = SubSeq(out, n + 1, Len(out))]
    /\ UNCHANGED <<plan, scanKept>>

\* Engine::Run has the whole answer in ret.
EngineDone ==
    /\ dir = "up" /\ Running.op = "Run" /\ ret = NoBatch
    /\ ret' = mem[act].batch
    /\ dir' = "done"
    /\ UNCHANGED <<plan, act, mem, scanKept>>

\* An exception leaves Run.
Throw ==
    /\ dir = "up" /\ ret # NoBatch
    /\ \/ Throws(Running, ret)
       \/ LooksFirst(Running, ret) /\ Mistyped(Running, ret.cols)
    /\ dir' = "thrown"
    /\ UNCHANGED <<plan, act, mem, ret, scanKept>>

Misbehave ==
    /\ \/ /\ dir = "up" /\ ret # NoBatch
          /\ \/ Unfit(Running, ret)
             \/ LooksFirst(Running, ret) /\ Misplaced(Running, ret.cols)
             \* the new column ends at the last row of the selection
             \/ Running.op \in {"AddCol", "AddCase"} /\ Wrapped(act)
       \/ /\ dir = "up" /\ ret = NoBatch /\ Running.op \in Collecting
          /\ mem[act].batch # NoBatch /\ Unfinished(Running, mem[act].batch)
       \/ act = 0 /\ dir = "down" /\ TooLong
    /\ dir' = "undefined"
    /\ UNCHANGED <<plan, act, mem, ret, scanKept>>

OpStep ==
    \/ CallScan \/ ScanReturns \/ CallChild
    \/ Filter \/ Transform \/ PassNone
    \/ Collect \/ CollectNone \/ FinishCollect
    \/ Aggregate \/ AggregateRun \/ EmitGroups
    \/ EngineDone \/ Throw \/ Misbehave
=============================================================================
