------------------------------ MODULE Pipeline ------------------------------
(***************************************************************************)
(* Pipeline and QueryParser: each call of the fluent API extends the chain *)
(* of operators, resolving column names to positions as it goes, and Run   *)
(* hands the chain to the engine and reads its answer.                     *)
(*                                                                         *)
(* A call is a record whose field fn names the method.  Its strings come   *)
(* parsed: a predicate is the set of values it accepts with what it pushes *)
(* down to the scan, an expression a function of one column or a literal.  *)
(* A predicate that takes integers of a string column is an IN: every      *)
(* other one is parsed as the column's type asks.                          *)
(***************************************************************************)
EXTENDS Operators


CONSTANTS
    Calls,          \* the calls considered
    MaxCalls,       \* bound: calls before Run
    NoCol,          \* no column is named
    NoOrder         \* pending_order_col_ is empty

\* A file has a column, and every column a name and a type.
ASSUME SchemaAssumption ==
    /\ RealSchema \in Seq(ToSet(RealSchema)) /\ RealSchema # <<>>
    /\ \A k \in 1 .. Len(RealSchema) :
           /\ RealSchema[k] = [name |-> RealSchema[k].name, type |-> RealSchema[k].type]
           /\ RealSchema[k].name # NoCol /\ RealSchema[k].type \in {"int64", "string"}

\* An expression has the type of its values and takes values of a type, or,
\* the mere name of a column, those the column has.
Expression(e) ==
    /\ e.type \in {"int64", "string"} /\ e.takes \in {"int64", "string", "any"}
    /\ e.takes = "any" => e.col # NoCol

\* The lists in a call are sequences, its numbers are of type size_t, of the
\* aggregates only COUNT(*) is of no column, and a group has a column.
ASSUME CallsAssumption ==
    \A c \in Calls :
        /\ c.fn \in {"Where", "Case"} => c.pred.type \in {"int64", "string"}
        /\ c.fn = "Case" => Expression(c.then) /\ Expression(c.else)
        /\ c.fn = "Add" => Expression(c.expr)
        /\ c.fn \in {"GroupBy", "Select"} => c.cols \in Seq(ToSet(c.cols))
        /\ c.fn = "GroupBy" =>
               /\ c.aggs \in Seq(ToSet(c.aggs))
               /\ c.cols # <<>> \/ c.aggs # <<>>
               /\ \A i \in 1 .. Len(c.aggs) : c.aggs[i].col = NoCol <=> c.aggs[i].fun = "COUNT"
        /\ c.fn \in {"Limit", "Offset"} => c.n \in Nat

VARIABLES
    calls,          \* the calls made so far
    phase,          \* "build", "run", "done", "error" or "undefined"
    parser,         \* columns_for_scan_, cur_schema_ and str_scan_options_
    selected,       \* selected_columns_
    order,          \* pending_order_col_, _col2_ and _reversed_
    pendingOffset,  \* pending_offset_
    answer          \* the QueryResult: its header and its rows

buildVars == <<calls, phase, parser, selected, order, pendingOffset, answer>>
vars == <<scanVars, opVars, buildVars>>

-----------------------------------------------------------------------------
(* QueryParser.                                                            *)

\* The first position of a column in a schema, 0 if it has none of that name.
IndexOf(schema, name) ==
    IF \E k \in 1 .. Len(schema) : schema[k].name = name
    THEN CHOOSE k \in 1 .. Len(schema) :
             schema[k].name = name /\ \A i \in 1 .. k - 1 : schema[i].name # name
    ELSE 0

\* GetColumnId: a name unknown to cur_schema_ is looked up in the file's
\* schema and registered, for the scan and at the end of cur_schema_.
Register(p, name) ==
    LET real == IndexOf(RealSchema, name)
    IN  IF IndexOf(p.schema, name) # 0 \/ real = 0 THEN p
        ELSE [p EXCEPT !.scan = Append(@, real),
                       !.schema = Append(@, RealSchema[real])]

\* One name after the other.
RegisterAll(p, names) ==
    LET after[n \in 0 .. Len(names)] ==
            IF n = 0 THEN p ELSE Register(after[n - 1], names[n])
    IN  after[Len(names)]

Id(p, name) == IndexOf(p.schema, name)

\* GetColumnId throws for a name neither schema has.
Known(name) ==
    name = NoCol \/ IndexOf(parser.schema, name) # 0 \/ IndexOf(RealSchema, name) # 0

TypeOf(p, name) == p.schema[Id(p, name)].type

\* A string predicate looks its file column up in columns_for_scan_ at its
\* position in cur_schema_, which may be past the end.
PushesPastEnd(p, pred) ==
    /\ pred.type = "string" /\ TypeOf(p, pred.col) = "string"
    /\ Id(p, pred.col) > Len(p.scan)

NoStringOptions == [skip_empty |-> FALSE, bloom |-> {}]

\* What ParseWhere leaves in str_scan_options_; an IN returns before that.
PushDown(p, pred) ==
    IF pred.type # "string" \/ TypeOf(p, pred.col) # "string" THEN p
    ELSE LET real == p.scan[Id(p, pred.col)]
             had == IF p.opts[real] = NoOptions THEN NoStringOptions ELSE p.opts[real]
         IN  [p EXCEPT !.opts[real] = [skip_empty |-> had.skip_empty \/ pred.skip_empty,
                                       bloom |-> had.bloom \cup pred.bloom]]

\* The type of an expression's values.
ExprType(p, e) == IF e.takes = "any" THEN TypeOf(p, e.col) ELSE e.type

\* ParseAdd: the expression with its column resolved.
Compiled(p, e) ==
    [id |-> IF e.col = NoCol THEN 0 ELSE Id(p, e.col),
     takes |-> IF e.takes = "any" THEN TypeOf(p, e.col) ELSE e.takes,
     type |-> ExprType(p, e), fun |-> e.fun, val |-> e.val]

\* A Case is of integers if either value is.
CaseType(p, c) ==
    IF "int64" \in {ExprType(p, c.then), ExprType(p, c.else)} THEN "int64" ELSE "string"

ScanColumns(p) == IF p.scan = <<>> THEN <<1>> ELSE p.scan

\* GetScanOptions: a column's options go to its first place in the scan.
ScanOptions(p) ==
    [k \in 1 .. Len(p.scan) |->
        IF \E j \in 1 .. k - 1 : p.scan[j] = p.scan[k] THEN NoOptions
        ELSE p.opts[p.scan[k]]]

-----------------------------------------------------------------------------
(* The calls.                                                              *)

RealNames == [k \in 1 .. Len(RealSchema) |-> RealSchema[k].name]

\* The names a call looks up, in its order; NoCol is none.
LookedUp(c) ==
    CASE c.fn = "Where" -> <<c.pred.col>>
      [] c.fn = "Case" -> <<c.pred.col, c.then.col, c.else.col>>
      [] c.fn = "Add" -> <<c.expr.col>>
      [] c.fn = "GroupBy" -> c.cols \o [a \in 1 .. Len(c.aggs) |-> c.aggs[a].col]
      [] c.fn = "Limit" /\ order # NoOrder -> <<order.col, order.col2>>
      [] c.fn = "Rename" -> <<c.from>>
      [] c.fn = "Select" -> c.cols \o (IF c.star THEN RealNames ELSE <<>>)
      [] OTHER -> <<>>

\* The parser after the lookups of call c.
LookUp(c) == RegisterAll(parser, LookedUp(c))

buildRest == <<phase, answer>>

Where(c) ==
    LET p == LookUp(c)
    IN  /\ c.fn = "Where"
        /\ parser' = PushDown(p, c.pred)
        /\ plan' = Append(plan, [op |-> "Filter", id |-> Id(p, c.pred.col),
                                 takes |-> c.pred.type, sat |-> c.pred.sat])
        /\ UNCHANGED <<selected, order, pendingOffset, buildRest>>

\* The new column goes to the end of cur_schema_ as it now is.
AddToSchema(p, name, type) ==
    [p EXCEPT !.schema = Append(@, [name |-> name, type |-> type])]

\* Fault: the position is the one before the names of the call are looked up.
AddNodeEarly(p, c) ==
    IF c.fn = "Case"
    THEN [op |-> "AddCase", id |-> Id(p, c.pred.col), takes |-> c.pred.type,
          sat |-> c.pred.sat, then |-> Compiled(p, c.then), else |-> Compiled(p, c.else),
          name |-> c.name, type |-> CaseType(p, c), at |-> Len(parser.schema)]
    ELSE [op |-> "AddCol", expr |-> Compiled(p, c.expr), name |-> c.expr.name,
          type |-> ExprType(p, c.expr), at |-> Len(parser.schema)]

AddNode(p, c) ==
    IF c.fn = "Case"
    THEN [op |-> "AddCase", id |-> Id(p, c.pred.col), takes |-> c.pred.type,
          sat |-> c.pred.sat, then |-> Compiled(p, c.then), else |-> Compiled(p, c.else),
          name |-> c.name, type |-> CaseType(p, c), at |-> Len(p.schema)]
    ELSE [op |-> "AddCol", expr |-> Compiled(p, c.expr), name |-> c.expr.name,
          type |-> ExprType(p, c.expr), at |-> Len(p.schema)]

\* ParseWhere runs before the columns of the expressions are registered.
Case(c) ==
    LET p1 == Register(parser, c.pred.col)
        p == LookUp(c)
    IN  /\ c.fn = "Case"
        /\ parser' = AddToSchema([p EXCEPT !.opts = PushDown(p1, c.pred).opts],
                                 c.name, CaseType(p, c))
        /\ plan' = Append(plan, AddNode(p, c))
        /\ UNCHANGED <<selected, order, pendingOffset, buildRest>>

Add(c) ==
    LET p == LookUp(c)
    IN  /\ c.fn = "Add"
        /\ parser' = AddToSchema(p, c.expr.name, ExprType(p, c.expr))
        /\ plan' = Append(plan, AddNode(p, c))
        /\ UNCHANGED <<selected, order, pendingOffset, buildRest>>

AggType(p, a) ==
    IF a.fun \in {"MIN", "MAX"} THEN TypeOf(p, a.col) ELSE "int64"

\* What ParseAggregate takes the Aggregator for: sums are of integers, and
\* COUNT(*) takes nothing.
AggTakes(p, a) ==
    IF a.fun \in {"COUNT", "SUM", "AVG"} THEN "int64" ELSE TypeOf(p, a.col)

\* ParseAggregate for one aggregate.
CompiledAgg(p, a) ==
    [fun |-> a.fun, name |-> a.name, type |-> AggType(p, a), takes |-> AggTakes(p, a),
     id |-> IF a.col = NoCol THEN 0 ELSE Id(p, a.col)]

\* GroupByAggregate, and Aggregate with no group columns.
GroupBy(c) ==
    LET p == LookUp(c)
        aggs == [a \in 1 .. Len(c.aggs) |-> CompiledAgg(p, c.aggs[a])]
    IN  /\ c.fn = "GroupBy"
        /\ plan' = Append(plan, [op |-> "Aggregate", names |-> c.cols, aggs |-> aggs,
                                 ids |-> [k \in 1 .. Len(c.cols) |-> Id(p, c.cols[k])]])
        /\ parser' = [p EXCEPT !.schema =
                         [k \in 1 .. Len(c.cols) |-> p.schema[Id(p, c.cols[k])]] \o
                         [a \in 1 .. Len(aggs) |-> [name |-> aggs[a].name,
                                                    type |-> aggs[a].type]]]
        /\ UNCHANGED <<selected, order, pendingOffset, buildRest>>

\* Count leaves cur_schema_ as it was.
Count(c) ==
    /\ c.fn = "Count"
    /\ plan' = Append(plan, [op |-> "Aggregate", names |-> <<>>, ids |-> <<>>,
                             aggs |-> <<[fun |-> "COUNT", name |-> "COUNT(*)", type |-> "int64",
                                         takes |-> "int64", id |-> 0]>>])
    /\ UNCHANGED <<parser, selected, order, pendingOffset, buildRest>>

\* The direction of the second column is parsed and dropped.
OrderBy(c) ==
    /\ c.fn = "OrderBy"
    /\ order' = [col |-> c.col, desc |-> c.desc, col2 |-> c.col2]
    /\ UNCHANGED <<plan, parser, selected, pendingOffset, buildRest>>

OffsetCall(c) ==
    /\ c.fn = "Offset"
    /\ IF order # NoOrder
       THEN pendingOffset' = c.n /\ UNCHANGED plan
       ELSE plan' = Append(plan, [op |-> "Offset", n |-> c.n]) /\ UNCHANGED pendingOffset
    /\ UNCHANGED <<parser, selected, order, buildRest>>

\* Fault: the rows of the pending offset are not asked of TopKOp.
LimitCallWithoutOffset(c) ==
    LET p == LookUp(c)
        topK == [op |-> "TopK", id |-> Id(p, order.col), desc |-> order.desc,
                 id2 |-> IF order.col2 = NoCol THEN 0 ELSE Id(p, order.col2),
                 n |-> c.n]
        offset == IF pendingOffset > 0 THEN <<[op |-> "Offset", n |-> pendingOffset]>>
                  ELSE <<>>
    IN  /\ c.fn = "Limit" /\ order # NoOrder
        /\ plan' = plan \o <<topK>> \o offset
        /\ parser' = p
        /\ order' = NoOrder
        /\ pendingOffset' = 0
        /\ UNCHANGED <<selected, buildRest>>

LimitCall(c) ==
    LET p == LookUp(c)
        topK == [op |-> "TopK", id |-> Id(p, order.col), desc |-> order.desc,
                 id2 |-> IF order.col2 = NoCol THEN 0 ELSE Id(p, order.col2),
                 n |-> c.n + pendingOffset]
        offset == IF pendingOffset > 0 THEN <<[op |-> "Offset", n |-> pendingOffset]>>
                  ELSE <<>>
    IN  /\ c.fn = "Limit"
        /\ IF order # NoOrder
           THEN /\ plan' = plan \o <<topK>> \o offset
                /\ parser' = p
                /\ order' = NoOrder
                /\ pendingOffset' = 0
           ELSE /\ plan' = Append(plan, [op |-> "Limit", n |-> c.n])
                /\ UNCHANGED <<parser, order, pendingOffset>>
        /\ UNCHANGED <<selected, buildRest>>

Rename(c) ==
    LET p == LookUp(c)
    IN  /\ c.fn = "Rename"
        /\ parser' = [p EXCEPT !.schema[Id(p, c.from)].name = c.to]
        /\ plan' = Append(plan, [op |-> "As", from |-> c.from, to |-> c.to])
        /\ UNCHANGED <<selected, order, pendingOffset, buildRest>>

\* Names, then perhaps "*", which stands for the file's columns and forgets
\* what was selected before it.
Select(c) ==
    LET p == LookUp(c)
        ids(names) == [k \in 1 .. Len(names) |-> Id(p, names[k])]
    IN  /\ c.fn = "Select"
        /\ parser' = p
        /\ selected' = IF c.star THEN ids(RealNames) ELSE selected \o ids(c.cols)
        /\ UNCHANGED <<plan, order, pendingOffset, buildRest>>

-----------------------------------------------------------------------------
(* The program.                                                            *)

Init ==
    /\ ScanInit(<<>>, <<>>)
    /\ plan = <<>> /\ act = 0 /\ dir = "down" /\ mem = <<>>
    /\ calls = <<>> /\ phase = "build"
    /\ parser = [scan |-> <<>>, schema |-> <<>>,
                 opts |-> [c \in 1 .. Len(RealSchema) |-> NoOptions]]
    /\ selected = <<>>
    /\ order = NoOrder
    /\ pendingOffset = 0
    /\ answer = [header |-> <<>>, rows |-> <<>>]

Building == phase = "build" /\ UNCHANGED <<scanVars, act, dir, mem>>

\* ParseWhere of call c reads columns_for_scan_ past its end.
PastEnd(c) ==
    /\ c.fn \in {"Where", "Case"} /\ Known(c.pred.col)
    /\ PushesPastEnd(Register(parser, c.pred.col), c.pred)

\* ParseWhere of call c cannot read the value as an integer.
Unparsed(c) ==
    /\ c.fn \in {"Where", "Case"} /\ Known(c.pred.col)
    /\ c.pred.type = "string"
    /\ TypeOf(Register(parser, c.pred.col), c.pred.col) # "string"

Call(c) ==
    /\ Building /\ Len(calls) < MaxCalls
    /\ ~ PastEnd(c) /\ ~ Unparsed(c)
    /\ \A i \in 1 .. Len(LookedUp(c)) : Known(LookedUp(c)[i])
    /\ \/ Where(c) \/ Case(c) \/ Add(c) \/ GroupBy(c) \/ Count(c) \/ OrderBy(c)
       \/ OffsetCall(c) \/ LimitCall(c) \/ Rename(c) \/ Select(c)
    /\ calls' = Append(calls, c)

\* A string for an integer column, or an unknown column: an exception.
Refuse(c) ==
    /\ Building /\ Len(calls) < MaxCalls
    /\ ~ PastEnd(c)
    /\ Unparsed(c) \/ \E i \in 1 .. Len(LookedUp(c)) : ~ Known(LookedUp(c)[i])
    /\ phase' = "error"
    /\ calls' = Append(calls, c)
    /\ UNCHANGED <<plan, parser, selected, order, pendingOffset, answer>>

Overrun(c) ==
    /\ Building /\ Len(calls) < MaxCalls
    /\ PastEnd(c)
    /\ phase' = "undefined"
    /\ calls' = Append(calls, c)
    /\ UNCHANGED <<plan, parser, selected, order, pendingOffset, answer>>

\* Run: a pending order without a Limit becomes a SortOp, by its first
\* column alone and without the pending offset.
Run ==
    /\ phase = "build"
    /\ order # NoOrder => Known(order.col)
    /\ LET p == IF order = NoOrder THEN parser ELSE Register(parser, order.col)
           sort == [op |-> "Sort", id |-> Id(p, order.col), desc |-> order.desc]
           chain == IF order = NoOrder THEN plan ELSE Append(plan, sort)
       IN  /\ parser' = p
           /\ plan' = chain
           /\ columns' = ScanColumns(p)
           /\ options' = ScanOptions(p)
           /\ act' = Len(chain) + 1
           /\ mem' = [i \in 1 .. Len(chain) + 1 |-> Fresh]
    /\ order' = NoOrder
    /\ phase' = "run"
    /\ UNCHANGED <<table, rowGroup, scanPc, chunks, ret, dir,
                   calls, selected, pendingOffset, answer>>

RunRefused ==
    /\ phase = "build"
    /\ order # NoOrder /\ ~ Known(order.col)
    /\ phase' = "error"
    /\ UNCHANGED <<scanVars, opVars, calls, parser, selected, order, pendingOffset, answer>>

Reran == \E k \in 1 .. Len(calls) : calls[k].fn = "Run"

\* Run once more on the same pipeline, or on a copy of it, which has the same
\* operators: the scan stands where it stood, and they keep what they have.
RunAgain ==
    /\ phase = "done" /\ ~ Reran
    /\ columns' = ScanColumns(parser)
    /\ options' = ScanOptions(parser)
    /\ act' = Len(plan) + 1
    /\ dir' = "down"
    /\ calls' = Append(calls, [fn |-> "Run"])
    /\ phase' = "run"
    /\ UNCHANGED <<table, rowGroup, scanPc, chunks, ret, plan, mem,
                   parser, selected, order, pendingOffset, answer>>

Execute ==
    /\ phase = "run" /\ dir \notin {"done", "thrown", "undefined"}
    /\ OpStep
    /\ UNCHANGED buildVars

\* The selected columns of the batch of Engine::Run, or of cur_schema_ when
\* there is no batch.
Header ==
    LET cols == IF ret # NoBatch THEN ret.cols ELSE parser.schema
        shown == IF selected # <<>> THEN selected
                 ELSE IF ret = NoBatch THEN <<>> ELSE [k \in 1 .. Len(cols) |-> k]
    IN  [k \in 1 .. Len(shown) |-> cols[shown[k]].name]

Width == IF ret # NoBatch THEN Len(ret.cols) ELSE Len(parser.schema)

SelectedExist == \A k \in 1 .. Len(selected) : selected[k] <= Width

Answered ==
    [header |-> Header,
     rows |-> IF ret = NoBatch THEN <<>>
              ELSE IF selected = <<>> THEN ret.rows
              ELSE [i \in 1 .. Len(ret.rows) |->
                       [k \in 1 .. Len(selected) |-> ret.rows[i][selected[k]]]]]

Answer ==
    /\ phase = "run" /\ dir = "done" /\ SelectedExist
    /\ answer' = Answered
    /\ phase' = "done"
    /\ UNCHANGED <<scanVars, opVars, calls, parser, selected, order, pendingOffset>>

\* An operator failed, or a position is past the columns of the batch.
Fail ==
    /\ phase = "run"
    /\ \/ dir = "thrown" /\ phase' = "error"
       \/ dir = "undefined" /\ phase' = "undefined"
       \/ dir = "done" /\ ~ SelectedExist /\ phase' = "undefined"
    /\ UNCHANGED <<scanVars, opVars, calls, parser, selected, order, pendingOffset, answer>>

Next ==
    \/ \E c \in Calls : Call(c) \/ Refuse(c) \/ Overrun(c)
    \/ Run \/ RunRefused \/ RunAgain
    \/ Execute \/ Answer \/ Fail
=============================================================================
