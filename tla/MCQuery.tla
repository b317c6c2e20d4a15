------------------------------ MODULE MCQuery ------------------------------
(* Small files and alphabets of calls for Query.  Strings stand by their   *)
(* rank: "" 100, "a" 101, "ab" 102, "b" 103; 0 .. 9 are the integers.      *)
EXTENDS Query, TLC

MCRealSchema == <<[name |-> "id", type |-> "int64"],
                  [name |-> "s", type |-> "string"],
                  [name |-> "v", type |-> "int64"]>>

MCWordBits == (100 :> {}) @@ (101 :> {1}) @@ (102 :> {1, 2, 3}) @@ (103 :> {2})

Values == -9 .. 103

Identity == [x \in Values |-> x]

OnInt(col, sat) ==
    [col |-> col, type |-> "int64", sat |-> sat, skip_empty |-> FALSE, bloom |-> {}]

LikeA == [col |-> "s", type |-> "string", sat |-> {101, 102},
          skip_empty |-> FALSE, bloom |-> MCWordBits[101]]
NotEmpty == [col |-> "s", type |-> "string", sat |-> 101 .. 103,
             skip_empty |-> TRUE, bloom |-> {}]
EqualsB == [col |-> "s", type |-> "string", sat |-> {103},
            skip_empty |-> FALSE, bloom |-> {}]

Expr(name, col, type, takes, fun) ==
    [name |-> name, col |-> col, type |-> type, takes |-> takes, fun |-> fun, val |-> 0]
\* The type of a column's name is that of the column.
Name(col) == Expr(col, col, "int64", "any", Identity)
Literal(n, type) ==
    [name |-> "lit", col |-> NoCol, type |-> type, takes |-> type, fun |-> Identity, val |-> n]

Agg(fun, col, name) == [fun |-> fun, col |-> col, name |-> name]

WhereCall(pred) == [fn |-> "Where", pred |-> pred]
CaseOf(name, pred, then, else) ==
    [fn |-> "Case", name |-> name, pred |-> pred, then |-> then, else |-> else]
CaseCall(name, pred) == CaseOf(name, pred, Name("v"), Literal(0, "int64"))
AddCall(name, col) ==
    [fn |-> "Add", expr |-> Expr(name, col, "int64", "int64", [x \in Values |-> x + 1])]
LengthCall(col) ==
    [fn |-> "Add", expr |-> Expr("length", col, "int64", "string", [x \in Values |-> 1])]
GroupByCall(cols, aggs) == [fn |-> "GroupBy", cols |-> cols, aggs |-> aggs]
OrderByCall(col, desc, col2, desc2) ==
    [fn |-> "OrderBy", col |-> col, desc |-> desc, col2 |-> col2, desc2 |-> desc2]
SelectCall(cols, star) == [fn |-> "Select", cols |-> cols, star |-> star]
RenameCall(from, to) == [fn |-> "Rename", from |-> from, to |-> to]
Take(n) == [fn |-> "Limit", n |-> n]
Skip(n) == [fn |-> "Offset", n |-> n]
CountCall == [fn |-> "Count"]

\* Conditions, computed columns and pruning; and types that do not match.
FilterCalls ==
    {GroupByCall(<<>>, <<Agg("SUM", "s", "ts")>>),
     GroupByCall(<<"s">>, <<Agg("MAX", "s", "k"), Agg("COUNT DISTINCT", "s", "ds")>>),
     CaseOf("k", OnInt("v", {2}), Name("s"), Literal(0, "int64")),
     CaseOf("k", EqualsB, Name("s"), Literal(100, "string")),
     LengthCall("k"), WhereCall(OnInt("s", {101})),
     WhereCall(LikeA), WhereCall(NotEmpty), WhereCall(EqualsB),
     WhereCall(OnInt("v", 2 .. 9)), WhereCall(OnInt("k", {0})),
     CaseCall("k", OnInt("v", {2})), CaseCall("k", LikeA), AddCall("w", "id"),
     Take(1), SelectCall(<<"v", "w">>, FALSE), CountCall}

\* Orders, cuts and the names of what they leave; and limits at IndexRange and
\* beyond it.
OrderCalls ==
    {OrderByCall("v", TRUE, NoCol, FALSE), OrderByCall("v", FALSE, "id", FALSE),
     OrderByCall("nope", FALSE, NoCol, FALSE),
     Skip(1), Take(0), Take(2), Take(5), Take(6), AddCall("w", "id"), WhereCall(OnInt("v", {1, 2})),
     RenameCall("v", "u"), SelectCall(<<"id">>, TRUE)}

\* Groups, their conditions and their order.
GroupCalls ==
    {GroupByCall(<<"s">>, <<Agg("COUNT", NoCol, "n"), Agg("SUM", "v", "sv")>>),
     GroupByCall(<<>>, <<Agg("MIN", "v", "lo"), Agg("MAX", "v", "hi"),
                         Agg("AVG", "v", "mean"), Agg("COUNT DISTINCT", "s", "ds")>>),
     WhereCall(OnInt("n", 2 .. 9)), WhereCall(NotEmpty), AddCall("w", "n"),
     RenameCall("n", "m"), OrderByCall("n", TRUE, "s", FALSE), Take(1),
     SelectCall(<<"n", "s">>, FALSE), CountCall}

\* Files in which a row group lacks what another has, and an empty file.
MCTables ==
    {<<>>,
     <<<<<<1, 103, 1>>, <<2, 101, 2>>>>, <<<<3, 100, 2>>>>>>,
     <<<<<<1, 100, -3>>>>, <<<<2, 102, 2>>, <<3, 101, 0>>>>, <<<<4, 101, 2>>>>>>}

\* And one with a row group without rows.
MCTablesEmptyGroup == MCTables \cup {<<<<<<1, 103, 1>>>>, <<>>, <<<<2, 101, 2>>>>>>}

\* And, for row indexes below 5, one whose row groups can be numbered but not
\* all of its rows, and one with a row group that cannot.
MCTablesLong == MCTables \cup
    {<<<<<<1, 103, 1>>, <<2, 101, 2>>, <<3, 100, 2>>, <<4, 101, 1>>>>,
       <<<<5, 101, 0>>, <<6, 103, 3>>>>>>,
     <<<<<<1, 103, 1>>, <<2, 101, 2>>, <<3, 101, 0>>, <<4, 103, 2>>, <<5, 100, 1>>>>>>}
=============================================================================
