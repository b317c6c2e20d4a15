--------------------------- MODULE QuerySemantics ---------------------------
(***************************************************************************)
(* What the calls of a query promise together, without operators, batches, *)
(* column positions or pruning: each call changes the relation the calls   *)
(* before it describe.  A row is a function from column names to values.   *)
(* Where the order of rows is not promised (ties of an OrderBy, groups)    *)
(* every order is acceptable, so a query describes a set of row lists.     *)
(***************************************************************************)
EXTENDS Integers, Sequences

LOCAL INSTANCE FiniteSets
LOCAL INSTANCE FiniteSetsExt
LOCAL INSTANCE SequencesExt
LOCAL INSTANCE TLC

CONSTANTS
    RealSchema,     \* the file's columns
    NoCol           \* no column is named

RealCols == [c \in 1 .. Len(RealSchema) |-> RealSchema[c].name]

RealNames == {RealCols[c] : c \in 1 .. Len(RealSchema)}

\* A name stands for the first column that has it.
Place(name) ==
    CHOOSE c \in 1 .. Len(RealSchema) :
        RealCols[c] = name /\ \A b \in 1 .. c - 1 : RealCols[b] # name

FileRow(row) == [name \in RealNames |-> row[Place(name)]]

\* The query with no calls: all rows of the file, in file order.
WholeFile(t) ==
    LET rows == FlattenSeq(t)
    IN  [lists |-> {[i \in 1 .. Len(rows) |-> FileRow(rows[i])]},
         cols |-> RealNames, made |-> {}, shown |-> <<>>, sensible |-> TRUE,
         strings |-> {n \in RealNames : RealSchema[Place(n)].type = "string"}]

Each(rows, F(_)) == [i \in 1 .. Len(rows) |-> F(rows[i])]

Meant(e, row) == IF e.col = NoCol THEN e.val ELSE e.fun[row[e.col]]

\* Every row gets column name of the given type, with value F of the row.
WithColumn(q, name, type, F(_)) ==
    [q EXCEPT !.lists = {Each(rows, LAMBDA r : r @@ (name :> F(r))) : rows \in @},
              !.cols = @ \cup {name}, !.made = @ \cup {name},
              !.strings = IF type = "string" THEN @ \cup {name} ELSE @]

\* The quotient cut off towards zero.
Quotient(a, n) == IF a >= 0 THEN a \div n ELSE - ((- a) \div n)

\* Aggregate a over the rows numbered I.
Total(a, rows, I) ==
    LET vals == {rows[i][a.col] : i \in I}
        sum == MapThenSumSet(LAMBDA i : rows[i][a.col], I)
    IN  CASE a.fun = "COUNT" -> Cardinality(I)
          [] a.fun = "SUM" -> sum
          [] a.fun = "MIN" -> Min(vals)
          [] a.fun = "MAX" -> Max(vals)
          [] a.fun = "AVG" -> Quotient(sum, Cardinality(I))
          [] a.fun = "COUNT DISTINCT" -> Cardinality(vals)

ToNames(s) == {s[i] : i \in 1 .. Len(s)}

AggNames(aggs) == {aggs[i].name : i \in 1 .. Len(aggs)}

\* One row for each combination of values of the group columns.
Groups(rows, cols, aggs) ==
    LET key(r) == [n \in cols |-> r[n]]
        members(k) == {i \in 1 .. Len(rows) : key(rows[i]) = k}
        agg(n) == CHOOSE a \in ToSet(aggs) : a.name = n
    IN  {k @@ [n \in AggNames(aggs) |-> Total(agg(n), rows, members(k))] :
            k \in {key(rows[i]) : i \in 1 .. Len(rows)}}

\* The least and the greatest of some strings are strings.
StringAggs(q, aggs) ==
    {aggs[i].name : i \in {j \in 1 .. Len(aggs) :
                              aggs[j].fun \in {"MIN", "MAX"} /\ aggs[j].col \in q.strings}}

Grouped(q, cols, aggs) ==
    LET names == ToNames(cols) \cup AggNames(aggs)
    IN  [q EXCEPT !.lists = UNION {SetToSeqs(Groups(rows, ToNames(cols), aggs)) : rows \in @},
                  !.cols = names, !.made = names,
                  !.strings = (@ \cap ToNames(cols)) \cup StringAggs(q, aggs)]

\* r must come before s in the order asked for.
Ahead(c, r, s) ==
    LET first(col, desc) == IF desc THEN r[col] > s[col] ELSE r[col] < s[col]
    IN  \/ first(c.col, c.desc)
        \/ c.col2 # NoCol /\ r[c.col] = s[c.col] /\ first(c.col2, c.desc2)

Orderings(c, rows) ==
    {[i \in 1 .. Len(rows) |-> rows[p[i]]] :
        p \in {f \in Permutations(1 .. Len(rows)) :
                  \A i, j \in 1 .. Len(rows) : i < j => ~ Ahead(c, rows[f[j]], rows[f[i]])}}

FirstRows(rows, n) == SubSeq(rows, 1, IF n < Len(rows) THEN n ELSE Len(rows))

RenamedTo(c, n) == IF n = c.from THEN c.to ELSE n

RenamedRow(c, cols, r) ==
    [n \in {RenamedTo(c, m) : m \in cols} |-> r[IF n = c.to THEN c.from ELSE n]]

\* The columns a call names, and those it makes.
Mentioned(c) ==
    CASE c.fn = "Where" -> {c.pred.col}
      [] c.fn = "Case" -> {c.pred.col} \cup ({c.then.col, c.else.col} \ {NoCol})
      [] c.fn = "Add" -> {c.expr.col} \ {NoCol}
      [] c.fn = "GroupBy" ->
             ToNames(c.cols) \cup ({c.aggs[i].col : i \in 1 .. Len(c.aggs)} \ {NoCol})
      [] c.fn = "OrderBy" -> {c.col, c.col2} \ {NoCol}
      [] c.fn = "Rename" -> {c.from}
      [] c.fn = "Select" -> ToNames(c.cols) \cup (IF c.star THEN RealNames ELSE {})
      [] OTHER -> {}

Made(c) ==
    CASE c.fn = "Case" -> {c.name}
      [] c.fn = "Add" -> {c.expr.name}
      [] c.fn = "GroupBy" -> AggNames(c.aggs)
      [] c.fn = "Rename" -> {c.to}
      [] OTHER -> {}

\* No name stands twice in a list.
Apart(names) == \A i, j \in 1 .. Len(names) : names[i] = names[j] => i = j

\* The columns of a group have different names.
GroupedApart(c) ==
    c.fn = "GroupBy" => Apart(c.cols) /\ Apart([i \in 1 .. Len(c.aggs) |-> c.aggs[i].name])

TypeIn(q, col) == IF col \in q.strings THEN "string" ELSE "int64"

TypeOf(q, e) == IF e.takes = "any" THEN TypeIn(q, e.col) ELSE e.type

\* Expression e takes the values its column has.
Suited(q, e) == e.col = NoCol \/ e.takes \in {"any", TypeIn(q, e.col)}

\* A condition compares a string column, and no other, with a string, the two
\* values of a Case are of one type, and sums are of integers.
RightType(q, c) ==
    /\ c.fn \in {"Where", "Case"} => c.pred.type = TypeIn(q, c.pred.col)
    /\ c.fn = "Add" => Suited(q, c.expr)
    /\ c.fn = "Case" =>
           Suited(q, c.then) /\ Suited(q, c.else) /\ TypeOf(q, c.then) = TypeOf(q, c.else)
    /\ c.fn = "GroupBy" =>
           \A i \in 1 .. Len(c.aggs) : c.aggs[i].fun \in {"SUM", "AVG"} =>
               c.aggs[i].col \notin q.strings

\* The calls so far make sense: columns exist when named, and a new name is
\* the name of no column of the file or of the query.
Sensible(q, c) ==
    /\ q.sensible
    /\ Mentioned(c) \subseteq q.cols
    /\ Made(c) \cap (RealNames \cup q.cols) = {}
    /\ GroupedApart(c)
    /\ RightType(q, c)

\* The query described by q and one more call.
Then(q, c) ==
    CASE c.fn = "Where" ->
             [q EXCEPT !.lists =
                 {SelectSeq(rows, LAMBDA r : r[c.pred.col] \in c.pred.sat) : rows \in @}]
      [] c.fn = "Case" ->
             WithColumn(q, c.name, TypeOf(q, c.then), LAMBDA r :
                 IF r[c.pred.col] \in c.pred.sat THEN Meant(c.then, r) ELSE Meant(c.else, r))
      [] c.fn = "Add" ->
             WithColumn(q, c.expr.name, TypeOf(q, c.expr), LAMBDA r : Meant(c.expr, r))
      [] c.fn = "GroupBy" -> Grouped(q, c.cols, c.aggs)
      [] c.fn = "Count" ->
             Grouped(q, <<>>, <<[fun |-> "COUNT", col |-> NoCol, name |-> "COUNT(*)"]>>)
      [] c.fn = "OrderBy" -> [q EXCEPT !.lists = UNION {Orderings(c, rows) : rows \in @}]
      [] c.fn = "Limit" -> [q EXCEPT !.lists = {FirstRows(rows, c.n) : rows \in @}]
      [] c.fn = "Offset" ->
             [q EXCEPT !.lists = {SubSeq(rows, c.n + 1, Len(rows)) : rows \in @}]
      [] c.fn = "Rename" ->
             [q EXCEPT !.lists = {Each(rows, LAMBDA r : RenamedRow(c, q.cols, r)) : rows \in @},
                       !.cols = {RenamedTo(c, n) : n \in @},
                       !.shown = [k \in DOMAIN @ |-> RenamedTo(c, @[k])],
                       !.made = {RenamedTo(c, n) : n \in @ \cup {c.from}},
                       !.strings = {RenamedTo(c, n) : n \in @}]
      [] c.fn = "Select" -> [q EXCEPT !.shown = IF c.star THEN RealCols ELSE @ \o c.cols]

Step(q, c) ==
    IF Sensible(q, c) THEN Then(q, c) ELSE [q EXCEPT !.sensible = FALSE]

\* What calls mean on file t.
Meaning(t, cs) ==
    LET after[n \in 0 .. Len(cs)] ==
            IF n = 0 THEN WholeFile(t) ELSE Step(after[n - 1], cs[n])
    IN  after[Len(cs)]

\* The header shows the selected columns; without a Select it shows columns
\* of the query, those it made among them if there are rows.
HeaderAccepted(q, ans) ==
    LET shown == ToNames(ans.header)
    IN  IF q.shown # <<>> THEN ans.header = q.shown
        ELSE /\ shown \subseteq q.cols
             /\ Cardinality(shown) = Len(ans.header)
             /\ ans.rows # <<>> => q.made \subseteq shown

\* ans is one of the answers the query describes.
Accepts(q, ans) ==
    /\ HeaderAccepted(q, ans)
    /\ \E rows \in q.lists :
           /\ Len(ans.rows) = Len(rows)
           /\ \A i \in 1 .. Len(rows) :
                  ans.rows[i] = [k \in 1 .. Len(ans.header) |-> rows[i][ans.header[k]]]
=============================================================================
