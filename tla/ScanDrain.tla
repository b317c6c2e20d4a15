------------------------------ MODULE ScanDrain -----------------------------
(***************************************************************************)
(* A scan drained by the loop every consumer of an operator runs: while    *)
(* (auto batch = op->GetNext()).  "delivered" is the list of the row       *)
(* groups the consumer was given.                                          *)
(***************************************************************************)
EXTENDS Scan

CONSTANTS
    Values,         \* the values of the file
    ColumnNames,    \* the names of its columns
    Tables,         \* the files considered
    ColumnLists,    \* the lists of columns a query reads
    Pushed          \* the scan options a query gives for a column

Row == [1 .. Len(RealSchema) -> Values]

ColumnMetaData == [name : ColumnNames, type : {"int64", "string"}]

ASSUME ScanAssumption ==
    /\ RealSchema \in Seq(ColumnMetaData)
    /\ Tables \subseteq Seq(Seq(Row))
    /\ ColumnLists \subseteq Seq(1 .. Len(RealSchema)) \ {<<>>}
    /\ NoOptions \notin Pushed

VARIABLES
    draining,       \* the consumer has not seen nullopt yet
    delivered

vars == <<scanVars, draining, delivered>>

Init ==
    /\ table \in Tables
    /\ \E cols \in ColumnLists :
           \E opts \in {<<>>} \cup [1 .. Len(cols) -> Pushed \cup {NoOptions}] :
               ScanInit(cols, opts)
    \* the parser gives options to string columns only
    /\ options # <<>> =>
           \A k \in 1 .. Len(columns) :
               options[k] # NoOptions => RealSchema[columns[k]].type = "string"
    /\ draining = TRUE
    /\ delivered = <<>>

\* The consumer asks for a batch.
Ask ==
    /\ draining
    /\ GetNext
    /\ UNCHANGED <<draining, delivered>>

Read == ReadColumn /\ UNCHANGED <<draining, delivered>>

Skip == SkipGroup /\ UNCHANGED <<draining, delivered>>

Deliver ==
    /\ ReturnBatch
    /\ delivered' = Append(delivered, rowGroup)
    /\ UNCHANGED draining

End ==
    /\ ReturnNone
    /\ draining' = FALSE
    /\ UNCHANGED delivered

Next == Ask \/ Read \/ Skip \/ Deliver \/ End

Spec == Init /\ [][Next]_vars

\* The consumer's loop runs on; nothing else runs in the program.
FairSpec == Spec /\ WF_vars(Next)

-----------------------------------------------------------------------------
(* Properties.                                                             *)

\* Every variable has the type of the field or local it stands for.
TypeOK ==
    /\ table \in Tables
    /\ columns \in ColumnLists
    /\ options \in {<<>>} \cup [1 .. Len(columns) -> Pushed \cup {NoOptions}]
    /\ rowGroup \in 0 .. Len(table)
    /\ scanPc \in {"idle", "read", "end"}
    /\ chunks \in Seq(Seq(Values))
    /\ Len(chunks) <= Len(columns)
    /\ ret \in {NoBatch} \cup [cols : Seq(ColumnMetaData), rows : Seq(Seq(Values))]
    /\ draining \in BOOLEAN
    /\ delivered \in Seq(1 .. Len(table))

\* The groups come in file order, none of them twice, and none before it is
\* opened: the counter of line 64 is the only position the scan has, across
\* calls and across the recursion of line 86.
InOrder ==
    /\ \A i, j \in 1 .. Len(delivered) : i < j => delivered[i] < delivered[j]
    /\ \A i \in 1 .. Len(delivered) : delivered[i] <= rowGroup

WasDelivered(g) == \E i \in 1 .. Len(delivered) : delivered[i] = g

\* The scan is through with group g.
Passed(g) == g < rowGroup \/ (g = rowGroup /\ scanPc # "read")

\* A predicate that pushed opts down can accept v: it is not empty where ''
\* is refused, and it has all the n-grams of what LIKE looks for.
MayMatch(v, opts) ==
    opts # NoOptions =>
        /\ opts.skip_empty => v # Empty
        /\ opts.bloom \subseteq WordBits[v]

\* A row that every pushed predicate can accept.
Wanted(row) ==
    \A k \in 1 .. Len(columns) : MayMatch(row[columns[k]], OptionsAt(k))

\* Pruning loses no row a query wants: a group that was passed over has no
\* row that all pushed predicates accept, whatever bits collide and however
\* many groups are skipped in one call.  Lines 81-87 of engine.cpp and
\* 108-141 of types.cpp.
NoWantedRowSkipped ==
    \A g \in 1 .. rowGroup :
        Passed(g) /\ ~ WasDelivered(g) =>
            \A r \in 1 .. Len(table[g]) : ~ Wanted(table[g][r])

Project(row) == [k \in 1 .. Len(columns) |-> row[columns[k]]]

\* A batch is the last group delivered, its rows whole and in file order:
\* chunks of a skipped group never mix with those of the group that follows.
BatchIsGroup ==
    ret # NoBatch =>
        /\ delivered # <<>>
        /\ LET g == delivered[Len(delivered)]
           IN  ret.rows = [r \in 1 .. Len(table[g]) |-> Project(table[g][r])]

\* nullopt means that every group has been passed.
EndIsEnd == ~ draining => rowGroup = Len(table) /\ ret = NoBatch

\* The loop over a scan ends.
DrainEnds == <> ~ draining

\* Inside a call, the open group is a new one and the chunks read so far are
\* its columns, unpruned.
CallInv ==
    /\ scanPc = "read" =>
           /\ rowGroup > 0
           /\ \A i \in 1 .. Len(delivered) : delivered[i] < rowGroup
           /\ \A k \in 1 .. Len(chunks) : chunks[k] = Column(rowGroup, columns[k])
    /\ scanPc = "end" => rowGroup = Len(table)
    /\ scanPc # "idle" => draining

\* A call resumes where the last one stopped: the conjunction the proofs
\* show inductive.
IInv ==
    /\ TypeOK /\ InOrder /\ NoWantedRowSkipped /\ BatchIsGroup /\ EndIsEnd
    /\ CallInv
=============================================================================
