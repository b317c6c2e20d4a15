------------------------------- MODULE Query --------------------------------
(***************************************************************************)
(* Queries against a file, from the first call on a new Pipeline to the    *)
(* answer of Run, and what they promise.                                   *)
(***************************************************************************)
EXTENDS Pipeline


CONSTANTS
    Tables          \* the files considered

\* A file is a sequence of row groups, and each is a sequence of rows.
ASSUME TablesAssumption ==
    \A t \in Tables :
        t \in Seq(ToSet(t)) /\ \A g \in 1 .. Len(t) : t[g] \in Seq(ToSet(t[g]))

Meant == INSTANCE QuerySemantics

QueryInit == table \in Tables /\ Init

Spec == QueryInit /\ [][Next]_vars

\* Run is one call: once begun it is executed to its end.
FairSpec == Spec /\ WF_vars(Execute \/ Answer \/ Fail)

-----------------------------------------------------------------------------
(* The queries that keep clear of what the engine does not support.  Each  *)
(* condition excludes one way in which its answer can be wrong.            *)

\* A call of one of fns comes before one of gns.
Before(fns, gns) ==
    \E i, j \in 1 .. Len(calls) : i < j /\ calls[i].fn \in fns /\ calls[j].fn \in gns

Pushing(pred) == pred.skip_empty \/ pred.bloom # {}

\* A condition of Case prunes row groups as a Where does.
CasesDoNotPush ==
    \A i \in 1 .. Len(calls) : calls[i].fn = "Case" => ~ Pushing(calls[i].pred)

\* A string predicate finds its file column by its position in cur_schema_,
\* which is its position in the scan only as long as no column was made.
StringsFirst ==
    \A i, j \in 1 .. Len(calls) :
        /\ i < j /\ calls[i].fn \in {"Add", "Case", "GroupBy"}
        /\ calls[j].fn \in {"Where", "Case"}
        => calls[j].pred.type # "string"

\* A pruned row group is not there to be counted by a Limit or an Offset.
PushedBeforeCut ==
    \A i, j \in 1 .. Len(calls) :
        i < j /\ calls[i].fn \in {"Limit", "Offset"} /\ calls[j].fn = "Where"
        => ~ Pushing(calls[j].pred)

\* An order is pending after the first n calls.
OrderPending(n) ==
    \E i \in 1 .. n :
        /\ calls[i].fn = "OrderBy"
        /\ \A j \in i .. n : calls[j].fn # "Limit"

\* The second column of an order needs a Limit; it always ascends.
SecondKeysLimited ==
    \A i \in 1 .. Len(calls) : calls[i].fn = "OrderBy" /\ calls[i].col2 # NoCol =>
        \E j \in i .. Len(calls) : calls[j].fn = "Limit"

SecondKeysAscend ==
    \A i \in 1 .. Len(calls) :
        calls[i].fn = "OrderBy" /\ calls[i].col2 # NoCol => ~ calls[i].desc2

\* An offset into a pending order is kept for the Limit that follows.
OffsetsLimited ==
    \A i \in 1 .. Len(calls) : calls[i].fn = "Offset" /\ OrderPending(i) =>
        i < Len(calls) /\ calls[i + 1].fn = "Limit"

\* An order is by a column the query still has when the order is applied.
OrdersKept ==
    \A i \in 1 .. Len(calls) :
        calls[i].fn \in {"GroupBy", "Count", "Rename"} => ~ OrderPending(i)

\* Call i may leave a batch without rows.
CutsToNothing(i) ==
    calls[i].fn = "Offset" \/ (calls[i].fn = "Limit" /\ calls[i].n = 0)

\* Add, Case and TopKOp are undefined on a batch without rows.
RowsLeft ==
    \A i, j \in 1 .. Len(calls) :
        i < j /\ CutsToNothing(i) =>
            /\ calls[j].fn \notin {"Add", "Case"}
            /\ calls[j].fn = "Limit" => ~ (i < j - 1 /\ OrderPending(j - 1))

\* So they are on an empty row group.
GroupsFilled == \A g \in 1 .. Len(table) : table[g] # <<>>

\* Selected positions are those of the last GroupBy, and Count leaves the
\* columns unknown.
SelectedAfterGroups == ~ Before({"Select"}, {"GroupBy", "Count"})

CountLast ==
    ~ Before({"Count"}, {"Where", "Case", "Add", "GroupBy", "OrderBy", "Rename", "Select"})

\* GetAllBatches drops what is beyond its default limit.
FewRows ==
    LET rows == FlattenSeq(table) IN Len(rows) <= RowLimit

\* Nothing is added to rows that a Limit numbered beyond what a RowIndex holds.
LimitsFit ==
    \A i, j \in 1 .. Len(calls) :
        /\ i < j /\ calls[i].fn = "Limit" /\ calls[j].fn \in {"Add", "Case"}
        => calls[i].n <= IndexRange

\* A RowIndex numbers the rows of a row group.
GroupsFit == \A g \in 1 .. Len(table) : Len(table[g]) < IndexRange

InScope == Meant!Meaning(table, calls).sensible

\* What every query needs, on files and with limits that a RowIndex can number.
WellMade ==
    /\ InScope /\ OrdersKept /\ StringsFirst /\ RowsLeft
    /\ GroupsFilled /\ SelectedAfterGroups /\ CountLast

\* What every query needs, lest it throws or meets undefined behaviour.
Answerable == WellMade /\ LimitsFit /\ GroupsFit

\* What even the sorted and the conditional queries below need, for the answer
\* to be the right one.  So few rows a RowIndex numbers.
SupportedOtherwise ==
    /\ WellMade /\ PushedBeforeCut /\ SecondKeysAscend /\ OffsetsLimited /\ FewRows

Supported == SupportedOtherwise /\ CasesDoNotPush /\ SecondKeysLimited

-----------------------------------------------------------------------------
(* Properties.                                                             *)

RightAnswer == Meant!Accepts(Meant!Meaning(table, calls), answer)

\* A query that keeps to what is supported gets an answer its calls
\* describe: the right rows, in an order they allow, under the right names,
\* whatever the row groups, the pruning and the order of registration.
AnswerCorrect == phase = "done" /\ ~ Reran /\ Supported => RightAnswer

\* test_engine.cpp:625 on Case: "A rows keep score, B rows get 0".  The rows
\* that do not meet the condition get the other value, whichever condition
\* it is; the engine loses them when the condition is pushed down.
OtherRowsGetElse ==
    phase = "done" /\ ~ Reran /\ SupportedOtherwise /\ SecondKeysLimited => RightAnswer

\* test_engine.cpp:700 on two columns of an OrderBy: "second key breaks tie",
\* also when no Limit follows; the engine forgets the second column then.
SecondKeyBreaksTie ==
    phase = "done" /\ ~ Reran /\ SupportedOtherwise /\ CasesDoNotPush => RightAnswer

\* A query that is answerable, supported or not, meets no failure the model
\* knows: an unknown column or position, a value, column or result of the
\* wrong type, a batch without rows or with more than can be numbered.
AlwaysAnswered == phase \in {"error", "undefined"} /\ ~ Reran => ~ Answerable

\* The columns of the batch that reaches Engine::Run are those of
\* cur_schema_, by name and type and in its order: the positions the parser
\* handed out while the scan's list of columns was still growing were right.
\* A query that names no column of the file still reads its first one.
LayoutAgrees ==
    /\ phase = "run" /\ dir = "done" /\ ret # NoBatch /\ ~ Reran
    /\ InScope /\ OrdersKept /\ \A i \in 1 .. Len(calls) : calls[i].fn # "Count"
    => \/ ret.cols = parser.schema
       \/ parser.scan = <<>> /\ ret.cols = Append(parser.schema, RealSchema[1])

\* A second Run answers no rows, whatever the first one left in the operators:
\* the scan is at its end and no operator gives its rows twice (Pipeline::Run
\* resets neither; the query has to be made anew).
SecondRunEmpty == phase = "done" /\ Reran => answer.rows = <<>>

\* Run ends.
RunEnds == phase = "run" ~> phase \in {"done", "error", "undefined"}
=============================================================================
