-------------------------------- MODULE TopK --------------------------------
(***************************************************************************)
(* TopKOp::GetNext with a limit above 0: the loop that keeps the best rows *)
(* in a heap bounded by the limit, row by row, and the sort at its end.    *)
(*                                                                         *)
(* Of std::make_heap, std::pop_heap and std::push_heap only their promise  *)
(* is used: afterwards front() is an element that no other one follows in  *)
(* the order given, here a worst row of the heap.                          *)
(***************************************************************************)
EXTENDS RowOrder

CONSTANTS
    Values,     \* values of the sort columns
    Limits,     \* limits considered
    MaxRows     \* bound: rows read

ASSUME TopKAssumption ==
    /\ Values \subseteq Int
    /\ Limits \subseteq Nat \ {0}
    /\ MaxRows \in Nat

Rows == [key : Values, key2 : Values, order : 0 .. MaxRows - 1]

VARIABLES
    ord,        \* reversed_ and whether there is a col_idx_2_, fixed
    limit,      \* limit_, fixed
    named,      \* names is not empty: a batch has come
    heap,       \* the rows of heap
    front,      \* heap.front()
    nextOrder,  \* next_order
    pc,         \* "pull", then "done", "none" for nullopt, or "undefined"
    answer,     \* the rows returned
    seen        \* history: the rows read

vars == <<ord, limit, named, heap, front, nextOrder, pc, answer, seen>>

NoRow == [key |-> 0, key2 |-> 0, order |-> -1]

\* The rows that can be at the front of a heap of the rows S.
Worst(S) == {w \in S : \A r \in S : ~ Better(ord, w, r)}

Init ==
    /\ ord \in Order
    /\ limit \in Limits
    /\ named = FALSE
    /\ heap = {}
    /\ front = NoRow
    /\ nextOrder = 0
    /\ pc = "pull"
    /\ answer = <<>>
    /\ seen = {}

\* The first batch comes, with rows or without.
FirstBatch ==
    /\ pc = "pull" /\ ~ named
    /\ named' = TRUE
    /\ UNCHANGED <<ord, limit, heap, front, nextOrder, pc, answer, seen>>

\* Row r is the next one of a batch.
Arrives(r) ==
    /\ pc = "pull" /\ named /\ nextOrder < MaxRows
    /\ r.order = nextOrder
    /\ nextOrder' = nextOrder + 1
    /\ seen' = seen \cup {r}
    /\ UNCHANGED <<ord, limit, named, pc, answer>>

\* Fault: the heap takes one row too many.
PushPastLimit(r) ==
    /\ Arrives(r)
    /\ Cardinality(heap) <= limit
    /\ heap' = heap \cup {r}
    /\ front' \in IF Cardinality(heap) + 1 >= limit THEN Worst(heap') ELSE {r}

\* Fault: make_heap is not called, so front() is the first row pushed.
PushWithoutHeap(r) ==
    /\ Arrives(r)
    /\ Cardinality(heap) < limit
    /\ heap' = heap \cup {r}
    /\ front' = IF heap = {} THEN r ELSE front

\* The heap has room.  Its rows become a heap with the last one.
Push(r) ==
    /\ Arrives(r)
    /\ Cardinality(heap) < limit
    /\ heap' = heap \cup {r}
    /\ front' \in IF Cardinality(heap) + 1 = limit THEN Worst(heap')
                  ELSE {IF heap = {} THEN r ELSE front}

\* Fault: push_heap is left out after the last row is overwritten, so the
\* new row may end up in front.
ReplaceWithoutHeap(r) ==
    /\ Arrives(r)
    /\ Cardinality(heap) >= limit
    /\ Better(ord, r, front)
    /\ heap' = (heap \ {front}) \cup {r}
    /\ front' \in heap'

\* The row is better than the worst one kept and takes its place.
Replace(r) ==
    /\ Arrives(r)
    /\ Cardinality(heap) >= limit
    /\ Better(ord, r, front)
    /\ heap' = (heap \ {front}) \cup {r}
    /\ front' \in Worst(heap')

\* Fault: the row is compared the other way round.
DiscardIfWorse(r) ==
    /\ Arrives(r)
    /\ Cardinality(heap) >= limit
    /\ ~ Better(ord, front, r)
    /\ UNCHANGED <<heap, front>>

Discard(r) ==
    /\ Arrives(r)
    /\ Cardinality(heap) >= limit
    /\ ~ Better(ord, r, front)
    /\ UNCHANGED <<heap, front>>

\* The input is over: the rows kept are sorted and returned.
Finish ==
    /\ pc = "pull" /\ heap # {}
    /\ answer' \in Sorted(ord, heap)
    /\ pc' = "done"
    /\ UNCHANGED <<ord, limit, named, heap, front, nextOrder, seen>>

\* The input is over and there was no row: nullopt if there was no batch
\* either, heap[0] of an empty heap otherwise.
FinishEmpty ==
    /\ pc = "pull" /\ heap = {}
    /\ pc' = IF named THEN "undefined" ELSE "none"
    /\ UNCHANGED <<ord, limit, named, heap, front, nextOrder, answer, seen>>

Next ==
    \/ FirstBatch
    \/ \E r \in [key : Values, key2 : Values, order : {nextOrder}] :
           Push(r) \/ Replace(r) \/ Discard(r)
    \/ Finish \/ FinishEmpty

Spec == Init /\ [][Next]_vars

-----------------------------------------------------------------------------
(* Properties.                                                             *)

\* Every variable has the type of the field or local it stands for; the heap
\* never exceeds the limit.
TypeOK ==
    /\ ord \in Order
    /\ limit \in Limits
    /\ named \in BOOLEAN
    /\ seen \subseteq Rows /\ IsFiniteSet(seen)
    /\ heap \subseteq seen
    /\ Cardinality(heap) <= limit
    /\ front \in Rows \cup {NoRow}
    /\ nextOrder \in 0 .. MaxRows
    /\ pc \in {"pull", "done", "none", "undefined"}
    /\ \A i \in DOMAIN answer : answer[i] \in heap

\* The heap holds as many rows as the limit allows, and no row that was
\* discarded or replaced is better than one that is kept (lines 410-419).
BestKept ==
    /\ Cardinality(heap) = IF Cardinality(seen) < limit THEN Cardinality(seen) ELSE limit
    /\ \A r \in seen \ heap, h \in heap : ~ Better(ord, r, h)

\* Without a second column, rows with equal keys are returned in the order
\* they came in, and a cut between them keeps the earlier ones (line 390):
\* a limit gives the same rows however they were spread over batches.
StableCut ==
    pc = "done" /\ ~ ord.two =>
        \A i \in DOMAIN answer : \A r \in seen :
            r.key = answer[i].key /\ r.order < answer[i].order =>
                \E j \in DOMAIN answer : j < i /\ answer[j] = r

\* What the state of the loop is between two rows: the rows read have
\* different numbers, and the front of a full heap is a worst row of it.
LoopInv ==
    /\ \A r \in seen : r.order < nextOrder
    /\ \A r, s \in seen : r.order = s.order => r = s
    /\ Cardinality(heap) = limit => front \in Worst(heap)
    /\ pc = "done" => answer \in Sorted(ord, heap)
    /\ pc # "done" => answer = <<>>

\* The conjunction the proofs show inductive.
IInv == TypeOK /\ BestKept /\ LoopInv

Best == INSTANCE BestRows WITH returned <- pc = "done"

\* The bounded heap returns what a selection from all rows would.
ImplementsBestRows == Best!Spec
=============================================================================
