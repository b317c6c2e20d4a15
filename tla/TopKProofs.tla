----------------------------- MODULE TopKProofs -----------------------------
(***************************************************************************)
(* Proofs about TopK for every set of values, every limit and every number *)
(* of rows: the bounded heap returns what a selection from all the rows    *)
(* would.                                                                  *)
(***************************************************************************)
EXTENDS TopK, FiniteSetTheorems, TLAPS

-----------------------------------------------------------------------------
(* The order of rows.                                                      *)

\* is_better never ranks two rows both ways, and what is not better than one
\* row that is not better than another is not better than that one either.
LEMMA WeakOrder ==
    ASSUME NEW o \in Order, NEW a \in Rows, NEW b \in Rows, NEW c \in Rows
    PROVE  /\ ~ (Better(o, a, b) /\ Better(o, b, a))
           /\ ~ Better(o, a, b) /\ ~ Better(o, b, c) => ~ Better(o, a, c)
  <1>1. /\ a.key \in Int /\ a.key2 \in Int /\ a.order \in Int
        /\ b.key \in Int /\ b.key2 \in Int /\ b.order \in Int
        /\ c.key \in Int /\ c.key2 \in Int /\ c.order \in Int
    <2>1. Values \subseteq Int /\ 0 .. MaxRows - 1 \subseteq Int
      BY TopKAssumption
    <2>2. \A x \in Rows : x.key \in Int /\ x.key2 \in Int /\ x.order \in Int
      BY <2>1 DEF Rows
    <2>3. QED
      BY <2>2
  <1>2. ~ (Better(o, a, b) /\ Better(o, b, a))
    BY <1>1 DEF Better
  <1>3. ~ Better(o, a, b) /\ ~ Better(o, b, c) => ~ Better(o, a, c)
    BY <1>1 DEF Better
  <1>4. QED
    BY <1>2, <1>3

\* A row that is better than one of its heap's worst rows: no row that is
\* not better than that worst row is better than it.
LEMMA BetterThanWorst ==
    ASSUME NEW o \in Order, NEW r \in Rows, NEW w \in Rows, NEW s \in Rows,
           Better(o, r, w), ~ Better(o, s, w)
    PROVE  ~ Better(o, s, r)
  <1>1. ~ Better(o, w, r)
    BY WeakOrder
  <1>2. SUFFICES ASSUME Better(o, s, r) PROVE FALSE
    OBVIOUS
  <1>3. ~ Better(o, r, s)
    BY <1>2, WeakOrder
  <1>4. QED
    BY <1>3, WeakOrder

-----------------------------------------------------------------------------
(* A row arrives.                                                          *)

\* The row read is a new one, with a number no other row has.
LEMMA ArrivingRow ==
    ASSUME IInv, NEW r \in [key : Values, key2 : Values, order : {nextOrder}],
           Arrives(r)
    PROVE  /\ r \in Rows /\ r \notin seen
           /\ seen' \subseteq Rows /\ IsFiniteSet(seen')
           /\ Cardinality(seen') = Cardinality(seen) + 1
           /\ Cardinality(seen) \in Nat
           /\ nextOrder' \in 0 .. MaxRows
           /\ \A s \in seen' : s.order < nextOrder'
           /\ \A s, t \in seen' : s.order = t.order => s = t
  <1>1. nextOrder \in Nat /\ nextOrder < MaxRows /\ MaxRows \in Nat
    BY TopKAssumption DEF IInv, TypeOK, Arrives
  <1>2. r \in Rows /\ r.order = nextOrder
    BY <1>1 DEF Rows
  <1>3. \A s \in seen : s.order < nextOrder /\ s.order \in Int
    BY DEF IInv, LoopInv, TypeOK, Rows
  <1>4. r \notin seen
    BY <1>1, <1>2, <1>3
  <1>5. seen' = seen \cup {r} /\ nextOrder' = nextOrder + 1
    BY DEF Arrives
  <1>6. IsFiniteSet(seen') /\ Cardinality(seen') = Cardinality(seen) + 1
    BY <1>4, <1>5, FS_AddElement DEF IInv, TypeOK
  <1>7. Cardinality(seen) \in Nat
    BY FS_CardinalityType DEF IInv, TypeOK
  <1>8. \A s \in seen' : s.order < nextOrder'
    BY <1>1, <1>2, <1>3, <1>5
  <1>9. \A s, t \in seen' : s.order = t.order => s = t
    BY <1>1, <1>2, <1>3, <1>5 DEF IInv, LoopInv
  <1>10. QED
    BY <1>1, <1>2, <1>4, <1>5, <1>6, <1>7, <1>8, <1>9 DEF IInv, TypeOK

\* The heap is a finite set of rows, of rows read.
LEMMA HeapType ==
    ASSUME TypeOK
    PROVE  /\ IsFiniteSet(heap) /\ Cardinality(heap) \in Nat
           /\ heap \subseteq Rows /\ seen \subseteq Rows
           /\ limit \in Nat \ {0} /\ ord \in Order
  <1>1. IsFiniteSet(heap) /\ Cardinality(heap) \in Nat
    BY FS_Subset, FS_CardinalityType DEF TypeOK
  <1>2. QED
    BY <1>1, TopKAssumption DEF TypeOK

\* What a step of the loop leaves to be shown of IInv: that the new heap is
\* of the rows read, as many as allowed, the best ones, with its front.
LEMMA StepOfLoop ==
    ASSUME IInv, NEW r \in [key : Values, key2 : Values, order : {nextOrder}],
           Arrives(r),
           heap' \subseteq seen', front' \in Rows \cup {NoRow},
           Cardinality(heap') = IF Cardinality(seen') < limit
                                THEN Cardinality(seen') ELSE limit,
           \A s \in seen' \ heap', h \in heap' : ~ Better(ord, s, h),
           Cardinality(heap') = limit => front' \in Worst(heap')
    PROVE  IInv'
  <1>1. /\ UNCHANGED <<ord, limit, named, pc, answer>>
        /\ pc = "pull"
    BY DEF Arrives
  <1>2. Cardinality(seen') \in Nat /\ limit \in Nat
    BY ArrivingRow, HeapType DEF IInv
  <1>3. answer = <<>>
    BY <1>1 DEF IInv, LoopInv
  <1>4. TypeOK'
    BY <1>1, <1>2, <1>3, ArrivingRow DEF IInv, TypeOK
  <1>5. BestKept'
    BY <1>1 DEF BestKept
  <1>6. LoopInv'
    BY <1>1, <1>3, ArrivingRow DEF LoopInv, Worst
  <1>7. QED
    BY <1>4, <1>5, <1>6 DEF IInv

-----------------------------------------------------------------------------
(* The actions.                                                            *)

\* A row pushed onto a heap with room: nothing has been left out yet.
LEMMA PushStep ==
    ASSUME IInv, NEW r \in [key : Values, key2 : Values, order : {nextOrder}],
           Push(r)
    PROVE  IInv'
  <1>1. Arrives(r) /\ Cardinality(heap) < limit /\ heap' = heap \cup {r}
    BY DEF Push
  <1>2. /\ IsFiniteSet(heap) /\ Cardinality(heap) \in Nat /\ limit \in Nat
        /\ heap \subseteq seen
    BY HeapType DEF IInv, TypeOK
  <1>3. r \in Rows /\ r \notin seen /\ IsFiniteSet(seen)
    BY <1>1, ArrivingRow DEF IInv, TypeOK
  <1>4. Cardinality(heap') = Cardinality(heap) + 1
    BY <1>1, <1>2, <1>3, FS_AddElement
  <1>5. Cardinality(heap) = Cardinality(seen) /\ Cardinality(seen) \in Nat
    BY <1>1, <1>2, ArrivingRow DEF IInv, BestKept
  <1>6. heap = seen
    BY <1>2, <1>3, <1>5, FS_Subset
  <1>7. seen' = seen \cup {r} /\ ord' = ord
    BY <1>1 DEF Arrives
  <1>8. Cardinality(seen') = Cardinality(seen) + 1
    BY <1>1, ArrivingRow
  <1>9. Cardinality(heap') = IF Cardinality(seen') < limit
                             THEN Cardinality(seen') ELSE limit
    BY <1>1, <1>2, <1>4, <1>5, <1>8
  <1>10. Cardinality(heap') = limit => front' \in Worst(heap')
    BY <1>4, <1>7 DEF Push, Worst
  <1>11. front' \in Rows \cup {NoRow}
    <2>1. Worst(heap') \subseteq Rows
      BY <1>1, <1>3, HeapType DEF Worst, IInv
    <2>2. QED
      BY <1>3, <2>1 DEF Push, IInv, TypeOK
  <1>12. heap' = seen'
    BY <1>1, <1>6, <1>7
  <1>13. QED
    BY <1>1, <1>9, <1>10, <1>11, <1>12, StepOfLoop

\* The rows of a full heap, and its front.
LEMMA FullHeap ==
    ASSUME IInv, Cardinality(heap) >= limit
    PROVE  /\ Cardinality(heap) = limit /\ heap # {}
           /\ front \in heap /\ front \in Rows
           /\ \A h \in heap : ~ Better(ord, front, h)
           /\ Cardinality(seen) >= limit
  <1>1. Cardinality(heap) = limit
    BY HeapType DEF IInv, TypeOK
  <1>2. heap # {}
    BY <1>1, HeapType, FS_EmptySet DEF IInv
  <1>3. front \in Worst(heap)
    BY <1>1 DEF IInv, LoopInv
  <1>4. Cardinality(seen) \in Nat
    BY FS_CardinalityType DEF IInv, TypeOK
  <1>5. Cardinality(seen) >= limit
    BY <1>1, <1>4, HeapType DEF IInv, BestKept
  <1>6. QED
    BY <1>1, <1>2, <1>3, <1>5, HeapType DEF Worst, IInv

\* The number of rows kept of a full heap stays right when a row arrives.
LEMMA StillFull ==
    ASSUME IInv, NEW r \in [key : Values, key2 : Values, order : {nextOrder}],
           Arrives(r), Cardinality(heap) >= limit, Cardinality(heap') = limit
    PROVE  Cardinality(heap') = IF Cardinality(seen') < limit
                                THEN Cardinality(seen') ELSE limit
  <1>1. Cardinality(seen') = Cardinality(seen) + 1 /\ Cardinality(seen) \in Nat
    BY ArrivingRow
  <1>2. Cardinality(seen) >= limit /\ limit \in Nat
    BY FullHeap, HeapType DEF IInv
  <1>3. QED
    BY <1>1, <1>2

\* A row that is better than the front takes its place.
LEMMA ReplaceStep ==
    ASSUME IInv, NEW r \in [key : Values, key2 : Values, order : {nextOrder}],
           Replace(r)
    PROVE  IInv'
  <1>1. /\ Arrives(r) /\ Cardinality(heap) >= limit /\ Better(ord, r, front)
        /\ heap' = (heap \ {front}) \cup {r} /\ front' \in Worst(heap')
    BY DEF Replace
  <1>2. /\ Cardinality(heap) = limit /\ front \in heap /\ front \in Rows
        /\ \A h \in heap : ~ Better(ord, front, h)
    BY <1>1, FullHeap
  <1>3. /\ IsFiniteSet(heap) /\ heap \subseteq seen /\ seen \subseteq Rows
        /\ limit \in Nat /\ ord \in Order
    BY HeapType DEF IInv, TypeOK
  <1>4. r \in Rows /\ r \notin seen
    BY <1>1, ArrivingRow
  <1>5. seen' = seen \cup {r} /\ ord' = ord
    BY <1>1 DEF Arrives
  <1>6. Cardinality(heap') = limit
    <2>1. IsFiniteSet(heap \ {front}) /\ Cardinality(heap \ {front}) = limit - 1
      BY <1>2, <1>3, FS_RemoveElement
    <2>2. r \notin heap \ {front}
      BY <1>3, <1>4
    <2>3. Cardinality(heap') = (limit - 1) + 1
      BY <1>1, <2>1, <2>2, FS_AddElement
    <2>4. QED
      BY <1>3, <2>3
  <1>7. heap' \subseteq seen' /\ heap' \subseteq Rows
    BY <1>1, <1>3, <1>4, <1>5
  <1>8. ASSUME NEW s \in seen' \ heap', NEW h \in heap'
        PROVE  ~ Better(ord, s, h)
    <2>1. s = front \/ s \in seen \ heap
      BY <1>1, <1>5
    <2>2. s \in Rows
      BY <2>1, <1>2, <1>3
    <2>3. ~ Better(ord, s, front)
      BY <2>1, <1>2 DEF IInv, BestKept
    <2>4. CASE h = r
      BY <1>1, <1>2, <1>3, <1>4, <2>2, <2>3, <2>4, BetterThanWorst
    <2>5. CASE h \in heap
      BY <1>2, <2>1, <2>5 DEF IInv, BestKept
    <2>6. QED
      BY <1>1, <2>4, <2>5
  <1>9. front' \in Worst(heap') /\ front' \in Rows
    BY <1>1, <1>5, <1>7 DEF Worst
  <1>10. Cardinality(heap') = IF Cardinality(seen') < limit
                              THEN Cardinality(seen') ELSE limit
    BY <1>1, <1>6, StillFull
  <1>11. QED
    BY <1>1, <1>7, <1>8, <1>9, <1>10, StepOfLoop

\* A row that is not better than the front is not better than any row kept.
LEMMA DiscardStep ==
    ASSUME IInv, NEW r \in [key : Values, key2 : Values, order : {nextOrder}],
           Discard(r)
    PROVE  IInv'
  <1>1. /\ Arrives(r) /\ Cardinality(heap) >= limit /\ ~ Better(ord, r, front)
        /\ heap' = heap /\ front' = front
    BY DEF Discard
  <1>2. /\ Cardinality(heap) = limit /\ front \in heap /\ front \in Rows
        /\ \A h \in heap : ~ Better(ord, front, h)
    BY <1>1, FullHeap
  <1>3. /\ heap \subseteq seen /\ heap \subseteq Rows /\ ord \in Order
    BY HeapType DEF IInv, TypeOK
  <1>4. r \in Rows
    BY <1>1, ArrivingRow
  <1>5. seen' = seen \cup {r} /\ ord' = ord
    BY <1>1 DEF Arrives
  <1>6. ASSUME NEW s \in seen' \ heap', NEW h \in heap'
        PROVE  ~ Better(ord, s, h)
    <2>1. CASE s = r
      BY <1>1, <1>2, <1>3, <1>4, <2>1, WeakOrder
    <2>2. CASE s \in seen
      BY <1>1, <2>2 DEF IInv, BestKept
    <2>3. QED
      BY <1>5, <2>1, <2>2
  <1>7. front' \in Worst(heap')
    BY <1>1, <1>2, <1>5 DEF Worst
  <1>8. Cardinality(heap') = IF Cardinality(seen') < limit
                             THEN Cardinality(seen') ELSE limit
    BY <1>1, <1>2, StillFull
  <1>9. heap' \subseteq seen' /\ front' \in Rows
    BY <1>1, <1>2, <1>3, <1>5
  <1>10. QED
    BY <1>1, <1>6, <1>7, <1>8, <1>9, StepOfLoop

-----------------------------------------------------------------------------
(* The invariant.                                                          *)

\* Every step keeps the invariant.
LEMMA InductiveStep == IInv /\ [Next]_vars => IInv'
  <1> SUFFICES ASSUME IInv, [Next]_vars PROVE IInv'
    OBVIOUS
  <1>1. CASE FirstBatch
    BY <1>1 DEF FirstBatch, IInv, TypeOK, BestKept, LoopInv, Worst
  <1>2. ASSUME NEW r \in [key : Values, key2 : Values, order : {nextOrder}],
               Push(r) \/ Replace(r) \/ Discard(r)
        PROVE  IInv'
    BY <1>2, PushStep, ReplaceStep, DiscardStep
  <1>3. CASE Finish
    <2>1. /\ answer' \in Sorted(ord, heap) /\ pc' = "done"
          /\ UNCHANGED <<ord, limit, named, heap, front, nextOrder, seen>>
      BY <1>3 DEF Finish
    <2>2. \A i \in DOMAIN answer' : answer'[i] \in heap
      BY <2>1 DEF Sorted
    <2>3. TypeOK'
      BY <2>1, <2>2 DEF IInv, TypeOK
    <2>4. BestKept'
      BY <2>1 DEF IInv, BestKept
    <2>5. LoopInv'
      BY <2>1 DEF IInv, LoopInv, Worst, Sorted
    <2>6. QED
      BY <2>3, <2>4, <2>5 DEF IInv
  <1>4. CASE FinishEmpty
    <2>1. /\ pc = "pull" /\ pc' \in {"none", "undefined"}
          /\ UNCHANGED <<ord, limit, named, heap, front, nextOrder, answer, seen>>
      BY <1>4 DEF FinishEmpty
    <2>2. TypeOK'
      BY <2>1 DEF IInv, TypeOK
    <2>3. BestKept'
      BY <2>1 DEF IInv, BestKept
    <2>4. LoopInv'
      BY <2>1 DEF IInv, LoopInv, Worst
    <2>5. QED
      BY <2>2, <2>3, <2>4 DEF IInv
  <1>5. CASE UNCHANGED vars
    BY <1>5 DEF vars, IInv, TypeOK, BestKept, LoopInv, Worst, Sorted
  <1>6. QED
    BY <1>1, <1>2, <1>3, <1>4, <1>5 DEF Next

\* The loop starts with an empty heap, which satisfies the invariant.
LEMMA InitInvariant == Init => IInv
  <1> SUFFICES ASSUME Init PROVE IInv
    OBVIOUS
  <1>1. IsFiniteSet({}) /\ Cardinality({}) = 0
    BY FS_EmptySet
  <1>2. limit \in Nat \ {0}
    BY TopKAssumption DEF Init
  <1>3. TypeOK
    <2>1. /\ ord \in Order /\ limit \in Limits /\ named \in BOOLEAN
          /\ seen \subseteq Rows /\ heap \subseteq seen
          /\ front \in Rows \cup {NoRow}
          /\ pc \in {"pull", "done", "none", "undefined"}
      BY DEF Init
    <2>2. IsFiniteSet(seen) /\ Cardinality(heap) <= limit
      BY <1>1, <1>2 DEF Init
    <2>3. nextOrder \in 0 .. MaxRows
      BY TopKAssumption DEF Init
    <2>4. \A i \in DOMAIN answer : answer[i] \in heap
      BY DEF Init
    <2>5. QED
      BY <2>1, <2>2, <2>3, <2>4 DEF TypeOK
  <1>4. BestKept
    BY <1>1, <1>2 DEF Init, BestKept
  <1>5. LoopInv
    BY <1>1, <1>2 DEF Init, LoopInv
  <1>6. QED
    BY <1>3, <1>4, <1>5 DEF IInv

\* IInv holds throughout the loop, whatever rows come and however they tie.
THEOREM Inductive == Spec => []IInv
  <1>1. QED
    BY InitInvariant, InductiveStep, PTL DEF Spec

\* No row discarded or replaced is better than one that is kept (lines
\* 410-419 of engine.cpp), and the heap is as full as it can be.
THEOREM BestKeptAlways == Spec => []BestKept
  <1>1. IInv => BestKept
    BY DEF IInv
  <1>2. QED
    BY <1>1, Inductive, PTL

\* The variables keep their types.
THEOREM TypeCorrect == Spec => []TypeOK
  <1>1. IInv => TypeOK
    BY DEF IInv
  <1>2. QED
    BY <1>1, Inductive, PTL

\* Rows with equal keys come out in the order they were read, and a cut
\* between them keeps the earlier ones (line 390 of engine.cpp).
THEOREM StableCutAlways == Spec => []StableCut
  <1>1. ASSUME IInv PROVE StableCut
    <2> SUFFICES ASSUME pc = "done", ~ ord.two,
                        NEW i \in DOMAIN answer, NEW r \in seen,
                        r.key = answer[i].key, r.order < answer[i].order
                 PROVE  \E j \in DOMAIN answer : j < i /\ answer[j] = r
      BY DEF StableCut
    <2>1. answer \in Sorted(ord, heap)
      BY <1>1 DEF IInv, LoopInv
    <2>2. /\ DOMAIN answer = 1 .. Cardinality(heap)
          /\ answer[i] \in heap /\ Cardinality(heap) \in Nat
      BY <1>1, <2>1, HeapType DEF Sorted, IInv
    <2>3. Better(ord, r, answer[i])
      BY DEF Better
    <2>4. r \in heap
      BY <1>1, <2>2, <2>3 DEF IInv, BestKept
    <2>5. PICK j \in 1 .. Cardinality(heap) : answer[j] = r
      BY <2>1, <2>4 DEF Sorted
    <2>6. ~ (i < j)
      <3>1. SUFFICES ASSUME i < j PROVE FALSE
        OBVIOUS
      <3>2. ~ Better(ord, answer[j], answer[i])
        BY <3>1, <2>1, <2>2, <2>5 DEF Sorted
      <3>3. QED
        BY <3>2, <2>3, <2>5
    <2>7. r.order \in Int /\ answer[i].order \in Int
      BY <1>1, <2>2, <2>4, HeapType DEF IInv, Rows
    <2>8. i # j
      BY <2>5, <2>7
    <2>9. QED
      BY <2>2, <2>5, <2>6, <2>8
  <1>2. QED
    BY <1>1, Inductive, PTL

-----------------------------------------------------------------------------
(* The refinement.                                                         *)

\* Best takes the definitions of RowOrder with it; they say the same there.
LEMMA SameOperators ==
    /\ \A S : Best!Cardinality(S) = Cardinality(S)
    /\ \A o, a, b : Best!Better(o, a, b) = Better(o, a, b)
    /\ \A o, S : Best!Sorted(o, S) = Sorted(o, S)
    /\ Best!Order = Order
  <1>1. \A S : Best!Cardinality(S) = Cardinality(S)
    BY DEF Best!Cardinality, Cardinality, Best!IsFiniteSet, IsFiniteSet
  <1>2. \A o, a, b : Best!Better(o, a, b) = Better(o, a, b)
    BY DEF Best!Better, Better
  <1>3. \A o, S : Best!Sorted(o, S) = Sorted(o, S)
    BY <1>1, <1>2 DEF Best!Sorted, Sorted
  <1>4. Best!Order = Order
    BY DEF Best!Order, Order
  <1>5. QED
    BY <1>1, <1>2, <1>3, <1>4

\* The bounded heap implements the selection from all rows: at the end it
\* holds a best choice of them, and every other step only reads.
THEOREM Refinement == Spec => ImplementsBestRows
  <1>1. Init => Best!Init
    <2> SUFFICES ASSUME Init PROVE Best!Init
      OBVIOUS
    <2>1. limit \in Nat \ {0}
      BY TopKAssumption DEF Init
    <2>2. (pc = "done") = FALSE
      BY DEF Init
    <2>3. ord \in Best!Order /\ seen = {} /\ answer = <<>>
      BY SameOperators DEF Init
    <2>4. QED
      BY <2>1, <2>2, <2>3 DEF Best!Init
  <1>2. ASSUME IInv, [Next]_vars PROVE [Best!Next]_(Best!vars)
    <2>1. CASE FirstBatch
      BY <2>1 DEF FirstBatch, Best!vars
    <2>2. ASSUME NEW r \in [key : Values, key2 : Values, order : {nextOrder}],
                 Push(r) \/ Replace(r) \/ Discard(r)
          PROVE  Best!Next
      <3>1. Arrives(r)
        BY <2>2 DEF Push, Replace, Discard
      <3>2. r \in Rows
        BY <1>2, <3>1, ArrivingRow
      <3>3. Best!Read(r)
        BY <3>1 DEF Arrives, Best!Read
      <3>4. QED
        BY <3>2, <3>3 DEF Best!Next
    <2>3. CASE Finish
      <3>1. Best!IsBest(heap, seen)
        BY <1>2, SameOperators DEF IInv, TypeOK, BestKept, Best!IsBest
      <3>2. Best!Return
        <4>1. heap \in SUBSET seen /\ answer' \in Best!Sorted(ord, heap)
          BY <1>2, <2>3, SameOperators DEF Finish, IInv, TypeOK
        <4>2. ~ (pc = "done") /\ (pc = "done")' = TRUE
          BY <2>3 DEF Finish
        <4>3. UNCHANGED <<ord, limit, seen>>
          BY <2>3 DEF Finish
        <4>4. QED
          BY <3>1, <4>1, <4>2, <4>3 DEF Best!Return
      <3>3. QED
        BY <3>2 DEF Best!Next
    <2>4. CASE FinishEmpty
      BY <2>4 DEF FinishEmpty, Best!vars
    <2>5. CASE UNCHANGED vars
      BY <2>5 DEF vars, Best!vars
    <2>6. QED
      BY <1>2, <2>1, <2>2, <2>3, <2>4, <2>5 DEF Next
  <1>3. QED
    BY <1>1, <1>2, Inductive, PTL DEF Spec, ImplementsBestRows, Best!Spec
=============================================================================
