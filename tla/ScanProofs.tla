----------------------------- MODULE ScanProofs -----------------------------
(***************************************************************************)
(* Proofs about ScanDrain for every file, every list of columns, every     *)
(* choice of scan options and every assignment of Bloom filter bits.       *)
(***************************************************************************)
EXTENDS ScanDrain, TLAPS

-----------------------------------------------------------------------------
(* Chunks and pruning.                                                     *)

\* The elements of a sequence.
LEMMA SeqElement ==
    ASSUME NEW S, NEW s \in Seq(S), NEW i \in 1 .. Len(s)
    PROVE  s[i] \in S
OBVIOUS

\* A column of a group is a sequence of values, one for each row.
LEMMA ColumnType ==
    ASSUME TypeOK, NEW g \in 1 .. Len(table), NEW c \in 1 .. Len(RealSchema)
    PROVE  /\ Column(g, c) \in Seq(Values)
           /\ Len(Column(g, c)) = Len(table[g])
           /\ \A r \in 1 .. Len(table[g]) : Column(g, c)[r] = table[g][r][c]
  <1>1. table \in Seq(Seq(Row)) /\ Len(RealSchema) \in Nat
    BY ScanAssumption DEF TypeOK
  <1>2. table[g] \in Seq(Row)
    BY <1>1
  <1>3. \A r \in 1 .. Len(table[g]) : table[g][r] \in Row
    BY <1>2
  <1>4. \A r \in 1 .. Len(table[g]) : table[g][r][c] \in Values
    BY <1>3 DEF Row
  <1>5. Len(table[g]) \in Nat
    BY <1>2
  <1>6. QED
    BY <1>4, <1>5 DEF Column

\* Pruning is sound: no value of a pruned chunk can match the options.
LEMMA PrunedHasNoMatch ==
    ASSUME NEW g \in 1 .. Len(table), NEW c \in 1 .. Len(RealSchema), NEW opts,
           Pruned(g, c, opts), NEW r \in 1 .. Len(table[g])
    PROVE  ~ MayMatch(table[g][r][c], opts)
  <1>1. WordBits[table[g][r][c]] \subseteq ChunkBits(g, c)
    BY DEF ChunkBits
  <1>2. QED
    BY <1>1 DEF Pruned, AllEmpty, MayMatch

\* The column the loop reads is a column of the file, and its options are
\* those that the wanted rows are judged by.
LEMMA NextColumn ==
    ASSUME TypeOK, Len(chunks) < Len(columns)
    PROVE  /\ Len(chunks) + 1 \in 1 .. Len(columns)
           /\ columns[Len(chunks) + 1] \in 1 .. Len(RealSchema)
  <1>1. columns \in Seq(1 .. Len(RealSchema))
    BY ScanAssumption DEF TypeOK
  <1>2. Len(chunks) \in Nat /\ Len(columns) \in Nat
    BY <1>1 DEF TypeOK
  <1>3. QED
    BY <1>1, <1>2

\* A dropped group has no row the query wants.
LEMMA DroppedHasNoWantedRow ==
    ASSUME TypeOK, Len(chunks) < Len(columns), rowGroup > 0, Dropped,
           NEW r \in 1 .. Len(table[rowGroup])
    PROVE  ~ Wanted(table[rowGroup][r])
  <1> DEFINE k == Len(chunks) + 1
             c == columns[k]
  <1>1. k \in 1 .. Len(columns) /\ c \in 1 .. Len(RealSchema)
    BY NextColumn
  <1>2. rowGroup \in 1 .. Len(table)
    BY DEF TypeOK
  <1>3. GetBatch(rowGroup, c, OptionsAt(k)) = <<>>
    BY DEF Dropped, NextChunk
  <1>4. Pruned(rowGroup, c, OptionsAt(k))
    <2>1. SUFFICES ASSUME ~ Pruned(rowGroup, c, OptionsAt(k))
                   PROVE  FALSE
      OBVIOUS
    <2>2. Column(rowGroup, c) = <<>>
      BY <1>3, <2>1 DEF GetBatch
    <2>3. Len(table[rowGroup]) = 0
      BY <2>2, <1>1, <1>2, ColumnType
    <2>4. QED
      BY <2>3
  <1>5. ~ MayMatch(table[rowGroup][r][c], OptionsAt(k))
    BY <1>1, <1>2, <1>4, PrunedHasNoMatch
  <1>6. QED
    BY <1>1, <1>5 DEF Wanted

\* A chunk that is not dropped is the whole column.
LEMMA KeptIsColumn ==
    ASSUME ~ Dropped
    PROVE  NextChunk = Column(rowGroup, columns[Len(chunks) + 1])
BY DEF Dropped, NextChunk, GetBatch, Pruned

-----------------------------------------------------------------------------
(* The inductive invariant.                                                *)

LEMMA InitIInv ==
    ASSUME Init PROVE IInv
  <1>1. PICK cols \in ColumnLists :
            \E opts \in {<<>>} \cup [1 .. Len(cols) -> Pushed \cup {NoOptions}] :
                ScanInit(cols, opts)
    BY DEF Init
  <1>2. /\ columns \in ColumnLists
        /\ options \in {<<>>} \cup [1 .. Len(columns) -> Pushed \cup {NoOptions}]
        /\ rowGroup = 0 /\ scanPc = "idle" /\ chunks = <<>> /\ ret = NoBatch
    BY <1>1 DEF ScanInit
  <1>3. table \in Tables /\ draining = TRUE /\ delivered = <<>>
    BY DEF Init
  <1>4. table \in Seq(Seq(Row)) /\ columns \in Seq(1 .. Len(RealSchema))
    BY <1>2, <1>3, ScanAssumption
  <1>5. Len(table) \in Nat /\ Len(columns) \in Nat
    BY <1>4
  <1>6. TypeOK
    BY <1>2, <1>3, <1>5 DEF TypeOK
  <1>7. InOrder /\ BatchIsGroup /\ EndIsEnd /\ CallInv
    BY <1>2, <1>3 DEF InOrder, BatchIsGroup, EndIsEnd, CallInv
  <1>8. NoWantedRowSkipped
    BY <1>2 DEF NoWantedRowSkipped
  <1>9. QED
    BY <1>6, <1>7, <1>8 DEF IInv

\* What opening a group does to the counters.
LEMMA OpenGroupSteps ==
    ASSUME TypeOK, OpenGroup, UNCHANGED <<table, columns>>
    PROVE  /\ rowGroup' \in 0 .. Len(table)
           /\ \/ scanPc' = "read" /\ rowGroup' = rowGroup + 1
              \/ scanPc' = "end" /\ rowGroup' = rowGroup /\ rowGroup = Len(table)
           /\ chunks' = <<>>
  <1>1. table \in Seq(Seq(Row))
    BY ScanAssumption DEF TypeOK
  <1>2. Len(table) \in Nat /\ rowGroup \in 0 .. Len(table)
    BY <1>1 DEF TypeOK
  <1>3. QED
    BY <1>2 DEF OpenGroup, NumRowGroups

\* Opening a group keeps the invariant when the group before it, if any, was
\* delivered or has no wanted row.
LEMMA OpenKeeps ==
    ASSUME IInv, OpenGroup, draining, UNCHANGED <<table, columns, options, ret>>,
           UNCHANGED <<draining, delivered>>,
           \A g \in 1 .. rowGroup : ~ WasDelivered(g) =>
               \A r \in 1 .. Len(table[g]) : ~ Wanted(table[g][r])
    PROVE  IInv'
  <1>0. TypeOK
    BY DEF IInv
  <1>1. /\ rowGroup' \in 0 .. Len(table)
        /\ \/ scanPc' = "read" /\ rowGroup' = rowGroup + 1
           \/ scanPc' = "end" /\ rowGroup' = rowGroup /\ rowGroup = Len(table)
        /\ chunks' = <<>>
    BY <1>0, OpenGroupSteps
  <1>2. rowGroup \in Nat /\ Len(delivered) \in Nat /\ Len(columns) \in Nat
    <2>1. columns \in Seq(1 .. Len(RealSchema)) /\ table \in Seq(Seq(Row))
      BY <1>0, ScanAssumption DEF TypeOK
    <2>2. QED
      BY <1>0, <2>1 DEF TypeOK
  <1>3. \A i \in 1 .. Len(delivered) : delivered[i] \in Nat
    BY <1>0 DEF TypeOK
  <1>4. TypeOK'
    BY <1>0, <1>1, <1>2 DEF TypeOK
  <1>5. InOrder'
    <2>1. InOrder
      BY DEF IInv
    <2>2. rowGroup \in Nat /\ rowGroup' \in Nat /\ rowGroup <= rowGroup'
      BY <1>1, <1>2
    <2>3. \A i \in 1 .. Len(delivered) : delivered[i] <= rowGroup'
      BY <1>3, <2>1, <2>2 DEF InOrder
    <2>4. QED
      BY <2>1, <2>3 DEF InOrder
  <1>6. NoWantedRowSkipped'
    <2>1. \A g : WasDelivered(g)' <=> WasDelivered(g)
      BY DEF WasDelivered
    <2>2. \A row : Wanted(row)' <=> Wanted(row)
      BY DEF Wanted, OptionsAt
    <2>3. \A g \in 1 .. rowGroup' : Passed(g)' => g \in 1 .. rowGroup
      BY <1>1, <1>2 DEF Passed
    <2>4. QED
      BY <2>1, <2>2, <2>3 DEF NoWantedRowSkipped
  <1>7. BatchIsGroup'
    <2>1. BatchIsGroup
      BY DEF IInv
    <2>2. QED
      BY <2>1 DEF BatchIsGroup, Project
  <1>8. EndIsEnd'
    BY DEF EndIsEnd
  <1>9. CallInv'
    <2>1. \A i \in 1 .. Len(delivered) : delivered[i] <= rowGroup
      BY DEF IInv, InOrder
    <2>2. QED
      BY <1>1, <1>2, <1>3, <2>1 DEF CallInv
  <1>10. QED
    BY <1>4, <1>5, <1>6, <1>7, <1>8, <1>9 DEF IInv

LEMMA AskKeeps ==
    ASSUME IInv, Ask PROVE IInv'
  <1>1. /\ draining /\ scanPc = "idle" /\ OpenGroup
        /\ UNCHANGED <<table, columns, options, ret>>
        /\ UNCHANGED <<draining, delivered>>
    BY DEF Ask, GetNext
  <1>2. rowGroup \in Nat
    BY DEF IInv, TypeOK
  <1>3. \A g \in 1 .. rowGroup : Passed(g)
    BY <1>1, <1>2 DEF Passed
  <1>4. QED
    BY <1>1, <1>3, OpenKeeps DEF IInv, NoWantedRowSkipped

LEMMA SkipKeeps ==
    ASSUME IInv, Skip PROVE IInv'
  <1>1. /\ scanPc = "read" /\ Len(chunks) < Len(columns) /\ Dropped /\ OpenGroup
        /\ UNCHANGED <<table, columns, options, ret>>
        /\ UNCHANGED <<draining, delivered>>
    BY DEF Skip, SkipGroup
  <1>2. TypeOK /\ draining /\ rowGroup > 0
    BY <1>1 DEF IInv, CallInv
  <1>3. rowGroup \in Nat
    BY <1>2 DEF TypeOK
  <1>4. \A r \in 1 .. Len(table[rowGroup]) : ~ Wanted(table[rowGroup][r])
    BY <1>1, <1>2, DroppedHasNoWantedRow
  <1>5. \A g \in 1 .. rowGroup : g # rowGroup => Passed(g)
    BY <1>3 DEF Passed
  <1>6. \A g \in 1 .. rowGroup : ~ WasDelivered(g) =>
            \A r \in 1 .. Len(table[g]) : ~ Wanted(table[g][r])
    BY <1>4, <1>5 DEF IInv, NoWantedRowSkipped
  <1>7. QED
    BY <1>1, <1>2, <1>6, OpenKeeps

LEMMA ReadKeeps ==
    ASSUME IInv, Read PROVE IInv'
  <1>1. /\ scanPc = "read" /\ Len(chunks) < Len(columns) /\ ~ Dropped
        /\ chunks' = Append(chunks, NextChunk)
        /\ UNCHANGED <<table, columns, options, rowGroup, scanPc, ret>>
        /\ UNCHANGED <<draining, delivered>>
    BY DEF Read, ReadColumn
  <1>2. TypeOK /\ rowGroup > 0
    BY <1>1 DEF IInv, CallInv
  <1>3. /\ Len(chunks) + 1 \in 1 .. Len(columns)
        /\ columns[Len(chunks) + 1] \in 1 .. Len(RealSchema)
    BY <1>1, <1>2, NextColumn
  <1>4. rowGroup \in 1 .. Len(table)
    BY <1>2 DEF TypeOK
  <1>5. NextChunk = Column(rowGroup, columns[Len(chunks) + 1])
    BY <1>1, KeptIsColumn
  <1>6. NextChunk \in Seq(Values)
    BY <1>2, <1>3, <1>4, <1>5, ColumnType
  <1>7. chunks \in Seq(Seq(Values))
    BY <1>2 DEF TypeOK
  <1>8. /\ chunks' \in Seq(Seq(Values))
        /\ Len(chunks') = Len(chunks) + 1
        /\ \A k \in 1 .. Len(chunks) : chunks'[k] = chunks[k]
        /\ chunks'[Len(chunks) + 1] = NextChunk
    BY <1>1, <1>6, <1>7
  <1>9. TypeOK'
    BY <1>1, <1>2, <1>3, <1>8 DEF TypeOK
  <1>10. InOrder' /\ EndIsEnd'
    BY <1>1 DEF IInv, InOrder, EndIsEnd
  <1>11. BatchIsGroup'
    <2>1. BatchIsGroup
      BY DEF IInv
    <2>2. QED
      BY <1>1, <2>1 DEF BatchIsGroup, Project
  <1>12. NoWantedRowSkipped'
    <2>1. NoWantedRowSkipped
      BY DEF IInv
    <2>2. QED
      BY <1>1, <2>1
      DEF NoWantedRowSkipped, Passed, WasDelivered, Wanted, OptionsAt
  <1>13. CallInv'
    <2>1. CallInv
      BY DEF IInv
    <2>2. \A k \in 1 .. Len(chunks') : chunks'[k] = Column(rowGroup, columns[k])
      <3>1. SUFFICES ASSUME NEW k \in 1 .. Len(chunks')
                     PROVE  chunks'[k] = Column(rowGroup, columns[k])
        OBVIOUS
      <3>2. Len(chunks) \in Nat
        BY <1>7
      <3>3. k \in 1 .. Len(chunks) \/ k = Len(chunks) + 1
        BY <1>8, <3>2
      <3>4. QED
        BY <1>1, <1>5, <1>8, <2>1, <3>3 DEF CallInv
    <2>3. \A k : Column(rowGroup, columns[k])' = Column(rowGroup, columns[k])
      BY <1>1 DEF Column
    <2>4. QED
      BY <1>1, <2>1, <2>2, <2>3 DEF CallInv
  <1>14. QED
    BY <1>9, <1>10, <1>11, <1>12, <1>13 DEF IInv

LEMMA DeliverKeeps ==
    ASSUME IInv, Deliver PROVE IInv'
  <1> DEFINE b == [cols |-> [k \in 1 .. Len(columns) |-> RealSchema[columns[k]]],
                   rows |-> [r \in 1 .. Len(chunks[1]) |->
                                [k \in 1 .. Len(columns) |-> chunks[k][r]]]]
  <1>1. /\ scanPc = "read" /\ Len(chunks) = Len(columns)
        /\ ret' = b
        /\ scanPc' = "idle"
        /\ delivered' = Append(delivered, rowGroup)
        /\ UNCHANGED <<table, columns, options, rowGroup, chunks, draining>>
    BY DEF Deliver, ReturnBatch
  <1>2. TypeOK /\ CallInv /\ rowGroup > 0
    BY <1>1 DEF IInv, CallInv
  <1>3. rowGroup \in 1 .. Len(table)
    BY <1>2 DEF TypeOK
  <1>4. /\ columns \in Seq(1 .. Len(RealSchema)) /\ columns # <<>>
        /\ Len(columns) \in Nat /\ Len(columns) > 0
        /\ \A k \in 1 .. Len(columns) : columns[k] \in 1 .. Len(RealSchema)
    <2>1. columns \in Seq(1 .. Len(RealSchema)) /\ columns # <<>>
      BY <1>2, ScanAssumption DEF TypeOK
    <2>2. QED
      BY <2>1
  <1>5. \A k \in 1 .. Len(columns) : chunks[k] = Column(rowGroup, columns[k])
    BY <1>1, <1>2 DEF CallInv
  <1>6. Len(table[rowGroup]) \in Nat
    <2>1. table \in Seq(Seq(Row))
      BY <1>2, ScanAssumption DEF TypeOK
    <2>2. QED
      BY <1>3, <2>1
  <1>7. /\ Len(chunks[1]) = Len(table[rowGroup])
        /\ \A k \in 1 .. Len(columns), r \in 1 .. Len(table[rowGroup]) :
               chunks[k][r] = table[rowGroup][r][columns[k]]
    <2>1. \A k \in 1 .. Len(columns) :
              /\ Len(Column(rowGroup, columns[k])) = Len(table[rowGroup])
              /\ \A r \in 1 .. Len(table[rowGroup]) :
                     Column(rowGroup, columns[k])[r] = table[rowGroup][r][columns[k]]
      BY <1>2, <1>3, <1>4, ColumnType
    <2>2. QED
      BY <1>4, <1>5, <2>1
  <1>8. b.rows = [r \in 1 .. Len(table[rowGroup]) |-> Project(table[rowGroup][r])]
    BY <1>7 DEF Project
  <1>9. ret' \in [cols : Seq(ColumnMetaData), rows : Seq(Seq(Values))]
    <2>1. \A k \in 1 .. Len(columns) : RealSchema[columns[k]] \in ColumnMetaData
      <3>1. \A s \in Seq(ColumnMetaData) : \A c \in 1 .. Len(s) : s[c] \in ColumnMetaData
        BY SeqElement
      <3>2. RealSchema \in Seq(ColumnMetaData)
        BY ScanAssumption
      <3>3. QED
        BY <1>4, <3>1, <3>2
    <2>2. b.cols \in Seq(ColumnMetaData)
      BY <1>4, <2>1
    <2>3. \A k \in 1 .. Len(columns), r \in 1 .. Len(table[rowGroup]) :
              chunks[k][r] \in Values
      <3>1. SUFFICES ASSUME NEW k \in 1 .. Len(columns),
                            NEW r \in 1 .. Len(table[rowGroup])
                     PROVE  chunks[k][r] \in Values
        OBVIOUS
      <3>2. Column(rowGroup, columns[k]) \in Seq(Values)
        BY <1>2, <1>3, <1>4, ColumnType
      <3>3. Len(Column(rowGroup, columns[k])) = Len(table[rowGroup])
        BY <1>2, <1>3, <1>4, ColumnType
      <3>4. QED
        BY <1>5, <3>2, <3>3
    <2>4. \A r \in 1 .. Len(chunks[1]) :
              [k \in 1 .. Len(columns) |-> chunks[k][r]] \in Seq(Values)
      BY <1>4, <1>7, <2>3
    <2>5. b.rows \in Seq(Seq(Values))
      BY <1>6, <1>7, <2>4
    <2>6. QED
      BY <1>1, <2>2, <2>5
  <1>10. delivered \in Seq(1 .. Len(table))
    BY <1>2 DEF TypeOK
  <1>11. /\ delivered' \in Seq(1 .. Len(table))
         /\ Len(delivered') = Len(delivered) + 1 /\ Len(delivered) \in Nat
         /\ \A i \in 1 .. Len(delivered) : delivered'[i] = delivered[i]
         /\ delivered'[Len(delivered) + 1] = rowGroup
    BY <1>1, <1>3, <1>10
  <1>12. TypeOK'
    BY <1>1, <1>2, <1>9, <1>11 DEF TypeOK
  <1>13. InOrder'
    <2>1. InOrder
      BY DEF IInv
    <2>2. \A i \in 1 .. Len(delivered) : delivered[i] < rowGroup
      BY <1>1, <1>2 DEF CallInv
    <2>3. \A i \in 1 .. Len(delivered') :
              i \in 1 .. Len(delivered) \/ i = Len(delivered) + 1
      BY <1>11
    <2>4. rowGroup' = rowGroup /\ rowGroup \in Nat
      BY <1>1, <1>3
    <2>5. \A i \in 1 .. Len(delivered') : delivered'[i] <= rowGroup
      BY <1>11, <2>1, <2>3, <2>4 DEF InOrder
    <2>6. ASSUME NEW i \in 1 .. Len(delivered'), NEW j \in 1 .. Len(delivered'), i < j
          PROVE  delivered'[i] < delivered'[j]
      <3>1. i \in 1 .. Len(delivered)
        BY <1>11, <2>6
      <3>2. CASE j \in 1 .. Len(delivered)
        BY <1>11, <2>1, <2>6, <3>1, <3>2 DEF InOrder
      <3>3. CASE j = Len(delivered) + 1
        BY <1>11, <2>2, <3>1, <3>3
      <3>4. QED
        BY <2>3, <3>2, <3>3
    <2>7. QED
      BY <2>4, <2>5, <2>6 DEF InOrder
  <1>14. NoWantedRowSkipped'
    <2>1. NoWantedRowSkipped
      BY DEF IInv
    <2>2. \A g : WasDelivered(g) => WasDelivered(g)'
      <3>1. SUFFICES ASSUME NEW g, WasDelivered(g) PROVE WasDelivered(g)'
        OBVIOUS
      <3>2. PICK i \in 1 .. Len(delivered) : delivered[i] = g
        BY <3>1 DEF WasDelivered
      <3>3. i \in 1 .. Len(delivered') /\ delivered'[i] = g
        BY <1>11, <3>2
      <3>4. QED
        BY <3>3 DEF WasDelivered
    <2>3. WasDelivered(rowGroup)'
      <3>1. Len(delivered) + 1 \in 1 .. Len(delivered') /\ rowGroup' = rowGroup
        BY <1>1, <1>11
      <3>2. QED
        BY <1>11, <3>1 DEF WasDelivered
    <2>4. \A row : Wanted(row)' <=> Wanted(row)
      BY <1>1 DEF Wanted, OptionsAt
    <2>5. \A g \in 1 .. rowGroup : g # rowGroup => Passed(g)
      BY <1>3 DEF Passed
    <2>6. QED
      BY <1>1, <2>1, <2>2, <2>3, <2>4, <2>5 DEF NoWantedRowSkipped
  <1>15. BatchIsGroup'
    <2>1. /\ Len(delivered') = Len(delivered) + 1
          /\ delivered'[Len(delivered')] = rowGroup
          /\ delivered' # <<>>
      BY <1>11
    <2>2. \A row : Project(row)' = Project(row)
      BY <1>1 DEF Project
    <2>3. ret'.rows = [r \in 1 .. Len(table[rowGroup]) |-> Project(table[rowGroup][r])]
      BY <1>1, <1>8
    <2>4. QED
      BY <1>1, <2>1, <2>2, <2>3 DEF BatchIsGroup
  <1>16. EndIsEnd' /\ CallInv'
    BY <1>1, <1>2 DEF EndIsEnd, CallInv
  <1>17. QED
    BY <1>12, <1>13, <1>14, <1>15, <1>16 DEF IInv

LEMMA EndKeeps ==
    ASSUME IInv, End PROVE IInv'
  <1>1. /\ scanPc = "end" /\ scanPc' = "idle" /\ ret' = NoBatch /\ draining' = FALSE
        /\ UNCHANGED <<table, columns, options, rowGroup, chunks, delivered>>
    BY DEF End, ReturnNone
  <1>2. rowGroup = Len(table)
    BY <1>1 DEF IInv, CallInv
  <1>3. TypeOK' /\ InOrder' /\ BatchIsGroup'
    BY <1>1 DEF IInv, TypeOK, InOrder, BatchIsGroup
  <1>4. NoWantedRowSkipped'
    BY <1>1 DEF IInv, NoWantedRowSkipped, Passed, WasDelivered, Wanted, OptionsAt
  <1>5. EndIsEnd' /\ CallInv'
    BY <1>1, <1>2 DEF EndIsEnd, CallInv
  <1>6. QED
    BY <1>3, <1>4, <1>5 DEF IInv

LEMMA StutterKeeps ==
    ASSUME IInv, UNCHANGED vars PROVE IInv'
BY DEF IInv, TypeOK, InOrder, NoWantedRowSkipped, Passed, WasDelivered, Wanted,
       OptionsAt, BatchIsGroup, Project, EndIsEnd, CallInv, Column, vars, scanVars

-----------------------------------------------------------------------------
(* The theorems.                                                           *)

\* No step of a drained scan leaves IInv: a call always finds the reader
\* where the last one left it.
THEOREM Inductive == Spec => []IInv
  <1>1. Init => IInv
    BY InitIInv
  <1>2. IInv /\ [Next]_vars => IInv'
    <2>1. SUFFICES ASSUME IInv, [Next]_vars PROVE IInv'
      OBVIOUS
    <2>2. CASE Ask
      BY <2>1, <2>2, AskKeeps
    <2>3. CASE Read
      BY <2>1, <2>3, ReadKeeps
    <2>4. CASE Skip
      BY <2>1, <2>4, SkipKeeps
    <2>5. CASE Deliver
      BY <2>1, <2>5, DeliverKeeps
    <2>6. CASE End
      BY <2>1, <2>6, EndKeeps
    <2>7. CASE UNCHANGED vars
      BY <2>1, <2>7, StutterKeeps
    <2>8. QED
      BY <2>1, <2>2, <2>3, <2>4, <2>5, <2>6, <2>7 DEF Next
  <1>3. QED
    BY <1>1, <1>2, PTL DEF Spec

\* The scan's fields keep their types.
THEOREM ScanTypeCorrect == Spec => []TypeOK
BY Inductive, PTL DEF IInv

\* Row groups are delivered in file order and at most once.
THEOREM AlwaysInOrder == Spec => []InOrder
BY Inductive, PTL DEF IInv

\* Bloom filter and empty-chunk pruning lose no row that the pushed
\* predicates accept.
THEOREM PruningSound == Spec => []NoWantedRowSkipped
BY Inductive, PTL DEF IInv

\* Every batch is one whole row group, projected on the columns asked for.
THEOREM BatchesWhole == Spec => []BatchIsGroup
BY Inductive, PTL DEF IInv

\* A scan that has said nullopt has passed every group.
THEOREM EndIsReached == Spec => []EndIsEnd
BY Inductive, PTL DEF IInv
=============================================================================
