-------------------------- MODULE Int64CodecProofs --------------------------
(* Proofs about Int64Codec.                                                *)
EXTENDS Int64Codec, WellFoundedInduction, SequenceTheorems, FiniteSetTheorems, TLAPS

-----------------------------------------------------------------------------
(* Arithmetic of blocks and of words                                       *)

\* A number below the modulus is its own remainder.
LEMMA SmallMod ==
    ASSUME NEW m \in Nat \ {0}, NEW x \in 0 .. m - 1
    PROVE  x % m = x
  OBVIOUS

LEMMA PositiveBlock == BlockSize \in Nat /\ BlockSize > 0
  BY WidthsAssumption

\* BlockOf(r) is the block whose rows surround r.
LEMMA BlockBounds ==
    ASSUME NEW r \in Nat
    PROVE  /\ BlockOf(r) \in Nat
           /\ BlockStart(BlockOf(r)) <= r
           /\ r < BlockStart(BlockOf(r)) + BlockSize
  BY WidthsAssumption DEF BlockOf, BlockStart

LEMMA StartsGrow ==
    ASSUME NEW a \in Nat, NEW b \in Nat
    PROVE  /\ BlockStart(a) \in Nat
           /\ BlockStart(a + 1) = BlockStart(a) + BlockSize
           /\ BlockStart(0) = 0
           /\ a < b => BlockStart(a) + BlockSize <= BlockStart(b)
  BY WidthsAssumption DEF BlockStart

LEMMA BlockUnique ==
    ASSUME NEW r \in Nat, NEW b \in Nat,
           BlockStart(b) <= r, r < BlockStart(b) + BlockSize
    PROVE  BlockOf(r) = b
  <1>1. /\ BlockOf(r) \in Nat
        /\ BlockStart(BlockOf(r)) <= r /\ r < BlockStart(BlockOf(r)) + BlockSize
    BY BlockBounds
  <1>2. /\ BlockStart(BlockOf(r)) \in Nat /\ BlockStart(b) \in Nat
        /\ BlockOf(r) < b => BlockStart(BlockOf(r)) + BlockSize <= BlockStart(b)
        /\ b < BlockOf(r) => BlockStart(b) + BlockSize <= BlockStart(BlockOf(r))
    BY <1>1, StartsGrow
  <1> QED
    BY <1>1, <1>2, PositiveBlock

LEMMA FirstOfBlock ==
    ASSUME NEW r \in Nat
    PROVE  r % BlockSize = 0 <=> r = BlockStart(BlockOf(r))
  BY WidthsAssumption DEF BlockOf, BlockStart

\* The number of blocks of a chunk that WriteType can store.
LEMMA BlockCount ==
    ASSUME NEW n \in Nat, n <= BlockSize * (CountSpan - 1)
    PROVE  /\ Blocks(n) \in Nat
           /\ n <= BlockStart(Blocks(n))
           /\ \A b \in Nat : b < Blocks(n) => BlockStart(b) < n
  <1> DEFINE q == (n + BlockSize - 1) \div BlockSize
  <1>1. /\ q \in Nat
        /\ q * BlockSize <= n + BlockSize - 1
        /\ n + BlockSize - 1 < q * BlockSize + BlockSize
    BY WidthsAssumption
  <1>2. q < CountSpan
    <2>1. SUFFICES ASSUME q >= CountSpan PROVE FALSE
      BY <1>1, WidthsAssumption
    <2>2. q * BlockSize >= CountSpan * BlockSize
      BY <1>1, <2>1, WidthsAssumption
    <2>3. BlockSize * (CountSpan - 1) = CountSpan * BlockSize - BlockSize
      BY WidthsAssumption
    <2> QED
      BY <1>1, <2>2, <2>3, WidthsAssumption
  <1>3. Blocks(n) = q
    <2>1. CountSpan \in Nat \ {0} /\ q \in 0 .. CountSpan - 1
      BY <1>1, <1>2, WidthsAssumption
    <2>2. q % CountSpan = q
      BY <2>1, SmallMod
    <2> QED
      BY <2>2 DEF Blocks
  <1>4. n <= BlockStart(q)
    BY <1>1, WidthsAssumption DEF BlockStart
  <1>5. ASSUME NEW b \in Nat, b < q PROVE BlockStart(b) < n
    <2>1. BlockStart(b) + BlockSize <= BlockStart(q)
      BY <1>1, <1>5, StartsGrow
    <2> QED
      BY <1>1, <2>1, WidthsAssumption DEF BlockStart
  <1> QED
    BY <1>1, <1>3, <1>4, <1>5

\* Every row lies in a block, and the last row in the last one.
LEMMA RowsInBlocks ==
    ASSUME NEW n \in Nat, n <= BlockSize * (CountSpan - 1)
    PROVE  /\ \A r \in 0 .. n - 1 : BlockOf(r) \in 0 .. Blocks(n) - 1
           /\ n > 0 => Blocks(n) > 0 /\ BlockOf(n - 1) = Blocks(n) - 1
  <1>1. /\ Blocks(n) \in Nat
        /\ n <= BlockStart(Blocks(n))
        /\ \A b \in Nat : b < Blocks(n) => BlockStart(b) < n
    BY BlockCount
  <1>2. ASSUME NEW r \in 0 .. n - 1 PROVE BlockOf(r) \in 0 .. Blocks(n) - 1
    <2>1. BlockOf(r) \in Nat /\ BlockStart(BlockOf(r)) <= r
      BY BlockBounds
    <2>2. /\ BlockStart(BlockOf(r)) \in Nat /\ BlockStart(Blocks(n)) \in Nat
          /\ Blocks(n) < BlockOf(r) =>
                 BlockStart(Blocks(n)) + BlockSize <= BlockStart(BlockOf(r))
      BY <1>1, <2>1, StartsGrow
    <2>3. BlockOf(r) # Blocks(n)
      BY <1>1, <2>1, <2>2
    <2> QED
      BY <1>1, <2>1, <2>2, <2>3, PositiveBlock
  <1>3. ASSUME n > 0 PROVE Blocks(n) > 0 /\ BlockOf(n - 1) = Blocks(n) - 1
    <2>1. BlockStart(0) = 0
      BY StartsGrow
    <2>2. Blocks(n) > 0
      BY <1>1, <1>3, <2>1
    <2>3. /\ BlockStart(Blocks(n) - 1) \in Nat
          /\ BlockStart(Blocks(n)) = BlockStart(Blocks(n) - 1) + BlockSize
      <3>1. Blocks(n) - 1 \in Nat /\ (Blocks(n) - 1) + 1 = Blocks(n)
        BY <1>1, <2>2
      <3> QED
        BY <3>1, StartsGrow
    <2>4. BlockStart(Blocks(n) - 1) < n
      BY <1>1, <2>2
    <2>5. BlockOf(n - 1) = Blocks(n) - 1
      BY <1>1, <1>3, <2>2, <2>3, <2>4, BlockUnique, PositiveBlock
    <2> QED
      BY <2>2, <2>5
  <1> QED
    BY <1>2, <1>3

\* A set of natural numbers has a least element.
LEMMA LeastNat ==
    ASSUME NEW S \in SUBSET Nat, S # {}
    PROVE  \E n \in S : \A k \in S : n <= k
  <1> DEFINE R == {ss \in Nat \X Nat : ss[1] < ss[2]}
  <1>1. IsWellFoundedOn(R, Nat)
    BY NatLessThanWellFounded DEF OpToRel
  <1>2. PICK n \in S : \A k \in S : ~ (<<k, n>> \in R)
    BY <1>1, WFMin
  <1>3. ASSUME NEW k \in S PROVE n <= k
    <2>1. k \in Nat /\ n \in Nat
      OBVIOUS
    <2>2. k < n => <<k, n>> \in R
      BY <2>1
    <2> QED
      BY <1>2, <2>1, <2>2
  <1> QED
    BY <1>3

\* sz is a number of bytes that holds the delta it was computed from.
LEMMA BytesHold ==
    ASSUME NEW delta \in 0 .. Span - 1
    PROVE  BytesFor(delta) \in 1 .. WordBytes /\ delta < Capacity[BytesFor(delta)]
  <1> DEFINE S == {n \in 1 .. WordBytes : delta < Capacity[n]}
  <1>1. S \in SUBSET Nat /\ S # {}
    BY WidthsAssumption DEF Span
  <1> HIDE DEF S
  <1>2. PICK n \in S : \A k \in S : n <= k
    BY <1>1, LeastNat
  <1> QED
    BY <1>2 DEF BytesFor, S

\* The difference of two words of which one is not above the other, taken
\* without a sign, is the difference; adding it back gives the word.
LEMMA DifferenceFits ==
    ASSUME NEW v \in Int64, NEW m \in Int64, m <= v
    PROVE  /\ v - m \in 0 .. Span - 1
           /\ (v - m) % Span = v - m
           /\ Decode(v - m, m) = v
  <1>1. Half \in Nat /\ Half > 0 /\ Span \in Nat \ {0}
    BY WidthsAssumption DEF Span
  <1>2. v - m \in 0 .. Span - 1
    BY <1>1 DEF Int64, Span
  <1>3. (v - m) % Span = v - m
    BY <1>1, <1>2, SmallMod
  <1>4. v + Half \in 0 .. Span - 1
    BY <1>1 DEF Int64, Span
  <1>5. (v - m) + m + Half = v + Half
    BY <1>1 DEF Int64
  <1>6. (v + Half) % Span = v + Half
    BY <1>1, <1>4, SmallMod
  <1> QED
    BY <1>1, <1>2, <1>3, <1>5, <1>6 DEF Decode, Int64

LEMMA DecodeType ==
    ASSUME NEW x \in Int, NEW m \in Int
    PROVE  Decode(x, m) \in Int64
  BY WidthsAssumption DEF Decode, Int64, Span

-----------------------------------------------------------------------------
(* The state                                                               *)

\* What the invariant says of the chunk to store and its blocks.
LEMMA DataFacts ==
    ASSUME IInv
    PROVE  /\ data \in Seq(Int64) /\ N \in Nat /\ Int64 \subseteq Int
           /\ Blocks(N) \in Nat
           /\ \A r \in 0 .. N - 1 : /\ data[r + 1] \in Int64
                                    /\ BlockOf(r) \in 0 .. Blocks(N) - 1
           /\ N > 0 => Blocks(N) > 0 /\ BlockOf(N - 1) = Blocks(N) - 1
           /\ N <= BlockStart(Blocks(N))
           /\ \A b \in Nat : b < Blocks(N) => BlockStart(b) < N
  <1>1. data \in Seq(Int64) /\ N \in Nat /\ N <= BlockSize * (CountSpan - 1)
    BY DEF IInv, TypeOK, MeasureInv, Storable, N
  <1>2. \A r \in 0 .. N - 1 : data[r + 1] \in Int64
    BY <1>1 DEF N
  <1>3. Int64 \subseteq Int
    BY WidthsAssumption DEF Int64
  <1> QED
    BY <1>1, <1>2, <1>3, BlockCount, RowsInBlocks

LEMMA StartInv == Storable(data) /\ pc = "start" /\ CodecInit => IInv
  <1> SUFFICES ASSUME Storable(data), pc = "start", CodecInit PROVE IInv
    OBVIOUS
  <1> USE DEF CodecInit
  <1>1. data \in Seq(Int64) /\ Len(data) \in Nat
    BY DEF Storable
  <1>2. Span \in Nat /\ Span > 0 /\ MaxRun \in Nat
    BY WidthsAssumption DEF Span
  <1>3. TypeOK
    BY <1>1, <1>2 DEF TypeOK, Pcs
  <1>4. MeasureInv
    BY FS_EmptySet DEF MeasureInv
  <1>5. HeadInv /\ ItemInv /\ ChainInv /\ RunInv
    BY DEF HeadInv, ItemInv, ChainInv, RunInv, Written
  <1>6. ReadInv
    BY DEF ReadInv, Reading
  <1> QED
    BY <1>3, <1>4, <1>5, <1>6 DEF IInv

LEMMA InitInv == Init => IInv
  BY StartInv, InputsAssumption DEF Init

-----------------------------------------------------------------------------
(* Measuring                                                               *)

\* As long as nothing is written, only TypeOK and MeasureInv say anything.
LEMMA NotWritten ==
    ASSUME IInv, ~ Written, ~ Written', UNCHANGED readVars
    PROVE  HeadInv' /\ ItemInv' /\ ChainInv' /\ RunInv' /\ ReadInv'
  <1>1. HeadInv' /\ ItemInv' /\ ChainInv' /\ RunInv'
    BY DEF HeadInv, ItemInv, ChainInv, RunInv, Written
  <1>2. ReadInv'
    BY DEF IInv, ReadInv, Reading, Written, readVars
  <1> QED
    BY <1>1, <1>2

LEMMA AllocateStep == ASSUME IInv, Allocate PROVE IInv'
  <1> USE DEF Allocate, readVars
  <1>1. 0 \in Int64 /\ Blocks(N) \in Nat
    BY WidthsAssumption, DataFacts DEF Int64
  <1>2. TypeOK'
    BY DEF IInv, TypeOK, Pcs
  <1>3. MeasureInv'
    BY <1>1 DEF IInv, MeasureInv, Bounded, N
  <1> QED
    BY <1>2, <1>3, NotWritten DEF IInv, Written

LEMMA MeasureStep == ASSUME IInv, Measure PROVE IInv'
  <1> USE DEF Measure, readVars
  <1> DEFINE b == BlockOf(i)
             v == data[i + 1]
  <1>1. /\ i \in 0 .. N - 1 /\ N \in Nat
        /\ v \in Int64 /\ b \in 0 .. Blocks(N) - 1
        /\ Int64 \subseteq Int
    BY DataFacts DEF IInv, TypeOK, N
  <1>2. /\ min_val \in [0 .. Blocks(N) - 1 -> Int64]
        /\ max_val \in [0 .. Blocks(N) - 1 -> Int64]
    BY DEF IInv, MeasureInv
  <1>3. Lowest(b, i, v) \in Int64 /\ Highest(b, i, v) \in Int64
    BY <1>1, <1>2 DEF Lowest, Highest
  <1>4. /\ min_val' = [min_val EXCEPT ![b] = Lowest(b, i, v)]
        /\ max_val' = [max_val EXCEPT ![b] = Highest(b, i, v)]
    OBVIOUS
  <1>5. /\ min_val' \in [0 .. Blocks(N) - 1 -> Int64]
        /\ max_val' \in [0 .. Blocks(N) - 1 -> Int64]
    BY <1>1, <1>2, <1>3, <1>4
  <1>6. TypeOK'
    <2>1. i' \in 0 .. Len(data)
      BY <1>1 DEF N
    <2>2. unique' = unique \cup {v} /\ unique \subseteq Int64
      BY DEF IInv, TypeOK
    <2>3. unique' \subseteq Int64
      BY <1>1, <2>2
    <2> QED
      BY <2>1, <2>3 DEF IInv, TypeOK, Pcs
  <1>7. ASSUME NEW r \in 0 .. i
        PROVE  /\ min_val'[BlockOf(r)] <= data[r + 1]
               /\ data[r + 1] <= max_val'[BlockOf(r)]
    <2>1. /\ r \in 0 .. N - 1 /\ data[r + 1] \in Int64
          /\ BlockOf(r) \in 0 .. Blocks(N) - 1
      BY <1>1, DataFacts
    <2>2. CASE r = i
      <3>1. /\ min_val'[b] = Lowest(b, i, v)
            /\ max_val'[b] = Highest(b, i, v)
        BY <1>1, <1>2, <1>4
      <3>2. min_val[b] \in Int /\ max_val[b] \in Int /\ v \in Int
        BY <1>1, <1>2
      <3>3. Lowest(b, i, v) <= v /\ v <= Highest(b, i, v)
        BY <3>2 DEF Lowest, Highest
      <3> QED
        BY <2>2, <3>1, <3>3
    <2>3. CASE r < i /\ BlockOf(r) # b
      BY <1>1, <1>2, <1>4, <2>1, <2>3 DEF IInv, MeasureInv, Bounded
    <2>4. CASE r < i /\ BlockOf(r) = b
      <3>1. i % BlockSize # 0
        BY <1>1, <2>1, <2>4, BlockBounds, FirstOfBlock
      <3>2. /\ min_val[b] <= data[r + 1]
            /\ data[r + 1] <= max_val[b]
        BY <1>1, <2>4 DEF IInv, MeasureInv, Bounded
      <3>3. /\ min_val'[b] = IF min_val[b] > v THEN v ELSE min_val[b]
            /\ max_val'[b] = IF max_val[b] < v THEN v ELSE max_val[b]
        BY <1>1, <1>2, <1>4, <3>1 DEF Lowest, Highest
      <3>4. min_val[b] \in Int /\ max_val[b] \in Int /\ v \in Int /\ data[r + 1] \in Int
        BY <1>1, <1>2, <2>1
      <3>5. min_val'[b] <= data[r + 1] /\ data[r + 1] <= max_val'[b]
        BY <3>2, <3>3, <3>4
      <3> QED
        BY <2>4, <3>5
    <2> QED
      BY <1>1, <2>2, <2>3, <2>4
  <1>8. IsFiniteSet(unique') /\ N > 0
    BY <1>1, FS_AddElement DEF IInv, MeasureInv
  <1>9. MeasureInv'
    <2>1. Bounded(i)'
      BY <1>1, <1>7 DEF Bounded
    <2> QED
      BY <1>1, <1>5, <1>8, <2>1 DEF IInv, MeasureInv, N
  <1> QED
    BY <1>6, <1>9, NotWritten DEF IInv, Written

LEMMA MeasureDoneStep == ASSUME IInv, MeasureDone PROVE IInv'
  <1> USE DEF MeasureDone, readVars
  <1>1. i = N /\ N \in Nat
    BY DataFacts DEF IInv, TypeOK, N
  <1>2. TypeOK'
    BY <1>1 DEF IInv, TypeOK, Pcs, N
  <1>3. MeasureInv'
    BY <1>1 DEF IInv, MeasureInv, Bounded, N
  <1> QED
    BY <1>2, <1>3, NotWritten DEF IInv, Written

LEMMA WriteHeadStep == ASSUME IInv, WriteHead PROVE IInv'
  <1> USE DEF WriteHead, readVars
  <1> DEFINE delta(b) == (max_val[b] - min_val[b]) % Span
  <1>1. /\ N \in Nat /\ Blocks(N) \in Nat /\ Int64 \subseteq Int
        /\ min_val \in [0 .. Blocks(N) - 1 -> Int64]
        /\ max_val \in [0 .. Blocks(N) - 1 -> Int64]
        /\ Bounded(N) /\ i = 0 /\ cnt = 0 /\ body = <<>>
        /\ Len(body) = 0
    BY DataFacts DEF IInv, MeasureInv
  <1>2. Span \in Nat \ {0}
    BY WidthsAssumption DEF Span
  <1>3. ASSUME NEW b \in 0 .. Blocks(N) - 1
        PROVE  /\ BytesFor(delta(b)) \in 1 .. WordBytes
               /\ delta(b) < Capacity[BytesFor(delta(b))]
    <2>1. max_val[b] \in Int /\ min_val[b] \in Int
      BY <1>1
    <2>2. delta(b) \in 0 .. Span - 1
      BY <1>2, <2>1
    <2> QED
      BY <2>2, BytesHold
  <1>4. head' = [rle |-> Cardinality(unique) * RleDecision < Len(data),
                 n_values |-> N, blocks |-> Blocks(N), min |-> min_val,
                 sz |-> [b \in 0 .. Blocks(N) - 1 |-> BytesFor(delta(b))]]
    BY <1>1 DEF N
  <1> HIDE DEF WriteHead
  <1>5. head'.sz \in [0 .. Blocks(N) - 1 -> 1 .. WordBytes]
    BY <1>3, <1>4
  <1>6. ASSUME NEW r \in 0 .. N - 1
        PROVE  Norm(r) < Capacity[head'.sz[BlockOf(r)]]
    <2> DEFINE b == BlockOf(r)
    <2>1. b \in 0 .. Blocks(N) - 1 /\ data[r + 1] \in Int64
      BY DataFacts
    <2>2. min_val[b] <= data[r + 1] /\ data[r + 1] <= max_val[b]
      BY <1>1 DEF Bounded
    <2>3. min_val[b] \in Int64 /\ max_val[b] \in Int64 /\ min_val[b] <= max_val[b]
      BY <1>1, <2>1, <2>2
    <2>4. delta(b) = max_val[b] - min_val[b]
      BY <2>3, DifferenceFits
    <2>5. head'.sz[b] = BytesFor(delta(b))
      BY <1>4, <2>1
    <2>6. /\ BytesFor(delta(b)) \in 1 .. WordBytes
          /\ delta(b) < Capacity[BytesFor(delta(b))]
      BY <1>3, <2>1
    <2>7. Capacity[BytesFor(delta(b))] \in Nat
      BY <2>6, WidthsAssumption
    <2>8. Norm(r) = data[r + 1] - min_val[b]
      BY DEF Norm
    <2>9. data[r + 1] \in Int /\ min_val[b] \in Int /\ max_val[b] \in Int
      BY <1>1, <2>1, <2>3
    <2>10. Norm(r) <= delta(b) /\ Norm(r) \in Int /\ delta(b) \in Int
      BY <2>2, <2>4, <2>8, <2>9
    <2> HIDE DEF delta, b
    <2> QED
      BY <2>5, <2>6, <2>7, <2>10 DEF b
  <1>7. head'.rle \in BOOLEAN /\ (head'.rle => N > 0)
    <2>1. N = 0 => Cardinality(unique) = 0
      BY FS_EmptySet DEF IInv, MeasureInv
    <2>2. Cardinality(unique) \in Nat /\ RleDecision \in Nat
      BY FS_CardinalityType, WidthsAssumption DEF IInv, MeasureInv
    <2>3. head'.rle \in BOOLEAN
      BY <1>4
    <2>4. head'.rle => Cardinality(unique) * RleDecision < N
      BY <1>4 DEF N
    <2>5. N = 0 => ~ (Cardinality(unique) * RleDecision < N)
      BY <2>1, <2>2
    <2> QED
      BY <1>1, <2>3, <2>4, <2>5
  <1>8. /\ UNCHANGED <<data, i, min_val, max_val, unique, cnt, val_last, body, readVars>>
        /\ pc = "head" /\ pc' = IF head'.rle THEN "runs" ELSE "plain"
        /\ result' = HeadBytes(Blocks(N))
    BY DEF WriteHead, N
  <1>9. TypeOK'
    <2>1. HeadBytes(Blocks(N)) \in Nat
      BY <1>1 DEF HeadBytes
    <2> QED
      BY <1>8, <2>1 DEF IInv, TypeOK, Pcs
  <1>10. MeasureInv'
    BY <1>1, <1>8 DEF IInv, MeasureInv, Bounded, N
  <1>11. HeadInv'
    BY <1>1, <1>4, <1>5, <1>6, <1>7, <1>8 DEF HeadInv, N, Norm
  <1>12. ItemInv'
    BY <1>1, <1>8 DEF ItemInv
  <1>13. ChainInv'
    BY <1>1, <1>8 DEF ChainInv, FirstOf, AtOf, Stored, N
  <1>14. RunInv'
    BY <1>1, <1>7, <1>8 DEF RunInv, N
  <1>15. ReadInv'
    BY <1>8 DEF IInv, ReadInv, Reading
  <1> QED
    BY <1>9, <1>10, <1>11, <1>12, <1>13, <1>14, <1>15 DEF IInv

-----------------------------------------------------------------------------
(* Writing                                                                 *)

\* What every step of the writing loops leaves alone.
Kept == UNCHANGED <<data, min_val, max_val, unique, head, readVars>>

\* The difference of a row is what its block's bytes hold.
LEMMA RowFacts ==
    ASSUME IInv, Written, NEW r \in 0 .. N - 1
    PROVE  /\ BlockOf(r) \in 0 .. Blocks(N) - 1
           /\ Norm(r) \in 0 .. Span - 1
           /\ ValNorm(r) = Norm(r)
           /\ head.sz[BlockOf(r)] \in 1 .. WordBytes
           /\ Norm(r) % Capacity[head.sz[BlockOf(r)]] = Norm(r)
           /\ Decode(Norm(r), head.min[BlockOf(r)]) = data[r + 1]
  <1> DEFINE b == BlockOf(r)
             v == data[r + 1]
             m == min_val[b]
  <1>1. b \in 0 .. Blocks(N) - 1 /\ v \in Int64
    BY DataFacts
  <1>2. /\ min_val \in [0 .. Blocks(N) - 1 -> Int64] /\ m <= v
        /\ head.min = min_val
    BY DEF IInv, MeasureInv, HeadInv, Written, Bounded
  <1>3. m \in Int64
    BY <1>1, <1>2
  <1>4. Norm(r) = v - m /\ ValNorm(r) = (v - m) % Span
    BY DEF Norm, ValNorm
  <1>5. v - m \in 0 .. Span - 1 /\ (v - m) % Span = v - m /\ Decode(v - m, m) = v
    BY <1>1, <1>2, <1>3, DifferenceFits
  <1>6. head.sz[b] \in 1 .. WordBytes /\ Norm(r) < Capacity[head.sz[b]]
    BY <1>1 DEF IInv, HeadInv
  <1>7. Capacity[head.sz[b]] \in Nat \ {0}
    BY <1>6, WidthsAssumption
  <1>8. Span \in Nat
    BY WidthsAssumption DEF Span
  <1>9. Norm(r) % Capacity[head.sz[b]] = Norm(r)
    BY <1>4, <1>5, <1>6, <1>7, <1>8, SmallMod
  <1> QED
    BY <1>1, <1>2, <1>4, <1>5, <1>6, <1>9

\* An item written at the end: rows `first` to `first + n - 1`, of one block
\* and of one difference.
LEMMA WriteStep ==
    ASSUME IInv, pc \in {"runs", "plain"}, Kept,
           NEW f \in Nat, NEW n \in 1 .. MaxRun, NEW val, NEW size,
           f = Stored, f + n <= N, Stored' = f + n,
           size = head.sz[BlockOf(f)],
           \A r \in f .. f + n - 1 : BlockOf(r) = BlockOf(f) /\ val = Norm(r),
           ~ head.rle => n = 1,
           Write(f, n, size, val), Written'
    PROVE  /\ body' \in Seq(Items) /\ result' \in Nat /\ pos' \in 0 .. Len(body')
           /\ ItemInv' /\ ChainInv'
  <1> DEFINE it == [first |-> f, at |-> result, n |-> n, size |-> size,
                    val |-> val % Capacity[size]]
  <1>1. /\ body \in Seq(Items) /\ Len(body) \in Nat /\ result \in Nat
        /\ pos \in 0 .. Len(body)
    BY DEF IInv, TypeOK
  <1>2. Written /\ N \in Nat /\ MaxRun \in Nat /\ WordBytes \in Nat
    BY DataFacts, WidthsAssumption DEF Written
  <1>3. f \in 0 .. N - 1 /\ f \in f .. f + n - 1
    BY <1>2
  <1>4. /\ val = Norm(f) /\ val \in 0 .. Span - 1
        /\ size \in 1 .. WordBytes /\ val % Capacity[size] = val
    BY <1>2, <1>3, RowFacts
  <1>5. it \in Items /\ it.val = val
    BY <1>1, <1>2, <1>4 DEF Items
  <1>6. /\ body' = Append(body, it)
        /\ result' = result + CountBytes + size
    BY DEF Write
  <1>7. /\ body' \in Seq(Items) /\ Len(body') = Len(body) + 1
        /\ \A k \in 1 .. Len(body) : body'[k] = body[k]
        /\ body'[Len(body) + 1] = it
    BY <1>1, <1>5, <1>6
  <1>8. CountBytes \in {0, 1} /\ CountBytes' = CountBytes
    BY DEF CountBytes, Kept
  <1>9. result' \in Nat
    BY <1>1, <1>2, <1>4, <1>6, <1>8
  <1>10. /\ N' = N /\ head' = head
         /\ \A r \in 0 .. N - 1 : Norm(r)' = Norm(r)
    BY DEF Kept, N, Norm
  <1> HIDE DEF it
  <1>11. ItemInv'
    <2> SUFFICES ASSUME NEW k \in 1 .. Len(body')
                 PROVE  /\ body'[k].first + body'[k].n <= N
                        /\ body'[k].size = head.sz[BlockOf(body'[k].first)]
                        /\ ~ head.rle => body'[k].first = k - 1 /\ body'[k].n = 1
                        /\ \A r \in body'[k].first .. body'[k].first + body'[k].n - 1 :
                               /\ BlockOf(r) = BlockOf(body'[k].first)
                               /\ body'[k].val = data'[r + 1] - min_val'[BlockOf(r)]
      BY <1>10 DEF ItemInv, Norm
    <2>1. CASE k \in 1 .. Len(body)
      BY <1>2, <1>7, <2>1 DEF IInv, ItemInv, Kept, Norm
    <2>2. CASE k = Len(body) + 1
      <3>1. /\ body'[k].first = f /\ body'[k].n = n
            /\ body'[k].size = size /\ body'[k].val = val
        BY <1>5, <1>7, <2>2 DEF it
      <3>2. ~ head.rle => Len(body) = f
        BY <1>2 DEF IInv, ChainInv
      <3>3. \A r \in f .. f + n - 1 : val = data'[r + 1] - min_val'[BlockOf(r)]
        BY DEF Norm, Kept
      <3> QED
        BY <1>1, <2>2, <3>1, <3>2, <3>3
    <2> QED
      BY <1>1, <1>7, <2>1, <2>2
  <1>12. ChainInv'
    <2>1. /\ FirstOf(1) = 0 /\ AtOf(1) = HeadBytes(Blocks(N))
          /\ ~ head.rle => Len(body) = Stored
          /\ \A k \in 1 .. Len(body) :
                 /\ FirstOf(k + 1) = body[k].first + body[k].n
                 /\ AtOf(k + 1) = body[k].at + CountBytes + body[k].size
      BY <1>2 DEF IInv, ChainInv
    <2>2. /\ it.first = f /\ it.n = n /\ it.at = result /\ it.size = size
      BY DEF it
    <2>3. ASSUME NEW k \in 1 .. Len(body) + 1
          PROVE  /\ body'[k].first = FirstOf(k) /\ body'[k].at = AtOf(k)
                 /\ FirstOf(k)' = FirstOf(k) /\ AtOf(k)' = AtOf(k)
      BY <1>1, <1>7, <2>2 DEF FirstOf, AtOf
    <2>4. ASSUME NEW k \in Nat, k = Len(body) + 2
          PROVE  FirstOf(k)' = f + n /\ AtOf(k)' = result'
      BY <1>1, <1>7, <2>4 DEF FirstOf, AtOf
    <2>5. ASSUME NEW k \in 1 .. Len(body')
          PROVE  /\ FirstOf(k + 1)' = body'[k].first + body'[k].n
                 /\ AtOf(k + 1)' = body'[k].at + CountBytes + body'[k].size
      <3>1. CASE k \in 1 .. Len(body)
        <4>1. k + 1 \in 1 .. Len(body) + 1
          BY <1>1, <3>1
        <4>2. FirstOf(k + 1)' = FirstOf(k + 1) /\ AtOf(k + 1)' = AtOf(k + 1)
          BY <2>3, <4>1
        <4> QED
          BY <1>7, <2>1, <3>1, <4>2
      <3>2. CASE k = Len(body) + 1
        <4>1. body'[k] = it /\ k + 1 = Len(body) + 2 /\ k + 1 \in Nat
          BY <1>1, <1>7, <3>2
        <4>2. FirstOf(k + 1)' = f + n /\ AtOf(k + 1)' = result'
          BY <2>4, <4>1
        <4> QED
          BY <1>6, <2>2, <4>1, <4>2
      <3> QED
        BY <1>1, <1>7, <3>1, <3>2
    <2>6. FirstOf(1)' = 0 /\ AtOf(1)' = HeadBytes(Blocks(N))
      BY <1>1, <2>1, <2>3
    <2>7. ~ head.rle => Len(body') = Stored'
      BY <1>1, <1>7, <2>1
    <2> QED
      BY <1>8, <1>10, <2>5, <2>6, <2>7 DEF ChainInv
  <1> QED
    BY <1>1, <1>7, <1>9, <1>11, <1>12 DEF Kept, readVars

\* The rest of the invariant in a step of the writing loops.
LEMMA WriteFrame ==
    ASSUME IInv, pc \in {"runs", "plain"}, Kept,
           pc' = pc \/ pc' = "written",
           i' \in 0 .. N, cnt' \in 0 .. MaxRun, val_last' \in 0 .. Span - 1,
           body' \in Seq(Items), result' \in Nat, pos' \in 0 .. Len(body')
    PROVE  TypeOK' /\ MeasureInv' /\ HeadInv' /\ ReadInv'
  <1>1. TypeOK'
    BY DEF IInv, TypeOK, Pcs, Kept, readVars, N
  <1>2. MeasureInv'
    BY DEF IInv, MeasureInv, Bounded, Kept, N
  <1>3. HeadInv'
    BY DEF IInv, HeadInv, Written, Kept, N, Norm
  <1>4. ReadInv'
    BY DEF IInv, ReadInv, Reading, Kept, readVars
  <1> QED
    BY <1>1, <1>2, <1>3, <1>4

\* A run that is written is written right.
LEMMA RunFacts ==
    ASSUME IInv, pc = "runs", cnt # 0
    PROVE  /\ head.rle /\ Stored = i - cnt
           /\ i - cnt \in Nat /\ cnt \in 1 .. MaxRun /\ i - cnt + cnt = i /\ i \in 1 .. N
           /\ BlockOf(i - 1) = BlockOf(i - cnt)
           /\ \A r \in i - cnt .. i - cnt + cnt - 1 :
                  BlockOf(r) = BlockOf(i - cnt) /\ val_last = Norm(r)
  <1>1. /\ i \in 0 .. N /\ N \in Nat /\ cnt \in 0 .. MaxRun /\ cnt <= i /\ MaxRun \in Nat
        /\ \A r \in i - cnt .. i - 1 : BlockOf(r) = BlockOf(i - 1) /\ val_last = Norm(r)
    BY DataFacts, WidthsAssumption DEF IInv, TypeOK, RunInv, N
  <1>2. head.rle /\ Stored = i - cnt
    BY DEF IInv, HeadInv, Written, Stored
  <1>3. /\ i - cnt \in Nat /\ cnt \in 1 .. MaxRun /\ i - cnt + cnt = i /\ i \in 1 .. N
        /\ i - cnt \in i - cnt .. i - 1
    BY <1>1
  <1> QED
    BY <1>1, <1>2, <1>3

LEMMA WriteRunStep == ASSUME IInv, WriteRun PROVE IInv'
  <1> USE DEF WriteRun
  <1>1. /\ pc = "runs" /\ pc' = "runs" /\ cnt # 0 /\ cnt' = 0 /\ i' = i /\ i < N
        /\ val_last' = val_last
        /\ Write(i - cnt, cnt, head.sz[BlockOf(i - 1)], val_last)
    BY DEF RunEnds, N
  <1>2. Kept
    BY DEF Kept
  <1> HIDE DEF WriteRun
  <1>3. /\ head.rle /\ Stored = i - cnt /\ Stored' = i
        /\ i - cnt \in Nat /\ cnt \in 1 .. MaxRun /\ i - cnt + cnt = i /\ i \in 1 .. N
        /\ BlockOf(i - 1) = BlockOf(i - cnt)
        /\ \A r \in i - cnt .. i - cnt + cnt - 1 :
               BlockOf(r) = BlockOf(i - cnt) /\ val_last = Norm(r)
    BY <1>1, RunFacts DEF Stored
  <1>4. /\ body' \in Seq(Items) /\ result' \in Nat /\ pos' \in 0 .. Len(body')
        /\ ItemInv' /\ ChainInv'
    <2>1. i - cnt + cnt <= N /\ Stored' = i - cnt + cnt /\ Written'
      BY <1>1, <1>3, DataFacts DEF Written
    <2>2. head.sz[BlockOf(i - 1)] = head.sz[BlockOf(i - cnt)]
      BY <1>3
    <2> QED
      BY <1>1, <1>2, <1>3, <2>1, <2>2, WriteStep
  <1>5. RunInv'
    BY <1>1, <1>2, <1>3, DataFacts DEF RunInv, Kept, N
  <1>6. cnt' \in 0 .. MaxRun /\ val_last' \in 0 .. Span - 1 /\ i' \in 0 .. N
    BY <1>1, <1>3, DataFacts, WidthsAssumption DEF IInv, TypeOK, N
  <1>7. TypeOK' /\ MeasureInv' /\ HeadInv' /\ ReadInv'
    BY <1>1, <1>2, <1>4, <1>6, WriteFrame
  <1> QED
    BY <1>4, <1>5, <1>7 DEF IInv

LEMMA GrowRunStep == ASSUME IInv, GrowRun PROVE IInv'
  <1>1. /\ pc = "runs" /\ pc' = "runs" /\ i' = i + 1 /\ i < N
        /\ val_last' = ValNorm(i) /\ cnt' = (cnt + 1) % (MaxRun + 1)
        /\ body' = body /\ result' = result
        /\ ~ RunEnds
    BY DEF GrowRun, N
  <1>2. Kept
    BY DEF GrowRun, Kept
  <1>3. /\ i \in 0 .. N - 1 /\ N \in Nat /\ cnt \in 0 .. MaxRun /\ cnt <= i
        /\ MaxRun \in Nat \ {0}
        /\ \A r \in i - cnt .. i - 1 : BlockOf(r) = BlockOf(i - 1) /\ val_last = Norm(r)
    BY <1>1, DataFacts, WidthsAssumption DEF IInv, TypeOK, RunInv, N
  <1>4. cnt # MaxRun
    BY <1>1, <1>3 DEF RunEnds
  <1>5. cnt' = cnt + 1
    <2>1. MaxRun + 1 \in Nat \ {0} /\ cnt + 1 \in 0 .. (MaxRun + 1) - 1
      BY <1>3, <1>4
    <2> QED
      BY <1>1, <2>1, SmallMod
  <1>6. val_last' = Norm(i) /\ Norm(i) \in 0 .. Span - 1
    BY <1>1, <1>3, RowFacts DEF Written
  <1>7. cnt # 0 => BlockOf(i) = BlockOf(i - 1) /\ val_last = Norm(i)
    BY <1>1, <1>3, RowFacts DEF RunEnds, Written
  <1>8. RunInv'
    <2>1. ASSUME NEW r \in i - cnt .. i
          PROVE  BlockOf(r) = BlockOf(i) /\ val_last' = data'[r + 1] - min_val'[BlockOf(r)]
      <3>1. val_last' = data'[i + 1] - min_val'[BlockOf(i)]
        BY <1>2, <1>6 DEF Norm, Kept
      <3>2. CASE r = i
        BY <3>1, <3>2
      <3>3. CASE r # i
        <4>1. cnt # 0 /\ r \in i - cnt .. i - 1
          BY <1>3, <3>3
        <4>2. BlockOf(r) = BlockOf(i) /\ Norm(r) = Norm(i)
          BY <1>3, <1>7, <4>1
        <4> QED
          BY <1>2, <1>6, <4>2 DEF Norm, Kept
      <3> QED
        BY <3>2, <3>3
    <2>2. i' - cnt' = i - cnt /\ i' - 1 = i /\ cnt' <= i' /\ cnt' # 0
      BY <1>1, <1>3, <1>5
    <2> QED
      BY <2>1, <2>2 DEF RunInv, Norm
  <1>9. /\ i' \in 0 .. N /\ cnt' \in 0 .. MaxRun /\ val_last' \in 0 .. Span - 1
        /\ body' \in Seq(Items) /\ result' \in Nat /\ pos' \in 0 .. Len(body')
    BY <1>1, <1>2, <1>3, <1>4, <1>5, <1>6 DEF IInv, TypeOK, Kept, readVars
  <1>10. TypeOK' /\ MeasureInv' /\ HeadInv' /\ ReadInv'
    BY <1>1, <1>2, <1>9, WriteFrame
  <1>11. ItemInv'
    BY <1>1, <1>2 DEF IInv, ItemInv, Written, Kept, N, Norm
  <1>12. ChainInv'
    <2>1. Stored' = Stored
      BY <1>1, <1>3, <1>5 DEF Stored
    <2> QED
      BY <1>1, <1>2, <2>1
      DEF IInv, ChainInv, FirstOf, AtOf, CountBytes, Written, Kept, N
  <1> QED
    BY <1>8, <1>10, <1>11, <1>12 DEF IInv

LEMMA WriteLastRunStep == ASSUME IInv, WriteLastRun PROVE IInv'
  <1>1. /\ pc = "runs" /\ pc' = "written" /\ cnt' = cnt /\ i' = i /\ i >= N
        /\ val_last' = val_last
        /\ Write(i - cnt, cnt, LastSize, val_last)
    BY DEF WriteLastRun, N
  <1>2. Kept
    BY DEF Kept, WriteLastRun
  <1>3. i = N /\ N \in Nat /\ cnt # 0
    BY <1>1, DataFacts DEF IInv, TypeOK, RunInv, N
  <1>4. /\ head.rle /\ Stored = i - cnt /\ Stored' = i
        /\ i - cnt \in Nat /\ cnt \in 1 .. MaxRun /\ i - cnt + cnt = i /\ i \in 1 .. N
        /\ BlockOf(i - 1) = BlockOf(i - cnt)
        /\ \A r \in i - cnt .. i - cnt + cnt - 1 :
               BlockOf(r) = BlockOf(i - cnt) /\ val_last = Norm(r)
    BY <1>1, <1>2, <1>3, RunFacts DEF Stored, Kept, N
  <1>5. LastSize = head.sz[BlockOf(i - cnt)]
    BY <1>1, <1>3, <1>4, DataFacts DEF LastSize, IInv, HeadInv, Written
  <1>6. /\ body' \in Seq(Items) /\ result' \in Nat /\ pos' \in 0 .. Len(body')
        /\ ItemInv' /\ ChainInv'
    BY <1>1, <1>2, <1>3, <1>4, <1>5, WriteStep, DataFacts DEF Written
  <1>7. RunInv'
    BY <1>1 DEF RunInv
  <1>8. cnt' \in 0 .. MaxRun /\ val_last' \in 0 .. Span - 1 /\ i' \in 0 .. N
    BY <1>1, <1>3 DEF IInv, TypeOK, N
  <1>9. TypeOK' /\ MeasureInv' /\ HeadInv' /\ ReadInv'
    BY <1>1, <1>2, <1>6, <1>8, WriteFrame
  <1> QED
    BY <1>6, <1>7, <1>9 DEF IInv

LEMMA WritePlainStep == ASSUME IInv, WritePlain PROVE IInv'
  <1>1. /\ pc = "plain" /\ pc' = "plain" /\ cnt' = cnt /\ i' = i + 1 /\ i < N
        /\ val_last' = val_last
        /\ Write(i, 1, head.sz[BlockOf(i)], ValNorm(i))
    BY DEF WritePlain, N
  <1>2. Kept
    BY DEF Kept, WritePlain
  <1>3. i \in 0 .. N - 1 /\ N \in Nat /\ 1 \in 1 .. MaxRun
    BY <1>1, DataFacts, WidthsAssumption DEF IInv, TypeOK, N
  <1>4. Stored = i /\ Stored' = i + 1
    BY <1>1 DEF Stored
  <1>5. \A r \in i .. i + 1 - 1 : BlockOf(r) = BlockOf(i) /\ ValNorm(i) = Norm(r)
    BY <1>1, <1>3, RowFacts DEF Written
  <1>6. /\ body' \in Seq(Items) /\ result' \in Nat /\ pos' \in 0 .. Len(body')
        /\ ItemInv' /\ ChainInv'
    BY <1>1, <1>2, <1>3, <1>4, <1>5, WriteStep DEF Written
  <1>7. RunInv'
    BY <1>1 DEF RunInv
  <1>8. cnt' \in 0 .. MaxRun /\ val_last' \in 0 .. Span - 1 /\ i' \in 0 .. N
    BY <1>1, <1>3 DEF IInv, TypeOK, N
  <1>9. TypeOK' /\ MeasureInv' /\ HeadInv' /\ ReadInv'
    BY <1>1, <1>2, <1>6, <1>8, WriteFrame
  <1> QED
    BY <1>6, <1>7, <1>9 DEF IInv

LEMMA PlainDoneStep == ASSUME IInv, PlainDone PROVE IInv'
  <1>1. /\ pc = "plain" /\ pc' = "written" /\ i >= N
        /\ UNCHANGED <<data, writeVars, readVars>>
    BY DEF PlainDone, N
  <1>2. Kept
    BY <1>1 DEF Kept, writeVars
  <1>3. i = N /\ N \in Nat
    BY <1>1, DataFacts DEF IInv, TypeOK, N
  <1>4. Stored' = Stored
    BY <1>1, <1>3 DEF Stored, N
  <1>5. ItemInv' /\ ChainInv' /\ RunInv'
    BY <1>1, <1>4
    DEF IInv, ItemInv, ChainInv, RunInv, FirstOf, AtOf, CountBytes, Written,
        writeVars, N, Norm
  <1>6. /\ i' \in 0 .. N /\ cnt' \in 0 .. MaxRun /\ val_last' \in 0 .. Span - 1
        /\ body' \in Seq(Items) /\ result' \in Nat /\ pos' \in 0 .. Len(body')
    BY <1>1 DEF IInv, TypeOK, writeVars, readVars, N
  <1>7. TypeOK' /\ MeasureInv' /\ HeadInv' /\ ReadInv'
    BY <1>1, <1>2, <1>6, WriteFrame
  <1> QED
    BY <1>5, <1>7 DEF IInv

-----------------------------------------------------------------------------
(* Reading                                                                 *)

\* The reader leaves the chunk and what the writer knew of it alone.
LEMMA ReadFrame ==
    ASSUME IInv, UNCHANGED <<data, writeVars>>,
           pc \in {"written"} \cup Reading, pc' \in Reading,
           pc' = "readRuns" => head.rle, pc' = "readPlain" => ~ head.rle,
           block' \in Nat, count' \in Nat, at' \in Nat,
           pos' \in 0 .. Len(body), out' \in Seq(Int64)
    PROVE  /\ TypeOK' /\ MeasureInv' /\ HeadInv' /\ ItemInv' /\ ChainInv' /\ RunInv'
           /\ N' = N
           /\ \A k \in Nat : FirstOf(k)' = FirstOf(k) /\ AtOf(k)' = AtOf(k)
  <1> USE DEF writeVars
  <1>1. TypeOK'
    BY DEF IInv, TypeOK, Pcs, Reading
  <1>2. MeasureInv'
    BY DEF IInv, MeasureInv, Bounded, N, Reading
  <1>3. HeadInv'
    BY DEF IInv, HeadInv, Written, N, Norm, Reading
  <1>4. ItemInv'
    BY DEF IInv, ItemInv, Written, N, Norm, Reading
  <1>5. N' = N /\ Stored = N /\ Stored' = N /\ CountBytes' = CountBytes
    BY DEF Stored, N, Reading, CountBytes
  <1>6. \A k \in Nat : FirstOf(k)' = FirstOf(k) /\ AtOf(k)' = AtOf(k)
    BY <1>5 DEF FirstOf, AtOf
  <1>7. ChainInv'
    BY <1>5 DEF IInv, ChainInv, Written, Reading, FirstOf, AtOf
  <1>8. RunInv'
    BY DEF RunInv, Reading
  <1> QED
    BY <1>1, <1>2, <1>3, <1>4, <1>5, <1>6, <1>7, <1>8

\* What the header says, to the reader.
LEMMA HeadFacts ==
    ASSUME IInv, pc \in {"written"} \cup Reading
    PROVE  /\ head.n_values = N /\ head.blocks = Blocks(N) /\ N \in Nat
           /\ Blocks(N) \in Nat /\ Written
           /\ head.rle \in BOOLEAN /\ (head.rle => N > 0)
           /\ pc = "readRuns" => head.rle
           /\ pc = "readPlain" => ~ head.rle
           /\ Stored = N
           /\ \A b \in 0 .. Blocks(N) - 1 : head.sz[b] \in 1 .. WordBytes
  BY DataFacts DEF IInv, HeadInv, Written, Reading, Stored

\* The rows of a block, as the reader without runs counts them.
LEMMA RowsInFacts ==
    ASSUME IInv, pc \in {"written"} \cup Reading, NEW b \in Nat, b < head.blocks
    PROVE  /\ RowsIn(b) \in 1 .. BlockSize
           /\ BlockStart(b) + RowsIn(b) <= N
           /\ b + 1 < head.blocks => BlockStart(b) + RowsIn(b) = BlockStart(b + 1)
           /\ b + 1 >= head.blocks => BlockStart(b) + RowsIn(b) = N
  <1>1. head.n_values = N /\ head.blocks = Blocks(N) /\ N \in Nat /\ Blocks(N) \in Nat
    BY HeadFacts
  <1>2. BlockStart(b) \in Nat /\ BlockStart(b + 1) = BlockStart(b) + BlockSize
    BY StartsGrow
  <1>3. BlockStart(b) < N
    BY <1>1, DataFacts
  <1>4. CASE b + 1 < head.blocks
    <2>1. BlockStart(b + 1) < N
      BY <1>1, <1>4, DataFacts
    <2>2. RowsIn(b) = BlockStart(b + 1) - BlockStart(b)
      BY <1>4 DEF RowsIn
    <2> QED
      BY <1>1, <1>2, <1>4, <2>1, <2>2, PositiveBlock
  <1>5. CASE ~ (b + 1 < head.blocks)
    <2>1. Blocks(N) = b + 1
      BY <1>1, <1>5
    <2>2. N <= BlockStart(b + 1)
      BY <2>1, DataFacts
    <2>3. RowsIn(b) = N - BlockStart(b)
      BY <1>1, <1>5 DEF RowsIn
    <2> QED
      BY <1>1, <1>2, <1>3, <1>5, <2>1, <2>2, <2>3, PositiveBlock
  <1> QED
    BY <1>4, <1>5

LEMMA ReadHeadStep == ASSUME IInv, ReadHead PROVE IInv'
  <1>1. /\ pc = "written" /\ pc' = IF head.rle THEN "readRuns" ELSE "readPlain"
        /\ at' = at + HeadBytes(head.blocks)
        /\ UNCHANGED <<data, writeVars>>
        /\ block' = block /\ count' = count /\ pos' = pos /\ out' = out
    BY DEF ReadHead
  <1>2. /\ pos = 0 /\ at = 0 /\ out = <<>> /\ block = 0 /\ count = 0
        /\ Len(body) \in Nat
    BY <1>1 DEF IInv, ReadInv, Reading, TypeOK
  <1>3. /\ head.n_values = N /\ head.blocks = Blocks(N) /\ N \in Nat
        /\ Blocks(N) \in Nat /\ Written
        /\ head.rle \in BOOLEAN /\ (head.rle => N > 0)
    BY <1>1, HeadFacts
  <1>4. at' = HeadBytes(Blocks(N)) /\ at' \in Nat
    BY <1>1, <1>2, <1>3 DEF HeadBytes
  <1>5. FirstOf(1) = 0 /\ AtOf(1) = HeadBytes(Blocks(N))
    BY <1>3 DEF IInv, ChainInv
  <1>6. pc' \in Reading /\ out' \in Seq(Int64) /\ pos' \in 0 .. Len(body)
    BY <1>1, <1>2 DEF Reading
  <1>7. /\ TypeOK' /\ MeasureInv' /\ HeadInv' /\ ItemInv' /\ ChainInv' /\ RunInv'
        /\ N' = N
        /\ FirstOf(1)' = FirstOf(1) /\ AtOf(1)' = AtOf(1)
    BY <1>1, <1>2, <1>3, <1>4, <1>6, ReadFrame
  <1>8. head' = head /\ BlockStart(0) = 0
    BY <1>1, StartsGrow DEF writeVars
  <1>9. pos' + 1 = 1 /\ Len(out') = 0 /\ block' = 0 /\ count' = 0
    BY <1>1, <1>2
  <1>10. CASE head.rle
    <2>1. 0 < head.blocks
      BY <1>3, <1>10, DataFacts
    <2>2. BlockStart(1) \in Nat
      BY StartsGrow
    <2>3. ReadInv'
      BY <1>1, <1>3, <1>4, <1>5, <1>7, <1>8, <1>9, <1>10, <2>1, <2>2
      DEF ReadInv, Reading, FirstOf, AtOf
    <2> QED
      BY <1>7, <2>3 DEF IInv
  <1>11. CASE ~ head.rle
    <2>1. head.blocks = 0 => N = 0
      BY <1>3, <1>8, DataFacts
    <2>2. 0 < head.blocks => RowsIn(0) \in 1 .. BlockSize
      BY <1>1, RowsInFacts
    <2>3. RowsIn(0)' = RowsIn(0)
      BY <1>8 DEF RowsIn
    <2>4. ReadInv'
      BY <1>1, <1>3, <1>4, <1>5, <1>7, <1>8, <1>9, <1>11, <2>1, <2>2, <2>3, PositiveBlock
      DEF ReadInv, Reading, FirstOf, AtOf, RowsIn
    <2> QED
      BY <1>7, <2>4 DEF IInv
  <1> QED
    BY <1>3, <1>10, <1>11

\* As long as rows are missing there is an item to read, and it starts with
\* the next row.
LEMMA NextItem ==
    ASSUME IInv, pc \in Reading, Len(out) < N
    PROVE  LET it == body[pos + 1]
           IN  /\ pos < Len(body) /\ pos \in Nat /\ it \in Items
               /\ it.first = Len(out) /\ it.first + it.n <= N
               /\ it.size = head.sz[BlockOf(it.first)]
               /\ ~ head.rle => it.n = 1
               /\ FirstOf(pos + 2) = Len(out) + it.n
               /\ AtOf(pos + 2) = at + CountBytes + it.size
               /\ \A r \in it.first .. it.first + it.n - 1 :
                      /\ BlockOf(r) = BlockOf(it.first)
                      /\ Decode(it.val, head.min[BlockOf(it.first)]) = data[r + 1]
  <1>1. /\ pos \in 0 .. Len(body) /\ Len(body) \in Nat /\ body \in Seq(Items)
        /\ out \in Seq(Int64) /\ Len(out) \in Nat
        /\ Len(out) = FirstOf(pos + 1) /\ at = AtOf(pos + 1)
    BY DEF IInv, TypeOK, ReadInv
  <1>2. Stored = N /\ Written /\ N \in Nat
    BY HeadFacts
  <1>3. pos < Len(body)
    <2>1. pos = Len(body) => FirstOf(pos + 1) = N
      BY <1>2 DEF FirstOf
    <2> QED
      BY <1>1, <1>2, <2>1
  <1> DEFINE it == body[pos + 1]
  <1>4. pos + 1 \in 1 .. Len(body) /\ it \in Items
    BY <1>1, <1>3
  <1>5. it.first = Len(out) /\ it.at = at
    BY <1>1, <1>3 DEF FirstOf, AtOf
  <1>6. /\ it.first + it.n <= N
        /\ it.size = head.sz[BlockOf(it.first)]
        /\ ~ head.rle => it.n = 1
        /\ \A r \in it.first .. it.first + it.n - 1 :
               BlockOf(r) = BlockOf(it.first) /\ it.val = Norm(r)
    BY <1>2, <1>4 DEF IInv, ItemInv
  <1>7. pos + 1 + 1 = pos + 2
    BY <1>1
  <1>8. /\ FirstOf(pos + 1 + 1) = it.first + it.n
        /\ AtOf(pos + 1 + 1) = it.at + CountBytes + it.size
    BY <1>2, <1>4 DEF IInv, ChainInv
  <1>9. ASSUME NEW r \in it.first .. it.first + it.n - 1
        PROVE  Decode(it.val, head.min[BlockOf(it.first)]) = data[r + 1]
    <2>1. it.first \in Nat /\ it.n \in 1 .. MaxRun /\ MaxRun \in Nat
      BY <1>4, WidthsAssumption DEF Items
    <2>2. it.first + it.n <= N
      BY <1>6
    <2> HIDE DEF it
    <2>3. r \in 0 .. N - 1
      BY <1>2, <2>1, <2>2
    <2> QED
      BY <1>2, <1>6, <2>3, RowFacts
  <1> HIDE DEF it
  <1>10. FirstOf(pos + 2) = Len(out) + it.n /\ AtOf(pos + 2) = at + CountBytes + it.size
    BY <1>5, <1>7, <1>8
  <1> QED
    BY <1>1, <1>3, <1>4, <1>5, <1>6, <1>9, <1>10 DEF it

\* When all rows are read, all items are.
LEMMA AllRead ==
    ASSUME IInv, pc \in Reading, Len(out) = N
    PROVE  pos = Len(body) /\ at = result
  <1>1. /\ pos \in 0 .. Len(body) /\ Len(body) \in Nat /\ body \in Seq(Items)
        /\ Len(out) = FirstOf(pos + 1) /\ at = AtOf(pos + 1)
    BY DEF IInv, TypeOK, ReadInv
  <1>2. Written /\ N \in Nat
    BY HeadFacts
  <1>3. pos = Len(body)
    <2>1. SUFFICES ASSUME pos < Len(body) PROVE FALSE
      BY <1>1
    <2>2. pos + 1 \in 1 .. Len(body) /\ body[pos + 1] \in Items
      BY <1>1, <2>1
    <2>3. body[pos + 1].first = N
      BY <1>1, <2>1 DEF FirstOf
    <2>4. body[pos + 1].first + body[pos + 1].n <= N
      BY <1>2, <2>2 DEF IInv, ItemInv
    <2>5. body[pos + 1].n \in 1 .. MaxRun
      BY <2>2 DEF Items
    <2> QED
      BY <1>2, <2>3, <2>4, <2>5, WidthsAssumption
  <1> QED
    BY <1>1, <1>3 DEF AtOf

\* The block the reader decodes the next run with is the run's block.
LEMMA BlockAtRight ==
    ASSUME IInv, pc = "readRuns", count < head.n_values
    PROVE  /\ count = Len(out) /\ count \in Nat /\ Len(out) < N
           /\ BlockAt \in Nat /\ BlockAt < head.blocks
           /\ BlockStart(BlockAt) <= count
           /\ BlockOf(count) = BlockAt
  <1>1. /\ count = Len(out) /\ count \in Nat /\ block \in Nat
        /\ block < head.blocks /\ BlockStart(block) <= count
        /\ block + 1 < head.blocks => count <= BlockStart(block + 1)
    BY DEF IInv, ReadInv, TypeOK
  <1>2. head.n_values = N /\ head.blocks = Blocks(N) /\ N \in Nat /\ Blocks(N) \in Nat
    BY HeadFacts DEF Reading
  <1>3. CASE block + 1 < head.blocks /\ count >= BlockStart(block + 1)
    <2>1. BlockAt = block + 1
      BY <1>3 DEF BlockAt
    <2>2. BlockStart(block + 1) \in Nat /\ count = BlockStart(block + 1)
      BY <1>1, <1>3, StartsGrow
    <2> QED
      BY <1>1, <1>2, <1>3, <2>1, <2>2, BlockUnique, PositiveBlock
  <1>4. CASE ~ (block + 1 < head.blocks /\ count >= BlockStart(block + 1))
    <2>1. BlockAt = block
      BY <1>4 DEF BlockAt
    <2>2. /\ BlockStart(block) \in Nat
          /\ BlockStart(block + 1) = BlockStart(block) + BlockSize
      BY <1>1, StartsGrow
    <2>3. count < BlockStart(block + 1)
      <3>1. CASE block + 1 < head.blocks
        BY <1>1, <1>4, <2>2, <3>1, PositiveBlock
      <3>2. CASE ~ (block + 1 < head.blocks)
        <4>1. Blocks(N) = block + 1
          BY <1>1, <1>2, <3>2
        <4>2. N <= BlockStart(block + 1)
          BY <4>1, DataFacts
        <4> QED
          BY <1>1, <1>2, <2>2, <4>2, PositiveBlock
      <3> QED
        BY <3>1, <3>2
    <2> QED
      BY <1>1, <1>2, <2>1, <2>2, <2>3, BlockUnique
  <1> QED
    BY <1>3, <1>4

\* The place after a step, named by the number it has.
LEMMA NextPlace ==
    ASSUME NEW k \in Nat, k = pos' + 1
    PROVE  FirstOf(pos + 1)' = FirstOf(k)' /\ AtOf(pos + 1)' = AtOf(k)'
  BY DEF FirstOf, AtOf

LEMMA SamePlace ==
    ASSUME pos \in Nat, UNCHANGED pos,
           \A k \in Nat : FirstOf(k)' = FirstOf(k) /\ AtOf(k)' = AtOf(k)
    PROVE  FirstOf(pos + 1)' = FirstOf(pos + 1) /\ AtOf(pos + 1)' = AtOf(pos + 1)
  <1>1. PICK k \in Nat : k = pos + 1
    OBVIOUS
  <1> QED
    BY <1>1, NextPlace

LEMMA ReadRunStep == ASSUME IInv, ReadRun PROVE IInv'
  <1> DEFINE it == body[pos + 1]
             B == BlockAt
             rows == [r \in 1 .. it.n |-> Decode(it.val, head.min[B])]
  <1>1. /\ pc = "readRuns" /\ pc' = "readRuns" /\ count < head.n_values
        /\ out' = out \o rows /\ count' = count + it.n /\ at' = at + 1 + it.size
        /\ block' = B /\ pos' = pos + 1
        /\ UNCHANGED <<data, writeVars>>
    BY DEF ReadRun
  <1>2. /\ count = Len(out) /\ count \in Nat /\ Len(out) < N
        /\ B \in Nat /\ B < head.blocks /\ BlockStart(B) <= count
        /\ BlockOf(count) = B
    BY <1>1, BlockAtRight
  <1>3. /\ pos < Len(body) /\ pos \in Nat /\ it \in Items
        /\ it.first = Len(out) /\ it.first + it.n <= N
        /\ FirstOf(pos + 2) = Len(out) + it.n
        /\ AtOf(pos + 2) = at + CountBytes + it.size
        /\ \A r \in it.first .. it.first + it.n - 1 :
               /\ BlockOf(r) = BlockOf(it.first)
               /\ Decode(it.val, head.min[BlockOf(it.first)]) = data[r + 1]
    BY <1>1, <1>2, NextItem DEF Reading
  <1>4. /\ N \in Nat /\ head.rle /\ CountBytes = 1 /\ head.blocks = Blocks(N)
        /\ Blocks(N) \in Nat
    BY <1>1, HeadFacts DEF Reading, CountBytes
  <1>5. /\ it.n \in Nat /\ it.n >= 1 /\ it.size \in Nat
        /\ at \in Nat /\ out \in Seq(Int64) /\ Len(body) \in Nat
    <2>1. it.n \in 1 .. MaxRun /\ it.size \in 1 .. WordBytes
      BY <1>3 DEF Items
    <2>2. MaxRun \in Nat /\ WordBytes \in Nat
      BY WidthsAssumption
    <2>3. at \in Nat /\ out \in Seq(Int64) /\ Len(body) \in Nat
      BY DEF IInv, TypeOK
    <2> HIDE DEF it
    <2> QED
      BY <2>1, <2>2, <2>3
  <1>6. ASSUME NEW r \in count + 1 .. count + it.n
        PROVE  /\ Decode(it.val, head.min[B]) = data[r]
               /\ data[r] \in Int64
               /\ BlockOf(r - 1) = B
    <2>1. r - 1 \in it.first .. it.first + it.n - 1 /\ r - 1 + 1 = r
      BY <1>2, <1>3, <1>5
    <2>2. it.first + it.n <= N /\ it.first \in Nat
      BY <1>2, <1>3
    <2>3. r - 1 \in 0 .. N - 1
      BY <1>4, <1>5, <2>1, <2>2
    <2>4. data[r - 1 + 1] \in Int64
      BY <2>3, DataFacts
    <2> QED
      BY <1>2, <1>3, <2>1, <2>4
  <1> HIDE DEF it, B
  <1>7. rows \in Seq(Int64) /\ Len(rows) = it.n
    <2>1. Decode(it.val, head.min[B]) \in Int64
      <3>1. count + 1 \in count + 1 .. count + it.n
        BY <1>2, <1>5
      <3> QED
        BY <1>6, <3>1
    <2> QED
      BY <1>5, <2>1
  <1>8. out' \in Seq(Int64) /\ Len(out') = count + it.n
    <2> HIDE DEF rows
    <2>1. out' = out \o rows /\ out \in Seq(Int64) /\ rows \in Seq(Int64)
      BY <1>1, <1>5, <1>7
    <2>2. Len(out') = Len(out) + Len(rows)
      BY <2>1
    <2>3. out' \in Seq(Int64)
      BY <2>1
    <2> QED
      BY <1>2, <1>7, <2>2, <2>3
  <1>9. ASSUME NEW r \in 1 .. Len(out') PROVE out'[r] = data[r]
    <2>1. CASE r <= count
      <3>1. out'[r] = out[r] /\ r \in 1 .. Len(out)
        BY <1>1, <1>2, <1>5, <1>7, <1>8, <2>1
      <3> QED
        BY <1>1, <3>1 DEF IInv, ReadInv, Reading
    <2>2. CASE r > count
      <3>1. r \in count + 1 .. count + it.n /\ r - count \in 1 .. it.n
        BY <1>2, <1>5, <1>8, <2>2
      <3>2. out'[r] = rows[r - count]
        BY <1>1, <1>2, <1>5, <1>7, <1>8, <3>1
      <3> QED
        BY <1>6, <3>1, <3>2
    <2> QED
      BY <1>2, <1>5, <1>8, <2>1, <2>2
  <1> HIDE DEF rows
  <1>10. /\ count' \in Nat /\ at' \in Nat /\ pos' \in 0 .. Len(body) /\ block' \in Nat
         /\ count' = Len(out')
    <2>1. count' \in Nat /\ count' = Len(out')
      BY <1>1, <1>2, <1>5, <1>8
    <2>2. pos' \in 0 .. Len(body)
      BY <1>1, <1>3, <1>5
    <2>3. at' \in Nat
      BY <1>1, <1>3, <1>5
    <2>4. block' \in Nat
      BY <1>1, <1>2, <1>3, <1>5
    <2> QED
      BY <2>1, <2>2, <2>3, <2>4
  <1>11. /\ TypeOK' /\ MeasureInv' /\ HeadInv' /\ ItemInv' /\ ChainInv' /\ RunInv'
         /\ \A k \in Nat : FirstOf(k)' = FirstOf(k) /\ AtOf(k)' = AtOf(k)
    BY <1>1, <1>4, <1>8, <1>10, ReadFrame DEF Reading
  <1>12. head' = head
    BY <1>1 DEF writeVars
  <1>13. /\ BlockStart(block') <= count'
         /\ block' + 1 < head.blocks => count' <= BlockStart(block' + 1)
    <2>1. PICK r \in Nat : r = count + it.n
      BY <1>2, <1>5
    <2>2. r \in count + 1 .. count + it.n /\ r - 1 \in Nat
      BY <1>2, <1>5, <2>1
    <2>3. BlockOf(r - 1) = B
      BY <1>6, <2>2
    <2>4. r - 1 < BlockStart(B) + BlockSize
      BY <2>2, <2>3, BlockBounds
    <2>5. BlockStart(B) \in Nat /\ BlockStart(B + 1) = BlockStart(B) + BlockSize
      BY <1>2, StartsGrow
    <2>6. count' = r /\ block' = B /\ count <= r
      BY <1>1, <1>2, <1>5, <2>1
    <2>7. r <= BlockStart(B) + BlockSize
      BY <2>2, <2>4, <2>5, PositiveBlock
    <2> QED
      BY <1>2, <2>1, <2>5, <2>6, <2>7
  <1>14. Len(out') = FirstOf(pos + 1)' /\ at' = AtOf(pos + 1)'
    <2>1. PICK k \in Nat : k = pos + 2 /\ k = pos' + 1
      BY <1>1, <1>3
    <2>2. FirstOf(k)' = count + it.n /\ AtOf(k)' = at + 1 + it.size
      BY <1>2, <1>3, <1>4, <1>11, <2>1
    <2> QED
      BY <1>1, <1>8, <2>1, <2>2, NextPlace
  <1>15. ReadInv'
    BY <1>1, <1>2, <1>9, <1>10, <1>12, <1>13, <1>14 DEF ReadInv, Reading, BlockStart
  <1> QED
    BY <1>11, <1>15 DEF IInv

LEMMA RunsReadStep == ASSUME IInv, RunsRead PROVE IInv'
  <1>1. /\ pc = "readRuns" /\ pc' = "done" /\ count >= head.n_values
        /\ UNCHANGED <<data, writeVars>>
        /\ block' = block /\ count' = count /\ pos' = pos /\ at' = at /\ out' = out
    BY DEF RunsRead, readVars
  <1>2. /\ head.n_values = N /\ N \in Nat /\ Stored = N /\ Written
    BY <1>1, HeadFacts DEF Reading
  <1>3. Len(out) = N
    <2>1. ~ (Len(out) < N) => Len(out) = N
      <3>1. pos \in 0 .. Len(body) /\ Len(body) \in Nat /\ Len(out) = FirstOf(pos + 1)
        BY <1>1 DEF IInv, TypeOK, ReadInv, Reading
      <3>2. pos = Len(body) => Len(out) = N
        BY <1>2, <3>1 DEF FirstOf
      <3>3. pos # Len(body) =>
                /\ pos + 1 \in 1 .. Len(body)
                /\ Len(out) = body[pos + 1].first
                /\ body[pos + 1].first + body[pos + 1].n <= N
        BY <1>2, <3>1 DEF FirstOf, IInv, ItemInv
      <3>4. pos # Len(body) => body[pos + 1].n \in 1 .. MaxRun
        <4>1. body \in Seq(Items)
          BY DEF IInv, TypeOK
        <4> HIDE DEF Items
        <4>2. pos # Len(body) => body[pos + 1] \in Items
          BY <3>3, <4>1
        <4> QED
          BY <4>2 DEF Items
      <3> QED
        BY <1>2, <3>1, <3>2, <3>3, <3>4, WidthsAssumption
    <2>2. count = Len(out) /\ count \in Nat
      BY <1>1 DEF IInv, ReadInv, TypeOK
    <2> QED
      BY <1>1, <1>2, <2>1, <2>2
  <1>4. /\ block' \in Nat /\ count' \in Nat /\ at' \in Nat /\ pos' \in 0 .. Len(body)
        /\ out' \in Seq(Int64)
    BY <1>1 DEF IInv, TypeOK
  <1>5. /\ TypeOK' /\ MeasureInv' /\ HeadInv' /\ ItemInv' /\ ChainInv' /\ RunInv'
        /\ N' = N
    BY <1>1, <1>4, ReadFrame DEF Reading
  <1>6. ReadInv'
    BY <1>1, <1>3, <1>5 DEF IInv, ReadInv, Reading, FirstOf, AtOf, Stored, writeVars
  <1> QED
    BY <1>5, <1>6 DEF IInv

\* The next value of the reader without runs is of the block it is in.
LEMMA PlainRight ==
    ASSUME IInv, pc = "readPlain", block < head.blocks, count < RowsIn(block)
    PROVE  /\ Len(out) = BlockStart(block) + count /\ Len(out) < N
           /\ count \in Nat /\ block \in Nat
           /\ BlockOf(Len(out)) = block
  <1>1. /\ Len(out) = BlockStart(block) + count /\ block \in Nat /\ count \in Nat
    BY DEF IInv, TypeOK, ReadInv
  <1>2. RowsIn(block) \in 1 .. BlockSize /\ BlockStart(block) + RowsIn(block) <= N
    BY <1>1, RowsInFacts DEF Reading
  <1>3. BlockStart(block) \in Nat /\ N \in Nat
    BY <1>1, StartsGrow, DataFacts
  <1>4. /\ Len(out) < N /\ Len(out) \in Nat
        /\ BlockStart(block) <= Len(out) /\ Len(out) < BlockStart(block) + BlockSize
    BY <1>1, <1>2, <1>3, PositiveBlock
  <1> QED
    BY <1>1, <1>4, BlockUnique

LEMMA ReadPlainStep == ASSUME IInv, ReadPlain PROVE IInv'
  <1> DEFINE it == body[pos + 1]
             v == Decode(it.val, head.min[block])
  <1>1. /\ pc = "readPlain" /\ pc' = "readPlain"
        /\ block < head.blocks /\ count < RowsIn(block)
        /\ it.size = head.sz[block]
        /\ out' = Append(out, v) /\ pos' = pos + 1 /\ count' = count + 1
        /\ at' = at + head.sz[block] /\ block' = block
        /\ UNCHANGED <<data, writeVars>>
    BY DEF ReadPlain, Aligned
  <1>2. /\ Len(out) = BlockStart(block) + count /\ Len(out) < N
        /\ count \in Nat /\ block \in Nat /\ BlockOf(Len(out)) = block
    BY <1>1, PlainRight
  <1>3. N \in Nat /\ ~ head.rle /\ CountBytes = 0
    BY <1>1, HeadFacts DEF Reading, CountBytes
  <1>4. /\ pos < Len(body) /\ pos \in Nat /\ it \in Items
        /\ it.first = Len(out) /\ it.n = 1
        /\ FirstOf(pos + 2) = Len(out) + 1
        /\ AtOf(pos + 2) = at + it.size
        /\ \A r \in it.first .. it.first + it.n - 1 :
               Decode(it.val, head.min[BlockOf(it.first)]) = data[r + 1]
    <2>1. at \in Nat /\ it \in Items => at + 0 + it.size = at + it.size
      BY WidthsAssumption DEF Items
    <2>2. at \in Nat
      BY DEF IInv, TypeOK
    <2> QED
      BY <1>1, <1>2, <1>3, <2>1, <2>2, NextItem DEF Reading
  <1>5. /\ it.size \in Nat /\ at \in Nat /\ out \in Seq(Int64) /\ Len(out) \in Nat
        /\ Len(body) \in Nat
    <2>1. it.size \in 1 .. WordBytes
      BY <1>4 DEF Items
    <2>2. it.size \in Nat
      BY <2>1, WidthsAssumption
    <2> QED
      BY <2>2 DEF IInv, TypeOK
  <1>6. v = data[Len(out) + 1] /\ data[Len(out) + 1] \in Int64
    <2>1. Len(out) \in it.first .. it.first + it.n - 1 /\ Len(out) \in 0 .. N - 1
      BY <1>2, <1>3, <1>4, <1>5
    <2> QED
      BY <1>2, <1>4, <2>1, DataFacts
  <1> HIDE DEF it, v
  <1>7. out' \in Seq(Int64) /\ Len(out') = Len(out) + 1
    BY <1>1, <1>5, <1>6
  <1>8. ASSUME NEW r \in 1 .. Len(out') PROVE out'[r] = data[r]
    <2>1. CASE r <= Len(out)
      <3>1. out'[r] = out[r] /\ r \in 1 .. Len(out)
        BY <1>1, <1>5, <1>7, <2>1
      <3> QED
        BY <1>1, <3>1 DEF IInv, ReadInv, Reading
    <2>2. CASE r = Len(out) + 1
      BY <1>1, <1>5, <1>6, <2>2
    <2> QED
      BY <1>5, <1>7, <2>1, <2>2
  <1>9. count' \in Nat /\ at' \in Nat /\ pos' \in 0 .. Len(body) /\ block' \in Nat
    BY <1>1, <1>2, <1>4, <1>5
  <1>10. /\ TypeOK' /\ MeasureInv' /\ HeadInv' /\ ItemInv' /\ ChainInv' /\ RunInv'
         /\ \A k \in Nat : FirstOf(k)' = FirstOf(k) /\ AtOf(k)' = AtOf(k)
    BY <1>1, <1>3, <1>7, <1>9, ReadFrame DEF Reading
  <1>11. Len(out') = FirstOf(pos + 1)' /\ at' = AtOf(pos + 1)'
    <2>1. PICK k \in Nat : k = pos + 2 /\ k = pos' + 1
      BY <1>1, <1>4
    <2>2. FirstOf(k)' = Len(out) + 1 /\ AtOf(k)' = at + it.size
      BY <1>4, <1>10, <2>1
    <2>3. at' = at + it.size
      BY <1>1
    <2> QED
      BY <1>7, <2>1, <2>2, <2>3, NextPlace
  <1>12. head' = head /\ RowsIn(block)' = RowsIn(block) /\ BlockStart(block') = BlockStart(block)
    BY <1>1 DEF writeVars, RowsIn
  <1>13. count' <= RowsIn(block)' /\ Len(out') = BlockStart(block') + count'
    <2>1. RowsIn(block) \in 1 .. BlockSize
      BY <1>1, <1>2, RowsInFacts DEF Reading
    <2>2. BlockStart(block) \in Nat
      BY <1>2, StartsGrow
    <2> QED
      BY <1>1, <1>2, <1>7, <1>12, <2>1, <2>2, PositiveBlock
  <1>14. block' < head'.blocks /\ block' <= head'.blocks
    <2>1. head.blocks \in Nat
      BY <1>1, HeadFacts DEF Reading
    <2> QED
      BY <1>1, <1>2, <1>12, <2>1
  <1>15. ReadInv'
    BY <1>1, <1>8, <1>11, <1>13, <1>14 DEF ReadInv, Reading
  <1> QED
    BY <1>10, <1>15 DEF IInv

LEMMA NextBlockStep == ASSUME IInv, NextBlock PROVE IInv'
  <1>1. /\ pc = "readPlain" /\ pc' = "readPlain"
        /\ block < head.blocks /\ count >= RowsIn(block)
        /\ block' = block + 1 /\ count' = 0
        /\ pos' = pos /\ at' = at /\ out' = out
        /\ UNCHANGED <<data, writeVars>>
    BY DEF NextBlock
  <1>2. /\ block \in Nat /\ count \in Nat
        /\ count <= RowsIn(block) /\ Len(out) = BlockStart(block) + count
    BY <1>1 DEF IInv, TypeOK, ReadInv
  <1>3. N \in Nat /\ ~ head.rle /\ head.blocks \in Nat
    BY <1>1, HeadFacts DEF Reading
  <1>4. /\ RowsIn(block) \in 1 .. BlockSize
        /\ block + 1 < head.blocks => BlockStart(block) + RowsIn(block) = BlockStart(block + 1)
        /\ block + 1 >= head.blocks => BlockStart(block) + RowsIn(block) = N
    BY <1>1, <1>2, RowsInFacts DEF Reading
  <1>5. count = RowsIn(block)
    BY <1>1, <1>2, <1>4, PositiveBlock
  <1>6. /\ block' \in Nat /\ count' \in Nat /\ at' \in Nat /\ pos' \in 0 .. Len(body)
        /\ out' \in Seq(Int64)
    BY <1>1, <1>2 DEF IInv, TypeOK
  <1>7. /\ TypeOK' /\ MeasureInv' /\ HeadInv' /\ ItemInv' /\ ChainInv' /\ RunInv'
        /\ N' = N
        /\ \A k \in Nat : FirstOf(k)' = FirstOf(k) /\ AtOf(k)' = AtOf(k)
    BY <1>1, <1>3, <1>6, ReadFrame DEF Reading
  <1>8. head' = head
    BY <1>1 DEF writeVars
  <1>9. /\ Len(out') = FirstOf(pos + 1)' /\ at' = AtOf(pos + 1)'
         /\ \A r \in 1 .. Len(out') : out'[r] = data'[r]
    <2>1. /\ pos \in Nat
          /\ Len(out) = FirstOf(pos + 1) /\ at = AtOf(pos + 1)
          /\ \A r \in 1 .. Len(out) : out[r] = data[r]
      BY <1>1 DEF IInv, TypeOK, ReadInv, Reading
    <2> QED
      BY <1>1, <1>7, <2>1, SamePlace
  <1>10. CASE block + 1 < head.blocks
    <2>1. /\ RowsIn(block + 1) \in 1 .. BlockSize /\ BlockStart(block + 1) \in Nat
      <3>1. PICK b \in Nat : b = block + 1
        BY <1>2
      <3>2. b < head.blocks
        BY <1>10, <3>1
      <3> QED
        BY <1>1, <3>1, <3>2, RowsInFacts, StartsGrow DEF Reading
    <2>2. RowsIn(block)' = RowsIn(block + 1) /\ BlockStart(block)' = BlockStart(block + 1)
      BY <1>1, <1>8 DEF RowsIn, BlockStart
    <2>3. Len(out') = BlockStart(block)' + count' /\ count' <= RowsIn(block)'
      BY <1>1, <1>2, <1>4, <1>5, <1>10, <2>1, <2>2, PositiveBlock
    <2>4. block' < head'.blocks /\ block' <= head'.blocks
      BY <1>1, <1>2, <1>3, <1>8, <1>10
    <2> QED
      BY <1>1, <1>7, <1>9, <2>3, <2>4 DEF IInv, ReadInv, Reading
  <1>11. CASE block + 1 >= head.blocks
    <2>1. block' = head'.blocks /\ Len(out') = N' /\ ~ (block' < head'.blocks)
      BY <1>1, <1>2, <1>3, <1>4, <1>5, <1>7, <1>8, <1>11
    <2> QED
      BY <1>1, <1>3, <1>7, <1>8, <1>9, <2>1 DEF IInv, ReadInv, Reading
  <1> QED
    BY <1>2, <1>3, <1>10, <1>11

LEMMA PlainReadStep == ASSUME IInv, PlainRead PROVE IInv'
  <1>1. /\ pc = "readPlain" /\ pc' = "done" /\ block >= head.blocks
        /\ UNCHANGED <<data, writeVars>>
        /\ block' = block /\ count' = count /\ pos' = pos /\ at' = at /\ out' = out
    BY DEF PlainRead, readVars
  <1>2. head.blocks \in Nat /\ block \in Nat
    BY <1>1, HeadFacts DEF Reading, IInv, TypeOK
  <1>3. Len(out) = N
    BY <1>1, <1>2 DEF IInv, ReadInv
  <1>4. /\ block' \in Nat /\ count' \in Nat /\ at' \in Nat /\ pos' \in 0 .. Len(body)
        /\ out' \in Seq(Int64)
    BY <1>1 DEF IInv, TypeOK
  <1>5. /\ TypeOK' /\ MeasureInv' /\ HeadInv' /\ ItemInv' /\ ChainInv' /\ RunInv'
        /\ N' = N
        /\ \A k \in Nat : FirstOf(k)' = FirstOf(k) /\ AtOf(k)' = AtOf(k)
    BY <1>1, <1>4, ReadFrame DEF Reading
  <1>6. /\ Len(out') = FirstOf(pos + 1)' /\ at' = AtOf(pos + 1)'
         /\ \A r \in 1 .. Len(out') : out'[r] = data'[r]
    <2>1. /\ pos \in Nat
          /\ Len(out) = FirstOf(pos + 1) /\ at = AtOf(pos + 1)
          /\ \A r \in 1 .. Len(out) : out[r] = data[r]
      BY <1>1 DEF IInv, TypeOK, ReadInv, Reading
    <2> QED
      BY <1>1, <1>5, <2>1, SamePlace
  <1>7. ReadInv'
    BY <1>1, <1>3, <1>5, <1>6 DEF ReadInv, Reading
  <1> QED
    BY <1>5, <1>7 DEF IInv

-----------------------------------------------------------------------------
(* The theorems                                                            *)

\* Every step of the codec keeps the invariant.
LEMMA Step == IInv /\ [Next]_codecVars => IInv'
  <1> SUFFICES ASSUME IInv, [Next]_codecVars PROVE IInv'
    OBVIOUS
  <1>1. CASE WriteNext
    BY <1>1, AllocateStep, MeasureStep, MeasureDoneStep, WriteHeadStep, WriteRunStep,
       GrowRunStep, WriteLastRunStep, WritePlainStep, PlainDoneStep DEF WriteNext
  <1>2. CASE ReadNext
    BY <1>2, ReadHeadStep, ReadRunStep, RunsReadStep, ReadPlainStep, NextBlockStep,
       PlainReadStep DEF ReadNext
  <1>3. CASE UNCHANGED codecVars
    <2> USE <1>3 DEF codecVars, writeVars, readVars
    <2>1. TypeOK' /\ MeasureInv' /\ HeadInv' /\ RunInv'
      BY DEF IInv, TypeOK, MeasureInv, HeadInv, RunInv, Bounded, Written, N, Norm
    <2>2. ItemInv' /\ ChainInv'
      BY DEF IInv, ItemInv, ChainInv, Written, N, Norm, FirstOf, AtOf, Stored, CountBytes
    <2>3. ReadInv'
      BY DEF IInv, ReadInv, Reading, FirstOf, AtOf, Stored, N, RowsIn
    <2> QED
      BY <2>1, <2>2, <2>3 DEF IInv
  <1> QED
    BY <1>1, <1>2, <1>3 DEF Next

\* At the end every item has been read, and with it every row.
LEMMA ReadBack == IInv => RoundTrip
  <1> SUFFICES ASSUME IInv, pc = "done" PROVE out = data
    BY DEF RoundTrip
  <1>1. out \in Seq(Int64) /\ data \in Seq(Int64) /\ Len(out) = Len(data)
    BY DEF IInv, TypeOK, ReadInv, N
  <1>2. \A r \in 1 .. Len(out) : out[r] = data[r]
    BY DEF IInv, ReadInv, Reading
  <1> QED
    BY <1>1, <1>2, SeqEqual

\* The next item is as wide as the reader takes it.
LEMMA ReadWhole == IInv => WholeChunkRead
  <1> SUFFICES ASSUME IInv PROVE WholeChunkRead
    OBVIOUS
  <1>1. ASSUME pc = "readRuns", count < head.n_values PROVE Aligned(head.sz[BlockAt])
    <2>1. /\ count = Len(out) /\ Len(out) < N /\ BlockOf(count) = BlockAt
      BY <1>1, BlockAtRight
    <2>2. /\ pos < Len(body) /\ body[pos + 1].first = Len(out)
          /\ body[pos + 1].size = head.sz[BlockOf(body[pos + 1].first)]
      BY <1>1, <2>1, NextItem DEF Reading
    <2> QED
      BY <2>1, <2>2 DEF Aligned
  <1>2. ASSUME pc = "readPlain", block < head.blocks, count < RowsIn(block)
        PROVE  Aligned(head.sz[block])
    <2>1. Len(out) < N /\ BlockOf(Len(out)) = block
      BY <1>2, PlainRight
    <2>2. /\ pos < Len(body) /\ body[pos + 1].first = Len(out)
          /\ body[pos + 1].size = head.sz[BlockOf(body[pos + 1].first)]
      BY <1>2, <2>1, NextItem DEF Reading
    <2> QED
      BY <2>1, <2>2 DEF Aligned
  <1>3. ASSUME pc = "done" PROVE at = result
    BY <1>3, AllRead DEF IInv, ReadInv, Reading
  <1> QED
    BY <1>1, <1>2, <1>3 DEF WholeChunkRead

\* Whatever the rows, the number of rows and the widths: the inductive
\* invariant of WriteType and GetBatch.
THEOREM Inductive == Spec => []IInv
  BY InitInv, Step, PTL DEF Spec

\* The types: no run of more than MaxRun rows, no difference that needs more
\* than the word's bytes.
THEOREM Types == Spec => []TypeOK
  <1>1. IInv => TypeOK
    BY DEF IInv
  <1> QED
    BY <1>1, Inductive, PTL

\* GetBatch returns the rows WriteType was given.
THEOREM RowsReadBack == Spec => []RoundTrip
  BY ReadBack, Inductive, PTL

\* The reader takes up the chunk item by item, and no byte more or less.
THEOREM ChunkReadWhole == Spec => []WholeChunkRead
  BY ReadWhole, Inductive, PTL
=============================================================================
