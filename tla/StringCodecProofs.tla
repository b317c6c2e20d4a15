-------------------------- MODULE StringCodecProofs --------------------------
(* Proofs about Bloom and StringCodec: no chunk is pruned that holds a     *)
(* wanted string.                                                          *)
EXTENDS StringCodec, Int64CodecProofs

-----------------------------------------------------------------------------
(* The filter                                                              *)

\* Membership in the n-grams, spelled out.
LEMMA InNGrams ==
    ASSUME NEW w, NEW g
    PROVE  g \in NGrams(w) <=>
               \E m \in 1 .. Len(w) : \E j \in GramsAt(w, m) : g = SubSeq(w, m, m + j - 1)
  <1> DEFINE Grams(m) == {SubSeq(w, m, m + j - 1) : j \in GramsAt(w, m)}
  <1>1. \A m \in 1 .. Len(w) :
            g \in Grams(m) <=> \E j \in GramsAt(w, m) : g = SubSeq(w, m, m + j - 1)
    OBVIOUS
  <1>2. NGrams(w) = UNION {Grams(m) : m \in 1 .. Len(w)}
    BY DEF NGrams
  <1> HIDE DEF Grams
  <1>3. g \in NGrams(w) <=> \E m \in 1 .. Len(w) : g \in Grams(m)
    BY <1>2, Zenon
  <1> QED
    BY <1>1, <1>3, Zenon

\* The n-grams of a part are n-grams of the string.
LEMMA GramsOfPart ==
    ASSUME NEW p \in Seq(Chars), NEW s \in Seq(Chars), NEW k \in 1 .. Len(s) + 1,
           IsAt(p, s, k)
    PROVE  NGrams(p) \subseteq NGrams(s)
  <1>1. /\ Len(p) \in Nat /\ Len(s) \in Nat /\ k \in Nat /\ MaxGram \in Nat
        /\ k + Len(p) - 1 <= Len(s)
        /\ p = SubSeq(s, k, k + Len(p) - 1)
    BY MaxGramAssumption DEF IsAt
  <1>2. SUFFICES ASSUME NEW g \in NGrams(p) PROVE g \in NGrams(s)
    OBVIOUS
  <1>3. PICK m \in 1 .. Len(p) : \E j \in GramsAt(p, m) : g = SubSeq(p, m, m + j - 1)
    BY InNGrams
  <1>4. PICK j \in GramsAt(p, m) : g = SubSeq(p, m, m + j - 1)
    BY <1>3
  <1>5. j \in 1 .. MaxGram /\ j \in Nat /\ m + j - 1 <= Len(p)
    BY <1>1 DEF GramsAt
  <1>6. PICK n \in Nat : n = k + m - 1
    BY <1>1
  <1>7. n \in 1 .. Len(s) /\ n + j - 1 <= Len(s) /\ j \in GramsAt(s, n)
    BY <1>1, <1>5, <1>6 DEF GramsAt
  <1>8. \A x \in 1 .. Len(p) : p[x] = s[k + x - 1]
    <2>1. ASSUME NEW x \in 1 .. Len(p) PROVE SubSeq(s, k, k + Len(p) - 1)[x] = s[k + x - 1]
      BY <1>1
    <2> QED
      BY <1>1, <2>1
  <1>9. SubSeq(p, m, m + j - 1) = SubSeq(s, n, n + j - 1)
    <2> DEFINE a == SubSeq(p, m, m + j - 1)
               b == SubSeq(s, n, n + j - 1)
    <2>1. a \in Seq(Chars) /\ Len(a) = j
      BY <1>1, <1>5
    <2>2. b \in Seq(Chars) /\ Len(b) = j
      BY <1>1, <1>5, <1>6, <1>7
    <2>3. ASSUME NEW x \in 1 .. j PROVE a[x] = b[x]
      <3>1. a[x] = p[m + x - 1] /\ m + x - 1 \in 1 .. Len(p)
        BY <1>1, <1>5
      <3>2. b[x] = s[n + x - 1]
        BY <1>1, <1>5, <1>7
      <3>3. k + (m + x - 1) - 1 = n + x - 1
        BY <1>1, <1>6
      <3>4. p[m + x - 1] = s[k + (m + x - 1) - 1]
        BY <1>8, <3>1
      <3> QED
        BY <3>1, <3>2, <3>3, <3>4
    <2> HIDE DEF a, b
    <2>4. a = b
      BY <2>1, <2>2, <2>3, SeqEqual
    <2> QED
      BY <2>4 DEF a, b
  <1> QED
    BY <1>4, <1>7, <1>9, InNGrams

\* A string has every bit that a part of it has.
LEMMA BitsOfPart ==
    ASSUME NEW p \in Seq(Chars), NEW s \in Seq(Chars), Occurs(p, s)
    PROVE  Add(p) \subseteq Add(s)
  <1>1. NGrams(p) \subseteq NGrams(s)
    BY GramsOfPart DEF Occurs
  <1> QED
    BY <1>1 DEF Add

-----------------------------------------------------------------------------
(* The chunk                                                               *)

\* The words looked at are in the dictionary, the filter and the count.
DictInv ==
    /\ strs \in Strings /\ want \in Wanted
    /\ reverse_dict \in Seq(Seq(Chars)) /\ words_size \in Nat
    /\ \A k \in 1 .. Len(reverse_dict) :
           Add(reverse_dict[k]) \subseteq bloom /\ Len(reverse_dict[k]) <= words_size
    /\ sPc = "dict" => i \in 0 .. Len(strs) /\ \A r \in 1 .. i : Known(strs[r])
    /\ sPc # "dict" => \A r \in 1 .. Len(strs) : Known(strs[r])

PruneInv == DictInv /\ PruneSound

LEMMA StringFacts ==
    ASSUME DictInv
    PROVE  strs \in Seq(Seq(Chars)) /\ Len(strs) \in Nat /\ Len(reverse_dict) \in Nat
  BY StringsAssumption DEF DictInv

LEMMA PruneInit == StringInit => PruneInv
  <1> SUFFICES ASSUME StringInit PROVE PruneInv
    OBVIOUS
  <1>1. strs \in Seq(Seq(Chars))
    BY StringsAssumption DEF StringInit
  <1>2. DictInv
    BY <1>1 DEF StringInit, CodecInit, DictInv
  <1>3. PruneSound
    BY DEF StringInit, PruneSound
  <1> QED
    BY <1>2, <1>3 DEF PruneInv

LEMMA AddWordStep == ASSUME PruneInv, AddWord PROVE PruneInv'
  <1> DEFINE s == strs[i + 1]
  <1>1. /\ strs \in Seq(Seq(Chars)) /\ Len(strs) \in Nat /\ Len(reverse_dict) \in Nat
        /\ i \in 0 .. Len(strs) - 1 /\ s \in Seq(Chars) /\ Len(s) \in Nat
        /\ reverse_dict \in Seq(Seq(Chars)) /\ words_size \in Nat
    BY StringFacts DEF PruneInv, DictInv, AddWord
  <1>2. /\ sPc = "dict" /\ sPc' = "dict" /\ i' = i + 1 /\ strs' = strs /\ want' = want
        /\ Known(s) => /\ reverse_dict' = reverse_dict /\ words_size' = words_size
                       /\ bloom' = bloom
        /\ ~ Known(s) => /\ reverse_dict' = Append(reverse_dict, s)
                         /\ words_size' = words_size + Len(s)
                         /\ bloom' = bloom \cup Add(s)
    BY DEF AddWord, BloomWith
  <1>3. ASSUME NEW k \in 1 .. Len(reverse_dict)
        PROVE  /\ reverse_dict[k] \in Seq(Chars) /\ Len(reverse_dict[k]) \in Nat
               /\ Add(reverse_dict[k]) \subseteq bloom
               /\ Len(reverse_dict[k]) <= words_size
    BY <1>1 DEF PruneInv, DictInv
  <1> HIDE DEF s
  <1>4. CASE Known(s)
    <2>1. \A r \in 1 .. i + 1 : Known(strs[r])
      BY <1>1, <1>2, <1>4 DEF s, PruneInv, DictInv
    <2>2. UNCHANGED <<strs, want, reverse_dict, words_size, bloom>> /\ i' \in 0 .. Len(strs)
      BY <1>1, <1>2, <1>4
    <2>3. \A r \in 1 .. i' : Known(strs[r])'
      BY <1>2, <2>1, <2>2 DEF Known
    <2>4. DictInv'
      BY <1>2, <2>2, <2>3 DEF PruneInv, DictInv
    <2> QED
      BY <1>2, <2>4 DEF PruneInv, PruneSound
  <1>5. CASE ~ Known(s)
    <2>1. /\ reverse_dict' \in Seq(Seq(Chars))
          /\ Len(reverse_dict') = Len(reverse_dict) + 1
          /\ \A k \in 1 .. Len(reverse_dict) : reverse_dict'[k] = reverse_dict[k]
          /\ reverse_dict'[Len(reverse_dict) + 1] = s
      <3>1. reverse_dict' = Append(reverse_dict, s)
        BY <1>2, <1>5
      <3>2. /\ Append(reverse_dict, s) \in Seq(Seq(Chars))
            /\ Len(Append(reverse_dict, s)) = Len(reverse_dict) + 1
            /\ \A k \in 1 .. Len(reverse_dict) : Append(reverse_dict, s)[k] = reverse_dict[k]
            /\ Append(reverse_dict, s)[Len(reverse_dict) + 1] = s
        BY <1>1, AppendProperties
      <3> QED
        BY <3>1, <3>2, Zenon
    <2>2. words_size' \in Nat
      BY <1>1, <1>2, <1>5
    <2>3. ASSUME NEW k \in 1 .. Len(reverse_dict')
          PROVE  Add(reverse_dict'[k]) \subseteq bloom' /\ Len(reverse_dict'[k]) <= words_size'
      <3>1. CASE k \in 1 .. Len(reverse_dict)
        <4>1. reverse_dict'[k] = reverse_dict[k]
          BY <2>1, <3>1
        <4>2. Add(reverse_dict[k]) \subseteq bloom'
          BY <1>2, <1>3, <1>5, <3>1
        <4>3. Len(reverse_dict[k]) <= words_size + Len(s)
          BY <1>1, <1>3, <3>1
        <4> QED
          BY <1>2, <1>5, <4>1, <4>2, <4>3
      <3>2. CASE k = Len(reverse_dict) + 1
        BY <1>1, <1>2, <1>5, <2>1, <3>2
      <3> QED
        BY <1>1, <2>1, <3>1, <3>2
    <2>4. ASSUME NEW r \in 1 .. i + 1
          PROVE  \E k \in 1 .. Len(reverse_dict') : reverse_dict'[k] = strs[r]
      <3>1. CASE r \in 1 .. i
        <4>1. PICK k \in 1 .. Len(reverse_dict) : reverse_dict[k] = strs[r]
          BY <1>2, <3>1 DEF PruneInv, DictInv, Known
        <4>2. k \in 1 .. Len(reverse_dict') /\ reverse_dict'[k] = strs[r]
          BY <1>1, <2>1, <4>1
        <4> QED
          BY <4>2
      <3>2. CASE r = i + 1
        <4>1. strs[r] = reverse_dict'[Len(reverse_dict) + 1]
          BY <2>1, <3>2 DEF s
        <4>2. Len(reverse_dict) + 1 \in 1 .. Len(reverse_dict')
          BY <1>1, <2>1
        <4> QED
          BY <4>1, <4>2
      <3> QED
        BY <1>1, <3>1, <3>2
    <2>5. \A r \in 1 .. i' : Known(strs[r])'
      BY <1>2, <2>4 DEF Known
    <2>6. i' \in 0 .. Len(strs') /\ strs' \in Strings /\ want' \in Wanted
      BY <1>1, <1>2 DEF PruneInv, DictInv
    <2>7. DictInv'
      BY <1>2, <2>1, <2>2, <2>3, <2>5, <2>6 DEF DictInv
    <2> QED
      BY <1>2, <2>7 DEF PruneInv, PruneSound
  <1> QED
    BY <1>4, <1>5

\* What every later step leaves alone.
DictKept == UNCHANGED <<strs, want, reverse_dict, words_size, bloom>>

LEMMA LaterStep ==
    ASSUME PruneInv, DictKept, sPc # "dict", sPc' # "dict"
    PROVE  DictInv'
  BY DEF PruneInv, DictInv, DictKept, Known

\* Every row is one of the words.
LEMMA RowsKnown ==
    ASSUME PruneInv, sPc # "dict", NEW s \in Distinct
    PROVE  s \in Seq(Chars) /\ Add(s) \subseteq bloom /\ Len(s) <= words_size
  <1>1. PICK r \in 1 .. Len(strs) : s = strs[r]
    BY DEF Distinct
  <1>2. PICK k \in 1 .. Len(reverse_dict) : reverse_dict[k] = s
    BY <1>1 DEF PruneInv, DictInv, Known
  <1> QED
    BY <1>2 DEF PruneInv, DictInv

LEMMA PruneByBloomStep == ASSUME PruneInv, PruneByBloom PROVE PruneInv'
  <1>1. /\ sPc = "stored" /\ sPc' = "pruned" /\ ~ (OptionBits \subseteq bloom)
        /\ DictKept
    BY DEF PruneByBloom, CheckIn, DictKept
  <1>2. /\ want \in Wanted \ {NoOptions} /\ OptionBits = Add(want.part)
    BY <1>1 DEF OptionBits, PruneInv, DictInv
  <1>3. want.part \in Seq(Chars)
    BY <1>2, WantedAssumption
  <1>4. ASSUME NEW s \in Distinct PROVE ~ Occurs(want.part, s)
    <2>1. s \in Seq(Chars) /\ Add(s) \subseteq bloom
      BY <1>1, RowsKnown
    <2> QED
      BY <1>1, <1>2, <1>3, <2>1, BitsOfPart
  <1>5. PruneSound'
    BY <1>1, <1>4 DEF PruneSound, Distinct, DictKept
  <1> QED
    BY <1>1, <1>5, LaterStep DEF PruneInv

LEMMA PruneEmptyStep == ASSUME PruneInv, PruneEmpty PROVE PruneInv'
  <1>1. /\ sPc = "stored" /\ sPc' = "pruned" /\ want.skip_empty /\ RawSize = 0
        /\ DictKept
    BY DEF PruneEmpty, OnlyEmpty, DictKept
  <1>2. words_size = 0
    <2>1. HeaderSize \in Int /\ words_size \in Nat
      BY StringFacts, WidthsAssumption DEF HeaderSize, NUWords, PruneInv, DictInv
    <2> QED
      BY <1>1, <2>1 DEF RawSize, FinalOffset
  <1>3. ASSUME NEW s \in Distinct PROVE s = <<>>
    <2>1. s \in Seq(Chars) /\ Len(s) <= 0
      BY <1>1, <1>2, RowsKnown
    <2> QED
      BY <2>1, EmptySeq
  <1>4. PruneSound'
    BY <1>1, <1>3 DEF PruneSound, Distinct, DictKept
  <1> QED
    BY <1>1, <1>4, LaterStep DEF PruneInv

LEMMA PruneStep == PruneInv /\ [StringNext]_allVars => PruneInv'
  <1> SUFFICES ASSUME PruneInv, [StringNext]_allVars PROVE PruneInv'
    OBVIOUS
  <1>1. CASE AddWord
    BY <1>1, AddWordStep
  <1>2. CASE WordsKnown
    <2>1. /\ sPc = "dict" /\ i >= Len(strs) /\ sPc' = "offsets" /\ DictKept
      BY <1>2 DEF WordsKnown, DictKept
    <2>2. \A r \in 1 .. Len(strs) : Known(strs[r])
      BY <2>1, StringFacts DEF PruneInv, DictInv
    <2>3. DictInv'
      BY <2>1, <2>2 DEF PruneInv, DictInv, DictKept, Known
    <2> QED
      BY <2>1, <2>3 DEF PruneInv, PruneSound
  <1>3. CASE PruneByBloom
    BY <1>3, PruneByBloomStep
  <1>4. CASE PruneEmpty
    BY <1>4, PruneEmptyStep
  <1>5. CASE WriteWord \/ StoreIndices \/ WriteIndices \/ IndicesWritten \/ TearString
             \/ ReadRaw \/ ReadIndices \/ IndicesRead \/ Lookup \/ LookupDone
    <2>1. sPc # "dict" /\ sPc' # "dict" /\ sPc' # "pruned" /\ DictKept
      BY <1>5 DEF WriteWord, StoreIndices, WriteIndices, IndicesWritten, TearString,
                  ReadRaw, ReadIndices, IndicesRead, Lookup, LookupDone, DictKept,
                  stringVars
    <2> QED
      BY <2>1, LaterStep DEF PruneInv, PruneSound
  <1>6. CASE UNCHANGED allVars
    BY <1>6 DEF PruneInv, DictInv, PruneSound, Known, Distinct, allVars, stringVars,
                codecVars, writeVars
  <1> QED
    BY <1>1, <1>2, <1>3, <1>4, <1>5, <1>6 DEF StringNext

\* Whatever the strings, the hash functions and the options: a chunk that is
\* pruned, by its filter or as empty, holds no wanted string.
THEOREM PruningSound == StringSpec => []PruneSound
  <1>1. PruneInv => PruneSound
    BY DEF PruneInv
  <1> QED
    BY PruneInit, PruneStep, <1>1, PTL DEF StringSpec
-----------------------------------------------------------------------------
(* The strings come back                                                   *)

\* The codec of the indices has not been called.
Unused ==
    /\ pc = "idle" /\ min_val = <<>> /\ max_val = <<>> /\ unique = {}
    /\ cnt = 0 /\ val_last = 0 /\ head = NoHead /\ body = <<>> /\ result = 0
    /\ block = 0 /\ count = 0 /\ pos = 0 /\ at = 0 /\ out = <<>>

\* The number of words put into the chunk.
Placed == IF sPc = "dict" THEN 0 ELSE IF sPc = "offsets" THEN i ELSE Len(reverse_dict)

\* f[k] is the number of characters of the first k words.
Sums(f) ==
    /\ f[0] = 0 /\ f[Len(reverse_dict)] = words_size
    /\ \A k \in 1 .. Len(reverse_dict) : f[k] = f[k - 1] + Len(reverse_dict[k])

\* The words of the chunk are where the offsets say.
WordsInv ==
    /\ offsets \in Seq(Nat) /\ raw \in Seq(Chars)
    /\ Placed \in 0 .. Len(reverse_dict)
    /\ Len(offsets) = Placed + 1 /\ offsets[Placed + 1] = Len(raw)
    /\ \A k \in 1 .. Placed :
           /\ offsets[k] <= offsets[k + 1] /\ offsets[k + 1] <= Len(raw)
           /\ SubSeq(raw, offsets[k] + 1, offsets[k + 1]) = reverse_dict[k]
    /\ \E f \in [0 .. Len(reverse_dict) -> 0 .. words_size] :
           Sums(f) /\ \A k \in 0 .. Placed : offsets[k + 1] = f[k]

\* The rows are stored as indices of their words.
IndexInv ==
    /\ Len(reverse_dict) <= Len(strs)
    /\ sPc = "dict" => Len(reverse_dict) <= i
    /\ sPc \in {"dict", "offsets"} => Unused
    /\ sPc \notin {"dict", "offsets"} =>
           /\ IInv /\ Len(data) = Len(strs)
           /\ \A r \in 1 .. Len(strs) : /\ data[r] \in 0 .. Len(reverse_dict) - 1
                                        /\ reverse_dict[data[r] + 1] = strs[r]
    /\ sPc \in {"stored", "pruned", "torn"} => pc = "written"
    /\ sPc = "readIndices" => pc \in {"written"} \cup Reading
    /\ sPc \in {"lookup", "read"} => pc = "done"

\* What has been read, and where the file stands.
EndInv ==
    /\ sPc \notin {"dict", "offsets", "indices"} => size = ChunkBytes
    /\ sPc = "pruned" => sAt = size
    /\ sPc \in {"readIndices", "lookup", "read"} =>
           NUWords = Len(reverse_dict) /\ sAt = BloomBytes + HeaderSize + RawSize
    /\ sOut \in Seq(Seq(Chars)) /\ Len(sOut) <= NWords
    /\ \A r \in 1 .. Len(sOut) : sOut[r] = strs[r]
    /\ sPc = "read" => Len(sOut) = NWords

ChunkInv == PruneInv /\ WordsInv /\ IndexInv /\ EndInv

LEMMA ChunkInit == StringInit => ChunkInv
  <1> SUFFICES ASSUME StringInit PROVE ChunkInv
    OBVIOUS
  <1> USE DEF StringInit, CodecInit
  <1>1. strs \in Seq(Seq(Chars)) /\ Len(strs) \in Nat /\ CountSpan \in Nat \ {0}
    BY StringsAssumption, WidthsAssumption
  <1>2. PruneInv
    BY PruneInit
  <1>3. WordsInv
    <2> DEFINE f == [k \in 0 .. 0 |-> 0]
    <2>1. Len(reverse_dict) = 0 /\ Placed = 0 /\ words_size = 0
      BY DEF Placed
    <2>2. f \in [0 .. Len(reverse_dict) -> 0 .. words_size] /\ Sums(f)
      BY <2>1 DEF Sums
    <2>3. \A k \in 0 .. Placed : offsets[k + 1] = f[k]
      BY <2>1
    <2>4. offsets \in Seq(Nat) /\ raw \in Seq(Chars) /\ Len(offsets) = 1
          /\ offsets[1] = Len(raw)
      OBVIOUS
    <2> HIDE DEF f
    <2> QED
      BY <2>1, <2>2, <2>3, <2>4 DEF WordsInv
  <1>4. IndexInv
    BY <1>1 DEF IndexInv, Unused
  <1>5. EndInv
    <2>1. NWords \in Nat
      BY <1>1 DEF NWords
    <2> QED
      BY <2>1 DEF EndInv
  <1> QED
    BY <1>2, <1>3, <1>4, <1>5 DEF ChunkInv

\* The types of what the chunk is made from.
LEMMA ChunkFacts ==
    ASSUME ChunkInv
    PROVE  /\ strs \in Seq(Seq(Chars)) /\ Len(strs) \in Nat
           /\ Len(strs) <= Half /\ Len(strs) <= BlockSize * (CountSpan - 1)
           /\ reverse_dict \in Seq(Seq(Chars)) /\ Len(reverse_dict) \in Nat
           /\ words_size \in Nat
           /\ \A k \in 1 .. Len(reverse_dict) :
                  reverse_dict[k] \in Seq(Chars) /\ Len(reverse_dict[k]) \in Nat
           /\ offsets \in Seq(Nat) /\ raw \in Seq(Chars) /\ Len(raw) \in Nat
           /\ NWords \in Nat /\ NUWords \in Nat /\ HeaderSize \in Nat
           /\ BloomBytes \in Nat
  <1>1. strs \in Seq(Seq(Chars)) /\ reverse_dict \in Seq(Seq(Chars)) /\ words_size \in Nat
        /\ Len(strs) <= Half /\ Len(strs) <= BlockSize * (CountSpan - 1)
    BY StringsAssumption DEF ChunkInv, PruneInv, DictInv
  <1>2. offsets \in Seq(Nat) /\ raw \in Seq(Chars)
    BY DEF ChunkInv, WordsInv
  <1>3. NWords \in Nat /\ NUWords \in Nat
    BY <1>1, WidthsAssumption DEF NWords, NUWords
  <1> QED
    BY <1>1, <1>2, <1>3, BloomBytesAssumption DEF HeaderSize

\* A word that is new is put behind the others.
LEMMA AddWordChunk == ASSUME ChunkInv, AddWord PROVE ChunkInv'
  <1> DEFINE s == strs[i + 1]
             D == Len(reverse_dict)
  <1>1. /\ strs \in Seq(Seq(Chars)) /\ Len(strs) \in Nat /\ D \in Nat
        /\ i \in 0 .. Len(strs) - 1 /\ s \in Seq(Chars) /\ Len(s) \in Nat
        /\ reverse_dict \in Seq(Seq(Chars)) /\ words_size \in Nat
    BY ChunkFacts DEF ChunkInv, PruneInv, DictInv, AddWord
  <1>2. /\ sPc = "dict" /\ sPc' = "dict" /\ i' = i + 1 /\ strs' = strs
        /\ Known(s) => reverse_dict' = reverse_dict /\ words_size' = words_size
        /\ ~ Known(s) => /\ reverse_dict' = Append(reverse_dict, s)
                         /\ words_size' = words_size + Len(s)
        /\ UNCHANGED <<offsets, raw, size, sAt, sOut, data, pc, min_val, max_val, unique,
                       cnt, val_last, head, body, result, block, count, pos, at, out>>
    BY DEF AddWord, readVars
  <1>3. PruneInv'
    BY AddWordStep DEF ChunkInv
  <1>4. Placed = 0 /\ Placed' = 0
    BY <1>2 DEF Placed
  <1>5. PICK f \in [0 .. D -> 0 .. words_size] : Sums(f) /\ offsets[1] = f[0]
    BY <1>4 DEF ChunkInv, WordsInv
  <1>6. D <= i
    BY <1>2 DEF ChunkInv, IndexInv
  <1> HIDE DEF s
  <1>7. \E g \in [0 .. Len(reverse_dict') -> 0 .. words_size'] :
            Sums(g)' /\ offsets'[1] = g[0]
    <2>1. CASE Known(s)
      <3>1. Sums(f)' /\ f \in [0 .. Len(reverse_dict') -> 0 .. words_size']
        BY <1>2, <1>5, <2>1 DEF Sums
      <3> QED
        BY <1>2, <1>5, <3>1
    <2>2. CASE ~ Known(s)
      <3> DEFINE g == [k \in 0 .. D + 1 |-> IF k <= D THEN f[k] ELSE words_size + Len(s)]
      <3>1. /\ Len(reverse_dict') = D + 1 /\ reverse_dict'[D + 1] = s
            /\ \A k \in 1 .. D : reverse_dict'[k] = reverse_dict[k]
        <4>1. reverse_dict' = Append(reverse_dict, s)
          BY <1>2, <2>2
        <4>2. /\ Len(Append(reverse_dict, s)) = D + 1
              /\ Append(reverse_dict, s)[D + 1] = s
              /\ \A k \in 1 .. D : Append(reverse_dict, s)[k] = reverse_dict[k]
          BY <1>1, AppendProperties
        <4> QED
          BY <4>1, <4>2, Zenon
      <3>2. g \in [0 .. D + 1 -> 0 .. words_size + Len(s)]
        <4> SUFFICES ASSUME NEW k \in 0 .. D + 1 PROVE g[k] \in 0 .. words_size + Len(s)
          OBVIOUS
        <4>1. CASE k <= D
          <5>1. k \in 0 .. D
            BY <1>1, <4>1
          <5>2. f[k] \in 0 .. words_size
            BY <1>5, <5>1
          <5>3. g[k] = f[k]
            BY <4>1
          <5> QED
            BY <1>1, <5>2, <5>3
        <4>2. CASE k = D + 1
          BY <1>1, <4>2
        <4> QED
          BY <1>1, <4>1, <4>2
      <3>3. g[0] = 0 /\ g[0] = f[0]
        BY <1>1, <1>5 DEF Sums
      <3>4. g[D + 1] = words_size + Len(s) /\ g[D] = words_size
        BY <1>1, <1>5 DEF Sums
      <3>5. ASSUME NEW k \in 1 .. D PROVE g[k] = g[k - 1] + Len(reverse_dict[k])
        BY <1>1, <1>5 DEF Sums
      <3> HIDE DEF g
      <3>6. ASSUME NEW k \in 1 .. D + 1 PROVE g[k] = g[k - 1] + Len(reverse_dict'[k])
        <4>1. CASE k \in 1 .. D
          BY <3>1, <3>5, <4>1
        <4>2. CASE k = D + 1
          BY <1>1, <3>1, <3>4, <4>2
        <4> QED
          BY <1>1, <4>1, <4>2
      <3>7. PICK h \in [0 .. D + 1 -> 0 .. words_size + Len(s)] :
                /\ h[0] = 0 /\ h[0] = f[0] /\ h[D + 1] = words_size + Len(s)
                /\ \A k \in 1 .. D + 1 : h[k] = h[k - 1] + Len(reverse_dict'[k])
        BY <3>2, <3>3, <3>4, <3>6
      <3>8. Sums(h)'
        BY <1>2, <2>2, <3>1, <3>7 DEF Sums
      <3> QED
        BY <1>2, <1>5, <2>2, <3>1, <3>7, <3>8
    <2> QED
      BY <2>1, <2>2
  <1>8. WordsInv'
    <2>1. offsets' \in Seq(Nat) /\ raw' \in Seq(Chars) /\ Len(offsets') = 1
          /\ offsets'[1] = Len(raw')
      BY <1>2, <1>4 DEF ChunkInv, WordsInv
    <2>2. Len(reverse_dict') \in Nat
      BY <1>3, LenProperties DEF PruneInv, DictInv
    <2>3. \E g \in [0 .. Len(reverse_dict') -> 0 .. words_size'] :
              Sums(g)' /\ \A k \in 0 .. Placed' : offsets'[k + 1] = g[k]
      <3>1. PICK g \in [0 .. Len(reverse_dict') -> 0 .. words_size'] :
                Sums(g)' /\ offsets'[1] = g[0]
        BY <1>7
      <3>2. \A k \in 0 .. Placed' : offsets'[k + 1] = g[k]
        BY <1>4, <3>1
      <3> QED
        BY <3>1, <3>2
    <2> QED
      BY <1>4, <2>1, <2>2, <2>3 DEF WordsInv
  <1>9. IndexInv'
    <2>1. Len(reverse_dict') <= i + 1
      <3>1. CASE Known(s)
        BY <1>1, <1>2, <1>6, <3>1
      <3>2. CASE ~ Known(s)
        <4>1. Len(reverse_dict') = D + 1
          BY <1>1, <1>2, <3>2, AppendProperties
        <4> QED
          BY <1>1, <1>6, <4>1
      <3> QED
        BY <3>1, <3>2
    <2>2. Len(reverse_dict') <= Len(strs')
      <3>1. Len(reverse_dict') \in Nat
        BY <1>3, LenProperties DEF PruneInv, DictInv
      <3> QED
        BY <1>1, <1>2, <2>1, <3>1
    <2>3. Unused'
      BY <1>2 DEF ChunkInv, IndexInv, Unused
    <2> QED
      BY <1>2, <2>1, <2>2, <2>3 DEF IndexInv
  <1>10. EndInv'
    BY <1>2 DEF ChunkInv, EndInv, NWords
  <1> QED
    BY <1>3, <1>8, <1>9, <1>10 DEF ChunkInv

\* The words are as they were.
WordsKept == UNCHANGED <<strs, reverse_dict, words_size, offsets, raw>>

LEMMA SamePlaces ==
    ASSUME ChunkInv, WordsKept, Placed' = Placed
    PROVE  WordsInv'
  <1>1. PICK f \in [0 .. Len(reverse_dict) -> 0 .. words_size] :
            Sums(f) /\ \A k \in 0 .. Placed : offsets[k + 1] = f[k]
    BY DEF ChunkInv, WordsInv
  <1>2. Sums(f)'
    BY <1>1 DEF Sums, WordsKept
  <1>3. \E g \in [0 .. Len(reverse_dict') -> 0 .. words_size'] :
            Sums(g)' /\ \A k \in 0 .. Placed' : offsets'[k + 1] = g[k]
    BY <1>1, <1>2 DEF WordsKept
  <1> QED
    BY <1>3 DEF ChunkInv, WordsInv, WordsKept

LEMMA WordsKnownChunk == ASSUME ChunkInv, WordsKnown PROVE WordsInv' /\ IndexInv' /\ EndInv'
  <1>1. /\ sPc = "dict" /\ sPc' = "offsets" /\ i' = 0 /\ WordsKept
        /\ UNCHANGED <<size, sAt, sOut, data, pc, min_val, max_val, unique, cnt, val_last,
                       head, body, result, block, count, pos, at, out>>
    BY DEF WordsKnown, WordsKept, readVars
  <1>2. WordsInv'
    <2>1. Placed = 0 /\ Placed' = 0
      BY <1>1 DEF Placed
    <2> QED
      BY <1>1, <2>1, SamePlaces
  <1>3. IndexInv'
    BY <1>1 DEF ChunkInv, IndexInv, Unused, WordsKept
  <1>4. EndInv'
    BY <1>1 DEF ChunkInv, EndInv, NWords, WordsKept
  <1> QED
    BY <1>2, <1>3, <1>4

\* What a concatenation has in front and behind.
LEMMA FrontKept ==
    ASSUME NEW S, NEW s \in Seq(S), NEW t \in Seq(S), NEW a \in Nat, NEW b \in Nat,
           a <= b, b <= Len(s)
    PROVE  SubSeq(s \o t, a + 1, b) = SubSeq(s, a + 1, b)
  <1>1. CASE a = b
    BY <1>1, SubSeqEmpty
  <1>2. CASE a < b
    <2>1. a + 1 \in 1 .. Len(s) /\ b \in 1 .. Len(s)
      BY <1>2
    <2> QED
      BY <2>1, SubSeqOfConcat1
  <1> QED
    BY <1>1, <1>2

LEMMA BackIs ==
    ASSUME NEW S, NEW s \in Seq(S), NEW t \in Seq(S)
    PROVE  SubSeq(s \o t, Len(s) + 1, Len(s) + Len(t)) = t
  <1>1. Len(s) \in Nat /\ Len(t) \in Nat
    OBVIOUS
  <1>2. CASE Len(t) = 0
    <2>1. t = <<>>
      BY <1>2, EmptySeq
    <2>2. SubSeq(s \o t, Len(s) + 1, Len(s) + Len(t)) = <<>>
      BY <1>1, <1>2, SubSeqEmpty
    <2> QED
      BY <2>1, <2>2
  <1>3. CASE Len(t) > 0
    <2>1. /\ Len(s) + 1 \in Len(s) + 1 .. Len(s) + Len(t)
          /\ Len(s) + Len(t) \in Len(s) + 1 .. Len(s) + Len(t)
          /\ Len(s) + 1 - Len(s) = 1 /\ Len(s) + Len(t) - Len(s) = Len(t)
      BY <1>1, <1>3
    <2>2. SubSeq(s \o t, Len(s) + 1, Len(s) + Len(t)) = SubSeq(t, 1, Len(t))
      BY <2>1, SubSeqOfConcat2
    <2> QED
      BY <2>2, SubSeqFull
  <1> QED
    BY <1>1, <1>2, <1>3

\* The words put down already stay where they are, and the next one is
\* where its offsets say.
LEMMA WriteWordChunk == ASSUME ChunkInv, WriteWord PROVE WordsInv' /\ IndexInv' /\ EndInv'
  <1> DEFINE s == reverse_dict[i + 1]
             D == Len(reverse_dict)
  <1>1. /\ sPc = "offsets" /\ sPc' = "offsets" /\ i < D /\ i' = i + 1
        /\ offsets' = Append(offsets, offsets[i + 1] + Len(s)) /\ raw' = raw \o s
        /\ UNCHANGED <<strs, reverse_dict, words_size, size, sAt, sOut, data, pc, min_val,
                       max_val, unique, cnt, val_last, head, body, result, block, count,
                       pos, at, out>>
    BY DEF WriteWord, readVars
  <1>2. /\ Placed = i /\ Placed' = i + 1 /\ D \in Nat /\ i \in 0 .. D - 1 /\ i \in Nat
        /\ s \in Seq(Chars) /\ Len(s) \in Nat /\ raw \in Seq(Chars) /\ Len(raw) \in Nat
        /\ offsets \in Seq(Nat) /\ Len(offsets) = i + 1 /\ offsets[i + 1] = Len(raw)
    <2>1. /\ D \in Nat /\ raw \in Seq(Chars) /\ Len(raw) \in Nat /\ offsets \in Seq(Nat)
          /\ \A k \in 1 .. D : reverse_dict[k] \in Seq(Chars) /\ Len(reverse_dict[k]) \in Nat
      BY ChunkFacts
    <2>2. Placed = i /\ Placed' = i + 1
      BY <1>1 DEF Placed
    <2>3. i \in 0 .. D /\ Len(offsets) = i + 1 /\ offsets[i + 1] = Len(raw)
      BY <2>2 DEF ChunkInv, WordsInv
    <2>4. i \in 0 .. D - 1 /\ i + 1 \in 1 .. D
      BY <1>1, <2>1, <2>3
    <2> QED
      BY <2>1, <2>2, <2>3, <2>4
  <1>3. PICK f \in [0 .. D -> 0 .. words_size] :
            Sums(f) /\ \A k \in 0 .. i : offsets[k + 1] = f[k]
    BY <1>2 DEF ChunkInv, WordsInv
  <1> HIDE DEF s
  <1>4. raw' \in Seq(Chars) /\ Len(raw') = Len(raw) + Len(s)
    <2>1. raw \o s \in Seq(Chars) /\ Len(raw \o s) = Len(raw) + Len(s)
      BY <1>2, ConcatProperties
    <2> QED
      BY <1>1, <2>1, Zenon
  <1>5. /\ offsets' \in Seq(Nat) /\ Len(offsets') = i + 2
        /\ offsets'[i + 2] = Len(raw) + Len(s)
        /\ \A k \in 1 .. i + 1 : offsets'[k] = offsets[k]
    <2> DEFINE o == Len(raw) + Len(s)
    <2>1. offsets' = Append(offsets, o) /\ o \in Nat
      BY <1>1, <1>2
    <2> HIDE DEF o
    <2>2. /\ Append(offsets, o) \in Seq(Nat) /\ Len(Append(offsets, o)) = i + 2
          /\ Append(offsets, o)[i + 2] = o
          /\ \A k \in 1 .. i + 1 : Append(offsets, o)[k] = offsets[k]
      BY <1>2, <2>1, AppendProperties
    <2>3. o = Len(raw) + Len(s)
      BY DEF o
    <2> QED
      BY <2>1, <2>2, <2>3, Zenon
  <1>6. ASSUME NEW k \in 1 .. i + 1
        PROVE  /\ offsets'[k] <= offsets'[k + 1] /\ offsets'[k + 1] <= Len(raw')
               /\ SubSeq(raw', offsets'[k] + 1, offsets'[k + 1]) = reverse_dict'[k]
    <2>1. CASE k = i + 1
      <3>1. offsets'[k] = Len(raw) /\ offsets'[k + 1] = Len(raw) + Len(s)
        BY <1>2, <1>5, <2>1
      <3>2. SubSeq(raw \o s, Len(raw) + 1, Len(raw) + Len(s)) = s
        BY <1>2, BackIs
      <3>3. SubSeq(raw', offsets'[k] + 1, offsets'[k + 1]) = s
        BY <1>1, <3>1, <3>2, Zenon
      <3>4. reverse_dict'[k] = s
        BY <1>1, <2>1 DEF s
      <3> QED
        BY <1>2, <1>4, <3>1, <3>3, <3>4
    <2>2. CASE k \in 1 .. i
      <3>1. /\ offsets[k] <= offsets[k + 1] /\ offsets[k + 1] <= Len(raw)
            /\ SubSeq(raw, offsets[k] + 1, offsets[k + 1]) = reverse_dict[k]
            /\ offsets[k] \in Nat /\ offsets[k + 1] \in Nat
        <4>1. k \in 1 .. Placed /\ k \in 1 .. Len(offsets) /\ k + 1 \in 1 .. Len(offsets)
          BY <1>2, <2>2
        <4>2. offsets[k] \in Nat /\ offsets[k + 1] \in Nat
          BY <1>2, <4>1, ElementOfSeq
        <4> QED
          BY <4>1, <4>2 DEF ChunkInv, WordsInv
      <3>2. offsets'[k] = offsets[k] /\ offsets'[k + 1] = offsets[k + 1]
        BY <1>2, <1>5, <2>2
      <3>3. PICK a \in Nat, b \in Nat : a = offsets[k] /\ b = offsets[k + 1]
        BY <3>1
      <3>4. SubSeq(raw \o s, a + 1, b) = SubSeq(raw, a + 1, b)
        <4>1. a <= b /\ b <= Len(raw)
          BY <3>1, <3>3
        <4> QED
          BY <1>2, <4>1, FrontKept
      <3>5. SubSeq(raw', offsets'[k] + 1, offsets'[k + 1]) = reverse_dict'[k]
        BY <1>1, <3>1, <3>2, <3>3, <3>4, Zenon
      <3>6. offsets[k + 1] <= Len(raw) + Len(s)
        BY <1>2, <3>1
      <3> QED
        BY <1>4, <3>1, <3>2, <3>5, <3>6
    <2> QED
      BY <1>2, <2>1, <2>2
  <1>7. WordsInv'
    <2>1. Sums(f)'
      BY <1>1, <1>3 DEF Sums
    <2>2. \A k \in 0 .. i + 1 : offsets'[k + 1] = f[k]
      <3>1. f[i + 1] = f[i] + Len(s) /\ f[i] = Len(raw)
        BY <1>2, <1>3 DEF Sums, s
      <3>2. ASSUME NEW k \in 0 .. i PROVE offsets'[k + 1] = f[k]
        BY <1>2, <1>3, <1>5
      <3> QED
        BY <1>2, <1>5, <3>1, <3>2
    <2>3. \E g \in [0 .. Len(reverse_dict') -> 0 .. words_size'] :
              Sums(g)' /\ \A k \in 0 .. Placed' : offsets'[k + 1] = g[k]
      BY <1>1, <1>2, <1>3, <2>1, <2>2
    <2>4. /\ Placed' \in 0 .. Len(reverse_dict') /\ Len(offsets') = Placed' + 1
          /\ offsets'[Placed' + 1] = Len(raw')
      BY <1>1, <1>2, <1>4, <1>5
    <2> QED
      BY <1>2, <1>4, <1>5, <1>6, <2>3, <2>4 DEF WordsInv
  <1>8. IndexInv'
    BY <1>1 DEF ChunkInv, IndexInv, Unused
  <1>9. EndInv'
    BY <1>1 DEF ChunkInv, EndInv, NWords
  <1> QED
    BY <1>7, <1>8, <1>9

\* The rows' indices are a chunk that the codec of integers can store.
LEMMA StoreIndicesChunk ==
    ASSUME ChunkInv, StoreIndices PROVE WordsInv' /\ IndexInv' /\ EndInv'
  <1> DEFINE D == Len(reverse_dict)
  <1>1. /\ sPc = "offsets" /\ sPc' = "indices" /\ i >= D /\ i' = 0 /\ WordsKept
        /\ data' = [r \in 1 .. Len(strs) |-> IndexOf(strs[r])] /\ pc' = "start"
        /\ UNCHANGED <<size, sAt, sOut, min_val, max_val, unique, cnt, val_last, head, body,
                       result, block, count, pos, at, out>>
    BY DEF StoreIndices, WordsKept, readVars
  <1>2. /\ D \in Nat /\ Len(strs) \in Nat /\ D <= Len(strs) /\ Len(strs) <= Half
        /\ Len(strs) <= BlockSize * (CountSpan - 1)
    BY ChunkFacts DEF ChunkInv, IndexInv
  <1>3. WordsInv'
    <2>1. Placed = D /\ Placed' = D
      BY <1>1, <1>2 DEF ChunkInv, WordsInv, Placed, WordsKept
    <2> QED
      BY <1>1, <2>1, SamePlaces
  <1>4. ASSUME NEW r \in 1 .. Len(strs)
        PROVE  data'[r] \in 0 .. D - 1 /\ reverse_dict[data'[r] + 1] = strs[r]
    <2>1. PICK k \in 1 .. D : reverse_dict[k] = strs[r]
      BY <1>1 DEF ChunkInv, PruneInv, DictInv, Known
    <2>2. k - 1 \in 0 .. D - 1 /\ reverse_dict[(k - 1) + 1] = strs[r]
      BY <1>2, <2>1
    <2>3. \E m \in 0 .. D - 1 : reverse_dict[m + 1] = strs[r]
      BY <2>2
    <2>4. /\ IndexOf(strs[r]) \in 0 .. D - 1
          /\ reverse_dict[IndexOf(strs[r]) + 1] = strs[r]
      BY <2>3 DEF IndexOf
    <2>5. data'[r] = IndexOf(strs[r])
      BY <1>1
    <2> QED
      BY <2>4, <2>5
  <1>5. /\ Storable(data') /\ Len(data') = Len(strs)
    <2>1. ASSUME NEW r \in 1 .. Len(strs) PROVE data'[r] \in Int64
      BY <1>2, <1>4, WidthsAssumption DEF Int64
    <2>2. data' \in [1 .. Len(strs) -> Int64]
      BY <1>1, <2>1
    <2>3. data' \in Seq(Int64) /\ Len(data') = Len(strs)
      BY <1>2, <2>2, IsASeq, LenProperties
    <2> QED
      BY <1>2, <2>3 DEF Storable
  <1>6. IInv'
    <2>1. CodecInit'
      BY <1>1 DEF ChunkInv, IndexInv, Unused, CodecInit
    <2>2. (Storable(data) /\ pc = "start" /\ CodecInit => IInv)'
      BY StartInv, PTL
    <2> QED
      BY <1>1, <1>5, <2>1, <2>2
  <1>7. IndexInv'
    BY <1>1, <1>2, <1>4, <1>5, <1>6 DEF IndexInv, WordsKept
  <1>8. EndInv'
    BY <1>1 DEF ChunkInv, EndInv, NWords, WordsKept
  <1> QED
    BY <1>3, <1>7, <1>8

-----------------------------------------------------------------------------
(* The steps after StoreIndices leave the words alone.                     *)

Later == {"indices", "stored", "pruned", "torn", "readIndices", "lookup", "read"}

LEMMA LaterWords ==
    ASSUME ChunkInv, WordsKept, sPc \in Later, sPc' \in Later
    PROVE  WordsInv'
  <1>1. Placed' = Placed
    BY DEF Placed, WordsKept, Later
  <1> QED
    BY <1>1, SamePlaces

\* The rows' indices stay what they are, and their chunk in order.
LEMMA LaterIndices ==
    ASSUME ChunkInv, WordsKept, sPc \in Later, sPc' \in Later,
           [Next]_codecVars
    PROVE  /\ IInv' /\ data' = data /\ Len(data') = Len(strs')
           /\ Len(reverse_dict') <= Len(strs')
           /\ \A r \in 1 .. Len(strs') :
                  /\ data'[r] \in 0 .. Len(reverse_dict') - 1
                  /\ reverse_dict'[data'[r] + 1] = strs'[r]
  <1>1. IInv
    BY DEF ChunkInv, IndexInv, Later
  <1>2. IInv'
    BY <1>1, Step
  <1>3. data' = data
    BY DEF Next, WriteNext, ReadNext, Allocate, Measure, MeasureDone, WriteHead, WriteRun,
           GrowRun, WriteLastRun, WritePlain, PlainDone, ReadHead, ReadRun, RunsRead,
           ReadPlain, NextBlock, PlainRead, codecVars
  <1> QED
    BY <1>2, <1>3 DEF ChunkInv, IndexInv, WordsKept, Later

\* A step that leaves the codec of the indices alone.
LEMMA CodecKept ==
    ASSUME UNCHANGED codecVars
    PROVE  [Next]_codecVars /\ UNCHANGED <<pc, result, at, out>>
  BY DEF codecVars, writeVars, readVars

LEMMA WriteIndicesChunk ==
    ASSUME ChunkInv, WriteIndices PROVE WordsInv' /\ IndexInv' /\ EndInv'
  <1>1. /\ sPc = "indices" /\ sPc' = "indices" /\ WordsKept /\ [Next]_codecVars
        /\ UNCHANGED <<size, sAt, sOut>>
    BY DEF WriteIndices, stringVars, WordsKept, Next
  <1>2. sPc \in Later /\ sPc' \in Later
    BY <1>1 DEF Later
  <1>3. IndexInv'
    BY <1>1, <1>2, LaterIndices DEF IndexInv
  <1>4. EndInv'
    BY <1>1 DEF ChunkInv, EndInv, NWords, WordsKept
  <1> QED
    BY <1>1, <1>2, <1>3, <1>4, LaterWords

\* Reading takes nothing away from what has been written.
LEMMA ReadIndicesChunk ==
    ASSUME ChunkInv, ReadIndices PROVE WordsInv' /\ IndexInv' /\ EndInv'
  <1>1. /\ sPc = "readIndices" /\ sPc' = "readIndices" /\ WordsKept
        /\ ReadNext /\ [Next]_codecVars /\ UNCHANGED <<size, sAt, sOut>>
    BY DEF ReadIndices, stringVars, WordsKept, Next
  <1>2. sPc \in Later /\ sPc' \in Later
    BY <1>1 DEF Later
  <1>3. pc' \in Reading /\ result' = result
    <2>1. CASE ReadHead
      BY <2>1 DEF ReadHead, writeVars, Reading
    <2>2. CASE ReadRun
      BY <2>2 DEF ReadRun, writeVars, Reading
    <2>3. CASE RunsRead
      BY <2>3 DEF RunsRead, writeVars, Reading
    <2>4. CASE ReadPlain
      BY <2>4 DEF ReadPlain, writeVars, Reading
    <2>5. CASE NextBlock
      BY <2>5 DEF NextBlock, writeVars, Reading
    <2>6. CASE PlainRead
      BY <2>6 DEF PlainRead, writeVars, Reading
    <2> QED
      BY <1>1, <2>1, <2>2, <2>3, <2>4, <2>5, <2>6 DEF ReadNext
  <1>4. IndexInv'
    BY <1>1, <1>2, <1>3, LaterIndices DEF IndexInv
  <1>5. EndInv'
    BY <1>1, <1>3 DEF ChunkInv, EndInv, NWords, NUWords, HeaderSize, RawSize, FinalOffset,
                      ChunkBytes, WordsKept
  <1> QED
    BY <1>1, <1>2, <1>4, <1>5, LaterWords

LEMMA IndicesWrittenChunk ==
    ASSUME ChunkInv, IndicesWritten PROVE WordsInv' /\ IndexInv' /\ EndInv'
  <1>1. /\ sPc = "indices" /\ sPc' = "stored" /\ pc = "written" /\ size' = ChunkBytes
        /\ WordsKept /\ UNCHANGED <<sAt, sOut>> /\ UNCHANGED codecVars
    BY DEF IndicesWritten, WordsKept
  <1>2. sPc \in Later /\ sPc' \in Later
    BY <1>1 DEF Later
  <1>3. [Next]_codecVars /\ UNCHANGED <<pc, result, at, out>>
    BY <1>1, CodecKept
  <1>4. IndexInv'
    BY <1>1, <1>2, <1>3, LaterIndices DEF IndexInv
  <1>5. EndInv'
    BY <1>1, <1>3 DEF ChunkInv, EndInv, NWords, ChunkBytes, WordsKept
  <1> QED
    BY <1>1, <1>2, <1>3, <1>4, <1>5, LaterWords

\* Pruned, a chunk is jumped over to its end.
LEMMA PrunedChunk ==
    ASSUME ChunkInv, PruneByBloom \/ PruneEmpty \/ TearString
    PROVE  WordsInv' /\ IndexInv' /\ EndInv'
  <1>1. /\ sPc = "stored" /\ sPc' \in {"pruned", "torn"} /\ WordsKept
        /\ UNCHANGED <<size, sOut>> /\ UNCHANGED codecVars
    BY DEF PruneByBloom, PruneEmpty, TearString, WordsKept
  <1>2. sPc \in Later /\ sPc' \in Later
    BY <1>1 DEF Later
  <1>3. [Next]_codecVars /\ UNCHANGED <<pc, result, at, out>>
    BY <1>1, CodecKept
  <1>4. IndexInv'
    BY <1>1, <1>2, <1>3, LaterIndices DEF ChunkInv, IndexInv
  <1>5. size = ChunkBytes /\ size \in Nat
    <2>1. size = ChunkBytes
      BY <1>1 DEF ChunkInv, EndInv
    <2>2. result \in Nat /\ Len(offsets) \in Nat
      BY <1>2, ChunkFacts DEF ChunkInv, IndexInv, IInv, TypeOK, Later
    <2> QED
      BY <2>1, <2>2, ChunkFacts DEF ChunkBytes
  <1>6. sPc' = "pruned" => sAt' = size
    <2>1. CASE PruneByBloom
      BY <1>5, <2>1, BloomBytesAssumption DEF PruneByBloom, AfterJump
    <2>2. CASE PruneEmpty
      BY <1>5, <2>2, ChunkFacts DEF PruneEmpty
    <2>3. CASE TearString
      BY <2>3 DEF TearString
    <2> QED
      BY <2>1, <2>2, <2>3
  <1>7. EndInv'
    BY <1>1, <1>3, <1>5, <1>6 DEF ChunkInv, EndInv, NWords, ChunkBytes, WordsKept
  <1> QED
    BY <1>1, <1>2, <1>4, <1>7, LaterWords

LEMMA ReadRawChunk == ASSUME ChunkInv, ReadRaw PROVE WordsInv' /\ IndexInv' /\ EndInv'
  <1>1. /\ sPc = "stored" /\ sPc' = "readIndices" /\ NUWords = Len(reverse_dict)
        /\ sAt' = BloomBytes + HeaderSize + RawSize /\ WordsKept
        /\ UNCHANGED <<size, sOut>> /\ UNCHANGED codecVars
    BY DEF ReadRaw, WordsKept
  <1>2. sPc \in Later /\ sPc' \in Later
    BY <1>1 DEF Later
  <1>3. [Next]_codecVars /\ UNCHANGED <<pc, result, at, out>>
    BY <1>1, CodecKept
  <1>4. IndexInv'
    BY <1>1, <1>2, <1>3, LaterIndices DEF ChunkInv, IndexInv
  <1>5. EndInv'
    BY <1>1, <1>3 DEF ChunkInv, EndInv, NWords, NUWords, HeaderSize, RawSize, FinalOffset,
                      ChunkBytes, WordsKept
  <1> QED
    BY <1>1, <1>2, <1>4, <1>5, LaterWords

\* From the indices' end on, the words are looked up.
LEMMA LookupFrame ==
    ASSUME ChunkInv, WordsKept, UNCHANGED codecVars, UNCHANGED <<size, sAt>>,
           sPc \in {"readIndices", "lookup"}, sPc' \in {"lookup", "read"}, pc = "done",
           sOut' \in Seq(Seq(Chars)), Len(sOut') <= NWords,
           \A r \in 1 .. Len(sOut') : sOut'[r] = strs[r],
           sPc' = "read" => Len(sOut') = NWords
    PROVE  WordsInv' /\ IndexInv' /\ EndInv'
  <1>1. sPc \in Later /\ sPc' \in Later
    BY DEF Later
  <1>2. [Next]_codecVars /\ UNCHANGED <<pc, result, at, out>>
    BY CodecKept
  <1>3. IndexInv'
    BY <1>1, <1>2, LaterIndices DEF IndexInv
  <1>4. EndInv'
    BY <1>2 DEF ChunkInv, EndInv, NWords, NUWords, HeaderSize, RawSize, FinalOffset,
                ChunkBytes, WordsKept
  <1> QED
    BY <1>1, <1>3, <1>4, LaterWords

LEMMA IndicesReadChunk ==
    ASSUME ChunkInv, IndicesRead PROVE WordsInv' /\ IndexInv' /\ EndInv'
  <1>1. /\ sPc = "readIndices" /\ sPc' = "lookup" /\ pc = "done" /\ WordsKept
        /\ UNCHANGED <<size, sAt, sOut>> /\ UNCHANGED codecVars
    BY DEF IndicesRead, WordsKept
  <1>2. /\ sOut' \in Seq(Seq(Chars)) /\ Len(sOut') <= NWords
        /\ \A r \in 1 .. Len(sOut') : sOut'[r] = strs[r]
    BY <1>1 DEF ChunkInv, EndInv
  <1> QED
    BY <1>1, <1>2, LookupFrame

\* NWords is no more than the rows there are.
LEMMA CountedRows == ASSUME ChunkInv PROVE NWords \in 0 .. Len(strs)
  <1>1. Len(strs) \in Nat /\ CountSpan \in Nat \ {0}
    BY ChunkFacts, WidthsAssumption
  <1> QED
    BY <1>1 DEF NWords

\* The word an index stands for is the one the row had.
LEMMA WordRight ==
    ASSUME ChunkInv, sPc = "lookup", NEW r \in 1 .. Len(strs)
    PROVE  WordAt(out[r]) = strs[r]
  <1>1. out = data
    <2>1. IInv /\ pc = "done"
      BY DEF ChunkInv, IndexInv
    <2> QED
      BY <2>1, ReadBack DEF RoundTrip
  <1>2. /\ data[r] \in 0 .. Len(reverse_dict) - 1 /\ reverse_dict[data[r] + 1] = strs[r]
    BY DEF ChunkInv, IndexInv
  <1>3. PICK k \in 1 .. Len(reverse_dict) : k = data[r] + 1
    BY <1>2, ChunkFacts
  <1>4. Placed = Len(reverse_dict)
    BY DEF Placed
  <1>5. SubSeq(raw, offsets[k] + 1, offsets[k + 1]) = reverse_dict[k]
    BY <1>4 DEF ChunkInv, WordsInv
  <1>6. data[r] + 1 = k /\ data[r] + 2 = k + 1
    BY <1>2, <1>3
  <1>7. WordAt(data[r]) = reverse_dict[k]
    BY <1>5, <1>6, Zenon DEF WordAt
  <1> QED
    BY <1>1, <1>2, <1>6, <1>7

LEMMA LookupChunk == ASSUME ChunkInv, Lookup PROVE WordsInv' /\ IndexInv' /\ EndInv'
  <1> DEFINE n == Len(sOut)
  <1>1. /\ sPc = "lookup" /\ sPc' = "lookup" /\ n < NWords
        /\ sOut' = Append(sOut, WordAt(out[n + 1])) /\ WordsKept
        /\ UNCHANGED <<size, sAt>> /\ UNCHANGED codecVars
    BY DEF Lookup, WordsKept
  <1>2. /\ sOut \in Seq(Seq(Chars)) /\ n \in Nat /\ NWords \in 0 .. Len(strs)
        /\ Len(strs) \in Nat /\ \A r \in 1 .. n : sOut[r] = strs[r]
    BY ChunkFacts, CountedRows DEF ChunkInv, EndInv
  <1>3. n + 1 \in 1 .. Len(strs) /\ n + 1 <= NWords
    BY <1>1, <1>2
  <1>4. WordAt(out[n + 1]) = strs[n + 1] /\ strs[n + 1] \in Seq(Chars)
    BY <1>1, <1>3, WordRight, ChunkFacts
  <1>5. /\ sOut' \in Seq(Seq(Chars)) /\ Len(sOut') = n + 1 /\ sOut'[n + 1] = strs[n + 1]
        /\ \A r \in 1 .. n : sOut'[r] = sOut[r]
    <2>1. PICK w \in Seq(Chars) : w = strs[n + 1]
      BY <1>4
    <2>2. sOut' = Append(sOut, w)
      BY <1>1, <1>4, <2>1
    <2>3. /\ Append(sOut, w) \in Seq(Seq(Chars)) /\ Len(Append(sOut, w)) = n + 1
          /\ Append(sOut, w)[n + 1] = w /\ \A r \in 1 .. n : Append(sOut, w)[r] = sOut[r]
      BY <1>2, AppendProperties
    <2> QED
      BY <2>1, <2>2, <2>3, Zenon
  <1>6. ASSUME NEW r \in 1 .. Len(sOut') PROVE sOut'[r] = strs[r]
    <2>1. r \in 1 .. n \/ r = n + 1
      BY <1>2, <1>5
    <2> HIDE DEF n
    <2> QED
      BY <1>2, <1>5, <2>1
  <1>7. pc = "done"
    BY <1>1 DEF ChunkInv, IndexInv
  <1> QED
    BY <1>1, <1>3, <1>5, <1>6, <1>7, LookupFrame

LEMMA LookupDoneChunk ==
    ASSUME ChunkInv, LookupDone PROVE WordsInv' /\ IndexInv' /\ EndInv'
  <1>1. /\ sPc = "lookup" /\ sPc' = "read" /\ Len(sOut) >= NWords /\ WordsKept
        /\ UNCHANGED <<size, sAt, sOut>> /\ UNCHANGED codecVars
    BY DEF LookupDone, WordsKept
  <1>2. /\ sOut \in Seq(Seq(Chars)) /\ Len(sOut) <= NWords /\ NWords \in Nat
        /\ Len(sOut) \in Nat /\ \A r \in 1 .. Len(sOut) : sOut[r] = strs[r]
    BY ChunkFacts DEF ChunkInv, EndInv
  <1>3. pc = "done"
    BY <1>1 DEF ChunkInv, IndexInv
  <1> QED
    BY <1>1, <1>2, <1>3, LookupFrame

LEMMA StutterChunk ==
    ASSUME ChunkInv, UNCHANGED allVars PROVE WordsInv' /\ IndexInv' /\ EndInv'
  <1>1. UNCHANGED stringVars /\ UNCHANGED codecVars
    BY DEF allVars
  <1>2. /\ WordsKept /\ sPc' = sPc /\ UNCHANGED <<size, sAt, sOut>>
        /\ i' = i /\ UNCHANGED <<pc, result>>
    BY <1>1 DEF stringVars, WordsKept, codecVars, writeVars
  <1>3. WordsInv'
    <2>1. Placed' = Placed
      BY <1>2 DEF Placed, WordsKept
    <2> QED
      BY <1>2, <2>1, SamePlaces
  <1>4. IInv => IInv'
    BY <1>1, Step
  <1>5. IndexInv'
    BY <1>1, <1>2, <1>4 DEF ChunkInv, IndexInv, Unused, WordsKept, codecVars, writeVars,
                            readVars
  <1>6. EndInv'
    BY <1>2 DEF ChunkInv, EndInv, NWords, NUWords, HeaderSize, RawSize, FinalOffset,
                ChunkBytes, WordsKept
  <1> QED
    BY <1>3, <1>5, <1>6

LEMMA ChunkStep == ChunkInv /\ [StringNext]_allVars => ChunkInv'
  <1> SUFFICES ASSUME ChunkInv, [StringNext]_allVars PROVE ChunkInv'
    OBVIOUS
  <1>1. PruneInv'
    BY PruneStep DEF ChunkInv
  <1>2. CASE AddWord
    BY <1>2, AddWordChunk
  <1>3. CASE ~ AddWord
    <2>1. WordsInv' /\ IndexInv' /\ EndInv'
      BY <1>3, WordsKnownChunk, WriteWordChunk, StoreIndicesChunk, WriteIndicesChunk,
         IndicesWrittenChunk, PrunedChunk, ReadRawChunk, ReadIndicesChunk,
         IndicesReadChunk, LookupChunk, LookupDoneChunk, StutterChunk DEF StringNext
    <2> QED
      BY <1>1, <2>1 DEF ChunkInv
  <1> QED
    BY <1>2, <1>3

\* ChunkInv holds of every state that WriteType and GetBatch come to.
THEOREM ChunkInductive == StringSpec => []ChunkInv
  <1> QED
    BY ChunkInit, ChunkStep, PTL DEF StringSpec

\* Whatever the strings, of whatever length and with whatever repetitions, the
\* rows that GetBatch returns are the rows given to WriteType, as many of them
\* as the 16 bits of the row count keep.
THEOREM StringsReadBack == StringSpec => []StringsRead
  <1>1. ChunkInv => StringsRead
    <2> SUFFICES ASSUME ChunkInv, sPc = "read"
                 PROVE  sOut = SubSeq(strs, 1, Len(strs) % CountSpan)
      BY DEF StringsRead
    <2>1. /\ sOut \in Seq(Seq(Chars)) /\ Len(sOut) = NWords
          /\ \A r \in 1 .. Len(sOut) : sOut[r] = strs[r]
      BY DEF ChunkInv, EndInv
    <2>2. NWords \in 0 .. Len(strs) /\ strs \in Seq(Seq(Chars)) /\ Len(strs) \in Nat
      BY CountedRows, ChunkFacts
    <2>3. /\ SubSeq(strs, 1, NWords) \in Seq(Seq(Chars))
          /\ Len(SubSeq(strs, 1, NWords)) = NWords
          /\ \A r \in 1 .. NWords : SubSeq(strs, 1, NWords)[r] = strs[r]
      BY <2>2
    <2>4. sOut = SubSeq(strs, 1, NWords)
      BY <2>1, <2>3, SeqEqual
    <2> QED
      BY <2>4 DEF NWords
  <1> QED
    BY <1>1, ChunkInductive, PTL

\* Read or pruned, the file stands at the chunk's end: the offsets end where
\* the characters do, and the indices are read to their last byte.
THEOREM StringChunkEndRight == StringSpec => []StringChunkEnd
  <1>1. ChunkInv => StringChunkEnd
    <2> SUFFICES ASSUME ChunkInv PROVE StringChunkEnd
      OBVIOUS
    <2>1. sPc = "pruned" => sAt = size
      BY DEF ChunkInv, EndInv
    <2>2. ASSUME sPc = "read" PROVE sAt + at = size
      <3> DEFINE D == Len(reverse_dict)
      <3>1. at = result /\ result \in Nat
        <4>1. IInv /\ pc = "done"
          BY <2>2 DEF ChunkInv, IndexInv
        <4> QED
          BY <4>1, ReadWhole DEF WholeChunkRead, IInv, TypeOK
      <3>2. /\ size = ChunkBytes /\ NUWords = D /\ D \in Nat
            /\ sAt = BloomBytes + HeaderSize + RawSize
        BY <2>2, ChunkFacts DEF ChunkInv, EndInv
      <3>3. Len(offsets) = D + 1 /\ Len(raw) = words_size
        <4>1. Placed = D
          BY <2>2 DEF Placed
        <4>2. PICK f \in [0 .. D -> 0 .. words_size] :
                  Sums(f) /\ \A k \in 0 .. D : offsets[k + 1] = f[k]
          BY <4>1 DEF ChunkInv, WordsInv
        <4>3. f[D] = words_size /\ offsets[D + 1] = f[D]
          BY <3>2, <4>2 DEF Sums
        <4> QED
          BY <4>1, <4>3 DEF ChunkInv, WordsInv
      <3> QED
        BY <3>1, <3>2, <3>3, ChunkFacts DEF ChunkBytes, HeaderSize, RawSize, FinalOffset
    <2> QED
      BY <2>1, <2>2 DEF StringChunkEnd
  <1> QED
    BY <1>1, ChunkInductive, PTL
=============================================================================
