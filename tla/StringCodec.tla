---------------------------- MODULE StringCodec ----------------------------
(***************************************************************************)
(* ColumnTypeString: WriteType stores a chunk of strings, GetBatch reads   *)
(* it back or finds that no wanted string can be in it.  The chunk is a    *)
(* Bloom filter, a header, the offsets and the characters of the distinct  *)
(* strings, and the rows as indices into these: a chunk of integers, which *)
(* Int64Codec stores and reads.                                            *)
(***************************************************************************)
EXTENDS Int64Codec, Bloom

CONSTANTS
    Strings,        \* the chunks to store: sequences of strings
    NoOptions,      \* no scan options (nullptr)
    Wanted,         \* the scan options: NoOptions or [skip_empty, part]
    BloomBytes      \* the size of a stored filter

\* The indices of the rows make a chunk that Int64Codec can store.
ASSUME StringsAssumption ==
    \A d \in Strings :
        d \in Seq(Seq(Chars)) /\ Len(d) <= BlockSize * (CountSpan - 1) /\ Len(d) <= Half

ASSUME WantedAssumption ==
    \A w \in Wanted \ {NoOptions} : w \in [skip_empty : BOOLEAN, part : Seq(Chars)]

ASSUME BloomBytesAssumption == BloomBytes \in Nat

VARIABLES
    strs,           \* the rows to store
    want,           \* the options of the scan that reads the chunk
    sPc,            \* "dict", "offsets", "indices", "lookup" or an end:
                    \* "read", "pruned" or "torn"
    reverse_dict,   \* the distinct strings, in the order of their indices
    words_size,     \* their characters
    bloom,          \* the filter stored in front of the chunk
    offsets, raw,   \* the chunk: where the strings are, and their characters
    size,           \* what WriteType returned, the chunk's size in the file
    sAt,            \* the bytes read in front of the indices
    sOut            \* the rows read

stringVars == <<strs, want, sPc, reverse_dict, words_size, bloom, offsets, raw,
                size, sAt, sOut>>

StringInit ==
    /\ strs \in Strings /\ want \in Wanted
    /\ sPc = "dict"
    /\ reverse_dict = <<>> /\ words_size = 0 /\ bloom = {}
    /\ offsets = <<0>> /\ raw = <<>>
    /\ size = 0 /\ sAt = 0 /\ sOut = <<>>
    /\ data = <<>> /\ pc = "idle" /\ CodecInit

-----------------------------------------------------------------------------
(* WriteType                                                               *)

Known(s) == \E k \in 1 .. Len(reverse_dict) : reverse_dict[k] = s

\* Fault: the filter gets the first word only.
BloomOfFirst(s) == IF bloom = {} THEN Add(s) ELSE bloom

BloomWith(s) == bloom \cup Add(s)

AddWord ==
    /\ sPc = "dict" /\ i < Len(strs)
    /\ LET s == strs[i + 1]
       IN  IF Known(s)
           THEN UNCHANGED <<reverse_dict, words_size, bloom>>
           ELSE /\ reverse_dict' = Append(reverse_dict, s)
                /\ words_size' = words_size + Len(s)
                /\ bloom' = BloomWith(s)
    /\ i' = i + 1
    /\ UNCHANGED <<strs, want, sPc, offsets, raw, size, sAt, sOut, data, pc,
                   min_val, max_val, unique, cnt, val_last, head, body, result,
                   readVars>>

\* The three header fields, as they are stored.
NWords == Len(strs) % CountSpan
NUWords == Len(reverse_dict) % CountSpan
HeaderSize == 2 + 2 + 4 + (NUWords + 1) * 4
FinalOffset == HeaderSize + words_size

WordsKnown ==
    /\ sPc = "dict" /\ i >= Len(strs)
    /\ sPc' = "offsets"
    /\ i' = 0
    /\ UNCHANGED <<strs, want, reverse_dict, words_size, bloom, offsets, raw, size,
                   sAt, sOut, data, pc, min_val, max_val, unique, cnt, val_last,
                   head, body, result, readVars>>

\* The end of a word, after the ones before it; and its characters.
WriteWord ==
    /\ sPc = "offsets" /\ i < Len(reverse_dict)
    /\ LET s == reverse_dict[i + 1]
       IN  /\ offsets' = Append(offsets, offsets[i + 1] + Len(s))
           /\ raw' = raw \o s
    /\ i' = i + 1
    /\ UNCHANGED <<strs, want, sPc, reverse_dict, words_size, bloom, size, sAt,
                   sOut, data, pc, min_val, max_val, unique, cnt, val_last, head,
                   body, result, readVars>>

IndexOf(s) == CHOOSE k \in 0 .. Len(reverse_dict) - 1 : reverse_dict[k + 1] = s

StoreIndices ==
    /\ sPc = "offsets" /\ i >= Len(reverse_dict)
    /\ data' = [r \in 1 .. Len(strs) |-> IndexOf(strs[r])]
    /\ pc' = "start"
    /\ sPc' = "indices"
    /\ i' = 0
    /\ UNCHANGED <<strs, want, reverse_dict, words_size, bloom, offsets, raw, size,
                   sAt, sOut, min_val, max_val, unique, cnt, val_last, head, body,
                   result, readVars>>

WriteIndices == sPc = "indices" /\ WriteNext /\ UNCHANGED stringVars

\* Fault: the indices are not counted.
ChunkBytesBare == BloomBytes + 8 + 4 * Len(offsets) + Len(raw)

\* What WriteType returns when the helper has returned.
ChunkBytes == BloomBytes + 8 + 4 * Len(offsets) + Len(raw) + result

IndicesWritten ==
    /\ sPc = "indices" /\ pc = "written"
    /\ size' = ChunkBytes
    /\ sPc' = "stored"
    /\ UNCHANGED <<strs, want, reverse_dict, words_size, bloom, offsets, raw, sAt,
                   sOut, codecVars>>

-----------------------------------------------------------------------------
(* GetBatch                                                                *)

OptionBits == IF want = NoOptions THEN {} ELSE Add(want.part)

RawSize == FinalOffset - HeaderSize

\* Fault: a chunk without a new character is taken for an empty one.
OnlyEmptyIfOne == want # NoOptions /\ want.skip_empty /\ Known(<<>>)

OnlyEmpty == want # NoOptions /\ want.skip_empty /\ RawSize = 0

\* Fault: the jump forgets that the filter has been read.
AfterJumpTwice == BloomBytes + size

\* Jump over the rest of the chunk, from behind the filter.
AfterJump == BloomBytes + (size - BloomBytes)

PruneByBloom ==
    /\ sPc = "stored" /\ ~ CheckIn(OptionBits, bloom)
    /\ sAt' = AfterJump
    /\ sPc' = "pruned"
    /\ UNCHANGED <<strs, want, reverse_dict, words_size, bloom, offsets, raw, size,
                   sOut, codecVars>>

PruneEmpty ==
    /\ sPc = "stored" /\ CheckIn(OptionBits, bloom) /\ OnlyEmpty
    /\ sAt' = BloomBytes + HeaderSize + (size - BloomBytes - HeaderSize)
    /\ sPc' = "pruned"
    /\ UNCHANGED <<strs, want, reverse_dict, words_size, bloom, offsets, raw, size,
                   sOut, codecVars>>

\* The header has lost words: the characters and the indices are looked for
\* among the offsets.
TearString ==
    /\ sPc = "stored" /\ CheckIn(OptionBits, bloom) /\ ~ OnlyEmpty
    /\ NUWords # Len(reverse_dict)
    /\ sPc' = "torn"
    /\ UNCHANGED <<strs, want, reverse_dict, words_size, bloom, offsets, raw, size,
                   sAt, sOut, codecVars>>

ReadRaw ==
    /\ sPc = "stored" /\ CheckIn(OptionBits, bloom) /\ ~ OnlyEmpty
    /\ NUWords = Len(reverse_dict)
    /\ sAt' = BloomBytes + HeaderSize + RawSize
    /\ sPc' = "readIndices"
    /\ UNCHANGED <<strs, want, reverse_dict, words_size, bloom, offsets, raw, size,
                   sOut, codecVars>>

ReadIndices == sPc = "readIndices" /\ ReadNext /\ UNCHANGED stringVars

IndicesRead ==
    /\ sPc = "readIndices" /\ pc = "done"
    /\ sPc' = "lookup"
    /\ UNCHANGED <<strs, want, reverse_dict, words_size, bloom, offsets, raw, size,
                   sAt, sOut, codecVars>>

\* Fault: the word behind it.
WordAtNext(k) == SubSeq(raw, offsets[k + 2] + 1, offsets[k + 2])

WordAt(k) == SubSeq(raw, offsets[k + 1] + 1, offsets[k + 2])

Lookup ==
    /\ sPc = "lookup" /\ Len(sOut) < NWords
    /\ sOut' = Append(sOut, WordAt(out[Len(sOut) + 1]))
    /\ UNCHANGED <<strs, want, sPc, reverse_dict, words_size, bloom, offsets, raw,
                   size, sAt, codecVars>>

LookupDone ==
    /\ sPc = "lookup" /\ Len(sOut) >= NWords
    /\ sPc' = "read"
    /\ UNCHANGED <<strs, want, reverse_dict, words_size, bloom, offsets, raw, size,
                   sAt, sOut, codecVars>>

StringNext ==
    \/ AddWord \/ WordsKnown \/ WriteWord \/ StoreIndices
    \/ WriteIndices \/ IndicesWritten
    \/ PruneByBloom \/ PruneEmpty \/ TearString
    \/ ReadRaw \/ ReadIndices \/ IndicesRead \/ Lookup \/ LookupDone

allVars == <<stringVars, codecVars>>

StringSpec == StringInit /\ [][StringNext]_allVars /\ WF_allVars(StringNext)

-----------------------------------------------------------------------------
(* Properties                                                              *)

Distinct == {strs[r] : r \in 1 .. Len(strs)}

\* The strings read are the strings written, as many of them as the 16 bits
\* of the row count keep (types.cpp:72 and the lookup of GetBatch).
StringsRead == sPc = "read" => sOut = SubSeq(strs, 1, Len(strs) % CountSpan)

\* Read, pruned by the filter or pruned as empty, the file stands at the end
\* of the chunk: the next column starts there (the Jumps of GetBatch).
StringChunkEnd ==
    /\ sPc = "read" => sAt + at = size
    /\ sPc = "pruned" => sAt = size

\* A pruned chunk holds no wanted string: none with the part looked for, and
\* no other than the empty one when that is what is not wanted.
PruneSound ==
    sPc = "pruned" =>
        \A s \in Distinct : ~ Occurs(want.part, s) \/ (want.skip_empty /\ s = <<>>)

\* As long as the 16 bits hold the number of distinct strings, a chunk is
\* read or pruned in the end, and not read at the wrong place.
StringReadEnds ==
    Cardinality(Distinct) < CountSpan => <>(sPc \in {"read", "pruned"})
=============================================================================
