------------------------------- MODULE Bloom -------------------------------
(***************************************************************************)
(* BloomFilter: the filter a string chunk carries and the filter a LIKE    *)
(* pattern is looked for with.  A filter is the set of its bits; a string  *)
(* sets, for each of its n-grams of at most MaxGram characters, the bits   *)
(* the hash function picks.  Strings are sequences of characters.          *)
(***************************************************************************)
EXTENDS Integers, Sequences

CONSTANTS
    Chars,          \* the characters
    MaxGram,        \* the length of the longest n-gram
    BitsOf          \* the bits that Set sets for each n-gram

ASSUME MaxGramAssumption == MaxGram \in Nat

\* The lengths of the n-grams at position k of a string.
GramsAt(w, k) == {j \in 1 .. MaxGram : k + j - 1 <= Len(w)}

NGrams(w) ==
    UNION {{SubSeq(w, k, k + j - 1) : j \in GramsAt(w, k)} : k \in 1 .. Len(w)}

\* Add: the bits a word sets.
Add(w) == UNION {BitsOf[g] : g \in NGrams(w)}

\* CheckIn: every bit of a filter is set in the other.
CheckIn(bits, other) == bits \subseteq other

\* The string has the part p from position k on.
IsAt(p, s, k) == k + Len(p) - 1 <= Len(s) /\ SubSeq(s, k, k + Len(p) - 1) = p

Occurs(p, s) == \E k \in 1 .. Len(s) + 1 : IsAt(p, s, k)
=============================================================================
