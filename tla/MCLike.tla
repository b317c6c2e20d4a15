------------------------------- MODULE MCLike -------------------------------
(* Every pattern of up to MaxPattern characters of two letters and %, and  *)
(* every string of up to MaxText letters.  Each n-gram has its own bit.    *)
EXTENDS Like

CONSTANTS a, b, MaxPattern, MaxText

SeqsUpTo(S, n) == UNION {[1 .. k -> S] : k \in 0 .. n}

MCPatterns == SeqsUpTo({a, b, Percent}, MaxPattern)
MCTexts == SeqsUpTo({a, b}, MaxText)
MCBitsOf == [g \in SeqsUpTo({a, b, Percent}, MaxGram) |-> {g}]
=============================================================================
