--------------------------- MODULE MCStringCodec ---------------------------
(* Chunks of up to MaxRows strings of up to two characters, read with and  *)
(* without options; one pair of characters shares the bits of another.     *)
EXTENDS StringCodec, TLC

CONSTANTS MaxRows, a, b

MCCapacity == <<2, 4, 16>>

MCBitsOf ==
    (<<a>> :> {1, 2}) @@ (<<b>> :> {2, 3}) @@ (<<a, b>> :> {1, 4})
    @@ (<<b, a>> :> {4, 5}) @@ (<<b, b>> :> {2, 3})

MCWords == {<<>>, <<a>>, <<b>>, <<a, b>>}

MCStrings == UNION {[1 .. n -> MCWords] : n \in 0 .. MaxRows}

MCWanted ==
    {NoOptions}
    \cup [skip_empty : BOOLEAN, part : {<<>>, <<a>>, <<b>>, <<a, b>>, <<b, a>>}]
=============================================================================
