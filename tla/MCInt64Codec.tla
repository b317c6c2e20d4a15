--------------------------- MODULE MCInt64Codec ---------------------------
(* Chunks of up to MaxRows of a few values, the least and the greatest     *)
(* among them, in words of three "bytes" of one bit.                       *)
EXTENDS Int64Codec

CONSTANTS MaxRows, Rows

MCCapacity == <<2, 4, 8>>

MCRows == {-4, -1, 0, 3}

MCInputs == UNION {[1 .. n -> Rows] : n \in 0 .. MaxRows}
=============================================================================
