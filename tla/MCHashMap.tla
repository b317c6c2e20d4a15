----------------------------- MODULE MCHashMap ------------------------------
(* Instances of HashMap for TLC.                                           *)
EXTENDS HashMap

CONSTANTS HashValues    \* the values hash functions may take

MCHashFns == [Keys -> HashValues]
=============================================================================
