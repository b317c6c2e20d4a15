------------------------------ MODULE BestRows ------------------------------
(***************************************************************************)
(* What an OrderBy with a Limit asks of its operator: rows are read, and   *)
(* when they are over the best of them are returned in order, as many as   *)
(* the limit allows.  No heap.  TopK implements this.                      *)
(***************************************************************************)
EXTENDS RowOrder

CONSTANTS
    Rows        \* the rows that can be read

VARIABLES
    ord,        \* the order asked for, fixed
    limit,      \* the limit, fixed
    seen,       \* the rows read so far
    returned,   \* whether the rows have been returned
    answer      \* the list returned

vars == <<ord, limit, seen, returned, answer>>

Init ==
    /\ ord \in Order
    /\ limit \in Nat \ {0}
    /\ seen = {}
    /\ returned = FALSE
    /\ answer = <<>>

Read(r) ==
    /\ ~ returned
    /\ seen' = seen \cup {r}
    /\ UNCHANGED <<ord, limit, returned, answer>>

\* B is as many rows of S as may be returned, and none left out is better.
IsBest(B, S) ==
    /\ B \subseteq S
    /\ Cardinality(B) = IF Cardinality(S) < limit THEN Cardinality(S) ELSE limit
    /\ \A r \in S \ B, b \in B : ~ Better(ord, r, b)

Return ==
    /\ ~ returned
    /\ \E B \in SUBSET seen : IsBest(B, seen) /\ answer' \in Sorted(ord, B)
    /\ returned' = TRUE
    /\ UNCHANGED <<ord, limit, seen>>

Next == Return \/ \E r \in Rows : Read(r)

Spec == Init /\ [][Next]_vars
=============================================================================
