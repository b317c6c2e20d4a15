------------------------------ MODULE RowOrder ------------------------------
(***************************************************************************)
(* The order in which TopKOp ranks rows.  Of a row only the two sort       *)
(* columns and its number in the input matter; values are integers, a      *)
(* string stands by its rank.                                              *)
(***************************************************************************)
EXTENDS Integers, FiniteSets

\* Which columns an operator sorts by.
Order == [desc : BOOLEAN, two : BOOLEAN]

\* Fault: rows with equal keys are not told apart.
BetterByKeys(o, a, b) ==
    \/ IF o.desc THEN a.key > b.key ELSE a.key < b.key
    \/ o.two /\ a.key = b.key /\ a.key2 < b.key2

\* is_better: by the first column in its direction, then by the second one
\* upwards or, if there is none, by which row came first.
Better(o, a, b) ==
    \/ IF o.desc THEN a.key > b.key ELSE a.key < b.key
    \/ /\ a.key = b.key
       /\ IF o.two THEN a.key2 < b.key2 ELSE a.order < b.order

\* The lists of exactly the rows of S in which none comes before a better one.
Sorted(o, S) ==
    {s \in [1 .. Cardinality(S) -> S] :
        /\ \A r \in S : \E i \in 1 .. Cardinality(S) : s[i] = r
        /\ \A i, j \in 1 .. Cardinality(S) : i < j => ~ Better(o, s[j], s[i])}
=============================================================================
