------------------------------- MODULE MCScan -------------------------------
(* Files of up to MaxGroups row groups for ScanDrain.                      *)
EXTENDS ScanDrain, TLC

CONSTANTS
    MaxGroups,
    eps, a, b, c, ab    \* strings: the empty one, three letters, and a word

MCRealSchema == <<[name |-> "id", type |-> "int64"],
                  [name |-> "s", type |-> "string"],
                  [name |-> "t", type |-> "string"]>>

MCColumnNames == {"id", "s", "t"}

\* The bits of the n-grams of each string; c collides with b.
MCWordBits ==
    (eps :> {}) @@ (a :> {1}) @@ (b :> {2}) @@ (c :> {2}) @@ (ab :> {1, 2, 3})

MCValues == {1, 2} \cup DOMAIN MCWordBits

\* Groups of equal strings, of mixed ones, of empty ones, and without rows.
MCGroups ==
    {<<>>,
     <<<<1, eps, b>>>>,
     <<<<1, eps, eps>>, <<2, eps, a>>>>,
     <<<<1, a, b>>, <<2, c, eps>>>>,
     <<<<1, ab, c>>, <<2, eps, eps>>>>}

MCTables == UNION {[1 .. n -> MCGroups] : n \in 0 .. MaxGroups}

MCColumnLists == {<<1>>, <<2>>, <<2, 3>>, <<3, 1, 2>>}

MCPushed ==
    {[skip_empty |-> e, bloom |-> bits] :
        e \in BOOLEAN, bits \in {{}, MCWordBits[a], MCWordBits[ab]}}
=============================================================================
