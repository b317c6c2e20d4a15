--------------------------- MODULE HashMapProofs ----------------------------
(***************************************************************************)
(* Proofs about HashMap for every set of keys, every hash function and     *)
(* every initial size.                                                     *)
(***************************************************************************)
EXTENDS HashMap, FiniteSetTheorems, TLAPS

-----------------------------------------------------------------------------
(* Facts about positions and tables.                                       *)

\* A probe starts inside the table.
LEMMA HomeRange ==
    ASSUME NEW h \in Nat, NEW n \in Nat \ {0}
    PROVE  Home(h, n) \in 0 .. n - 1
BY DEF Home

\* A probe stays inside the table.
LEMMA SuccRange ==
    ASSUME NEW n \in Nat \ {0}, NEW p \in 0 .. n - 1
    PROVE  Succ(p, n) \in 0 .. n - 1
BY DEF Succ

\* What lies on the way to the next position lay on the way to this one.
LEMMA PathStep ==
    ASSUME NEW n \in Nat \ {0}, NEW h \in 0 .. n - 1, NEW p \in 0 .. n - 1,
           NEW q \in 0 .. n - 1, OnPath(h, q, Succ(p, n)), q # Succ(p, n)
    PROVE  OnPath(h, q, p)
BY DEF OnPath, Succ

\* Filling the first unused position met from its home keeps every slot
\* reachable.
LEMMA PutReachable ==
    ASSUME NEW n \in Nat \ {0}, NEW t \in Tables(n), NEW p \in 0 .. n - 1,
           NEW e \in Slot, Reachable(t, n),
           PathUsed(t, n, Home(e.hash, n), p)
    PROVE  Reachable([t EXCEPT ![p] = e], n)
  <1> DEFINE u == [t EXCEPT ![p] = e]
  <1>1. \A r \in 0 .. n - 1 : u[r] = IF r = p THEN e ELSE t[r]
    BY DEF Tables
  <1>2. e # Free
    BY HashMapAssumption DEF Slot
  <1>3. ASSUME NEW r \in 0 .. n - 1, u[r] # Free,
               NEW q \in 0 .. n - 1, OnPath(Home(u[r].hash, n), q, r)
        PROVE  u[q] # Free
    <2>1. CASE q = p
      BY <2>1, <1>1, <1>2
    <2>2. CASE q # p /\ r = p
      BY <2>2, <1>1, <1>3 DEF PathUsed
    <2>3. CASE q # p /\ r # p
      <3>1. u[r] = t[r] /\ u[q] = t[q]
        BY <2>3, <1>1
      <3>2. QED
        BY <3>1, <1>3 DEF Reachable
    <2>4. QED
      BY <2>1, <2>2, <2>3
  <1>4. QED
    BY <1>3 DEF Reachable

\* A key that no position on the way to an unused one holds is not in the
\* table at all.
LEMMA AbsentKey ==
    ASSUME NEW n \in Nat \ {0}, NEW t \in Tables(n), NEW p \in 0 .. n - 1,
           NEW k \in Keys, Reachable(t, n), Hashed(t, n),
           hash[k] \in Nat, t[p] = Free,
           \A q \in 0 .. n - 1 :
               OnPath(Home(hash[k], n), q, p) /\ q # p => t[q].key # k
    PROVE  \A r \in 0 .. n - 1 : t[r] # Free => t[r].key # k
  <1> DEFINE h == Home(hash[k], n)
  <1> SUFFICES ASSUME NEW r \in 0 .. n - 1, t[r] # Free, t[r].key = k
               PROVE  FALSE
    OBVIOUS
  <1>1. h \in 0 .. n - 1
    BY HomeRange
  <1>2. t[r].hash = hash[k]
    BY DEF Hashed
  <1>3. ~OnPath(h, p, r)
    BY <1>2 DEF Reachable
  <1>4. OnPath(h, r, p)
    BY <1>1, <1>3 DEF OnPath
  <1>5. QED
    BY <1>4

\* Adding an absent key keeps the keys distinct.
LEMMA PutNoDuplicates ==
    ASSUME NEW n \in Nat \ {0}, NEW t \in Tables(n), NEW p \in 0 .. n - 1,
           NEW e \in Slot, NoDuplicates(t, n),
           \A r \in 0 .. n - 1 : t[r] # Free => t[r].key # e.key
    PROVE  NoDuplicates([t EXCEPT ![p] = e], n)
  <1> DEFINE u == [t EXCEPT ![p] = e]
  <1>1. \A r \in 0 .. n - 1 : u[r] = IF r = p THEN e ELSE t[r]
    BY DEF Tables
  <1>2. ASSUME NEW a \in 0 .. n - 1, NEW b \in 0 .. n - 1,
               u[a] # Free, u[b] # Free, u[a].key = u[b].key
        PROVE  a = b
    <2>1. CASE a = p \/ b = p
      BY <2>1, <1>1, <1>2
    <2>2. CASE a # p /\ b # p
      BY <2>2, <1>1, <1>2 DEF NoDuplicates
    <2>3. QED
      BY <2>1, <2>2
  <1>3. QED
    BY <1>2 DEF NoDuplicates

\* The used positions of a table are finitely many, no more than it has.
LEMMA UsedBound ==
    ASSUME NEW n \in Nat, NEW t
    PROVE  /\ IsFiniteSet(UsedIn(t, n))
           /\ Cardinality(UsedIn(t, n)) \in Nat
           /\ Cardinality(UsedIn(t, n)) <= n
  <1>1. IsFiniteSet(0 .. n - 1) /\ Cardinality(0 .. n - 1) = n
    BY FS_Interval
  <1>2. UsedIn(t, n) \in SUBSET (0 .. n - 1)
    BY DEF UsedIn
  <1>3. QED
    BY <1>1, <1>2, FS_Subset, FS_CardinalityType

\* Filling an unused position adds one to the used ones.
LEMMA PutUsed ==
    ASSUME NEW n \in Nat \ {0}, NEW t \in Tables(n), NEW p \in 0 .. n - 1,
           NEW e \in Slot, t[p] = Free
    PROVE  Cardinality(UsedIn([t EXCEPT ![p] = e], n))
             = Cardinality(UsedIn(t, n)) + 1
  <1>1. e # Free
    BY HashMapAssumption DEF Slot
  <1>2. UsedIn([t EXCEPT ![p] = e], n) = UsedIn(t, n) \cup {p}
    BY <1>1 DEF UsedIn, Tables
  <1>3. p \notin UsedIn(t, n)
    BY DEF UsedIn
  <1>4. QED
    BY <1>2, <1>3, FS_AddElement, UsedBound

\* One more position of the table looked at.
LEMMA UsedStep ==
    ASSUME NEW n \in Nat, NEW t
    PROVE  /\ t[n] = Free => UsedIn(t, n + 1) = UsedIn(t, n)
           /\ t[n] # Free =>
                  /\ UsedIn(t, n + 1) = UsedIn(t, n) \cup {n}
                  /\ Cardinality(UsedIn(t, n + 1)) = Cardinality(UsedIn(t, n)) + 1
  <1>1. 0 .. (n + 1) - 1 = (0 .. n - 1) \cup {n}
    OBVIOUS
  <1>2. t[n] = Free => UsedIn(t, n + 1) = UsedIn(t, n)
    BY <1>1 DEF UsedIn
  <1>3. t[n] # Free => UsedIn(t, n + 1) = UsedIn(t, n) \cup {n}
    BY <1>1 DEF UsedIn
  <1>4. n \notin UsedIn(t, n)
    BY DEF UsedIn
  <1>5. QED
    BY <1>2, <1>3, <1>4, FS_AddElement, UsedBound

\* An unused table is trivially searchable and empty.
LEMMA EmptyTableFacts ==
    ASSUME NEW n \in Nat
    PROVE  /\ EmptyTable(n) \in Tables(n)
           /\ Reachable(EmptyTable(n), n)
           /\ NoDuplicates(EmptyTable(n), n)
           /\ Hashed(EmptyTable(n), n)
           /\ UsedIn(EmptyTable(n), n) = {}
BY DEF EmptyTable, Tables, Reachable, NoDuplicates, Hashed, UsedIn

-----------------------------------------------------------------------------
(* IInv is inductive.                                                      *)

\* The tables a state of the invariant holds.
LEMMA TablesOfIInv ==
    ASSUME IInv
    PROVE  /\ slot \in Tables(cap)
           /\ hash \in [Keys -> Nat]
           /\ cap \in Nat \ {0} /\ 2 * cap \in Nat \ {0}
           /\ NoKey \notin Keys
           /\ Free \notin Slot
           /\ \A p \in 0 .. cap - 1 : slot[p] # Free =>
                  slot[p] \in Slot /\ slot[p].key \in Keys /\ slot[p].val \in Nat
BY HashMapAssumption DEF IInv, TypeOK, Tables, Slot

LEMMA InitIInv == Init => IInv
  <1> SUFFICES ASSUME Init PROVE IInv
    OBVIOUS
  <1> USE HashMapAssumption
  <1>1. TypeOK
    <2>1. slot \in [0 .. cap - 1 -> Slot \cup {Free}]
      BY DEF Init, EmptyTable
    <2>2. emitted \in [Keys -> Nat] /\ rows \in 0 .. MaxRows
      BY DEF Init
    <2>3. QED
      BY <2>1, <2>2 DEF Init, TypeOK
  <1>2. Searchable /\ Hashed(slot, cap) /\ UsedIn(slot, cap) = {}
    BY EmptyTableFacts DEF Init, Searchable
  <1>3. HalfFree
    BY <1>2, FS_EmptySet DEF Init, HalfFree
  <1>4. slot \in Tables(cap) /\ \A p \in 0 .. cap - 1 : slot[p] = Free
    BY DEF Init, EmptyTable, Tables
  <1>5. RightReference /\ KeyInv /\ ProbeInv /\ RebuildInv /\ PlaceInv /\ EmitInv
    BY <1>4 DEF Init, RightReference, KeyInv, ProbeInv, RebuildInv, PlaceInv, EmitInv
  <1>6. QED
    BY <1>1, <1>2, <1>3, <1>5 DEF IInv

\* A step that changes neither the table nor the one being filled keeps
\* what is said of them alone.
LEMMA StutterIInv == IInv /\ UNCHANGED vars => IInv'
BY DEF IInv, vars, TypeOK, Searchable, HalfFree, RightReference, KeyInv, ProbeInv,
       RebuildInv, PlaceInv, EmitInv, Hashed, UsedIn, Reachable, NoDuplicates,
       PathUsed, OnPath, Home, Tables

\* Starting a lookup.
LEMMA FindIInv == ASSUME NEW k \in Keys, IInv, FindOrInsert(k) PROVE IInv'
  <1> USE HashMapAssumption DEF FindOrInsert
  <1>0. /\ slot' = slot /\ cap' = cap /\ hash' = hash /\ pc' = "probe" /\ retry' = FALSE
        /\ pc = "idle" /\ key' \in Keys /\ key = NoKey
    BY TablesOfIInv DEF IInv, KeyInv, ProbeInv
  <1>1. TypeOK' /\ pos' \in 0 .. cap - 1
    BY HomeRange, TablesOfIInv DEF IInv, TypeOK
  <1>2. Hashed(slot, cap)' /\ Searchable'
    BY <1>0 DEF IInv, Searchable, Hashed, Reachable, NoDuplicates
  <1>3. HalfFree' /\ RightReference'
    BY <1>0 DEF IInv, HalfFree, UsedIn, RightReference
  <1>4. KeyInv'
    BY <1>0, TablesOfIInv DEF IInv, KeyInv
  <1>5. RebuildInv' /\ PlaceInv' /\ EmitInv'
    BY <1>0 DEF IInv, RebuildInv, PlaceInv, EmitInv
  <1>6. ProbeInv'
    BY <1>0, <1>1, TablesOfIInv DEF ProbeInv, PathUsed, OnPath
  <1>7. QED
    BY <1>1, <1>2, <1>3, <1>4, <1>5, <1>6 DEF IInv

\* Finding the key.
LEMMA HitIInv == IInv /\ ProbeHit => IInv'
  <1> SUFFICES ASSUME IInv, ProbeHit PROVE IInv'
    OBVIOUS
  <1> USE DEF ProbeHit
  <1>1. TypeOK'
    BY DEF IInv, TypeOK
  <1>2. Hashed(slot, cap)' /\ Searchable' /\ HalfFree' /\ RightReference'
    BY DEF IInv, Searchable, Hashed, Reachable, NoDuplicates, HalfFree, UsedIn, RightReference
  <1>3. KeyInv' /\ ProbeInv' /\ RebuildInv' /\ PlaceInv' /\ EmitInv'
    BY DEF IInv, KeyInv, ProbeInv, RebuildInv, PlaceInv, EmitInv
  <1>4. QED
    BY <1>1, <1>2, <1>3 DEF IInv

\* Passing another key.
LEMMA NextIInv == IInv /\ ProbeNext => IInv'
  <1> SUFFICES ASSUME IInv, ProbeNext PROVE IInv'
    OBVIOUS
  <1> USE DEF ProbeNext
  <1>0. /\ slot' = slot /\ cap' = cap /\ hash' = hash /\ key' = key
        /\ key \in Keys /\ pos \in 0 .. cap - 1 /\ pc = "probe" /\ pc' = "probe"
    BY TablesOfIInv DEF IInv, KeyInv, ProbeInv, TypeOK
  <1>1. TypeOK' /\ pos' \in 0 .. cap - 1
    <2>1. pos' \in 0 .. cap - 1
      BY <1>0, SuccRange, TablesOfIInv
    <2>2. TypeOK
      BY DEF IInv
    <2>3. QED
      BY <2>1, <2>2 DEF TypeOK
  <1>2. Hashed(slot, cap)' /\ Searchable' /\ HalfFree' /\ RightReference'
    BY <1>0 DEF IInv, Searchable, Hashed, Reachable, NoDuplicates, HalfFree, UsedIn, RightReference
  <1>3. KeyInv' /\ RebuildInv' /\ PlaceInv' /\ EmitInv'
    BY <1>0 DEF IInv, KeyInv, RebuildInv, PlaceInv, EmitInv
  <1>4. ProbeInv'
    <2> DEFINE h == Home(hash[key], cap)
    <2>1. h \in 0 .. cap - 1
      BY <1>0, HomeRange, TablesOfIInv
    <2>2. \A q \in 0 .. cap - 1 : OnPath(h, q, pos') /\ q # pos' => OnPath(h, q, pos)
      BY <1>0, <2>1, PathStep, TablesOfIInv
    <2>3. \A q \in 0 .. cap - 1 : OnPath(h, q, pos) => slot[q] # Free /\ slot[q].key # key
      BY <1>0 DEF IInv, ProbeInv, PathUsed
    <2>4. QED
      BY <1>0, <1>1, <2>2, <2>3 DEF ProbeInv, PathUsed
  <1>5. QED
    BY <1>1, <1>2, <1>3, <1>4 DEF IInv

\* Inserting the key, and finding the table too full or not.
LEMMA InsertIInv == IInv /\ ProbeInsert => IInv'
  <1> SUFFICES ASSUME IInv, ProbeInsert PROVE IInv'
    OBVIOUS
  <1> DEFINE e == [key |-> key, hash |-> hash[key], val |-> 0]
  <1>0. /\ pc = "probe" /\ slot[pos] = Free /\ slot' = [slot EXCEPT ![pos] = e]
        /\ size' = size + 1 /\ cap' = cap /\ hash' = hash /\ key' = key
        /\ pos' = pos /\ src' = 0 /\ new' = EmptyTable(2 * cap) /\ retry' = FALSE
        /\ rows' = rows /\ cur' = cur /\ emitted' = emitted
        /\ pc' = IF TooFull(size + 1, cap) THEN "rebuild" ELSE "found"
    BY DEF ProbeInsert
  <1>1. /\ key \in Keys /\ pos \in 0 .. cap - 1 /\ e \in Slot /\ e.key = key
        /\ e.hash = hash[key] /\ hash[key] \in Nat
    BY <1>0, TablesOfIInv DEF IInv, TypeOK, KeyInv, ProbeInv, Slot
  <1>2. /\ PathUsed(slot, cap, Home(e.hash, cap), pos)
        /\ \A q \in 0 .. cap - 1 :
               OnPath(Home(hash[key], cap), q, pos) /\ q # pos => slot[q].key # key
    BY <1>0, <1>1 DEF IInv, ProbeInv
  <1>3. /\ Reachable(slot, cap) /\ NoDuplicates(slot, cap) /\ Hashed(slot, cap)
        /\ slot \in Tables(cap) /\ cap \in Nat \ {0} /\ 2 * cap \in Nat
    BY TablesOfIInv DEF IInv, Searchable
  <1>4. \A r \in 0 .. cap - 1 : slot[r] # Free => slot[r].key # key
    BY <1>0, <1>1, <1>2, <1>3, AbsentKey
  <1>5. Reachable(slot', cap) /\ NoDuplicates(slot', cap)
    BY <1>0, <1>1, <1>2, <1>3, <1>4, PutReachable, PutNoDuplicates
  <1>6. \A p \in 0 .. cap - 1 : slot'[p] = IF p = pos THEN e ELSE slot[p]
    BY <1>0, <1>1, <1>3 DEF Tables
  <1>7. e # Free
    BY <1>1, TablesOfIInv
  <1>8. Hashed(slot, cap)'
    BY <1>0, <1>1, <1>3, <1>6 DEF Hashed
  <1>9. TypeOK'
    <2>1. slot' \in [0 .. cap - 1 -> Slot \cup {Free}]
      BY <1>0, <1>1, <1>3 DEF Tables
    <2>2. TypeOK
      BY DEF IInv
    <2>3. pc' \in {"rebuild", "found"} /\ size' \in Nat
      BY <1>0, <2>2 DEF TypeOK
    <2>4. QED
      BY <1>0, <2>1, <2>2, <2>3 DEF TypeOK
  <1>10. /\ Reachable(EmptyTable(2 * cap), 2 * cap)
         /\ NoDuplicates(EmptyTable(2 * cap), 2 * cap)
         /\ Hashed(EmptyTable(2 * cap), 2 * cap)
         /\ EmptyTable(2 * cap) \in Tables(2 * cap)
         /\ UsedIn(EmptyTable(2 * cap), 2 * cap) = {}
    BY <1>3, EmptyTableFacts
  <1>11. Searchable'
    BY <1>0, <1>5, <1>10 DEF Searchable
  <1>12. HalfFree'
    <2>1. Cardinality(UsedIn(slot', cap)) = size + 1
      BY <1>0, <1>1, <1>3, PutUsed DEF IInv, HalfFree
    <2>2. TooFull(size + 1, cap) \/ 2 * (size + 1) <= cap
      BY <1>3 DEF TooFull, IInv, TypeOK
    <2>3. QED
      BY <1>0, <2>1, <2>2 DEF HalfFree
  <1>13. RightReference' /\ ProbeInv' /\ PlaceInv'
    BY <1>0, <1>1, <1>6, <1>7 DEF RightReference, ProbeInv, PlaceInv
  <1>14. KeyInv'
    BY <1>0, <1>1, <1>6 DEF IInv, KeyInv
  <1>15. RebuildInv'
    <2>1. UsedIn(slot', 0) = {}
      BY DEF UsedIn
    <2>2. Hashed(EmptyTable(2 * cap), 2 * cap)'
      BY <1>0, <1>10 DEF Hashed, EmptyTable
    <2>3. \A q \in 0 .. 2 * cap - 1 : EmptyTable(2 * cap)[q] = Free
      BY DEF EmptyTable
    <2>4. slot'[pos] # Free /\ slot'[pos].key = key
      BY <1>1, <1>6, <1>7
    <2>5. 0 .. 0 - 1 = {} /\ 0 \in 0 .. cap
      BY <1>3
    <2>6. QED
      BY <1>0, <1>1, <1>10, <2>1, <2>2, <2>3, <2>4, <2>5 DEF RebuildInv
  <1>16. EmitInv'
    BY <1>0 DEF IInv, EmitInv
  <1>17. QED
    BY <1>8, <1>9, <1>11, <1>12, <1>13, <1>14, <1>15, <1>16 DEF IInv

\* Updating the value through the reference.
LEMMA UpdateIInv == IInv /\ Update => IInv'
  <1> SUFFICES ASSUME IInv, Update PROVE IInv'
    OBVIOUS
  <1> DEFINE e == [slot[pos] EXCEPT !.val = @ + 1]
  <1>0. /\ pc = "found" /\ pc' = "idle" /\ slot' = [slot EXCEPT ![pos] = e]
        /\ key' = NoKey /\ size' = size /\ cap' = cap /\ hash' = hash /\ pos' = pos
        /\ src' = src /\ new' = new /\ retry' = retry /\ rows' = rows /\ cur' = cur
        /\ emitted' = emitted
    BY DEF Update
  <1>1. /\ pos \in 0 .. cap - 1 /\ slot[pos] # Free /\ slot[pos] \in Slot
        /\ slot[pos].key = key
    BY <1>0, TablesOfIInv DEF IInv, ProbeInv, RightReference
  <1>2. /\ e \in Slot /\ e.key = slot[pos].key /\ e.hash = slot[pos].hash
        /\ e.val = slot[pos].val + 1 /\ e.val > 0
    BY <1>1 DEF Slot
  <1>3. e # Free
    BY <1>2, TablesOfIInv
  <1>4. \A p \in 0 .. cap - 1 : slot'[p] = IF p = pos THEN e ELSE slot[p]
    BY <1>0, <1>1, TablesOfIInv DEF Tables
  <1>5. \A p \in 0 .. cap - 1 :
           /\ slot'[p] # Free <=> slot[p] # Free
           /\ slot'[p].key = slot[p].key /\ slot'[p].hash = slot[p].hash
    BY <1>1, <1>2, <1>3, <1>4
  <1>6. TypeOK'
    <2>1. slot' \in [0 .. cap - 1 -> Slot \cup {Free}]
      BY <1>0, <1>1, <1>2, TablesOfIInv DEF Tables
    <2>2. QED
      BY <1>0, <2>1 DEF IInv, TypeOK
  <1>7. Hashed(slot, cap)' /\ Searchable'
    BY <1>0, <1>5 DEF IInv, Searchable, Hashed, Reachable, NoDuplicates
  <1>8. HalfFree'
    <2>1. UsedIn(slot', cap) = UsedIn(slot, cap)
      BY <1>5 DEF UsedIn
    <2>2. QED
      BY <1>0, <2>1 DEF IInv, HalfFree
  <1>9. RightReference' /\ ProbeInv' /\ RebuildInv' /\ PlaceInv' /\ EmitInv'
    BY <1>0 DEF IInv, RightReference, ProbeInv, RebuildInv, PlaceInv, EmitInv
  <1>10. KeyInv'
    <2>1. \A p \in 0 .. cap - 1 : slot[p] # Free /\ p # pos => slot[p].val > 0
      BY <1>1 DEF IInv, KeyInv, Searchable, NoDuplicates
    <2>2. QED
      BY <1>0, <1>2, <1>4, <2>1 DEF KeyInv
  <1>11. QED
    BY <1>6, <1>7, <1>8, <1>9, <1>10 DEF IInv

\* Passing an unused position of the old table.
LEMMA SkipIInv == IInv /\ RebuildSkip => IInv'
  <1> SUFFICES ASSUME IInv, RebuildSkip PROVE IInv'
    OBVIOUS
  <1>0. /\ pc = "rebuild" /\ pc' = pc /\ src < cap /\ slot[src] = Free /\ src' = src + 1
        /\ slot' = slot /\ cap' = cap /\ hash' = hash /\ size' = size /\ key' = key
        /\ pos' = pos /\ new' = new /\ retry' = retry /\ rows' = rows /\ cur' = cur
        /\ emitted' = emitted
    BY DEF RebuildSkip
  <1>1. TypeOK'
    <2>1. TypeOK
      BY DEF IInv
    <2>2. QED
      BY <1>0, <2>1 DEF TypeOK
  <1>2. Hashed(slot, cap)' /\ Searchable'
    BY <1>0 DEF IInv, Searchable, Hashed, Reachable, NoDuplicates
  <1>3. HalfFree' /\ RightReference' /\ KeyInv' /\ ProbeInv' /\ PlaceInv' /\ EmitInv'
    BY <1>0 DEF IInv, HalfFree, UsedIn, RightReference, KeyInv, ProbeInv, PlaceInv, EmitInv
  <1>4. RebuildInv'
    <2>1. src \in Nat /\ src' \in 0 .. cap /\ cap \in Nat
      BY <1>0, TablesOfIInv DEF IInv, RebuildInv
    <2>2. \A p \in 0 .. src + 1 - 1 : slot[p] # Free => p \in 0 .. src - 1
      BY <1>0, <2>1
    <2>3. \A p \in 0 .. src - 1 : p \in 0 .. src + 1 - 1
      BY <2>1
    <2>4. UsedIn(slot, src + 1) = UsedIn(slot, src)
      BY <1>0, <2>1, UsedStep
    <2>5. Hashed(new, 2 * cap)'
      BY <1>0 DEF IInv, RebuildInv, Hashed
    <2>6. RebuildInv
      BY DEF IInv
    <2>7. QED
      BY <1>0, <2>1, <2>2, <2>3, <2>4, <2>5, <2>6 DEF RebuildInv, Tables
  <1>5. QED
    BY <1>1, <1>2, <1>3, <1>4 DEF IInv

\* Starting the probe of a slot to be moved.
LEMMA TakeIInv == IInv /\ RebuildTake => IInv'
  <1> SUFFICES ASSUME IInv, RebuildTake PROVE IInv'
    OBVIOUS
  <1>0. /\ pc = "rebuild" /\ pc' = "place" /\ src < cap /\ slot[src] # Free
        /\ pos' = Home(slot[src].hash, 2 * cap)
        /\ slot' = slot /\ cap' = cap /\ hash' = hash /\ size' = size /\ key' = key
        /\ src' = src /\ new' = new /\ retry' = retry /\ rows' = rows /\ cur' = cur
        /\ emitted' = emitted
    BY DEF RebuildTake
  <1>1. src \in 0 .. cap - 1 /\ slot[src].hash \in Nat
    <2>1. src \in 0 .. cap - 1
      BY <1>0, TablesOfIInv DEF IInv, RebuildInv
    <2>2. slot[src] \in Slot
      BY <1>0, <2>1, TablesOfIInv
    <2>3. QED
      BY <2>1, <2>2 DEF Slot
  <1>2. pos' \in 0 .. 2 * cap - 1
    BY <1>0, <1>1, HomeRange, TablesOfIInv
  <1>3. TypeOK'
    <2>1. TypeOK
      BY DEF IInv
    <2>2. QED
      BY <1>0, <1>2, <2>1 DEF TypeOK
  <1>4. Hashed(slot, cap)' /\ Searchable'
    BY <1>0 DEF IInv, Searchable, Hashed, Reachable, NoDuplicates
  <1>5. HalfFree' /\ RightReference' /\ KeyInv' /\ ProbeInv' /\ EmitInv'
    BY <1>0 DEF IInv, HalfFree, UsedIn, RightReference, KeyInv, ProbeInv, EmitInv
  <1>6. RebuildInv'
    BY <1>0 DEF IInv, RebuildInv, Hashed, Tables
  <1>7. PlaceInv'
    BY <1>0, <1>2, TablesOfIInv DEF PlaceInv, PathUsed, OnPath
  <1>8. QED
    BY <1>3, <1>4, <1>5, <1>6, <1>7 DEF IInv

\* Passing a used position of the new table.
LEMMA PlaceNextIInv == IInv /\ PlaceNext => IInv'
  <1> SUFFICES ASSUME IInv, PlaceNext PROVE IInv'
    OBVIOUS
  <1>0. /\ pc = "place" /\ pc' = pc /\ new[pos] # Free /\ pos' = Succ(pos, 2 * cap)
        /\ slot' = slot /\ cap' = cap /\ hash' = hash /\ size' = size /\ key' = key
        /\ src' = src /\ new' = new /\ retry' = retry /\ rows' = rows /\ cur' = cur
        /\ emitted' = emitted
    BY DEF PlaceNext
  <1>1. /\ src \in 0 .. cap - 1 /\ slot[src] \in Slot /\ slot[src].hash \in Nat
        /\ pos \in 0 .. 2 * cap - 1
    <2>1. src \in 0 .. cap - 1 /\ slot[src] # Free
      BY <1>0, TablesOfIInv DEF IInv, RebuildInv, PlaceInv
    <2>2. slot[src] \in Slot
      BY <2>1, TablesOfIInv
    <2>3. QED
      BY <1>0, <2>1, <2>2 DEF IInv, PlaceInv, Slot
  <1>2. pos' \in 0 .. 2 * cap - 1
    BY <1>0, <1>1, SuccRange, TablesOfIInv
  <1>3. TypeOK'
    <2>1. TypeOK
      BY DEF IInv
    <2>2. QED
      BY <1>0, <1>2, <2>1 DEF TypeOK
  <1>4. Hashed(slot, cap)' /\ Searchable'
    BY <1>0 DEF IInv, Searchable, Hashed, Reachable, NoDuplicates
  <1>5. HalfFree' /\ RightReference' /\ KeyInv' /\ ProbeInv' /\ EmitInv'
    BY <1>0 DEF IInv, HalfFree, UsedIn, RightReference, KeyInv, ProbeInv, EmitInv
  <1>6. RebuildInv'
    BY <1>0 DEF IInv, RebuildInv, Hashed, Tables
  <1>7. PlaceInv'
    <2> DEFINE h == Home(slot[src].hash, 2 * cap)
    <2>1. h \in 0 .. 2 * cap - 1
      BY <1>1, HomeRange, TablesOfIInv
    <2>2. \A q \in 0 .. 2 * cap - 1 :
             OnPath(h, q, pos') /\ q # pos' => OnPath(h, q, pos)
      BY <1>0, <1>1, <2>1, PathStep, TablesOfIInv
    <2>3. \A q \in 0 .. 2 * cap - 1 : OnPath(h, q, pos) => new[q] # Free
      BY <1>0 DEF IInv, PlaceInv, PathUsed
    <2>4. PlaceInv
      BY DEF IInv
    <2>5. QED
      BY <1>0, <1>2, <2>2, <2>3, <2>4 DEF PlaceInv, PathUsed
  <1>8. QED
    BY <1>3, <1>4, <1>5, <1>6, <1>7 DEF IInv

\* Moving a slot to its position in the new table.
LEMMA PlacePutIInv == IInv /\ PlacePut => IInv'
  <1> SUFFICES ASSUME IInv, PlacePut PROVE IInv'
    OBVIOUS
  <1> DEFINE n == 2 * cap
             e == slot[src]
  <1>0. /\ pc = "place" /\ pc' = "rebuild" /\ new[pos] = Free
        /\ new' = [new EXCEPT ![pos] = e] /\ src' = src + 1
        /\ slot' = slot /\ cap' = cap /\ hash' = hash /\ size' = size /\ key' = key
        /\ pos' = pos /\ retry' = retry /\ rows' = rows /\ cur' = cur
        /\ emitted' = emitted
    BY DEF PlacePut
  <1>1. /\ src \in 0 .. cap - 1 /\ e # Free /\ e \in Slot
        /\ pos \in 0 .. n - 1 /\ n \in Nat \ {0} /\ cap \in Nat /\ src + 1 \in 0 .. cap
    <2>1. src \in 0 .. cap - 1 /\ e # Free /\ src + 1 \in 0 .. cap
      BY <1>0, TablesOfIInv DEF IInv, RebuildInv, PlaceInv
    <2>2. e \in Slot
      BY <2>1, TablesOfIInv
    <2>3. QED
      BY <1>0, <2>1, <2>2, TablesOfIInv DEF IInv, PlaceInv
  <1>2. /\ new \in Tables(n) /\ Reachable(new, n) /\ NoDuplicates(new, n)
        /\ Hashed(new, n) /\ PathUsed(new, n, Home(e.hash, n), pos)
        /\ e.hash = hash[e.key]
    BY <1>0, <1>1 DEF IInv, Searchable, RebuildInv, PlaceInv, Hashed
  <1>3. \A q \in 0 .. n - 1 : new[q] # Free =>
           \E p \in 0 .. src - 1 : new[q] = slot[p]
    BY <1>0 DEF IInv, RebuildInv
  <1>4. \A q \in 0 .. n - 1 : new[q] # Free => new[q].key # e.key
    <2> SUFFICES ASSUME NEW q \in 0 .. n - 1, new[q] # Free, new[q].key = e.key
                 PROVE  FALSE
      OBVIOUS
    <2>1. PICK p \in 0 .. src - 1 : new[q] = slot[p]
      BY <1>3
    <2>2. p \in 0 .. cap - 1 /\ slot[p] # Free /\ slot[p].key = slot[src].key
      BY <1>1, <2>1
    <2>3. p = src
      BY <1>1, <2>2 DEF IInv, Searchable, NoDuplicates
    <2>4. QED
      BY <1>1, <2>3
  <1>5. Reachable(new', n) /\ NoDuplicates(new', n)
    BY <1>0, <1>1, <1>2, <1>4, PutReachable, PutNoDuplicates
  <1>6. \A q \in 0 .. n - 1 : new'[q] = IF q = pos THEN e ELSE new[q]
    BY <1>0, <1>1, <1>2 DEF Tables
  <1>7. TypeOK'
    <2>1. TypeOK
      BY DEF IInv
    <2>2. QED
      BY <1>0, <1>1, <2>1 DEF TypeOK
  <1>8. Hashed(slot, cap)' /\ Searchable'
    BY <1>0, <1>5 DEF IInv, Searchable, Hashed, Reachable, NoDuplicates
  <1>9. HalfFree' /\ RightReference' /\ KeyInv' /\ ProbeInv' /\ PlaceInv' /\ EmitInv'
    BY <1>0 DEF IInv, HalfFree, UsedIn, RightReference, KeyInv, ProbeInv, PlaceInv, EmitInv
  <1>10. RebuildInv'
    <2>1. new' \in Tables(n) /\ Hashed(new, n)'
      <3>1. new' \in Tables(n)
        BY <1>0, <1>1, <1>2 DEF Tables
      <3>2. \A q \in 0 .. n - 1 : new'[q] # Free => new'[q].hash = hash[new'[q].key]
        BY <1>2, <1>6 DEF Hashed
      <3>3. QED
        BY <1>0, <3>1, <3>2 DEF Hashed
    <2>2. ASSUME NEW p \in 0 .. src + 1 - 1, slot[p] # Free
          PROVE  \E q \in 0 .. n - 1 : new'[q] = slot[p]
      <3>1. CASE p = src
        BY <3>1, <1>1, <1>6
      <3>2. CASE p # src
        <4>1. p \in 0 .. src - 1
          BY <1>1, <3>2
        <4>2. PICK q \in 0 .. n - 1 : new[q] = slot[p]
          BY <1>0, <2>2, <4>1 DEF IInv, RebuildInv
        <4>3. new'[q] = slot[p]
          BY <1>0, <1>6, <2>2, <4>2
        <4>4. QED
          BY <4>3
      <3>3. QED
        BY <3>1, <3>2
    <2>3. ASSUME NEW q \in 0 .. n - 1, new'[q] # Free
          PROVE  \E p \in 0 .. src + 1 - 1 : new'[q] = slot[p]
      <3>1. CASE q = pos
        BY <3>1, <1>1, <1>6
      <3>2. CASE q # pos
        <4>1. PICK p \in 0 .. src - 1 : new'[q] = slot[p]
          BY <1>3, <1>6, <2>3, <3>2
        <4>2. p \in 0 .. src + 1 - 1
          BY <1>1
        <4>3. QED
          BY <4>1, <4>2
      <3>3. QED
        BY <3>1, <3>2
    <2>4. Cardinality(UsedIn(new', n)) = Cardinality(UsedIn(slot, src + 1))
      <3>1. Cardinality(UsedIn(new', n)) = Cardinality(UsedIn(new, n)) + 1
        BY <1>0, <1>1, <1>2, PutUsed
      <3>2. Cardinality(UsedIn(slot, src + 1)) = Cardinality(UsedIn(slot, src)) + 1
        BY <1>1, UsedStep
      <3>3. QED
        BY <1>0, <3>1, <3>2 DEF IInv, RebuildInv
    <2>5. \E p \in 0 .. cap - 1 : slot[p] # Free /\ slot[p].key = key
      BY <1>0 DEF IInv, RebuildInv
    <2>6. QED
      BY <1>0, <1>1, <2>1, <2>2, <2>3, <2>4, <2>5 DEF RebuildInv, Tables
  <1>11. QED
    BY <1>7, <1>8, <1>9, <1>10 DEF IInv

\* The new table replaces the old one: it has every old slot, so the key is
\* found again, and it is at most half full.
LEMMA DoneIInv == IInv /\ RebuildDone => IInv'
  <1> SUFFICES ASSUME IInv, RebuildDone PROVE IInv'
    OBVIOUS
  <1> DEFINE n == 2 * cap
  <1>0. /\ pc = "rebuild" /\ pc' = "probe" /\ src >= cap /\ slot' = new /\ cap' = n
        /\ pos' = Home(hash[key], n) /\ retry' = TRUE
        /\ hash' = hash /\ size' = size /\ key' = key /\ src' = src /\ new' = new
        /\ rows' = rows /\ cur' = cur /\ emitted' = emitted
    BY DEF RebuildDone
  <1>1. /\ src = cap /\ n \in Nat \ {0} /\ cap \in Nat /\ key \in Keys /\ hash[key] \in Nat
    BY <1>0, TablesOfIInv DEF IInv, RebuildInv, KeyInv, TypeOK
  <1>2. pos' \in 0 .. n - 1
    BY <1>0, <1>1, HomeRange
  <1>3. /\ new \in Tables(n) /\ Hashed(new, n) /\ Reachable(new, n) /\ NoDuplicates(new, n)
        /\ \A p \in 0 .. cap - 1 : slot[p] # Free =>
               \E q \in 0 .. n - 1 : new[q] = slot[p]
        /\ \A q \in 0 .. n - 1 : new[q] # Free =>
               \E p \in 0 .. cap - 1 : new[q] = slot[p]
        /\ Cardinality(UsedIn(new, n)) = Cardinality(UsedIn(slot, cap))
        /\ \E p \in 0 .. cap - 1 : slot[p] # Free /\ slot[p].key = key
    BY <1>0, <1>1 DEF IInv, RebuildInv, Searchable
  <1>4. TypeOK'
    <2>1. TypeOK
      BY DEF IInv
    <2>2. QED
      BY <1>0, <1>1, <1>2, <1>3, <2>1 DEF TypeOK, Tables
  <1>5. Hashed(slot, cap)' /\ Searchable'
    BY <1>0, <1>3 DEF Searchable, Hashed, Reachable, NoDuplicates
  <1>6. HalfFree'
    <2>1. size = Cardinality(UsedIn(slot, cap)) /\ size <= cap /\ size \in Nat
      BY <1>1, UsedBound DEF IInv, HalfFree
    <2>2. 2 * size <= n
      BY <1>1, <2>1
    <2>3. size = Cardinality(UsedIn(new, n))
      BY <1>3, <2>1
    <2>4. QED
      BY <1>0, <2>2, <2>3 DEF HalfFree
  <1>7. RightReference'
    <2>1. PICK p \in 0 .. cap - 1 : slot[p] # Free /\ slot[p].key = key
      BY <1>3
    <2>2. PICK q \in 0 .. n - 1 : new[q] = slot[p]
      BY <1>3, <2>1
    <2>3. QED
      BY <1>0, <2>1, <2>2 DEF RightReference
  <1>8. KeyInv'
    <2>1. ASSUME NEW q \in 0 .. n - 1, new[q] # Free, new[q].key # key
          PROVE  new[q].val > 0
      <3>1. PICK p \in 0 .. cap - 1 : new[q] = slot[p]
        BY <1>3, <2>1
      <3>2. QED
        BY <2>1, <3>1 DEF IInv, KeyInv
    <2>2. key # NoKey
      BY <1>1, TablesOfIInv
    <2>3. QED
      BY <1>0, <2>1, <2>2 DEF KeyInv
  <1>9. ProbeInv'
    BY <1>0, <1>1, <1>2 DEF ProbeInv, PathUsed, OnPath
  <1>10. RebuildInv' /\ PlaceInv' /\ EmitInv'
    BY <1>0 DEF IInv, RebuildInv, PlaceInv, EmitInv
  <1>11. QED
    BY <1>4, <1>5, <1>6, <1>7, <1>8, <1>9, <1>10 DEF IInv

\* The end of the input.
LEMMA StartEmitIInv == IInv /\ StartEmit => IInv'
  <1> SUFFICES ASSUME IInv, StartEmit PROVE IInv'
    OBVIOUS
  <1>0. /\ pc = "idle" /\ pc' = "emit" /\ cur' = 0
        /\ slot' = slot /\ cap' = cap /\ hash' = hash /\ size' = size /\ key' = key
        /\ pos' = pos /\ src' = src /\ new' = new /\ retry' = retry /\ rows' = rows
        /\ emitted' = emitted
    BY DEF StartEmit
  <1>1. cur' \in 0 .. cap
    BY <1>0, TablesOfIInv
  <1>2. TypeOK'
    <2>1. TypeOK
      BY DEF IInv
    <2>2. QED
      BY <1>0, <1>1, <2>1 DEF TypeOK
  <1>3. Hashed(slot, cap)' /\ Searchable'
    BY <1>0 DEF IInv, Searchable, Hashed, Reachable, NoDuplicates
  <1>4. HalfFree' /\ RightReference' /\ KeyInv' /\ ProbeInv' /\ RebuildInv' /\ PlaceInv'
    BY <1>0 DEF IInv, HalfFree, UsedIn, RightReference, KeyInv, ProbeInv, RebuildInv, PlaceInv
  <1>5. EmitInv'
    <2>1. \A k \in Keys : emitted[k] = 0
      BY <1>0 DEF IInv, EmitInv
    <2>2. \A p \in 0 .. cap - 1 : slot[p] # Free => slot[p].key \in Keys /\ ~(p < cur')
      BY <1>0, TablesOfIInv
    <2>3. QED
      BY <1>0, <1>1, <2>1, <2>2 DEF EmitInv
  <1>6. QED
    BY <1>2, <1>3, <1>4, <1>5 DEF IInv

\* Passing an unused position.
LEMMA EmitSkipIInv == IInv /\ EmitSkip => IInv'
  <1> SUFFICES ASSUME IInv, EmitSkip PROVE IInv'
    OBVIOUS
  <1>0. /\ pc = "emit" /\ pc' = pc /\ cur < cap /\ slot[cur] = Free /\ cur' = cur + 1
        /\ slot' = slot /\ cap' = cap /\ hash' = hash /\ size' = size /\ key' = key
        /\ pos' = pos /\ src' = src /\ new' = new /\ retry' = retry /\ rows' = rows
        /\ emitted' = emitted
    BY DEF EmitSkip
  <1>1. cur \in 0 .. cap - 1 /\ cur' \in 0 .. cap
    BY <1>0, TablesOfIInv DEF IInv, EmitInv
  <1>2. TypeOK'
    <2>1. TypeOK
      BY DEF IInv
    <2>2. QED
      BY <1>0, <1>1, <2>1 DEF TypeOK
  <1>3. Hashed(slot, cap)' /\ Searchable'
    BY <1>0 DEF IInv, Searchable, Hashed, Reachable, NoDuplicates
  <1>4. HalfFree' /\ RightReference' /\ KeyInv' /\ ProbeInv' /\ RebuildInv' /\ PlaceInv'
    BY <1>0 DEF IInv, HalfFree, UsedIn, RightReference, KeyInv, ProbeInv, RebuildInv, PlaceInv
  <1>5. EmitInv'
    <2>1. \A p \in 0 .. cap - 1 : slot[p] # Free => (p < cur' <=> p < cur)
      BY <1>0, <1>1
    <2>2. EmitInv
      BY DEF IInv
    <2>3. QED
      BY <1>0, <1>1, <2>1, <2>2 DEF EmitInv
  <1>6. QED
    BY <1>2, <1>3, <1>4, <1>5 DEF IInv

\* Emitting one group.
LEMMA EmitIInv == IInv /\ Emit => IInv'
  <1> SUFFICES ASSUME IInv, Emit PROVE IInv'
    OBVIOUS
  <1> DEFINE e == slot[cur]
  <1>0. /\ pc = "emit" /\ pc' = pc /\ cur < cap /\ slot[cur] # Free /\ cur' = cur + 1
        /\ emitted' = [emitted EXCEPT ![e.key] = @ + e.val]
        /\ slot' = slot /\ cap' = cap /\ hash' = hash /\ size' = size /\ key' = key
        /\ pos' = pos /\ src' = src /\ new' = new /\ retry' = retry /\ rows' = rows
    BY DEF Emit
  <1>1. cur \in 0 .. cap - 1 /\ e # Free /\ e.key \in Keys /\ e.val \in Nat
    BY <1>0, TablesOfIInv DEF IInv, EmitInv
  <1>2. cur' = cur + 1 /\ cur' \in 0 .. cap
    BY <1>0, <1>1, TablesOfIInv
  <1>3. emitted \in [Keys -> Nat] /\ emitted' \in [Keys -> Nat]
    BY <1>0, <1>1 DEF IInv, TypeOK
  <1>4. TypeOK'
    <2>1. TypeOK
      BY DEF IInv
    <2>2. QED
      BY <1>0, <1>2, <1>3, <2>1 DEF TypeOK
  <1>5. Hashed(slot, cap)' /\ Searchable'
    BY <1>0 DEF IInv, Searchable, Hashed, Reachable, NoDuplicates
  <1>6. HalfFree' /\ RightReference' /\ KeyInv' /\ ProbeInv' /\ RebuildInv' /\ PlaceInv'
    BY <1>0 DEF IInv, HalfFree, UsedIn, RightReference, KeyInv, ProbeInv, RebuildInv, PlaceInv
  <1>7. EmitInv'
    <2>1. \A k \in Keys : emitted'[k] = IF k = e.key THEN emitted[k] + e.val ELSE emitted[k]
      BY <1>0, <1>3
    <2>2. /\ \A p \in 0 .. cap - 1 : slot[p] # Free =>
                 emitted[slot[p].key] = IF p < cur THEN slot[p].val ELSE 0
          /\ \A k \in Keys :
                 (\A p \in 0 .. cap - 1 : slot[p] # Free => slot[p].key # k)
                     => emitted[k] = 0
      BY <1>0 DEF IInv, EmitInv
    <2>3. ASSUME NEW p \in 0 .. cap - 1, slot[p] # Free
          PROVE  emitted'[slot[p].key] = IF p < cur' THEN slot[p].val ELSE 0
      <3>0. slot[p].key \in Keys /\ slot[p].val \in Nat
        BY <2>3, TablesOfIInv
      <3>1. CASE p = cur
        BY <3>1, <1>1, <1>2, <2>1, <2>2
      <3>2. CASE p # cur
        <4>1. slot[p].key # e.key
          BY <1>1, <2>3, <3>2 DEF IInv, Searchable, NoDuplicates
        <4>2. p < cur' <=> p < cur
          BY <1>1, <1>2, <2>3, <3>2
        <4>3. QED
          BY <2>1, <2>2, <2>3, <3>0, <4>1, <4>2
      <3>3. QED
        BY <3>1, <3>2
    <2>4. ASSUME NEW k \in Keys,
                 \A p \in 0 .. cap - 1 : slot[p] # Free => slot[p].key # k
          PROVE  emitted'[k] = 0
      BY <1>1, <2>1, <2>2, <2>4
    <2>5. cur' \in 0 .. cap
      BY <1>1, <1>2
    <2>6. QED
      BY <1>0, <1>2, <2>3, <2>4, <2>5 DEF EmitInv
  <1>8. QED
    BY <1>4, <1>5, <1>6, <1>7 DEF IInv

\* The end of the table.
LEMMA FinishIInv == IInv /\ Finish => IInv'
  <1> SUFFICES ASSUME IInv, Finish PROVE IInv'
    OBVIOUS
  <1> USE DEF Finish
  <1>1. TypeOK'
    <2>1. TypeOK
      BY DEF IInv
    <2>2. QED
      BY <2>1 DEF TypeOK
  <1>2. Hashed(slot, cap)' /\ Searchable'
    BY DEF IInv, Searchable, Hashed, Reachable, NoDuplicates
  <1>3. HalfFree' /\ RightReference' /\ KeyInv' /\ ProbeInv' /\ RebuildInv' /\ PlaceInv'
    BY DEF IInv, HalfFree, UsedIn, RightReference, KeyInv, ProbeInv, RebuildInv, PlaceInv
  <1>4. EmitInv'
    BY TablesOfIInv DEF IInv, EmitInv
  <1>5. QED
    BY <1>1, <1>2, <1>3, <1>4 DEF IInv

-----------------------------------------------------------------------------
(* The theorems.                                                           *)

LEMMA NextStepIInv == IInv /\ [Next]_vars => IInv'
BY FindIInv, HitIInv, NextIInv, InsertIInv, UpdateIInv, SkipIInv, TakeIInv,
   PlaceNextIInv, PlacePutIInv, DoneIInv, StartEmitIInv, EmitSkipIInv, EmitIInv, FinishIInv,
   StutterIInv DEF Next, Step

\* In every state of every table, for every hash function, the half-done
\* calls are where they can continue from.
THEOREM Inductive == Spec => []IInv
  <1>1. QED
    BY InitIInv, NextStepIInv, PTL DEF Spec

\* Every variable keeps its type.
THEOREM TypeCorrect == Spec => []TypeOK
BY Inductive, PTL DEF IInv

\* Whatever hash function it has, the table, and during a Rebuild the one
\* that replaces it, keeps every key reachable from its home position
\* and at one position only (lines 90-150 and 187-207).
THEOREM AlwaysSearchable == Spec => []Searchable
BY Inductive, PTL DEF IInv

\* At least half of the table is unused whenever a probe runs (line 107).
THEOREM AlwaysHalfFree == Spec => []HalfFree
BY Inductive, PTL DEF IInv

\* FindOrInsert returns the slot of its key, also through a Rebuild (line 109).
THEOREM AlwaysRightReference == Spec => []RightReference
BY Inductive, PTL DEF IInv

\* A probe that is running has an unused position to stop at: the loops of
\* lines 99, 127 and 194 cannot run forever.
THEOREM ProbeCanStop ==
    Spec => [](/\ pc = "probe" => \E p \in 0 .. cap - 1 : slot[p] = Free
               /\ pc = "place" => \E p \in 0 .. 2 * cap - 1 : new[p] = Free)
  <1>1. ASSUME IInv, pc = "probe" PROVE \E p \in 0 .. cap - 1 : slot[p] = Free
    <2> SUFFICES ASSUME \A p \in 0 .. cap - 1 : slot[p] # Free PROVE FALSE
      OBVIOUS
    <2>1. UsedIn(slot, cap) = 0 .. cap - 1
      BY DEF UsedIn
    <2>2. cap \in Nat \ {0}
      BY <1>1, TablesOfIInv
    <2>3. Cardinality(UsedIn(slot, cap)) = cap
      BY <2>1, <2>2, FS_Interval
    <2>4. QED
      BY <1>1, <2>2, <2>3 DEF IInv, HalfFree
  <1>2. ASSUME IInv, pc = "place" PROVE \E p \in 0 .. 2 * cap - 1 : new[p] = Free
    <2> SUFFICES ASSUME \A p \in 0 .. 2 * cap - 1 : new[p] # Free PROVE FALSE
      OBVIOUS
    <2>1. UsedIn(new, 2 * cap) = 0 .. 2 * cap - 1
      BY DEF UsedIn
    <2>2. cap \in Nat \ {0} /\ src \in 0 .. cap
      BY <1>2, TablesOfIInv DEF IInv, RebuildInv
    <2>3. Cardinality(UsedIn(new, 2 * cap)) = 2 * cap
      BY <2>1, <2>2, FS_Interval
    <2>4. Cardinality(UsedIn(slot, src)) <= src
      BY <2>2, UsedBound
    <2>5. QED
      BY <1>2, <2>2, <2>3, <2>4 DEF IInv, RebuildInv
  <1>3. QED
    BY <1>1, <1>2, Inductive, PTL

-----------------------------------------------------------------------------
(* The table implements the table of counters.                             *)

\* With distinct keys the group of a slot's key is that slot's value.
LEMMA GroupOfSlot ==
    ASSUME NEW n \in Nat, NEW t, NoDuplicates(t, n),
           NEW p \in 0 .. n - 1, t[p] # Free
    PROVE  GroupIn(t, n, t[p].key) = t[p].val
  <1> DEFINE H(q) == t[q] # Free /\ t[q].key = t[p].key
  <1>1. H(p) /\ \A q \in 0 .. n - 1 : H(q) => q = p
    BY DEF NoDuplicates
  <1>2. (CHOOSE q \in 0 .. n - 1 : H(q)) = p
    BY <1>1
  <1>3. QED
    BY <1>1, <1>2 DEF GroupIn

\* A key without a slot has no rows.
LEMMA GroupOfNone ==
    ASSUME NEW n, NEW t, NEW k,
           \A p \in 0 .. n - 1 : t[p] # Free => t[p].key # k
    PROVE  GroupIn(t, n, k) = 0
BY DEF GroupIn

\* Table u of m positions holds the slots of table t of n positions, and
\* besides them only slots without rows.
SameSlots(t, n, u, m) ==
    /\ \A p \in 0 .. n - 1 : t[p] # Free => \E q \in 0 .. m - 1 : u[q] = t[p]
    /\ \A q \in 0 .. m - 1 : u[q] # Free =>
           (\E p \in 0 .. n - 1 : u[q] = t[p]) \/ u[q].val = 0

\* Such tables hold the same groups.
LEMMA SameGroups ==
    ASSUME NEW n \in Nat, NEW t, NoDuplicates(t, n),
           NEW m \in Nat, NEW u, NoDuplicates(u, m),
           SameSlots(t, n, u, m),
           NEW k
    PROVE  GroupIn(u, m, k) = GroupIn(t, n, k)
  <1> USE DEF SameSlots
  <1>1. CASE \E p \in 0 .. n - 1 : t[p] # Free /\ t[p].key = k
    <2>1. PICK p \in 0 .. n - 1 : t[p] # Free /\ t[p].key = k
      BY <1>1
    <2>2. PICK q \in 0 .. m - 1 : u[q] = t[p]
      BY <2>1
    <2>3. GroupIn(t, n, k) = t[p].val
      BY <2>1, GroupOfSlot
    <2>4. GroupIn(u, m, k) = u[q].val
      BY <2>1, <2>2, GroupOfSlot
    <2>5. QED
      BY <2>2, <2>3, <2>4
  <1>2. CASE ~ \E p \in 0 .. n - 1 : t[p] # Free /\ t[p].key = k
    <2>1. GroupIn(t, n, k) = 0
      BY <1>2, GroupOfNone
    <2>2. CASE \E q \in 0 .. m - 1 : u[q] # Free /\ u[q].key = k
      <3>1. PICK q \in 0 .. m - 1 : u[q] # Free /\ u[q].key = k
        BY <2>2
      <3>2. u[q].val = 0
        BY <1>2, <3>1
      <3>3. QED
        BY <2>1, <3>1, <3>2, GroupOfSlot
    <2>3. CASE ~ \E q \in 0 .. m - 1 : u[q] # Free /\ u[q].key = k
      BY <2>1, <2>3, GroupOfNone
    <2>4. QED
      BY <2>2, <2>3
  <1>3. QED
    BY <1>1, <1>2

\* The facts of the tables the refinement uses, before or after a step.
LEMMA KeysDistinct ==
    IInv => /\ NoDuplicates(slot, cap) /\ cap \in Nat
            /\ pc \in {"idle", "emit", "done"} <=> key = NoKey
BY DEF IInv, Searchable, TypeOK, KeyInv

\* The states in which rows arrive.
Phase == CASE pc = "emit" -> "emit" [] pc = "done" -> "done" [] OTHER -> "add"

\* A step that is not seen from outside keeps every group.
LEMMA HiddenStep ==
    ASSUME IInv, IInv',
           ProbeHit \/ ProbeNext \/ ProbeInsert \/ RebuildSkip \/ RebuildTake
             \/ PlaceNext \/ PlacePut \/ RebuildDone \/ EmitSkip
    PROVE  UNCHANGED Groups!vars
  <1>1. key' = key /\ emitted' = emitted
    BY DEF ProbeHit, ProbeNext, ProbeInsert, RebuildSkip, RebuildTake, PlaceNext,
           PlacePut, RebuildDone, EmitSkip
  <1>2. Phase' = Phase
    BY DEF Phase, ProbeHit, ProbeNext, ProbeInsert, RebuildSkip, RebuildTake, PlaceNext,
           PlacePut, RebuildDone, EmitSkip
  <1>3. NoDuplicates(slot, cap) /\ NoDuplicates(slot', cap') /\ cap \in Nat /\ cap' \in Nat
    BY DEF IInv, Searchable, TypeOK
  <1>4. SameSlots(slot, cap, slot', cap')
    <2> USE DEF SameSlots
    <2>1. CASE ProbeInsert
      <3> DEFINE e == [key |-> key, hash |-> hash[key], val |-> 0]
      <3>1. \A p \in 0 .. cap - 1 : slot'[p] = IF p = pos THEN e ELSE slot[p]
        BY <2>1, TablesOfIInv DEF ProbeInsert, Tables
      <3>2. slot[pos] = Free /\ cap' = cap /\ e.val = 0
        BY <2>1 DEF ProbeInsert
      <3>3. QED
        BY <3>1, <3>2
    <2>2. CASE RebuildDone
      <3>1. /\ \A p \in 0 .. src - 1 : slot[p] # Free =>
                   \E q \in 0 .. 2 * cap - 1 : new[q] = slot[p]
            /\ \A q \in 0 .. 2 * cap - 1 : new[q] # Free =>
                   \E p \in 0 .. src - 1 : new[q] = slot[p]
            /\ src = cap
        BY <2>2, TablesOfIInv DEF IInv, RebuildInv, RebuildDone
      <3>2. QED
        BY <2>2, <3>1 DEF RebuildDone
    <2>3. CASE ~ProbeInsert /\ ~RebuildDone
      <3>1. slot' = slot /\ cap' = cap
        BY <2>3 DEF ProbeHit, ProbeNext, RebuildSkip, RebuildTake, PlaceNext, PlacePut, EmitSkip
      <3>2. QED
        BY <3>1
    <2>4. QED
      BY <2>1, <2>2, <2>3
  <1>5. \A k \in Keys : GroupIn(slot', cap', k) = GroupIn(slot, cap, k)
    BY <1>3, <1>4, SameGroups
  <1>6. [k \in Keys |-> GroupIn(slot, cap, k)]' = [k \in Keys |-> GroupIn(slot, cap, k)]
    BY <1>5
  <1>7. QED
    BY <1>1, <1>2, <1>6 DEF Groups!vars, Phase

\* The step of a row through the returned reference adds it to its group.
LEMMA UpdateAdds ==
    ASSUME IInv, IInv', Update
    PROVE  Groups!Add
  <1> DEFINE e == [slot[pos] EXCEPT !.val = @ + 1]
             G == [k \in Keys |-> GroupIn(slot, cap, k)]
  <1>0. /\ pc = "found" /\ pc' = "idle" /\ slot' = [slot EXCEPT ![pos] = e]
        /\ key' = NoKey /\ cap' = cap /\ emitted' = emitted
    BY DEF Update
  <1>1. /\ pos \in 0 .. cap - 1 /\ slot[pos] # Free /\ slot[pos].key = key
        /\ slot[pos] \in Slot /\ key \in Keys /\ cap \in Nat
    BY <1>0, TablesOfIInv DEF IInv, ProbeInv, RightReference
  <1>2. e.key = key /\ e.val = slot[pos].val + 1 /\ e \in Slot /\ e # Free
    BY <1>1, TablesOfIInv DEF Slot
  <1>3. \A p \in 0 .. cap - 1 : slot'[p] = IF p = pos THEN e ELSE slot[p]
    BY <1>0, <1>1, TablesOfIInv DEF Tables
  <1>4. NoDuplicates(slot, cap) /\ NoDuplicates(slot', cap)
    BY <1>0 DEF IInv, Searchable
  <1>5. ASSUME NEW k \in Keys
        PROVE  GroupIn(slot', cap, k)
                 = IF k = key THEN GroupIn(slot, cap, k) + 1 ELSE GroupIn(slot, cap, k)
    <2>1. CASE k = key
      <3>1. GroupIn(slot, cap, key) = slot[pos].val
        BY <1>1, <1>4, GroupOfSlot
      <3>2. slot'[pos] # Free /\ slot'[pos].key = key /\ slot'[pos].val = slot[pos].val + 1
        BY <1>1, <1>2, <1>3
      <3>3. GroupIn(slot', cap, key) = slot'[pos].val
        BY <1>1, <1>4, <3>2, GroupOfSlot
      <3>4. QED
        BY <2>1, <3>1, <3>2, <3>3
    <2>2. CASE k # key /\ \E p \in 0 .. cap - 1 : slot[p] # Free /\ slot[p].key = k
      <3>1. PICK p \in 0 .. cap - 1 : slot[p] # Free /\ slot[p].key = k
        BY <2>2
      <3>2. slot'[p] = slot[p]
        BY <1>1, <1>3, <2>2, <3>1
      <3>3. GroupIn(slot, cap, k) = slot[p].val
        BY <1>1, <1>4, <3>1, GroupOfSlot
      <3>4. GroupIn(slot', cap, k) = slot'[p].val
        BY <1>1, <1>4, <3>1, <3>2, GroupOfSlot
      <3>5. QED
        BY <2>2, <3>2, <3>3, <3>4
    <2>3. CASE k # key /\ ~ \E p \in 0 .. cap - 1 : slot[p] # Free /\ slot[p].key = k
      <3>1. \A p \in 0 .. cap - 1 : slot'[p] # Free => slot'[p].key # k
        BY <1>2, <1>3, <2>3
      <3>2. QED
        BY <2>3, <3>1, GroupOfNone
    <2>4. QED
      BY <2>1, <2>2, <2>3
  <1>6. [k \in Keys |-> GroupIn(slot', cap', k)] = [G EXCEPT ![key] = @ + 1]
    BY <1>0, <1>1, <1>5
  <1>7. QED
    BY <1>0, <1>1, <1>6 DEF Groups!Add

\* Emitting a slot emits its group, whole and for the first time.
LEMMA EmitEmits ==
    ASSUME IInv, Emit
    PROVE  \E k \in Keys : Groups!Emit(k)
  <1> DEFINE e == slot[cur]
             G == [k \in Keys |-> GroupIn(slot, cap, k)]
  <1>0. /\ pc = "emit" /\ pc' = pc /\ cur < cap /\ slot' = slot /\ cap' = cap
        /\ key' = key /\ emitted' = [emitted EXCEPT ![e.key] = @ + e.val]
    BY DEF Emit
  <1>1. /\ cur \in 0 .. cap - 1 /\ e # Free /\ e.key \in Keys /\ e.val \in Nat
        /\ cap \in Nat /\ key = NoKey
    BY <1>0, TablesOfIInv DEF IInv, EmitInv, KeyInv, Emit
  <1>2. G[e.key] = e.val
    BY <1>1, GroupOfSlot DEF IInv, Searchable
  <1>3. e.val > 0
    BY <1>0, <1>1, TablesOfIInv DEF IInv, KeyInv
  <1>4. emitted[e.key] = 0 /\ emitted \in [Keys -> Nat]
    BY <1>0, <1>1 DEF IInv, EmitInv, TypeOK
  <1>5. emitted' = [emitted EXCEPT ![e.key] = G[e.key]]
    <2>1. emitted[e.key] + e.val = G[e.key]
      BY <1>1, <1>2, <1>4
    <2>2. QED
      BY <1>0, <2>1
  <1>6. Groups!Emit(e.key)
    BY <1>0, <1>1, <1>2, <1>3, <1>4, <1>5 DEF Groups!Emit
  <1>7. QED
    BY <1>1, <1>6

\* At the end of the table everything has been emitted.
LEMMA FinishFinishes ==
    ASSUME IInv, Finish
    PROVE  Groups!Finish
  <1> DEFINE G == [k \in Keys |-> GroupIn(slot, cap, k)]
  <1>0. /\ pc = "emit" /\ pc' = "done" /\ cur >= cap /\ slot' = slot /\ cap' = cap
        /\ key' = key /\ emitted' = emitted
    BY DEF Finish
  <1>1. /\ cur \in 0 .. cap /\ cap \in Nat /\ emitted \in [Keys -> Nat]
        /\ \A p \in 0 .. cap - 1 : slot[p] # Free =>
               emitted[slot[p].key] = IF p < cur THEN slot[p].val ELSE 0
        /\ \A k \in Keys :
               (\A p \in 0 .. cap - 1 : slot[p] # Free => slot[p].key # k)
                   => emitted[k] = 0
    BY <1>0, TablesOfIInv DEF IInv, EmitInv, TypeOK
  <1>2. ASSUME NEW k \in Keys PROVE emitted[k] = G[k]
    <2>1. CASE \E p \in 0 .. cap - 1 : slot[p] # Free /\ slot[p].key = k
      <3>1. PICK p \in 0 .. cap - 1 : slot[p] # Free /\ slot[p].key = k
        BY <2>1
      <3>2. GroupIn(slot, cap, k) = slot[p].val
        BY <1>1, <3>1, GroupOfSlot DEF IInv, Searchable
      <3>3. p < cur
        BY <1>0, <1>1, <3>1
      <3>4. QED
        BY <1>1, <3>1, <3>2, <3>3
    <2>2. CASE ~ \E p \in 0 .. cap - 1 : slot[p] # Free /\ slot[p].key = k
      BY <1>1, <2>2, GroupOfNone
    <2>3. QED
      BY <2>1, <2>2
  <1>3. emitted = G
    BY <1>1, <1>2
  <1>4. QED
    BY <1>0, <1>3 DEF Groups!Finish

\* A step that leaves the table alone leaves the groups alone.
LEMMA GroupsKept ==
    ASSUME slot' = slot, cap' = cap
    PROVE  [k \in Keys |-> GroupIn(slot, cap, k)]' = [k \in Keys |-> GroupIn(slot, cap, k)]
OBVIOUS

\* With all its probing and rebuilding the hash table is a table of
\* counters: a row is counted for its own key alone, no Rebuild loses or
\* doubles a group, and the emission gives each group once and whole.
THEOREM Refinement == Spec => ImplementsGroups
  <1>1. Init => Groups!Init
    <2> SUFFICES ASSUME Init PROVE Groups!Init
      OBVIOUS
    <2>1. \A k \in Keys : GroupIn(slot, cap, k) = 0
      BY GroupOfNone DEF Init, EmptyTable
    <2>2. QED
      BY <2>1 DEF Init, Groups!Init
  <1>2. IInv /\ IInv' /\ [Next]_vars => [Groups!Next]_Groups!vars
    <2> SUFFICES ASSUME IInv, IInv', [Next]_vars PROVE [Groups!Next]_Groups!vars
      OBVIOUS
    <2>1. ASSUME NEW k \in Keys, FindOrInsert(k) PROVE Groups!Request(k)
      BY <2>1, GroupsKept, TablesOfIInv DEF IInv, KeyInv, FindOrInsert, Groups!Request
    <2>2. CASE StartEmit
      BY <2>2, GroupsKept DEF IInv, KeyInv, StartEmit, Groups!StartEmit, Groups!Next
    <2>3. CASE Update
      BY <2>3, UpdateAdds DEF Groups!Next
    <2>4. CASE Emit
      BY <2>4, EmitEmits DEF Groups!Next
    <2>5. CASE Finish
      BY <2>5, FinishFinishes DEF Groups!Next
    <2>6. CASE ProbeHit \/ ProbeNext \/ ProbeInsert \/ RebuildSkip \/ RebuildTake
                 \/ PlaceNext \/ PlacePut \/ RebuildDone \/ EmitSkip
      BY <2>6, HiddenStep
    <2>7. CASE UNCHANGED vars
      BY <2>7, GroupsKept DEF vars, Groups!vars
    <2>8. QED
      BY <2>1, <2>2, <2>3, <2>4, <2>5, <2>6, <2>7 DEF Next, Step, Groups!Next
  <1>3. QED
    BY <1>1, <1>2, Inductive, PTL DEF Spec, ImplementsGroups, Groups!Spec

\* No step takes a key, or a row counted for one, out of the table (line 201
\* moves slots into an array that replaces the old one only at line 206).
THEOREM NeverLost == Spec => NothingLost
  <1>1. IInv /\ [Next]_vars => [SlotsKept]_vars
    <2> SUFFICES ASSUME IInv, [Next]_vars PROVE SlotsKept
      OBVIOUS
    <2> SUFFICES ASSUME NEW p \in 0 .. cap - 1, slot[p] # Free
                 PROVE  \E q \in 0 .. cap' - 1 :
                           /\ slot'[q] # Free
                           /\ slot'[q].key = slot[p].key
                           /\ slot'[q].val >= slot[p].val
      BY DEF SlotsKept
    <2>0. slot[p] \in Slot /\ slot[p].val \in Nat
      BY TablesOfIInv DEF Slot
    <2>1. CASE ProbeInsert
      <3>1. slot'[p] = slot[p] /\ cap' = cap
        BY <2>1, TablesOfIInv DEF ProbeInsert, Tables
      <3>2. QED
        BY <2>0, <3>1
    <2>2. CASE Update
      <3> DEFINE e == [slot[p] EXCEPT !.val = @ + 1]
      <3>1. e.key = slot[p].key /\ e.val = slot[p].val + 1 /\ e \in Slot /\ e # Free
        BY <2>0, TablesOfIInv DEF Slot
      <3>2. cap' = cap /\ (slot'[p] = slot[p] \/ slot'[p] = e)
        BY <2>2, TablesOfIInv DEF Update, Tables
      <3> HIDE DEF e
      <3>3. /\ slot'[p] # Free /\ slot'[p].key = slot[p].key
            /\ slot'[p].val >= slot[p].val
        BY <2>0, <3>1, <3>2
      <3>4. QED
        BY <3>2, <3>3
    <2>3. CASE RebuildDone
      <3>1. src = cap
        BY <2>3, TablesOfIInv DEF IInv, RebuildInv, RebuildDone
      <3>2. \E q \in 0 .. 2 * cap - 1 : new[q] = slot[p]
        BY <2>3, <3>1 DEF IInv, RebuildInv, RebuildDone
      <3>3. QED
        BY <2>0, <2>3, <3>2 DEF RebuildDone
    <2>4. CASE slot' = slot /\ cap' = cap
      BY <2>0, <2>4
    <2>5. QED
      BY <2>1, <2>2, <2>3, <2>4 DEF Next, Step, FindOrInsert, ProbeHit, ProbeNext,
         RebuildSkip, RebuildTake, PlaceNext, PlacePut, StartEmit, EmitSkip, Emit,
         Finish, vars
  <1>2. QED
    BY <1>1, Inductive, PTL DEF Spec, NothingLost
=============================================================================
