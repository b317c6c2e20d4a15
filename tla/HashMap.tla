------------------------------ MODULE HashMap -------------------------------
(***************************************************************************)
(* The open-addressing hash table of engine/hashmap.h, as AggregateOp      *)
(* drives it: FindOrInsert for every row, an update through the returned   *)
(* reference, then FirstUsed/NextUsed to emit the groups.  Each turn of    *)
(* the probe loops and of the loop of Rebuild is a step, so the            *)
(* half-rebuilt table is a state of the model.                             *)
(*                                                                         *)
(* is_used_ and map_ are one array: an unused position holds Free.  The    *)
(* masks raw_hash & (size - 1) are remainders, as sizes are powers of two. *)
(* The value of a slot is the number of rows added to it.                  *)
(***************************************************************************)
EXTENDS Integers, FiniteSets

CONSTANTS
    Keys,       \* grouping keys
    NoKey,      \* not a key
    Free,       \* the content of a position with is_used_ = 0
    HashFns,    \* the hash functions considered, each from Keys to Nat
    InitCap,    \* positions of a new table (8 in the code)
    MaxRows     \* bound: rows fed to the table

ASSUME HashMapAssumption ==
    /\ NoKey \notin Keys
    /\ Free \notin [key : Keys, hash : Nat, val : Nat]
    /\ HashFns \subseteq [Keys -> Nat]
    /\ InitCap \in Nat \ {0}
    /\ MaxRows \in Nat

VARIABLES
    hash,       \* the hash function of this table, fixed
    cap,        \* map_.size()
    slot,       \* map_ with is_used_
    size,       \* size_
    pc,         \* where the running call is
    key,        \* the key looked up
    pos,        \* the local "hash" of the running probe loop
    src,        \* the local "i" of Rebuild
    new,        \* the local "map" with "is_used" of Rebuild
    retry,      \* the running lookup is the operator[] after a Rebuild
    rows,       \* rows fed so far
    cur,        \* cur_idx_ of the emission
    emitted     \* totals emitted by key

vars == <<hash, cap, slot, size, pc, key, pos, src, new, retry, rows, cur, emitted>>

Slot == [key : Keys, hash : Nat, val : Nat]

\* The position a raw hash starts probing at in a table of n positions.
Home(h, n) == h % n

\* ++hash; if (hash == size) hash = 0
Succ(p, n) == IF p + 1 = n THEN 0 ELSE p + 1

EmptyTable(n) == [p \in 0 .. n - 1 |-> Free]

\* Fault: a table may fill up to its last position.
TooFullOnlyWhenOverfull(n, m) == n > m

\* Fault: the two numbers of the load factor swapped, so no table grows.
TooFullSwapped(n, m) == n * 5 > m * 10

\* Whether n keys are more than half of m positions (size_ * 10 > size() * 5).
TooFull(n, m) == n * 10 > m * 5

Init ==
    /\ hash \in HashFns
    /\ cap = InitCap
    /\ slot = EmptyTable(InitCap)
    /\ size = 0
    /\ pc = "idle"
    /\ key = NoKey
    /\ pos = 0
    /\ src = 0
    /\ new = EmptyTable(2 * InitCap)
    /\ retry = FALSE
    /\ rows = 0
    /\ cur = 0
    /\ emitted = [k \in Keys |-> 0]

-----------------------------------------------------------------------------
(* FindOrInsert, and operator[], whose loop is the same.                   *)

FindOrInsert(k) ==
    /\ pc = "idle" /\ rows < MaxRows
    /\ pc' = "probe"
    /\ key' = k
    /\ pos' = Home(hash[k], cap)
    /\ rows' = rows + 1
    /\ UNCHANGED <<hash, cap, slot, size, src, new, retry, cur, emitted>>

\* Fault: hashes are compared in place of keys.
ProbeHitByHash ==
    /\ pc = "probe" /\ slot[pos] # Free
    /\ slot[pos].hash = hash[key]
    /\ pc' = "found"
    /\ retry' = FALSE
    /\ UNCHANGED <<hash, cap, slot, size, key, pos, src, new, rows, cur, emitted>>

\* The position holds the key: a reference to its value is returned.
ProbeHit ==
    /\ pc = "probe" /\ slot[pos] # Free
    /\ slot[pos].key = key
    /\ pc' = "found"
    /\ retry' = FALSE
    /\ UNCHANGED <<hash, cap, slot, size, key, pos, src, new, rows, cur, emitted>>

\* The position holds another key: the next one is tried.
ProbeNext ==
    /\ pc = "probe" /\ slot[pos] # Free
    /\ slot[pos].key # key
    /\ pos' = Succ(pos, cap)
    /\ UNCHANGED <<hash, cap, slot, size, pc, key, src, new, retry, rows, cur, emitted>>

\* The position is unused: the key is new and takes it, and the table is
\* rebuilt if it is now more than half full.
ProbeInsert ==
    /\ pc = "probe" /\ slot[pos] = Free
    /\ slot' = [slot EXCEPT ![pos] = [key |-> key, hash |-> hash[key], val |-> 0]]
    /\ size' = size + 1
    /\ pc' = IF TooFull(size + 1, cap) THEN "rebuild" ELSE "found"
    /\ src' = 0
    /\ new' = EmptyTable(2 * cap)
    /\ retry' = FALSE
    /\ UNCHANGED <<hash, cap, key, pos, rows, cur, emitted>>

\* UpdateSlot through the returned reference, before any other call.
Update ==
    /\ pc = "found"
    /\ slot' = [slot EXCEPT ![pos].val = @ + 1]
    /\ pc' = "idle"
    /\ key' = NoKey
    /\ UNCHANGED <<hash, cap, size, pos, src, new, retry, rows, cur, emitted>>

-----------------------------------------------------------------------------
(* Rebuild.                                                                *)

RebuildSkip ==
    /\ pc = "rebuild" /\ src < cap /\ slot[src] = Free
    /\ src' = src + 1
    /\ UNCHANGED <<hash, cap, slot, size, pc, key, pos, new, retry, rows, cur, emitted>>

\* Fault: the mask of the old table is used for the new one.
RebuildTakeOldMask ==
    /\ pc = "rebuild" /\ src < cap /\ slot[src] # Free
    /\ pos' = Home(slot[src].hash, cap)
    /\ pc' = "place"
    /\ UNCHANGED <<hash, cap, slot, size, key, src, new, retry, rows, cur, emitted>>

\* A used position starts its own probe, from the stored hash.
RebuildTake ==
    /\ pc = "rebuild" /\ src < cap /\ slot[src] # Free
    /\ pos' = Home(slot[src].hash, 2 * cap)
    /\ pc' = "place"
    /\ UNCHANGED <<hash, cap, slot, size, key, src, new, retry, rows, cur, emitted>>

PlaceNext ==
    /\ pc = "place" /\ new[pos] # Free
    /\ pos' = Succ(pos, 2 * cap)
    /\ UNCHANGED <<hash, cap, slot, size, pc, key, src, new, retry, rows, cur, emitted>>

\* Fault: a slot is moved to its home position, used or not.
PlacePutOverwriting ==
    /\ pc = "place"
    /\ new' = [new EXCEPT ![pos] = slot[src]]
    /\ src' = src + 1
    /\ pc' = "rebuild"
    /\ UNCHANGED <<hash, cap, slot, size, key, pos, retry, rows, cur, emitted>>

PlacePut ==
    /\ pc = "place" /\ new[pos] = Free
    /\ new' = [new EXCEPT ![pos] = slot[src]]
    /\ src' = src + 1
    /\ pc' = "rebuild"
    /\ UNCHANGED <<hash, cap, slot, size, key, pos, retry, rows, cur, emitted>>

\* Fault: map_ is replaced but the old size is kept.
RebuildDoneOldSize ==
    /\ pc = "rebuild" /\ src >= cap
    /\ slot' = new
    /\ pc' = "probe"
    /\ pos' = Home(hash[key], cap)
    /\ retry' = TRUE
    /\ UNCHANGED <<hash, cap, size, key, src, new, rows, cur, emitted>>

\* Fault: the lookup goes on from the position of the key in the old table.
RebuildDoneOldPosition ==
    /\ pc = "rebuild" /\ src >= cap
    /\ slot' = new
    /\ cap' = 2 * cap
    /\ pc' = "probe"
    /\ pos' = Home(hash[key], cap)
    /\ retry' = TRUE
    /\ UNCHANGED <<hash, size, key, src, new, rows, cur, emitted>>

\* The new table replaces the old one and the key is looked up again.
RebuildDone ==
    /\ pc = "rebuild" /\ src >= cap
    /\ slot' = new
    /\ cap' = 2 * cap
    /\ pc' = "probe"
    /\ pos' = Home(hash[key], 2 * cap)
    /\ retry' = TRUE
    /\ UNCHANGED <<hash, size, key, src, new, rows, cur, emitted>>

-----------------------------------------------------------------------------
(* The emission by AggregateOp::GetNext, with FirstUsed and NextUsed.      *)

\* Fault: the emission starts with NextUsed(0) in place of FirstUsed().
StartEmitAtOne ==
    /\ pc = "idle"
    /\ cur' = 1
    /\ pc' = "emit"
    /\ UNCHANGED <<hash, cap, slot, size, key, pos, src, new, retry, rows, emitted>>

StartEmit ==
    /\ pc = "idle"
    /\ cur' = 0
    /\ pc' = "emit"
    /\ UNCHANGED <<hash, cap, slot, size, key, pos, src, new, retry, rows, emitted>>

\* The loops of FirstUsed and NextUsed pass the unused positions.
EmitSkip ==
    /\ pc = "emit" /\ cur < cap /\ slot[cur] = Free
    /\ cur' = cur + 1
    /\ UNCHANGED <<hash, cap, slot, size, pc, key, pos, src, new, retry, rows, emitted>>

Emit ==
    /\ pc = "emit" /\ cur < cap /\ slot[cur] # Free
    /\ emitted' = [emitted EXCEPT ![slot[cur].key] = @ + slot[cur].val]
    /\ cur' = cur + 1
    /\ UNCHANGED <<hash, cap, slot, size, pc, key, pos, src, new, retry, rows>>

Finish ==
    /\ pc = "emit" /\ cur >= cap
    /\ pc' = "done"
    /\ UNCHANGED <<hash, cap, slot, size, key, pos, src, new, retry, rows, cur, emitted>>

-----------------------------------------------------------------------------

\* The steps of a call that has started.
Step ==
    \/ ProbeHit \/ ProbeNext \/ ProbeInsert \/ Update
    \/ RebuildSkip \/ RebuildTake \/ PlaceNext \/ PlacePut \/ RebuildDone
    \/ EmitSkip \/ Emit \/ Finish

Next ==
    \/ \E k \in Keys : FindOrInsert(k)
    \/ StartEmit
    \/ Step

Spec == Init /\ [][Next]_vars

\* A call in progress runs on; whether another row arrives is the input's.
FairSpec == Spec /\ WF_vars(Step)

-----------------------------------------------------------------------------
(* Properties.                                                             *)

\* Every variable has the type of the field or local it stands for.
TypeOK ==
    /\ hash \in HashFns
    /\ cap \in Nat \ {0}
    /\ slot \in [0 .. cap - 1 -> Slot \cup {Free}]
    /\ size \in Nat
    /\ pc \in {"idle", "probe", "found", "rebuild", "place", "emit", "done"}
    /\ key \in Keys \cup {NoKey}
    /\ pos \in Nat
    /\ src \in Nat
    /\ retry \in BOOLEAN
    /\ rows \in 0 .. MaxRows
    /\ cur \in Nat
    /\ emitted \in [Keys -> Nat]

\* q lies on the way a probe takes from h to p, both included.
OnPath(h, q, p) == IF h <= p THEN h <= q /\ q <= p ELSE h <= q \/ q <= p

\* Every used position of table t of n positions is reached by a probe for
\* its hash without crossing an unused one.
Reachable(t, n) ==
    \A p \in 0 .. n - 1 : t[p] # Free =>
        \A q \in 0 .. n - 1 : OnPath(Home(t[p].hash, n), q, p) => t[q] # Free

\* No key has two slots in table t of n positions.
NoDuplicates(t, n) ==
    \A p, q \in 0 .. n - 1 :
        t[p] # Free /\ t[q] # Free /\ t[p].key = t[q].key => p = q

\* The table can be searched: all that was inserted can be found from its
\* home position, at one place.  The second conjunct says it of the table
\* being filled by Rebuild, where a key that became unreachable would start
\* a second group.  Lines 90-150 and 187-207.
Searchable ==
    /\ Reachable(slot, cap) /\ NoDuplicates(slot, cap)
    /\ pc \in {"rebuild", "place"} =>
           Reachable(new, 2 * cap) /\ NoDuplicates(new, 2 * cap)

UsedIn(t, n) == {p \in 0 .. n - 1 : t[p] # Free}

\* Outside a Rebuild at least half of the table is unused and size_ counts
\* the used positions: the probe loops, which test no bound, rely on it to end.
HalfFree ==
    /\ size = Cardinality(UsedIn(slot, cap))
    /\ pc \notin {"rebuild", "place"} => 2 * size <= cap

\* The lookup after a Rebuild finds the key inserted before it, so the
\* operator[] at line 109 never inserts a second time; and the reference
\* returned is to the slot of the key asked for, never to another's.
RightReference ==
    /\ retry => \E p \in 0 .. cap - 1 : slot[p] # Free /\ slot[p].key = key
    /\ pc = "found" => slot[pos] # Free /\ slot[pos].key = key

\* Every slot of the table is still in it after the step, with the rows
\* counted so far.
SlotsKept ==
    \A p \in 0 .. cap - 1 : slot[p] # Free =>
        \E q \in 0 .. cap' - 1 :
            /\ slot'[q] # Free
            /\ slot'[q].key = slot[p].key
            /\ slot'[q].val >= slot[p].val

\* A Rebuild copies every slot: no step takes a key, or a row counted for
\* one, out of the table (line 201 moves slots into an array that replaces
\* the old one only at its end).
NothingLost == [][SlotsKept]_vars

\* Every call returns: each probe meets its key or an unused position, each
\* Rebuild ends, and the emission reaches the end of the table.
CallsReturn == pc \notin {"idle", "done"} ~> pc \in {"idle", "done"}

-----------------------------------------------------------------------------
(* What a state in the middle of a call looks like: the inductive          *)
(* strengthening of the invariants above.                                  *)

Tables(n) == [0 .. n - 1 -> Slot \cup {Free}]

\* The hash kept in each slot of t is the one of its key.
Hashed(t, n) == \A p \in 0 .. n - 1 : t[p] # Free => t[p].hash = hash[t[p].key]

\* A probe from h has passed only used positions of t before p.
PathUsed(t, n, h, p) ==
    \A q \in 0 .. n - 1 : OnPath(h, q, p) /\ q # p => t[q] # Free

\* A key is being looked up exactly in the middle of a call, and only its
\* group can be without rows.
KeyInv ==
    /\ pc \in {"idle", "emit", "done"} <=> key = NoKey
    /\ \A p \in 0 .. cap - 1 :
           slot[p] # Free /\ slot[p].key # key => slot[p].val > 0

\* A probe has passed used positions with other keys only.
ProbeInv ==
    /\ pc = "probe" =>
           /\ pos \in 0 .. cap - 1
           /\ PathUsed(slot, cap, Home(hash[key], cap), pos)
           /\ \A q \in 0 .. cap - 1 :
                  OnPath(Home(hash[key], cap), q, pos) /\ q # pos => slot[q].key # key
    /\ retry => pc = "probe"
    /\ pc = "found" => pos \in 0 .. cap - 1

\* A Rebuild has copied exactly the slots before src, and the key that made
\* the table too full is among the old slots.
RebuildInv ==
    pc \in {"rebuild", "place"} =>
        /\ new \in Tables(2 * cap)
        /\ src \in 0 .. cap
        /\ Hashed(new, 2 * cap)
        /\ \A p \in 0 .. src - 1 : slot[p] # Free =>
               \E q \in 0 .. 2 * cap - 1 : new[q] = slot[p]
        /\ \A q \in 0 .. 2 * cap - 1 : new[q] # Free =>
               \E p \in 0 .. src - 1 : new[q] = slot[p]
        /\ Cardinality(UsedIn(new, 2 * cap)) = Cardinality(UsedIn(slot, src))
        /\ \E p \in 0 .. cap - 1 : slot[p] # Free /\ slot[p].key = key

\* A slot being moved has passed used positions of the new table only.
PlaceInv ==
    pc = "place" =>
        /\ src < cap
        /\ slot[src] # Free
        /\ pos \in 0 .. 2 * cap - 1
        /\ PathUsed(new, 2 * cap, Home(slot[src].hash, 2 * cap), pos)

\* The emission has passed exactly the slots before cur_idx_.
EmitInv ==
    /\ pc \in {"emit", "done"} =>
           /\ cur \in 0 .. cap
           /\ \A p \in 0 .. cap - 1 : slot[p] # Free =>
                  emitted[slot[p].key] = IF p < cur THEN slot[p].val ELSE 0
           /\ \A k \in Keys :
                  (\A p \in 0 .. cap - 1 : slot[p] # Free => slot[p].key # k)
                      => emitted[k] = 0
    /\ pc \notin {"emit", "done"} => emitted = [k \in Keys |-> 0]
    /\ pc = "done" => cur = cap

\* The half-done calls never leave the table in a state the next step
\* cannot continue from: the conjunction the proofs show inductive.
IInv ==
    /\ TypeOK
    /\ Hashed(slot, cap)
    /\ Searchable /\ HalfFree /\ RightReference
    /\ KeyInv /\ ProbeInv /\ RebuildInv /\ PlaceInv /\ EmitInv

-----------------------------------------------------------------------------
(* The refinement.                                                         *)

\* The rows counted for k in table t of n positions.
GroupIn(t, n, k) ==
    IF \E p \in 0 .. n - 1 : t[p] # Free /\ t[p].key = k
    THEN t[CHOOSE p \in 0 .. n - 1 : t[p] # Free /\ t[p].key = k].val
    ELSE 0

Groups == INSTANCE GroupTable WITH
    phase <- CASE pc = "emit" -> "emit" [] pc = "done" -> "done" [] OTHER -> "add",
    req <- key,
    groups <- [k \in Keys |-> GroupIn(slot, cap, k)],
    emitted <- emitted

\* The table with its rebuilds is a table of counters: each row is added to
\* its own key's group alone, and each group is emitted once and whole.
ImplementsGroups == Groups!Spec
=============================================================================
