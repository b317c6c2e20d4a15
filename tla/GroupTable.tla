----------------------------- MODULE GroupTable -----------------------------
(***************************************************************************)
(* What AggregateOp asks of its hash table, without the table: one counter *)
(* per grouping key.  Rows arrive one at a time, each names its key and is *)
(* added to that key's group; when the rows are over, every group is       *)
(* emitted once, with everything that was added to it.  HashMap implements *)
(* this.                                                                   *)
(***************************************************************************)
EXTENDS Integers

CONSTANTS
    Keys,     \* the grouping keys rows can have
    NoKey     \* not a key: no row is being added

VARIABLES
    phase,    \* "add" while rows arrive, then "emit", then "done"
    req,      \* the key of the row being added, or NoKey
    groups,   \* how many rows each key's group holds, 0 without a group
    emitted   \* the total emitted for each key

vars == <<phase, req, groups, emitted>>

Init ==
    /\ phase = "add"
    /\ req = NoKey
    /\ groups = [k \in Keys |-> 0]
    /\ emitted = [k \in Keys |-> 0]

\* A row with key k arrives.
Request(k) ==
    /\ phase = "add" /\ req = NoKey
    /\ req' = k
    /\ UNCHANGED <<phase, groups, emitted>>

\* The row is added to its own group and to no other.
Add ==
    /\ phase = "add" /\ req \in Keys
    /\ groups' = [groups EXCEPT ![req] = @ + 1]
    /\ req' = NoKey
    /\ UNCHANGED <<phase, emitted>>

\* The input is over.
StartEmit ==
    /\ phase = "add" /\ req = NoKey
    /\ phase' = "emit"
    /\ UNCHANGED <<req, groups, emitted>>

\* A group that has not been emitted is, in no promised order.
Emit(k) ==
    /\ phase = "emit" /\ groups[k] > 0 /\ emitted[k] = 0
    /\ emitted' = [emitted EXCEPT ![k] = groups[k]]
    /\ UNCHANGED <<phase, req, groups>>

\* The iteration ends only when nothing is left to emit.
Finish ==
    /\ phase = "emit" /\ emitted = groups
    /\ phase' = "done"
    /\ UNCHANGED <<req, groups, emitted>>

Next ==
    \/ \E k \in Keys : Request(k)
    \/ Add
    \/ StartEmit
    \/ \E k \in Keys : Emit(k)
    \/ Finish

Spec == Init /\ [][Next]_vars
=============================================================================
