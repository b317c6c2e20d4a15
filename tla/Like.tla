-------------------------------- MODULE Like --------------------------------
(***************************************************************************)
(* LikeMatch: a string against a LIKE pattern.  The pattern is cut at its  *)
(* % signs into parts, and the parts are looked for from left to right,    *)
(* each as early as it comes; the first is tied to the start and the last  *)
(* to the end when no % stands before or behind it.  Beside it, the filter *)
(* QueryParser makes of the pattern to prune row groups.                   *)
(*                                                                         *)
(* Positions count from 0, as in the code.                                 *)
(***************************************************************************)
EXTENDS Bloom

CONSTANTS
    Percent,        \* the character %
    Patterns,       \* the patterns to match
    Texts           \* the strings to match them against

ASSUME StringsAssumption == \A s \in Patterns \cup Texts : s \in Seq(Chars)

VARIABLES
    pattern, str,   \* the arguments
    pc,             \* "split", "match", and the verdict: "true" or "false"
    start, i,       \* of the loop that cuts the pattern
    parts,
    pi, pos         \* of the loop over the parts

likeVars == <<pattern, str, pc, start, i, parts, pi, pos>>

anchored_start == pattern # <<>> /\ pattern[1] # Percent
anchored_end == pattern # <<>> /\ pattern[Len(pattern)] # Percent

Init ==
    /\ pattern \in Patterns /\ str \in Texts
    /\ pc = "split"
    /\ start = 0 /\ i = 0 /\ parts = <<>> /\ pi = 0 /\ pos = 0

AtCut == IF i = Len(pattern) THEN TRUE ELSE pattern[i + 1] = Percent

Cut ==
    /\ pc = "split" /\ i <= Len(pattern) /\ AtCut
    /\ parts' = IF i > start THEN Append(parts, SubSeq(pattern, start + 1, i)) ELSE parts
    /\ start' = i + 1
    /\ i' = i + 1
    /\ UNCHANGED <<pattern, str, pc, pi, pos>>

InPart ==
    /\ pc = "split" /\ i <= Len(pattern) /\ ~ AtCut
    /\ i' = i + 1
    /\ UNCHANGED <<pattern, str, pc, start, parts, pi, pos>>

SplitDone ==
    /\ pc = "split" /\ i > Len(pattern)
    /\ pc' = IF parts = <<>> THEN "true" ELSE "match"
    /\ UNCHANGED <<pattern, str, start, i, parts, pi, pos>>

Part == parts[pi + 1]

First == pi = 0 /\ anchored_start
Last == pi = Len(parts) - 1 /\ anchored_end

\* The part is found at p: go on behind it.
GoOn(p) ==
    /\ pos' = p + Len(Part)
    /\ pi' = pi + 1
    /\ UNCHANGED <<pattern, str, pc, start, i, parts>>

Answer(b) ==
    /\ pc' = IF b THEN "true" ELSE "false"
    /\ UNCHANGED <<pattern, str, start, i, parts, pi, pos>>

StartsWith ==
    /\ pc = "match" /\ pi < Len(parts) /\ First
    /\ IF IsAt(Part, str, 1) THEN GoOn(0) ELSE Answer(FALSE)

\* Fault: the last part may lie over the one before.
EndsWithOverlap == Len(str) >= Len(Part) /\ IsAt(Part, str, Len(str) - Len(Part) + 1)

EndsWithPart ==
    /\ Len(str) >= pos + Len(Part)
    /\ IsAt(Part, str, Len(str) - Len(Part) + 1)

EndsWith ==
    /\ pc = "match" /\ pi < Len(parts) /\ ~ First /\ Last
    /\ Answer(EndsWithPart)

Places == {p \in pos .. Len(str) : IsAt(Part, str, p + 1)}

\* Fault: the search takes the last place.
FoundLate(p) == p \in Places /\ \A q \in Places : p >= q

\* find: the first place from pos on.
Found(p) == p \in Places /\ \A q \in Places : p <= q

Find ==
    /\ pc = "match" /\ pi < Len(parts) /\ ~ First /\ ~ Last
    /\ \E p \in Places : Found(p) /\ GoOn(p)

FindNothing ==
    /\ pc = "match" /\ pi < Len(parts) /\ ~ First /\ ~ Last
    /\ Places = {}
    /\ Answer(FALSE)

AllFound ==
    /\ pc = "match" /\ pi >= Len(parts)
    /\ Answer(TRUE)

Next ==
    \/ Cut \/ InPart \/ SplitDone
    \/ StartsWith \/ EndsWith \/ Find \/ FindNothing \/ AllFound

Spec == Init /\ [][Next]_likeVars

-----------------------------------------------------------------------------
(* The filter of the pattern                                               *)

\* Fault: the % signs stay.
StrippedNot(p) == p

\* The pattern without its % signs.
Stripped(p) ==
    LET kept[n \in 0 .. Len(p)] ==
            IF n = 0 THEN <<>>
            ELSE IF p[n] = Percent THEN kept[n - 1] ELSE Append(kept[n - 1], p[n])
    IN  kept[Len(p)]

-----------------------------------------------------------------------------
(* What LIKE means                                                         *)

\* The positions of s that the first k characters of p may end at.
Ends(p, s) ==
    LET ends[k \in 0 .. Len(p)] ==
            IF k = 0 THEN {0}
            ELSE IF p[k] = Percent
                 THEN {m \in 0 .. Len(s) : \E n \in ends[k - 1] : n <= m}
                 ELSE {m \in 1 .. Len(s) : m - 1 \in ends[k - 1] /\ s[m] = p[k]}
    IN  ends[Len(p)]

IsLike(p, s) == Len(s) \in Ends(p, s)

HasPercent(p) == \E k \in 1 .. Len(p) : p[k] = Percent

\* f says where each of the first n parts lies: in order, not overlapping,
\* the first at the start if it is tied to it.
Fits(f, n) ==
    /\ \A k \in 1 .. n : IsAt(parts[k], str, f[k] + 1)
    /\ \A k \in 1 .. n - 1 : f[k] + Len(parts[k]) <= f[k + 1]
    /\ n > 0 /\ anchored_start => f[1] = 0

\* The last part is at the end if it is tied to it and not the first as well.
EndFits(f) ==
    LET n == Len(parts)
    IN  anchored_end /\ (n > 1 \/ ~ anchored_start) => f[n] + Len(parts[n]) = Len(str)

Matches == \E f \in [1 .. Len(parts) -> 0 .. Len(str)] :
               Fits(f, Len(parts)) /\ (parts # <<>> => EndFits(f))

-----------------------------------------------------------------------------
(* Properties                                                              *)

Answered == pc \in {"true", "false"}

\* A pattern with a % matches what LIKE says, character by character.  One
\* without matches the strings that begin with it: the first part is tied
\* to the start, and LikeMatch returns before it looks at the end.
Verdict ==
    Answered =>
        (pc = "true" <=> IsLike(IF HasPercent(pattern) THEN pattern
                                ELSE Append(pattern, Percent), str))

\* The verdict is true just if the parts can be laid in the string in some
\* way: taking each part as early as it comes loses no match.
GreedyIsEnough == Answered => (pc = "true" <=> Matches)

\* A string that matches a pattern of one part has every bit of the filter
\* of the pattern, so a row group that holds it is not pruned (the filter is
\* QueryParser's; a pattern of several parts does not have this property).
FilterAccepts ==
    pc = "true" /\ Len(parts) <= 1 => CheckIn(Add(Stripped(pattern)), Add(str))
=============================================================================
