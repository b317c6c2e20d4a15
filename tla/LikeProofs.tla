------------------------------ MODULE LikeProofs ------------------------------
(* Proofs about Like: taking each part as early as it comes loses no match, *)
(* the verdict is that of LIKE, and the filter of a part is right.         *)
EXTENDS Like, SequenceTheorems, WellFoundedInduction, TLAPS

-----------------------------------------------------------------------------
(* Induction                                                               *)

LEMMA SetInduction ==
    ASSUME NEW S, 0 \in S, \A n \in Nat : n \in S => n + 1 \in S
    PROVE  \A n \in Nat : n \in S
  <1> DEFINE R == {ss \in Nat \X Nat : ss[1] < ss[2]}
             T == {k \in Nat : k \notin S}
  <1>1. IsWellFoundedOn(R, Nat)
    BY NatLessThanWellFounded DEF OpToRel
  <1> SUFFICES ASSUME NEW n \in Nat, n \notin S PROVE FALSE
    OBVIOUS
  <1>2. T \in SUBSET Nat /\ T # {}
    OBVIOUS
  <1>3. PICK x \in T : \A y \in T : ~ (<<y, x>> \in R)
    <2> HIDE DEF T
    <2> QED
      BY <1>1, <1>2, WFMin
  <1>4. x - 1 \in Nat /\ x - 1 < x /\ (x - 1) + 1 = x
    OBVIOUS
  <1>5. <<x - 1, x>> \in R
    BY <1>4
  <1>6. x - 1 \in S
    BY <1>3, <1>4, <1>5
  <1> QED
    BY <1>4, <1>6

-----------------------------------------------------------------------------
(* The inductive invariant                                                 *)

\* All ways to say where the parts lie.
Placings == [1 .. Len(parts) -> 0 .. Len(str)]

\* The first pi parts can be laid so as to end at pos, and in no way so as to
\* end before it.
EarlyInv ==
    pc = "match" =>
        /\ parts # <<>> /\ pi <= Len(parts)
        /\ pi = 0 => pos = 0
        /\ \E f \in Placings : Fits(f, pi) /\ (pi > 0 => f[pi] + Len(parts[pi]) = pos)
        /\ \A f \in Placings : Fits(f, pi) /\ pi > 0 => pos <= f[pi] + Len(parts[pi])
        /\ pi = Len(parts) => ~ (anchored_end /\ (Len(parts) > 1 \/ ~ anchored_start))

TypeInv ==
    /\ pattern \in Seq(Chars) /\ str \in Seq(Chars)
    /\ pc \in {"split", "match", "true", "false"}
    /\ start \in Nat /\ i \in Nat
    /\ parts \in Seq(Seq(Chars))
    /\ pi \in Nat /\ pos \in 0 .. Len(str)
    /\ pc = "split" => pi = 0 /\ pos = 0

LikeInv == TypeInv /\ EarlyInv /\ GreedyIsEnough

LEMMA InitInv == Init => LikeInv
  BY StringsAssumption
  DEF Init, LikeInv, TypeInv, EarlyInv, GreedyIsEnough, Answered

-----------------------------------------------------------------------------
(* Cutting the pattern                                                     *)

LEMMA CutStep == ASSUME LikeInv, Cut PROVE LikeInv'
  <1>1. /\ pattern \in Seq(Chars) /\ Len(pattern) \in Nat /\ parts \in Seq(Seq(Chars))
        /\ start \in Nat /\ i \in Nat /\ i <= Len(pattern)
    BY DEF LikeInv, TypeInv, Cut
  <1>2. i > start => SubSeq(pattern, start + 1, i) \in Seq(Chars)
    BY <1>1
  <1>3. parts' \in Seq(Seq(Chars))
    <2>1. CASE i > start
      BY <1>1, <1>2, <2>1 DEF Cut
    <2>2. CASE ~ (i > start)
      BY <1>1, <2>2 DEF Cut
    <2> QED
      BY <2>1, <2>2
  <1> QED
    BY <1>1, <1>3 DEF LikeInv, TypeInv, EarlyInv, GreedyIsEnough, Answered, Cut

LEMMA InPartStep == ASSUME LikeInv, InPart PROVE LikeInv'
  BY DEF LikeInv, TypeInv, EarlyInv, GreedyIsEnough, Answered, InPart

\* Some way to lay the parts exists, before any is laid.
LEMMA SomePlacing ==
    ASSUME TypeInv
    PROVE  [k \in 1 .. Len(parts) |-> 0] \in Placings
  BY DEF TypeInv, Placings

\* Whether there is a match does not depend on how far LikeMatch is.
LEMMA MatchesSame ==
    ASSUME UNCHANGED <<pattern, str, parts>>
    PROVE  Matches' <=> Matches
  BY DEF Matches, Fits, EndFits, anchored_start, anchored_end

LEMMA SplitDoneStep == ASSUME LikeInv, SplitDone PROVE LikeInv'
  <1>1. /\ pc = "split" /\ pc' = IF parts = <<>> THEN "true" ELSE "match"
        /\ UNCHANGED <<pattern, str, start, i, parts, pi, pos>>
        /\ pi = 0 /\ pos = 0 /\ Len(parts) \in Nat
    BY DEF SplitDone, LikeInv, TypeInv
  <1>2. TypeInv'
    BY <1>1 DEF LikeInv, TypeInv
  <1>3. PICK f \in Placings : TRUE
    BY SomePlacing DEF LikeInv
  <1>4. \A g \in Placings : Fits(g, 0)
    BY <1>1 DEF Fits
  <1>5. CASE parts = <<>>
    <2>1. Len(parts) = 0
      BY <1>5
    <2>2. Fits(f, Len(parts))
      BY <1>3, <1>4, <2>1
    <2>3. Matches'
      <3>1. Matches
        BY <1>3, <1>5, <2>2 DEF Matches, Placings
      <3> QED
        BY <1>1, <3>1, MatchesSame
    <2>4. EarlyInv' /\ GreedyIsEnough'
      BY <1>1, <1>5, <2>3 DEF EarlyInv, GreedyIsEnough, Answered
    <2> QED
      BY <1>2, <2>4 DEF LikeInv
  <1>6. CASE parts # <<>>
    <2>1. Len(parts) > 0
      BY <1>1, <1>6 DEF LikeInv, TypeInv
    <2>2. EarlyInv'
      <3>1. f \in Placings' /\ Fits(f, pi)'
        BY <1>1, <1>3, <1>4 DEF Placings, Fits
      <3>2. /\ pi' = 0 /\ pos' = 0 /\ parts' # <<>>
            /\ pi' <= Len(parts') /\ pi' # Len(parts') /\ ~ (pi' > 0)
        BY <1>1, <1>6, <2>1
      <3>3. \E g \in Placings' : Fits(g, pi)' /\ (pi' > 0 => g[pi'] + Len(parts'[pi']) = pos')
        BY <3>1, <3>2, Zenon
      <3> QED
        BY <3>2, <3>3, Zenon DEF EarlyInv
    <2>3. GreedyIsEnough'
      BY <1>1, <1>6 DEF GreedyIsEnough, Answered
    <2> QED
      BY <1>2, <2>2, <2>3 DEF LikeInv
  <1> QED
    BY <1>5, <1>6

-----------------------------------------------------------------------------
(* Laying the parts                                                        *)

\* What the invariant says where a part is looked for.
LEMMA MatchFacts ==
    ASSUME LikeInv, pc = "match", pi < Len(parts)
    PROVE  /\ Len(parts) \in Nat /\ Len(str) \in Nat /\ pi \in 0 .. Len(parts) - 1
           /\ pos \in 0 .. Len(str) /\ str \in Seq(Chars)
           /\ Part = parts[pi + 1] /\ Part \in Seq(Chars) /\ Len(Part) \in Nat
           /\ \A k \in 1 .. Len(parts) : parts[k] \in Seq(Chars) /\ Len(parts[k]) \in Nat
  BY DEF LikeInv, TypeInv, Part

\* A part that lies behind p ends no later than the string.
LEMMA InString ==
    ASSUME NEW w \in Seq(Chars), NEW s \in Seq(Chars), NEW p \in Nat, IsAt(w, s, p + 1)
    PROVE  p + Len(w) <= Len(s)
  BY DEF IsAt

\* A way that fits more parts fits fewer.
LEMMA FitsFewer ==
    ASSUME NEW f \in Placings, NEW n \in Nat, NEW m \in 0 .. n, Fits(f, n)
    PROVE  Fits(f, m)
  BY DEF Fits

\* Wherever all parts lie, the next one lies no earlier than pos.
LEMMA NextNotBefore ==
    ASSUME LikeInv, pc = "match", pi < Len(parts),
           NEW f \in Placings, NEW n \in pi + 1 .. Len(parts), Fits(f, n)
    PROVE  f[pi + 1] \in Nat /\ pos <= f[pi + 1] /\ f[pi + 1] \in 0 .. Len(str)
           /\ IsAt(Part, str, f[pi + 1] + 1)
  <1>1. /\ Len(parts) \in Nat /\ pi \in 0 .. Len(parts) - 1 /\ pos \in 0 .. Len(str)
        /\ Part = parts[pi + 1] /\ Len(str) \in Nat
        /\ \A k \in 1 .. Len(parts) : Len(parts[k]) \in Nat
    BY MatchFacts
  <1>2. f[pi + 1] \in 0 .. Len(str) /\ IsAt(Part, str, f[pi + 1] + 1)
    BY <1>1 DEF Fits, Placings
  <1>3. pos <= f[pi + 1]
    <2>1. CASE pi = 0
      BY <1>1, <1>2, <2>1 DEF LikeInv, EarlyInv
    <2>2. CASE pi > 0
      <3>1. Fits(f, pi)
        BY <1>1, FitsFewer
      <3>2. pos <= f[pi] + Len(parts[pi])
        BY <2>2, <3>1 DEF LikeInv, EarlyInv
      <3>3. pi \in 1 .. n - 1 /\ f[pi] \in 0 .. Len(str) /\ Len(parts[pi]) \in Nat
        BY <1>1, <2>2 DEF Placings
      <3>4. f[pi] + Len(parts[pi]) <= f[pi + 1]
        BY <3>3 DEF Fits
      <3> QED
        BY <1>1, <1>2, <3>2, <3>3, <3>4
    <2> QED
      BY <1>1, <2>1, <2>2
  <1> QED
    BY <1>1, <1>2, <1>3

\* The part laid at p, no earlier than pos, goes with some way to lay the
\* ones before it.
LEMMA LaidAt ==
    ASSUME LikeInv, pc = "match", pi < Len(parts),
           NEW p \in pos .. Len(str), IsAt(Part, str, p + 1), First => p = 0
    PROVE  \E g \in Placings : Fits(g, pi + 1) /\ g[pi + 1] = p
  <1>1. /\ Len(parts) \in Nat /\ pi \in 0 .. Len(parts) - 1 /\ pos \in 0 .. Len(str)
        /\ Part = parts[pi + 1] /\ Len(str) \in Nat
    BY MatchFacts
  <1>2. PICK f \in Placings : Fits(f, pi) /\ (pi > 0 => f[pi] + Len(parts[pi]) = pos)
    BY DEF LikeInv, EarlyInv
  <1> DEFINE g == [f EXCEPT ![pi + 1] = p]
  <1>3. /\ g \in Placings /\ g[pi + 1] = p
        /\ \A k \in 1 .. pi : g[k] = f[k]
    BY <1>1, <1>2 DEF Placings
  <1> HIDE DEF g
  <1>4. \A k \in 1 .. pi + 1 : IsAt(parts[k], str, g[k] + 1)
    <2> TAKE k \in 1 .. pi + 1
    <2>1. CASE k \in 1 .. pi
      BY <1>2, <1>3, <2>1 DEF Fits
    <2>2. CASE k = pi + 1
      BY <1>1, <1>3, <2>2
    <2> QED
      BY <1>1, <2>1, <2>2
  <1>5. ASSUME NEW k \in 1 .. pi PROVE g[k] + Len(parts[k]) <= g[k + 1]
    <2>1. CASE k < pi
      <3>1. k \in 1 .. pi - 1 /\ k + 1 \in 1 .. pi
        BY <1>1, <2>1
      <3> QED
        BY <1>2, <1>3, <3>1 DEF Fits
    <2>2. CASE k = pi
      BY <1>1, <1>2, <1>3, <2>2
    <2> QED
      BY <1>1, <2>1, <2>2
  <1>6. anchored_start => g[1] = 0
    <2>1. CASE pi = 0
      BY <1>3, <2>1 DEF First
    <2>2. CASE pi > 0
      BY <1>1, <1>2, <1>3, <2>2 DEF Fits
    <2> QED
      BY <1>1, <2>1, <2>2
  <1>7. Fits(g, pi + 1)
    BY <1>1, <1>4, <1>5, <1>6 DEF Fits
  <1> QED
    BY <1>3, <1>7

\* The part is laid at p, the earliest place it can have.
LEMMA GoOnStep ==
    ASSUME LikeInv, pc = "match", pi < Len(parts),
           NEW p \in pos .. Len(str), IsAt(Part, str, p + 1), First => p = 0,
           \A f \in Placings : Fits(f, pi + 1) => p <= f[pi + 1],
           pi + 1 = Len(parts) => ~ (anchored_end /\ (Len(parts) > 1 \/ ~ anchored_start)),
           GoOn(p)
    PROVE  LikeInv'
  <1>1. /\ Len(parts) \in Nat /\ pi \in 0 .. Len(parts) - 1 /\ pos \in 0 .. Len(str)
        /\ Part = parts[pi + 1] /\ Len(str) \in Nat /\ Len(Part) \in Nat
    BY MatchFacts
  <1>2. /\ pos' = p + Len(Part) /\ pi' = pi + 1
        /\ UNCHANGED <<pattern, str, pc, start, i, parts>>
    BY DEF GoOn
  <1>3. p + Len(Part) <= Len(str)
    <2>1. p \in Nat /\ Part \in Seq(Chars) /\ str \in Seq(Chars)
      BY <1>1, MatchFacts
    <2> QED
      BY <2>1, InString
  <1>4. TypeInv'
    BY <1>1, <1>2, <1>3 DEF LikeInv, TypeInv
  <1>5. PICK g \in Placings : Fits(g, pi + 1) /\ g[pi + 1] = p
    BY LaidAt
  <1>6. PICK n \in Nat : n = pi + 1
    BY <1>1
  <1>7. Placings' = Placings /\ \A f \in Placings : Fits(f, n)' <=> Fits(f, n)
    BY <1>2 DEF Placings, Fits, anchored_start
  <1>8. \A f \in Placings : Fits(f, pi)' <=> Fits(f, n)
    BY <1>2, <1>6, <1>7 DEF Fits, anchored_start
  <1>9. \A f \in Placings : Fits(f, n) => p + Len(parts[n]) <= f[n] + Len(parts[n])
    <2> SUFFICES ASSUME NEW f \in Placings, Fits(f, n)
                 PROVE  p + Len(parts[n]) <= f[n] + Len(parts[n])
      OBVIOUS
    <2>1. p <= f[n] /\ f[n] \in 0 .. Len(str)
      BY <1>1, <1>6 DEF Placings
    <2> QED
      BY <1>1, <1>6, <2>1
  <1>10. EarlyInv'
    <2>1. parts' # <<>> /\ pi' <= Len(parts') /\ pi' # 0 /\ pi' = n
      BY <1>1, <1>2, <1>6
    <2>2. pos' = p + Len(parts[n]) /\ parts' = parts
      BY <1>1, <1>2, <1>6
    <2>3. g \in Placings' /\ Fits(g, pi)' /\ g[n] + Len(parts[n]) = pos'
      BY <1>5, <1>6, <1>7, <1>8, <2>2
    <2>4. \A f \in Placings' : Fits(f, pi)' => pos' <= f[n] + Len(parts[n])
      BY <1>7, <1>8, <1>9, <2>2
    <2>5. pi' = Len(parts') =>
              ~ (anchored_end /\ (Len(parts) > 1 \/ ~ anchored_start))'
      BY <1>2 DEF anchored_end, anchored_start
    <2> QED
      BY <2>1, <2>2, <2>3, <2>4, <2>5 DEF EarlyInv
  <1>11. GreedyIsEnough'
    BY <1>2 DEF GreedyIsEnough, Answered
  <1> QED
    BY <1>4, <1>10, <1>11 DEF LikeInv

\* The verdict b is whether there is a match.
LEMMA AnswerStep ==
    ASSUME LikeInv, pc = "match", NEW b \in BOOLEAN, b <=> Matches, Answer(b)
    PROVE  LikeInv'
  <1>1. /\ pc' = IF b THEN "true" ELSE "false"
        /\ UNCHANGED <<pattern, str, start, i, parts, pi, pos>>
    BY DEF Answer
  <1>2. TypeInv' /\ EarlyInv'
    BY <1>1 DEF LikeInv, TypeInv, EarlyInv
  <1>3. Matches' <=> Matches
    BY <1>1, MatchesSame
  <1>4. GreedyIsEnough'
    BY <1>1, <1>3 DEF GreedyIsEnough
  <1> QED
    BY <1>2, <1>4 DEF LikeInv

LEMMA StartsWithStep == ASSUME LikeInv, StartsWith PROVE LikeInv'
  <1>1. pc = "match" /\ pi < Len(parts) /\ First
    BY DEF StartsWith
  <1>2. /\ Len(parts) \in Nat /\ pi \in 0 .. Len(parts) - 1
        /\ Part = parts[pi + 1] /\ Len(str) \in Nat
        /\ pi = 0 /\ pos = 0 /\ anchored_start
    BY <1>1, MatchFacts DEF First, LikeInv, EarlyInv
  <1>3. CASE IsAt(Part, str, 1)
    <2>1. GoOn(0) /\ 0 \in pos .. Len(str) /\ IsAt(Part, str, 0 + 1)
      BY <1>2, <1>3 DEF StartsWith
    <2>2. \A f \in Placings : 0 <= f[pi + 1]
      BY <1>2 DEF Placings
    <2>3. pi + 1 = Len(parts) => Len(parts) = 1
      BY <1>2
    <2>4. pi + 1 = Len(parts) => ~ (anchored_end /\ (Len(parts) > 1 \/ ~ anchored_start))
      <3>1. ~ (1 > 1)
        OBVIOUS
      <3> QED
        BY <1>2, <2>3, <3>1, Zenon
    <2>5. \A f \in Placings : Fits(f, pi + 1) => 0 <= f[pi + 1]
      BY <2>2, Zenon
    <2>6. First => 0 = 0
      OBVIOUS
    <2> QED
      BY <1>1, <2>1, <2>4, <2>5, <2>6, GoOnStep
  <1>4. CASE ~ IsAt(Part, str, 1)
    <2>1. ~ Matches
      <3> SUFFICES ASSUME NEW f \in Placings, Fits(f, Len(parts)) PROVE FALSE
        BY DEF Matches, Placings
      <3>1. f[1] = 0 /\ IsAt(parts[1], str, f[1] + 1)
        BY <1>2 DEF Fits
      <3> QED
        BY <1>2, <1>4, <3>1
    <2>2. Answer(FALSE)
      BY <1>4 DEF StartsWith
    <2> QED
      BY <1>1, <2>1, <2>2, AnswerStep
  <1> QED
    BY <1>3, <1>4

LEMMA EndsWithStep == ASSUME LikeInv, EndsWith PROVE LikeInv'
  <1>1. pc = "match" /\ pi < Len(parts) /\ ~ First /\ Last /\ Answer(EndsWithPart)
    BY DEF EndsWith
  <1>2. /\ Len(parts) \in Nat /\ Len(str) \in Nat
        /\ pi = Len(parts) - 1 /\ pi \in Nat /\ pos \in 0 .. Len(str)
        /\ Part = parts[pi + 1] /\ Part = parts[Len(parts)] /\ Len(Part) \in Nat
        /\ anchored_end /\ (Len(parts) > 1 \/ ~ anchored_start)
        /\ pi + 1 = Len(parts)
    BY <1>1, MatchFacts DEF First, Last
  <1>3. ASSUME EndsWithPart PROVE Matches
    <2>0. PICK l \in Nat : l = Len(Part)
      BY <1>2
    <2> DEFINE p == Len(str) - l
    <2>1. p \in pos .. Len(str) /\ IsAt(Part, str, p + 1)
      <3>1. Len(str) >= pos + l /\ IsAt(Part, str, Len(str) - l + 1)
        BY <1>3, <2>0 DEF EndsWithPart
      <3>2. p \in pos .. Len(str)
        BY <1>2, <3>1
      <3> QED
        BY <3>1, <3>2
    <2>2. PICK g \in Placings : Fits(g, pi + 1) /\ g[pi + 1] = p
      BY <1>1, <2>1, LaidAt
    <2>3. EndFits(g)
      BY <1>2, <2>0, <2>2 DEF EndFits, Placings
    <2> QED
      BY <1>2, <2>2, <2>3 DEF Matches, Placings
  <1>4. ASSUME Matches PROVE EndsWithPart
    <2>1. PICK f \in Placings : Fits(f, Len(parts)) /\ (parts # <<>> => EndFits(f))
      BY <1>4 DEF Matches, Placings
    <2>2. parts # <<>>
      BY <1>1 DEF LikeInv, EarlyInv
    <2>3. f[pi + 1] + Len(Part) = Len(str)
      BY <1>2, <2>1, <2>2 DEF EndFits
    <2>4. /\ f[pi + 1] \in Nat /\ pos <= f[pi + 1]
          /\ IsAt(Part, str, f[pi + 1] + 1)
      <3>1. Len(parts) \in pi + 1 .. Len(parts)
        BY <1>2
      <3> QED
        BY <1>1, <2>1, <3>1, NextNotBefore
    <2>5. PICK x \in Nat : x = f[pi + 1]
      BY <2>4
    <2>6. PICK l \in Nat : l = Len(Part)
      BY <1>2
    <2>7. x + l = Len(str) /\ pos <= x /\ IsAt(Part, str, x + 1)
      BY <2>3, <2>4, <2>5, <2>6
    <2>8. Len(str) >= pos + l /\ Len(str) - l + 1 = x + 1
      BY <1>2, <2>7
    <2> QED
      BY <2>6, <2>7, <2>8 DEF EndsWithPart
  <1>5. EndsWithPart \in BOOLEAN
    BY DEF EndsWithPart, IsAt
  <1> QED
    BY <1>1, <1>3, <1>4, <1>5, AnswerStep

LEMMA FindStep == ASSUME LikeInv, Find PROVE LikeInv'
  <1>1. pc = "match" /\ pi < Len(parts) /\ ~ First /\ ~ Last
    BY DEF Find
  <1>2. PICK p \in Places : Found(p) /\ GoOn(p)
    BY DEF Find
  <1>3. p \in pos .. Len(str) /\ IsAt(Part, str, p + 1)
    BY DEF Places
  <1>4. /\ Len(parts) \in Nat /\ pi \in 0 .. Len(parts) - 1 /\ Len(str) \in Nat
        /\ pos \in 0 .. Len(str)
    BY <1>1, MatchFacts
  <1>5. ASSUME NEW f \in Placings, Fits(f, pi + 1) PROVE p <= f[pi + 1]
    <2>1. pi + 1 \in pi + 1 .. Len(parts)
      BY <1>4
    <2>2. /\ f[pi + 1] \in 0 .. Len(str) /\ pos <= f[pi + 1]
          /\ IsAt(Part, str, f[pi + 1] + 1)
      BY <1>1, <1>5, <2>1, NextNotBefore
    <2>3. f[pi + 1] \in Places
      BY <1>4, <2>2 DEF Places
    <2> QED
      BY <1>2, <2>3 DEF Found
  <1>6. pi + 1 = Len(parts) => ~ anchored_end
    BY <1>1, <1>4 DEF Last
  <1> QED
    BY <1>1, <1>2, <1>3, <1>5, <1>6, GoOnStep

LEMMA FindNothingStep == ASSUME LikeInv, FindNothing PROVE LikeInv'
  <1>1. /\ pc = "match" /\ pi < Len(parts) /\ Places = {} /\ Answer(FALSE)
    BY DEF FindNothing
  <1>2. /\ Len(parts) \in Nat /\ pi \in 0 .. Len(parts) - 1 /\ Len(str) \in Nat
        /\ pos \in 0 .. Len(str)
    BY <1>1, MatchFacts
  <1>3. ~ Matches
    <2> SUFFICES ASSUME NEW f \in Placings, Fits(f, Len(parts)) PROVE FALSE
      BY DEF Matches, Placings
    <2>1. Len(parts) \in pi + 1 .. Len(parts)
      BY <1>2
    <2>2. /\ f[pi + 1] \in 0 .. Len(str) /\ pos <= f[pi + 1]
          /\ IsAt(Part, str, f[pi + 1] + 1)
      BY <1>1, <2>1, NextNotBefore
    <2>3. f[pi + 1] \in Places
      BY <1>2, <2>2 DEF Places
    <2> QED
      BY <1>1, <2>3
  <1> QED
    BY <1>1, <1>3, AnswerStep

LEMMA AllFoundStep == ASSUME LikeInv, AllFound PROVE LikeInv'
  <1>1. pc = "match" /\ pi >= Len(parts) /\ Answer(TRUE)
    BY DEF AllFound
  <1>2. pi = Len(parts)
    BY <1>1 DEF LikeInv, TypeInv, EarlyInv
  <1>3. PICK f \in Placings : Fits(f, pi)
    BY <1>1 DEF LikeInv, EarlyInv
  <1>4. EndFits(f)
    BY <1>1, <1>2 DEF LikeInv, EarlyInv, EndFits
  <1>5. Matches
    BY <1>2, <1>3, <1>4 DEF Matches, Placings
  <1> QED
    BY <1>1, <1>5, AnswerStep

-----------------------------------------------------------------------------
(* The theorem                                                             *)

LEMMA Step == LikeInv /\ [Next]_likeVars => LikeInv'
  <1> SUFFICES ASSUME LikeInv, [Next]_likeVars PROVE LikeInv'
    OBVIOUS
  <1>1. CASE Cut \/ InPart \/ SplitDone
    BY <1>1, CutStep, InPartStep, SplitDoneStep
  <1>2. CASE StartsWith \/ EndsWith \/ Find \/ FindNothing \/ AllFound
    BY <1>2, StartsWithStep, EndsWithStep, FindStep, FindNothingStep, AllFoundStep
  <1>3. CASE UNCHANGED likeVars
    BY <1>3 DEF likeVars, LikeInv, TypeInv, EarlyInv, GreedyIsEnough, Answered, Matches,
                Placings, Fits, EndFits, anchored_start, anchored_end
  <1> QED
    BY <1>1, <1>2, <1>3 DEF Next

\* For every pattern and every string, LikeMatch says true just if the parts
\* of the pattern can be laid in the string in some way.
THEOREM NoMatchLost == Spec => []GreedyIsEnough
  <1>1. LikeInv => GreedyIsEnough
    BY DEF LikeInv
  <1> QED
    BY InitInv, Step, <1>1, PTL DEF Spec

-----------------------------------------------------------------------------
(* What the parts stand for                                                *)

\* e[k] holds the positions of str that the first k characters of the pattern
\* may end at.
Marks(e) ==
    /\ e[0] = {0}
    /\ \A k \in 1 .. Len(pattern) :
           e[k] = IF pattern[k] = Percent
                  THEN {m \in 0 .. Len(str) : \E x \in e[k - 1] : x <= m}
                  ELSE {m \in 1 .. Len(str) : m - 1 \in e[k - 1] /\ str[m] = pattern[k]}

\* The parts there are can be laid so as to end at m.
EndAt(m) ==
    IF parts = <<>> THEN m = 0
    ELSE \E f \in Placings :
             /\ Fits(f, Len(parts))
             /\ f[Len(parts)] + Len(parts[Len(parts)]) = m

EndBy(m) == \E y \in 0 .. m : EndAt(y)

\* The characters behind the last cut lie behind x.
RestAt(x) == \A k \in 1 .. i - start : str[x + k] = pattern[start + k]

\* Up to the last cut, the parts stand for the pattern.
CutInv(e) ==
    pc = "split" /\ i <= Len(pattern) =>
        /\ start <= i
        /\ \A k \in start + 1 .. i : pattern[k] # Percent
        /\ start = 0 => parts = <<>>
        /\ start > 0 => pattern[start] = Percent /\ (parts = <<>> => ~ anchored_start)
        /\ \A m \in 0 .. Len(str) :
               /\ m \in e[start] <=> IF start = 0 THEN m = 0 ELSE EndBy(m)
               /\ m \in e[i] <=> \E x \in e[start] : x + (i - start) = m /\ RestAt(x)

\* In the end they stand for all of it.
WholeInv(e) ==
    pc # "split" \/ i > Len(pattern) =>
        /\ \A m \in 0 .. Len(str) :
               m \in e[Len(pattern)] <=>
                   IF anchored_end \/ pattern = <<>> THEN EndAt(m) ELSE EndBy(m)
        /\ anchored_end => parts # <<>>
        /\ anchored_end /\ HasPercent(pattern) => Len(parts) > 1 \/ ~ anchored_start
        /\ ~ HasPercent(pattern) => Len(parts) <= 1

MarksInv == \A e : Marks(e) => CutInv(e) /\ WholeInv(e)

\* IsAt, character by character.
LEMMA IsAtEach ==
    ASSUME NEW w \in Seq(Chars), NEW s \in Seq(Chars), NEW x \in Nat
    PROVE  IsAt(w, s, x + 1) <=>
               x + Len(w) <= Len(s) /\ \A k \in 1 .. Len(w) : s[x + k] = w[k]
  <1> DEFINE v == SubSeq(s, x + 1, x + Len(w))
  <1>1. Len(w) \in Nat /\ Len(s) \in Nat /\ (x + 1) + Len(w) - 1 = x + Len(w)
    OBVIOUS
  <1>2. IsAt(w, s, x + 1) <=> x + Len(w) <= Len(s) /\ v = w
    BY <1>1 DEF IsAt
  <1>3. ASSUME x + Len(w) <= Len(s)
        PROVE  v \in Seq(Chars) /\ Len(v) = Len(w) /\ \A k \in 1 .. Len(w) : v[k] = s[x + k]
    BY <1>1, <1>3
  <1> HIDE DEF v
  <1>4. ASSUME x + Len(w) <= Len(s), \A k \in 1 .. Len(w) : s[x + k] = w[k]
        PROVE  v = w
    <2>1. v \in Seq(Chars) /\ Len(v) = Len(w) /\ \A k \in 1 .. Len(w) : v[k] = w[k]
      BY <1>3, <1>4
    <2> QED
      BY <2>1, SeqEqual
  <1>5. ASSUME x + Len(w) <= Len(s), v = w
        PROVE  \A k \in 1 .. Len(w) : s[x + k] = w[k]
    BY <1>3, <1>5
  <1> QED
    BY <1>2, <1>4, <1>5

\* Nothing depends on more than the pattern, the string and the parts.
LEMMA MarksSame ==
    ASSUME UNCHANGED <<pattern, str>>, NEW e
    PROVE  Marks(e)' <=> Marks(e)
  BY DEF Marks

LEMMA EndAtSame ==
    ASSUME UNCHANGED <<pattern, str, parts>>
    PROVE  \A m : (EndAt(m)' <=> EndAt(m)) /\ (EndBy(m)' <=> EndBy(m))
  BY DEF EndAt, EndBy, Placings, Fits, anchored_start

\* The marks are positions of the string.
LEMMA MarkRange ==
    ASSUME TypeInv, NEW e, Marks(e), NEW k \in 0 .. Len(pattern)
    PROVE  e[k] \subseteq 0 .. Len(str)
  <1>1. Len(pattern) \in Nat /\ Len(str) \in Nat
    BY DEF TypeInv
  <1>2. CASE k = 0
    BY <1>1, <1>2 DEF Marks
  <1>3. CASE k \in 1 .. Len(pattern)
    <2>1. e[k] = IF pattern[k] = Percent
                 THEN {m \in 0 .. Len(str) : \E x \in e[k - 1] : x <= m}
                 ELSE {m \in 1 .. Len(str) : m - 1 \in e[k - 1] /\ str[m] = pattern[k]}
      BY <1>3 DEF Marks
    <2>2. CASE pattern[k] = Percent
      BY <2>1, <2>2
    <2>3. CASE pattern[k] # Percent
      BY <1>1, <2>1, <2>3
    <2> QED
      BY <2>2, <2>3
  <1> QED
    BY <1>1, <1>2, <1>3

-----------------------------------------------------------------------------
(* A part is cut off                                                       *)

LEMMA CutFacts ==
    ASSUME TypeInv, NEW e, Marks(e), CutInv(e), pc = "split", i <= Len(pattern)
    PROVE  /\ Len(pattern) \in Nat /\ Len(str) \in Nat /\ Len(parts) \in Nat
           /\ pattern \in Seq(Chars) /\ str \in Seq(Chars) /\ parts \in Seq(Seq(Chars))
           /\ start \in Nat /\ i \in Nat /\ start <= i /\ i \in 0 .. Len(pattern)
           /\ start \in 0 .. Len(pattern)
           /\ start = 0 => parts = <<>>
           /\ e[start] \subseteq 0 .. Len(str) /\ e[i] \subseteq 0 .. Len(str)
           /\ start = 0 /\ i > 0 => anchored_start
           /\ start > 0 /\ parts = <<>> => ~ anchored_start
  <1>1. /\ Len(pattern) \in Nat /\ Len(str) \in Nat /\ Len(parts) \in Nat
        /\ pattern \in Seq(Chars) /\ str \in Seq(Chars) /\ parts \in Seq(Seq(Chars))
        /\ start \in Nat /\ i \in Nat /\ start <= i /\ i \in 0 .. Len(pattern)
        /\ start \in 0 .. Len(pattern)
        /\ start = 0 => parts = <<>>
        /\ start > 0 /\ parts = <<>> => ~ anchored_start
    BY DEF TypeInv, CutInv
  <1>2. e[start] \subseteq 0 .. Len(str) /\ e[i] \subseteq 0 .. Len(str)
    BY <1>1, MarkRange
  <1>3. ASSUME start = 0, i > 0 PROVE anchored_start
    <2>1. pattern[1] # Percent
      BY <1>1, <1>3 DEF CutInv
    <2>2. pattern # <<>>
      BY <1>1, <1>3
    <2> QED
      BY <2>1, <2>2 DEF anchored_start
  <1> QED
    BY <1>1, <1>2, <1>3

\* With the part cut off at i, the parts stand for the first i characters.
LEMMA PartStands ==
    ASSUME TypeInv, NEW e, Marks(e), CutInv(e), Cut, i > start
    PROVE  /\ Len(parts') = Len(parts) + 1 /\ parts' # <<>>
           /\ \A m \in 0 .. Len(str) : EndAt(m)' <=> m \in e[i]
  <1>1. /\ pc = "split" /\ i <= Len(pattern)
        /\ parts' = Append(parts, SubSeq(pattern, start + 1, i))
        /\ pattern' = pattern /\ str' = str
    BY DEF Cut
  <1>10. PICK n \in Nat : n = Len(parts)
    BY <1>1, CutFacts
  <1>2. /\ Len(pattern) \in Nat /\ Len(str) \in Nat /\ Len(parts) = n /\ n \in Nat
        /\ pattern \in Seq(Chars) /\ str \in Seq(Chars) /\ parts \in Seq(Seq(Chars))
        /\ start \in Nat /\ i \in Nat
        /\ start = 0 => parts = <<>> /\ anchored_start
        /\ start > 0 /\ parts = <<>> => ~ anchored_start
        /\ e[start] \subseteq 0 .. Len(str)
    BY <1>1, <1>10, CutFacts
  <1>3. PICK l \in Nat : l = i - start
    BY <1>2
  <1>4. PICK w \in Seq(Chars) :
            /\ parts' = Append(parts, w) /\ Len(w) = l
            /\ \A k \in 1 .. l : w[k] = pattern[start + k]
    <2> DEFINE v == SubSeq(pattern, start + 1, i)
    <2>1. v \in Seq(Chars) /\ Len(v) = l /\ \A k \in 1 .. l : v[k] = pattern[start + k]
      BY <1>1, <1>2, <1>3
    <2> QED
      BY <1>1, <2>1
  <1>5. /\ Len(parts') = n + 1 /\ parts'[n + 1] = w /\ parts' # <<>>
        /\ \A k \in 1 .. n : parts'[k] = parts[k]
    <2>1. w \in Seq(Chars) /\ parts' = Append(parts, w)
      BY <1>4
    <2>2. /\ Len(Append(parts, w)) = n + 1 /\ Append(parts, w)[n + 1] = w
          /\ Append(parts, w) # <<>>
          /\ \A k \in 1 .. n : Append(parts, w)[k] = parts[k]
      BY <1>2, <2>1, AppendProperties
    <2> QED
      BY <2>1, <2>2, Zenon
  <1>6. /\ \A k \in 1 .. n : parts[k] \in Seq(Chars) /\ Len(parts[k]) \in Nat
        /\ anchored_start' = anchored_start
    BY <1>1, <1>2 DEF anchored_start
  <1>7. ASSUME NEW x \in Nat
        PROVE  IsAt(w, str, x + 1) <=> x + l <= Len(str) /\ RestAt(x)
    <2>1. RestAt(x) <=> \A k \in 1 .. l : str[x + k] = pattern[start + k]
      BY <1>3 DEF RestAt
    <2>2. IsAt(w, str, x + 1) <=>
              x + Len(w) <= Len(str) /\ \A k \in 1 .. Len(w) : str[x + k] = w[k]
      BY <1>2, <1>4, IsAtEach
    <2> QED
      BY <1>4, <2>1, <2>2
  <1>8. ASSUME NEW m \in 0 .. Len(str), m \in e[i] PROVE EndAt(m)'
    <2>1. PICK x \in e[start] : x + l = m /\ RestAt(x)
      BY <1>1, <1>3, <1>8 DEF CutInv
    <2>2. x \in 0 .. Len(str) /\ x \in Nat /\ IsAt(w, str, x + 1)
      <3>1. x \in 0 .. Len(str) /\ x \in Nat
        BY <1>2
      <3>2. x + l <= Len(str)
        BY <1>2, <2>1
      <3> QED
        BY <1>7, <2>1, <3>1, <3>2
    <2>3. \E g \in [1 .. n + 1 -> 0 .. Len(str)] : Fits(g, n + 1)' /\ g[n + 1] = x
      <3>1. CASE n = 0
        <4>1. PICK g \in [1 .. n + 1 -> 0 .. Len(str)] : g[1] = x /\ g[n + 1] = x
          <5> DEFINE h == [k \in 1 .. n + 1 |-> x]
          <5>1. h \in [1 .. n + 1 -> 0 .. Len(str)] /\ h[1] = x /\ h[n + 1] = x
            BY <2>2, <3>1
          <5> HIDE DEF h
          <5> QED
            BY <5>1
        <4>2. anchored_start => x = 0
          <5>1. parts = <<>>
            BY <1>2, <3>1, EmptySeq
          <5>2. anchored_start => start = 0
            BY <1>2, <5>1
          <5> QED
            BY <1>1, <2>1, <2>2, <5>2 DEF CutInv
        <4>3. Fits(g, n + 1)'
          <5>1. ASSUME NEW k \in 1 .. n + 1 PROVE IsAt(parts'[k], str', g[k] + 1)
            <6>1. k = n + 1
              BY <3>1
            <6> QED
              BY <1>1, <1>5, <2>2, <4>1, <6>1
          <5>2. 1 .. (n + 1) - 1 = {}
            BY <3>1
          <5>3. anchored_start' => g[1] = 0
            BY <1>6, <4>1, <4>2
          <5> QED
            BY <5>1, <5>2, <5>3 DEF Fits
        <4> QED
          BY <4>1, <4>3
      <3>2. CASE n > 0
        <4>1. parts # <<>> /\ start > 0
          BY <1>2, <3>2
        <4>2. EndBy(x)
          BY <1>1, <2>1, <2>2, <4>1 DEF CutInv
        <4>3. PICK y \in 0 .. x : EndAt(y)
          BY <4>2 DEF EndBy
        <4>4. PICK f \in [1 .. n -> 0 .. Len(str)] : Fits(f, n) /\ f[n] + Len(parts[n]) = y
          BY <1>2, <4>1, <4>3 DEF EndAt, Placings
        <4>5. PICK g \in [1 .. n + 1 -> 0 .. Len(str)] :
                  g[n + 1] = x /\ \A k \in 1 .. n : g[k] = f[k]
          <5> DEFINE h == [k \in 1 .. n + 1 |-> IF k = n + 1 THEN x ELSE f[k]]
          <5>1. /\ h \in [1 .. n + 1 -> 0 .. Len(str)] /\ h[n + 1] = x
                /\ \A k \in 1 .. n : h[k] = f[k]
            BY <2>2, <4>4
          <5> HIDE DEF h
          <5> QED
            BY <5>1
        <4>6. ASSUME NEW k \in 1 .. n + 1 PROVE IsAt(parts'[k], str', g[k] + 1)
          <5>1. CASE k = n + 1
            BY <1>1, <1>5, <2>2, <4>5, <5>1
          <5>2. CASE k \in 1 .. n
            BY <1>1, <1>5, <4>4, <4>5, <5>2 DEF Fits
          <5> QED
            BY <1>2, <5>1, <5>2
        <4>7. ASSUME NEW k \in 1 .. n PROVE g[k] + Len(parts'[k]) <= g[k + 1]
          <5>1. CASE k = n
            BY <1>2, <1>5, <2>2, <4>3, <4>4, <4>5, <5>1
          <5>2. CASE k \in 1 .. n - 1
            <6>1. k \in 1 .. n /\ k + 1 \in 1 .. n
              BY <1>2, <5>2
            <6> QED
              BY <1>5, <4>4, <4>5, <5>2, <6>1 DEF Fits
          <5> QED
            BY <1>2, <5>1, <5>2
        <4>8. anchored_start' => g[1] = 0
          <5>1. 1 \in 1 .. n
            BY <1>2, <3>2
          <5> QED
            BY <1>2, <1>6, <3>2, <4>4, <4>5, <5>1 DEF Fits
        <4>9. Fits(g, n + 1)'
          <5>1. (n + 1) - 1 = n
            BY <1>2
          <5> QED
            BY <4>6, <4>7, <4>8, <5>1 DEF Fits
        <4> QED
          BY <4>5, <4>9
      <3>3. n = 0 \/ n > 0
        BY <1>2
      <3> QED
        BY <3>1, <3>2, <3>3, Zenon
    <2>4. PICK g \in [1 .. n + 1 -> 0 .. Len(str)] : Fits(g, n + 1)' /\ g[n + 1] = x
      BY <2>3
    <2>5. g[n + 1] + Len(parts'[n + 1]) = m
      BY <1>4, <1>5, <2>1, <2>4
    <2> QED
      BY <1>1, <1>5, <2>4, <2>5 DEF EndAt, Placings
  <1>9. ASSUME NEW m \in 0 .. Len(str), EndAt(m)' PROVE m \in e[i]
    <2>1. PICK g \in [1 .. n + 1 -> 0 .. Len(str)] :
              Fits(g, n + 1)' /\ g[n + 1] + Len(parts'[n + 1]) = m
      BY <1>1, <1>5, <1>9 DEF EndAt, Placings
    <2>2. n + 1 \in 1 .. n + 1 /\ n \in Nat
      BY <1>2
    <2>3. PICK x \in 0 .. Len(str) : x = g[n + 1]
      BY <2>1, <2>2
    <2>4. IsAt(w, str, x + 1) /\ x + l = m /\ x \in Nat
      <3>1. IsAt(parts'[n + 1], str', g[n + 1] + 1)
        BY <2>1, <2>2 DEF Fits
      <3>2. IsAt(w, str, x + 1)
        BY <1>1, <1>5, <2>3, <3>1, Zenon
      <3>3. x + l = m /\ x \in Nat
        BY <1>2, <1>4, <1>5, <2>1, <2>3
      <3> QED
        BY <3>2, <3>3
    <2>5. RestAt(x)
      BY <1>7, <2>4
    <2>6. x \in e[start]
      <3>1. CASE start = 0
        <4>1. anchored_start' /\ n = 0
          BY <1>2, <1>6, <3>1
        <4>2. g[1] = 0
          BY <2>1, <4>1 DEF Fits
        <4> QED
          BY <1>1, <2>3, <3>1, <4>1, <4>2 DEF CutInv
      <3>2. CASE start > 0
        <4>1. EndBy(x)
          <5>1. CASE parts = <<>>
            <6>1. EndAt(0) /\ 0 \in 0 .. x
              BY <2>4, <5>1 DEF EndAt
            <6> QED
              BY <6>1 DEF EndBy
          <5>2. CASE parts # <<>>
            <6>1. n > 0
              BY <1>2, <5>2, EmptySeq
            <6>2. PICK f \in [1 .. n -> 0 .. Len(str)] : \A k \in 1 .. n : f[k] = g[k]
              <7>1. [k \in 1 .. n |-> g[k]] \in [1 .. n -> 0 .. Len(str)]
                BY <2>1
              <7> QED
                BY <7>1
            <6>3. Fits(f, n)
              <7>1. \A k \in 1 .. n : IsAt(parts[k], str, f[k] + 1)
                <8> SUFFICES ASSUME NEW k \in 1 .. n PROVE IsAt(parts[k], str, f[k] + 1)
                  OBVIOUS
                <8>1. IsAt(parts'[k], str', g[k] + 1)
                  BY <1>2, <2>1 DEF Fits
                <8> QED
                  BY <1>1, <1>5, <6>2, <8>1
              <7>2. ASSUME NEW k \in 1 .. n - 1 PROVE f[k] + Len(parts[k]) <= f[k + 1]
                <8>1. k \in 1 .. n /\ k + 1 \in 1 .. n /\ k \in 1 .. (n + 1) - 1
                  BY <1>2
                <8> QED
                  BY <1>5, <2>1, <6>2, <8>1 DEF Fits
              <7>3. anchored_start => f[1] = 0
                BY <1>2, <1>6, <2>1, <6>1, <6>2 DEF Fits
              <7> QED
                BY <7>1, <7>2, <7>3 DEF Fits
            <6>4. n \in 1 .. n /\ n \in 1 .. (n + 1) - 1
              BY <1>2, <6>1
            <6>5. f[n] + Len(parts[n]) <= x
              BY <1>5, <2>1, <2>3, <6>2, <6>4 DEF Fits
            <6>6. PICK y \in 0 .. x : y = f[n] + Len(parts[n])
              BY <1>6, <2>4, <6>2, <6>4, <6>5
            <6>7. EndAt(y)
              BY <1>2, <5>2, <6>2, <6>3, <6>6 DEF EndAt, Placings
            <6> QED
              BY <6>6, <6>7 DEF EndBy
          <5> QED
            BY <5>1, <5>2
        <4> QED
          BY <1>1, <2>3, <3>2, <4>1 DEF CutInv
      <3> QED
        BY <1>2, <3>1, <3>2
    <2> QED
      BY <1>1, <1>3, <2>4, <2>5, <2>6 DEF CutInv
  <1> QED
    BY <1>2, <1>5, <1>8, <1>9

\* The positions after a % sign.
LEMMA AfterPercent ==
    ASSUME TypeInv, NEW e, Marks(e), NEW k \in 1 .. Len(pattern), pattern[k] = Percent
    PROVE  \A m \in 0 .. Len(str) : m \in e[k] <=> \E x \in e[k - 1] : x <= m
  BY DEF Marks

LEMMA CutMarks ==
    ASSUME TypeInv, NEW e, Marks(e), CutInv(e), Cut
    PROVE  CutInv(e)' /\ WholeInv(e)'
  <1>1. /\ pc = "split" /\ pc' = "split" /\ i <= Len(pattern) /\ AtCut
        /\ start' = i + 1 /\ i' = i + 1 /\ pattern' = pattern /\ str' = str
        /\ i <= start => parts' = parts
    BY DEF Cut, TypeInv
  <1>2. /\ Len(pattern) \in Nat /\ Len(str) \in Nat /\ Len(parts) \in Nat
        /\ pattern \in Seq(Chars) /\ start \in Nat /\ i \in Nat /\ start <= i
        /\ i \in 0 .. Len(pattern) /\ start \in 0 .. Len(pattern)
        /\ start = 0 => parts = <<>>
        /\ e[start] \subseteq 0 .. Len(str) /\ e[i] \subseteq 0 .. Len(str)
        /\ start = 0 /\ i > 0 => anchored_start
        /\ start > 0 /\ parts = <<>> => ~ anchored_start
    BY <1>1, CutFacts
  <1>3. /\ anchored_start' = anchored_start /\ anchored_end' = anchored_end
        /\ HasPercent(pattern)' = HasPercent(pattern)
    BY <1>1 DEF anchored_start, anchored_end, HasPercent
  \* what the parts stand for now, up to i
  <1>4. CASE i > start
    <2>1. /\ Len(parts') = Len(parts) + 1 /\ parts' # <<>>
          /\ \A m \in 0 .. Len(str) : EndAt(m)' <=> m \in e[i]
      BY <1>4, PartStands
    <2>2. pattern[i] # Percent
      BY <1>1, <1>2, <1>4 DEF CutInv
    <2>3. CASE i = Len(pattern)
      <3>1. anchored_end /\ pattern # <<>>
        BY <1>2, <1>4, <2>2, <2>3 DEF anchored_end
      <3>2. HasPercent(pattern) => start > 0
        <4>1. start = 0 => \A k \in 1 .. Len(pattern) : pattern[k] # Percent
          BY <1>1, <1>2, <2>3 DEF CutInv
        <4> QED
          BY <1>2, <4>1 DEF HasPercent
      <3>3. ~ HasPercent(pattern) => start = 0
        <4>1. start > 0 => start \in 1 .. Len(pattern) /\ pattern[start] = Percent
          BY <1>1, <1>2 DEF CutInv
        <4> QED
          BY <1>2, <4>1 DEF HasPercent
      <3>4. start = 0 => Len(parts) = 0
        BY <1>2
      <3>5. start > 0 /\ Len(parts) = 0 => ~ anchored_start
        BY <1>2, EmptySeq DEF TypeInv
      <3>6. CutInv(e)'
        BY <1>1, <1>2, <2>3 DEF CutInv
      <3>7. /\ HasPercent(pattern) => Len(parts') > 1 \/ ~ anchored_start
            /\ ~ HasPercent(pattern) => Len(parts') <= 1
        BY <1>2, <2>1, <3>2, <3>3, <3>4, <3>5
      <3>8. \A m \in 0 .. Len(str) : m \in e[Len(pattern)] <=> EndAt(m)'
        BY <2>1, <2>3
      <3>9. WholeInv(e)'
        BY <1>1, <1>3, <2>1, <3>1, <3>7, <3>8 DEF WholeInv
      <3> QED
        BY <3>6, <3>9
    <2>4. CASE i < Len(pattern)
      <3>1. i + 1 \in 1 .. Len(pattern) /\ pattern[i + 1] = Percent /\ (i + 1) - 1 = i
        BY <1>1, <1>2, <2>4 DEF AtCut
      <3>2. ASSUME NEW m \in 0 .. Len(str) PROVE m \in e[i + 1] <=> EndBy(m)'
        <4>1. m \in e[i + 1] <=> \E x \in e[i] : x <= m
          BY <3>1, AfterPercent
        <4>2. \A y \in 0 .. m : EndAt(y)' <=> y \in e[i]
          BY <1>2, <2>1
        <4>3. (\E x \in e[i] : x <= m) <=> \E y \in 0 .. m : y \in e[i]
          BY <1>2
        <4>4. EndBy(m)' <=> \E y \in 0 .. m : EndAt(y)'
          BY DEF EndBy
        <4> QED
          BY <4>1, <4>2, <4>3, <4>4
      <3>3. CutInv(e)'
        <4>1. /\ start' <= i' /\ start' # 0 /\ start' + 1 .. i' = {} /\ i' - start' = 0
              /\ pattern'[start'] = Percent /\ parts' # <<>>
          BY <1>1, <1>2, <2>1, <3>1
        <4>2. \A x : RestAt(x)'
          BY <4>1 DEF RestAt
        <4>3. ASSUME NEW m \in 0 .. Len(str)
              PROVE  m \in e[i'] <=> \E x \in e[start'] : x + (i' - start') = m
          <5>1. e[i + 1] \subseteq 0 .. Len(str)
            BY <3>1, MarkRange
          <5>2. \A x \in e[i + 1] : x + (i' - start') = x
            BY <4>1, <5>1
          <5> QED
            BY <1>1, <5>2
        <4> QED
          BY <1>1, <1>2, <3>2, <4>1, <4>2, <4>3 DEF CutInv
      <3>4. WholeInv(e)'
        BY <1>1, <1>2, <2>4 DEF WholeInv
      <3> QED
        BY <3>3, <3>4
    <2> QED
      BY <1>2, <2>3, <2>4
  <1>5. CASE i = start
    <2>1. parts' = parts /\ \A m : (EndAt(m)' <=> EndAt(m)) /\ (EndBy(m)' <=> EndBy(m))
      BY <1>1, <1>2, <1>5, EndAtSame
    <2>2. \A m \in 0 .. Len(str) : m \in e[i] <=> IF i = 0 THEN m = 0 ELSE EndBy(m)
      BY <1>1, <1>5 DEF CutInv
    <2>3. CASE i = Len(pattern)
      <3>1. ~ anchored_end
        <4>1. CASE i = 0
          BY <1>2, <2>3, <4>1, EmptySeq DEF anchored_end
        <4>2. CASE i > 0
          BY <1>1, <1>2, <1>5, <2>3, <4>2 DEF CutInv, anchored_end
        <4> QED
          BY <1>2, <4>1, <4>2
      <3>2. pattern = <<>> <=> i = 0
        BY <1>2, <2>3, EmptySeq
      <3>3. i = 0 => parts = <<>>
        BY <1>2, <1>5
      <3>4. ~ HasPercent(pattern) => i = 0
        <4>1. i > 0 => i \in 1 .. Len(pattern) /\ pattern[i] = Percent
          BY <1>1, <1>2, <1>5 DEF CutInv
        <4> QED
          BY <1>2, <4>1 DEF HasPercent
      <3>5. ASSUME NEW m \in 0 .. Len(str)
            PROVE  m \in e[Len(pattern)] <=> IF pattern = <<>> THEN EndAt(m) ELSE EndBy(m)
        <4>1. i = 0 => (EndAt(m) <=> m = 0)
          BY <3>3 DEF EndAt
        <4> QED
          BY <2>2, <2>3, <3>2, <4>1
      <3>6. CutInv(e)'
        BY <1>1, <1>2, <2>3 DEF CutInv
      <3>7. ~ HasPercent(pattern) => Len(parts) <= 1
        BY <3>3, <3>4
      <3>8. WholeInv(e)'
        BY <1>1, <1>3, <2>1, <3>1, <3>5, <3>7 DEF WholeInv
      <3> QED
        BY <3>6, <3>8
    <2>4. CASE i < Len(pattern)
      <3>1. i + 1 \in 1 .. Len(pattern) /\ pattern[i + 1] = Percent /\ (i + 1) - 1 = i
        BY <1>1, <1>2, <2>4 DEF AtCut
      <3>2. ASSUME NEW m \in 0 .. Len(str) PROVE m \in e[i + 1] <=> EndBy(m)
        <4>1. m \in e[i + 1] <=> \E x \in e[i] : x <= m
          BY <3>1, AfterPercent
        <4>2. CASE i = 0
          <5>1. parts = <<>>
            BY <1>2, <1>5, <4>2
          <5>2. 0 \in e[i] /\ 0 \in 0 .. m /\ 0 <= m
            BY <1>2, <2>2, <4>2
          <5>3. EndAt(0)
            BY <5>1 DEF EndAt
          <5> QED
            BY <4>1, <5>2, <5>3 DEF EndBy
        <4>3. CASE i > 0
          <5>1. ASSUME NEW x \in e[i], x <= m PROVE EndBy(m)
            <6>1. EndBy(x) /\ x \in 0 .. Len(str)
              BY <1>2, <2>2, <4>3
            <6>2. PICK y \in 0 .. x : EndAt(y)
              BY <6>1 DEF EndBy
            <6>3. y \in 0 .. m
              BY <5>1, <6>1
            <6> QED
              BY <6>2, <6>3 DEF EndBy
          <5>2. ASSUME EndBy(m) PROVE m \in e[i] /\ m <= m
            BY <1>2, <2>2, <4>3, <5>2
          <5> QED
            BY <4>1, <5>1, <5>2
        <4> QED
          BY <1>2, <4>2, <4>3
      <3>3. parts = <<>> => ~ anchored_start
        <4>1. CASE i = 0
          BY <3>1, <4>1 DEF anchored_start
        <4>2. CASE i > 0
          BY <1>2, <1>5, <4>2
        <4> QED
          BY <1>2, <4>1, <4>2
      <3>4. CutInv(e)'
        <4>1. /\ start' <= i' /\ start' # 0 /\ start' + 1 .. i' = {} /\ i' - start' = 0
              /\ pattern'[start'] = Percent
          BY <1>1, <1>2, <3>1
        <4>2. \A x : RestAt(x)'
          BY <4>1 DEF RestAt
        <4>3. ASSUME NEW m \in 0 .. Len(str)
              PROVE  m \in e[i'] <=> \E x \in e[start'] : x + (i' - start') = m
          <5>1. e[i + 1] \subseteq 0 .. Len(str)
            BY <3>1, MarkRange
          <5>2. \A x \in e[i + 1] : x + (i' - start') = x
            BY <4>1, <5>1
          <5> QED
            BY <1>1, <5>2
        <4> QED
          BY <1>1, <1>2, <1>3, <2>1, <3>2, <3>3, <4>1, <4>2, <4>3 DEF CutInv
      <3>5. WholeInv(e)'
        BY <1>1, <1>2, <2>4 DEF WholeInv
      <3> QED
        BY <3>4, <3>5
    <2> QED
      BY <1>2, <2>3, <2>4
  <1> QED
    BY <1>2, <1>4, <1>5

\* A character behind the cut lies behind the ones before it.
LEMMA InPartMarks ==
    ASSUME TypeInv, NEW e, Marks(e), CutInv(e), InPart
    PROVE  CutInv(e)' /\ WholeInv(e)'
  <1>1. /\ pc = "split" /\ pc' = "split" /\ i <= Len(pattern) /\ ~ AtCut
        /\ i' = i + 1 /\ UNCHANGED <<pattern, str, start, parts>>
    BY DEF InPart
  <1>2. /\ Len(pattern) \in Nat /\ Len(str) \in Nat /\ start \in Nat /\ i \in Nat
        /\ start <= i /\ i \in 0 .. Len(pattern)
        /\ e[start] \subseteq 0 .. Len(str) /\ e[i] \subseteq 0 .. Len(str)
    BY <1>1, CutFacts
  <1>3. i + 1 \in 1 .. Len(pattern) /\ pattern[i + 1] # Percent /\ (i + 1) - 1 = i
        /\ i < Len(pattern)
    BY <1>1, <1>2 DEF AtCut
  <1>4. \A m : (EndAt(m)' <=> EndAt(m)) /\ (EndBy(m)' <=> EndBy(m))
    BY <1>1, EndAtSame
  <1>5. e[i + 1] = {m \in 1 .. Len(str) : m - 1 \in e[i] /\ str[m] = pattern[i + 1]}
    BY <1>3 DEF Marks
  <1>6. PICK l \in Nat : l = i - start
    BY <1>2
  <1>7. l + 1 = i' - start' /\ start + (l + 1) = i + 1
    BY <1>1, <1>2, <1>6
  <1>8. ASSUME NEW x \in Nat
        PROVE  RestAt(x)' <=> RestAt(x) /\ str[x + (l + 1)] = pattern[i + 1]
    <2>1. RestAt(x)' <=> \A k \in 1 .. l + 1 : str[x + k] = pattern[start + k]
      BY <1>1, <1>7 DEF RestAt
    <2>2. RestAt(x) <=> \A k \in 1 .. l : str[x + k] = pattern[start + k]
      BY <1>6 DEF RestAt
    <2>3. 1 .. l + 1 = 1 .. l \cup {l + 1}
      OBVIOUS
    <2> QED
      BY <1>7, <2>1, <2>2, <2>3
  <1>9. \A m \in 0 .. Len(str) : m \in e[i] <=> \E x \in e[start] : x + l = m /\ RestAt(x)
    BY <1>1, <1>6 DEF CutInv
  <1>10. ASSUME NEW m \in 0 .. Len(str)
         PROVE  m \in e[i + 1] <=> \E x \in e[start] : x + (l + 1) = m /\ RestAt(x)'
    <2>1. ASSUME m \in e[i + 1]
          PROVE  \E x \in e[start] : x + (l + 1) = m /\ RestAt(x)'
      <3>1. m \in 1 .. Len(str) /\ m - 1 \in e[i] /\ str[m] = pattern[i + 1]
        BY <1>5, <2>1
      <3>2. PICK x \in e[start] : x + l = m - 1 /\ RestAt(x)
        BY <1>2, <1>9, <3>1
      <3>3. x \in Nat /\ x + (l + 1) = m
        BY <1>2, <3>1, <3>2
      <3> QED
        BY <1>8, <3>1, <3>2, <3>3
    <2>2. ASSUME NEW x \in e[start], x + (l + 1) = m, RestAt(x)'
          PROVE  m \in e[i + 1]
      <3>1. x \in Nat /\ x \in 0 .. Len(str)
        BY <1>2
      <3>2. RestAt(x) /\ str[m] = pattern[i + 1]
        BY <1>8, <2>2, <3>1
      <3>3. m - 1 \in 0 .. Len(str) /\ x + l = m - 1 /\ m \in 1 .. Len(str)
        BY <1>2, <2>2, <3>1
      <3>4. m - 1 \in e[i]
        BY <1>9, <3>2, <3>3
      <3> QED
        BY <1>5, <3>2, <3>3, <3>4
    <2> QED
      BY <2>1, <2>2
  <1>11. \A k \in start' + 1 .. i' : pattern[k] # Percent
    <2> SUFFICES ASSUME NEW k \in start' + 1 .. i' PROVE pattern[k] # Percent
      OBVIOUS
    <2>1. k \in start + 1 .. i \/ k = i + 1
      BY <1>1, <1>2
    <2> QED
      BY <1>1, <1>3, <2>1 DEF CutInv
  <1>12. CutInv(e)'
    <2>1. start' <= i' /\ (start' = 0 => parts' = <<>>)
      BY <1>1, <1>2 DEF CutInv
    <2>2. start' > 0 => /\ pattern'[start'] = Percent
                        /\ parts' = <<>> => ~ anchored_start'
      BY <1>1 DEF CutInv, anchored_start
    <2>3. \A m \in 0 .. Len(str) :
              m \in e[start'] <=> IF start' = 0 THEN m = 0 ELSE EndBy(m)'
      BY <1>1, <1>4 DEF CutInv
    <2>4. \A m \in 0 .. Len(str) :
              m \in e[i'] <=> \E x \in e[start'] : x + (i' - start') = m /\ RestAt(x)'
      BY <1>1, <1>7, <1>10
    <2> QED
      BY <1>1, <1>11, <2>1, <2>2, <2>3, <2>4 DEF CutInv
  <1>13. WholeInv(e)'
    BY <1>1, <1>2, <1>3 DEF WholeInv
  <1> QED
    BY <1>12, <1>13

\* Once the pattern is cut, nothing changes what its parts stand for.
LEMMA WholeKept ==
    ASSUME NEW e, WholeInv(e), pc # "split" \/ i > Len(pattern),
           UNCHANGED <<pattern, str, parts>>, pc' # "split"
    PROVE  CutInv(e)' /\ WholeInv(e)'
  <1>1. \A m : (EndAt(m)' <=> EndAt(m)) /\ (EndBy(m)' <=> EndBy(m))
    BY EndAtSame
  <1>2. /\ anchored_start' = anchored_start /\ anchored_end' = anchored_end
        /\ HasPercent(pattern)' = HasPercent(pattern)
    BY DEF anchored_start, anchored_end, HasPercent
  <1>3. WholeInv(e)'
    BY <1>1, <1>2 DEF WholeInv
  <1>4. CutInv(e)'
    BY DEF CutInv
  <1> QED
    BY <1>3, <1>4

LEMMA MarksInit == Init => MarksInv
  <1> SUFFICES ASSUME Init, NEW e, Marks(e) PROVE CutInv(e) /\ WholeInv(e)
    BY DEF MarksInv
  <1>1. /\ pc = "split" /\ start = 0 /\ i = 0 /\ parts = <<>>
        /\ pattern \in Seq(Chars) /\ Len(pattern) \in Nat /\ Len(str) \in Nat
    BY StringsAssumption DEF Init
  <1>2. \A m : m \in e[0] <=> m = 0
    BY DEF Marks
  <1>3. \A x : RestAt(x)
    BY <1>1 DEF RestAt
  <1>4. CutInv(e)
    BY <1>1, <1>2, <1>3 DEF CutInv
  <1>5. WholeInv(e)
    BY <1>1 DEF WholeInv
  <1> QED
    BY <1>4, <1>5

LEMMA MarksStep == LikeInv /\ MarksInv /\ [Next]_likeVars => MarksInv'
  <1> SUFFICES ASSUME LikeInv, MarksInv, [Next]_likeVars, NEW e, Marks(e)'
               PROVE  CutInv(e)' /\ WholeInv(e)'
    BY DEF MarksInv
  <1>1. UNCHANGED <<pattern, str>>
    BY DEF Next, likeVars, Cut, InPart, SplitDone, StartsWith, EndsWith, Find, FindNothing,
           AllFound, GoOn, Answer
  <1>2. TypeInv /\ Marks(e) /\ CutInv(e) /\ WholeInv(e)
    BY <1>1, MarksSame DEF MarksInv, LikeInv
  <1>3. CASE Cut
    BY <1>2, <1>3, CutMarks
  <1>4. CASE InPart
    BY <1>2, <1>4, InPartMarks
  <1>5. CASE SplitDone
    <2>1. /\ i > Len(pattern) /\ pc' # "split" /\ UNCHANGED <<pattern, str, parts>>
      BY <1>5 DEF SplitDone
    <2> QED
      BY <1>2, <2>1, WholeKept
  <1>6. CASE StartsWith \/ EndsWith \/ Find \/ FindNothing \/ AllFound
    <2>1. pc # "split" /\ pc' # "split" /\ UNCHANGED <<pattern, str, parts>>
      BY <1>6 DEF StartsWith, EndsWith, Find, FindNothing, AllFound, GoOn, Answer
    <2> QED
      BY <1>2, <2>1, WholeKept
  <1>7. CASE UNCHANGED likeVars
    <2>1. UNCHANGED <<pattern, str, parts, pc, start, i>>
      BY <1>7 DEF likeVars
    <2>2. \A m : (EndAt(m)' <=> EndAt(m)) /\ (EndBy(m)' <=> EndBy(m))
      BY <2>1, EndAtSame
    <2>3. /\ anchored_start' = anchored_start /\ anchored_end' = anchored_end
          /\ HasPercent(pattern)' = HasPercent(pattern) /\ \A x : RestAt(x)' <=> RestAt(x)
      BY <2>1 DEF anchored_start, anchored_end, HasPercent, RestAt
    <2>4. CutInv(e)'
      BY <1>2, <2>1, <2>2, <2>3 DEF CutInv
    <2>5. WholeInv(e)'
      BY <1>2, <2>1, <2>2, <2>3 DEF WholeInv
    <2> QED
      BY <2>4, <2>5
  <1> QED
    BY <1>3, <1>4, <1>5, <1>6, <1>7 DEF Next

-----------------------------------------------------------------------------
(* Ends, as a recursive function                                           *)

\* The marks of the first k characters follow from those of one less.
Following(p, s, k, before) ==
    IF p[k] = Percent
    THEN {m \in 0 .. Len(s) : \E n \in before : n <= m}
    ELSE {m \in 1 .. Len(s) : m - 1 \in before /\ s[m] = p[k]}

\* e holds the marks up to n.
MadeUpTo(p, s, n, e) ==
    e = [k \in 0 .. n |-> IF k = 0 THEN {0} ELSE Following(p, s, k, e[k - 1])]

\* Marks up to n exist, by induction on n.
LEMMA MarksExist ==
    ASSUME NEW p, NEW s
    PROVE  \A n \in Nat : \E e : MadeUpTo(p, s, n, e)
  <1> DEFINE Good == {n \in Nat : \E e : MadeUpTo(p, s, n, e)}
  <1>1. 0 \in Good
    <2>1. MadeUpTo(p, s, 0, [k \in 0 .. 0 |-> {0}])
      BY DEF MadeUpTo
    <2> QED
      BY <2>1
  <1>2. ASSUME NEW n \in Good PROVE n + 1 \in Good
    <2>1. PICK e : MadeUpTo(p, s, n, e)
      OBVIOUS
    <2> DEFINE g == [k \in 0 .. n + 1 |-> IF k = n + 1 THEN Following(p, s, k, e[n])
                                          ELSE e[k]]
    <2>2. MadeUpTo(p, s, n + 1, g)
      <3>1. ASSUME NEW k \in 0 .. n + 1
            PROVE  g[k] = IF k = 0 THEN {0} ELSE Following(p, s, k, g[k - 1])
        <4>1. n \in Nat
          OBVIOUS
        <4>2. CASE k = 0
          BY <2>1, <4>1, <4>2 DEF MadeUpTo
        <4>3. CASE k \in 1 .. n
          <5>1. g[k] = e[k] /\ g[k - 1] = e[k - 1]
            BY <4>1, <4>3
          <5>2. e[k] = Following(p, s, k, e[k - 1])
            <6>1. k \in 0 .. n /\ k # 0
              BY <4>1, <4>3
            <6> QED
              BY <2>1, <6>1 DEF MadeUpTo
          <5> QED
            BY <4>1, <4>3, <5>1, <5>2
        <4>4. CASE k = n + 1
          <5>1. g[k] = Following(p, s, k, e[n]) /\ g[k - 1] = e[n]
            BY <4>1, <4>4
          <5> QED
            BY <4>1, <4>4, <5>1
        <4> QED
          BY <4>1, <4>2, <4>3, <4>4
      <3> HIDE DEF g
      <3>2. g = [k \in 0 .. n + 1 |-> g[k]]
        BY DEF g
      <3> QED
        BY <3>1, <3>2 DEF MadeUpTo
    <2> HIDE DEF g
    <2>3. n + 1 \in Nat /\ \E h : MadeUpTo(p, s, n + 1, h)
      BY <2>2
    <2> QED
      BY <2>3
  <1> HIDE DEF Good
  <1>3. \A n \in Nat : n \in Good
    BY <1>1, <1>2, SetInduction
  <1> QED
    BY <1>3 DEF Good

\* The marks made up to n are those of each character after those of the last.
LEMMA MadeMarks ==
    ASSUME NEW p, NEW s, NEW n \in Nat, NEW e, MadeUpTo(p, s, n, e)
    PROVE  e[0] = {0} /\ \A k \in 1 .. n : e[k] = Following(p, s, k, e[k - 1])
  <1>1. e[0] = {0}
    <2>1. 0 \in 0 .. n
      OBVIOUS
    <2> QED
      BY <2>1 DEF MadeUpTo
  <1>2. ASSUME NEW k \in 1 .. n PROVE e[k] = Following(p, s, k, e[k - 1])
    <2>1. k \in 0 .. n /\ k # 0
      OBVIOUS
    <2> QED
      BY <2>1 DEF MadeUpTo
  <1> QED
    BY <1>1, <1>2

\* Ends is the last of the marks.
LEMMA EndsMarks ==
    ASSUME NEW p, NEW s, Len(p) \in Nat
    PROVE  \E e : /\ e[0] = {0}
                  /\ \A k \in 1 .. Len(p) : e[k] = Following(p, s, k, e[k - 1])
                  /\ Ends(p, s) = e[Len(p)]
  <1> DEFINE f == CHOOSE e : MadeUpTo(p, s, Len(p), e)
  <1>1. \E e : MadeUpTo(p, s, Len(p), e)
    BY MarksExist
  <1>2. MadeUpTo(p, s, Len(p), f)
    BY <1>1
  <1>3. Ends(p, s) = f[Len(p)]
    BY Zenon DEF Ends, Following, MadeUpTo
  <1> HIDE DEF f
  <1>4. f[0] = {0} /\ \A k \in 1 .. Len(p) : f[k] = Following(p, s, k, f[k - 1])
    <2>1. Len(p) \in Nat
      OBVIOUS
    <2> QED
      BY <1>2, <2>1, MadeMarks
  <1> QED
    BY <1>3, <1>4

-----------------------------------------------------------------------------
(* The verdict                                                             *)

\* Parts that fit in some way match, but for the last one's end.
LEMMA VerdictRight ==
    ASSUME LikeInv, MarksInv, Answered
    PROVE  Matches <=> IsLike(IF HasPercent(pattern) THEN pattern
                              ELSE Append(pattern, Percent), str)
  <1>1. /\ pattern \in Seq(Chars) /\ str \in Seq(Chars) /\ parts \in Seq(Seq(Chars))
        /\ Len(pattern) \in Nat /\ Len(str) \in Nat /\ Len(parts) \in Nat
        /\ Len(str) \in 0 .. Len(str) /\ pc # "split"
        /\ \A k \in 1 .. Len(parts) : Len(parts[k]) \in Nat
    BY DEF LikeInv, TypeInv, Answered
  <1> DEFINE tied == anchored_end /\ (Len(parts) > 1 \/ ~ anchored_start)
  <1>2. Matches <=> IF tied /\ parts # <<>> THEN EndAt(Len(str)) ELSE EndBy(Len(str))
    <2>2. CASE parts = <<>>
      <3>1. PICK f \in Placings : TRUE
        BY SomePlacing DEF LikeInv
      <3>2. Fits(f, Len(parts))
        BY <2>2 DEF Fits
      <3>3. Matches
        BY <2>2, <3>2 DEF Matches, Placings
      <3>4. EndBy(Len(str))
        <4>1. EndAt(0) /\ 0 \in 0 .. Len(str)
          BY <1>1, <2>2 DEF EndAt
        <4> QED
          BY <4>1 DEF EndBy
      <3> QED
        BY <2>2, <3>3, <3>4
    <2>3. CASE parts # <<>> /\ tied
      <3>1. Matches <=> \E f \in Placings : /\ Fits(f, Len(parts))
                                            /\ f[Len(parts)] + Len(parts[Len(parts)]) = Len(str)
        BY <2>3 DEF Matches, EndFits, Placings
      <3> QED
        BY <2>3, <3>1 DEF EndAt
    <2>4. CASE parts # <<>> /\ ~ tied
      <3>1. Matches <=> \E f \in Placings : Fits(f, Len(parts))
        BY <2>4 DEF Matches, EndFits, Placings
      <3>2. ASSUME NEW f \in Placings, Fits(f, Len(parts)) PROVE EndBy(Len(str))
        <4>1. PICK n \in Nat : n = Len(parts) /\ n > 0
          BY <1>1, <2>4, EmptySeq
        <4>2. PICK x \in 0 .. Len(str) : x = f[n]
          BY <4>1 DEF Placings
        <4>3. IsAt(parts[n], str, x + 1) /\ parts[n] \in Seq(Chars)
          BY <1>1, <3>2, <4>1, <4>2 DEF Fits
        <4>4. x + Len(parts[n]) <= Len(str) /\ x \in Nat /\ Len(parts[n]) \in Nat
          BY <1>1, <4>1, <4>3, InString
        <4>5. PICK y \in 0 .. Len(str) : y = f[n] + Len(parts[n])
          BY <1>1, <4>2, <4>4
        <4>6. EndAt(y)
          BY <2>4, <3>2, <4>1, <4>5 DEF EndAt
        <4> QED
          BY <4>6 DEF EndBy
      <3>3. ASSUME EndBy(Len(str)) PROVE \E f \in Placings : Fits(f, Len(parts))
        BY <2>4, <3>3 DEF EndBy, EndAt
      <3> QED
        BY <2>4, <3>1, <3>2, <3>3
    <2> QED
      BY <2>2, <2>3, <2>4
  <1>3. CASE HasPercent(pattern)
    <2>1. PICK e : /\ e[0] = {0}
                   /\ \A k \in 1 .. Len(pattern) : e[k] = Following(pattern, str, k, e[k - 1])
                   /\ Ends(pattern, str) = e[Len(pattern)]
      BY <1>1, EndsMarks
    <2>2. Marks(e)
      BY <2>1 DEF Marks, Following
    <2>3. WholeInv(e) /\ pattern # <<>>
      <3>1. pattern # <<>>
        BY <1>3 DEF HasPercent
      <3> QED
        BY <2>2, <3>1 DEF MarksInv
    <2>4. /\ Len(str) \in e[Len(pattern)] <=> IF anchored_end THEN EndAt(Len(str))
                                              ELSE EndBy(Len(str))
          /\ anchored_end => parts # <<>> /\ (Len(parts) > 1 \/ ~ anchored_start)
      BY <1>1, <1>3, <2>3 DEF WholeInv
    <2>5. Matches <=> Len(str) \in e[Len(pattern)]
      BY <1>2, <2>4, Zenon
    <2> QED
      BY <1>3, <2>1, <2>5 DEF IsLike
  <1>4. CASE ~ HasPercent(pattern)
    <2> DEFINE q == Append(pattern, Percent)
               n == Len(pattern)
    <2>1. /\ Len(q) = n + 1 /\ q[n + 1] = Percent /\ \A k \in 1 .. n : q[k] = pattern[k]
      <3>1. pattern \in Seq(Chars \cup {Percent}) /\ Percent \in Chars \cup {Percent}
        BY <1>1
      <3> HIDE DEF q
      <3> QED
        BY <3>1, AppendProperties DEF q
    <2> HIDE DEF q
    <2>2. PICK e : /\ e[0] = {0}
                   /\ \A k \in 1 .. n + 1 : e[k] = Following(q, str, k, e[k - 1])
                   /\ Ends(q, str) = e[n + 1]
      <3>1. Len(q) \in Nat
        BY <1>1, <2>1
      <3>2. \E e : /\ e[0] = {0}
                   /\ \A k \in 1 .. Len(q) : e[k] = Following(q, str, k, e[k - 1])
                   /\ Ends(q, str) = e[Len(q)]
        BY <3>1, EndsMarks
      <3>3. Len(q) = n + 1
        BY <2>1
      <3> HIDE DEF n
      <3> QED
        BY <3>2, <3>3
    <2>3. Marks(e)
      <3>1. ASSUME NEW k \in 1 .. n PROVE e[k] = Following(pattern, str, k, e[k - 1])
        <4>1. k \in 1 .. n + 1 /\ q[k] = pattern[k]
          BY <1>1, <2>1
        <4>2. e[k] = Following(q, str, k, e[k - 1])
          BY <2>2, <4>1
        <4> QED
          BY <4>1, <4>2 DEF Following
      <3> QED
        BY <2>2, <3>1 DEF Marks, Following
    <2>4. WholeInv(e) /\ e[n] \subseteq 0 .. Len(str)
      <3>1. n \in 0 .. Len(pattern) /\ TypeInv
        BY <1>1 DEF LikeInv
      <3> QED
        BY <2>3, <3>1, MarkRange DEF MarksInv
    <2>5. anchored_end \/ pattern = <<>>
      <3>1. pattern # <<>> => n \in 1 .. n
        BY <1>1, EmptySeq
      <3> QED
        BY <1>4, <3>1 DEF HasPercent, anchored_end
    <2>6. \A m \in 0 .. Len(str) : m \in e[n] <=> EndAt(m)
      BY <1>1, <2>4, <2>5 DEF WholeInv
    <2>7. ~ tied
      <3>1. Len(parts) <= 1
        BY <1>1, <1>4, <2>4 DEF WholeInv
      <3>2. anchored_end => anchored_start
        <4>1. pattern # <<>> => 1 \in 1 .. n
          BY <1>1, EmptySeq
        <4> QED
          BY <1>4, <4>1 DEF HasPercent, anchored_end, anchored_start
      <3> QED
        BY <1>1, <3>1, <3>2
    <2>8. Len(str) \in e[n + 1] <=> \E m \in e[n] : m <= Len(str)
      <3>1. n + 1 \in 1 .. n + 1 /\ (n + 1) - 1 = n
        BY <1>1
      <3>2. e[n + 1] = {m \in 0 .. Len(str) : \E x \in e[n] : x <= m}
        BY <2>1, <2>2, <3>1 DEF Following
      <3> QED
        BY <1>1, <3>2
    <2>9. (\E m \in e[n] : m <= Len(str)) <=> EndBy(Len(str))
      BY <1>1, <2>4, <2>6 DEF EndBy
    <2>10. Matches <=> Len(str) \in Ends(q, str)
      BY <1>2, <2>2, <2>7, <2>8, <2>9
    <2> QED
      BY <1>4, <2>10 DEF IsLike, q
  <1> QED
    BY <1>3, <1>4

\* For every pattern and every string, LikeMatch says what LIKE means: the
\* characters in order, any number of others in place of each %; and for a
\* pattern without %, that the string begins with it.
THEOREM VerdictIsLike == Spec => []Verdict
  <1>1. Init => LikeInv /\ MarksInv
    BY InitInv, MarksInit
  <1>2. LikeInv /\ MarksInv /\ [Next]_likeVars => (LikeInv /\ MarksInv)'
    BY Step, MarksStep
  <1>3. LikeInv /\ MarksInv => Verdict
    BY VerdictRight DEF LikeInv, GreedyIsEnough, Verdict
  <1> QED
    BY <1>1, <1>2, <1>3, PTL DEF Spec

-----------------------------------------------------------------------------
(* The filter: what is kept of the pattern                                 *)

\* What is kept of the first n characters of p follows from that of one less.
KeptAlso(p, n, before) ==
    IF p[n] = Percent THEN before ELSE Append(before, p[n])

\* e says what is kept of the first characters of p, up to n of them.
KeptUpTo(p, n, e) ==
    e = [k \in 0 .. n |-> IF k = 0 THEN <<>> ELSE KeptAlso(p, k, e[k - 1])]

\* What is kept exists, by induction on the number of characters.
LEMMA KeptExists ==
    ASSUME NEW p
    PROVE  \A n \in Nat : \E e : KeptUpTo(p, n, e)
  <1> DEFINE Good == {n \in Nat : \E e : KeptUpTo(p, n, e)}
  <1>1. 0 \in Good
    <2>1. KeptUpTo(p, 0, [k \in 0 .. 0 |-> <<>>])
      BY DEF KeptUpTo
    <2> QED
      BY <2>1
  <1>2. ASSUME NEW n \in Good PROVE n + 1 \in Good
    <2>1. PICK e : KeptUpTo(p, n, e)
      OBVIOUS
    <2> DEFINE g == [k \in 0 .. n + 1 |-> IF k = n + 1 THEN KeptAlso(p, k, e[n]) ELSE e[k]]
    <2>2. KeptUpTo(p, n + 1, g)
      <3>1. ASSUME NEW k \in 0 .. n + 1
            PROVE  g[k] = IF k = 0 THEN <<>> ELSE KeptAlso(p, k, g[k - 1])
        <4>1. n \in Nat
          OBVIOUS
        <4>2. CASE k = 0
          BY <2>1, <4>1, <4>2 DEF KeptUpTo
        <4>3. CASE k \in 1 .. n
          <5>1. g[k] = e[k] /\ g[k - 1] = e[k - 1]
            BY <4>1, <4>3
          <5>2. e[k] = KeptAlso(p, k, e[k - 1])
            <6>1. k \in 0 .. n /\ k # 0
              BY <4>1, <4>3
            <6> QED
              BY <2>1, <6>1 DEF KeptUpTo
          <5> QED
            BY <4>1, <4>3, <5>1, <5>2
        <4>4. CASE k = n + 1
          <5>1. g[k] = KeptAlso(p, k, e[n]) /\ g[k - 1] = e[n]
            BY <4>1, <4>4
          <5> QED
            BY <4>1, <4>4, <5>1
        <4> QED
          BY <4>1, <4>2, <4>3, <4>4
      <3> HIDE DEF g
      <3>2. g = [k \in 0 .. n + 1 |-> g[k]]
        BY DEF g
      <3> QED
        BY <3>1, <3>2 DEF KeptUpTo
    <2> HIDE DEF g
    <2>3. n + 1 \in Nat /\ \E h : KeptUpTo(p, n + 1, h)
      BY <2>2
    <2> QED
      BY <2>3
  <1> HIDE DEF Good
  <1>3. \A n \in Nat : n \in Good
    BY <1>1, <1>2, SetInduction
  <1> QED
    BY <1>3 DEF Good

\* e[n] is what is kept of the first n characters of the pattern.
Keeps(e) ==
    /\ e[0] = <<>>
    /\ \A n \in 1 .. Len(pattern) : e[n] = KeptAlso(pattern, n, e[n - 1])

LEMMA StrippedKeeps ==
    ASSUME pattern \in Seq(Chars)
    PROVE  \E e : Keeps(e) /\ Stripped(pattern) = e[Len(pattern)]
  <1> DEFINE f == CHOOSE e : KeptUpTo(pattern, Len(pattern), e)
  <1>1. Len(pattern) \in Nat
    OBVIOUS
  <1>2. \E e : KeptUpTo(pattern, Len(pattern), e)
    BY <1>1, KeptExists
  <1>3. KeptUpTo(pattern, Len(pattern), f)
    BY <1>2
  <1>4. Stripped(pattern) = f[Len(pattern)]
    BY Zenon DEF Stripped, KeptAlso, KeptUpTo
  <1> HIDE DEF f
  <1>5. f[0] = <<>>
    <2>1. 0 \in 0 .. Len(pattern)
      BY <1>1
    <2> QED
      BY <1>3, <2>1 DEF KeptUpTo
  <1>6. ASSUME NEW n \in 1 .. Len(pattern) PROVE f[n] = KeptAlso(pattern, n, f[n - 1])
    <2>1. n \in 0 .. Len(pattern) /\ n # 0
      BY <1>1
    <2> QED
      BY <1>3, <2>1 DEF KeptUpTo
  <1> QED
    BY <1>4, <1>5, <1>6 DEF Keeps

\* As long as there is at most one part, it is what is kept so far, but for the
\* characters behind the last cut; in the end it is all that is kept.
KeptInv(e) ==
    /\ pc = "split" /\ i <= Len(pattern) =>
           /\ start <= i
           /\ \A k \in start + 1 .. i : pattern[k] # Percent
           /\ parts = <<>> => e[i] = SubSeq(pattern, start + 1, i)
           /\ Len(parts) = 1 /\ i = start => e[i] = parts[1]
    /\ pc # "split" \/ i > Len(pattern) =>
           /\ parts = <<>> => e[Len(pattern)] = <<>>
           /\ Len(parts) = 1 => e[Len(pattern)] = parts[1]

StripInv == \A e : Keeps(e) => KeptInv(e)

LEMMA StripInit == Init => StripInv
  <1> SUFFICES ASSUME Init, NEW e, Keeps(e) PROVE KeptInv(e)
    BY DEF StripInv
  <1>1. /\ pc = "split" /\ start = 0 /\ i = 0 /\ parts = <<>>
        /\ pattern \in Seq(Chars) /\ Len(pattern) \in Nat
    BY StringsAssumption DEF Init
  <1>2. SubSeq(pattern, start + 1, i) = <<>> /\ e[i] = <<>>
    BY <1>1 DEF Keeps
  <1>3. /\ start <= i /\ ~ (i > Len(pattern)) /\ Len(parts) # 1
        /\ \A k \in start + 1 .. i : FALSE
    BY <1>1
  <1> QED
    BY <1>1, <1>2, <1>3 DEF KeptInv

LEMMA CutKeeps ==
    ASSUME TypeInv, NEW e, Keeps(e), KeptInv(e), Cut
    PROVE  KeptInv(e)'
  <1>1. /\ pc = "split" /\ pc' = pc /\ i <= Len(pattern) /\ AtCut
        /\ start' = i + 1 /\ i' = i + 1 /\ pattern' = pattern
        /\ parts' = IF i > start THEN Append(parts, SubSeq(pattern, start + 1, i)) ELSE parts
    BY DEF Cut
  <1>2. /\ pattern \in Seq(Chars) /\ Len(pattern) \in Nat
        /\ parts \in Seq(Seq(Chars)) /\ Len(parts) \in Nat
        /\ start \in Nat /\ i \in Nat /\ start <= i
    BY <1>1 DEF TypeInv, KeptInv
  <1>3. /\ parts' = <<>> => e[i] = <<>>
        /\ Len(parts') = 1 => e[i] = parts'[1]
    <2>1. CASE i > start
      <3> DEFINE w == SubSeq(pattern, start + 1, i)
      <3>1. w \in Seq(Chars)
        BY <1>1, <1>2, <2>1
      <3>2. parts' = Append(parts, w)
        BY <1>1, <2>1
      <3>3. parts = <<>> => e[i] = w
        BY <1>1 DEF KeptInv
      <3> HIDE DEF w
      <3>4. Len(parts') = Len(parts) + 1 /\ parts' # <<>> /\ parts'[Len(parts) + 1] = w
        BY <1>2, <3>1, <3>2
      <3>5. parts # <<>> => Len(parts) # 0
        BY <1>2, EmptySeq
      <3>6. Len(parts') = 1 => parts = <<>> /\ parts'[1] = w
        <4>1. PICK n \in Nat : n = Len(parts)
          BY <1>2
        <4>2. Len(parts') = n + 1 /\ parts'[n + 1] = w /\ (parts # <<>> => n # 0)
          BY <3>4, <3>5, <4>1
        <4>3. ASSUME Len(parts') = 1 PROVE n = 0 /\ n + 1 = 1
          BY <4>2, <4>3
        <4> QED
          BY <4>2, <4>3
      <3> QED
        BY <3>3, <3>4, <3>6
    <2>2. CASE i = start
      <3>1. SubSeq(pattern, start + 1, i) = <<>>
        BY <1>2, <2>2
      <3> QED
        BY <1>1, <1>2, <2>2, <3>1 DEF KeptInv
    <2> QED
      BY <1>2, <2>1, <2>2
  <1>4. CASE i = Len(pattern)
    BY <1>1, <1>2, <1>3, <1>4 DEF KeptInv
  <1>5. CASE i < Len(pattern)
    <2>1. pattern[i + 1] = Percent
      BY <1>1, <1>2, <1>5 DEF AtCut
    <2>2. i + 1 \in 1 .. Len(pattern) /\ (i + 1) - 1 = i
      BY <1>2, <1>5
    <2>3. e[i + 1] = e[i]
      BY <2>1, <2>2 DEF Keeps, KeptAlso
    <2>4. SubSeq(pattern, i + 2, i + 1) = <<>>
      BY <1>2
    <2>5. i' <= Len(pattern') /\ (i + 1) + 1 = i + 2 /\ ~ (i' > Len(pattern'))
      BY <1>1, <1>2, <1>5
    <2>6. \A k \in start' + 1 .. i' : FALSE
      BY <1>1, <1>2
    <2>7. SubSeq(pattern', start' + 1, i') = <<>> /\ e[i'] = e[i]
      <3>1. start' + 1 = i + 2 /\ i' = i + 1
        BY <1>1, <1>2
      <3> QED
        BY <1>1, <2>3, <2>4, <3>1
    <2>8. start' <= i' /\ i' = start' /\ pc' = "split"
      BY <1>1, <1>2
    <2> QED
      BY <1>3, <2>5, <2>6, <2>7, <2>8 DEF KeptInv
  <1> QED
    BY <1>2, <1>1, <1>4, <1>5

LEMMA InPartKeeps ==
    ASSUME TypeInv, NEW e, Keeps(e), KeptInv(e), InPart
    PROVE  KeptInv(e)'
  <1>1. /\ pc = "split" /\ pc' = pc /\ i <= Len(pattern) /\ ~ AtCut
        /\ start' = start /\ i' = i + 1 /\ pattern' = pattern /\ parts' = parts
    BY DEF InPart
  <1>2. /\ pattern \in Seq(Chars) /\ Len(pattern) \in Nat
        /\ start \in Nat /\ i \in Nat /\ start <= i
    BY <1>1 DEF TypeInv, KeptInv
  <1>3. i < Len(pattern) /\ pattern[i + 1] # Percent
    BY <1>1, <1>2 DEF AtCut
  <1>4. i + 1 \in 1 .. Len(pattern) /\ (i + 1) - 1 = i
    BY <1>2, <1>3
  <1>5. e[i + 1] = Append(e[i], pattern[i + 1])
    BY <1>3, <1>4 DEF Keeps, KeptAlso
  <1>6. Append(SubSeq(pattern, start + 1, i), pattern[i + 1])
            = SubSeq(pattern, start + 1, i + 1)
    <2> DEFINE v == SubSeq(pattern, start + 1, i)
               w == SubSeq(pattern, start + 1, i + 1)
    <2>1. /\ v \in Seq(Chars) /\ Len(v) = i - start
          /\ \A k \in 1 .. i - start : v[k] = pattern[start + k]
      BY <1>2, <1>3
    <2>2. /\ w \in Seq(Chars) /\ Len(w) = i + 1 - start
          /\ \A k \in 1 .. i + 1 - start : w[k] = pattern[start + k]
      BY <1>2, <1>3
    <2>3. pattern[i + 1] \in Chars /\ start + (i + 1 - start) = i + 1
      BY <1>2, <1>4
    <2> HIDE DEF v, w
    <2>4. Append(v, pattern[i + 1]) \in Seq(Chars) /\ Len(Append(v, pattern[i + 1])) = Len(w)
      BY <1>2, <2>1, <2>2, <2>3
    <2>5. ASSUME NEW k \in 1 .. Len(w) PROVE Append(v, pattern[i + 1])[k] = w[k]
      <3>1. CASE k \in 1 .. Len(v)
        <4>1. Append(v, pattern[i + 1])[k] = v[k]
          BY <2>1, <2>3, <3>1
        <4> QED
          BY <1>2, <2>1, <2>2, <3>1, <4>1
      <3>2. CASE k = Len(v) + 1
        <4>1. Append(v, pattern[i + 1])[k] = pattern[i + 1]
          BY <2>1, <2>3, <3>2
        <4>2. k = i + 1 - start
          BY <1>2, <2>1, <3>2
        <4> QED
          BY <1>2, <2>2, <2>3, <4>1, <4>2
      <3> QED
        BY <1>2, <2>1, <2>2, <3>1, <3>2
    <2>6. Append(v, pattern[i + 1]) = w
      BY <2>2, <2>4, <2>5, SeqEqual
    <2> QED
      BY <2>6 DEF v, w
  <1>7. \A k \in start' + 1 .. i' : pattern'[k] # Percent
    <2>1. \A k \in start + 1 .. i : pattern[k] # Percent
      BY <1>1 DEF KeptInv
    <2> QED
      BY <1>1, <1>2, <1>3, <2>1
  <1>8. parts = <<>> => e[i + 1] = SubSeq(pattern, start + 1, i + 1)
    BY <1>1, <1>5, <1>6 DEF KeptInv
  <1>9. /\ start' <= i' /\ i' # start' /\ ~ (i' > Len(pattern'))
    BY <1>1, <1>2, <1>3
  <1> QED
    BY <1>1, <1>7, <1>8, <1>9 DEF KeptInv

LEMMA StripStep == LikeInv /\ StripInv /\ [Next]_likeVars => StripInv'
  <1> SUFFICES ASSUME LikeInv, StripInv, [Next]_likeVars, NEW e, Keeps(e)'
               PROVE  KeptInv(e)'
    BY DEF StripInv
  <1>1. pattern' = pattern
    BY DEF Next, likeVars, Cut, InPart, SplitDone, StartsWith, EndsWith, Find, FindNothing,
           AllFound, GoOn, Answer
  <1>2. Keeps(e)
    BY <1>1 DEF Keeps
  <1>3. TypeInv /\ KeptInv(e)
    BY <1>2 DEF StripInv, LikeInv
  <1>4. CASE Cut
    BY <1>2, <1>3, <1>4, CutKeeps
  <1>5. CASE InPart
    BY <1>2, <1>3, <1>5, InPartKeeps
  <1>6. CASE SplitDone
    <2>1. i > Len(pattern) /\ pc' # "split" /\ parts' = parts
      BY <1>6 DEF SplitDone
    <2> QED
      BY <1>1, <1>3, <2>1 DEF KeptInv
  <1>7. CASE StartsWith \/ EndsWith \/ Find \/ FindNothing \/ AllFound
    <2>1. pc # "split" /\ pc' # "split" /\ parts' = parts
      BY <1>7 DEF StartsWith, EndsWith, Find, FindNothing, AllFound, GoOn, Answer
    <2> QED
      BY <1>1, <1>3, <2>1 DEF KeptInv
  <1>8. CASE UNCHANGED likeVars
    BY <1>3, <1>8 DEF KeptInv, likeVars
  <1> QED
    BY <1>4, <1>5, <1>6, <1>7, <1>8 DEF Next

-----------------------------------------------------------------------------
(* The filter: the bits of a part                                          *)

\* Membership in the n-grams, spelled out.
LEMMA InNGrams ==
    ASSUME NEW w, NEW g
    PROVE  g \in NGrams(w) <=>
               \E m \in 1 .. Len(w) : \E j \in GramsAt(w, m) : g = SubSeq(w, m, m + j - 1)
  <1> DEFINE Grams(m) == {SubSeq(w, m, m + j - 1) : j \in GramsAt(w, m)}
  <1>1. \A m \in 1 .. Len(w) :
            g \in Grams(m) <=> \E j \in GramsAt(w, m) : g = SubSeq(w, m, m + j - 1)
    OBVIOUS
  <1>2. NGrams(w) = UNION {Grams(m) : m \in 1 .. Len(w)}
    BY DEF NGrams
  <1> HIDE DEF Grams
  <1>3. g \in NGrams(w) <=> \E m \in 1 .. Len(w) : g \in Grams(m)
    BY <1>2, Zenon
  <1> QED
    BY <1>1, <1>3, Zenon

\* The n-grams of a part are n-grams of the string that has it behind x.
LEMMA GramsOfPart ==
    ASSUME NEW p \in Seq(Chars), NEW s \in Seq(Chars), NEW x \in Nat, IsAt(p, s, x + 1)
    PROVE  NGrams(p) \subseteq NGrams(s)
  <1>1. /\ Len(p) \in Nat /\ Len(s) \in Nat /\ MaxGram \in Nat
        /\ x + Len(p) <= Len(s) /\ \A k \in 1 .. Len(p) : s[x + k] = p[k]
    BY MaxGramAssumption, IsAtEach
  <1> SUFFICES ASSUME NEW g \in NGrams(p) PROVE g \in NGrams(s)
    OBVIOUS
  <1>2. PICK m \in 1 .. Len(p) : \E j \in GramsAt(p, m) : g = SubSeq(p, m, m + j - 1)
    BY InNGrams
  <1>3. PICK j \in GramsAt(p, m) : g = SubSeq(p, m, m + j - 1)
    BY <1>2
  <1>4. j \in 1 .. MaxGram /\ j \in Nat /\ m + j - 1 <= Len(p)
    BY <1>1 DEF GramsAt
  <1>5. x + m \in 1 .. Len(s) /\ x + m + j - 1 <= Len(s) /\ j \in GramsAt(s, x + m)
    BY <1>1, <1>4 DEF GramsAt
  <1> DEFINE a == SubSeq(p, m, m + j - 1)
             b == SubSeq(s, x + m, x + m + j - 1)
  <1>6. a \in Seq(Chars) /\ Len(a) = j /\ \A k \in 1 .. j : a[k] = p[m + k - 1]
    BY <1>1, <1>4
  <1>7. b \in Seq(Chars) /\ Len(b) = j /\ \A k \in 1 .. j : b[k] = s[x + m + k - 1]
    BY <1>1, <1>4, <1>5
  <1>8. ASSUME NEW k \in 1 .. j PROVE p[m + k - 1] = s[x + m + k - 1]
    <2>1. m + k - 1 \in 1 .. Len(p) /\ x + (m + k - 1) = x + m + k - 1
      BY <1>1, <1>4
    <2> QED
      BY <1>1, <2>1
  <1>9. g = a
    BY <1>3
  <1> HIDE DEF a, b
  <1>10. a = b
    BY <1>6, <1>7, <1>8, SeqEqual
  <1> QED
    BY <1>5, <1>9, <1>10, InNGrams DEF b

\* For every pattern and string, and every choice of bits for the n-grams: the
\* filter that QueryParser makes of a pattern of one part accepts every chunk
\* with a string that LikeMatch accepts.
THEOREM FilterIsSound == Spec => []FilterAccepts
  <1>1. Init => LikeInv /\ StripInv
    BY InitInv, StripInit
  <1>2. LikeInv /\ StripInv /\ [Next]_likeVars => (LikeInv /\ StripInv)'
    BY Step, StripStep
  <1>3. LikeInv /\ StripInv => FilterAccepts
    <2> SUFFICES ASSUME LikeInv, StripInv, pc = "true", Len(parts) <= 1
                 PROVE  Add(Stripped(pattern)) \subseteq Add(str)
      BY DEF FilterAccepts, CheckIn
    <2>1. /\ pattern \in Seq(Chars) /\ str \in Seq(Chars) /\ Len(str) \in Nat
          /\ parts \in Seq(Seq(Chars)) /\ Len(parts) \in Nat
      BY DEF LikeInv, TypeInv
    <2>2. PICK e : Keeps(e) /\ Stripped(pattern) = e[Len(pattern)]
      BY <2>1, StrippedKeeps
    <2>3. KeptInv(e)
      BY <2>2 DEF StripInv
    <2>4. NGrams(Stripped(pattern)) \subseteq NGrams(str)
      <3>1. CASE parts = <<>>
        <4>1. Stripped(pattern) = <<>>
          BY <2>2, <2>3, <3>1 DEF KeptInv
        <4>2. \A m \in 1 .. Len(Stripped(pattern)) : FALSE
          BY <4>1
        <4> QED
          BY <4>2, InNGrams
      <3>2. CASE Len(parts) = 1
        <4>1. Stripped(pattern) = parts[1]
          BY <2>2, <2>3, <3>2 DEF KeptInv
        <4>2. PICK f \in Placings : Fits(f, Len(parts))
          BY DEF LikeInv, GreedyIsEnough, Answered, Matches, Placings
        <4>3. 1 \in 1 .. Len(parts) /\ parts[1] \in Seq(Chars)
          <5>1. 1 \in 1 .. Len(parts)
            BY <3>2
          <5> QED
            BY <2>1, <5>1, ElementOfSeq
        <4>4. f[1] \in 0 .. Len(str) /\ f[1] \in Nat
          BY <2>1, <4>3 DEF Placings
        <4>5. IsAt(parts[1], str, f[1] + 1)
          BY <4>2, <4>3 DEF Fits
        <4> QED
          BY <2>1, <4>1, <4>3, <4>4, <4>5, GramsOfPart
      <3>3. parts # <<>> => Len(parts) \in Nat \ {0}
        BY <2>1, EmptySeq
      <3>4. parts = <<>> \/ Len(parts) = 1
        <4>1. PICK n \in Nat : n = Len(parts)
          BY <2>1
        <4>2. n <= 1 /\ (parts # <<>> => n # 0)
          BY <3>3, <4>1
        <4> QED
          BY <4>1, <4>2
      <3> QED
        BY <3>1, <3>2, <3>4
    <2> QED
      BY <2>4 DEF Add
  <1> QED
    BY <1>1, <1>2, <1>3, PTL DEF Spec
=============================================================================
