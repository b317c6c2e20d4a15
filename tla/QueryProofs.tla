---------------------------- MODULE QueryProofs -----------------------------
(***************************************************************************)
(* Proofs about Query, for every file, every set of calls and every bound: *)
(* a pipeline that has run once is dry, and gives nothing when it is run   *)
(* again; the columns of a batch stand where the parser said; and a query  *)
(* that is answerable meets neither an exception nor undefined behaviour.  *)
(***************************************************************************)
EXTENDS Query, SequenceTheorems, FiniteSetTheorems, WellFoundedInduction, TLAPS

-----------------------------------------------------------------------------
(* The inductive invariant                                                 *)

IsSeq(s) == \E S : s \in Seq(S)

\* The fields of an operator's memory.
Fields == {"batch", "skipped", "ready", "keys", "groups", "out"}

IsBatch(b) == b = NoBatch \/ DOMAIN b = {"cols", "rows"}

\* Engine::Run is at the end of the chain and nowhere else.
Chain(s) == IsSeq(s) /\ \A k \in 1 .. Len(s) : s[k].op # "Run"

Memory(r) == DOMAIN r = Fields /\ IsBatch(r.batch)

OpAt(m) == IF m <= Len(plan) THEN plan[m].op ELSE "Run"

\* Operator m has called its child and has not returned yet.
Waiting(m) == act < m \/ (act = m /\ dir \in {"up", "thrown", "undefined"})

\* The scan is at the end of the file, and no aggregation among the first k
\* operators has anything left to emit.
Dry(k) ==
    /\ ~ (rowGroup < Len(table)) /\ scanPc # "read"
    /\ \A m \in 1 .. k : plan[m].op = "Aggregate" => mem[m].ready /\ mem[m].out = <<>>

BuildInv ==
    phase = "build" =>
        /\ Chain(plan) /\ IsSeq(calls) /\ ~ Reran
        /\ scanPc = "idle" /\ dir = "down" /\ ret = NoBatch

ShapeInv ==
    phase \in {"run", "done"} =>
        /\ Chain(plan)
        /\ act \in 0 .. Len(plan) + 1
        /\ dir \in {"down", "up", "done", "thrown", "undefined"}
        /\ dir = "up" => act > 0
        /\ dir = "done" => act = Len(plan) + 1
        /\ phase = "done" => dir = "done"
        /\ DOMAIN mem = 1 .. Len(plan) + 1
        /\ \A m \in 1 .. Len(plan) + 1 : Memory(mem[m])
        /\ IsBatch(ret)
        /\ scanPc = "end" => ~ (rowGroup < Len(table))

\* nullopt comes only from a dry chain; and an aggregation that has read its
\* input stands on a dry chain.
DryInv ==
    phase \in {"run", "done"} =>
        /\ \A k \in 0 .. Len(plan) :
               /\ act = k + 1
               /\ dir = "done" \/ (dir = "up" /\ ret = NoBatch)
               => Dry(k)
        /\ \A k \in 0 .. Len(plan) :
               /\ k < Len(plan) /\ plan[k + 1].op = "Aggregate"
               /\ mem[k + 1].ready /\ ~ Waiting(k + 1)
               => Dry(k)

\* In a second run the chain stays dry: only nullopt comes up, no aggregation
\* asks for input, and nothing is gathered.
RerunInv ==
    phase \in {"run", "done"} /\ Reran =>
        /\ Dry(Len(plan))
        /\ dir \in {"up", "done"} => ret = NoBatch
        /\ \A m \in 1 .. Len(plan) + 1 : Waiting(m) =>
               /\ OpAt(m) # "Aggregate"
               /\ OpAt(m) \in Collecting => mem[m].batch = NoBatch

QInv == BuildInv /\ ShapeInv /\ DryInv /\ RerunInv /\ SecondRunEmpty

-----------------------------------------------------------------------------
(* Sequences of anything                                                   *)

LEMMA SeqAppend ==
    ASSUME NEW s, IsSeq(s), NEW x
    PROVE  /\ IsSeq(Append(s, x))
           /\ Len(Append(s, x)) = Len(s) + 1 /\ Len(s) \in Nat
           /\ \A k \in 1 .. Len(s) : Append(s, x)[k] = s[k]
           /\ Append(s, x)[Len(s) + 1] = x
  <1>1. PICK S : s \in Seq(S)
    BY DEF IsSeq
  <1>2. s \in Seq(S \cup {x}) /\ x \in S \cup {x}
    BY <1>1
  <1>3. Append(s, x) \in Seq(S \cup {x})
    BY <1>2, AppendProperties
  <1> QED
    BY <1>2, <1>3, AppendProperties DEF IsSeq

LEMMA ChainAppend ==
    ASSUME NEW s, Chain(s), NEW n, n.op # "Run"
    PROVE  Chain(Append(s, n))
  <1> DEFINE t == Append(s, n)
  <1>1. /\ IsSeq(t) /\ Len(t) = Len(s) + 1 /\ Len(s) \in Nat
        /\ \A k \in 1 .. Len(s) : t[k] = s[k]
        /\ t[Len(s) + 1] = n
    BY SeqAppend DEF Chain
  <1> HIDE DEF t
  <1>2. ASSUME NEW k \in 1 .. Len(t) PROVE t[k].op # "Run"
    <2>1. k \in 1 .. Len(s) \/ k = Len(s) + 1
      BY <1>1
    <2> QED
      BY <1>1, <2>1 DEF Chain
  <1>3. Chain(t)
    BY <1>1, <1>2 DEF Chain
  <1> QED
    BY <1>3 DEF t

LEMMA ChainEmpty == Chain(<<>>)
  <1>1. <<>> \in Seq({})
    OBVIOUS
  <1> QED
    BY <1>1 DEF Chain, IsSeq

LEMMA ChainOne ==
    ASSUME NEW n, n.op # "Run"
    PROVE  Chain(<<n>>)
  <1>1. <<n>> \in Seq({n}) /\ Len(<<n>>) = 1 /\ <<n>>[1] = n
    OBVIOUS
  <1>2. \A k \in 1 .. Len(<<n>>) : k = 1
    BY <1>1
  <1>3. \A k \in 1 .. Len(<<n>>) : <<n>>[k].op # "Run"
    BY <1>1, <1>2
  <1> QED
    BY <1>1, <1>3 DEF Chain, IsSeq

LEMMA ChainConcat ==
    ASSUME NEW s, Chain(s), NEW t, Chain(t)
    PROVE  Chain(s \o t)
  <1>1. PICK S : s \in Seq(S)
    BY DEF Chain, IsSeq
  <1>2. PICK T : t \in Seq(T)
    BY DEF Chain, IsSeq
  <1>3. s \in Seq(S \cup T) /\ t \in Seq(S \cup T)
    BY <1>1, <1>2
  <1>4. Len(s) \in Nat /\ Len(t) \in Nat
    BY <1>3
  <1> DEFINE u == s \o t
  <1>5. /\ u \in Seq(S \cup T) /\ Len(u) = Len(s) + Len(t)
        /\ \A k \in 1 .. Len(s) + Len(t) :
               u[k] = IF k <= Len(s) THEN s[k] ELSE t[k - Len(s)]
    BY <1>3, ConcatProperties
  <1> HIDE DEF u
  <1>6. ASSUME NEW k \in 1 .. Len(u) PROVE u[k].op # "Run"
    <2>1. CASE k <= Len(s)
      <3>1. k \in 1 .. Len(s) /\ u[k] = s[k]
        BY <1>4, <1>5, <2>1
      <3> QED
        BY <3>1 DEF Chain
    <2>2. CASE ~ (k <= Len(s))
      <3>1. k - Len(s) \in 1 .. Len(t) /\ u[k] = t[k - Len(s)]
        BY <1>4, <1>5, <2>2
      <3> QED
        BY <3>1 DEF Chain
    <2> QED
      BY <2>1, <2>2
  <1>7. Chain(u)
    BY <1>5, <1>6 DEF Chain, IsSeq
  <1> QED
    BY <1>7 DEF u

-----------------------------------------------------------------------------
(* Building the query                                                      *)

LEMMA InitInv == QueryInit => QInv
  <1> SUFFICES ASSUME QueryInit PROVE QInv
    OBVIOUS
  <1>1. Chain(<<>>) /\ IsSeq(<<>>)
    BY ChainEmpty DEF Chain
  <1> QED
    BY <1>1 DEF QueryInit, Init, ScanInit, QInv, BuildInv, ShapeInv, DryInv,
        RerunInv, SecondRunEmpty, Reran

\* Every call keeps the plan a chain.
LEMMA CallChain ==
    ASSUME NEW c, Chain(plan), Call(c)
    PROVE  Chain(plan') /\ c.fn # "Run"
  <1>1. CASE Where(c)
    BY <1>1, ChainAppend DEF Where
  <1>2. CASE Case(c)
    BY <1>2, ChainAppend DEF Case, AddNode
  <1>3. CASE Add(c)
    BY <1>3, ChainAppend DEF Add, AddNode
  <1>4. CASE GroupBy(c)
    BY <1>4, ChainAppend DEF GroupBy
  <1>5. CASE Count(c)
    BY <1>5, ChainAppend DEF Count
  <1>6. CASE OrderBy(c)
    BY <1>6 DEF OrderBy
  <1>7. CASE OffsetCall(c)
    BY <1>7, ChainAppend DEF OffsetCall
  <1>8. CASE LimitCall(c)
    <2>1. CASE order # NoOrder
      <3> DEFINE p == LookUp(c)
                 topK == [op |-> "TopK", id |-> Id(p, order.col), desc |-> order.desc,
                          id2 |-> IF order.col2 = NoCol THEN 0 ELSE Id(p, order.col2),
                          n |-> c.n + pendingOffset]
                 skip == [op |-> "Offset", n |-> pendingOffset]
                 offset == IF pendingOffset > 0 THEN <<skip>> ELSE <<>>
      <3>1. plan' = plan \o <<topK>> \o offset /\ topK.op = "TopK" /\ skip.op = "Offset"
        BY <1>8, <2>1 DEF LimitCall
      <3> HIDE DEF topK, skip
      <3>2. Chain(<<topK>>) /\ Chain(offset)
        BY <3>1, ChainOne, ChainEmpty
      <3> QED
        BY <1>8, <3>1, <3>2, ChainConcat DEF LimitCall
    <2>2. CASE order = NoOrder
      <3>1. PICK n : plan' = Append(plan, n) /\ n.op = "Limit"
        BY <1>8, <2>2 DEF LimitCall
      <3> QED
        BY <1>8, <3>1, ChainAppend DEF LimitCall
    <2> QED
      BY <2>1, <2>2
  <1>9. CASE Rename(c)
    BY <1>9, ChainAppend DEF Rename
  <1>10. CASE Select(c)
    BY <1>10 DEF Select
  <1> QED
    BY <1>1, <1>2, <1>3, <1>4, <1>5, <1>6, <1>7, <1>8, <1>9, <1>10 DEF Call

LEMMA CallStep == ASSUME NEW c, QInv, Call(c) PROVE QInv'
  <1>1. /\ phase = "build" /\ phase' = "build" /\ calls' = Append(calls, c)
        /\ UNCHANGED <<scanPc, dir, ret>>
    BY DEF Call, Building, Where, Case, Add, GroupBy, Count, OrderBy, OffsetCall,
        LimitCall, Rename, Select, buildRest, scanVars
  <1>2. Chain(plan) /\ IsSeq(calls) /\ ~ Reran
    BY <1>1 DEF QInv, BuildInv
  <1>3. Chain(plan') /\ c.fn # "Run"
    BY <1>2, CallChain
  <1>4. /\ IsSeq(calls') /\ Len(calls') = Len(calls) + 1 /\ Len(calls) \in Nat
        /\ \A k \in 1 .. Len(calls) : calls'[k] = calls[k]
        /\ calls'[Len(calls) + 1] = c
    BY <1>1, <1>2, SeqAppend
  <1>5. ASSUME NEW k \in 1 .. Len(calls') PROVE calls'[k].fn # "Run"
    <2>1. k \in 1 .. Len(calls) \/ k = Len(calls) + 1
      BY <1>4
    <2> QED
      BY <1>2, <1>3, <1>4, <2>1 DEF Reran
  <1> QED
    BY <1>1, <1>3, <1>4, <1>5 DEF QInv, BuildInv, ShapeInv, DryInv, RerunInv,
        SecondRunEmpty, Reran

\* A call that ends the program leaves nothing to show.
LEMMA EndStep ==
    ASSUME NEW c, QInv, Refuse(c) \/ Overrun(c) \/ RunRefused \/ Fail
    PROVE  QInv'
  <1>1. phase' \in {"error", "undefined"}
    BY DEF Refuse, Overrun, RunRefused, Fail
  <1> QED
    BY <1>1 DEF QInv, BuildInv, ShapeInv, DryInv, RerunInv, SecondRunEmpty

LEMMA RunStep == ASSUME QInv, Run PROVE QInv'
  <1>1. Chain(plan) /\ ~ Reran /\ scanPc = "idle" /\ dir = "down" /\ ret = NoBatch
    BY DEF QInv, BuildInv, Run
  <1>2. Chain(plan')
    BY <1>1, ChainAppend DEF Run
  <1>3. Len(plan') \in Nat
    <2>1. PICK S : plan' \in Seq(S)
      BY <1>2 DEF Chain, IsSeq
    <2> QED
      BY <2>1
  <1>4. /\ phase' = "run" /\ calls' = calls /\ scanPc' = "idle" /\ dir' = "down"
        /\ ret' = NoBatch /\ act' = Len(plan') + 1
        /\ mem' = [m \in 1 .. Len(plan') + 1 |-> Fresh]
    BY <1>1 DEF Run
  <1>5. ShapeInv'
    BY <1>2, <1>3, <1>4 DEF ShapeInv, Memory, Fresh, Fields, IsBatch
  <1>6. DryInv'
    BY <1>3, <1>4 DEF DryInv, Fresh
  <1> QED
    BY <1>1, <1>4, <1>5, <1>6 DEF QInv, BuildInv, RerunInv, SecondRunEmpty, Reran

LEMMA PlanLength == ASSUME Chain(plan) PROVE Len(plan) \in Nat
  <1>1. PICK S : plan \in Seq(S)
    BY DEF Chain, IsSeq
  <1> QED
    BY <1>1

\* The second run finds what the first one left, which is dry.
LEMMA RunAgainStep == ASSUME QInv, RunAgain PROVE QInv'
  <1>1. /\ phase = "done" /\ phase' = "run" /\ dir' = "down" /\ act' = Len(plan) + 1
        /\ UNCHANGED <<table, rowGroup, scanPc, ret, plan, mem>>
    BY DEF RunAgain
  <1>2. Chain(plan) /\ Len(plan) \in Nat /\ dir = "done" /\ act = Len(plan) + 1
    BY <1>1, PlanLength DEF QInv, ShapeInv
  <1>3. Dry(Len(plan))
    BY <1>1, <1>2 DEF QInv, DryInv
  <1>4. ShapeInv'
    BY <1>1, <1>2 DEF QInv, ShapeInv
  <1>5. ASSUME NEW k \in 0 .. Len(plan) PROVE Dry(k)'
    BY <1>1, <1>2, <1>3, <1>5 DEF Dry
  <1>6. DryInv'
    BY <1>1, <1>5 DEF DryInv
  <1>7. RerunInv'
    BY <1>1, <1>2, <1>5 DEF RerunInv, Waiting
  <1> QED
    BY <1>1, <1>4, <1>6, <1>7 DEF QInv, BuildInv, SecondRunEmpty

LEMMA AnswerStep == ASSUME QInv, Answer PROVE QInv'
  <1>1. /\ phase = "run" /\ phase' = "done" /\ dir = "done"
        /\ UNCHANGED <<scanVars, opVars, calls>> /\ answer' = Answered
    BY DEF Answer
  <1>2. UNCHANGED <<table, rowGroup, scanPc, ret, plan, act, dir, mem>>
    BY <1>1 DEF scanVars, opVars
  <1>3. ShapeInv' /\ DryInv' /\ RerunInv'
    BY <1>1, <1>2 DEF QInv, ShapeInv, DryInv, RerunInv, Dry, Waiting, OpAt, Reran
  <1>4. Reran => answer'.rows = <<>>
    BY <1>1 DEF QInv, RerunInv, Answered
  <1> QED
    BY <1>1, <1>3, <1>4 DEF QInv, BuildInv, SecondRunEmpty, Reran
-----------------------------------------------------------------------------
(* Running it                                                              *)

\* What an operator that runs knows of itself.
LEMMA RunningOp ==
    ASSUME ShapeInv, phase = "run"
    PROVE  /\ Len(plan) \in Nat /\ act \in 0 .. Len(plan) + 1
           /\ act > 0 => act \in DOMAIN mem /\ OpAt(act) = Running.op /\ Memory(mem[act])
           /\ Running.op = "Run" <=> act = Len(plan) + 1 \/ (act = 0 /\ Running.op = "Run")
  <1>1. Chain(plan) /\ Len(plan) \in Nat /\ act \in 0 .. Len(plan) + 1
    BY PlanLength DEF ShapeInv
  <1>2. act > 0 => act \in DOMAIN mem /\ OpAt(act) = Running.op /\ Memory(mem[act])
    BY <1>1 DEF ShapeInv, OpAt, Running, EngineRun
  <1>3. Running.op = "Run" /\ act # 0 => act = Len(plan) + 1
    BY <1>1 DEF Chain, Running
  <1>4. act = Len(plan) + 1 => Running.op = "Run"
    BY <1>1 DEF Running, EngineRun
  <1> QED
    BY <1>1, <1>2, <1>3, <1>4

\* While a query runs, nothing else is at stake.
LEMMA Kept ==
    ASSUME phase = "run", UNCHANGED buildVars, ShapeInv', DryInv', RerunInv'
    PROVE  QInv'
  BY DEF QInv, BuildInv, SecondRunEmpty, buildVars

\* The running operator's memory becomes r, and the others keep theirs.
Sets(r) ==
    /\ DOMAIN mem' = DOMAIN mem /\ mem'[act] = r
    /\ \A m \in DOMAIN mem : m # act => mem'[m] = mem[m]

LEMMA MemorySet ==
    ASSUME ShapeInv, phase = "run", act > 0, UNCHANGED <<plan, phase>>,
           NEW r, Memory(r), Sets(r)
    PROVE  /\ DOMAIN mem' = 1 .. Len(plan) + 1
           /\ mem'[act] = r
           /\ \A m \in 1 .. Len(plan) + 1 : m # act => mem'[m] = mem[m]
           /\ \A m \in 1 .. Len(plan) + 1 : Memory(mem'[m])
  <1>1. DOMAIN mem = 1 .. Len(plan) + 1 /\ act \in DOMAIN mem
    BY RunningOp DEF ShapeInv
  <1> QED
    BY <1>1 DEF ShapeInv, Sets

\* A batch is not nullopt.
LEMMA BatchIsSome ==
    ASSUME NEW b, DOMAIN b = {"cols", "rows"}
    PROVE  b # NoBatch
  <1>1. "none" \in DOMAIN NoBatch
    BY DEF NoBatch
  <1> QED
    BY <1>1

\* Pulling from the child wakes no aggregation.
LEMMA PullKeepsDry ==
    ASSUME DryInv, phase = "run", act \in 1 .. Len(plan) + 1, Len(plan) \in Nat,
           UNCHANGED <<phase, plan, table, rowGroup, scanPc>>,
           act' = act - 1, dir' = "down",
           \A m \in 1 .. Len(plan) + 1 : m # act => mem'[m] = mem[m]
    PROVE  DryInv'
  <1>1. ASSUME NEW k \in 0 .. Len(plan), k < Len(plan), plan[k + 1].op = "Aggregate",
               mem'[k + 1].ready, ~ Waiting(k + 1)'
        PROVE  Dry(k)'
    <2>1. k + 1 < act /\ k + 1 \in 1 .. Len(plan) + 1
      BY <1>1 DEF Waiting
    <2>2. \A m \in 1 .. k + 1 : mem'[m] = mem[m]
      BY <2>1
    <2>3. ~ Waiting(k + 1) /\ mem[k + 1].ready
      BY <1>1, <2>1, <2>2 DEF Waiting
    <2>4. Dry(k)
      BY <1>1, <2>3 DEF DryInv
    <2> QED
      BY <2>2, <2>4 DEF Dry
  <1> QED
    BY <1>1 DEF DryInv

\* An operator returns: if with nullopt, the chain below it must be dry, and
\* so must it be below an aggregation.
LEMMA ReturnKeepsDry ==
    ASSUME DryInv, phase = "run", act \in 1 .. Len(plan), Len(plan) \in Nat,
           UNCHANGED <<phase, plan, table, rowGroup, scanPc>>,
           act' = act + 1, dir' = "up",
           \A m \in 1 .. Len(plan) + 1 : m # act => mem'[m] = mem[m],
           ret' = NoBatch \/ plan[act].op = "Aggregate" => Dry(act - 1),
           ret' = NoBatch /\ plan[act].op = "Aggregate" =>
               mem'[act].ready /\ mem'[act].out = <<>>
    PROVE  DryInv'
  <1>1. PICK a \in 1 .. Len(plan) : a = act
    OBVIOUS
  <1>2. ASSUME NEW k \in 0 .. Len(plan), k < Len(plan), plan[k + 1].op = "Aggregate",
               mem'[k + 1].ready, ~ Waiting(k + 1)'
        PROVE  Dry(k)'
    <2>1. k + 1 <= a
      BY <1>1, <1>2 DEF Waiting
    <2>2. Dry(k)
      <3>1. CASE k + 1 = a
        <4>1. k = act - 1 /\ plan[act].op = "Aggregate"
          BY <1>1, <1>2, <3>1
        <4> QED
          BY <4>1
      <3>2. CASE k + 1 < a
        <4>1. ~ Waiting(k + 1) /\ mem[k + 1].ready
          BY <1>1, <1>2, <3>2 DEF Waiting
        <4> QED
          BY <1>2, <4>1 DEF DryInv
      <3> QED
        BY <2>1, <3>1, <3>2
    <2>3. \A m \in 1 .. k : mem'[m] = mem[m]
      BY <1>1, <2>1
    <2> QED
      BY <2>2, <2>3 DEF Dry
  <1>3. ASSUME ret' = NoBatch PROVE Dry(a)'
    <2>1. Dry(a - 1)
      BY <1>1, <1>3
    <2>2. \A m \in 1 .. a - 1 : mem'[m] = mem[m]
      BY <1>1
    <2>3. \A m \in 1 .. a : m = a \/ m \in 1 .. a - 1
      BY <1>1
    <2>4. plan[a].op = "Aggregate" => mem'[a].ready /\ mem'[a].out = <<>>
      BY <1>1, <1>3
    <2> QED
      BY <1>1, <2>1, <2>2, <2>3, <2>4 DEF Dry
  <1> QED
    BY <1>1, <1>2, <1>3 DEF DryInv

\* The scan works: the file is at its end for good once it is.
LEMMA CallScanStep ==
    ASSUME QInv, phase = "run", UNCHANGED buildVars, CallScan
    PROVE  QInv'
  <1>1. /\ act = 0 /\ dir = "down" /\ Len(plan) \in Nat
        /\ UNCHANGED <<phase, calls, table, ret, plan, act, dir, mem>>
    BY RunningOp DEF CallScan, GetNext, ReadColumn, SkipGroup, opVars, buildVars, QInv
  <1>2. /\ scanPc' = "end" => ~ (rowGroup' < Len(table'))
        /\ ~ (rowGroup < Len(table)) /\ scanPc # "read" =>
               ~ (rowGroup' < Len(table')) /\ scanPc' # "read"
    BY <1>1 DEF CallScan, GetNext, ReadColumn, SkipGroup, OpenGroup, NumRowGroups,
        QInv, ShapeInv
  <1>3. ShapeInv'
    BY <1>1, <1>2 DEF QInv, ShapeInv
  <1>4. DryInv'
    BY <1>1 DEF DryInv, Waiting
  <1>5. RerunInv'
    BY <1>1, <1>2 DEF QInv, RerunInv, Dry, Waiting, OpAt, Reran
  <1> QED
    BY <1>1, <1>3, <1>4, <1>5, Kept

LEMMA ScanReturnsStep ==
    ASSUME QInv, phase = "run", UNCHANGED buildVars, ScanReturns
    PROVE  QInv'
  <1>1. /\ act = 0 /\ dir = "down" /\ act' = 1 /\ dir' = "up" /\ scanPc' = "idle"
        /\ UNCHANGED <<phase, calls, table, rowGroup, plan, mem>>
        /\ Len(plan) \in Nat
    BY RunningOp DEF ScanReturns, ReturnBatch, ReturnNone, buildVars, QInv
  <1>2. ReturnBatch => DOMAIN ret' = {"cols", "rows"} /\ ret' # NoBatch
    BY BatchIsSome DEF ReturnBatch
  <1>3. ~ (rowGroup < Len(table)) \/ ret' # NoBatch
    BY <1>2 DEF ScanReturns, ReturnNone, QInv, ShapeInv
  <1>4. ShapeInv'
    BY <1>1, <1>2 DEF ScanReturns, ReturnNone, QInv, ShapeInv, IsBatch
  <1>5. DryInv'
    BY <1>1, <1>3 DEF DryInv, Waiting, Dry
  <1>6. RerunInv'
    <2>1. ASSUME Reran PROVE ret' = NoBatch
      BY <1>1, <2>1 DEF QInv, RerunInv, Dry, ScanReturns, ReturnBatch, ReturnNone
    <2> QED
      BY <1>1, <2>1 DEF QInv, RerunInv, Dry, Waiting, OpAt, Reran
  <1> QED
    BY <1>4, <1>5, <1>6, Kept

\* A call down the chain: an aggregation that is asked for the first time
\* reads its input, which a dry chain has none of.
LEMMA CallChildStep ==
    ASSUME QInv, phase = "run", UNCHANGED buildVars, CallChild
    PROVE  QInv'
  <1>1. /\ act > 0 /\ dir = "down" /\ act' = act - 1 /\ dir' = "down"
        /\ UNCHANGED <<phase, calls, plan, ret, table, rowGroup, scanPc>>
        /\ Len(plan) \in Nat /\ act \in 1 .. Len(plan) + 1
        /\ act \in DOMAIN mem /\ OpAt(act) = Running.op /\ Memory(mem[act])
    BY RunningOp DEF CallChild, PullChild, scanKept, buildVars, QInv
  <1>2. PICK r :
          /\ Sets(r) /\ Memory(r) /\ r.out = mem[act].out
          /\ mem[act].ready => r.ready
          /\ r.ready /\ ~ mem[act].ready => Running.op = "Aggregate"
          /\ Running.op = "Aggregate" => ~ mem[act].ready
          /\ Running.op \in Collecting => r.batch = NoBatch
    <2>1. CASE Running.op \in Forwarding /\ UNCHANGED mem
      <3>1. Sets(mem[act])
        BY <1>1, <2>1 DEF Sets
      <3> QED
        BY <1>1, <2>1, <3>1 DEF Forwarding, Collecting
    <2>2. CASE Running.op \in Collecting /\ mem' = [mem EXCEPT ![act].batch = NoBatch]
      <3> WITNESS [mem[act] EXCEPT !.batch = NoBatch]
      <3> QED
        BY <1>1, <2>2 DEF Memory, Fields, IsBatch, Collecting, Sets
    <2>3. CASE /\ Running.op = "Aggregate" /\ ~ mem[act].ready
               /\ mem' = [mem EXCEPT ![act].ready = TRUE]
      <3> WITNESS [mem[act] EXCEPT !.ready = TRUE]
      <3> QED
        BY <1>1, <2>3 DEF Memory, Fields, IsBatch, Collecting, Sets
    <2> QED
      BY <2>1, <2>2, <2>3 DEF CallChild
  <1>3. /\ DOMAIN mem' = 1 .. Len(plan) + 1 /\ mem'[act] = r
        /\ \A m \in 1 .. Len(plan) + 1 : m # act => mem'[m] = mem[m]
        /\ \A m \in 1 .. Len(plan) + 1 : Memory(mem'[m])
    BY <1>1, <1>2, MemorySet DEF QInv
  <1>4. ShapeInv'
    BY <1>1, <1>3 DEF QInv, ShapeInv
  <1>5. DryInv'
    BY <1>1, <1>3, PullKeepsDry DEF QInv
  <1>6. RerunInv'
    <2>1. ASSUME Reran PROVE Running.op # "Aggregate"
      BY <1>1, <1>2, <2>1 DEF QInv, RerunInv, Dry, OpAt
    <2>2. ASSUME Reran PROVE Dry(Len(plan))'
      BY <1>1, <1>2, <1>3, <2>2 DEF QInv, RerunInv, Dry
    <2> QED
      BY <1>1, <1>2, <1>3, <2>1, <2>2 DEF QInv, RerunInv, Waiting, OpAt, Reran
  <1> QED
    BY <1>4, <1>5, <1>6, Kept

-----------------------------------------------------------------------------
(* The operators                                                           *)

\* An operator that is given something to work on: the run is the first.
LEMMA FirstRun ==
    ASSUME QInv, phase = "run", act > 0,
           \/ dir = "up" /\ ret # NoBatch
           \/ dir = "up" /\ Running.op = "Aggregate"
           \/ dir = "up" /\ Running.op \in Collecting /\ mem[act].batch # NoBatch
    PROVE  ~ Reran
  <1> SUFFICES ASSUME Reran PROVE FALSE
    OBVIOUS
  <1>1. act \in 1 .. Len(plan) + 1 /\ OpAt(act) = Running.op
    BY RunningOp DEF QInv
  <1>2. Waiting(act)
    BY DEF Waiting
  <1> QED
    BY <1>1, <1>2 DEF QInv, RerunInv

\* The result of an operator that leaves all memories as they are.
LEMMA ReturnStep ==
    ASSUME QInv, phase = "run", UNCHANGED buildVars, UNCHANGED scanKept, UNCHANGED plan,
           dir = "up", act \in 1 .. Len(plan), Running.op # "Aggregate",
           act' = act + 1, dir' = "up", IsBatch(ret'),
           ret' = NoBatch => ret = NoBatch,
           Reran => ret' = NoBatch,
           NEW r, Memory(r), Sets(r), r.batch = mem[act].batch
    PROVE  QInv'
  <1>1. /\ Len(plan) \in Nat /\ plan[act].op = Running.op
        /\ UNCHANGED <<phase, calls, table, rowGroup, scanPc>>
    BY RunningOp DEF QInv, Running, buildVars, scanKept
  <1>2. /\ DOMAIN mem' = 1 .. Len(plan) + 1 /\ mem'[act] = r
        /\ \A m \in 1 .. Len(plan) + 1 : m # act => mem'[m] = mem[m]
        /\ \A m \in 1 .. Len(plan) + 1 : Memory(mem'[m])
    BY <1>1, MemorySet DEF QInv
  <1>3. ShapeInv'
    BY <1>1, <1>2 DEF QInv, ShapeInv
  <1>4. ret' = NoBatch => Dry(act - 1)
    <2>1. PICK k \in 0 .. Len(plan) : act = k + 1
      <3>1. act - 1 \in 0 .. Len(plan) /\ act = (act - 1) + 1
        BY <1>1
      <3> QED
        BY <3>1
    <2> QED
      BY <2>1 DEF QInv, DryInv
  <1>5. DryInv'
    BY <1>1, <1>2, <1>4, ReturnKeepsDry DEF QInv
  <1>6. RerunInv'
    <2>1. ASSUME Reran PROVE Dry(Len(plan))'
      BY <1>1, <1>2, <2>1 DEF QInv, RerunInv, Dry
    <2>2. ASSUME NEW m \in 1 .. Len(plan) + 1, Waiting(m)'
          PROVE  Waiting(m) /\ mem'[m] = mem[m]
      BY <1>1, <1>2, <2>2 DEF Waiting
    <2> QED
      BY <1>1, <2>1, <2>2 DEF QInv, RerunInv, OpAt, Reran
  <1> QED
    BY <1>3, <1>5, <1>6, Kept

\* Nothing in the memory changes but what the running operator gathers.
LEMMA PullStep ==
    ASSUME QInv, phase = "run", UNCHANGED buildVars, UNCHANGED scanKept, UNCHANGED plan,
           dir = "up", ~ Reran, act \in 1 .. Len(plan) + 1,
           PullChild, IsBatch(ret'),
           NEW r, Memory(r), Sets(r)
    PROVE  QInv'
  <1>1. /\ Len(plan) \in Nat /\ act' = act - 1 /\ dir' = "down"
        /\ UNCHANGED <<phase, calls, table, rowGroup, scanPc>>
    BY RunningOp DEF QInv, PullChild, buildVars, scanKept
  <1>2. /\ DOMAIN mem' = 1 .. Len(plan) + 1 /\ mem'[act] = r
        /\ \A m \in 1 .. Len(plan) + 1 : m # act => mem'[m] = mem[m]
        /\ \A m \in 1 .. Len(plan) + 1 : Memory(mem'[m])
    BY <1>1, MemorySet DEF QInv
  <1>3. ShapeInv'
    BY <1>1, <1>2 DEF QInv, ShapeInv
  <1>4. DryInv'
    BY <1>1, <1>2, PullKeepsDry DEF QInv
  <1>5. RerunInv'
    BY <1>1 DEF RerunInv, Reran
  <1> QED
    BY <1>3, <1>4, <1>5, Kept

\* The memory of an operator that is left as it is.
LEMMA Unset ==
    ASSUME ShapeInv, phase = "run", act > 0, UNCHANGED mem
    PROVE  Memory(mem[act]) /\ Sets(mem[act])
  BY RunningOp DEF Sets

\* The position of an operator that is not Engine::Run.
LEMMA Inside ==
    ASSUME ShapeInv, phase = "run", dir = "up", Running.op # "Run"
    PROVE  act \in 1 .. Len(plan) /\ act > 0
  <1>1. act > 0
    BY DEF ShapeInv
  <1> QED
    BY <1>1, RunningOp

LEMMA FilterStep ==
    ASSUME QInv, phase = "run", UNCHANGED buildVars, Filter
    PROVE  QInv'
  <1>1. /\ dir = "up" /\ ret # NoBatch /\ Running.op = "Filter"
        /\ UNCHANGED <<plan, mem>> /\ UNCHANGED scanKept /\ IsBatch(ret)
    BY DEF Filter, QInv, ShapeInv
  <1>2. act \in 1 .. Len(plan) /\ act > 0 /\ Len(plan) \in Nat
    BY <1>1, Inside, RunningOp DEF QInv
  <1>3. ~ Reran /\ Memory(mem[act]) /\ Sets(mem[act])
    BY <1>1, <1>2, FirstRun, Unset DEF QInv
  <1>4. CASE PullChild /\ UNCHANGED ret
    BY <1>1, <1>2, <1>3, <1>4, PullStep
  <1>5. ASSUME NEW rows, Return([ret EXCEPT !.rows = rows])
        PROVE  QInv'
    <2>1. /\ ret' = [ret EXCEPT !.rows = rows] /\ act' = act + 1 /\ dir' = "up"
          /\ DOMAIN ret' = {"cols", "rows"}
      BY <1>1, <1>5 DEF Return, IsBatch
    <2>2. ret' # NoBatch /\ IsBatch(ret')
      BY <2>1, BatchIsSome DEF IsBatch
    <2> QED
      BY <1>1, <1>2, <1>3, <2>1, <2>2, ReturnStep
  <1> QED
    BY <1>4, <1>5 DEF Filter

LEMMA TransformStep ==
    ASSUME QInv, phase = "run", UNCHANGED buildVars, Transform
    PROVE  QInv'
  <1>1. /\ dir = "up" /\ ret # NoBatch /\ Running.op \in {"AddCol", "AddCase", "As"}
        /\ UNCHANGED <<plan, mem>> /\ UNCHANGED scanKept /\ IsBatch(ret)
    BY DEF Transform, QInv, ShapeInv
  <1>2. act \in 1 .. Len(plan) /\ act > 0
    BY <1>1, Inside DEF QInv
  <1>3. ~ Reran /\ Memory(mem[act]) /\ Sets(mem[act])
    BY <1>1, <1>2, FirstRun, Unset DEF QInv
  <1>4. act' = act + 1 /\ dir' = "up" /\ DOMAIN ret' = {"cols", "rows"}
    <2>1. CASE Return(AddColumn(Running, ret))
      BY <2>1 DEF Return, AddColumn
    <2>2. CASE Return(Renamed(Running, ret))
      BY <1>1, <2>2 DEF Return, Renamed, IsBatch
    <2> QED
      BY <2>1, <2>2 DEF Transform
  <1>5. ret' # NoBatch /\ IsBatch(ret')
    BY <1>4, BatchIsSome DEF IsBatch
  <1> QED
    BY <1>1, <1>2, <1>3, <1>4, <1>5, ReturnStep

LEMMA PassNoneStep ==
    ASSUME QInv, phase = "run", UNCHANGED buildVars, PassNone \/ CollectNone
    PROVE  QInv'
  <1>1. /\ dir = "up" /\ ret = NoBatch /\ Running.op \notin {"Run", "Aggregate"}
        /\ UNCHANGED <<plan, mem>> /\ UNCHANGED scanKept
        /\ ret' = NoBatch /\ act' = act + 1 /\ dir' = "up"
    BY DEF PassNone, CollectNone, Return, Forwarding, Collecting
  <1>2. act \in 1 .. Len(plan) /\ act > 0
    BY <1>1, Inside DEF QInv
  <1>3. Memory(mem[act]) /\ Sets(mem[act])
    BY <1>1, <1>2, Unset DEF QInv
  <1> QED
    BY <1>1, <1>2, <1>3, ReturnStep DEF IsBatch

LEMMA CollectStep ==
    ASSUME QInv, phase = "run", UNCHANGED buildVars, Collect
    PROVE  QInv'
  <1>1. /\ dir = "up" /\ ret # NoBatch /\ act > 0 /\ UNCHANGED <<plan, ret>>
        /\ UNCHANGED scanKept /\ PullChild /\ IsBatch(ret)
        /\ mem' = [mem EXCEPT ![act].batch = Gather(Running, @, ret)]
    BY DEF Collect, QInv, ShapeInv
  <1>2. act \in 1 .. Len(plan) + 1 /\ act \in DOMAIN mem /\ Memory(mem[act])
    BY <1>1, RunningOp DEF QInv, ShapeInv
  <1>3. ~ Reran
    BY <1>1, FirstRun
  <1> DEFINE r == [mem[act] EXCEPT !.batch = Gather(Running, @, ret)]
  <1>4. Memory(r) /\ Sets(r)
    BY <1>1, <1>2 DEF Memory, Fields, IsBatch, Gather, Sets
  <1> HIDE DEF r
  <1> QED
    BY <1>1, <1>2, <1>3, <1>4, PullStep

LEMMA AggregateStep ==
    ASSUME QInv, phase = "run", UNCHANGED buildVars, Aggregate
    PROVE  QInv'
  <1>1. /\ dir = "up" /\ ret # NoBatch /\ act > 0 /\ UNCHANGED <<plan, ret>>
        /\ UNCHANGED scanKept /\ PullChild /\ IsBatch(ret)
        /\ mem' = [mem EXCEPT ![act].keys = KeyTypes(Running, ret),
                              ![act].groups = ProcessBatch(Running, @, ret.rows)]
    BY DEF Aggregate, QInv, ShapeInv
  <1>2. act \in 1 .. Len(plan) + 1 /\ act \in DOMAIN mem /\ Memory(mem[act])
    BY <1>1, RunningOp DEF QInv, ShapeInv
  <1>3. ~ Reran
    BY <1>1, FirstRun
  <1> DEFINE r == [mem[act] EXCEPT !.keys = KeyTypes(Running, ret),
                                   !.groups = ProcessBatch(Running, @, ret.rows)]
  <1>4. Memory(r) /\ Sets(r)
    BY <1>1, <1>2 DEF Memory, Fields, Sets
  <1> HIDE DEF r
  <1> QED
    BY <1>1, <1>2, <1>3, <1>4, PullStep

\* What a collecting operator gathered is not nullopt when it is returned.
LEMMA FinishCollectStep ==
    ASSUME QInv, phase = "run", UNCHANGED buildVars, FinishCollect
    PROVE  QInv'
  <1> DEFINE b == mem[act].batch
  <1>1. /\ dir = "up" /\ ret = NoBatch /\ UNCHANGED plan /\ UNCHANGED scanKept
        /\ Running.op \in Collecting /\ b # NoBatch
        /\ Limit(b) \/ Offset(b) \/ Sort(b) \/ TopK(b)
    BY DEF FinishCollect
  <1>2. Running.op \notin {"Run", "Aggregate"}
    BY <1>1 DEF Limit, Offset, Sort, TopK
  <1>3. /\ act \in 1 .. Len(plan) /\ act > 0 /\ act \in DOMAIN mem
        /\ Memory(mem[act]) /\ DOMAIN b = {"cols", "rows"}
    BY <1>1, <1>2, Inside, RunningOp DEF QInv, Memory, IsBatch
  <1>4. ~ Reran
    BY <1>1, <1>3, FirstRun
  <1>5. PICK rows : Return([b EXCEPT !.rows = rows])
    <2>1. CASE Limit(b)
      BY <2>1 DEF Limit
    <2>2. CASE Offset(b)
      BY <2>2 DEF Offset
    <2>3. CASE Sort(b)
      BY <2>3 DEF Sort
    <2>4. CASE TopK(b)
      BY <2>4 DEF TopK
    <2> QED
      BY <1>1, <2>1, <2>2, <2>3, <2>4
  <1>6. PICK r : Memory(r) /\ Sets(r) /\ r.batch = mem[act].batch
    <2>1. CASE UNCHANGED mem
      BY <1>3, <2>1, Unset DEF QInv
    <2>2. CASE Offset(b)
      <3>1. PICK skip : mem' = [mem EXCEPT ![act].skipped = skip]
        BY <2>2 DEF Offset
      <3> WITNESS [mem[act] EXCEPT !.skipped = skip]
      <3> QED
        BY <1>3, <3>1 DEF Memory, Fields, Sets
    <2> QED
      BY <1>1, <2>1, <2>2 DEF Limit, Sort, TopK
  <1>7. /\ act' = act + 1 /\ dir' = "up" /\ DOMAIN ret' = {"cols", "rows"}
    BY <1>3, <1>5 DEF Return
  <1>8. ret' # NoBatch /\ IsBatch(ret')
    BY <1>7, BatchIsSome DEF IsBatch
  <1> QED
    BY <1>1, <1>2, <1>3, <1>4, <1>6, <1>7, <1>8, ReturnStep

\* The end of its input leaves an aggregation on a dry chain.
LEMMA AggregateRunStep ==
    ASSUME QInv, phase = "run", UNCHANGED buildVars, AggregateRun
    PROVE  QInv'
  <1>1. /\ dir = "up" /\ ret = NoBatch /\ Running.op = "Aggregate" /\ dir' = "down"
        /\ UNCHANGED <<plan, act, ret>> /\ UNCHANGED scanKept
    BY DEF AggregateRun
  <1>2. /\ act \in 1 .. Len(plan) /\ act > 0 /\ act \in DOMAIN mem
        /\ Len(plan) \in Nat /\ Memory(mem[act])
        /\ UNCHANGED <<phase, calls, table, rowGroup, scanPc>>
    BY <1>1, Inside, RunningOp DEF QInv, buildVars, scanKept
  <1>3. ~ Reran
    BY <1>1, <1>2, FirstRun
  <1>4. PICK out : mem' = [mem EXCEPT ![act].out = out]
    BY DEF AggregateRun
  <1> DEFINE r == [mem[act] EXCEPT !.out = out]
  <1>5. Memory(r) /\ Sets(r)
    BY <1>2, <1>4 DEF Memory, Fields, Sets
  <1> HIDE DEF r
  <1>6. /\ DOMAIN mem' = 1 .. Len(plan) + 1 /\ mem'[act] = r
        /\ \A m \in 1 .. Len(plan) + 1 : m # act => mem'[m] = mem[m]
        /\ \A m \in 1 .. Len(plan) + 1 : Memory(mem'[m])
    BY <1>2, <1>5, MemorySet, <1>1 DEF QInv
  <1>7. ShapeInv'
    BY <1>1, <1>2, <1>6 DEF QInv, ShapeInv
  <1>8. PICK a \in 1 .. Len(plan) : a = act
    BY <1>2
  <1>9. ASSUME NEW k \in 0 .. Len(plan), k < Len(plan), plan[k + 1].op = "Aggregate",
               mem'[k + 1].ready, ~ Waiting(k + 1)'
        PROVE  Dry(k)'
    <2>1. k + 1 <= a
      BY <1>1, <1>8, <1>9 DEF Waiting
    <2>2. Dry(k)
      <3>1. CASE k + 1 = a
        BY <1>1, <1>2, <1>8, <3>1 DEF QInv, DryInv
      <3>2. CASE k + 1 < a
        <4>1. ~ Waiting(k + 1) /\ mem[k + 1].ready
          BY <1>2, <1>6, <1>8, <1>9, <3>2 DEF Waiting
        <4> QED
          BY <1>9, <4>1 DEF QInv, DryInv
      <3> QED
        BY <2>1, <3>1, <3>2
    <2>3. \A m \in 1 .. k : mem'[m] = mem[m]
      BY <1>2, <1>6, <1>8, <2>1
    <2> QED
      BY <1>1, <1>2, <2>2, <2>3 DEF Dry
  <1>10. DryInv'
    BY <1>1, <1>2, <1>9 DEF DryInv
  <1>11. RerunInv'
    BY <1>2, <1>3 DEF RerunInv, Reran
  <1> QED
    BY <1>7, <1>10, <1>11, Kept

\* An aggregation that has emitted its last group returns nullopt, over a dry
\* chain.
LEMMA EmitGroupsStep ==
    ASSUME QInv, phase = "run", UNCHANGED buildVars, EmitGroups
    PROVE  QInv'
  <1> DEFINE out == mem[act].out
             n == Smaller(ChunkSize, Len(out))
             r == [mem[act] EXCEPT !.out = SubSeq(out, n + 1, Len(out))]
  <1>1. /\ dir = "down" /\ act > 0 /\ Running.op = "Aggregate" /\ mem[act].ready
        /\ UNCHANGED plan /\ UNCHANGED scanKept /\ act' = act + 1 /\ dir' = "up"
        /\ ret' = IF out = <<>> THEN NoBatch
                  ELSE [cols |-> GroupCols(Running, mem[act].keys),
                        rows |-> SubSeq(out, 1, n)]
        /\ mem' = [mem EXCEPT ![act].out = SubSeq(out, n + 1, Len(out))]
    BY DEF EmitGroups, Return
  <1>2. /\ act \in 1 .. Len(plan) /\ act \in DOMAIN mem /\ Len(plan) \in Nat
        /\ Memory(mem[act]) /\ plan[act].op = "Aggregate"
        /\ UNCHANGED <<phase, calls, table, rowGroup, scanPc>>
    BY <1>1, RunningOp DEF QInv, buildVars, scanKept, Running
  <1>3. Memory(r) /\ Sets(r) /\ r.ready
    BY <1>1, <1>2 DEF Memory, Fields, Sets
  <1>4. out # <<>> => DOMAIN ret' = {"cols", "rows"} /\ ret' # NoBatch
    BY <1>1, BatchIsSome
  <1>5. out = <<>> => ret' = NoBatch /\ r.out = <<>>
    <2>1. ASSUME out = <<>> PROVE SubSeq(out, n + 1, Len(out)) = <<>>
      <3>1. Len(out) = 0 /\ n = 0
        BY <2>1, LimitAssumption DEF Smaller
      <3> QED
        BY <3>1, SubSeqEmpty
    <2> QED
      BY <1>1, <1>2, <2>1 DEF Memory, Fields
  <1> HIDE DEF r, out, n
  <1>6. /\ DOMAIN mem' = 1 .. Len(plan) + 1 /\ mem'[act] = r
        /\ \A m \in 1 .. Len(plan) + 1 : m # act => mem'[m] = mem[m]
        /\ \A m \in 1 .. Len(plan) + 1 : Memory(mem'[m])
    BY <1>1, <1>2, <1>3, MemorySet DEF QInv
  <1>7. ShapeInv'
    <2>1. IsBatch(ret')
      BY <1>4, <1>5 DEF IsBatch
    <2>2. act' \in 0 .. Len(plan) + 1 /\ act' > 0
      BY <1>1, <1>2
    <2> QED
      BY <1>1, <1>2, <1>6, <2>1, <2>2 DEF QInv, ShapeInv
  <1>8. Dry(act - 1)
    <2>1. PICK k \in 0 .. Len(plan) : act = k + 1
      <3>1. act \in 1 .. Len(plan) /\ Len(plan) \in Nat
        BY <1>2
      <3> QED
        BY <3>1
    <2>2. ~ Waiting(k + 1)
      BY <1>1, <2>1 DEF Waiting
    <2> QED
      BY <1>1, <1>2, <2>1, <2>2 DEF QInv, DryInv
  <1>9. DryInv'
    BY <1>1, <1>2, <1>3, <1>4, <1>5, <1>6, <1>8, ReturnKeepsDry DEF QInv
  <1>10. RerunInv'
    <2>1. ASSUME Reran PROVE out = <<>>
      BY <1>1, <1>2, <2>1 DEF QInv, RerunInv, Dry, out
    <2>2. ASSUME Reran PROVE Dry(Len(plan))'
      BY <1>1, <1>2, <1>3, <1>5, <1>6, <2>1, <2>2 DEF QInv, RerunInv, Dry
    <2>3. ASSUME NEW m \in 1 .. Len(plan) + 1, Waiting(m)'
          PROVE  Waiting(m) /\ mem'[m] = mem[m]
      BY <1>1, <1>2, <1>6, <2>3 DEF Waiting
    <2> QED
      BY <1>1, <1>2, <1>5, <2>1, <2>2, <2>3 DEF QInv, RerunInv, OpAt, Reran
  <1> QED
    BY <1>7, <1>9, <1>10, Kept

LEMMA EngineDoneStep ==
    ASSUME QInv, phase = "run", UNCHANGED buildVars, EngineDone
    PROVE  QInv'
  <1>1. /\ dir = "up" /\ ret = NoBatch /\ Running.op = "Run" /\ dir' = "done"
        /\ ret' = mem[act].batch /\ UNCHANGED <<plan, act, mem>> /\ UNCHANGED scanKept
    BY DEF EngineDone
  <1>2. /\ act = Len(plan) + 1 /\ Len(plan) \in Nat /\ Memory(mem[act])
        /\ UNCHANGED <<phase, calls, table, rowGroup, scanPc>>
        /\ OpAt(act) = "Run"
    <2>1. act > 0
      BY <1>1 DEF QInv, ShapeInv
    <2> QED
      BY <1>1, <2>1, RunningOp DEF QInv, buildVars, scanKept
  <1>3. Dry(Len(plan))
    BY <1>1, <1>2 DEF QInv, DryInv
  <1>4. ASSUME NEW k \in 0 .. Len(plan) PROVE Dry(k)'
    BY <1>1, <1>2, <1>3 DEF Dry
  <1>5. ShapeInv'
    BY <1>1, <1>2 DEF QInv, ShapeInv, Memory
  <1>6. DryInv'
    BY <1>1, <1>4 DEF DryInv
  <1>7. RerunInv'
    <2>1. ASSUME Reran PROVE ret' = NoBatch
      BY <1>1, <1>2, <2>1 DEF QInv, RerunInv, Waiting, Collecting
    <2>2. Len(plan) \in 0 .. Len(plan)
      BY <1>2
    <2> QED
      BY <1>1, <1>2, <1>4, <2>1, <2>2 DEF RerunInv, Waiting, Reran
  <1> QED
    BY <1>5, <1>6, <1>7, Kept

\* A failure ends the run where it is.
LEMMA FailureStep ==
    ASSUME QInv, phase = "run", UNCHANGED buildVars, Throw \/ Misbehave
    PROVE  QInv'
  <1>1. /\ dir = "up" \/ (dir = "down" /\ act = 0)
        /\ dir' \in {"thrown", "undefined"} /\ UNCHANGED <<plan, act, mem, ret>>
        /\ UNCHANGED <<phase, calls, table, rowGroup, scanPc>>
    BY DEF Throw, Misbehave, buildVars, scanKept
  <1>2. ShapeInv'
    BY <1>1 DEF QInv, ShapeInv
  <1>3. Len(plan) \in Nat
    BY <1>1, SeqAppend DEF QInv, ShapeInv, Chain
  <1>4. /\ \A m \in 1 .. Len(plan) + 1 : Waiting(m)' <=> Waiting(m)
        /\ \A k \in 0 .. Len(plan) : k < Len(plan) => (Waiting(k + 1)' <=> Waiting(k + 1))
    BY <1>1, <1>3 DEF Waiting
  <1>5. \A k : Dry(k)' <=> Dry(k)
    BY <1>1 DEF Dry
  <1>6. DryInv'
    BY <1>1, <1>4, <1>5 DEF QInv, DryInv
  <1>7. RerunInv'
    BY <1>1, <1>4, <1>5 DEF QInv, RerunInv, OpAt, Reran
  <1> QED
    BY <1>2, <1>6, <1>7, Kept

LEMMA ExecuteStep == ASSUME QInv, Execute PROVE QInv'
  <1>1. phase = "run" /\ UNCHANGED buildVars
    BY DEF Execute
  <1> QED
    BY <1>1, CallScanStep, ScanReturnsStep, CallChildStep, FilterStep, TransformStep,
       PassNoneStep, CollectStep, FinishCollectStep, AggregateStep, AggregateRunStep,
       EmitGroupsStep, EngineDoneStep, FailureStep
       DEF Execute, OpStep

LEMMA StutterStep == ASSUME QInv, UNCHANGED vars PROVE QInv'
  BY DEF QInv, BuildInv, ShapeInv, DryInv, RerunInv, SecondRunEmpty, Dry, Waiting, OpAt,
     Reran, vars, scanVars, opVars, buildVars

\* Whatever the file and the calls, and however the hash tables and the sorts
\* order their rows: a pipeline that is run a second time answers no rows.
\* Nothing of a first run is left to be given twice.
THEOREM NothingTwice == Spec => []SecondRunEmpty
  <1>1. QueryInit => QInv
    BY InitInv
  <1>2. QInv /\ [Next]_vars => QInv'
    BY CallStep, EndStep, RunStep, RunAgainStep, ExecuteStep, AnswerStep, StutterStep
       DEF Next
  <1>3. QInv => SecondRunEmpty
    BY DEF QInv
  <1> QED
    BY <1>1, <1>2, <1>3, PTL DEF Spec

-----------------------------------------------------------------------------
(* Induction                                                               *)

\* Counting up.
LEMMA SetInduction ==
    ASSUME NEW S, 0 \in S, \A n \in Nat : n \in S => n + 1 \in S
    PROVE  \A n \in Nat : n \in S
  <1> DEFINE R == {ss \in Nat \X Nat : ss[1] < ss[2]}
             T == {k \in Nat : k \notin S}
  <1>1. IsWellFoundedOn(R, Nat)
    BY NatLessThanWellFounded DEF OpToRel
  <1> SUFFICES ASSUME NEW n \in Nat, n \notin S PROVE FALSE
    OBVIOUS
  <1>2. T \in SUBSET Nat /\ T # {}
    OBVIOUS
  <1>3. PICK x \in T : \A y \in T : ~ (<<y, x>> \in R)
    <2> HIDE DEF T
    <2> QED
      BY <1>1, <1>2, WFMin
  <1>4. x - 1 \in Nat /\ x - 1 < x /\ (x - 1) + 1 = x
    OBVIOUS
  <1>5. <<x - 1, x>> \in R
    BY <1>4
  <1>6. x - 1 \in S
    BY <1>3, <1>4, <1>5
  <1> QED
    BY <1>4, <1>6

-----------------------------------------------------------------------------
(* The columns of a schema                                                 *)

\* The length of a sequence of anything.
LEMMA SeqLen ==
    ASSUME NEW s, IsSeq(s)
    PROVE  Len(s) \in Nat /\ DOMAIN s = 1 .. Len(s)
  <1>1. PICK S : s \in Seq(S)
    BY DEF IsSeq
  <1> QED
    BY <1>1

\* A function on 1 .. n is a sequence.
LEMMA MadeSeq ==
    ASSUME NEW n \in Nat, NEW f, f = [k \in 1 .. n |-> f[k]]
    PROVE  IsSeq(f) /\ Len(f) = n
  <1> DEFINE S == {f[k] : k \in 1 .. n}
  <1>1. f \in [1 .. n -> S]
    OBVIOUS
  <1>2. f \in Seq(S)
    BY <1>1, SeqDef
  <1>3. Len(f) = n
    BY <1>1, <1>2
  <1> QED
    BY <1>2, <1>3 DEF IsSeq

\* Sequences with the same entries are the same.
LEMMA SameSeq ==
    ASSUME NEW s, IsSeq(s), NEW t, IsSeq(t), Len(s) = Len(t),
           \A k \in 1 .. Len(s) : s[k] = t[k]
    PROVE  s = t
  <1>1. PICK S : s \in Seq(S)
    BY DEF IsSeq
  <1>2. PICK T : t \in Seq(T)
    BY DEF IsSeq
  <1>3. s \in Seq(S \cup T) /\ t \in Seq(S \cup T)
    BY <1>1, <1>2
  <1> QED
    BY <1>3, SeqEqual

\* A column is its name and its type.
IsCol(x) == x = [name |-> x.name, type |-> x.type]

\* The columns a schema has.
Having(s) == {s[k].name : k \in 1 .. Len(s)}

LEMMA HavingAppend ==
    ASSUME NEW s, IsSeq(s), NEW x
    PROVE  Having(Append(s, x)) = Having(s) \cup {x.name}
  <1> DEFINE t == Append(s, x)
  <1>1. /\ Len(t) = Len(s) + 1 /\ Len(s) \in Nat
        /\ \A k \in 1 .. Len(s) : t[k] = s[k]
        /\ t[Len(s) + 1] = x
    BY SeqAppend
  <1> HIDE DEF t
  <1>2. 1 .. Len(t) = 1 .. Len(s) \cup {Len(s) + 1}
    BY <1>1
  <1>3. Having(t) = Having(s) \cup {x.name}
    BY <1>1, <1>2 DEF Having
  <1> QED
    BY <1>3 DEF t

\* What an insertion leaves, and that nothing behind it matters.
LEMMA InsertSeq ==
    ASSUME NEW s, IsSeq(s), NEW at \in 0 .. Len(s), NEW x
    PROVE  /\ IsSeq(Insert(s, at, x)) /\ Len(Insert(s, at, x)) = Len(s) + 1
           /\ \A k \in 1 .. at : Insert(s, at, x)[k] = s[k]
           /\ Insert(s, at, x)[at + 1] = x
           /\ \A k \in at + 1 .. Len(s) : Insert(s, at, x)[k + 1] = s[k]
  <1>1. PICK S : s \in Seq(S)
    BY DEF IsSeq
  <1> DEFINE T == S \cup {x}
             a == SubSeq(s, 1, at)
             b == <<x>>
             c == SubSeq(s, at + 1, Len(s))
             ab == a \o b
  <1>2. s \in Seq(T) /\ Len(s) \in Nat /\ b \in Seq(T) /\ Len(b) = 1 /\ b[1] = x
    BY <1>1
  <1>3. a \in Seq(T) /\ Len(a) = at /\ \A k \in 1 .. at : a[k] = s[k]
    BY <1>2
  <1>4. c \in Seq(T) /\ Len(c) = Len(s) - at
        /\ \A k \in 1 .. Len(s) - at : c[k] = s[at + k]
    BY <1>2
  <1> HIDE DEF a, b, c
  <1>5. /\ ab \in Seq(T) /\ Len(ab) = at + 1
        /\ \A k \in 1 .. at + 1 : ab[k] = IF k <= at THEN a[k] ELSE b[k - at]
    <2> HIDE DEF T
    <2>1. /\ a \o b \in Seq(T) /\ Len(a \o b) = Len(a) + Len(b)
          /\ \A k \in 1 .. Len(a) + Len(b) :
                 (a \o b)[k] = IF k <= Len(a) THEN a[k] ELSE b[k - Len(a)]
      BY <1>2, <1>3, ConcatProperties
    <2> QED
      BY <1>2, <1>3, <2>1
  <1>6. ab[at + 1] = x /\ \A k \in 1 .. at : ab[k] = s[k]
    BY <1>2, <1>3, <1>5
  <1> HIDE DEF ab
  <1>7. /\ ab \o c \in Seq(T) /\ Len(ab \o c) = Len(s) + 1
        /\ \A k \in 1 .. Len(s) + 1 :
               (ab \o c)[k] = IF k <= at + 1 THEN ab[k] ELSE c[k - (at + 1)]
    BY <1>2, <1>4, <1>5, ConcatProperties
  <1>8. Insert(s, at, x) = ab \o c
    BY DEF Insert, a, b, c, ab
  <1>9. \A k \in at + 1 .. Len(s) : (ab \o c)[k + 1] = s[k]
    <2> TAKE k \in at + 1 .. Len(s)
    <2>1. k + 1 \in 1 .. Len(s) + 1 /\ ~ (k + 1 <= at + 1) /\ (k + 1) - (at + 1) = k - at
          /\ k - at \in 1 .. Len(s) - at /\ at + (k - at) = k
      BY <1>2
    <2> QED
      BY <1>4, <1>7, <2>1
  <1>10. \A k \in 1 .. at + 1 : (ab \o c)[k] = ab[k]
    BY <1>2, <1>7
  <1>11. at + 1 \in 1 .. at + 1 /\ \A k \in 1 .. at : k \in 1 .. at + 1
    OBVIOUS
  <1> QED
    BY <1>6, <1>7, <1>8, <1>9, <1>10, <1>11 DEF IsSeq

-----------------------------------------------------------------------------
(* The columns behind each operator                                        *)

\* The columns of a batch behind operator n, from those in front of it.
After(n, cols) ==
    CASE n.op \in {"AddCol", "AddCase"} ->
             Insert(cols, n.at, [name |-> n.name, type |-> n.type])
      [] n.op = "As" -> [i \in DOMAIN cols |-> RenamedCol(n, cols[i])]
      [] n.op = "Aggregate" -> GroupCols(n, KeyTypes(n, [cols |-> cols]))
      [] OTHER -> cols

\* What may read a row for operator n.
Parts(n) ==
    CASE n.op = "Filter" -> {n}
      [] n.op = "AddCol" -> {n.expr}
      [] n.op = "AddCase" -> {n, n.then, n.else}
      [] n.op = "Aggregate" -> {n.aggs[a] : a \in 1 .. Len(n.aggs)}
      [] OTHER -> {}

\* r reads no column, or one that is there and has the type r takes.
Reading(r, cols) ==
    r.id = 0 \/ (r.id \in 1 .. Len(cols) /\ cols[r.id].type = r.takes)

\* Operator n finds all the columns it uses, each of the type it takes.
Fits(n, cols) ==
    /\ n.op \in {"AddCol", "AddCase"} => n.at \in 0 .. Len(cols)
    /\ \A r \in Parts(n) : Reading(r, cols)
    /\ n.op = "AddCase" => n.then.type = n.type /\ n.else.type = n.type
    /\ n.op = "Aggregate" =>
           IsSeq(n.ids) /\ \A k \in 1 .. Len(n.ids) : n.ids[k] \in 1 .. Len(cols)
    /\ n.op \in {"Sort", "TopK"} => n.id \in 0 .. Len(cols)
    /\ n.op = "TopK" => n.id2 \in 0 .. Len(cols)

\* L is the columns in front of the chain pl and behind each of its operators,
\* which fit them.
Layers(pl, L) ==
    /\ \A k \in 0 .. Len(pl) : IsSeq(L[k])
    /\ \A k \in 1 .. Len(pl) : L[k] = After(pl[k], L[k - 1]) /\ Fits(pl[k], L[k - 1])

\* The chain pl turns the columns s into the columns t.
Turns(pl, s, t) == \E L : Layers(pl, L) /\ L[0] = s /\ L[Len(pl)] = t

\* There is an aggregation in the chain pl.
Grouping(pl) == \E k \in 1 .. Len(pl) : pl[k].op = "Aggregate"

\* A column at the end does not change where one is inserted, or what is renamed.
LEMMA AppendInsert ==
    ASSUME NEW s, IsSeq(s), NEW at \in 0 .. Len(s), NEW x, NEW y
    PROVE  Insert(Append(s, y), at, x) = Append(Insert(s, at, x), y)
  <1> DEFINE sy == Append(s, y)
             u == Insert(s, at, x)
             v == Insert(sy, at, x)
             w == Append(u, y)
  <1>1. /\ IsSeq(sy) /\ Len(sy) = Len(s) + 1 /\ Len(s) \in Nat
        /\ \A k \in 1 .. Len(s) : sy[k] = s[k]
        /\ sy[Len(s) + 1] = y
    BY SeqAppend
  <1>2. /\ IsSeq(u) /\ Len(u) = Len(s) + 1
        /\ \A k \in 1 .. at : u[k] = s[k]
        /\ u[at + 1] = x
        /\ \A k \in at + 1 .. Len(s) : u[k + 1] = s[k]
    BY InsertSeq
  <1> HIDE DEF sy, u
  <1>3. /\ IsSeq(v) /\ Len(v) = Len(s) + 2
        /\ \A k \in 1 .. at : v[k] = sy[k]
        /\ v[at + 1] = x
        /\ \A k \in at + 1 .. Len(s) + 1 : v[k + 1] = sy[k]
    <2>1. at \in 0 .. Len(sy)
      BY <1>1
    <2>2. /\ IsSeq(v) /\ Len(v) = Len(sy) + 1
          /\ \A k \in 1 .. at : v[k] = sy[k]
          /\ v[at + 1] = x
          /\ \A k \in at + 1 .. Len(sy) : v[k + 1] = sy[k]
      BY <1>1, <2>1, InsertSeq
    <2> QED
      BY <1>1, <2>2
  <1>4. /\ IsSeq(w) /\ Len(w) = Len(s) + 2
        /\ \A k \in 1 .. Len(s) + 1 : w[k] = u[k]
        /\ w[Len(s) + 2] = y
    <2>1. /\ IsSeq(w) /\ Len(w) = Len(u) + 1
          /\ \A k \in 1 .. Len(u) : w[k] = u[k]
          /\ w[Len(u) + 1] = y
      BY <1>2, SeqAppend
    <2> QED
      BY <1>1, <1>2, <2>1
  <1> HIDE DEF v, w
  <1>5. ASSUME NEW k \in 1 .. Len(s) + 2 PROVE v[k] = w[k]
    <2>1. CASE k \in 1 .. at
      BY <1>1, <1>2, <1>3, <1>4, <2>1
    <2>2. CASE k = at + 1
      BY <1>1, <1>2, <1>3, <1>4, <2>2
    <2>3. CASE k \in at + 2 .. Len(s) + 1
      <3>1. PICK j \in at + 1 .. Len(s) : j + 1 = k
        BY <1>1, <2>3
      <3>2. v[j + 1] = sy[j] /\ u[j + 1] = s[j] /\ sy[j] = s[j] /\ w[k] = u[k]
        BY <1>1, <1>2, <1>3, <1>4, <2>3
      <3> QED
        BY <3>1, <3>2
    <2>4. CASE k = Len(s) + 2
      <3>1. PICK j \in at + 1 .. Len(s) + 1 : j = Len(s) + 1 /\ j + 1 = k
        BY <1>1, <2>4
      <3> QED
        BY <1>1, <1>3, <1>4, <2>4, <3>1
    <2> QED
      BY <1>1, <2>1, <2>2, <2>3, <2>4
  <1>6. v = w
    BY <1>3, <1>4, <1>5, SameSeq
  <1> QED
    BY <1>6 DEF v, w, u, sy

LEMMA AppendRenamed ==
    ASSUME NEW s, IsSeq(s), NEW n, NEW y, y.name # n.from
    PROVE  LET F(cols) == [i \in DOMAIN cols |-> RenamedCol(n, cols[i])]
           IN  F(Append(s, y)) = Append(F(s), y) /\ IsSeq(F(s))
  <1> DEFINE F(cols) == [i \in DOMAIN cols |-> RenamedCol(n, cols[i])]
             sy == Append(s, y)
             u == F(s)
             v == F(sy)
             w == Append(u, y)
  <1>1. /\ IsSeq(sy) /\ Len(sy) = Len(s) + 1 /\ Len(s) \in Nat
        /\ \A k \in 1 .. Len(s) : sy[k] = s[k]
        /\ sy[Len(s) + 1] = y
    BY SeqAppend
  <1>2. DOMAIN s = 1 .. Len(s) /\ DOMAIN sy = 1 .. Len(s) + 1
    <2> HIDE DEF sy
    <2> QED
      BY <1>1, SeqLen
  <1> HIDE DEF sy
  <1>3. u = [k \in 1 .. Len(s) |-> u[k]] /\ v = [k \in 1 .. Len(s) + 1 |-> v[k]]
    BY <1>2
  <1>4. /\ \A k \in 1 .. Len(s) : u[k] = RenamedCol(n, s[k])
        /\ \A k \in 1 .. Len(s) + 1 : v[k] = RenamedCol(n, sy[k])
    BY <1>2
  <1>10. RenamedCol(n, y) = y
    BY DEF RenamedCol
  <1> HIDE DEF u, v
  <1>5. IsSeq(u) /\ IsSeq(v) /\ Len(u) = Len(s) /\ Len(v) = Len(s) + 1
    BY <1>1, <1>3, MadeSeq
  <1>6. /\ IsSeq(w) /\ Len(w) = Len(s) + 1
        /\ \A k \in 1 .. Len(s) : w[k] = u[k]
        /\ w[Len(s) + 1] = y
    BY <1>5, SeqAppend
  <1> HIDE DEF w
  <1>7. ASSUME NEW k \in 1 .. Len(s) + 1 PROVE v[k] = w[k]
    <2>1. k \in 1 .. Len(s) \/ k = Len(s) + 1
      BY <1>1
    <2> QED
      BY <1>1, <1>4, <1>6, <1>10, <2>1
  <1>8. v = w
    BY <1>5, <1>6, <1>7, SameSeq
  <1>9. F(sy) = Append(F(s), y) /\ IsSeq(F(s))
    BY <1>5, <1>8 DEF u, v, w
  <1> QED
    BY <1>9 DEF sy

\* A column at the end of those in front of an operator is at the end of those
\* behind it, unless it is renamed or the operator groups.
LEMMA AfterAppend ==
    ASSUME NEW n, NEW s, IsSeq(s), NEW y,
           n.op # "Aggregate",
           n.op = "As" => n.from # y.name,
           n.op \in {"AddCol", "AddCase"} => n.at \in 0 .. Len(s)
    PROVE  After(n, Append(s, y)) = Append(After(n, s), y)
  <1>1. CASE n.op \in {"AddCol", "AddCase"}
    BY <1>1, AppendInsert DEF After
  <1>2. CASE n.op = "As"
    <2>1. n.op \notin {"AddCol", "AddCase"}
      BY <1>2
    <2> QED
      BY <1>2, <2>1, AppendRenamed DEF After
  <1>3. CASE n.op \notin {"AddCol", "AddCase", "As", "Aggregate"}
    BY <1>3 DEF After
  <1> QED
    BY <1>1, <1>2, <1>3

\* An operator fits as before when there is one more column at the end, and a
\* grouping takes no notice of it.
LEMMA FitsAppend ==
    ASSUME NEW n, NEW s, IsSeq(s), Fits(n, s), NEW y
    PROVE  /\ Fits(n, Append(s, y))
           /\ n.op = "Aggregate" => After(n, Append(s, y)) = After(n, s)
  <1>1. PICK t : t = Append(s, y)
    OBVIOUS
  <1>2. PICK a \in Nat : a = Len(s)
    BY SeqLen
  <1>3. Len(t) = a + 1 /\ \A k \in 1 .. a : t[k] = s[k]
    BY <1>1, <1>2, SeqAppend
  <1>4. /\ \A k \in 1 .. a : k \in 1 .. a + 1
        /\ \A k \in 0 .. a : k \in 0 .. a + 1
    OBVIOUS
  <1>5. \A r \in Parts(n) : Reading(r, t)
    BY <1>2, <1>3, <1>4 DEF Fits, Reading
  <1>6. Fits(n, t)
    BY <1>2, <1>3, <1>4, <1>5 DEF Fits
  <1>7. ASSUME n.op = "Aggregate" PROVE After(n, t) = After(n, s)
    <2>1. KeyTypes(n, [cols |-> t]) = KeyTypes(n, [cols |-> s])
      <3>1. \A k \in 1 .. Len(n.ids) : t[n.ids[k]] = s[n.ids[k]]
        BY <1>2, <1>3, <1>7 DEF Fits
      <3> QED
        BY <3>1 DEF KeyTypes
    <2> QED
      BY <1>7, <2>1 DEF After
  <1> QED
    BY <1>1, <1>6, <1>7

\* So is it at the end of the chain.
LEMMA TurnsAppend ==
    ASSUME NEW pl, Len(pl) \in Nat, NEW s, NEW t, Turns(pl, s, t), NEW y,
           \A k \in 1 .. Len(pl) : pl[k].op = "As" => pl[k].from # y.name
    PROVE  Turns(pl, Append(s, y), IF Grouping(pl) THEN t ELSE Append(t, y))
  <1>1. PICK L : Layers(pl, L) /\ L[0] = s /\ L[Len(pl)] = t
    BY DEF Turns
  <1> DEFINE Grouped(k) == \E j \in 1 .. k : pl[j].op = "Aggregate"
             M == [k \in 0 .. Len(pl) |-> IF Grouped(k) THEN L[k] ELSE Append(L[k], y)]
  <1>2. ASSUME NEW k \in 0 .. Len(pl) PROVE IsSeq(M[k]) /\ IsSeq(L[k])
    BY <1>1, <1>2, SeqAppend DEF Layers
  <1>3. ASSUME NEW k \in 1 .. Len(pl)
        PROVE  M[k] = After(pl[k], M[k - 1]) /\ Fits(pl[k], M[k - 1])
    <2>1. /\ L[k] = After(pl[k], L[k - 1]) /\ IsSeq(L[k - 1])
          /\ Fits(pl[k], L[k - 1])
          /\ k - 1 \in 0 .. Len(pl) /\ k \in 0 .. Len(pl)
      BY <1>1, <1>2, <1>3 DEF Layers
    <2>2. /\ Fits(pl[k], Append(L[k - 1], y))
          /\ pl[k].op = "Aggregate" => After(pl[k], Append(L[k - 1], y)) = After(pl[k], L[k - 1])
      BY <2>1, FitsAppend
    <2>3. M[k] = IF Grouped(k) THEN L[k] ELSE Append(L[k], y)
      BY <2>1
    <2>4. M[k - 1] = IF Grouped(k - 1) THEN L[k - 1] ELSE Append(L[k - 1], y)
      BY <2>1
    <2>5. Grouped(k) <=> Grouped(k - 1) \/ pl[k].op = "Aggregate"
      <3>1. 1 .. k = (1 .. k - 1) \cup {k}
        BY <1>3
      <3> QED
        BY <3>1
    <2> HIDE DEF Grouped, M
    <2>6. CASE Grouped(k - 1)
      BY <2>1, <2>3, <2>4, <2>5, <2>6
    <2>7. CASE ~ Grouped(k - 1) /\ pl[k].op = "Aggregate"
      BY <2>1, <2>2, <2>3, <2>4, <2>5, <2>7
    <2>8. CASE ~ Grouped(k - 1) /\ pl[k].op # "Aggregate"
      <3>1. M[k] = Append(After(pl[k], L[k - 1]), y) /\ M[k - 1] = Append(L[k - 1], y)
        BY <2>1, <2>3, <2>4, <2>5, <2>8
      <3>2. After(pl[k], Append(L[k - 1], y)) = Append(After(pl[k], L[k - 1]), y)
        BY <1>3, <2>1, <2>8, AfterAppend DEF Fits
      <3> QED
        BY <2>2, <3>1, <3>2
    <2> QED
      BY <2>6, <2>7, <2>8
  <1>4. M[0] = Append(s, y)
    <2>1. ~ Grouped(0) /\ 0 \in 0 .. Len(pl)
      OBVIOUS
    <2> QED
      BY <1>1, <2>1
  <1>5. M[Len(pl)] = IF Grouping(pl) THEN t ELSE Append(t, y)
    <2>1. Len(pl) \in 0 .. Len(pl)
      OBVIOUS
    <2> QED
      BY <1>1, <2>1 DEF Grouping
  <1> HIDE DEF M
  <1>6. Layers(pl, M)
    BY <1>2, <1>3 DEF Layers
  <1> QED
    BY <1>4, <1>5, <1>6 DEF Turns

\* One more operator.
LEMMA TurnsMore ==
    ASSUME NEW pl, IsSeq(pl), NEW s, NEW t, Turns(pl, s, t), NEW n,
           IsSeq(After(n, t)), Fits(n, t)
    PROVE  Turns(Append(pl, n), s, After(n, t))
  <1>1. PICK L : Layers(pl, L) /\ L[0] = s /\ L[Len(pl)] = t
    BY DEF Turns
  <1> DEFINE q == Append(pl, n)
             M == [k \in 0 .. Len(pl) + 1 |-> IF k = Len(pl) + 1 THEN After(n, t) ELSE L[k]]
  <1>2. /\ IsSeq(q) /\ Len(q) = Len(pl) + 1 /\ Len(pl) \in Nat
        /\ \A k \in 1 .. Len(pl) : q[k] = pl[k]
        /\ q[Len(pl) + 1] = n
    BY SeqAppend
  <1>3. /\ M[Len(pl) + 1] = After(n, t)
        /\ \A k \in 0 .. Len(pl) : M[k] = L[k]
    BY <1>2
  <1> HIDE DEF q, M
  <1>4. Layers(q, M)
    <2>1. ASSUME NEW k \in 0 .. Len(q) PROVE IsSeq(M[k])
      <3>1. k \in 0 .. Len(pl) \/ k = Len(pl) + 1
        BY <1>2
      <3> QED
        BY <1>1, <1>3, <3>1 DEF Layers
    <2>2. ASSUME NEW k \in 1 .. Len(q)
          PROVE  M[k] = After(q[k], M[k - 1]) /\ Fits(q[k], M[k - 1])
      <3>1. CASE k \in 1 .. Len(pl)
        <4>1. M[k] = L[k] /\ M[k - 1] = L[k - 1] /\ q[k] = pl[k]
          BY <1>2, <1>3, <3>1
        <4> QED
          BY <1>1, <3>1, <4>1 DEF Layers
      <3>2. CASE k = Len(pl) + 1
        <4>1. k - 1 = Len(pl) /\ Len(pl) \in 0 .. Len(pl)
          BY <1>2, <3>2
        <4> QED
          BY <1>1, <1>2, <1>3, <3>2, <4>1
      <3> QED
        BY <1>2, <3>1, <3>2
    <2> QED
      BY <2>1, <2>2 DEF Layers
  <1>5. M[0] = s /\ M[Len(q)] = After(n, t)
    BY <1>1, <1>2, <1>3
  <1>6. Turns(q, s, After(n, t))
    BY <1>4, <1>5 DEF Turns
  <1> QED
    BY <1>6 DEF q

\* No operator changes no column.
LEMMA TurnsNone == ASSUME NEW s, IsSeq(s) PROVE Turns(<<>>, s, s)
  <1> DEFINE L == [k \in 0 .. 0 |-> s]
  <1>1. Layers(<<>>, L) /\ L[0] = s /\ L[Len(<<>>)] = s
    BY DEF Layers
  <1> HIDE DEF L
  <1> QED
    BY <1>1 DEF Turns

-----------------------------------------------------------------------------
(* Looking names up                                                        *)

\* The columns of the file.
Real == Meant!RealNames

LEMMA RealSchemaNames ==
    /\ IsSeq(RealSchema) /\ Len(RealSchema) \in Nat /\ Len(RealSchema) > 0
    /\ Real = Having(RealSchema)
    /\ NoCol \notin Real
    /\ \A k \in 1 .. Len(RealSchema) :
           IsCol(RealSchema[k]) /\ RealSchema[k].type \in {"int64", "string"}
  <1>1. IsSeq(RealSchema) /\ Len(RealSchema) \in Nat /\ Len(RealSchema) > 0
    <2>1. PICK S : RealSchema \in Seq(S) /\ RealSchema # <<>>
      BY SchemaAssumption
    <2>2. Len(RealSchema) \in Nat \ {0}
      BY <2>1, EmptySeq
    <2>3. IsSeq(RealSchema)
      BY <2>1 DEF IsSeq
    <2> QED
      BY <2>2, <2>3
  <1>2. Real = Having(RealSchema)
    BY DEF Real, Having, Meant!RealNames, Meant!RealCols
  <1> QED
    BY <1>1, <1>2, SchemaAssumption DEF Having, IsCol

\* A set of positions has a first one.
LEMMA FirstOne ==
    ASSUME NEW P, NEW n \in Nat, n \in P
    PROVE  \E m \in 0 .. n : m \in P /\ \A k \in 0 .. m - 1 : k \notin P
  <1> SUFFICES ASSUME \A m \in 0 .. n : m \in P => \E k \in 0 .. m - 1 : k \in P
               PROVE  FALSE
    OBVIOUS
  <1> DEFINE S == {m \in Nat : \A k \in 0 .. m : k <= n => k \notin P}
  <1>1. 0 \in S
    OBVIOUS
  <1>2. ASSUME NEW m \in Nat, m \in S PROVE m + 1 \in S
    <2>1. \A k \in 0 .. m : k <= n => k \notin P
      BY <1>2
    <2>2. m + 1 <= n => m + 1 \notin P
      <3>1. m + 1 <= n => \A k \in 0 .. (m + 1) - 1 : k \notin P
        BY <2>1
      <3> QED
        BY <3>1
    <2>3. \A k \in 0 .. m + 1 : k \in 0 .. m \/ k = m + 1
      OBVIOUS
    <2> QED
      BY <2>1, <2>2, <2>3
  <1> HIDE DEF S
  <1>3. n \in S
    BY <1>1, <1>2, SetInduction
  <1> QED
    BY <1>3 DEF S

\* IndexOf finds the name, if it is there.
LEMMA IndexOfName ==
    ASSUME NEW s, Len(s) \in Nat, NEW name
    PROVE  /\ name \in Having(s) =>
                  IndexOf(s, name) \in 1 .. Len(s) /\ s[IndexOf(s, name)].name = name
           /\ name \notin Having(s) => IndexOf(s, name) = 0
  <1>1. ASSUME name \in Having(s)
        PROVE  IndexOf(s, name) \in 1 .. Len(s) /\ s[IndexOf(s, name)].name = name
    <2>1. PICK n \in 1 .. Len(s) : s[n].name = name
      BY <1>1 DEF Having
    <2> DEFINE P == {k \in 1 .. Len(s) : s[k].name = name}
    <2>2. PICK m \in 0 .. n : m \in P /\ \A k \in 0 .. m - 1 : k \notin P
      <3>1. n \in Nat /\ n \in P
        BY <2>1
      <3> HIDE DEF P
      <3> QED
        BY <3>1, FirstOne
    <2>3. \A i \in 1 .. m - 1 : i \in 0 .. m - 1 /\ i \in 1 .. Len(s)
      BY <2>2
    <2>4. /\ m \in 1 .. Len(s) /\ s[m].name = name
          /\ \A i \in 1 .. m - 1 : s[i].name # name
      BY <2>2, <2>3
    <2> QED
      BY <2>1, <2>4 DEF IndexOf
  <1>2. ASSUME name \notin Having(s) PROVE IndexOf(s, name) = 0
    BY <1>2 DEF Having, IndexOf
  <1> QED
    BY <1>1, <1>2

\* The columns a scan reads.
ScanCols(scan) == [k \in 1 .. Len(scan) |-> RealSchema[scan[k]]]

LEMMA ScanColsAppend ==
    ASSUME NEW s, IsSeq(s), NEW x
    PROVE  /\ IsSeq(ScanCols(s))
           /\ ScanCols(Append(s, x)) = Append(ScanCols(s), RealSchema[x])
  <1> DEFINE t == Append(s, x)
             y == RealSchema[x]
             u == Append(ScanCols(s), y)
  <1>1. /\ IsSeq(t) /\ Len(t) = Len(s) + 1 /\ Len(s) \in Nat
        /\ \A k \in 1 .. Len(s) : t[k] = s[k]
        /\ t[Len(s) + 1] = x
    BY SeqAppend
  <1> HIDE DEF t
  <1>2. /\ ScanCols(s) = [k \in 1 .. Len(s) |-> ScanCols(s)[k]]
        /\ ScanCols(t) = [k \in 1 .. Len(t) |-> ScanCols(t)[k]]
    BY DEF ScanCols
  <1>3. IsSeq(ScanCols(s)) /\ IsSeq(ScanCols(t)) /\ Len(ScanCols(s)) = Len(s)
        /\ Len(ScanCols(t)) = Len(s) + 1
    BY <1>1, <1>2, MadeSeq
  <1>4. /\ IsSeq(u) /\ Len(u) = Len(s) + 1
        /\ \A k \in 1 .. Len(s) : u[k] = ScanCols(s)[k]
        /\ u[Len(s) + 1] = y
    BY <1>3, SeqAppend
  <1>5. /\ \A k \in 1 .. Len(s) : ScanCols(s)[k] = RealSchema[s[k]]
        /\ \A k \in 1 .. Len(s) + 1 : ScanCols(t)[k] = RealSchema[t[k]]
    BY <1>1 DEF ScanCols
  <1> HIDE DEF u
  <1>6. ASSUME NEW k \in 1 .. Len(s) + 1 PROVE ScanCols(t)[k] = u[k]
    <2>1. k \in 1 .. Len(s) \/ k = Len(s) + 1
      BY <1>1
    <2> QED
      BY <1>1, <1>4, <1>5, <2>1
  <1>7. ScanCols(t) = u
    BY <1>3, <1>4, <1>6, SameSeq
  <1> QED
    BY <1>3, <1>7 DEF u, t

-----------------------------------------------------------------------------
(* The layout of a query under construction                                *)

\* No two columns of a schema have one name.
Distinct(s) == \A i, j \in 1 .. Len(s) : s[i].name = s[j].name => i = j

\* The parser p of the chain pl, of a query that has the columns cols: the
\* chain turns the columns of the scan into those of cur_schema_, which are
\* the query's but for file columns not named so far; and no column that may
\* still be registered is one the chain renames.
Lay(pl, p, cols) ==
    /\ DOMAIN p = {"scan", "schema", "opts"}
    /\ IsSeq(pl) /\ IsSeq(p.scan) /\ IsSeq(p.schema)
    /\ \A k \in 1 .. Len(p.schema) : IsCol(p.schema[k])
    /\ Turns(pl, ScanCols(p.scan), p.schema)
    /\ Distinct(p.schema)
    /\ Having(p.schema) \subseteq cols
    /\ cols \subseteq Having(p.schema) \cup (IF Grouping(pl) THEN {} ELSE Real)
    /\ \A k \in 1 .. Len(pl) : pl[k].op = "As" /\ pl[k].from \in Real =>
           pl[k].from \notin cols /\ p.scan # <<>>
    /\ Having(p.schema) \cap Real # {} => p.scan # <<>>

\* A registered column is read at the end of the scan's columns and stands at the
\* end behind every operator, unless a grouping has taken the file's columns away.
LEMMA RegisterLay ==
    ASSUME NEW pl, NEW p, NEW cols, Lay(pl, p, cols),
           NEW name, name \in cols \/ name \notin Real
    PROVE  /\ Lay(pl, Register(p, name), cols)
           /\ Having(p.schema) \subseteq Having(Register(p, name).schema)
           /\ name \in cols => name \in Having(Register(p, name).schema)
  <1> DEFINE real == IndexOf(RealSchema, name)
             col == RealSchema[real]
             q == [p EXCEPT !.scan = Append(@, real), !.schema = Append(@, col)]
  <1>1. Len(p.schema) \in Nat /\ Len(pl) \in Nat
    BY SeqLen DEF Lay
  <1>2. name \in Having(p.schema) <=> IndexOf(p.schema, name) # 0
    BY <1>1, IndexOfName
  <1>3. /\ name \in Real => real \in 1 .. Len(RealSchema) /\ col.name = name
        /\ name \notin Real => real = 0
    BY RealSchemaNames, IndexOfName
  <1>4. Register(p, name) = IF IndexOf(p.schema, name) # 0 \/ real = 0 THEN p ELSE q
    BY DEF Register
  <1> HIDE DEF real, q
  <1>5. CASE IndexOf(p.schema, name) # 0 \/ real = 0
    <2>1. name \in Having(p.schema) \/ name \notin Real
      BY <1>2, <1>3, <1>5, RealSchemaNames
    <2>2. name \in cols => name \in Having(p.schema)
      BY <2>1 DEF Lay
    <2> QED
      BY <1>4, <1>5, <2>2
  <1>6. CASE ~ (IndexOf(p.schema, name) # 0 \/ real = 0)
    <2>1. /\ name \in Real /\ name \notin Having(p.schema) /\ name \in cols
          /\ real \in 1 .. Len(RealSchema) /\ col.name = name
          /\ Register(p, name) = q
      BY <1>2, <1>3, <1>4, <1>6
    <2>2. /\ DOMAIN q = {"scan", "schema", "opts"}
          /\ q.scan = Append(p.scan, real) /\ q.schema = Append(p.schema, col)
      BY DEF Lay, q
    <2>3. ~ Grouping(pl)
      BY <2>1 DEF Lay
    <2>12. IsCol(col)
      BY <2>1, RealSchemaNames
    <2>7. ScanCols(q.scan) = Append(ScanCols(p.scan), col)
      BY <2>2, ScanColsAppend DEF Lay
    <2> HIDE DEF col
    <2>4. /\ IsSeq(q.scan) /\ Len(q.scan) = Len(p.scan) + 1 /\ Len(p.scan) \in Nat
          /\ IsSeq(q.schema) /\ Len(q.schema) = Len(p.schema) + 1
          /\ \A k \in 1 .. Len(p.schema) : q.schema[k] = p.schema[k]
          /\ q.schema[Len(p.schema) + 1] = col
      BY <2>2, SeqAppend DEF Lay
    <2>5. \A k \in 1 .. Len(q.schema) : k \in 1 .. Len(p.schema) \/ k = Len(p.schema) + 1
      BY <1>1, <2>4
    <2>6. \A k \in 1 .. Len(q.schema) : IsCol(q.schema[k])
      BY <2>4, <2>5, <2>12 DEF Lay
    <2>13. Having(q.schema) = Having(p.schema) \cup {name}
      BY <2>1, <2>2, HavingAppend DEF Lay
    <2>8. Turns(pl, ScanCols(q.scan), q.schema)
      <3>1. \A k \in 1 .. Len(pl) : pl[k].op = "As" => pl[k].from # col.name
        BY <2>1 DEF Lay
      <3>2. Turns(pl, ScanCols(p.scan), p.schema)
        BY DEF Lay
      <3> QED
        BY <1>1, <2>2, <2>3, <2>7, <3>1, <3>2, TurnsAppend
    <2>9. Distinct(q.schema)
      <3>1. \A k \in 1 .. Len(p.schema) : p.schema[k].name # name
        BY <2>1 DEF Having
      <3>2. \A i, j \in 1 .. Len(p.schema) : p.schema[i].name = p.schema[j].name => i = j
        BY DEF Lay, Distinct
      <3>3. ASSUME NEW i \in 1 .. Len(q.schema), NEW j \in 1 .. Len(q.schema),
                   q.schema[i].name = q.schema[j].name
            PROVE  i = j
        <4>1. CASE i \in 1 .. Len(p.schema) /\ j \in 1 .. Len(p.schema)
          BY <2>4, <3>2, <3>3, <4>1
        <4>2. CASE i \in 1 .. Len(p.schema) /\ j = Len(p.schema) + 1
          BY <2>1, <2>4, <3>1, <3>3, <4>2
        <4>3. CASE i = Len(p.schema) + 1 /\ j \in 1 .. Len(p.schema)
          BY <2>1, <2>4, <3>1, <3>3, <4>3
        <4> QED
          BY <2>5, <4>1, <4>2, <4>3
      <3> QED
        BY <3>3 DEF Distinct
    <2>10. q.scan # <<>>
      BY <2>4
    <2>11. Lay(pl, q, cols)
      BY <2>1, <2>2, <2>4, <2>6, <2>8, <2>9, <2>10, <2>13 DEF Lay
    <2> QED
      BY <2>1, <2>11, <2>13
  <1> QED
    BY <1>5, <1>6

\* The parsers that come about as names are looked up one by one.
Registered(p, names, n, e) ==
    e = [k \in 0 .. n |-> IF k = 0 THEN p ELSE Register(e[k - 1], names[k])]

LEMMA RegisteredExist ==
    ASSUME NEW p, NEW names
    PROVE  \A n \in Nat : \E e : Registered(p, names, n, e)
  <1> DEFINE Good == {n \in Nat : \E e : Registered(p, names, n, e)}
  <1>1. 0 \in Good
    <2>1. Registered(p, names, 0, [k \in 0 .. 0 |-> p])
      BY DEF Registered
    <2> QED
      BY <2>1
  <1>2. ASSUME NEW n \in Nat, n \in Good PROVE n + 1 \in Good
    <2>1. PICK e : Registered(p, names, n, e)
      BY <1>2
    <2> DEFINE g == [k \in 0 .. n + 1 |-> IF k = n + 1 THEN Register(e[n], names[k])
                                          ELSE e[k]]
    <2>2. Registered(p, names, n + 1, g)
      <3>1. ASSUME NEW k \in 0 .. n + 1
            PROVE  g[k] = IF k = 0 THEN p ELSE Register(g[k - 1], names[k])
        <4>1. CASE k = 0
          BY <2>1, <4>1 DEF Registered
        <4>2. CASE k \in 1 .. n
          <5>1. g[k] = e[k] /\ g[k - 1] = e[k - 1]
            BY <4>2
          <5>2. e[k] = Register(e[k - 1], names[k])
            <6>1. k \in 0 .. n /\ k # 0
              BY <4>2
            <6> QED
              BY <2>1, <6>1 DEF Registered
          <5> QED
            BY <4>2, <5>1, <5>2
        <4>3. CASE k = n + 1
          <5>1. g[k] = Register(e[n], names[k]) /\ g[k - 1] = e[n]
            BY <4>3
          <5> QED
            BY <4>3, <5>1
        <4> QED
          BY <4>1, <4>2, <4>3
      <3> HIDE DEF g
      <3>2. g = [k \in 0 .. n + 1 |-> g[k]]
        BY DEF g
      <3> QED
        BY <3>1, <3>2 DEF Registered
    <2> HIDE DEF g
    <2> QED
      BY <2>2
  <1> HIDE DEF Good
  <1>3. \A n \in Nat : n \in Good
    BY <1>1, <1>2, SetInduction
  <1> QED
    BY <1>3 DEF Good

\* RegisterAll registers one name after the other.
LEMMA RegisterAllSteps ==
    ASSUME NEW p, NEW names, Len(names) \in Nat
    PROVE  \E e : /\ e[0] = p
                  /\ \A k \in 1 .. Len(names) : e[k] = Register(e[k - 1], names[k])
                  /\ RegisterAll(p, names) = e[Len(names)]
  <1> DEFINE f == CHOOSE e : Registered(p, names, Len(names), e)
  <1>1. \E e : Registered(p, names, Len(names), e)
    BY RegisteredExist
  <1>2. Registered(p, names, Len(names), f)
    BY <1>1
  <1>3. RegisterAll(p, names) = f[Len(names)]
    BY Zenon DEF RegisterAll, Registered
  <1> HIDE DEF f
  <1>4. f[0] = p
    <2>1. 0 \in 0 .. Len(names)
      OBVIOUS
    <2> QED
      BY <1>2, <2>1 DEF Registered
  <1>5. ASSUME NEW k \in 1 .. Len(names) PROVE f[k] = Register(f[k - 1], names[k])
    <2>1. k \in 0 .. Len(names) /\ k # 0
      OBVIOUS
    <2> QED
      BY <1>2, <2>1 DEF Registered
  <1> QED
    BY <1>3, <1>4, <1>5

\* Names of the query, and names of no column, are looked up.
LEMMA RegisterAllLay ==
    ASSUME NEW pl, NEW p, NEW cols, Lay(pl, p, cols),
           NEW names, Len(names) \in Nat,
           \A i \in 1 .. Len(names) : names[i] \in cols \/ names[i] \notin Real
    PROVE  /\ Lay(pl, RegisterAll(p, names), cols)
           /\ \A i \in 1 .. Len(names) :
                  names[i] \in cols => names[i] \in Having(RegisterAll(p, names).schema)
  <1>1. PICK e : /\ e[0] = p
                 /\ \A k \in 1 .. Len(names) : e[k] = Register(e[k - 1], names[k])
                 /\ RegisterAll(p, names) = e[Len(names)]
    BY RegisterAllSteps
  <1> DEFINE S == {n \in Nat : n <= Len(names) =>
                      /\ Lay(pl, e[n], cols)
                      /\ \A i \in 1 .. n : names[i] \in cols =>
                             names[i] \in Having(e[n].schema)}
  <1>2. 0 \in S
    BY <1>1
  <1>3. ASSUME NEW n \in Nat, n \in S PROVE n + 1 \in S
    <2> SUFFICES ASSUME n + 1 <= Len(names)
                 PROVE  /\ Lay(pl, e[n + 1], cols)
                        /\ \A i \in 1 .. n + 1 : names[i] \in cols =>
                               names[i] \in Having(e[n + 1].schema)
      OBVIOUS
    <2>1. /\ Lay(pl, e[n], cols) /\ n + 1 \in 1 .. Len(names)
          /\ \A i \in 1 .. n : names[i] \in cols => names[i] \in Having(e[n].schema)
      BY <1>3
    <2>2. e[n + 1] = Register(e[n], names[n + 1])
      <3>1. (n + 1) - 1 = n
        OBVIOUS
      <3> QED
        BY <1>1, <2>1, <3>1
    <2>3. /\ Lay(pl, e[n + 1], cols)
          /\ Having(e[n].schema) \subseteq Having(e[n + 1].schema)
          /\ names[n + 1] \in cols => names[n + 1] \in Having(e[n + 1].schema)
      BY <2>1, <2>2, RegisterLay
    <2>4. \A i \in 1 .. n + 1 : i \in 1 .. n \/ i = n + 1
      OBVIOUS
    <2> QED
      BY <2>1, <2>3, <2>4
  <1> HIDE DEF S
  <1>4. Len(names) \in S
    BY <1>2, <1>3, SetInduction
  <1> QED
    BY <1>1, <1>4 DEF S

-----------------------------------------------------------------------------
(* What the calls mean, one after the other                                *)

\* The meanings of the calls up to each one.
Meanings(t, cs, n, e) ==
    e = [k \in 0 .. n |-> IF k = 0 THEN Meant!WholeFile(t) ELSE Meant!Step(e[k - 1], cs[k])]

LEMMA MeaningsExist ==
    ASSUME NEW t, NEW cs
    PROVE  \A n \in Nat : \E e : Meanings(t, cs, n, e)
  <1> DEFINE Good == {n \in Nat : \E e : Meanings(t, cs, n, e)}
  <1>1. 0 \in Good
    <2>1. Meanings(t, cs, 0, [k \in 0 .. 0 |-> Meant!WholeFile(t)])
      BY DEF Meanings
    <2> QED
      BY <2>1
  <1>2. ASSUME NEW n \in Nat, n \in Good PROVE n + 1 \in Good
    <2>1. PICK e : Meanings(t, cs, n, e)
      BY <1>2
    <2> DEFINE g == [k \in 0 .. n + 1 |-> IF k = n + 1 THEN Meant!Step(e[n], cs[k])
                                          ELSE e[k]]
    <2>2. Meanings(t, cs, n + 1, g)
      <3>1. ASSUME NEW k \in 0 .. n + 1
            PROVE  g[k] = IF k = 0 THEN Meant!WholeFile(t) ELSE Meant!Step(g[k - 1], cs[k])
        <4>1. CASE k = 0
          BY <2>1, <4>1 DEF Meanings
        <4>2. CASE k \in 1 .. n
          <5>1. g[k] = e[k] /\ g[k - 1] = e[k - 1]
            BY <4>2
          <5>2. e[k] = Meant!Step(e[k - 1], cs[k])
            <6>1. k \in 0 .. n /\ k # 0
              BY <4>2
            <6> QED
              BY <2>1, <6>1 DEF Meanings
          <5> QED
            BY <4>2, <5>1, <5>2
        <4>3. CASE k = n + 1
          <5>1. g[k] = Meant!Step(e[n], cs[k]) /\ g[k - 1] = e[n]
            BY <4>3
          <5> QED
            BY <4>3, <5>1
        <4> QED
          BY <4>1, <4>2, <4>3
      <3> HIDE DEF g
      <3>2. g = [k \in 0 .. n + 1 |-> g[k]]
        BY DEF g
      <3> QED
        BY <3>1, <3>2 DEF Meanings
    <2> HIDE DEF g
    <2> QED
      BY <2>2
  <1> HIDE DEF Good
  <1>3. \A n \in Nat : n \in Good
    BY <1>1, <1>2, SetInduction
  <1> QED
    BY <1>3 DEF Good

\* Meaning takes one call after the other.
LEMMA MeaningSteps ==
    ASSUME NEW t, NEW cs, Len(cs) \in Nat
    PROVE  \E e : /\ e[0] = Meant!WholeFile(t)
                  /\ \A k \in 1 .. Len(cs) : e[k] = Meant!Step(e[k - 1], cs[k])
                  /\ Meant!Meaning(t, cs) = e[Len(cs)]
  <1> DEFINE f == CHOOSE e : Meanings(t, cs, Len(cs), e)
  <1>1. \E e : Meanings(t, cs, Len(cs), e)
    BY MeaningsExist
  <1>2. Meanings(t, cs, Len(cs), f)
    BY <1>1
  <1>3. Meant!Meaning(t, cs) = f[Len(cs)]
    BY Zenon DEF Meant!Meaning, Meanings
  <1> HIDE DEF f
  <1>4. f[0] = Meant!WholeFile(t)
    <2>1. 0 \in 0 .. Len(cs)
      OBVIOUS
    <2> QED
      BY <1>2, <2>1 DEF Meanings
  <1>5. ASSUME NEW k \in 1 .. Len(cs) PROVE f[k] = Meant!Step(f[k - 1], cs[k])
    <2>1. k \in 0 .. Len(cs) /\ k # 0
      OBVIOUS
    <2> QED
      BY <1>2, <2>1 DEF Meanings
  <1> QED
    BY <1>3, <1>4, <1>5

LEMMA MeaningNone == ASSUME NEW t PROVE Meant!Meaning(t, <<>>) = Meant!WholeFile(t)
  <1>1. Len(<<>>) = 0
    OBVIOUS
  <1> QED
    BY <1>1, MeaningSteps

\* A call changes what the calls before it mean.
LEMMA MeaningMore ==
    ASSUME NEW t, NEW cs, IsSeq(cs), NEW c
    PROVE  Meant!Meaning(t, Append(cs, c)) = Meant!Step(Meant!Meaning(t, cs), c)
  <1> DEFINE ds == Append(cs, c)
  <1>1. /\ IsSeq(ds) /\ Len(ds) = Len(cs) + 1 /\ Len(cs) \in Nat
        /\ \A k \in 1 .. Len(cs) : ds[k] = cs[k]
        /\ ds[Len(cs) + 1] = c
    BY SeqAppend
  <1> HIDE DEF ds
  <1>2. PICK e : /\ e[0] = Meant!WholeFile(t)
                 /\ \A k \in 1 .. Len(cs) : e[k] = Meant!Step(e[k - 1], cs[k])
                 /\ Meant!Meaning(t, cs) = e[Len(cs)]
    BY <1>1, MeaningSteps
  <1>3. PICK f : /\ f[0] = Meant!WholeFile(t)
                 /\ \A k \in 1 .. Len(ds) : f[k] = Meant!Step(f[k - 1], ds[k])
                 /\ Meant!Meaning(t, ds) = f[Len(ds)]
    <2>1. Len(ds) \in Nat
      BY <1>1
    <2> QED
      BY <2>1, MeaningSteps
  <1> DEFINE S == {n \in Nat : n <= Len(cs) => f[n] = e[n]}
  <1>4. 0 \in S
    BY <1>2, <1>3
  <1>5. ASSUME NEW n \in Nat, n \in S PROVE n + 1 \in S
    <2> SUFFICES ASSUME n + 1 <= Len(cs) PROVE f[n + 1] = e[n + 1]
      OBVIOUS
    <2>1. /\ n + 1 \in 1 .. Len(cs) /\ n + 1 \in 1 .. Len(ds) /\ (n + 1) - 1 = n
          /\ f[n] = e[n]
      BY <1>1, <1>5
    <2>2. e[n + 1] = Meant!Step(e[n], cs[n + 1])
      BY <1>2, <2>1
    <2>3. f[n + 1] = Meant!Step(f[n], ds[n + 1])
      BY <1>3, <2>1
    <2> QED
      BY <1>1, <2>1, <2>2, <2>3
  <1> HIDE DEF S
  <1>6. f[Len(cs)] = e[Len(cs)]
    <2>1. Len(cs) \in S
      BY <1>1, <1>4, <1>5, SetInduction
    <2> QED
      BY <1>1, <2>1 DEF S
  <1>7. Meant!Meaning(t, ds) = Meant!Step(f[Len(cs)], c)
    <2>1. Len(ds) \in 1 .. Len(ds) /\ Len(ds) - 1 = Len(cs)
      BY <1>1
    <2> QED
      BY <1>1, <1>3, <2>1
  <1> QED
    BY <1>2, <1>6, <1>7 DEF ds

\* The fields of what a query means.
IsMeaning(q) == DOMAIN q = {"lists", "cols", "made", "shown", "sensible", "strings"}

LEMMA WholeFileMeaning ==
    ASSUME NEW t
    PROVE  /\ IsMeaning(Meant!WholeFile(t))
           /\ Meant!WholeFile(t).cols = Real
  BY DEF IsMeaning, Real, Meant!WholeFile

\* The columns behind each call.
ColsAfter(cols, c) ==
    CASE c.fn = "Case" -> cols \cup {c.name}
      [] c.fn = "Add" -> cols \cup {c.expr.name}
      [] c.fn = "GroupBy" -> Meant!ToNames(c.cols) \cup Meant!AggNames(c.aggs)
      [] c.fn = "Rename" -> {Meant!RenamedTo(c, n) : n \in cols}
      [] OTHER -> cols

Fns == {"Where", "Case", "Add", "GroupBy", "Count", "OrderBy", "Limit", "Offset",
        "Rename", "Select"}

LEMMA ThenCols ==
    ASSUME NEW q, IsMeaning(q), NEW c, c.fn \in Fns
    PROVE  /\ IsMeaning(Meant!Then(q, c))
           /\ Meant!Then(q, c).sensible = q.sensible
           /\ c.fn # "Count" => Meant!Then(q, c).cols = ColsAfter(q.cols, c)
  <1>1. CASE c.fn = "Case"
    BY <1>1 DEF IsMeaning, ColsAfter, Meant!Then, Meant!WithColumn
  <1>2. CASE c.fn = "Add"
    BY <1>2 DEF IsMeaning, ColsAfter, Meant!Then, Meant!WithColumn
  <1>3. CASE c.fn = "GroupBy"
    BY <1>3 DEF IsMeaning, ColsAfter, Meant!Then, Meant!Grouped
  <1>4. CASE c.fn = "Count"
    BY <1>4 DEF IsMeaning, ColsAfter, Meant!Then, Meant!Grouped
  <1>5. CASE c.fn = "Rename"
    BY <1>5 DEF IsMeaning, ColsAfter, Meant!Then
  <1>6. CASE c.fn = "Where"
    BY <1>6 DEF IsMeaning, ColsAfter, Meant!Then
  <1>7. CASE c.fn = "OrderBy"
    BY <1>7 DEF IsMeaning, ColsAfter, Meant!Then
  <1>8. CASE c.fn = "Limit"
    BY <1>8 DEF IsMeaning, ColsAfter, Meant!Then
  <1>9. CASE c.fn = "Offset"
    BY <1>9 DEF IsMeaning, ColsAfter, Meant!Then
  <1>10. CASE c.fn = "Select"
    BY <1>10 DEF IsMeaning, ColsAfter, Meant!Then
  <1> QED
    BY <1>1, <1>2, <1>3, <1>4, <1>5, <1>6, <1>7, <1>8, <1>9, <1>10 DEF Fns

\* What a call that makes sense does to the columns.
LEMMA StepCols ==
    ASSUME NEW q, IsMeaning(q), NEW c, c.fn \in Fns
    PROVE  /\ IsMeaning(Meant!Step(q, c))
           /\ Meant!Step(q, c).sensible =>
                  /\ q.sensible /\ Meant!Sensible(q, c)
                  /\ c.fn # "Count" => Meant!Step(q, c).cols = ColsAfter(q.cols, c)
  <1>1. CASE Meant!Sensible(q, c)
    BY <1>1, ThenCols DEF Meant!Step, Meant!Sensible
  <1>2. CASE ~ Meant!Sensible(q, c)
    BY <1>2 DEF Meant!Step, IsMeaning
  <1> QED
    BY <1>1, <1>2

-----------------------------------------------------------------------------
(* What one more operator does to the layout                               *)

\* One more operator, with the parser brought up to date.
LEMMA LayMore ==
    ASSUME NEW pl, NEW p, NEW cols, Lay(pl, p, cols),
           NEW n, NEW q, NEW cols2,
           DOMAIN q = {"scan", "schema", "opts"}, q.scan = p.scan,
           IsSeq(q.schema), \A k \in 1 .. Len(q.schema) : IsCol(q.schema[k]),
           q.schema = After(n, p.schema),
           Fits(n, p.schema),
           Distinct(q.schema),
           Having(q.schema) \subseteq cols2,
           cols2 \subseteq Having(q.schema) \cup
               (IF Grouping(pl) \/ n.op = "Aggregate" THEN {} ELSE Real),
           cols2 \cap Real \subseteq cols,
           n.op = "As" /\ n.from \in Real => n.from \notin cols2 /\ p.scan # <<>>,
           Having(q.schema) \cap Real \subseteq Having(p.schema)
    PROVE  Lay(Append(pl, n), q, cols2)
  <1> DEFINE r == Append(pl, n)
  <1>1. /\ IsSeq(r) /\ Len(r) = Len(pl) + 1 /\ Len(pl) \in Nat
        /\ \A k \in 1 .. Len(pl) : r[k] = pl[k]
        /\ r[Len(pl) + 1] = n
    BY SeqAppend DEF Lay
  <1>2. Turns(r, ScanCols(q.scan), q.schema)
    <2>1. IsSeq(After(n, p.schema))
      OBVIOUS
    <2>2. IsSeq(pl) /\ Turns(pl, ScanCols(p.scan), p.schema)
      BY DEF Lay
    <2> QED
      BY <2>1, <2>2, TurnsMore
  <1> HIDE DEF r
  <1>3. \A k \in 1 .. Len(r) : k \in 1 .. Len(pl) \/ k = Len(pl) + 1
    BY <1>1
  <1>4. Grouping(r) <=> Grouping(pl) \/ n.op = "Aggregate"
    <2>1. \A k \in 1 .. Len(pl) : k \in 1 .. Len(r)
      BY <1>1
    <2>2. Len(pl) + 1 \in 1 .. Len(r)
      BY <1>1
    <2> QED
      BY <1>1, <1>3, <2>1, <2>2 DEF Grouping
  <1>5. ASSUME NEW k \in 1 .. Len(r), r[k].op = "As", r[k].from \in Real
        PROVE  r[k].from \notin cols2 /\ q.scan # <<>>
    BY <1>1, <1>3, <1>5 DEF Lay
  <1>6. Having(q.schema) \cap Real # {} => q.scan # <<>>
    BY DEF Lay
  <1>7. Lay(r, q, cols2)
    BY <1>1, <1>2, <1>4, <1>5, <1>6 DEF Lay
  <1> QED
    BY <1>7 DEF r

\* Scan options are no matter.
LEMMA LayOptions ==
    ASSUME NEW pl, NEW p, NEW cols, Lay(pl, p, cols),
           NEW q, DOMAIN q = DOMAIN p, q.scan = p.scan, q.schema = p.schema
    PROVE  Lay(pl, q, cols)
  BY DEF Lay

\* An operator that leaves the columns alone.
LEMMA LayPlain ==
    ASSUME NEW pl, NEW p, NEW cols, Lay(pl, p, cols),
           NEW n, n.op \notin {"AddCol", "AddCase", "As", "Aggregate"},
           Fits(n, p.schema)
    PROVE  Lay(Append(pl, n), p, cols)
  <1>1. p.schema = After(n, p.schema)
    BY DEF After
  <1> QED
    BY <1>1, LayMore DEF Lay

LEMMA InsertLast ==
    ASSUME NEW s, IsSeq(s), NEW x
    PROVE  Insert(s, Len(s), x) = Append(s, x)
  <1>1. Len(s) \in 0 .. Len(s) /\ Len(s) \in Nat
    BY SeqLen
  <1> DEFINE u == Insert(s, Len(s), x)
             v == Append(s, x)
  <1>2. /\ IsSeq(u) /\ Len(u) = Len(s) + 1
        /\ \A k \in 1 .. Len(s) : u[k] = s[k]
        /\ u[Len(s) + 1] = x
    BY <1>1, InsertSeq
  <1>3. /\ IsSeq(v) /\ Len(v) = Len(s) + 1
        /\ \A k \in 1 .. Len(s) : v[k] = s[k]
        /\ v[Len(s) + 1] = x
    BY SeqAppend
  <1> HIDE DEF u, v
  <1>4. \A k \in 1 .. Len(u) : k \in 1 .. Len(s) \/ k = Len(s) + 1
    BY <1>1, <1>2
  <1>5. u = v
    BY <1>2, <1>3, <1>4, SameSeq
  <1> QED
    BY <1>5 DEF u, v

\* A new column goes to the end.
LEMMA LayAdded ==
    ASSUME NEW pl, NEW p, NEW cols, Lay(pl, p, cols),
           NEW n, n.op \in {"AddCol", "AddCase"}, n.at = Len(p.schema),
           Fits(n, p.schema),
           n.name \notin Real, n.name \notin cols,
           NEW q, DOMAIN q = {"scan", "schema", "opts"}, q.scan = p.scan,
           q.schema = Append(p.schema, [name |-> n.name, type |-> n.type])
    PROVE  Lay(Append(pl, n), q, cols \cup {n.name})
  <1> DEFINE x == [name |-> n.name, type |-> n.type]
  <1>9. IsCol(x) /\ x.name = n.name
    BY DEF IsCol
  <1>5. q.schema = After(n, p.schema)
    <2>1. IsSeq(p.schema)
      BY DEF Lay
    <2> QED
      BY <2>1, InsertLast DEF After
  <1> HIDE DEF x
  <1>1. /\ IsSeq(q.schema) /\ Len(q.schema) = Len(p.schema) + 1 /\ Len(p.schema) \in Nat
        /\ \A k \in 1 .. Len(p.schema) : q.schema[k] = p.schema[k]
        /\ q.schema[Len(p.schema) + 1] = x
    BY SeqAppend DEF Lay, x
  <1>2. \A k \in 1 .. Len(q.schema) : k \in 1 .. Len(p.schema) \/ k = Len(p.schema) + 1
    BY <1>1
  <1>3. \A k \in 1 .. Len(q.schema) : IsCol(q.schema[k])
    BY <1>1, <1>2, <1>9 DEF Lay
  <1>4. Having(q.schema) = Having(p.schema) \cup {n.name}
    BY HavingAppend, <1>9 DEF Lay, x
  <1>6. Distinct(q.schema)
    <2>1. \A k \in 1 .. Len(p.schema) : p.schema[k].name # n.name
      BY DEF Lay, Having
    <2>2. \A i, j \in 1 .. Len(p.schema) : p.schema[i].name = p.schema[j].name => i = j
      BY DEF Lay, Distinct
    <2>3. ASSUME NEW i \in 1 .. Len(q.schema), NEW j \in 1 .. Len(q.schema),
                 q.schema[i].name = q.schema[j].name
          PROVE  i = j
      <3>1. CASE i \in 1 .. Len(p.schema) /\ j \in 1 .. Len(p.schema)
        BY <1>1, <2>2, <2>3, <3>1
      <3>2. CASE i \in 1 .. Len(p.schema) /\ j = Len(p.schema) + 1
        BY <1>1, <1>9, <2>1, <2>3, <3>2
      <3>3. CASE i = Len(p.schema) + 1 /\ j \in 1 .. Len(p.schema)
        BY <1>1, <1>9, <2>1, <2>3, <3>3
      <3> QED
        BY <1>2, <3>1, <3>2, <3>3
    <2> QED
      BY <2>3 DEF Distinct
  <1>8. /\ Having(q.schema) \subseteq cols \cup {n.name}
        /\ cols \cup {n.name} \subseteq Having(q.schema) \cup
               (IF Grouping(pl) \/ n.op = "Aggregate" THEN {} ELSE Real)
        /\ (cols \cup {n.name}) \cap Real \subseteq cols
        /\ Having(q.schema) \cap Real \subseteq Having(p.schema)
    BY <1>4 DEF Lay
  <1> QED
    BY <1>1, <1>3, <1>5, <1>6, <1>8, LayMore

\* Renaming a column.
LEMMA LayRenamed ==
    ASSUME NEW pl, NEW p, NEW cols, Lay(pl, p, cols),
           NEW from, NEW to, from \in Having(p.schema), to \notin Real, to \notin cols,
           NEW q, q = [p EXCEPT !.schema[IndexOf(p.schema, from)].name = to],
           NEW cols2, cols2 = {IF m = from THEN to ELSE m : m \in cols}
    PROVE  Lay(Append(pl, [op |-> "As", from |-> from, to |-> to]), q, cols2)
  <1> DEFINE n == [op |-> "As", from |-> from, to |-> to]
             at == IndexOf(p.schema, from)
  <1>1. /\ IsSeq(p.schema) /\ Len(p.schema) \in Nat /\ DOMAIN p.schema = 1 .. Len(p.schema)
        /\ DOMAIN p = {"scan", "schema", "opts"}
    BY SeqLen DEF Lay
  <1>2. at \in 1 .. Len(p.schema) /\ p.schema[at].name = from
    BY <1>1, IndexOfName
  <1> HIDE DEF at
  <1>3. /\ DOMAIN q = {"scan", "schema", "opts"} /\ q.scan = p.scan
        /\ q.schema = [p.schema EXCEPT ![at].name = to]
    BY <1>1 DEF at
  <1>4. /\ DOMAIN q.schema = 1 .. Len(p.schema)
        /\ \A k \in 1 .. Len(p.schema) : k # at => q.schema[k] = p.schema[k]
        /\ q.schema[at] = [p.schema[at] EXCEPT !.name = to]
    BY <1>1, <1>2, <1>3
  <1>5. IsSeq(q.schema) /\ Len(q.schema) = Len(p.schema)
    <2>1. q.schema = [k \in 1 .. Len(p.schema) |-> q.schema[k]]
      BY <1>1, <1>3
    <2> QED
      BY <1>1, <2>1, MadeSeq
  <1>6. \A i, j \in 1 .. Len(p.schema) : p.schema[i].name = p.schema[j].name => i = j
    BY DEF Lay, Distinct
  <1>17. \A k \in 1 .. Len(p.schema) : IsCol(p.schema[k])
    BY DEF Lay
  <1>18. \A x : IsCol(x) => LET y == [x EXCEPT !.name = to]
                            IN  IsCol(y) /\ y.name = to
    BY DEF IsCol
  <1> DEFINE Changed(x, y) == /\ y = RenamedCol(n, x)
                              /\ y.name = IF x.name = from THEN to ELSE x.name
                              /\ IsCol(y)
  <1>20. \A x : IsCol(x) => Changed(x, IF x.name = from THEN [x EXCEPT !.name = to] ELSE x)
    BY <1>18 DEF RenamedCol
  <1>21. ASSUME NEW k \in 1 .. Len(p.schema)
         PROVE  q.schema[k] = IF p.schema[k].name = from THEN [p.schema[k] EXCEPT !.name = to]
                              ELSE p.schema[k]
    <2>1. p.schema[k].name = from <=> k = at
      BY <1>2, <1>6
    <2> QED
      BY <1>4, <2>1
  <1>7. ASSUME NEW k \in 1 .. Len(p.schema)
        PROVE  /\ q.schema[k] = RenamedCol(n, p.schema[k])
               /\ q.schema[k].name = IF p.schema[k].name = from THEN to ELSE p.schema[k].name
               /\ IsCol(q.schema[k])
    <2>1. IsCol(p.schema[k])
      BY <1>17
    <2> HIDE DEF Changed
    <2>2. Changed(p.schema[k], q.schema[k])
      BY <1>20, <1>21, <2>1
    <2> QED
      BY <2>2 DEF Changed
  <1>8. q.schema = After(n, p.schema)
    <2>1. n.op = "As"
      OBVIOUS
    <2>2. q.schema = [k \in 1 .. Len(p.schema) |-> q.schema[k]]
      BY <1>1, <1>3
    <2> HIDE DEF n
    <2>3. After(n, p.schema) = [k \in 1 .. Len(p.schema) |-> RenamedCol(n, p.schema[k])]
      BY <1>1, <2>1 DEF After
    <2> QED
      BY <1>7, <2>2, <2>3
  <1>9. \A k \in 1 .. Len(p.schema) : p.schema[k].name \in cols
    BY DEF Lay, Having
  <1>10. Distinct(q.schema)
    BY <1>5, <1>6, <1>7, <1>9 DEF Distinct
  <1>11. Having(q.schema) = {IF m = from THEN to ELSE m : m \in Having(p.schema)}
    <2> DEFINE F(m) == IF m = from THEN to ELSE m
    <2>1. \A k \in 1 .. Len(p.schema) : q.schema[k].name = F(p.schema[k].name)
      BY <1>7
    <2> HIDE DEF F
    <2>2. Having(q.schema) = {F(m) : m \in Having(p.schema)}
      BY <1>5, <2>1 DEF Having
    <2> QED
      BY <2>2 DEF F
  <1>12. from \in Real => from \notin cols2 /\ p.scan # <<>>
    BY DEF Lay
  <1>13. \A k \in 1 .. Len(q.schema) : IsCol(q.schema[k])
    BY <1>5, <1>7
  <1>14. /\ Having(q.schema) \subseteq cols2
         /\ cols2 \subseteq Having(q.schema) \cup
                (IF Grouping(pl) \/ n.op = "Aggregate" THEN {} ELSE Real)
         /\ cols2 \cap Real \subseteq cols
         /\ Having(q.schema) \cap Real \subseteq Having(p.schema)
    BY <1>11 DEF Lay
  <1>15. n.op = "As" /\ n.from = from /\ Fits(n, p.schema)
    BY DEF Fits, Parts
  <1>16. Lay(Append(pl, n), q, cols2)
    <2> HIDE DEF n
    <2> QED
      BY <1>3, <1>5, <1>8, <1>10, <1>12, <1>13, <1>14, <1>15, LayMore
  <1> QED
    BY <1>16

\* u is s followed by t.
Joined(s, t, u) ==
    /\ IsSeq(u) /\ Len(u) = Len(s) + Len(t)
    /\ \A k \in 1 .. Len(s) : u[k] = s[k]
    /\ \A k \in 1 .. Len(t) : u[Len(s) + k] = t[k]

LEMMA SeqConcat ==
    ASSUME NEW s, IsSeq(s), NEW t, IsSeq(t)
    PROVE  Joined(s, t, s \o t)
  <1>1. PICK S : s \in Seq(S)
    BY DEF IsSeq
  <1>2. PICK T : t \in Seq(T)
    BY DEF IsSeq
  <1>3. s \in Seq(S \cup T) /\ t \in Seq(S \cup T)
    BY <1>1, <1>2
  <1>4. Len(s) \in Nat /\ Len(t) \in Nat
    BY <1>3
  <1>5. /\ s \o t \in Seq(S \cup T) /\ Len(s \o t) = Len(s) + Len(t)
        /\ \A k \in 1 .. Len(s) + Len(t) :
               (s \o t)[k] = IF k <= Len(s) THEN s[k] ELSE t[k - Len(s)]
    BY <1>3, ConcatProperties
  <1>6. ASSUME NEW k \in 1 .. Len(s) PROVE (s \o t)[k] = s[k]
    BY <1>4, <1>5
  <1>7. ASSUME NEW k \in 1 .. Len(t) PROVE (s \o t)[Len(s) + k] = t[k]
    <2>1. Len(s) + k \in 1 .. Len(s) + Len(t) /\ ~ (Len(s) + k <= Len(s))
          /\ (Len(s) + k) - Len(s) = k
      BY <1>4
    <2> QED
      BY <1>5, <2>1
  <1> QED
    BY <1>5, <1>6, <1>7 DEF IsSeq, Joined

\* A and B are the columns of aggregation n: those it groups by, which are
\* columns of p, and its aggregates, which have new names.
GroupedAs(n, p, cols, A, B) ==
    /\ n.op = "Aggregate" /\ IsSeq(n.names) /\ IsSeq(n.aggs)
    /\ Fits(n, p.schema) /\ Len(n.ids) = Len(n.names)
    /\ IsSeq(A) /\ Len(A) = Len(n.names)
    /\ IsSeq(B) /\ Len(B) = Len(n.aggs)
    /\ \A k \in 1 .. Len(n.names) :
           /\ A[k] = p.schema[n.ids[k]] /\ A[k].name = n.names[k]
           /\ n.names[k] \in Having(p.schema)
    /\ \A k \in 1 .. Len(n.aggs) :
           /\ B[k] = [name |-> n.aggs[k].name, type |-> n.aggs[k].type]
           /\ n.aggs[k].name \notin Real /\ n.aggs[k].name \notin cols
    /\ \A i, j \in 1 .. Len(n.names) : n.names[i] = n.names[j] => i = j
    /\ \A i, j \in 1 .. Len(n.aggs) : n.aggs[i].name = n.aggs[j].name => i = j

\* A grouping leaves the group columns and the aggregates.
LEMMA LayGrouped ==
    ASSUME NEW pl, NEW p, NEW cols, Lay(pl, p, cols),
           NEW n, NEW A, NEW B, GroupedAs(n, p, cols, A, B),
           NEW q, DOMAIN q = {"scan", "schema", "opts"}, q.scan = p.scan, q.schema = A \o B
    PROVE  Lay(Append(pl, n), q, {n.names[k] : k \in 1 .. Len(n.names)} \cup
                                 {n.aggs[k].name : k \in 1 .. Len(n.aggs)})
  <1>1. PICK a \in Nat, b \in Nat : a = Len(n.names) /\ b = Len(n.aggs)
    BY SeqLen DEF GroupedAs
  <1>2. PICK s : s = A \o B
    OBVIOUS
  <1> DEFINE cols2 == {n.names[k] : k \in 1 .. a} \cup {n.aggs[k].name : k \in 1 .. b}
  <1>3. /\ IsSeq(s) /\ Len(s) = a + b
        /\ \A k \in 1 .. a : s[k] = A[k]
        /\ \A k \in 1 .. b : s[a + k] = B[k]
    <2>1. IsSeq(A) /\ IsSeq(B) /\ Len(A) = a /\ Len(B) = b
      BY <1>1 DEF GroupedAs
    <2>2. Joined(A, B, s)
      BY <1>2, <2>1, SeqConcat
    <2> QED
      BY <2>1, <2>2 DEF Joined
  <1>4. ASSUME NEW k \in 1 .. a
        PROVE  /\ IsCol(s[k]) /\ s[k].name = n.names[k]
               /\ n.names[k] \in Having(p.schema)
               /\ s[k] = [name |-> n.names[k], type |-> p.schema[n.ids[k]].type]
    <2>1. /\ s[k] = p.schema[n.ids[k]] /\ s[k].name = n.names[k]
          /\ n.names[k] \in Having(p.schema)
          /\ n.ids[k] \in 1 .. Len(p.schema)
      BY <1>1, <1>3 DEF GroupedAs, Fits
    <2>2. IsCol(p.schema[n.ids[k]])
      BY <2>1 DEF Lay
    <2> QED
      BY <2>1, <2>2 DEF IsCol
  <1>5. ASSUME NEW k \in 1 .. b
        PROVE  /\ IsCol(s[a + k]) /\ s[a + k].name = n.aggs[k].name
               /\ n.aggs[k].name \notin Real /\ n.aggs[k].name \notin cols
               /\ s[a + k] = [name |-> n.aggs[k].name, type |-> n.aggs[k].type]
    <2>1. /\ s[a + k] = [name |-> n.aggs[k].name, type |-> n.aggs[k].type]
          /\ n.aggs[k].name \notin Real /\ n.aggs[k].name \notin cols
      BY <1>1, <1>3 DEF GroupedAs
    <2> QED
      BY <2>1 DEF IsCol
  <1>6. \A k \in 1 .. a + b : k \in 1 .. a \/ \E m \in 1 .. b : k = a + m
    <2> TAKE k \in 1 .. a + b
    <2>1. k \in 1 .. a \/ (k - a \in 1 .. b /\ k = a + (k - a))
      OBVIOUS
    <2> QED
      BY <2>1
  <1>7. \A k \in 1 .. Len(s) : IsCol(s[k])
    <2> TAKE k \in 1 .. Len(s)
    <2>1. k \in 1 .. a \/ \E m \in 1 .. b : k = a + m
      BY <1>3, <1>6
    <2> QED
      BY <1>4, <1>5, <2>1
  <1>8. Having(s) = cols2
    <2>1. \A k \in 1 .. a : k \in 1 .. a + b
      OBVIOUS
    <2>2. \A k \in 1 .. b : a + k \in 1 .. a + b
      OBVIOUS
    <2>3. ASSUME NEW k \in 1 .. a + b PROVE s[k].name \in cols2
      <3>1. CASE k \in 1 .. a
        BY <1>4, <3>1
      <3>2. ASSUME NEW m \in 1 .. b, k = a + m PROVE s[k].name \in cols2
        BY <1>5, <3>2
      <3> QED
        BY <1>6, <3>1, <3>2
    <2>4. ASSUME NEW k \in 1 .. a PROVE n.names[k] \in Having(s)
      BY <1>3, <1>4, <2>1 DEF Having
    <2>5. ASSUME NEW k \in 1 .. b PROVE n.aggs[k].name \in Having(s)
      BY <1>3, <1>5, <2>2 DEF Having
    <2>6. Having(s) \subseteq cols2
      BY <1>3, <2>3 DEF Having
    <2> QED
      BY <2>4, <2>5, <2>6
  <1>9. s = After(n, p.schema)
    <2> DEFINE keys == KeyTypes(n, [cols |-> p.schema])
               f == KeyCols(n, keys)
               g == AggCols(n)
    <2>1. \A k \in 1 .. a : keys[k] = p.schema[n.ids[k]].type
      BY <1>1 DEF KeyTypes, GroupedAs
    <2> HIDE DEF keys
    <2>2. /\ f = [k \in 1 .. a |-> f[k]]
          /\ \A k \in 1 .. a : f[k] = [name |-> n.names[k], type |-> p.schema[n.ids[k]].type]
      BY <1>1, <2>1 DEF KeyCols
    <2>3. /\ g = [k \in 1 .. b |-> g[k]]
          /\ \A k \in 1 .. b : g[k] = [name |-> n.aggs[k].name, type |-> n.aggs[k].type]
      BY <1>1 DEF AggCols
    <2>4. After(n, p.schema) = f \o g
      BY DEF After, GroupCols, GroupedAs, keys
    <2> HIDE DEF f, g
    <2>5. IsSeq(f) /\ Len(f) = a /\ IsSeq(g) /\ Len(g) = b
      BY <2>2, <2>3, MadeSeq
    <2>6. PICK u : u = f \o g
      OBVIOUS
    <2>7. /\ IsSeq(u) /\ Len(u) = a + b
          /\ \A k \in 1 .. a : u[k] = f[k]
          /\ \A k \in 1 .. b : u[a + k] = g[k]
      <3>1. Joined(f, g, u)
        BY <2>5, <2>6, SeqConcat
      <3> QED
        BY <2>5, <3>1 DEF Joined
    <2>8. ASSUME NEW k \in 1 .. a + b PROVE s[k] = u[k]
      <3>1. CASE k \in 1 .. a
        BY <1>4, <2>2, <2>7, <3>1
      <3>2. ASSUME NEW m \in 1 .. b, k = a + m PROVE s[k] = u[k]
        BY <1>5, <2>3, <2>7, <3>2
      <3> QED
        BY <1>6, <3>1, <3>2
    <2>9. s = u
      BY <1>3, <2>7, <2>8, SameSeq
    <2> QED
      BY <2>4, <2>6, <2>9
  <1>10. Distinct(s)
    <2>1. ASSUME NEW i \in 1 .. a + b, NEW j \in 1 .. a + b, s[i].name = s[j].name
          PROVE  i = j
      <3>1. CASE i \in 1 .. a /\ j \in 1 .. a
        <4>1. n.names[i] = n.names[j]
          BY <1>4, <2>1, <3>1
        <4> QED
          BY <1>1, <3>1, <4>1 DEF GroupedAs
      <3>2. ASSUME NEW k \in 1 .. a, NEW m \in 1 .. b
            PROVE  s[k].name # s[a + m].name
        <4>1. s[k].name \in cols /\ s[a + m].name \notin cols
          BY <1>4, <1>5 DEF Lay
        <4> QED
          BY <4>1
      <3>3. ASSUME NEW k \in 1 .. b, NEW m \in 1 .. b, i = a + k, j = a + m
            PROVE  i = j
        <4>1. n.aggs[k].name = n.aggs[m].name
          BY <1>5, <2>1, <3>3
        <4>2. k = m
          BY <1>1, <4>1 DEF GroupedAs
        <4> QED
          BY <3>3, <4>2
      <3> QED
        BY <1>6, <2>1, <3>1, <3>2, <3>3
    <2> QED
      BY <1>3, <2>1 DEF Distinct
  <1>11. cols2 \cap Real \subseteq Having(p.schema)
    BY <1>4, <1>5
  <1>12. Having(p.schema) \subseteq cols
    BY DEF Lay
  <1>13. n.op = "Aggregate" /\ Fits(n, p.schema)
    BY DEF GroupedAs
  <1> HIDE DEF cols2
  <1>14. Lay(Append(pl, n), q, cols2)
    BY <1>2, <1>3, <1>7, <1>8, <1>9, <1>10, <1>11, <1>12, <1>13, LayMore
  <1> QED
    BY <1>1, <1>14 DEF cols2

-----------------------------------------------------------------------------
(* Looking up the names of a call                                          *)

\* The columns of a pending order are columns of the query, if any at all.
OrderKnown(cols) ==
    order # NoOrder => {order.col, order.col2} \subseteq cols \cup {NoCol}

LEMMA EmptyIsSeq == IsSeq(<<>>) /\ Len(<<>>) = 0
  BY ChainEmpty DEF Chain

\* A call looks up columns of the query.
LEMMA LookUpNames ==
    ASSUME NEW c \in Calls, c.fn \in Fns \ {"Count"}, NEW q, Meant!Sensible(q, c),
           OrderKnown(q.cols)
    PROVE  /\ Len(LookedUp(c)) \in Nat
           /\ \A i \in 1 .. Len(LookedUp(c)) : LookedUp(c)[i] \in q.cols \cup {NoCol}
  <1>1. Meant!Mentioned(c) \subseteq q.cols
    BY DEF Meant!Sensible
  <1>2. CASE c.fn = "Where"
    BY <1>1, <1>2 DEF LookedUp, Meant!Mentioned
  <1>3. CASE c.fn = "Case"
    <2>1. LookedUp(c) = <<c.pred.col, c.then.col, c.else.col>>
      BY <1>3 DEF LookedUp
    <2>2. {c.pred.col, c.then.col, c.else.col} \subseteq q.cols \cup {NoCol}
      BY <1>1, <1>3 DEF Meant!Mentioned
    <2> QED
      BY <2>1, <2>2
  <1>4. CASE c.fn = "Add"
    BY <1>1, <1>4 DEF LookedUp, Meant!Mentioned
  <1>5. CASE c.fn = "GroupBy"
    <2> DEFINE g == [a \in 1 .. Len(c.aggs) |-> c.aggs[a].col]
    <2>1. Len(c.aggs) \in Nat /\ IsSeq(c.cols)
      BY <1>5, CallsAssumption DEF IsSeq
    <2>2. IsSeq(g) /\ Len(g) = Len(c.aggs)
      BY <2>1, MadeSeq
    <2>3. \A a \in 1 .. Len(c.aggs) : g[a] \in q.cols \cup {NoCol}
      BY <1>1, <1>5 DEF Meant!Mentioned
    <2>4. \A k \in 1 .. Len(c.cols) : c.cols[k] \in q.cols
      BY <1>1, <1>5 DEF Meant!Mentioned, Meant!ToNames
    <2>5. LookedUp(c) = c.cols \o g
      BY <1>5 DEF LookedUp
    <2> HIDE DEF g
    <2>6. PICK u : u = c.cols \o g
      OBVIOUS
    <2>7. Joined(c.cols, g, u) /\ Len(c.cols) \in Nat
      BY <2>1, <2>2, <2>6, SeqConcat, SeqLen
    <2>8. Len(u) \in Nat /\ \A i \in 1 .. Len(u) : u[i] \in q.cols \cup {NoCol}
      <3>1. PICK a \in Nat, b \in Nat : a = Len(c.cols) /\ b = Len(c.aggs)
        BY <2>1, <2>7
      <3>2. /\ Len(u) = a + b
            /\ \A k \in 1 .. a : u[k] \in q.cols
            /\ \A k \in 1 .. b : u[a + k] \in q.cols \cup {NoCol}
        BY <2>2, <2>3, <2>4, <2>7, <3>1 DEF Joined
      <3>3. \A i \in 1 .. a + b : i \in 1 .. a \/ (i - a \in 1 .. b /\ i = a + (i - a))
        OBVIOUS
      <3> QED
        BY <3>2, <3>3
    <2> QED
      BY <2>5, <2>6, <2>8
  <1>6. CASE c.fn = "Limit"
    <2>1. CASE order # NoOrder
      <3>1. LookedUp(c) = <<order.col, order.col2>>
        BY <1>6, <2>1 DEF LookedUp
      <3> QED
        BY <2>1, <3>1 DEF OrderKnown
    <2>2. CASE order = NoOrder
      <3>1. LookedUp(c) = <<>>
        BY <1>6, <2>2 DEF LookedUp
      <3> QED
        BY <3>1
    <2> QED
      BY <2>1, <2>2
  <1>7. CASE c.fn = "Rename"
    BY <1>1, <1>7 DEF LookedUp, Meant!Mentioned
  <1>8. CASE c.fn = "Select"
    <2> DEFINE g == IF c.star THEN RealNames ELSE <<>>
    <2>1. IsSeq(c.cols)
      BY <1>8, CallsAssumption DEF IsSeq
    <2>2. IsSeq(g) /\ Len(g) \in Nat /\ \A a \in 1 .. Len(g) : g[a] \in q.cols
      <3>1. CASE c.star
        <4>1. Real \subseteq q.cols
          BY <1>1, <1>8, <3>1 DEF Meant!Mentioned, Real
        <4>2. /\ RealNames = [k \in 1 .. Len(RealSchema) |-> RealNames[k]]
              /\ \A k \in 1 .. Len(RealSchema) : RealNames[k] \in Real
          BY RealSchemaNames DEF RealNames, Having
        <4>3. IsSeq(RealNames) /\ Len(RealNames) = Len(RealSchema)
          BY <4>2, MadeSeq, RealSchemaNames
        <4> QED
          BY <3>1, <4>1, <4>2, <4>3, RealSchemaNames
      <3>2. CASE ~ c.star
        BY <3>2, EmptyIsSeq
      <3> QED
        BY <3>1, <3>2
    <2>3. \A k \in 1 .. Len(c.cols) : c.cols[k] \in q.cols
      BY <1>1, <1>8 DEF Meant!Mentioned, Meant!ToNames
    <2>4. LookedUp(c) = c.cols \o g
      BY <1>8 DEF LookedUp
    <2> HIDE DEF g
    <2>5. PICK u : u = c.cols \o g
      OBVIOUS
    <2>6. Joined(c.cols, g, u) /\ Len(c.cols) \in Nat
      BY <2>1, <2>2, <2>5, SeqConcat, SeqLen
    <2>7. Len(u) \in Nat /\ \A i \in 1 .. Len(u) : u[i] \in q.cols
      <3>1. PICK a \in Nat, b \in Nat : a = Len(c.cols) /\ b = Len(g)
        BY <2>2, <2>6
      <3>2. /\ Len(u) = a + b
            /\ \A k \in 1 .. a : u[k] \in q.cols
            /\ \A k \in 1 .. b : u[a + k] \in q.cols
        BY <2>2, <2>3, <2>6, <3>1 DEF Joined
      <3>3. \A i \in 1 .. a + b : i \in 1 .. a \/ (i - a \in 1 .. b /\ i = a + (i - a))
        OBVIOUS
      <3> QED
        BY <3>2, <3>3
    <2> QED
      BY <2>4, <2>5, <2>7
  <1>9. CASE c.fn \in {"OrderBy", "Offset"}
    <2>1. LookedUp(c) = <<>>
      BY <1>9 DEF LookedUp
    <2> QED
      BY <2>1
  <1> QED
    BY <1>2, <1>3, <1>4, <1>5, <1>6, <1>7, <1>8, <1>9 DEF Fns

\* A position the parser hands out is one of cur_schema_, or 0 for no column.
LEMMA IdInside ==
    ASSUME NEW pl, NEW p, NEW cols, Lay(pl, p, cols)
    PROVE  Len(p.schema) \in Nat /\ \A name : Id(p, name) \in 0 .. Len(p.schema)
  <1>1. Len(p.schema) \in Nat
    BY SeqLen DEF Lay
  <1> QED
    BY <1>1, IndexOfName DEF Id

\* The lookups of a call keep the layout and find what they look up.
LEMMA LookUpLay ==
    ASSUME NEW c \in Calls, c.fn \in Fns \ {"Count"}, NEW q, Meant!Sensible(q, c),
           OrderKnown(q.cols), Lay(plan, parser, q.cols)
    PROVE  /\ Lay(plan, LookUp(c), q.cols)
           /\ \A i \in 1 .. Len(LookedUp(c)) :
                  LookedUp(c)[i] \in q.cols => LookedUp(c)[i] \in Having(LookUp(c).schema)
  <1>1. /\ Len(LookedUp(c)) \in Nat
        /\ \A i \in 1 .. Len(LookedUp(c)) : LookedUp(c)[i] \in q.cols \cup {NoCol}
    BY LookUpNames
  <1>2. NoCol \notin Real
    BY RealSchemaNames
  <1>3. \A i \in 1 .. Len(LookedUp(c)) :
            LookedUp(c)[i] \in q.cols \/ LookedUp(c)[i] \notin Real
    BY <1>1, <1>2
  <1> QED
    BY <1>1, <1>3, RegisterAllLay DEF LookUp

LEMMA PushedDown ==
    ASSUME NEW p, NEW pred
    PROVE  /\ DOMAIN PushDown(p, pred) = DOMAIN p
           /\ DOMAIN p = {"scan", "schema", "opts"} =>
                  PushDown(p, pred).scan = p.scan /\ PushDown(p, pred).schema = p.schema
  BY DEF PushDown

-----------------------------------------------------------------------------
(* The types of the columns                                                *)

\* The columns of a schema are of the types that go with the strings among them.
Typed(s, strings) ==
    \A k \in 1 .. Len(s) :
        IsCol(s[k]) /\ s[k].type = IF s[k].name \in strings THEN "string" ELSE "int64"

\* What a query says of its columns is so, and agrees with the file.
StringsRight(q) ==
    /\ q.strings \subseteq q.cols
    /\ \A name \in q.cols \cap Real :
           name \in q.strings <=> RealSchema[IndexOf(RealSchema, name)].type = "string"

StringsAfter(q, c) ==
    CASE c.fn = "Case" ->
             IF Meant!TypeOf(q, c.then) = "string" THEN q.strings \cup {c.name} ELSE q.strings
      [] c.fn = "Add" ->
             IF Meant!TypeOf(q, c.expr) = "string" THEN q.strings \cup {c.expr.name}
             ELSE q.strings
      [] c.fn = "GroupBy" ->
             (q.strings \cap Meant!ToNames(c.cols)) \cup Meant!StringAggs(q, c.aggs)
      [] c.fn = "Rename" -> {Meant!RenamedTo(c, n) : n \in q.strings}
      [] OTHER -> q.strings

LEMMA ThenStrings ==
    ASSUME NEW q, IsMeaning(q), NEW c, c.fn \in Fns \ {"Count"}
    PROVE  Meant!Then(q, c).strings = StringsAfter(q, c)
  <1>1. CASE c.fn = "Case"
    BY <1>1 DEF IsMeaning, StringsAfter, Meant!Then, Meant!WithColumn
  <1>2. CASE c.fn = "Add"
    BY <1>2 DEF IsMeaning, StringsAfter, Meant!Then, Meant!WithColumn
  <1>3. CASE c.fn = "GroupBy"
    BY <1>3 DEF IsMeaning, StringsAfter, Meant!Then, Meant!Grouped
  <1>4. CASE c.fn = "Rename"
    BY <1>4 DEF IsMeaning, StringsAfter, Meant!Then
  <1>5. CASE c.fn = "Where"
    BY <1>5 DEF IsMeaning, StringsAfter, Meant!Then
  <1>6. CASE c.fn = "OrderBy"
    BY <1>6 DEF IsMeaning, StringsAfter, Meant!Then
  <1>7. CASE c.fn = "Limit"
    BY <1>7 DEF IsMeaning, StringsAfter, Meant!Then
  <1>8. CASE c.fn = "Offset"
    BY <1>8 DEF IsMeaning, StringsAfter, Meant!Then
  <1>9. CASE c.fn = "Select"
    BY <1>9 DEF IsMeaning, StringsAfter, Meant!Then
  <1> QED
    BY <1>1, <1>2, <1>3, <1>4, <1>5, <1>6, <1>7, <1>8, <1>9 DEF Fns

\* The first column of a name is the one the parser finds.
LEMMA PlaceIsIndex ==
    ASSUME NEW name \in Real
    PROVE  Meant!Place(name) = IndexOf(RealSchema, name)
  <1> DEFINE First(k) == /\ RealSchema[k].name = name
                         /\ \A b \in 1 .. k - 1 : RealSchema[b].name # name
  <1>1. PICK N \in Nat : N = Len(RealSchema)
    BY RealSchemaNames
  <1>2. PICK n \in 1 .. N : RealSchema[n].name = name
    BY <1>1, RealSchemaNames DEF Having
  <1>3. PICK m \in 1 .. N : First(m)
    <2> DEFINE P == {k \in 1 .. N : RealSchema[k].name = name}
    <2>1. n \in Nat /\ n \in P
      BY <1>2
    <2>2. PICK m \in 0 .. n : m \in P /\ \A k \in 0 .. m - 1 : k \notin P
      <3> HIDE DEF P
      <3> QED
        BY <2>1, FirstOne
    <2>3. \A b \in 1 .. m - 1 : b \in 0 .. m - 1 /\ b \in 1 .. N
      BY <2>2
    <2> QED
      BY <2>2, <2>3
  <1>4. IndexOf(RealSchema, name) = CHOOSE k \in 1 .. N : First(k)
    BY <1>1, <1>2 DEF IndexOf
  <1>5. \A k \in 1 .. N : /\ Meant!RealCols[k] = RealSchema[k].name
                          /\ \A b \in 1 .. k - 1 : Meant!RealCols[b] = RealSchema[b].name
    <2>1. \A k \in 1 .. N : Meant!RealCols[k] = RealSchema[k].name
      BY <1>1 DEF Meant!RealCols
    <2>2. \A k \in 1 .. N : \A b \in 1 .. k - 1 : b \in 1 .. N
      OBVIOUS
    <2> QED
      BY <2>1, <2>2
  <1> DEFINE Real1(k) == /\ Meant!RealCols[k] = name
                         /\ \A b \in 1 .. k - 1 : Meant!RealCols[b] # name
  <1>6. Meant!Place(name) = CHOOSE k \in 1 .. N : Real1(k)
    BY <1>1 DEF Meant!Place
  <1>7. \A k \in 1 .. N : Real1(k) <=> First(k)
    BY <1>5
  <1>8. \A i, k \in 1 .. N : First(i) /\ First(k) => i = k
    <2> TAKE i, k \in 1 .. N
    <2>1. i < k => i \in 1 .. k - 1
      OBVIOUS
    <2>2. k < i => k \in 1 .. i - 1
      OBVIOUS
    <2> QED
      BY <2>1, <2>2
  <1> HIDE DEF First, Real1
  <1>9. IndexOf(RealSchema, name) \in 1 .. N /\ First(IndexOf(RealSchema, name))
    BY <1>3, <1>4
  <1>10. Meant!Place(name) \in 1 .. N /\ Real1(Meant!Place(name))
    BY <1>3, <1>6, <1>7
  <1> QED
    BY <1>7, <1>8, <1>9, <1>10

LEMMA WholeFileStrings == ASSUME NEW t PROVE StringsRight(Meant!WholeFile(t))
  <1>1. /\ Meant!WholeFile(t).cols = Real
        /\ Meant!WholeFile(t).strings =
               {n \in Real : RealSchema[Meant!Place(n)].type = "string"}
    BY DEF Meant!WholeFile, Real
  <1> QED
    BY <1>1, PlaceIsIndex DEF StringsRight

\* What a call that makes sense says of its columns is so.
LEMMA StepStrings ==
    ASSUME NEW q, IsMeaning(q), NEW c, c.fn \in Fns \ {"Count"}, Meant!Sensible(q, c),
           StringsRight(q)
    PROVE  /\ Meant!Step(q, c).strings = StringsAfter(q, c)
           /\ StringsRight(Meant!Step(q, c))
  <1>1. PICK r : r = Meant!Step(q, c)
    OBVIOUS
  <1>2. r.cols = ColsAfter(q.cols, c) /\ r.strings = StringsAfter(q, c)
    BY <1>1, ThenCols, ThenStrings DEF Meant!Step
  <1>3. q.strings \subseteq q.cols
    BY DEF StringsRight
  <1>4. Meant!Made(c) \cap (Real \cup q.cols) = {}
    BY DEF Meant!Sensible, Real
  <1>5. /\ r.strings \subseteq r.cols
        /\ \A n \in r.cols \cap Real : n \in q.cols /\ (n \in r.strings <=> n \in q.strings)
    <2>1. CASE c.fn \in {"Case", "Add"}
      BY <1>2, <1>3, <1>4, <2>1 DEF ColsAfter, StringsAfter, Meant!Made
    <2>2. CASE c.fn = "GroupBy"
      <3>1. /\ r.cols = Meant!ToNames(c.cols) \cup Meant!AggNames(c.aggs)
            /\ r.strings = (q.strings \cap Meant!ToNames(c.cols)) \cup
                           Meant!StringAggs(q, c.aggs)
            /\ Meant!Made(c) = Meant!AggNames(c.aggs)
        BY <1>2, <2>2 DEF ColsAfter, StringsAfter, Meant!Made
      <3>2. Meant!StringAggs(q, c.aggs) \subseteq Meant!AggNames(c.aggs)
        BY DEF Meant!StringAggs, Meant!AggNames
      <3>3. Meant!ToNames(c.cols) \subseteq q.cols
        BY <2>2 DEF Meant!Sensible, Meant!Mentioned
      <3> QED
        BY <1>4, <3>1, <3>2, <3>3
    <2>3. CASE c.fn = "Rename"
      <3>1. /\ r.cols = {Meant!RenamedTo(c, n) : n \in q.cols}
            /\ r.strings = {Meant!RenamedTo(c, n) : n \in q.strings}
            /\ c.to \notin Real /\ c.to \notin q.cols
        BY <1>2, <1>4, <2>3 DEF ColsAfter, StringsAfter, Meant!Made
      <3>2. \A n : Meant!RenamedTo(c, n) = IF n = c.from THEN c.to ELSE n
        BY DEF Meant!RenamedTo
      <3> QED
        BY <1>3, <3>1, <3>2
    <2>4. CASE c.fn \notin {"Case", "Add", "GroupBy", "Rename"}
      BY <1>2, <1>3, <2>4 DEF ColsAfter, StringsAfter
    <2> QED
      BY <2>1, <2>2, <2>3, <2>4
  <1> QED
    BY <1>1, <1>2, <1>5 DEF StringsRight

\* What looking names up does to the number of columns.
Grown(p, r) ==
    /\ Len(p.schema) \in Nat /\ Len(r.schema) \in Nat /\ Len(p.schema) <= Len(r.schema)
    /\ Len(p.schema) = Len(p.scan) => Len(r.schema) = Len(r.scan)

\* A registered column has the type of its name.
LEMMA RegisterTyped ==
    ASSUME NEW pl, NEW p, NEW q, Lay(pl, p, q.cols), StringsRight(q),
           Typed(p.schema, q.strings), NEW name, name \in q.cols \/ name \notin Real
    PROVE  /\ Typed(Register(p, name).schema, q.strings)
           /\ Grown(p, Register(p, name))
  <1> DEFINE real == IndexOf(RealSchema, name)
             col == RealSchema[real]
             r == [p EXCEPT !.scan = Append(@, real), !.schema = Append(@, col)]
  <1>1. /\ IsSeq(p.schema) /\ IsSeq(p.scan) /\ DOMAIN p = {"scan", "schema", "opts"}
        /\ Len(p.schema) \in Nat /\ Len(p.scan) \in Nat
    BY SeqLen DEF Lay
  <1>2. Register(p, name) = IF IndexOf(p.schema, name) # 0 \/ real = 0 THEN p ELSE r
    BY DEF Register
  <1>3. /\ name \in Real => real \in 1 .. Len(RealSchema) /\ col.name = name
        /\ name \notin Real => real = 0
    BY RealSchemaNames, IndexOfName
  <1> HIDE DEF real
  <1>4. CASE IndexOf(p.schema, name) # 0 \/ real = 0
    BY <1>1, <1>2, <1>4 DEF Grown
  <1>5. CASE ~ (IndexOf(p.schema, name) # 0 \/ real = 0)
    <2>1. /\ name \in Real /\ name \in q.cols /\ col.name = name
          /\ IsCol(col) /\ col.type \in {"int64", "string"}
      BY <1>3, <1>5, RealSchemaNames
    <2>2. col.type = IF name \in q.strings THEN "string" ELSE "int64"
      BY <2>1 DEF StringsRight, real
    <2> HIDE DEF col
    <2>3. r.scan = Append(p.scan, real) /\ r.schema = Append(p.schema, col)
      BY <1>1
    <2>4. Register(p, name) = r
      BY <1>2, <1>5
    <2> HIDE DEF r
    <2>5. /\ Len(r.scan) = Len(p.scan) + 1
          /\ Len(r.schema) = Len(p.schema) + 1
          /\ \A k \in 1 .. Len(p.schema) : r.schema[k] = p.schema[k]
          /\ r.schema[Len(p.schema) + 1] = col
      BY <1>1, <2>3, SeqAppend
    <2>6. \A k \in 1 .. Len(r.schema) : k \in 1 .. Len(p.schema) \/ k = Len(p.schema) + 1
      BY <1>1, <2>5
    <2>7. Typed(r.schema, q.strings)
      BY <2>1, <2>2, <2>5, <2>6 DEF Typed
    <2> QED
      BY <1>1, <2>4, <2>5, <2>7 DEF Grown
  <1> QED
    BY <1>4, <1>5

\* So have all of them.
LEMMA RegisterAllTyped ==
    ASSUME NEW pl, NEW p, NEW q, Lay(pl, p, q.cols), StringsRight(q),
           Typed(p.schema, q.strings), NEW names, Len(names) \in Nat,
           \A i \in 1 .. Len(names) : names[i] \in q.cols \/ names[i] \notin Real
    PROVE  /\ Typed(RegisterAll(p, names).schema, q.strings)
           /\ Grown(p, RegisterAll(p, names))
  <1>1. PICK e : /\ e[0] = p
                 /\ \A k \in 1 .. Len(names) : e[k] = Register(e[k - 1], names[k])
                 /\ RegisterAll(p, names) = e[Len(names)]
    BY RegisterAllSteps
  <1> DEFINE S == {n \in Nat : n <= Len(names) =>
                      Lay(pl, e[n], q.cols) /\ Typed(e[n].schema, q.strings) /\ Grown(p, e[n])}
  <1>2. 0 \in S
    <2>1. Grown(p, p)
      BY SeqLen DEF Grown, Lay
    <2> QED
      BY <1>1, <2>1
  <1>3. ASSUME NEW n \in Nat, n \in S PROVE n + 1 \in S
    <2> SUFFICES ASSUME n + 1 <= Len(names)
                 PROVE  /\ Lay(pl, e[n + 1], q.cols) /\ Typed(e[n + 1].schema, q.strings)
                        /\ Grown(p, e[n + 1])
      OBVIOUS
    <2>1. /\ Lay(pl, e[n], q.cols) /\ Typed(e[n].schema, q.strings) /\ Grown(p, e[n])
          /\ n + 1 \in 1 .. Len(names)
      BY <1>3
    <2>2. e[n + 1] = Register(e[n], names[n + 1])
      <3>1. (n + 1) - 1 = n
        OBVIOUS
      <3> QED
        BY <1>1, <2>1, <3>1
    <2>3. Lay(pl, e[n + 1], q.cols)
      BY <2>1, <2>2, RegisterLay
    <2>4. Typed(e[n + 1].schema, q.strings) /\ Grown(e[n], e[n + 1])
      BY <2>1, <2>2, RegisterTyped
    <2> QED
      BY <2>1, <2>3, <2>4 DEF Grown
  <1> HIDE DEF S
  <1>4. Len(names) \in S
    BY <1>2, <1>3, SetInduction
  <1> QED
    BY <1>1, <1>4 DEF S

\* The lookups of a call.
LEMMA LookUpTyped ==
    ASSUME NEW c \in Calls, c.fn \in Fns \ {"Count"}, NEW q, Meant!Sensible(q, c),
           OrderKnown(q.cols), Lay(plan, parser, q.cols),
           StringsRight(q), Typed(parser.schema, q.strings)
    PROVE  Typed(LookUp(c).schema, q.strings) /\ Grown(parser, LookUp(c))
  <1>1. /\ Len(LookedUp(c)) \in Nat
        /\ \A i \in 1 .. Len(LookedUp(c)) : LookedUp(c)[i] \in q.cols \cup {NoCol}
    BY LookUpNames
  <1>2. \A i \in 1 .. Len(LookedUp(c)) :
            LookedUp(c)[i] \in q.cols \/ LookedUp(c)[i] \notin Real
    BY <1>1, RealSchemaNames
  <1> QED
    BY <1>1, <1>2, RegisterAllTyped DEF LookUp

\* A column that is found has the type the query gives its name.
LEMMA ColumnFits ==
    ASSUME NEW p, IsSeq(p.schema), NEW q, Typed(p.schema, q.strings),
           NEW name, name \in Having(p.schema)
    PROVE  /\ Id(p, name) \in 1 .. Len(p.schema) /\ Id(p, name) # 0
           /\ p.schema[Id(p, name)].name = name
           /\ p.schema[Id(p, name)].type = TypeOf(p, name)
           /\ TypeOf(p, name) = Meant!TypeIn(q, name)
  <1>1. Len(p.schema) \in Nat
    BY SeqLen
  <1>2. Id(p, name) \in 1 .. Len(p.schema) /\ p.schema[Id(p, name)].name = name
    BY <1>1, IndexOfName DEF Id
  <1> QED
    BY <1>1, <1>2 DEF Typed, TypeOf, Meant!TypeIn

\* An expression that suits the query reads its column, and has the type the
\* query gives it.
LEMMA ExprFits ==
    ASSUME NEW p, IsSeq(p.schema), NEW q, Typed(p.schema, q.strings),
           NEW e, Expression(e), Meant!Suited(q, e),
           e.col # NoCol => e.col \in Having(p.schema)
    PROVE  /\ Reading(Compiled(p, e), p.schema)
           /\ Compiled(p, e).type = Meant!TypeOf(q, e)
           /\ ExprType(p, e) = Meant!TypeOf(q, e)
           /\ ExprType(p, e) \in {"int64", "string"}
  <1>1. e.col # NoCol =>
            /\ Id(p, e.col) \in 1 .. Len(p.schema)
            /\ p.schema[Id(p, e.col)].type = Meant!TypeIn(q, e.col)
            /\ TypeOf(p, e.col) = Meant!TypeIn(q, e.col)
    BY ColumnFits
  <1>2. /\ ExprType(p, e) = Meant!TypeOf(q, e)
        /\ ExprType(p, e) \in {"int64", "string"}
    BY <1>1 DEF Expression, ExprType, Meant!TypeOf, Meant!TypeIn
  <1>3. Reading(Compiled(p, e), p.schema)
    BY <1>1 DEF Compiled, Reading, Meant!Suited, Expression
  <1> QED
    BY <1>2, <1>3 DEF Compiled

\* Both values of a Case have its type.
LEMMA CaseTypes ==
    ASSUME NEW p, IsSeq(p.schema), NEW q, Typed(p.schema, q.strings),
           NEW c \in Calls, c.fn = "Case", Meant!RightType(q, c),
           c.then.col # NoCol => c.then.col \in Having(p.schema),
           c.else.col # NoCol => c.else.col \in Having(p.schema)
    PROVE  /\ Reading(Compiled(p, c.then), p.schema) /\ Reading(Compiled(p, c.else), p.schema)
           /\ Compiled(p, c.then).type = CaseType(p, c)
           /\ Compiled(p, c.else).type = CaseType(p, c)
           /\ CaseType(p, c) = Meant!TypeOf(q, c.then)
           /\ CaseType(p, c) \in {"int64", "string"}
  <1>1. /\ Expression(c.then) /\ Expression(c.else)
        /\ Meant!Suited(q, c.then) /\ Meant!Suited(q, c.else)
        /\ Meant!TypeOf(q, c.then) = Meant!TypeOf(q, c.else)
    BY CallsAssumption DEF Meant!RightType
  <1>2. /\ Reading(Compiled(p, c.then), p.schema)
        /\ Compiled(p, c.then).type = Meant!TypeOf(q, c.then)
        /\ ExprType(p, c.then) = Meant!TypeOf(q, c.then)
        /\ ExprType(p, c.then) \in {"int64", "string"}
    BY <1>1, ExprFits
  <1>3. /\ Reading(Compiled(p, c.else), p.schema)
        /\ Compiled(p, c.else).type = Meant!TypeOf(q, c.else)
        /\ ExprType(p, c.else) = Meant!TypeOf(q, c.else)
    BY <1>1, ExprFits
  <1>4. CaseType(p, c) = Meant!TypeOf(q, c.then)
    BY <1>1, <1>2, <1>3 DEF CaseType
  <1> QED
    BY <1>1, <1>2, <1>3, <1>4

\* The columns the expressions of an Add or a Case read are found.
LEMMA ReadColumnsFound ==
    ASSUME NEW c \in Calls, c.fn \in {"Where", "Case", "Add"}, NEW q, Meant!Sensible(q, c),
           OrderKnown(q.cols), Lay(plan, parser, q.cols)
    PROVE  /\ c.fn \in {"Where", "Case"} => c.pred.col \in Having(LookUp(c).schema)
           /\ c.fn = "Case" =>
                  /\ c.then.col # NoCol => c.then.col \in Having(LookUp(c).schema)
                  /\ c.else.col # NoCol => c.else.col \in Having(LookUp(c).schema)
           /\ c.fn = "Add" /\ c.expr.col # NoCol =>
                  c.expr.col \in Having(LookUp(c).schema)
  <1>1. Meant!Mentioned(c) \subseteq q.cols
    BY DEF Meant!Sensible
  <1>2. \A i \in 1 .. Len(LookedUp(c)) :
            LookedUp(c)[i] \in q.cols => LookedUp(c)[i] \in Having(LookUp(c).schema)
    BY LookUpLay DEF Fns
  <1>3. CASE c.fn = "Where"
    <2>1. LookedUp(c) = <<c.pred.col>> /\ c.pred.col \in q.cols
      BY <1>1, <1>3 DEF LookedUp, Meant!Mentioned
    <2>2. 1 \in 1 .. Len(LookedUp(c)) /\ LookedUp(c)[1] = c.pred.col
      BY <2>1
    <2> QED
      BY <1>2, <1>3, <2>1, <2>2
  <1>4. CASE c.fn = "Add"
    <2>1. LookedUp(c) = <<c.expr.col>> /\ (c.expr.col # NoCol => c.expr.col \in q.cols)
      BY <1>1, <1>4 DEF LookedUp, Meant!Mentioned
    <2>2. 1 \in 1 .. Len(LookedUp(c)) /\ LookedUp(c)[1] = c.expr.col
      BY <2>1
    <2> QED
      BY <1>2, <1>4, <2>1, <2>2
  <1>5. CASE c.fn = "Case"
    <2>1. LookedUp(c) = <<c.pred.col, c.then.col, c.else.col>>
      BY <1>5 DEF LookedUp
    <2>2. /\ c.pred.col \in q.cols
          /\ c.then.col # NoCol => c.then.col \in q.cols
          /\ c.else.col # NoCol => c.else.col \in q.cols
      BY <1>1, <1>5 DEF Meant!Mentioned
    <2>3. /\ 1 \in 1 .. Len(LookedUp(c)) /\ LookedUp(c)[1] = c.pred.col
          /\ 2 \in 1 .. Len(LookedUp(c)) /\ LookedUp(c)[2] = c.then.col
          /\ 3 \in 1 .. Len(LookedUp(c)) /\ LookedUp(c)[3] = c.else.col
      BY <2>1
    <2> QED
      BY <1>2, <1>5, <2>2, <2>3
  <1> QED
    BY <1>3, <1>4, <1>5

\* An aggregate of a column finds it, and takes the values it has.
LEMMA AggFits ==
    ASSUME NEW p, IsSeq(p.schema), NEW q, Typed(p.schema, q.strings), NEW a,
           a.col # NoCol => a.col \in Having(p.schema),
           a.col = NoCol <=> a.fun = "COUNT",
           a.fun \in {"SUM", "AVG"} => a.col \notin q.strings
    PROVE  Reading(CompiledAgg(p, a), p.schema)
  <1>1. CASE a.col = NoCol
    BY <1>1 DEF CompiledAgg, Reading
  <1>2. CASE a.col # NoCol
    <2>1. /\ Id(p, a.col) \in 1 .. Len(p.schema)
          /\ p.schema[Id(p, a.col)].type = TypeOf(p, a.col)
          /\ TypeOf(p, a.col) = Meant!TypeIn(q, a.col)
      BY <1>2, ColumnFits
    <2>2. AggTakes(p, a) = TypeOf(p, a.col)
      BY <1>2, <2>1 DEF AggTakes, Meant!TypeIn
    <2> QED
      BY <1>2, <2>1, <2>2 DEF CompiledAgg, Reading
  <1> QED
    BY <1>1, <1>2

\* What a call does to the types and the number of the columns.
KeepsTypes(c, q) ==
    /\ Typed(parser'.schema, StringsAfter(q, c))
    /\ c.fn \notin {"Add", "Case", "GroupBy"} /\ Len(parser.schema) = Len(parser.scan) =>
           Len(parser'.schema) = Len(parser'.scan)
    /\ c.fn # "GroupBy" => Len(parser.schema) <= Len(parser'.schema)

\* The parser is left as it is, or as the lookups leave it.
LEMMA PlainTyped ==
    ASSUME NEW c, NEW q, c.fn \notin {"Case", "Add", "GroupBy", "Rename"},
           Len(parser.schema) \in Nat, NEW r, Typed(r.schema, q.strings), Grown(parser, r),
           parser'.schema = r.schema, parser'.scan = r.scan
    PROVE  KeepsTypes(c, q)
  <1>1. StringsAfter(q, c) = q.strings
    BY DEF StringsAfter
  <1> QED
    BY <1>1 DEF KeepsTypes, Grown

\* A new column goes to the end.
LEMMA AddedTyped ==
    ASSUME NEW c, NEW q, NEW r, IsSeq(r.schema), Typed(r.schema, q.strings), Grown(parser, r),
           Having(r.schema) \subseteq q.cols, q.strings \subseteq q.cols,
           NEW name, NEW type \in {"int64", "string"}, name \notin q.cols,
           parser'.schema = Append(r.schema, [name |-> name, type |-> type]),
           c.fn \in {"Add", "Case"},
           StringsAfter(q, c) = IF type = "string" THEN q.strings \cup {name} ELSE q.strings
    PROVE  KeepsTypes(c, q)
  <1> DEFINE x == [name |-> name, type |-> type]
  <1>1. IsCol(x) /\ x.name = name /\ x.type = type
    BY DEF IsCol
  <1> HIDE DEF x
  <1>2. PICK s : s = parser'.schema
    OBVIOUS
  <1>3. /\ Len(s) = Len(r.schema) + 1 /\ Len(r.schema) \in Nat
        /\ \A k \in 1 .. Len(r.schema) : s[k] = r.schema[k]
        /\ s[Len(r.schema) + 1] = x
    BY <1>2, SeqAppend DEF x
  <1>4. \A k \in 1 .. Len(s) : k \in 1 .. Len(r.schema) \/ k = Len(r.schema) + 1
    BY <1>3
  <1>5. \A k \in 1 .. Len(r.schema) : r.schema[k].name # name
    BY DEF Having
  <1>6. Typed(s, StringsAfter(q, c))
    BY <1>1, <1>3, <1>4, <1>5 DEF Typed
  <1> QED
    BY <1>2, <1>3, <1>6 DEF KeepsTypes, Grown

LEMMA RenamedTyped ==
    ASSUME NEW c, NEW q, NEW r, IsSeq(r.schema), Typed(r.schema, q.strings), Grown(parser, r),
           Distinct(r.schema), DOMAIN r = {"scan", "schema", "opts"},
           Having(r.schema) \subseteq q.cols, q.strings \subseteq q.cols,
           c.fn = "Rename", c.from \in Having(r.schema), c.to \notin q.cols,
           parser' = [r EXCEPT !.schema[IndexOf(r.schema, c.from)].name = c.to]
    PROVE  KeepsTypes(c, q)
  <1>1. Len(r.schema) \in Nat /\ DOMAIN r.schema = 1 .. Len(r.schema)
    BY SeqLen
  <1>2. PICK at \in 1 .. Len(r.schema) : at = IndexOf(r.schema, c.from)
                                         /\ r.schema[at].name = c.from
    BY <1>1, IndexOfName
  <1>3. PICK s : s = parser'.schema
    OBVIOUS
  <1>4. s = [r.schema EXCEPT ![at].name = c.to] /\ parser'.scan = r.scan
    BY <1>2, <1>3
  <1>5. IsCol(r.schema[at])
    BY <1>2 DEF Typed
  <1>6. /\ \A k \in 1 .. Len(r.schema) : k # at => s[k] = r.schema[k]
        /\ IsCol(s[at]) /\ s[at].name = c.to
        /\ s[at].type = r.schema[at].type
    <2>1. /\ \A k \in 1 .. Len(r.schema) : k # at => s[k] = r.schema[k]
          /\ s[at] = [r.schema[at] EXCEPT !.name = c.to]
      BY <1>1, <1>2, <1>4
    <2>2. PICK x : x = r.schema[at]
      OBVIOUS
    <2>3. IsCol(x) /\ s[at] = [x EXCEPT !.name = c.to]
      BY <1>5, <2>1, <2>2
    <2>4. IsCol(s[at]) /\ s[at].name = c.to /\ s[at].type = x.type
      BY <2>3 DEF IsCol
    <2> QED
      BY <2>1, <2>2, <2>4
  <1>7. IsSeq(s) /\ Len(s) = Len(r.schema)
    <2>1. s = [k \in 1 .. Len(r.schema) |-> s[k]]
      BY <1>1, <1>4
    <2> QED
      BY <1>1, <2>1, MadeSeq
  <1>8. StringsAfter(q, c) = {Meant!RenamedTo(c, n) : n \in q.strings}
    BY DEF StringsAfter
  <1>9. \A n : Meant!RenamedTo(c, n) = IF n = c.from THEN c.to ELSE n
    BY DEF Meant!RenamedTo
  <1>10. /\ c.to \in StringsAfter(q, c) <=> c.from \in q.strings
         /\ \A n : n # c.from /\ n # c.to =>
                (n \in StringsAfter(q, c) <=> n \in q.strings)
    BY <1>8, <1>9
  <1>11. ASSUME NEW k \in 1 .. Len(r.schema), k # at
         PROVE  r.schema[k].name # c.from /\ r.schema[k].name # c.to
    BY <1>2, <1>11 DEF Distinct, Having
  <1>13. ASSUME NEW k \in 1 .. Len(r.schema)
         PROVE  /\ IsCol(s[k])
                /\ s[k].type = IF s[k].name \in StringsAfter(q, c) THEN "string" ELSE "int64"
    <2>1. r.schema[k].type = IF r.schema[k].name \in q.strings THEN "string" ELSE "int64"
      BY DEF Typed
    <2>2. CASE k = at
      BY <1>2, <1>6, <1>10, <2>1, <2>2
    <2>3. CASE k # at
      <3>1. s[k] = r.schema[k] /\ IsCol(r.schema[k])
        BY <1>6, <2>3 DEF Typed
      <3> QED
        BY <1>10, <1>11, <2>1, <2>3, <3>1
    <2> QED
      BY <2>2, <2>3
  <1>12. Typed(s, StringsAfter(q, c))
    BY <1>7, <1>13 DEF Typed
  <1> QED
    BY <1>3, <1>4, <1>7, <1>12 DEF KeepsTypes, Grown

\* The columns a grouping uses are found.
LEMMA GroupColumnsFound ==
    ASSUME NEW c \in Calls, c.fn = "GroupBy", NEW q, Meant!Sensible(q, c),
           OrderKnown(q.cols), Lay(plan, parser, q.cols)
    PROVE  /\ \A k \in 1 .. Len(c.cols) :
                  c.cols[k] \in q.cols /\ c.cols[k] \in Having(LookUp(c).schema)
           /\ \A a \in 1 .. Len(c.aggs) : c.aggs[a].col # NoCol =>
                  c.aggs[a].col \in q.cols /\ c.aggs[a].col \in Having(LookUp(c).schema)
  <1>1. IsSeq(c.cols) /\ IsSeq(c.aggs)
    BY CallsAssumption DEF IsSeq
  <1>2. PICK a, b \in Nat : a = Len(c.cols) /\ b = Len(c.aggs)
    BY <1>1, SeqLen
  <1>3. \A i \in 1 .. Len(LookedUp(c)) :
            LookedUp(c)[i] \in q.cols => LookedUp(c)[i] \in Having(LookUp(c).schema)
    BY LookUpLay DEF Fns
  <1> DEFINE g == [k \in 1 .. Len(c.aggs) |-> c.aggs[k].col]
  <1>4. IsSeq(g) /\ Len(g) = b /\ \A k \in 1 .. b : g[k] = c.aggs[k].col
    BY <1>2, MadeSeq
  <1>5. LookedUp(c) = c.cols \o g
    BY DEF LookedUp
  <1> HIDE DEF g
  <1>6. Joined(c.cols, g, LookedUp(c))
    BY <1>1, <1>4, <1>5, SeqConcat
  <1>7. /\ Len(LookedUp(c)) = a + b
        /\ \A k \in 1 .. a : LookedUp(c)[k] = c.cols[k]
        /\ \A k \in 1 .. b : LookedUp(c)[a + k] = c.aggs[k].col
    BY <1>2, <1>4, <1>6 DEF Joined
  <1>8. /\ \A k \in 1 .. a : k \in 1 .. a + b
        /\ \A k \in 1 .. b : a + k \in 1 .. a + b
    OBVIOUS
  <1>9. /\ \A k \in 1 .. Len(c.cols) : c.cols[k] \in q.cols
        /\ \A k \in 1 .. Len(c.aggs) : c.aggs[k].col # NoCol => c.aggs[k].col \in q.cols
    BY DEF Meant!Sensible, Meant!Mentioned, Meant!ToNames
  <1> QED
    BY <1>2, <1>3, <1>7, <1>8, <1>9

\* Group columns keep their types; the aggregates that are strings are the least
\* and the greatest of strings.
LEMMA GroupedTyped ==
    ASSUME NEW c \in Calls, GroupBy(c), NEW q, Meant!Sensible(q, c),
           OrderKnown(q.cols), Lay(plan, parser, q.cols),
           StringsRight(q), Typed(LookUp(c).schema, q.strings)
    PROVE  KeepsTypes(c, q)
  <1>1. c.fn = "GroupBy" /\ c.fn \in Fns \ {"Count"}
    BY DEF GroupBy, Fns
  <1>2. PICK p : p = LookUp(c)
    OBVIOUS
  <1>3. /\ Lay(plan, p, q.cols) /\ DOMAIN p = {"scan", "schema", "opts"}
        /\ Len(p.schema) \in Nat
    BY <1>1, <1>2, LookUpLay, SeqLen DEF Lay
  <1>4. PICK a, b \in Nat : a = Len(c.cols) /\ b = Len(c.aggs)
    BY <1>1, CallsAssumption, SeqLen DEF IsSeq
  <1> DEFINE aggs == [k \in 1 .. Len(c.aggs) |-> CompiledAgg(p, c.aggs[k])]
             A == [k \in 1 .. Len(c.cols) |-> p.schema[Id(p, c.cols[k])]]
             B == [k \in 1 .. Len(aggs) |-> [name |-> aggs[k].name, type |-> aggs[k].type]]
  <1>5. parser'.schema = A \o B
    <2>1. parser' = [p EXCEPT !.schema = A \o B]
      BY <1>2 DEF GroupBy
    <2> HIDE DEF A, B
    <2> QED
      BY <1>3, <2>1
  <1>6. Len(aggs) = b /\ \A k \in 1 .. b : /\ aggs[k].name = c.aggs[k].name
                                           /\ aggs[k].type = AggType(p, c.aggs[k])
    <2>1. \A k \in 1 .. b : aggs[k] = CompiledAgg(p, c.aggs[k])
      BY <1>4
    <2>2. Len(aggs) = b
      BY <1>4, MadeSeq
    <2> HIDE DEF aggs
    <2> QED
      BY <2>1, <2>2 DEF CompiledAgg
  <1> HIDE DEF aggs
  <1>7. /\ IsSeq(A) /\ Len(A) = a
        /\ \A k \in 1 .. a : A[k] = p.schema[Id(p, c.cols[k])]
    BY <1>4, MadeSeq
  <1>8. /\ IsSeq(B) /\ Len(B) = b
        /\ \A k \in 1 .. b : /\ IsCol(B[k])
                             /\ B[k].name = c.aggs[k].name
                             /\ B[k].type = AggType(p, c.aggs[k])
    <2>1. IsSeq(B) /\ Len(B) = b
      BY <1>4, <1>6, MadeSeq
    <2>2. \A k \in 1 .. b : B[k] = [name |-> aggs[k].name, type |-> aggs[k].type]
      BY <1>6
    <2> HIDE DEF B
    <2> QED
      BY <1>6, <2>1, <2>2 DEF IsCol
  <1> HIDE DEF A, B
  <1>9. PICK s : s = parser'.schema
    OBVIOUS
  <1>10. /\ Len(s) = a + b
         /\ \A k \in 1 .. a : s[k] = A[k]
         /\ \A k \in 1 .. b : s[a + k] = B[k]
    <2>1. Joined(A, B, s)
      BY <1>5, <1>7, <1>8, <1>9, SeqConcat
    <2> QED
      BY <1>7, <1>8, <2>1 DEF Joined
  <1>11. \A k \in 1 .. a + b : k \in 1 .. a \/ \E m \in 1 .. b : k = a + m
    <2> TAKE k \in 1 .. a + b
    <2>1. k \in 1 .. a \/ (k - a \in 1 .. b /\ k = a + (k - a))
      OBVIOUS
    <2> QED
      BY <2>1
  <1>12. \A name \in Having(p.schema) :
             /\ Id(p, name) \in 1 .. Len(p.schema)
             /\ p.schema[Id(p, name)].name = name
             /\ IsCol(p.schema[Id(p, name)])
             /\ TypeOf(p, name) = IF name \in q.strings THEN "string" ELSE "int64"
    <2> TAKE name \in Having(p.schema)
    <2>1. Id(p, name) \in 1 .. Len(p.schema) /\ p.schema[Id(p, name)].name = name
      BY <1>3, IndexOfName DEF Id
    <2> QED
      BY <1>2, <2>1 DEF Typed, TypeOf
  <1>13. /\ \A k \in 1 .. a : c.cols[k] \in q.cols /\ c.cols[k] \in Having(p.schema)
         /\ \A k \in 1 .. b : c.aggs[k].col # NoCol => c.aggs[k].col \in Having(p.schema)
    BY <1>1, <1>2, <1>4, GroupColumnsFound
  <1>14. /\ \A k \in 1 .. b : c.aggs[k].name \notin q.cols
         /\ \A i, j \in 1 .. b : c.aggs[i].name = c.aggs[j].name => i = j
         /\ \A k \in 1 .. b : c.aggs[k].col = NoCol => c.aggs[k].fun = "COUNT"
    <2>1. \A k \in 1 .. b : c.aggs[k].name \notin q.cols
      BY <1>1, <1>4 DEF Meant!Sensible, Meant!Made, Meant!AggNames
    <2>2. Meant!Apart([i \in 1 .. Len(c.aggs) |-> c.aggs[i].name])
      BY <1>1 DEF Meant!Sensible, Meant!GroupedApart
    <2> DEFINE g == [i \in 1 .. Len(c.aggs) |-> c.aggs[i].name]
    <2>3. Len(g) = b /\ \A i \in 1 .. b : g[i] = c.aggs[i].name
      BY <1>4, MadeSeq
    <2> HIDE DEF g
    <2>4. Meant!Apart(g)
      BY <2>2 DEF g
    <2>5. \A i, j \in 1 .. b : c.aggs[i].name = c.aggs[j].name => i = j
      BY <2>3, <2>4 DEF Meant!Apart
    <2> QED
      BY <1>1, <1>4, <2>1, <2>5, CallsAssumption
  <1>15. StringsAfter(q, c) =
             (q.strings \cap Meant!ToNames(c.cols)) \cup Meant!StringAggs(q, c.aggs)
    BY <1>1 DEF StringsAfter
  <1>16. q.strings \subseteq q.cols
    BY DEF StringsRight
  <1>17. /\ \A k \in 1 .. a : c.cols[k] \in Meant!ToNames(c.cols)
         /\ Meant!ToNames(c.cols) \subseteq q.cols
         /\ \A n : n \in Meant!StringAggs(q, c.aggs) <=>
                \E k \in 1 .. b : /\ n = c.aggs[k].name
                                  /\ c.aggs[k].fun \in {"MIN", "MAX"}
                                  /\ c.aggs[k].col \in q.strings
    BY <1>4, <1>13 DEF Meant!ToNames, Meant!StringAggs
  <1> DEFINE Type(name) == IF name \in StringsAfter(q, c) THEN "string" ELSE "int64"
  <1>18. ASSUME NEW k \in 1 .. a PROVE IsCol(s[k]) /\ s[k].type = Type(s[k].name)
    <2>1. /\ s[k].name = c.cols[k] /\ IsCol(s[k])
          /\ s[k].type = IF c.cols[k] \in q.strings THEN "string" ELSE "int64"
      BY <1>7, <1>10, <1>12, <1>13 DEF TypeOf
    <2>2. c.cols[k] \notin Meant!StringAggs(q, c.aggs)
      BY <1>13, <1>14, <1>17
    <2>3. c.cols[k] \in StringsAfter(q, c) <=> c.cols[k] \in q.strings
      BY <1>15, <1>17, <2>2
    <2> QED
      BY <2>1, <2>3
  <1>19. ASSUME NEW k \in 1 .. b
         PROVE  IsCol(s[a + k]) /\ s[a + k].type = Type(s[a + k].name)
    <2>1. /\ IsCol(s[a + k]) /\ s[a + k].name = c.aggs[k].name
          /\ s[a + k].type = AggType(p, c.aggs[k])
      BY <1>8, <1>10
    <2>2. s[a + k].type = IF c.aggs[k].fun \in {"MIN", "MAX"} /\ c.aggs[k].col \in q.strings
                          THEN "string" ELSE "int64"
      <3>1. CASE c.aggs[k].fun \in {"MIN", "MAX"}
        <4>1. c.aggs[k].col # NoCol
          BY <1>14, <3>1
        <4> QED
          BY <1>12, <1>13, <2>1, <3>1, <4>1 DEF AggType
      <3>2. CASE c.aggs[k].fun \notin {"MIN", "MAX"}
        BY <2>1, <3>2 DEF AggType
      <3> QED
        BY <3>1, <3>2
    <2>3. c.aggs[k].name \notin q.strings
      BY <1>14, <1>16
    <2>4. c.aggs[k].name \in Meant!StringAggs(q, c.aggs) <=>
              c.aggs[k].fun \in {"MIN", "MAX"} /\ c.aggs[k].col \in q.strings
      BY <1>14, <1>17
    <2>5. c.aggs[k].name \in StringsAfter(q, c) <=>
              c.aggs[k].fun \in {"MIN", "MAX"} /\ c.aggs[k].col \in q.strings
      BY <1>15, <2>3, <2>4
    <2> QED
      BY <2>1, <2>2, <2>5
  <1>20. Typed(s, StringsAfter(q, c))
    <2>1. ASSUME NEW k \in 1 .. a + b
          PROVE  IsCol(s[k]) /\ s[k].type = Type(s[k].name)
      <3>1. CASE k \in 1 .. a
        BY <1>18, <3>1
      <3>2. ASSUME NEW m \in 1 .. b, k = a + m
            PROVE  IsCol(s[k]) /\ s[k].type = Type(s[k].name)
        BY <1>19, <3>2
      <3> QED
        BY <1>11, <3>1, <3>2
    <2> QED
      BY <1>10, <2>1 DEF Typed
  <1> QED
    BY <1>1, <1>9, <1>20 DEF KeepsTypes

\* Every call.
LEMMA CallTyped ==
    ASSUME NEW c \in Calls, Call(c), c.fn # "Count", NEW q, Meant!Sensible(q, c),
           OrderKnown(q.cols), Lay(plan, parser, q.cols),
           StringsRight(q), Typed(parser.schema, q.strings)
    PROVE  KeepsTypes(c, q)
  <1>1. c.fn \in Fns \ {"Count"}
    BY DEF Call, Where, Case, Add, GroupBy, Count, OrderBy, OffsetCall, LimitCall,
        Rename, Select, Fns
  <1>2. PICK p : p = LookUp(c)
    OBVIOUS
  <1>3. Typed(p.schema, q.strings) /\ Grown(parser, p)
    BY <1>1, <1>2, LookUpTyped
  <1>4. /\ Lay(plan, p, q.cols) /\ DOMAIN p = {"scan", "schema", "opts"}
        /\ IsSeq(p.schema) /\ Having(p.schema) \subseteq q.cols /\ Distinct(p.schema)
        /\ Len(parser.schema) \in Nat
    BY <1>1, <1>2, LookUpLay, SeqLen DEF Lay
  <1>5. q.strings \subseteq q.cols
    BY DEF StringsRight
  <1>6. Grown(parser, parser)
    BY <1>4 DEF Grown
  <1>16. Meant!RightType(q, c)
    BY DEF Meant!Sensible
  <1>7. CASE Where(c)
    <2>1. parser' = PushDown(p, c.pred) /\ c.fn = "Where"
      BY <1>2, <1>7 DEF Where
    <2>2. parser'.schema = p.schema /\ parser'.scan = p.scan
      BY <1>4, <2>1, PushedDown
    <2> QED
      BY <1>3, <1>4, <2>1, <2>2, PlainTyped
  <1>8. CASE Case(c)
    <2>1. PICK o : parser' = AddToSchema([p EXCEPT !.opts = o], c.name, CaseType(p, c))
      BY <1>2, <1>8 DEF Case
    <2>2. parser'.schema = Append(p.schema, [name |-> c.name, type |-> CaseType(p, c)])
      BY <1>4, <2>1 DEF AddToSchema
    <2>3. c.fn = "Case" /\ c.name \notin q.cols
      BY <1>8 DEF Case, Meant!Sensible, Meant!Made
    <2>5. /\ c.then.col # NoCol => c.then.col \in Having(p.schema)
          /\ c.else.col # NoCol => c.else.col \in Having(p.schema)
      BY <1>2, <2>3, ReadColumnsFound
    <2>6. CaseType(p, c) = Meant!TypeOf(q, c.then) /\ CaseType(p, c) \in {"int64", "string"}
      BY <1>3, <1>4, <1>16, <2>3, <2>5, CaseTypes
    <2>4. StringsAfter(q, c) =
            IF CaseType(p, c) = "string" THEN q.strings \cup {c.name} ELSE q.strings
      BY <2>3, <2>6 DEF StringsAfter
    <2> QED
      BY <1>3, <1>4, <1>5, <2>2, <2>3, <2>4, <2>6, AddedTyped
  <1>9. CASE Add(c)
    <2>1. parser' = AddToSchema(p, c.expr.name, ExprType(p, c.expr))
      BY <1>2, <1>9 DEF Add
    <2>2. parser'.schema = Append(p.schema, [name |-> c.expr.name, type |-> ExprType(p, c.expr)])
      BY <1>4, <2>1 DEF AddToSchema
    <2>3. c.fn = "Add" /\ c.expr.name \notin q.cols
      BY <1>9 DEF Add, Meant!Sensible, Meant!Made
    <2>5. /\ c.expr.col # NoCol => c.expr.col \in Having(p.schema)
          /\ Expression(c.expr) /\ Meant!Suited(q, c.expr)
      BY <1>2, <1>16, <2>3, ReadColumnsFound, CallsAssumption DEF Meant!RightType
    <2>6. /\ ExprType(p, c.expr) = Meant!TypeOf(q, c.expr)
          /\ ExprType(p, c.expr) \in {"int64", "string"}
      BY <1>3, <1>4, <2>5, ExprFits
    <2>4. StringsAfter(q, c) =
            IF ExprType(p, c.expr) = "string" THEN q.strings \cup {c.expr.name} ELSE q.strings
      BY <2>3, <2>6 DEF StringsAfter
    <2> QED
      BY <1>3, <1>4, <1>5, <2>2, <2>3, <2>4, <2>6, AddedTyped
  <1>10. CASE GroupBy(c)
    BY <1>2, <1>3, <1>10, GroupedTyped
  <1>11. CASE OrderBy(c) \/ OffsetCall(c)
    <2>1. parser' = parser /\ c.fn \in {"OrderBy", "Offset"}
      BY <1>11 DEF OrderBy, OffsetCall
    <2> QED
      BY <1>4, <1>6, <2>1, PlainTyped
  <1>12. CASE LimitCall(c)
    <2>1. (parser' = parser \/ parser' = p) /\ c.fn = "Limit"
      BY <1>2, <1>12 DEF LimitCall
    <2> QED
      BY <1>3, <1>4, <1>6, <2>1, PlainTyped
  <1>13. CASE Rename(c)
    <2>1. parser' = [p EXCEPT !.schema[IndexOf(p.schema, c.from)].name = c.to]
      BY <1>2, <1>13 DEF Rename, Id
    <2>2. c.fn = "Rename" /\ c.from \in q.cols /\ c.to \notin q.cols
      BY <1>13 DEF Rename, Meant!Sensible, Meant!Made, Meant!Mentioned
    <2>3. c.from \in Having(p.schema)
      <3>1. LookedUp(c) = <<c.from>> /\ 1 \in 1 .. Len(<<c.from>>) /\ <<c.from>>[1] = c.from
        BY <2>2 DEF LookedUp
      <3>2. \A i \in 1 .. Len(LookedUp(c)) :
                LookedUp(c)[i] \in q.cols => LookedUp(c)[i] \in Having(p.schema)
        BY <1>1, <1>2, LookUpLay
      <3> QED
        BY <2>2, <3>1, <3>2
    <2> QED
      BY <1>3, <1>4, <1>5, <2>1, <2>2, <2>3, RenamedTyped
  <1>14. CASE Select(c)
    <2>1. parser' = p /\ c.fn = "Select"
      BY <1>2, <1>14 DEF Select
    <2> QED
      BY <1>3, <1>4, <2>1, PlainTyped
  <1>15. ~ Count(c)
    BY DEF Count
  <1> QED
    BY <1>7, <1>8, <1>9, <1>10, <1>11, <1>12, <1>13, <1>14, <1>15 DEF Call

-----------------------------------------------------------------------------
(* The layout after each call                                              *)

LEMMA WhereLay ==
    ASSUME NEW c \in Calls, Where(c), NEW q, Meant!Sensible(q, c),
           OrderKnown(q.cols), Lay(plan, parser, q.cols),
           StringsRight(q), Typed(parser.schema, q.strings)
    PROVE  Lay(plan', parser', ColsAfter(q.cols, c))
  <1>1. PICK p : p = LookUp(c)
    OBVIOUS
  <1>2. c.fn = "Where" /\ c.fn \in Fns \ {"Count"}
    BY DEF Where, Fns
  <1>3. /\ Lay(plan, p, q.cols) /\ Typed(p.schema, q.strings)
        /\ IsSeq(p.schema) /\ DOMAIN p = {"scan", "schema", "opts"}
    BY <1>1, <1>2, LookUpLay, LookUpTyped DEF Lay
  <1>4. parser' = PushDown(p, c.pred)
    BY <1>1 DEF Where
  <1>5. PICK n : /\ n.op = "Filter" /\ n.id = Id(p, c.pred.col) /\ n.takes = c.pred.type
                 /\ plan' = Append(plan, n)
    BY <1>1 DEF Where
  <1>9. /\ DOMAIN parser' = DOMAIN p /\ parser'.scan = p.scan
        /\ parser'.schema = p.schema
    BY <1>3, <1>4, PushedDown
  <1>6. Lay(plan, parser', q.cols)
    BY <1>3, <1>9, LayOptions
  <1>7. ColsAfter(q.cols, c) = q.cols
    BY <1>2 DEF ColsAfter
  <1>8. Fits(n, p.schema)
    <2>1. c.pred.col \in Having(p.schema) /\ c.pred.type = Meant!TypeIn(q, c.pred.col)
      BY <1>1, <1>2, ReadColumnsFound DEF Meant!Sensible, Meant!RightType
    <2>2. Reading(n, p.schema)
      BY <1>3, <1>5, <2>1, ColumnFits DEF Reading
    <2> QED
      BY <1>5, <2>2 DEF Fits, Parts
  <1>10. n.op \notin {"AddCol", "AddCase", "As", "Aggregate"} /\ Fits(n, parser'.schema)
    BY <1>5, <1>8, <1>9
  <1> QED
    BY <1>5, <1>6, <1>7, <1>10, LayPlain

LEMMA CaseLay ==
    ASSUME NEW c \in Calls, Case(c), NEW q, Meant!Sensible(q, c),
           OrderKnown(q.cols), Lay(plan, parser, q.cols),
           StringsRight(q), Typed(parser.schema, q.strings)
    PROVE  Lay(plan', parser', ColsAfter(q.cols, c))
  <1>1. PICK p : p = LookUp(c)
    OBVIOUS
  <1>2. c.fn = "Case" /\ c.fn \in Fns \ {"Count"} /\ Meant!RightType(q, c)
    BY DEF Case, Fns, Meant!Sensible
  <1>3. /\ Lay(plan, p, q.cols) /\ Typed(p.schema, q.strings)
        /\ IsSeq(p.schema) /\ DOMAIN p = {"scan", "schema", "opts"}
    BY <1>1, <1>2, LookUpLay, LookUpTyped DEF Lay
  <1>4. PICK o : parser' = AddToSchema([p EXCEPT !.opts = o], c.name, CaseType(p, c))
    BY <1>1 DEF Case
  <1>5. /\ DOMAIN parser' = {"scan", "schema", "opts"} /\ parser'.scan = p.scan
        /\ parser'.schema = Append(p.schema, [name |-> c.name, type |-> CaseType(p, c)])
    <2> DEFINE r == [p EXCEPT !.opts = o]
    <2>1. /\ DOMAIN r = {"scan", "schema", "opts"}
          /\ r.scan = p.scan /\ r.schema = p.schema
      BY <1>3
    <2>2. parser' = AddToSchema(r, c.name, CaseType(p, c))
      BY <1>4
    <2> HIDE DEF r
    <2> QED
      BY <2>1, <2>2 DEF AddToSchema
  <1>6. PICK n : /\ n.op = "AddCase" /\ n.at = Len(p.schema) /\ n.name = c.name
                 /\ n.id = Id(p, c.pred.col) /\ n.takes = c.pred.type
                 /\ n.then = Compiled(p, c.then) /\ n.else = Compiled(p, c.else)
                 /\ n.type = CaseType(p, c)
                 /\ plan' = Append(plan, n)
    BY <1>1, <1>2 DEF Case, AddNode
  <1>9. Fits(n, p.schema)
    <2>1. /\ c.pred.col \in Having(p.schema) /\ c.pred.type = Meant!TypeIn(q, c.pred.col)
          /\ c.then.col # NoCol => c.then.col \in Having(p.schema)
          /\ c.else.col # NoCol => c.else.col \in Having(p.schema)
      BY <1>1, <1>2, ReadColumnsFound DEF Meant!RightType
    <2>2. Reading(n, p.schema)
      BY <1>3, <1>6, <2>1, ColumnFits DEF Reading
    <2>3. /\ Reading(n.then, p.schema) /\ Reading(n.else, p.schema)
          /\ n.then.type = n.type /\ n.else.type = n.type
      BY <1>2, <1>3, <1>6, <2>1, CaseTypes
    <2>4. n.at \in 0 .. Len(p.schema)
      BY <1>3, <1>6, SeqLen
    <2> QED
      BY <1>6, <2>2, <2>3, <2>4 DEF Fits, Parts
  <1>7. c.name \notin Real /\ c.name \notin q.cols
    BY <1>2 DEF Meant!Sensible, Meant!Made, Real
  <1>8. ColsAfter(q.cols, c) = q.cols \cup {n.name}
    BY <1>2, <1>6 DEF ColsAfter
  <1>10. parser'.schema = Append(p.schema, [name |-> n.name, type |-> n.type])
    BY <1>5, <1>6
  <1>11. PICK r : r = parser'
    OBVIOUS
  <1>12. Lay(Append(plan, n), r, q.cols \cup {n.name})
    BY <1>3, <1>5, <1>6, <1>7, <1>9, <1>10, <1>11, LayAdded
  <1> QED
    BY <1>6, <1>8, <1>11, <1>12

LEMMA AddLay ==
    ASSUME NEW c \in Calls, Add(c), NEW q, Meant!Sensible(q, c),
           OrderKnown(q.cols), Lay(plan, parser, q.cols),
           StringsRight(q), Typed(parser.schema, q.strings)
    PROVE  Lay(plan', parser', ColsAfter(q.cols, c))
  <1>1. PICK p : p = LookUp(c)
    OBVIOUS
  <1>2. c.fn = "Add" /\ c.fn \in Fns \ {"Count"} /\ Meant!RightType(q, c)
    BY DEF Add, Fns, Meant!Sensible
  <1>3. /\ Lay(plan, p, q.cols) /\ Typed(p.schema, q.strings)
        /\ IsSeq(p.schema) /\ DOMAIN p = {"scan", "schema", "opts"}
    BY <1>1, <1>2, LookUpLay, LookUpTyped DEF Lay
  <1>4. parser' = AddToSchema(p, c.expr.name, ExprType(p, c.expr))
    BY <1>1 DEF Add
  <1>5. /\ DOMAIN parser' = {"scan", "schema", "opts"} /\ parser'.scan = p.scan
        /\ parser'.schema = Append(p.schema, [name |-> c.expr.name,
                                              type |-> ExprType(p, c.expr)])
    BY <1>3, <1>4 DEF AddToSchema
  <1>6. PICK n : /\ n.op = "AddCol" /\ n.at = Len(p.schema) /\ n.name = c.expr.name
                 /\ n.expr = Compiled(p, c.expr) /\ n.type = ExprType(p, c.expr)
                 /\ plan' = Append(plan, n)
    BY <1>1, <1>2 DEF Add, AddNode
  <1>9. Fits(n, p.schema)
    <2>1. /\ c.expr.col # NoCol => c.expr.col \in Having(p.schema)
          /\ Expression(c.expr) /\ Meant!Suited(q, c.expr)
      BY <1>1, <1>2, ReadColumnsFound, CallsAssumption DEF Meant!RightType
    <2>2. Reading(n.expr, p.schema)
      BY <1>3, <1>6, <2>1, ExprFits
    <2>3. n.at \in 0 .. Len(p.schema)
      BY <1>3, <1>6, SeqLen
    <2> QED
      BY <1>6, <2>2, <2>3 DEF Fits, Parts
  <1>7. c.expr.name \notin Real /\ c.expr.name \notin q.cols
    BY <1>2 DEF Meant!Sensible, Meant!Made, Real
  <1>8. ColsAfter(q.cols, c) = q.cols \cup {n.name}
    BY <1>2, <1>6 DEF ColsAfter
  <1>10. parser'.schema = Append(p.schema, [name |-> n.name, type |-> n.type])
    BY <1>5, <1>6
  <1>11. PICK r : r = parser'
    OBVIOUS
  <1>12. Lay(Append(plan, n), r, q.cols \cup {n.name})
    BY <1>3, <1>5, <1>6, <1>7, <1>9, <1>10, <1>11, LayAdded
  <1> QED
    BY <1>6, <1>8, <1>11, <1>12

LEMMA RenameLay ==
    ASSUME NEW c \in Calls, Rename(c), NEW q, Meant!Sensible(q, c),
           OrderKnown(q.cols), Lay(plan, parser, q.cols)
    PROVE  Lay(plan', parser', ColsAfter(q.cols, c))
  <1>1. PICK p : p = LookUp(c)
    OBVIOUS
  <1>2. c.fn = "Rename" /\ c.fn \in Fns \ {"Count"}
    BY DEF Rename, Fns
  <1>3. Lay(plan, p, q.cols)
    BY <1>1, <1>2, LookUpLay
  <1>4. c.from \in q.cols /\ c.to \notin Real /\ c.to \notin q.cols
    BY <1>2 DEF Meant!Sensible, Meant!Made, Meant!Mentioned, Real
  <1>5. c.from \in Having(p.schema)
    <2>1. LookedUp(c) = <<c.from>> /\ 1 \in 1 .. Len(<<c.from>>) /\ <<c.from>>[1] = c.from
      BY <1>2 DEF LookedUp
    <2>2. \A i \in 1 .. Len(LookedUp(c)) :
              LookedUp(c)[i] \in q.cols => LookedUp(c)[i] \in Having(p.schema)
      BY <1>1, <1>2, LookUpLay
    <2> QED
      BY <1>4, <2>1, <2>2
  <1>6. parser' = [p EXCEPT !.schema[IndexOf(p.schema, c.from)].name = c.to]
    BY <1>1 DEF Rename, Id
  <1>7. plan' = Append(plan, [op |-> "As", from |-> c.from, to |-> c.to])
    BY DEF Rename
  <1>8. ColsAfter(q.cols, c) = {IF m = c.from THEN c.to ELSE m : m \in q.cols}
    BY <1>2 DEF ColsAfter, Meant!RenamedTo
  <1> QED
    BY <1>3, <1>4, <1>5, <1>6, <1>7, <1>8, LayRenamed

LEMMA GroupByLay ==
    ASSUME NEW c \in Calls, GroupBy(c), NEW q, Meant!Sensible(q, c),
           OrderKnown(q.cols), Lay(plan, parser, q.cols),
           StringsRight(q), Typed(parser.schema, q.strings)
    PROVE  Lay(plan', parser', ColsAfter(q.cols, c))
  <1>1. PICK p : p = LookUp(c)
    OBVIOUS
  <1>2. c.fn = "GroupBy" /\ c.fn \in Fns \ {"Count"} /\ Meant!RightType(q, c)
    BY DEF GroupBy, Fns, Meant!Sensible
  <1>3. /\ Lay(plan, p, q.cols) /\ Typed(p.schema, q.strings)
        /\ IsSeq(p.schema) /\ DOMAIN p = {"scan", "schema", "opts"}
    BY <1>1, <1>2, LookUpLay, LookUpTyped DEF Lay
  <1>4. PICK a, b \in Nat : a = Len(c.cols) /\ b = Len(c.aggs)
    BY <1>2, CallsAssumption, SeqLen DEF IsSeq
  <1> DEFINE ids == [k \in 1 .. Len(c.cols) |-> Id(p, c.cols[k])]
             aggs == [k \in 1 .. Len(c.aggs) |-> CompiledAgg(p, c.aggs[k])]
             n == [op |-> "Aggregate", names |-> c.cols, aggs |-> aggs, ids |-> ids]
             A == [k \in 1 .. Len(c.cols) |-> p.schema[Id(p, c.cols[k])]]
             B == [k \in 1 .. Len(aggs) |-> [name |-> aggs[k].name, type |-> aggs[k].type]]
  <1>5. plan' = Append(plan, n) /\ parser' = [p EXCEPT !.schema = A \o B]
    BY <1>1 DEF GroupBy
  <1>6. /\ n.op = "Aggregate" /\ n.names = c.cols /\ n.aggs = aggs /\ n.ids = ids
        /\ IsSeq(c.cols)
    BY <1>2, CallsAssumption DEF IsSeq
  <1>7. /\ IsSeq(aggs) /\ Len(aggs) = b
        /\ \A k \in 1 .. b : aggs[k] = CompiledAgg(p, c.aggs[k])
    BY <1>4, MadeSeq
  <1>8. /\ IsSeq(ids) /\ Len(ids) = a
        /\ \A k \in 1 .. a : ids[k] = Id(p, c.cols[k])
    BY <1>4, MadeSeq
  <1>9. IsSeq(A) /\ Len(A) = a /\ \A k \in 1 .. a : A[k] = p.schema[Id(p, c.cols[k])]
    BY <1>4, MadeSeq
  <1>10. /\ IsSeq(B) /\ Len(B) = b
         /\ \A k \in 1 .. b : B[k] = [name |-> aggs[k].name, type |-> aggs[k].type]
    BY <1>7, MadeSeq
  <1> HIDE DEF n, A, B, aggs, ids
  <1>11. \A k \in 1 .. b : aggs[k].name = c.aggs[k].name
    BY <1>7 DEF CompiledAgg
  <1>12. /\ \A k \in 1 .. a : c.cols[k] \in q.cols /\ c.cols[k] \in Having(p.schema)
         /\ \A k \in 1 .. b : c.aggs[k].col # NoCol => c.aggs[k].col \in Having(p.schema)
    BY <1>1, <1>2, <1>4, GroupColumnsFound
  <1>13. \A k \in 1 .. b : c.aggs[k].name \notin Real /\ c.aggs[k].name \notin q.cols
    BY <1>2, <1>4 DEF Meant!Sensible, Meant!Made, Meant!AggNames, Real
  <1>14. /\ \A i, j \in 1 .. a : c.cols[i] = c.cols[j] => i = j
         /\ \A i, j \in 1 .. b : c.aggs[i].name = c.aggs[j].name => i = j
    <2>1. Meant!Apart(c.cols) /\ Meant!Apart([i \in 1 .. Len(c.aggs) |-> c.aggs[i].name])
      BY <1>2 DEF Meant!Sensible, Meant!GroupedApart
    <2> DEFINE g == [i \in 1 .. Len(c.aggs) |-> c.aggs[i].name]
    <2>2. Len(g) = b /\ \A i \in 1 .. b : g[i] = c.aggs[i].name
      BY <1>4, MadeSeq
    <2> HIDE DEF g
    <2>3. Meant!Apart(g)
      BY <2>1 DEF g
    <2> QED
      BY <1>4, <2>1, <2>2, <2>3 DEF Meant!Apart
  <1>15. \A k \in 1 .. a : /\ ids[k] \in 1 .. Len(p.schema)
                           /\ A[k] = p.schema[ids[k]] /\ A[k].name = c.cols[k]
    BY <1>3, <1>8, <1>9, <1>12, ColumnFits
  <1>16. \A k \in 1 .. b : Reading(aggs[k], p.schema)
    <2> TAKE k \in 1 .. b
    <2>1. /\ c.aggs[k].col = NoCol <=> c.aggs[k].fun = "COUNT"
          /\ c.aggs[k].fun \in {"SUM", "AVG"} => c.aggs[k].col \notin q.strings
      BY <1>2, <1>4, CallsAssumption DEF Meant!RightType
    <2> QED
      BY <1>3, <1>7, <1>12, <2>1, AggFits
  <1>21. Fits(n, p.schema)
    BY <1>6, <1>7, <1>8, <1>15, <1>16 DEF Fits, Parts
  <1>17. GroupedAs(n, p, q.cols, A, B)
    <2>1. \A k \in 1 .. Len(n.aggs) :
              /\ B[k] = [name |-> n.aggs[k].name, type |-> n.aggs[k].type]
              /\ n.aggs[k].name \notin Real /\ n.aggs[k].name \notin q.cols
      BY <1>6, <1>7, <1>10, <1>11, <1>13
    <2>2. \A k \in 1 .. Len(n.names) :
              /\ A[k] = p.schema[n.ids[k]] /\ A[k].name = n.names[k]
              /\ n.names[k] \in Having(p.schema)
      BY <1>4, <1>6, <1>12, <1>15
    <2>3. /\ \A i, j \in 1 .. Len(n.names) : n.names[i] = n.names[j] => i = j
          /\ \A i, j \in 1 .. Len(n.aggs) : n.aggs[i].name = n.aggs[j].name => i = j
      BY <1>4, <1>6, <1>7, <1>11, <1>14
    <2>4. /\ n.op = "Aggregate" /\ IsSeq(n.names) /\ IsSeq(n.aggs) /\ Len(n.ids) = Len(n.names)
          /\ IsSeq(A) /\ Len(A) = Len(n.names) /\ IsSeq(B) /\ Len(B) = Len(n.aggs)
      BY <1>4, <1>6, <1>7, <1>8, <1>9, <1>10
    <2> QED
      BY <1>21, <2>1, <2>2, <2>3, <2>4 DEF GroupedAs
  <1>19. PICK r : r = parser'
    OBVIOUS
  <1>22. /\ DOMAIN r = {"scan", "schema", "opts"} /\ r.scan = p.scan
         /\ r.schema = A \o B
    BY <1>3, <1>5, <1>19
  <1>18. ColsAfter(q.cols, c) = {n.names[k] : k \in 1 .. Len(n.names)} \cup
                                {n.aggs[k].name : k \in 1 .. Len(n.aggs)}
    <2>1. ColsAfter(q.cols, c) = {c.cols[k] : k \in 1 .. Len(c.cols)} \cup
                                 {c.aggs[k].name : k \in 1 .. Len(c.aggs)}
      BY <1>2 DEF ColsAfter, Meant!ToNames, Meant!AggNames
    <2>2. {n.aggs[k].name : k \in 1 .. Len(n.aggs)} =
          {c.aggs[k].name : k \in 1 .. Len(c.aggs)}
      BY <1>4, <1>6, <1>7, <1>11
    <2> QED
      BY <1>6, <2>1, <2>2
  <1>20. Lay(Append(plan, n), r, {n.names[k] : k \in 1 .. Len(n.names)} \cup
                                 {n.aggs[k].name : k \in 1 .. Len(n.aggs)})
    BY <1>3, <1>17, <1>22, LayGrouped
  <1> QED
    BY <1>5, <1>18, <1>19, <1>20

LEMMA AddOne ==
    ASSUME NEW s, IsSeq(s), NEW x
    PROVE  s \o <<x>> = Append(s, x) /\ s \o <<>> = s
  <1>1. PICK S : s \in Seq(S)
    BY DEF IsSeq
  <1>2. s \in Seq(S \cup {x}) /\ x \in S \cup {x}
    BY <1>1
  <1> QED
    BY <1>2, AppendIsConcat, ConcatEmptySeq

LEMMA LimitLay ==
    ASSUME NEW c \in Calls, LimitCall(c), NEW q, Meant!Sensible(q, c),
           OrderKnown(q.cols), Lay(plan, parser, q.cols)
    PROVE  Lay(plan', parser', ColsAfter(q.cols, c))
  <1>1. PICK p : p = LookUp(c)
    OBVIOUS
  <1>2. c.fn = "Limit" /\ c.fn \in Fns \ {"Count"}
    BY DEF LimitCall, Fns
  <1>3. Lay(plan, p, q.cols) /\ IsSeq(plan)
    BY <1>1, <1>2, LookUpLay DEF Lay
  <1>4. ColsAfter(q.cols, c) = q.cols
    BY <1>2 DEF ColsAfter
  <1>5. CASE order # NoOrder
    <2> DEFINE topK == [op |-> "TopK", id |-> Id(p, order.col), desc |-> order.desc,
                        id2 |-> IF order.col2 = NoCol THEN 0 ELSE Id(p, order.col2),
                        n |-> c.n + pendingOffset]
               skip == [op |-> "Offset", n |-> pendingOffset]
    <2>1. /\ topK.op = "TopK" /\ skip.op = "Offset"
          /\ Fits(topK, p.schema) /\ Fits(skip, p.schema)
          /\ plan' = plan \o <<topK>> \o (IF pendingOffset > 0 THEN <<skip>> ELSE <<>>)
      <3>1. Len(p.schema) \in Nat /\ \A name : Id(p, name) \in 0 .. Len(p.schema)
        BY <1>3, IdInside
      <3>2. Fits(topK, p.schema)
        BY <3>1 DEF Fits, Parts
      <3>3. Fits(skip, p.schema)
        BY DEF Fits, Parts
      <3> QED
        BY <1>1, <1>5, <3>2, <3>3 DEF LimitCall
    <2> HIDE DEF topK, skip
    <2>2. parser' = p
      BY <1>1, <1>5 DEF LimitCall
    <2>3. plan \o <<topK>> = Append(plan, topK)
      BY <1>3, AddOne
    <2>4. /\ topK.op \notin {"AddCol", "AddCase", "As", "Aggregate"}
          /\ skip.op \notin {"AddCol", "AddCase", "As", "Aggregate"}
      BY <2>1
    <2>5. Lay(Append(plan, topK), p, q.cols)
      BY <1>3, <2>1, <2>4, LayPlain
    <2>6. Lay(Append(plan, topK), p, q.cols) /\ IsSeq(Append(plan, topK))
      BY <2>5 DEF Lay
    <2>7. plan' = Append(plan, topK) \/ plan' = Append(Append(plan, topK), skip)
      BY <2>1, <2>3, <2>6, AddOne
    <2>8. Lay(Append(Append(plan, topK), skip), p, q.cols)
      BY <2>1, <2>4, <2>6, LayPlain
    <2> QED
      BY <1>4, <2>2, <2>6, <2>7, <2>8
  <1>6. CASE order = NoOrder
    <2>1. PICK n : n.op = "Limit" /\ plan' = Append(plan, n)
      BY <1>6 DEF LimitCall
    <2>2. parser' = parser
      BY <1>6 DEF LimitCall
    <2>3. Fits(n, parser.schema)
      BY <2>1 DEF Fits, Parts
    <2> QED
      BY <1>4, <2>1, <2>2, <2>3, LayPlain
  <1> QED
    BY <1>5, <1>6

LEMMA RestLay ==
    ASSUME NEW c \in Calls, OrderBy(c) \/ OffsetCall(c) \/ Select(c),
           NEW q, Meant!Sensible(q, c), OrderKnown(q.cols), Lay(plan, parser, q.cols)
    PROVE  Lay(plan', parser', ColsAfter(q.cols, c))
  <1>1. c.fn \in {"OrderBy", "Offset", "Select"} /\ c.fn \in Fns \ {"Count"}
    BY DEF OrderBy, OffsetCall, Select, Fns
  <1>2. ColsAfter(q.cols, c) = q.cols
    BY <1>1 DEF ColsAfter
  <1>3. CASE OrderBy(c)
    BY <1>2, <1>3 DEF OrderBy
  <1>4. CASE OffsetCall(c)
    <2>1. plan' = plan \/ plan' = Append(plan, [op |-> "Offset", n |-> c.n])
      BY <1>4 DEF OffsetCall
    <2>2. parser' = parser
      BY <1>4 DEF OffsetCall
    <2>3. Lay(Append(plan, [op |-> "Offset", n |-> c.n]), parser, q.cols)
      <3>1. /\ [op |-> "Offset", n |-> c.n].op \notin {"AddCol", "AddCase", "As", "Aggregate"}
            /\ Fits([op |-> "Offset", n |-> c.n], parser.schema)
        BY DEF Fits, Parts
      <3> QED
        BY <3>1, LayPlain
    <2> QED
      BY <1>2, <2>1, <2>2, <2>3
  <1>5. CASE Select(c)
    <2>1. parser' = LookUp(c) /\ plan' = plan
      BY <1>5 DEF Select
    <2>2. Lay(plan, LookUp(c), q.cols)
      BY <1>1, LookUpLay
    <2> QED
      BY <1>2, <2>1, <2>2
  <1> QED
    BY <1>3, <1>4, <1>5

\* Each call keeps the layout.
LEMMA CallLay ==
    ASSUME NEW c \in Calls, Call(c), c.fn # "Count", NEW q, Meant!Sensible(q, c),
           OrderKnown(q.cols), Lay(plan, parser, q.cols),
           StringsRight(q), Typed(parser.schema, q.strings)
    PROVE  Lay(plan', parser', ColsAfter(q.cols, c))
  <1>1. ~ Count(c)
    BY DEF Count
  <1>2. \/ Where(c) \/ Case(c) \/ Add(c) \/ GroupBy(c) \/ OrderBy(c)
        \/ OffsetCall(c) \/ LimitCall(c) \/ Rename(c) \/ Select(c)
    BY <1>1 DEF Call
  <1> QED
    BY <1>2, WhereLay, CaseLay, AddLay, GroupByLay, LimitLay, RenameLay, RestLay

-----------------------------------------------------------------------------
(* The names in the chain: while it is made                                *)

\* Count leaves cur_schema_ as it was.
NoCount == \A i \in 1 .. Len(calls) : calls[i].fn # "Count"

\* The queries LayoutAgrees is about.
Good == InScope /\ OrdersKept /\ NoCount

AsMeant == Meant!Meaning(table, calls)

\* While the chain is made it has the layout, and a pending order its columns;
\* the columns have the types the calls give them.
BuildNames ==
    phase = "build" =>
        /\ IsMeaning(AsMeant)
        /\ Good => /\ Lay(plan, parser, AsMeant.cols)
                   /\ StringsRight(AsMeant) /\ Typed(parser.schema, AsMeant.strings)
                   /\ OrderKnown(AsMeant.cols)
                   /\ order # NoOrder => OrderPending(Len(calls))

LEMMA InitNames == QueryInit => BuildNames
  <1> SUFFICES ASSUME QueryInit PROVE BuildNames
    OBVIOUS
  <1>1. calls = <<>> /\ plan = <<>> /\ order = NoOrder
        /\ parser = [scan |-> <<>>, schema |-> <<>>,
                     opts |-> [c \in 1 .. Len(RealSchema) |-> NoOptions]]
    BY DEF QueryInit, Init
  <1>2. AsMeant = Meant!WholeFile(table)
    BY <1>1, MeaningNone DEF AsMeant
  <1>3. IsMeaning(AsMeant) /\ AsMeant.cols = Real /\ StringsRight(AsMeant)
    BY <1>2, WholeFileMeaning, WholeFileStrings
  <1>4. /\ parser.scan = <<>> /\ parser.schema = <<>>
        /\ DOMAIN parser = {"scan", "schema", "opts"}
    BY <1>1
  <1>5. ScanCols(<<>>) = <<>> /\ Having(<<>>) = {}
    BY EmptyIsSeq DEF ScanCols, Having
  <1>6. Turns(<<>>, <<>>, <<>>)
    BY EmptyIsSeq, TurnsNone
  <1>7. \A k \in 1 .. Len(<<>>) : FALSE
    BY EmptyIsSeq
  <1>8. Distinct(<<>>) /\ ~ Grouping(<<>>)
    BY <1>7 DEF Distinct, Grouping
  <1>9. Lay(plan, parser, Real)
    BY <1>1, <1>4, <1>5, <1>6, <1>7, <1>8, EmptyIsSeq DEF Lay
  <1>10. Typed(parser.schema, AsMeant.strings)
    BY <1>4, <1>7 DEF Typed
  <1> QED
    BY <1>1, <1>3, <1>9, <1>10 DEF BuildNames, OrderKnown

\* The calls before call c, and an order that is pending.
LEMMA OrdersBefore ==
    ASSUME NEW c, IsSeq(calls), calls' = Append(calls, c)
    PROVE  /\ \A m \in 0 .. Len(calls) : OrderPending(m)' <=> OrderPending(m)
           /\ OrdersKept' =>
                  /\ OrdersKept
                  /\ c.fn \in {"GroupBy", "Count", "Rename"} => ~ OrderPending(Len(calls))'
           /\ OrderPending(Len(calls)) /\ c.fn # "Limit" => OrderPending(Len(calls))'
           /\ c.fn = "OrderBy" => OrderPending(Len(calls))'
  <1>1. /\ IsSeq(calls') /\ Len(calls') = Len(calls) + 1 /\ Len(calls) \in Nat
        /\ \A k \in 1 .. Len(calls) : calls'[k] = calls[k]
        /\ calls'[Len(calls) + 1] = c
    BY SeqAppend
  <1>2. PICK n \in Nat : n = Len(calls)
    BY <1>1
  <1>3. PICK cs : cs = calls'
    OBVIOUS
  <1>4. Len(cs) = n + 1 /\ cs[n + 1] = c /\ \A k \in 1 .. n : cs[k] = calls[k]
    BY <1>1, <1>2, <1>3
  <1>8. ASSUME NEW m \in 0 .. n PROVE OrderPending(m)' <=> OrderPending(m)
    <2>1. OrderPending(m)' <=> \E i \in 1 .. m :
              cs[i].fn = "OrderBy" /\ \A j \in i .. m : cs[j].fn # "Limit"
      BY <1>3 DEF OrderPending
    <2>2. OrderPending(m) <=> \E i \in 1 .. m :
              calls[i].fn = "OrderBy" /\ \A j \in i .. m : calls[j].fn # "Limit"
      BY DEF OrderPending
    <2>3. ASSUME NEW i \in 1 .. m
          PROVE  cs[i] = calls[i] /\ \A j \in i .. m : cs[j] = calls[j]
      BY <1>4
    <2>4. ASSUME NEW i \in 1 .. m
          PROVE  (cs[i].fn = "OrderBy" /\ \A j \in i .. m : cs[j].fn # "Limit") <=>
                 (calls[i].fn = "OrderBy" /\ \A j \in i .. m : calls[j].fn # "Limit")
      BY <2>3
    <2> QED
      BY <2>1, <2>2, <2>4
  <1>9. ASSUME OrdersKept'
        PROVE  /\ OrdersKept
               /\ c.fn \in {"GroupBy", "Count", "Rename"} => ~ OrderPending(Len(calls))'
    <2>1. \A i \in 1 .. n + 1 :
              cs[i].fn \in {"GroupBy", "Count", "Rename"} => ~ OrderPending(i)'
      BY <1>3, <1>4, <1>9 DEF OrdersKept, OrderPending
    <2>2. ASSUME NEW i \in 1 .. n, calls[i].fn \in {"GroupBy", "Count", "Rename"}
          PROVE  ~ OrderPending(i)
      BY <1>4, <1>8, <2>1, <2>2
    <2>3. n + 1 \in 1 .. n + 1 /\ Len(calls)' = n + 1
      BY <1>3, <1>4
    <2>4. c.fn \in {"GroupBy", "Count", "Rename"} => ~ OrderPending(n + 1)'
      BY <1>4, <2>1, <2>3
    <2> QED
      BY <1>2, <2>2, <2>3, <2>4 DEF OrdersKept, OrderPending
  <1>10. ASSUME OrderPending(Len(calls)), c.fn # "Limit" PROVE OrderPending(Len(calls))'
    <2>1. PICK i \in 1 .. n : calls[i].fn = "OrderBy" /\ \A j \in i .. n : calls[j].fn # "Limit"
      BY <1>2, <1>10 DEF OrderPending
    <2>2. i \in 1 .. n + 1 /\ cs[i].fn = "OrderBy"
      BY <1>4, <2>1
    <2>3. ASSUME NEW j \in i .. n + 1 PROVE cs[j].fn # "Limit"
      <3>1. j \in i .. n \/ j = n + 1
        OBVIOUS
      <3>2. CASE j = n + 1
        BY <1>4, <1>10, <3>2
      <3>3. CASE j \in i .. n
        BY <1>4, <2>1, <3>3
      <3> QED
        BY <3>1, <3>2, <3>3
    <2> QED
      BY <1>3, <1>4, <2>2, <2>3 DEF OrderPending
  <1>11. ASSUME c.fn = "OrderBy" PROVE OrderPending(Len(calls))'
    <2>1. n + 1 \in 1 .. n + 1 /\ \A j \in n + 1 .. n + 1 : j = n + 1
      OBVIOUS
    <2>2. cs[n + 1].fn = "OrderBy" /\ \A j \in n + 1 .. n + 1 : cs[j].fn # "Limit"
      BY <1>4, <1>11, <2>1
    <2> QED
      BY <1>3, <1>4, <2>1, <2>2 DEF OrderPending
  <1>12. \A m \in 0 .. Len(calls) : OrderPending(m)' <=> OrderPending(m)
    BY <1>2, <1>8
  <1> QED
    BY <1>9, <1>10, <1>11, <1>12

\* What a call says of the calls before it.
LEMMA GoodBefore ==
    ASSUME NEW c, c.fn \in Fns, IsSeq(calls), calls' = Append(calls, c), table' = table,
           IsMeaning(AsMeant)
    PROVE  /\ IsMeaning(AsMeant')
           /\ AsMeant' = Meant!Step(AsMeant, c)
           /\ Good' => /\ Good /\ Meant!Sensible(AsMeant, c) /\ c.fn # "Count"
                       /\ AsMeant'.cols = ColsAfter(AsMeant.cols, c)
           /\ OrderPending(Len(calls)) /\ c.fn # "Limit" =>
                  /\ OrderPending(Len(calls))'
                  /\ Good' => c.fn \notin {"GroupBy", "Rename"}
           /\ c.fn = "OrderBy" => OrderPending(Len(calls))'
  <1>1. /\ IsSeq(calls') /\ Len(calls') = Len(calls) + 1 /\ Len(calls) \in Nat
        /\ \A k \in 1 .. Len(calls) : calls'[k] = calls[k]
        /\ calls'[Len(calls) + 1] = c
    BY SeqAppend
  <1>2. PICK n \in Nat : n = Len(calls)
    BY <1>1
  <1>3. PICK cs : cs = calls'
    OBVIOUS
  <1>4. Len(cs) = n + 1 /\ cs[n + 1] = c /\ \A k \in 1 .. n : cs[k] = calls[k]
    BY <1>1, <1>2, <1>3
  <1>5. AsMeant' = Meant!Step(AsMeant, c)
    BY MeaningMore DEF AsMeant
  <1>6. /\ IsMeaning(AsMeant')
        /\ AsMeant'.sensible =>
               /\ AsMeant.sensible /\ Meant!Sensible(AsMeant, c)
               /\ c.fn # "Count" => AsMeant'.cols = ColsAfter(AsMeant.cols, c)
    BY <1>5, StepCols
  <1>7. ASSUME NoCount' PROVE NoCount /\ c.fn # "Count"
    <2>1. \A k \in 1 .. n + 1 : cs[k].fn # "Count"
      BY <1>3, <1>4, <1>7 DEF NoCount
    <2>2. n + 1 \in 1 .. n + 1 /\ \A k \in 1 .. n : k \in 1 .. n + 1
      OBVIOUS
    <2> QED
      BY <1>2, <1>4, <2>1, <2>2 DEF NoCount
  <1>8. /\ OrdersKept' =>
               /\ OrdersKept
               /\ c.fn \in {"GroupBy", "Count", "Rename"} => ~ OrderPending(Len(calls))'
        /\ OrderPending(Len(calls)) /\ c.fn # "Limit" => OrderPending(Len(calls))'
        /\ c.fn = "OrderBy" => OrderPending(Len(calls))'
    BY OrdersBefore
  <1> QED
    BY <1>5, <1>6, <1>7, <1>8 DEF Good, InScope, AsMeant

\* A pending order stays pending until the Limit, and keeps its columns.
LEMMA CallOrder ==
    ASSUME NEW c \in Calls, Call(c), c.fn # "Count", NEW q, Meant!Sensible(q, c),
           OrderKnown(q.cols), order # NoOrder => c.fn \notin {"GroupBy", "Rename"}
    PROVE  order' # NoOrder =>
               /\ {order'.col, order'.col2} \subseteq ColsAfter(q.cols, c) \cup {NoCol}
               /\ c.fn = "OrderBy" \/ (order # NoOrder /\ c.fn # "Limit")
  <1> SUFFICES ASSUME order' # NoOrder
               PROVE  /\ {order'.col, order'.col2} \subseteq ColsAfter(q.cols, c) \cup {NoCol}
                      /\ c.fn = "OrderBy" \/ (order # NoOrder /\ c.fn # "Limit")
    OBVIOUS
  <1>1. CASE OrderBy(c)
    <2>1. c.fn = "OrderBy" /\ order' = [col |-> c.col, desc |-> c.desc, col2 |-> c.col2]
      BY <1>1 DEF OrderBy
    <2>2. order'.col = c.col /\ order'.col2 = c.col2 /\ ColsAfter(q.cols, c) = q.cols
      BY <2>1 DEF ColsAfter
    <2>3. {c.col, c.col2} \ {NoCol} \subseteq q.cols
      BY <2>1 DEF Meant!Sensible, Meant!Mentioned
    <2> QED
      BY <2>1, <2>2, <2>3
  <1>2. CASE ~ OrderBy(c)
    <2>1. order' = order /\ c.fn # "Limit" /\ c.fn # "OrderBy"
      <3>1. \/ Where(c) \/ Case(c) \/ Add(c) \/ GroupBy(c)
            \/ OffsetCall(c) \/ LimitCall(c) \/ Rename(c) \/ Select(c)
        <4>1. ~ Count(c)
          BY DEF Count
        <4> QED
          BY <1>2, <4>1 DEF Call
      <3>2. CASE LimitCall(c)
        BY <3>2 DEF LimitCall
      <3>3. CASE Where(c)
        BY <3>3 DEF Where
      <3>4. CASE Case(c)
        BY <3>4 DEF Case
      <3>5. CASE Add(c)
        BY <3>5 DEF Add
      <3>6. CASE GroupBy(c)
        BY <3>6 DEF GroupBy
      <3>7. CASE OffsetCall(c)
        BY <3>7 DEF OffsetCall
      <3>8. CASE Rename(c)
        BY <3>8 DEF Rename
      <3>9. CASE Select(c)
        BY <3>9 DEF Select
      <3> QED
        BY <3>1, <3>2, <3>3, <3>4, <3>5, <3>6, <3>7, <3>8, <3>9
    <2>2. q.cols \subseteq ColsAfter(q.cols, c)
      BY <2>1 DEF ColsAfter
    <2> QED
      BY <2>1, <2>2 DEF OrderKnown
  <1> QED
    BY <1>1, <1>2

LEMMA CallNames ==
    ASSUME QInv, BuildNames, NEW c \in Calls, Call(c)
    PROVE  BuildNames'
  <1>1. /\ phase = "build" /\ phase' = "build" /\ calls' = Append(calls, c)
        /\ UNCHANGED table
    BY DEF Call, Building, Where, Case, Add, GroupBy, Count, OrderBy, OffsetCall,
        LimitCall, Rename, Select, buildRest, scanVars
  <1>2. IsSeq(calls) /\ IsMeaning(AsMeant)
    BY <1>1 DEF QInv, BuildInv, BuildNames
  <1>3. c.fn \in Fns
    BY DEF Call, Where, Case, Add, GroupBy, Count, OrderBy, OffsetCall, LimitCall,
        Rename, Select, Fns
  <1>4. IsMeaning(AsMeant') /\ AsMeant' = Meant!Step(AsMeant, c)
    BY <1>1, <1>2, <1>3, GoodBefore
  <1>5. ASSUME Good'
        PROVE  /\ Lay(plan', parser', AsMeant'.cols)
               /\ StringsRight(AsMeant') /\ Typed(parser'.schema, AsMeant'.strings)
               /\ order' # NoOrder =>
                      /\ {order'.col, order'.col2} \subseteq AsMeant'.cols \cup {NoCol}
                      /\ OrderPending(Len(calls))'
    <2>1. /\ Good /\ Meant!Sensible(AsMeant, c) /\ c.fn # "Count"
          /\ AsMeant'.cols = ColsAfter(AsMeant.cols, c)
      BY <1>1, <1>2, <1>3, <1>5, GoodBefore
    <2>2. /\ Lay(plan, parser, AsMeant.cols) /\ OrderKnown(AsMeant.cols)
          /\ StringsRight(AsMeant) /\ Typed(parser.schema, AsMeant.strings)
          /\ order # NoOrder => OrderPending(Len(calls))
      BY <1>1, <2>1 DEF BuildNames
    <2>3. PICK q : q = AsMeant
      OBVIOUS
    <2>4. Lay(plan', parser', ColsAfter(q.cols, c))
      BY <2>1, <2>2, <2>3, CallLay
    <2>5. /\ OrderPending(Len(calls)) /\ c.fn # "Limit" => OrderPending(Len(calls))'
          /\ OrderPending(Len(calls)) /\ c.fn # "Limit" => c.fn \notin {"GroupBy", "Rename"}
          /\ c.fn = "OrderBy" => OrderPending(Len(calls))'
      BY <1>1, <1>2, <1>3, <1>5, GoodBefore
    <2>6. order # NoOrder => c.fn \notin {"GroupBy", "Rename"}
      BY <2>2, <2>5
    <2>7. order' # NoOrder =>
              /\ {order'.col, order'.col2} \subseteq ColsAfter(q.cols, c) \cup {NoCol}
              /\ c.fn = "OrderBy" \/ (order # NoOrder /\ c.fn # "Limit")
      BY <2>1, <2>2, <2>3, <2>6, CallOrder
    <2>8. Typed(parser'.schema, StringsAfter(q, c))
      BY <2>1, <2>2, <2>3, CallTyped DEF KeepsTypes
    <2>9. AsMeant'.strings = StringsAfter(q, c) /\ StringsRight(AsMeant')
      BY <1>2, <1>3, <1>4, <2>1, <2>2, <2>3, StepStrings
    <2> QED
      BY <2>1, <2>2, <2>3, <2>4, <2>5, <2>7, <2>8, <2>9
  <1> QED
    BY <1>4, <1>5 DEF BuildNames, OrderKnown

-----------------------------------------------------------------------------
(* The names in the chain: while it runs                                   *)

\* What reaches Engine::Run may have the column that is read when the query
\* names none.
EndsRight(cols) ==
    \/ cols = parser.schema
    \/ parser.scan = <<>> /\ cols = Append(parser.schema, RealSchema[1])

\* An aggregation n with memory r, that has groups, has the types of the group
\* columns among cols.
KeysHold(r, n, cols) ==
    n.op = "Aggregate" /\ (r.groups # <<>> \/ r.out # <<>>) =>
        r.keys = KeyTypes(n, [cols |-> cols])

\* A batch has the columns of its place in the chain: one on its way up, those
\* that are kept, and those an aggregation has yet to make.
Carried(L) ==
    /\ dir \in {"up", "done"} /\ ret # NoBatch => ret.cols = L[act - 1]
    /\ \A m \in 1 .. Len(plan) + 1 :
           mem[m].batch # NoBatch => mem[m].batch.cols = L[m - 1]
    /\ \A m \in 1 .. Len(plan) : KeysHold(mem[m], plan[m], L[m - 1])

\* L is the columns behind each operator of the chain that runs.
Flows(L) == Layers(plan, L) /\ L[0] = ScanCols(columns) /\ Carried(L)

RunsWith(L) == Flows(L) /\ EndsRight(L[Len(plan)])

RunNames == phase = "run" /\ ~ Reran /\ Good => \E L : RunsWith(L)

NInv == QInv /\ IsSeq(calls) /\ BuildNames /\ RunNames

LEMMA OneName == /\ RealSchema[1].name \in Real /\ IsCol(RealSchema[1])
                 /\ ScanCols(<<1>>) = Append(<<>>, RealSchema[1])
  <1>1. Len(RealSchema) \in Nat /\ Len(RealSchema) > 0 /\ Real = Having(RealSchema)
    BY RealSchemaNames
  <1>2. 1 \in 1 .. Len(RealSchema)
    BY <1>1
  <1>3. RealSchema[1].name \in Having(RealSchema) /\ IsCol(RealSchema[1])
    BY <1>2, RealSchemaNames DEF Having
  <1>4. ScanCols(Append(<<>>, 1)) = Append(ScanCols(<<>>), RealSchema[1])
    BY EmptyIsSeq, ScanColsAppend
  <1>5. ScanCols(<<>>) = <<>>
    BY EmptyIsSeq DEF ScanCols
  <1>6. Append(<<>>, 1) = <<1>>
    OBVIOUS
  <1> QED
    BY <1>1, <1>3, <1>4, <1>5, <1>6

\* Run reads the columns registered, or the first one.
LEMMA RunTurns ==
    ASSUME NEW pl, NEW p, NEW cols, Lay(pl, p, cols)
    PROVE  \E t : /\ Turns(pl, ScanCols(ScanColumns(p)), t)
                  /\ \/ t = p.schema
                     \/ p.scan = <<>> /\ t = Append(p.schema, RealSchema[1])
  <1>1. Turns(pl, ScanCols(p.scan), p.schema) /\ Len(pl) \in Nat
    BY SeqLen DEF Lay
  <1>2. CASE p.scan # <<>>
    BY <1>1, <1>2 DEF ScanColumns
  <1>3. CASE p.scan = <<>>
    <2>1. ScanColumns(p) = <<1>> /\ ScanCols(p.scan) = <<>>
      BY <1>3, EmptyIsSeq DEF ScanColumns, ScanCols
    <2>2. PICK y : y = RealSchema[1]
      OBVIOUS
    <2>3. ScanCols(<<1>>) = Append(<<>>, y) /\ y.name \in Real
      BY <2>2, OneName
    <2>4. \A k \in 1 .. Len(pl) : pl[k].op = "As" => pl[k].from # y.name
      BY <1>3, <2>3 DEF Lay
    <2>5. Turns(pl, Append(<<>>, y), IF Grouping(pl) THEN p.schema ELSE Append(p.schema, y))
      BY <1>1, <2>1, <2>4, TurnsAppend
    <2> QED
      BY <1>3, <2>1, <2>2, <2>3, <2>5
  <1> QED
    BY <1>2, <1>3

LEMMA RunStart == ASSUME NInv, Run PROVE RunNames'
  <1>1. /\ phase = "build" /\ UNCHANGED <<table, calls>> /\ phase' = "run"
        /\ dir' = dir /\ ret' = ret
    BY DEF Run
  <1>2. dir' = "down" /\ Good' = Good
    BY <1>1 DEF NInv, QInv, BuildInv, Good, InScope, OrdersKept, OrderPending, NoCount
  <1> SUFFICES ASSUME Good PROVE \E L : RunsWith(L)'
    BY <1>2 DEF RunNames
  <1>3. PICK cols : Lay(plan, parser, cols) /\ OrderKnown(cols)
    BY <1>1 DEF NInv, BuildNames
  <1>4. Lay(plan', parser', cols)
    <2>1. CASE order = NoOrder
      BY <1>3, <2>1 DEF Run
    <2>2. CASE order # NoOrder
      <3> DEFINE p == Register(parser, order.col)
                 n == [op |-> "Sort", id |-> Id(p, order.col), desc |-> order.desc]
      <3>1. parser' = p /\ plan' = Append(plan, n)
        BY <2>2 DEF Run
      <3>2. n.op = "Sort" /\ n.id = Id(p, order.col)
        OBVIOUS
      <3> HIDE DEF n
      <3>3. order.col \in cols \/ order.col \notin Real
        BY <1>3, <2>2, RealSchemaNames DEF OrderKnown
      <3>4. Lay(plan, p, cols)
        BY <1>3, <3>3, RegisterLay
      <3>5. n.id \in 0 .. Len(p.schema)
        BY <3>2, <3>4, IdInside
      <3>6. Fits(n, p.schema)
        BY <3>2, <3>5 DEF Fits, Parts
      <3> QED
        BY <3>1, <3>2, <3>4, <3>6, LayPlain
    <2> QED
      BY <2>1, <2>2
  <1>5. PICK pl, p : pl = plan' /\ p = parser'
    OBVIOUS
  <1>6. PICK t : /\ Turns(pl, ScanCols(ScanColumns(p)), t)
                 /\ \/ t = p.schema
                    \/ p.scan = <<>> /\ t = Append(p.schema, RealSchema[1])
    BY <1>4, <1>5, RunTurns
  <1>7. columns' = ScanColumns(p)
    BY <1>5 DEF Run
  <1>8. PICK L : Layers(pl, L) /\ L[0] = ScanCols(ScanColumns(p)) /\ L[Len(pl)] = t
    BY <1>6 DEF Turns
  <1>9. EndsRight(L[Len(pl)])'
    BY <1>5, <1>6, <1>8 DEF EndsRight
  <1>10. ASSUME NEW m \in 1 .. Len(pl) + 1 PROVE mem'[m] = Fresh
    <2>1. mem' = [i \in 1 .. Len(pl) + 1 |-> Fresh]
      BY <1>5 DEF Run
    <2> QED
      BY <2>1, <1>10
  <1>11. Fresh.batch = NoBatch /\ Fresh.groups = <<>> /\ Fresh.out = <<>>
    BY DEF Fresh
  <1>12. Len(pl) \in Nat
    BY <1>4, <1>5, SeqLen DEF Lay
  <1>13. \A m \in 1 .. Len(pl) : KeysHold(mem'[m], pl[m], L[m - 1])
    BY <1>10, <1>11, <1>12 DEF KeysHold
  <1>14. Carried(L)'
    BY <1>2, <1>5, <1>10, <1>11, <1>13 DEF Carried
  <1> QED
    BY <1>5, <1>7, <1>8, <1>9, <1>14 DEF RunsWith, Flows, ScanCols

\* r has the groups the running operator had.
SameGroups(r) ==
    r.keys = mem[act].keys /\ r.groups = mem[act].groups /\ r.out = mem[act].out

\* What is kept keeps its columns, in a step that sets the memory of the
\* running operator.
LEMMA SetCarries ==
    ASSUME NEW L, Carried(L), ShapeInv, phase = "run", act > 0, plan' = plan,
           NEW r, Sets(r),
           \/ r.batch \in {mem[act].batch, NoBatch}
           \/ r.batch.cols = L[act - 1],
           SameGroups(r) \/ (act \in 1 .. Len(plan) => KeysHold(r, plan[act], L[act - 1])),
           dir' = "down" \/ ret' = NoBatch \/ ret'.cols = L[act' - 1]
    PROVE  Carried(L)'
  <1>1. Len(plan) \in Nat /\ act \in 1 .. Len(plan) + 1 /\ DOMAIN mem = 1 .. Len(plan) + 1
    BY RunningOp DEF ShapeInv
  <1>2. ASSUME NEW m \in 1 .. Len(plan) + 1, mem'[m].batch # NoBatch
        PROVE  mem'[m].batch.cols = L[m - 1]
    <2>1. CASE m = act
      BY <1>1, <1>2, <2>1 DEF Sets, Carried
    <2>2. CASE m # act
      BY <1>1, <1>2, <2>2 DEF Sets, Carried
    <2> QED
      BY <2>1, <2>2
  <1>3. ASSUME NEW m \in 1 .. Len(plan) PROVE KeysHold(mem'[m], plan[m], L[m - 1])
    <2>1. KeysHold(mem[m], plan[m], L[m - 1]) /\ m \in 1 .. Len(plan) + 1
      BY <1>1 DEF Carried
    <2>2. CASE m = act
      <3>1. mem'[m] = r
        BY <1>1, <2>2 DEF Sets
      <3>2. KeysHold(r, plan[act], L[act - 1])
        BY <2>1, <2>2 DEF SameGroups, KeysHold
      <3> QED
        BY <2>2, <3>1, <3>2
    <2>3. CASE m # act
      <3>1. mem'[m] = mem[m]
        BY <1>1, <2>1, <2>3 DEF Sets
      <3> QED
        BY <2>1, <3>1
    <2> QED
      BY <2>2, <2>3
  <1> QED
    BY <1>2, <1>3 DEF Carried

\* An operator that leaves the names alone.
LEMMA LayerSame ==
    ASSUME NEW L, Layers(plan, L), act \in 1 .. Len(plan),
           plan[act].op \notin {"AddCol", "AddCase", "As", "Aggregate"}
    PROVE  L[act] = L[act - 1]
  BY DEF Layers, After

LEMMA PlaceAbove ==
    ASSUME NEW L, act \in 1 .. Len(plan), Len(plan) \in Nat, act' = act + 1
    PROVE  L[act' - 1] = L[act]
  <1>1. PICK a \in Int : a = act
    OBVIOUS
  <1> QED
    BY <1>1

LEMMA ScanCarries ==
    ASSUME NEW L, Flows(L), ShapeInv, phase = "run", CallScan \/ ScanReturns
    PROVE  Carried(L)'
  <1>1. CASE CallScan
    BY <1>1 DEF CallScan, Flows, Carried, opVars
  <1>2. CASE ScanReturns
    <2>1. act' = 1 /\ UNCHANGED <<plan, mem>>
      BY <1>2 DEF ScanReturns
    <2>2. ret' = NoBatch \/ ret'.cols = ScanCols(columns)
      BY <1>2 DEF ScanReturns, ReturnBatch, ReturnNone, ScanCols
    <2> QED
      BY <2>1, <2>2 DEF Flows, Carried
  <1> QED
    BY <1>1, <1>2

LEMMA CallCarries ==
    ASSUME NEW L, Flows(L), ShapeInv, phase = "run", CallChild
    PROVE  Carried(L)'
  <1>1. act > 0 /\ dir' = "down" /\ plan' = plan
    BY DEF CallChild, PullChild
  <1>2. act \in DOMAIN mem /\ Memory(mem[act])
    BY <1>1, RunningOp
  <1>3. PICK r : Sets(r) /\ r.batch \in {mem[act].batch, NoBatch} /\ SameGroups(r)
    <2>1. CASE UNCHANGED mem
      BY <2>1 DEF Sets, SameGroups
    <2>2. CASE mem' = [mem EXCEPT ![act].batch = NoBatch]
      <3> WITNESS [mem[act] EXCEPT !.batch = NoBatch]
      <3> QED
        BY <1>2, <2>2 DEF Sets, Memory, Fields, SameGroups
    <2>3. CASE mem' = [mem EXCEPT ![act].ready = TRUE]
      <3> WITNESS [mem[act] EXCEPT !.ready = TRUE]
      <3> QED
        BY <1>2, <2>3 DEF Sets, Memory, Fields, SameGroups
    <2> QED
      BY <2>1, <2>2, <2>3 DEF CallChild
  <1> QED
    BY <1>1, <1>3, SetCarries DEF Flows

LEMMA FilterCarries ==
    ASSUME NEW L, Flows(L), ShapeInv, phase = "run", Filter
    PROVE  Carried(L)'
  <1>1. /\ dir = "up" /\ Running.op = "Filter" /\ ret # NoBatch
        /\ UNCHANGED <<plan, mem>>
    BY DEF Filter
  <1>2. act \in 1 .. Len(plan) /\ act > 0 /\ Len(plan) \in Nat /\ Running = plan[act]
    BY <1>1, Inside, RunningOp DEF Running
  <1>3. L[act] = L[act - 1]
    BY <1>1, <1>2, LayerSame DEF Flows
  <1>4. ret.cols = L[act - 1] /\ SameGroups(mem[act])
    BY <1>1 DEF Flows, Carried, SameGroups
  <1>5. DOMAIN ret = {"cols", "rows"}
    BY <1>1 DEF ShapeInv, IsBatch
  <1>6. CASE dir' = "down"
    BY <1>1, <1>2, <1>4, <1>6, Unset, SetCarries DEF Flows
  <1>7. CASE dir' # "down"
    <2>1. PICK rows : Return([ret EXCEPT !.rows = rows])
      BY <1>7 DEF Filter, PullChild
    <2>2. act' = act + 1 /\ ret'.cols = ret.cols
      BY <1>5, <2>1 DEF Return
    <2> QED
      BY <1>1, <1>2, <1>3, <1>4, <2>2, PlaceAbove, Unset, SetCarries DEF Flows
  <1> QED
    BY <1>6, <1>7

LEMMA TransformCarries ==
    ASSUME NEW L, Flows(L), ShapeInv, phase = "run", Transform
    PROVE  Carried(L)'
  <1>1. /\ dir = "up" /\ ret # NoBatch /\ UNCHANGED <<plan, mem>>
        /\ \/ Running.op \in {"AddCol", "AddCase"} /\ Return(AddColumn(Running, ret))
           \/ Running.op = "As" /\ Return(Renamed(Running, ret))
    BY DEF Transform
  <1>2. act \in 1 .. Len(plan) /\ act > 0 /\ Len(plan) \in Nat /\ Running = plan[act]
    BY <1>1, Inside, RunningOp DEF Running
  <1>3. ret.cols = L[act - 1] /\ L[act] = After(plan[act], L[act - 1])
    BY <1>1, <1>2 DEF Flows, Carried, Layers
  <1>4. DOMAIN ret = {"cols", "rows"} /\ act' = act + 1 /\ SameGroups(mem[act])
    BY <1>1 DEF ShapeInv, IsBatch, Return, SameGroups
  <1>5. ret'.cols = After(plan[act], ret.cols)
    <2>1. CASE Running.op \in {"AddCol", "AddCase"}
      <3>1. ret' = AddColumn(Running, ret)
        BY <1>1, <2>1 DEF Return
      <3>2. ret'.cols = Insert(ret.cols, Running.at,
                               [name |-> Running.name, type |-> Running.type])
        BY <3>1 DEF AddColumn
      <3> QED
        BY <1>2, <2>1, <3>2 DEF After
    <2>2. CASE Running.op = "As"
      BY <1>1, <1>2, <1>4, <2>2 DEF Return, Renamed, After
    <2> QED
      BY <1>1, <2>1, <2>2
  <1> QED
    BY <1>1, <1>2, <1>3, <1>4, <1>5, PlaceAbove, Unset, SetCarries DEF Flows

LEMMA CollectCarries ==
    ASSUME NEW L, Flows(L), ShapeInv, phase = "run", Collect
    PROVE  Carried(L)'
  <1>1. /\ dir = "up" /\ Running.op \in Collecting /\ ret # NoBatch /\ dir' = "down"
        /\ UNCHANGED <<plan, ret>> /\ act > 0
        /\ mem' = [mem EXCEPT ![act].batch = Gather(Running, @, ret)]
    BY DEF Collect, PullChild, ShapeInv
  <1>2. /\ act \in DOMAIN mem /\ act \in 1 .. Len(plan) + 1 /\ Len(plan) \in Nat
        /\ Memory(mem[act])
    BY <1>1, RunningOp DEF ShapeInv
  <1> DEFINE b == Gather(Running, mem[act].batch, ret)
             r == [mem[act] EXCEPT !.batch = b]
  <1>3. b.cols = L[act - 1]
    BY <1>1, <1>2 DEF Gather, Flows, Carried
  <1> HIDE DEF b
  <1>4. Sets(r) /\ r.batch = b /\ SameGroups(r)
    BY <1>1, <1>2 DEF Sets, Memory, Fields, SameGroups, b
  <1> HIDE DEF r
  <1> QED
    BY <1>1, <1>3, <1>4, SetCarries DEF Flows

LEMMA FinishCarries ==
    ASSUME NEW L, Flows(L), ShapeInv, phase = "run", FinishCollect
    PROVE  Carried(L)'
  <1> DEFINE b == mem[act].batch
  <1>1. /\ dir = "up" /\ ret = NoBatch /\ UNCHANGED plan
        /\ Running.op \in Collecting /\ b # NoBatch
        /\ Limit(b) \/ Offset(b) \/ Sort(b) \/ TopK(b)
    BY DEF FinishCollect
  <1>2. Running.op \in Collecting \ {"Run"}
    BY <1>1 DEF Limit, Offset, Sort, TopK
  <1>3. /\ act \in 1 .. Len(plan) /\ act > 0 /\ act \in DOMAIN mem /\ Len(plan) \in Nat
        /\ Memory(mem[act]) /\ DOMAIN b = {"cols", "rows"} /\ Running = plan[act]
    BY <1>1, <1>2, Inside, RunningOp DEF Memory, IsBatch, Running
  <1>4. L[act] = L[act - 1]
    BY <1>2, <1>3, LayerSame DEF Flows, Collecting
  <1>5. b.cols = L[act - 1]
    <2>1. act \in 1 .. Len(plan) + 1
      BY <1>3
    <2> QED
      BY <1>1, <2>1 DEF Flows, Carried
  <1>6. PICK rows : Return([b EXCEPT !.rows = rows])
    <2>1. CASE Limit(b)
      BY <2>1 DEF Limit
    <2>2. CASE Offset(b)
      BY <2>2 DEF Offset
    <2>3. CASE Sort(b)
      BY <2>3 DEF Sort
    <2>4. CASE TopK(b)
      BY <2>4 DEF TopK
    <2> QED
      BY <1>1, <2>1, <2>2, <2>3, <2>4
  <1>7. PICK r : Sets(r) /\ r.batch = mem[act].batch /\ SameGroups(r)
    <2>1. CASE UNCHANGED mem
      BY <1>3, <2>1, Unset DEF SameGroups
    <2>2. CASE Offset(b)
      <3>1. PICK skip : mem' = [mem EXCEPT ![act].skipped = skip]
        BY <2>2 DEF Offset
      <3> WITNESS [mem[act] EXCEPT !.skipped = skip]
      <3> QED
        BY <1>3, <3>1 DEF Memory, Fields, Sets, SameGroups
    <2> QED
      BY <1>1, <2>1, <2>2 DEF Limit, Sort, TopK
  <1>8. act' = act + 1 /\ ret'.cols = b.cols
    BY <1>3, <1>6 DEF Return
  <1> QED
    BY <1>1, <1>3, <1>4, <1>5, <1>7, <1>8, PlaceAbove, SetCarries DEF Flows

LEMMA AggregateCarries ==
    ASSUME NEW L, Flows(L), ShapeInv, phase = "run", Aggregate \/ AggregateRun
    PROVE  Carried(L)'
  <1>1. /\ dir = "up" /\ Running.op = "Aggregate" /\ UNCHANGED plan /\ dir' = "down"
        /\ act > 0
    BY DEF Aggregate, AggregateRun, PullChild, ShapeInv
  <1>2. /\ act \in DOMAIN mem /\ Memory(mem[act]) /\ act \in 1 .. Len(plan)
        /\ Running = plan[act] /\ Len(plan) \in Nat
    BY <1>1, RunningOp, Inside DEF Running
  <1>3. CASE Aggregate
    <2> DEFINE keys == KeyTypes(Running, ret)
    <2>1. /\ ret # NoBatch
          /\ \E g : mem' = [mem EXCEPT ![act].keys = keys, ![act].groups = g]
      BY <1>3 DEF Aggregate
    <2>2. ret.cols = L[act - 1]
      BY <1>1, <2>1 DEF Flows, Carried
    <2>3. keys = KeyTypes(plan[act], [cols |-> L[act - 1]])
      BY <1>2, <2>2 DEF KeyTypes
    <2> HIDE DEF keys
    <2>4. PICK g : mem' = [mem EXCEPT ![act].keys = keys, ![act].groups = g]
      BY <2>1
    <2>5. PICK r : Sets(r) /\ r.batch = mem[act].batch /\ r.keys = keys
      <3> WITNESS [mem[act] EXCEPT !.keys = keys, !.groups = g]
      <3> QED
        BY <1>2, <2>4 DEF Memory, Fields, Sets
    <2>6. KeysHold(r, plan[act], L[act - 1])
      BY <2>3, <2>5 DEF KeysHold
    <2> QED
      BY <1>1, <2>5, <2>6, SetCarries DEF Flows
  <1>4. CASE AggregateRun
    <2> DEFINE groups == mem[act].groups
    <2>1. PICK keys \in SetToSeqs(DOMAIN groups) :
              mem' = [mem EXCEPT ![act].out =
                         [i \in 1 .. Len(keys) |-> GroupRow(Running, groups, keys[i])]]
      BY <1>4 DEF AggregateRun
    <2> DEFINE out == [i \in 1 .. Len(keys) |-> GroupRow(Running, groups, keys[i])]
    <2>2. groups = <<>> => out = <<>>
      <3> SUFFICES ASSUME groups = <<>> PROVE Len(keys) = 0
        OBVIOUS
      <3>1. DOMAIN groups = {} /\ Cardinality({}) = 0
        BY FS_EmptySet
      <3>2. keys \in [1 .. Cardinality({}) -> {}]
        BY <2>1, <3>1 DEF SetToSeqs
      <3>3. keys = <<>>
        BY <3>1, <3>2
      <3> QED
        BY <3>3
    <2>3. mem' = [mem EXCEPT ![act].out = out]
      BY <2>1
    <2> HIDE DEF out
    <2>4. PICK r : /\ Sets(r) /\ r.batch = mem[act].batch /\ r.keys = mem[act].keys
                   /\ r.groups = mem[act].groups /\ r.out = out
      <3> WITNESS [mem[act] EXCEPT !.out = out]
      <3> QED
        BY <1>2, <2>3 DEF Memory, Fields, Sets
    <2>5. KeysHold(mem[act], plan[act], L[act - 1])
      BY <1>2 DEF Flows, Carried
    <2>6. KeysHold(r, plan[act], L[act - 1])
      BY <2>2, <2>4, <2>5 DEF KeysHold
    <2> QED
      BY <1>1, <2>4, <2>6, SetCarries DEF Flows
  <1> QED
    BY <1>3, <1>4

LEMMA EmitCarries ==
    ASSUME NEW L, Flows(L), ShapeInv, phase = "run", EmitGroups
    PROVE  Carried(L)'
  <1> DEFINE out == mem[act].out
             n == Smaller(ChunkSize, Len(out))
             rest == SubSeq(out, n + 1, Len(out))
             b == [cols |-> GroupCols(Running, mem[act].keys), rows |-> SubSeq(out, 1, n)]
  <1>1. /\ dir = "down" /\ act > 0 /\ Running.op = "Aggregate"
        /\ UNCHANGED plan /\ act' = act + 1
        /\ ret' = IF out = <<>> THEN NoBatch ELSE b
        /\ mem' = [mem EXCEPT ![act].out = rest]
    BY DEF EmitGroups, Return
  <1>2. b.cols = GroupCols(Running, mem[act].keys)
    OBVIOUS
  <1>3. out = <<>> => rest = <<>>
    BY LimitAssumption DEF Smaller
  <1> HIDE DEF out, rest, b
  <1>4. /\ act \in 1 .. Len(plan) /\ act \in DOMAIN mem /\ Len(plan) \in Nat
        /\ Memory(mem[act]) /\ Running = plan[act]
    BY <1>1, RunningOp DEF Running
  <1>5. KeysHold(mem[act], plan[act], L[act - 1])
    BY <1>4 DEF Flows, Carried
  <1>6. out # <<>> => mem[act].keys = KeyTypes(plan[act], [cols |-> L[act - 1]])
    BY <1>1, <1>4, <1>5 DEF KeysHold, out
  <1>7. L[act] = GroupCols(plan[act], KeyTypes(plan[act], [cols |-> L[act - 1]]))
    BY <1>1, <1>4 DEF Flows, Layers, After
  <1>8. ret' = NoBatch \/ ret'.cols = L[act]
    BY <1>1, <1>2, <1>4, <1>6, <1>7
  <1>9. PICK r : /\ Sets(r) /\ r.batch = mem[act].batch /\ r.keys = mem[act].keys
                 /\ r.groups = mem[act].groups /\ r.out = rest
    <2> WITNESS [mem[act] EXCEPT !.out = rest]
    <2> QED
      BY <1>1, <1>4 DEF Memory, Fields, Sets
  <1>10. KeysHold(r, plan[act], L[act - 1])
    BY <1>3, <1>5, <1>9 DEF KeysHold, out
  <1> QED
    BY <1>1, <1>4, <1>8, <1>9, <1>10, PlaceAbove, SetCarries DEF Flows

LEMMA RestCarries ==
    ASSUME NEW L, Flows(L), ShapeInv, phase = "run",
           PassNone \/ CollectNone \/ EngineDone \/ Throw \/ Misbehave
    PROVE  Carried(L)'
  <1>1. CASE PassNone \/ CollectNone
    BY <1>1 DEF PassNone, CollectNone, Return, Flows, Carried
  <1>2. CASE Throw \/ Misbehave
    BY <1>2 DEF Throw, Misbehave, Flows, Carried
  <1>3. CASE EngineDone
    <2>1. /\ Running.op = "Run" /\ act > 0 /\ ret' = mem[act].batch
          /\ UNCHANGED <<plan, act, mem>>
      BY <1>3 DEF EngineDone, ShapeInv
    <2>2. act \in 1 .. Len(plan) + 1
      BY <2>1, RunningOp
    <2> QED
      BY <2>1, <2>2 DEF Flows, Carried
  <1> QED
    BY <1>1, <1>2, <1>3

\* No operator changes the chain, or what the scan reads.
LEMMA StepKeeps ==
    ASSUME OpStep, UNCHANGED buildVars
    PROVE  UNCHANGED <<table, columns, plan, calls, phase, parser, selected, order,
                       pendingOffset>>
  BY DEF OpStep, CallScan, GetNext, ReadColumn, SkipGroup, ScanReturns, ReturnBatch,
         ReturnNone, CallChild, Filter, Transform, PassNone, Collect, CollectNone,
         FinishCollect, Aggregate, AggregateRun, EmitGroups, EngineDone, Throw, Misbehave,
         scanKept, opVars, buildVars

\* Every step of an operator hands on the columns of its place.
LEMMA StepFlows ==
    ASSUME NEW L, Flows(L), ShapeInv, phase = "run", OpStep, UNCHANGED buildVars
    PROVE  Flows(L)'
  <1>1. UNCHANGED <<plan, columns>>
    BY StepKeeps
  <1>2. Carried(L)'
    BY ScanCarries, CallCarries, FilterCarries, TransformCarries, CollectCarries,
       FinishCarries, AggregateCarries, EmitCarries, RestCarries DEF OpStep
  <1> QED
    BY <1>1, <1>2 DEF Flows, ScanCols

LEMMA ExecuteNames == ASSUME NInv, Execute PROVE RunNames'
  <1>1. phase = "run" /\ OpStep /\ UNCHANGED buildVars /\ ShapeInv
    BY DEF Execute, NInv, QInv
  <1>2. UNCHANGED <<table, columns, plan, phase, calls, parser>>
    BY <1>1, StepKeeps
  <1> SUFFICES ASSUME ~ Reran', Good' PROVE \E L : RunsWith(L)'
    BY DEF RunNames
  <1>3. ~ Reran /\ Good
    BY <1>2 DEF Reran, Good, InScope, OrdersKept, OrderPending, NoCount
  <1>4. PICK L : RunsWith(L)
    BY <1>1, <1>3 DEF NInv, RunNames
  <1>5. Flows(L)'
    BY <1>1, <1>4, StepFlows DEF RunsWith
  <1>6. EndsRight(L[Len(plan)])'
    BY <1>2, <1>4 DEF RunsWith, EndsRight
  <1> QED
    BY <1>5, <1>6 DEF RunsWith

LEMMA NamesStep == ASSUME NInv, [Next]_vars PROVE NInv'
  <1>1. QInv'
    BY CallStep, EndStep, RunStep, RunAgainStep, ExecuteStep, AnswerStep, StutterStep
       DEF Next, NInv
  <1>2. IsSeq(calls)'
    <2>1. calls' = calls \/ \E c : calls' = Append(calls, c)
      BY DEF Next, Call, Refuse, Overrun, Run, RunRefused, RunAgain, Execute, Answer,
          Fail, vars, buildVars
    <2> QED
      BY <2>1, SeqAppend DEF NInv
  <1>3. CASE \E c \in Calls : Call(c)
    <2>1. PICK c \in Calls : Call(c)
      BY <1>3
    <2>2. phase' = "build"
      BY <2>1 DEF Call, Building, Where, Case, Add, GroupBy, Count, OrderBy, OffsetCall,
          LimitCall, Rename, Select, buildRest
    <2> QED
      BY <1>1, <1>2, <2>1, <2>2, CallNames DEF NInv, RunNames
  <1>4. CASE Run
    <2>1. phase' = "run"
      BY <1>4 DEF Run
    <2> QED
      BY <1>1, <1>2, <1>4, <2>1, RunStart DEF NInv, BuildNames
  <1>5. CASE RunAgain
    <2>1. phase' = "run" /\ calls' = Append(calls, [fn |-> "Run"])
      BY <1>5 DEF RunAgain
    <2>2. Reran'
      <3>1. /\ Len(calls') = Len(calls) + 1 /\ Len(calls) \in Nat
            /\ calls'[Len(calls) + 1] = [fn |-> "Run"]
        BY <2>1, SeqAppend DEF NInv
      <3>2. Len(calls) + 1 \in 1 .. Len(calls')
        BY <3>1
      <3> QED
        BY <3>1, <3>2 DEF Reran
    <2> QED
      BY <1>1, <1>2, <2>1, <2>2 DEF NInv, BuildNames, RunNames
  <1>6. CASE Execute
    <2>1. phase' = "run"
      BY <1>6 DEF Execute, buildVars
    <2> QED
      BY <1>1, <1>2, <1>6, <2>1, ExecuteNames DEF NInv, BuildNames
  <1>7. CASE Answer \/ Fail \/ RunRefused \/ \E c \in Calls : Refuse(c) \/ Overrun(c)
    <2>1. phase' \notin {"build", "run"}
      BY <1>7 DEF Answer, Fail, RunRefused, Refuse, Overrun
    <2> QED
      BY <1>1, <1>2, <2>1 DEF NInv, BuildNames, RunNames
  <1>8. CASE UNCHANGED vars
    <2>1. UNCHANGED <<table, columns, ret, plan, act, dir, mem, calls, phase, parser, order>>
      BY <1>8 DEF vars, scanVars, opVars, buildVars
    <2>2. BuildNames'
      <3>1. AsMeant' = AsMeant /\ (Good' <=> Good)
        BY <2>1 DEF AsMeant, Good, InScope, OrdersKept, OrderPending, NoCount
      <3>2. OrderPending(Len(calls))' <=> OrderPending(Len(calls))
        BY <2>1 DEF OrderPending
      <3> QED
        BY <2>1, <3>1, <3>2 DEF NInv, BuildNames, OrderKnown
    <2>3. RunNames'
      <3>1. (Good' <=> Good) /\ (Reran' <=> Reran)
        BY <2>1 DEF Good, InScope, OrdersKept, OrderPending, NoCount, Reran
      <3>2. ASSUME NEW L, RunsWith(L) PROVE RunsWith(L)'
        BY <2>1, <3>2 DEF RunsWith, Flows, Carried, EndsRight, ScanCols
      <3> QED
        BY <2>1, <3>1, <3>2 DEF NInv, RunNames
    <2> QED
      BY <1>1, <1>2, <2>2, <2>3 DEF NInv
  <1> QED
    BY <1>3, <1>4, <1>5, <1>6, <1>7, <1>8 DEF Next

\* Whatever the file and the calls, of a query that makes sense and keeps the
\* columns it orders by: the columns of the batch that reaches Engine::Run are
\* those of cur_schema_, in its order.  The positions handed out while the
\* scan's list of columns was still growing, and while columns were made,
\* grouped and renamed, are right in the end.
THEOREM PositionsRight == Spec => []LayoutAgrees
  <1>1. QueryInit => NInv
    <2> SUFFICES ASSUME QueryInit PROVE NInv
      OBVIOUS
    <2>1. phase = "build" /\ calls = <<>>
      BY DEF QueryInit, Init
    <2> QED
      BY <2>1, InitInv, InitNames, EmptyIsSeq DEF NInv, RunNames
  <1>2. NInv /\ [Next]_vars => NInv'
    BY NamesStep
  <1>3. NInv => LayoutAgrees
    <2> SUFFICES ASSUME NInv, phase = "run", dir = "done", ret # NoBatch, ~ Reran, Good
                 PROVE  EndsRight(ret.cols)
      BY DEF LayoutAgrees, Good, NoCount, EndsRight
    <2>1. PICK L : RunsWith(L)
      BY DEF NInv, RunNames
    <2>2. PICK n \in Nat : n = Len(plan) /\ act = n + 1
      BY RunningOp DEF NInv, QInv, ShapeInv
    <2>3. ret.cols = L[act - 1]
      BY <2>1 DEF RunsWith, Flows, Carried
    <2>4. act - 1 = n
      BY <2>2
    <2> QED
      BY <2>1, <2>2, <2>3, <2>4 DEF RunsWith
  <1> QED
    BY <1>1, <1>2, <1>3, PTL DEF Spec

-----------------------------------------------------------------------------
(* The queries that are answered                                           *)

\* A call so far makes a column, cuts batches to nothing, selects columns.
Making == \E i \in 1 .. Len(calls) : calls[i].fn \in {"Add", "Case", "GroupBy"}

Cutting(n) == \E i \in 1 .. n : CutsToNothing(i)

Selecting == \E i \in 1 .. Len(calls) : calls[i].fn = "Select"

Skipping == \E i \in 1 .. Len(calls) : calls[i].fn = "Offset"

\* A call so far limits to more rows than a RowIndex numbers.
LongLimit == \E i \in 1 .. Len(calls) : calls[i].fn = "Limit" /\ ~ (calls[i].n <= IndexRange)

\* The calls that may not follow a Count.
NotCounted == {"Where", "Case", "Add", "GroupBy", "OrderBy", "Rename", "Select"}

\* What an answerable query says of the calls before it.
LEMMA FineBefore ==
    ASSUME NEW c, IsSeq(calls), calls' = Append(calls, c), table' = table,
           c.fn \in Fns, IsMeaning(AsMeant), Answerable'
    PROVE  /\ Answerable /\ Meant!Sensible(AsMeant, c)
           /\ c.fn \in {"GroupBy", "Count", "Rename"} => ~ OrderPending(Len(calls))
           /\ c.fn \in {"Where", "Case"} /\ c.pred.type = "string" => ~ Making
           /\ c.fn \in {"Add", "Case"} => ~ Cutting(Len(calls)) /\ ~ LongLimit
           /\ c.fn = "Limit" /\ OrderPending(Len(calls)) => ~ Cutting(Len(calls) - 1)
           /\ c.fn \in {"GroupBy", "Count"} => ~ Selecting
           /\ c.fn \in NotCounted => NoCount
  <1>1. /\ IsSeq(calls') /\ Len(calls') = Len(calls) + 1 /\ Len(calls) \in Nat
        /\ \A k \in 1 .. Len(calls) : calls'[k] = calls[k]
        /\ calls'[Len(calls) + 1] = c
    BY SeqAppend
  <1>2. PICK n \in Nat : n = Len(calls)
    BY <1>1
  <1>3. PICK cs : cs = calls'
    OBVIOUS
  <1>4. /\ Len(cs) = n + 1 /\ cs[n + 1] = c /\ \A k \in 1 .. n : cs[k] = calls[k]
        /\ n + 1 \in 1 .. n + 1 /\ \A k \in 1 .. n : k \in 1 .. n + 1 /\ k < n + 1
    BY <1>1, <1>2, <1>3
  <1>5. InScope /\ Meant!Sensible(AsMeant, c)
    <2>1. AsMeant' = Meant!Step(AsMeant, c)
      BY MeaningMore DEF AsMeant
    <2>2. AsMeant'.sensible
      BY DEF Answerable, WellMade, InScope, AsMeant
    <2> QED
      BY <2>1, <2>2, StepCols DEF InScope, AsMeant
  <1>6. /\ OrdersKept
        /\ c.fn \in {"GroupBy", "Count", "Rename"} => ~ OrderPending(Len(calls))
        /\ \A m \in 0 .. n : OrderPending(m)' <=> OrderPending(m)
    BY <1>2, OrdersBefore DEF Answerable, WellMade
  <1>7. StringsFirst /\ (c.fn \in {"Where", "Case"} /\ c.pred.type = "string" => ~ Making)
    <2>1. \A i, j \in 1 .. n + 1 :
              /\ i < j /\ cs[i].fn \in {"Add", "Case", "GroupBy"}
              /\ cs[j].fn \in {"Where", "Case"}
              => cs[j].pred.type # "string"
      BY <1>3, <1>4 DEF Answerable, WellMade, StringsFirst
    <2>2. StringsFirst
      BY <1>2, <1>4, <2>1 DEF StringsFirst
    <2>3. ASSUME c.fn \in {"Where", "Case"}, c.pred.type = "string", NEW i \in 1 .. n
          PROVE  calls[i].fn \notin {"Add", "Case", "GroupBy"}
      BY <1>4, <2>1, <2>3
    <2> QED
      BY <1>2, <2>2, <2>3 DEF Making
  <1>8. /\ RowsLeft
        /\ c.fn \in {"Add", "Case"} => ~ Cutting(Len(calls))
        /\ c.fn = "Limit" /\ OrderPending(Len(calls)) => ~ Cutting(Len(calls) - 1)
    <2> DEFINE Cuts(d) == d.fn = "Offset" \/ (d.fn = "Limit" /\ d.n = 0)
    <2>1. \A i, j \in 1 .. n + 1 :
              i < j /\ Cuts(cs[i]) =>
                  /\ cs[j].fn \notin {"Add", "Case"}
                  /\ cs[j].fn = "Limit" => ~ (i < j - 1 /\ OrderPending(j - 1)')
      BY <1>3, <1>4 DEF Answerable, WellMade, RowsLeft, CutsToNothing, OrderPending
    <2>2. \A i : CutsToNothing(i) <=> Cuts(calls[i])
      BY DEF CutsToNothing
    <2> HIDE DEF Cuts
    <2>3. \A j \in 1 .. n + 1 : j - 1 \in 0 .. n
      OBVIOUS
    <2>4. ASSUME NEW i \in 1 .. n, NEW j \in 1 .. n + 1, i < j, Cuts(calls[i])
          PROVE  /\ cs[j].fn \notin {"Add", "Case"}
                 /\ cs[j].fn = "Limit" => ~ (i < j - 1 /\ OrderPending(j - 1))
      BY <1>4, <1>6, <2>1, <2>3, <2>4
    <2>5. RowsLeft
      BY <1>2, <1>4, <2>2, <2>4 DEF RowsLeft
    <2>6. ASSUME NEW i \in 1 .. n, Cuts(calls[i])
          PROVE  /\ c.fn \notin {"Add", "Case"}
                 /\ c.fn = "Limit" => ~ (i < n /\ OrderPending(n))
      <3>1. n + 1 - 1 = n /\ i < n + 1
        OBVIOUS
      <3> QED
        BY <1>4, <2>4, <2>6, <3>1
    <2>7. \A i \in 1 .. n - 1 : i \in 1 .. n /\ i < n
      OBVIOUS
    <2> QED
      BY <1>2, <2>2, <2>5, <2>6, <2>7 DEF Cutting
  <1>9. GroupsFilled /\ GroupsFit
    BY DEF Answerable, WellMade, GroupsFilled, GroupsFit
  <1>10. SelectedAfterGroups /\ (c.fn \in {"GroupBy", "Count"} => ~ Selecting)
    <2>1. \A i, j \in 1 .. n + 1 :
              ~ (i < j /\ cs[i].fn \in {"Select"} /\ cs[j].fn \in {"GroupBy", "Count"})
      BY <1>3, <1>4 DEF Answerable, WellMade, SelectedAfterGroups, Before
    <2>2. SelectedAfterGroups
      BY <1>2, <1>4, <2>1 DEF SelectedAfterGroups, Before
    <2>3. c.fn \in {"GroupBy", "Count"} => ~ Selecting
      BY <1>2, <1>4, <2>1 DEF Selecting
    <2> QED
      BY <2>2, <2>3
  <1>11. CountLast /\ (c.fn \in NotCounted => NoCount)
    <2>1. \A i, j \in 1 .. n + 1 :
              ~ (i < j /\ cs[i].fn \in {"Count"} /\ cs[j].fn \in NotCounted)
      BY <1>3, <1>4 DEF Answerable, WellMade, CountLast, Before, NotCounted
    <2>2. CountLast
      BY <1>2, <1>4, <2>1 DEF CountLast, Before, NotCounted
    <2>3. c.fn \in NotCounted => NoCount
      BY <1>2, <1>4, <2>1 DEF NoCount
    <2> QED
      BY <2>2, <2>3
  <1>12. LimitsFit /\ (c.fn \in {"Add", "Case"} => ~ LongLimit)
    <2>1. \A i, j \in 1 .. n + 1 :
              /\ i < j /\ cs[i].fn = "Limit" /\ cs[j].fn \in {"Add", "Case"}
              => cs[i].n <= IndexRange
      BY <1>3, <1>4 DEF Answerable, LimitsFit
    <2>2. LimitsFit
      BY <1>2, <1>4, <2>1 DEF LimitsFit
    <2>3. c.fn \in {"Add", "Case"} => ~ LongLimit
      BY <1>2, <1>4, <2>1 DEF LongLimit
    <2> QED
      BY <2>2, <2>3
  <1> QED
    BY <1>5, <1>6, <1>7, <1>8, <1>9, <1>10, <1>11, <1>12 DEF Answerable, WellMade

-----------------------------------------------------------------------------
(* The operators that need rows                                            *)

\* Operator n may leave a batch without rows, or is undefined on one.
Cut(n) == n.op = "Offset" \/ (n.op \in {"Limit", "TopK"} /\ n.n = 0)

NeedsRows(n) == n.op \in {"AddCol", "AddCase"} \/ (n.op = "TopK" /\ n.n # 0)

\* Operator n may number more rows than a RowIndex can.
Wraps(n) == n.op \in {"Limit", "TopK"} /\ ~ (n.n <= IndexRange)

Adds(n) == n.op \in {"AddCol", "AddCase"}

HasCut(pl) == \E k \in 1 .. Len(pl) : Cut(pl[k])

HasWrap(pl) == \E k \in 1 .. Len(pl) : Wraps(pl[k])

Spaced(pl) ==
    \A i, j \in 1 .. Len(pl) :
        i < j => (Cut(pl[i]) => ~ NeedsRows(pl[j])) /\ (Wraps(pl[i]) => ~ Adds(pl[j]))

Sized(pl) == \A k \in 1 .. Len(pl) : pl[k].op \in {"Limit", "TopK"} => pl[k].n \in Nat

\* One more operator.
LEMMA SpacedMore ==
    ASSUME NEW pl, IsSeq(pl), Spaced(pl), Sized(pl), NEW n,
           n.op \in {"Limit", "TopK"} => n.n \in Nat, HasCut(pl) => ~ NeedsRows(n),
           HasWrap(pl) => ~ Adds(n)
    PROVE  /\ IsSeq(Append(pl, n)) /\ Spaced(Append(pl, n)) /\ Sized(Append(pl, n))
           /\ HasCut(Append(pl, n)) <=> HasCut(pl) \/ Cut(n)
           /\ HasWrap(Append(pl, n)) <=> HasWrap(pl) \/ Wraps(n)
  <1>1. PICK a \in Nat : a = Len(pl)
    BY SeqLen
  <1>2. PICK r : r = Append(pl, n)
    OBVIOUS
  <1>3. /\ IsSeq(r) /\ Len(r) = a + 1 /\ r[a + 1] = n
        /\ \A k \in 1 .. a : r[k] = pl[k]
    BY <1>1, <1>2, SeqAppend
  <1>4. /\ \A k \in 1 .. a + 1 : k \in 1 .. a \/ k = a + 1
        /\ \A k \in 1 .. a : k \in 1 .. a + 1 /\ k < a + 1
        /\ a + 1 \in 1 .. a + 1
    OBVIOUS
  <1>5. HasCut(r) <=> HasCut(pl) \/ Cut(n)
    BY <1>1, <1>3, <1>4 DEF HasCut
  <1>9. HasWrap(r) <=> HasWrap(pl) \/ Wraps(n)
    BY <1>1, <1>3, <1>4 DEF HasWrap
  <1>6. Sized(r)
    BY <1>1, <1>3, <1>4 DEF Sized
  <1>7. ASSUME NEW i \in 1 .. a + 1, NEW j \in 1 .. a + 1, i < j
        PROVE  (Cut(r[i]) => ~ NeedsRows(r[j])) /\ (Wraps(r[i]) => ~ Adds(r[j]))
    <2>1. i \in 1 .. a /\ r[i] = pl[i]
      BY <1>3, <1>7
    <2>2. CASE j \in 1 .. a
      BY <1>1, <1>3, <1>7, <2>1, <2>2 DEF Spaced
    <2>3. CASE j = a + 1
      BY <1>1, <1>3, <2>1, <2>3 DEF HasCut, HasWrap
    <2> QED
      BY <1>4, <2>2, <2>3
  <1>8. Spaced(r)
    BY <1>3, <1>7 DEF Spaced
  <1> QED
    BY <1>2, <1>3, <1>5, <1>6, <1>8, <1>9

\* What is said of the calls, after one more.
LEMMA CallsMore ==
    ASSUME NEW c, IsSeq(calls), calls' = Append(calls, c)
    PROVE  /\ Cutting(Len(calls)) => Cutting(Len(calls))' /\ Cutting(Len(calls) - 1)'
           /\ Cutting(Len(calls) - 1) => Cutting(Len(calls) - 1)'
           /\ c.fn = "Offset" \/ (c.fn = "Limit" /\ c.n = 0) => Cutting(Len(calls))'
           /\ Skipping => Cutting(Len(calls))
           /\ Skipping \/ c.fn = "Offset" => Skipping'
           /\ Making' <=> Making \/ c.fn \in {"Add", "Case", "GroupBy"}
           /\ Selecting' <=> Selecting \/ c.fn = "Select"
           /\ NoCount' <=> NoCount /\ c.fn # "Count"
           /\ LongLimit' <=> LongLimit \/ (c.fn = "Limit" /\ ~ (c.n <= IndexRange))
  <1>1. PICK n \in Nat : n = Len(calls)
    BY SeqLen
  <1>2. PICK cs : cs = calls'
    OBVIOUS
  <1>3. /\ Len(cs) = n + 1 /\ cs[n + 1] = c
        /\ \A k \in 1 .. n : cs[k] = calls[k]
    BY <1>1, <1>2, SeqAppend
  <1>4. /\ \A k \in 1 .. n + 1 : k \in 1 .. n \/ k = n + 1
        /\ \A k \in 1 .. n : k \in 1 .. n + 1
        /\ n + 1 \in 1 .. n + 1 /\ (n + 1) - 1 = n
        /\ \A k \in 1 .. n - 1 : k \in 1 .. n
    OBVIOUS
  <1> DEFINE Cuts(d) == d.fn = "Offset" \/ (d.fn = "Limit" /\ d.n = 0)
  <1>5. /\ Cutting(Len(calls)) <=> \E i \in 1 .. n : Cuts(calls[i])
        /\ Cutting(Len(calls) - 1) <=> \E i \in 1 .. n - 1 : Cuts(calls[i])
        /\ Cutting(Len(calls))' <=> \E i \in 1 .. n + 1 : Cuts(cs[i])
        /\ Cutting(Len(calls) - 1)' <=> \E i \in 1 .. n : Cuts(cs[i])
    BY <1>1, <1>2, <1>3, <1>4 DEF Cutting, CutsToNothing
  <1>6. Cuts(c) => Cutting(Len(calls))'
    BY <1>3, <1>4, <1>5
  <1>7. Skipping => Cutting(Len(calls))
    BY <1>1, <1>5 DEF Skipping
  <1> HIDE DEF Cuts
  <1>8. /\ Cutting(Len(calls)) => Cutting(Len(calls))' /\ Cutting(Len(calls) - 1)'
        /\ Cutting(Len(calls) - 1) => Cutting(Len(calls) - 1)'
    BY <1>3, <1>4, <1>5
  <1>9. /\ Skipping \/ c.fn = "Offset" => Skipping'
        /\ Making' <=> Making \/ c.fn \in {"Add", "Case", "GroupBy"}
        /\ Selecting' <=> Selecting \/ c.fn = "Select"
        /\ NoCount' <=> NoCount /\ c.fn # "Count"
    BY <1>1, <1>2, <1>3, <1>4 DEF Skipping, Making, Selecting, NoCount
  <1>10. LongLimit' <=> LongLimit \/ (c.fn = "Limit" /\ ~ (c.n <= IndexRange))
    BY <1>1, <1>2, <1>3, <1>4 DEF LongLimit
  <1> QED
    BY <1>6, <1>7, <1>8, <1>9, <1>10 DEF Cuts

\* Nothing that needs rows stands behind a cut, and a cut in the chain is one
\* of the calls'; one that an order waits behind is of an earlier call.  So it
\* is with what adds a column, and what numbers too many rows.
CutsKept ==
    /\ Spaced(plan) /\ Sized(plan)
    /\ pendingOffset \in Nat /\ (pendingOffset > 0 => Skipping)
    /\ HasCut(plan) =>
           /\ Cutting(Len(calls))
           /\ order # NoOrder => Cutting(Len(calls) - 1)
    /\ HasWrap(plan) => Cutting(Len(calls)) \/ LongLimit

\* What a call does to the chain and to what is pending.
LEMMA CallCuts ==
    ASSUME NEW c \in Calls, Call(c), IsSeq(calls), IsSeq(plan), CutsKept,
           order # NoOrder => OrderPending(Len(calls)),
           c.fn \in {"Add", "Case"} => ~ Cutting(Len(calls)) /\ ~ LongLimit,
           c.fn = "Limit" /\ OrderPending(Len(calls)) => ~ Cutting(Len(calls) - 1)
    PROVE  CutsKept'
  <1>1. calls' = Append(calls, c)
    BY DEF Call
  <1>2. /\ Cutting(Len(calls)) => Cutting(Len(calls))' /\ Cutting(Len(calls) - 1)'
        /\ Cutting(Len(calls) - 1) => Cutting(Len(calls) - 1)'
        /\ c.fn = "Offset" \/ (c.fn = "Limit" /\ c.n = 0) => Cutting(Len(calls))'
        /\ Skipping => Cutting(Len(calls))
        /\ Skipping \/ c.fn = "Offset" => Skipping'
        /\ LongLimit' <=> LongLimit \/ (c.fn = "Limit" /\ ~ (c.n <= IndexRange))
    BY <1>1, CallsMore
  <1>3. /\ Spaced(plan) /\ Sized(plan) /\ pendingOffset \in Nat
        /\ pendingOffset > 0 => Skipping
        /\ HasCut(plan) => Cutting(Len(calls))
        /\ HasCut(plan) /\ order # NoOrder => Cutting(Len(calls) - 1)
        /\ HasWrap(plan) => Cutting(Len(calls)) \/ LongLimit
    BY DEF CutsKept
  <1>4. c.fn \in {"Limit", "Offset"} => c.n \in Nat
    BY CallsAssumption
  <1>5. CASE Where(c) \/ Case(c) \/ Add(c) \/ GroupBy(c) \/ Count(c) \/ Rename(c)
    <2>1. PICK n : /\ plan' = Append(plan, n)
                   /\ n.op \in {"Filter", "AddCase", "AddCol", "Aggregate", "As"}
                   /\ n.op \in {"AddCase", "AddCol"} => c.fn \in {"Add", "Case"}
      <3> DEFINE Plain(n) == /\ n.op \in {"Filter", "AddCase", "AddCol", "Aggregate", "As"}
                             /\ n.op \in {"AddCase", "AddCol"} => c.fn \in {"Add", "Case"}
      <3>1. CASE Where(c)
        <4> DEFINE n == [op |-> "Filter", id |-> Id(LookUp(c), c.pred.col),
                         takes |-> c.pred.type, sat |-> c.pred.sat]
        <4>1. n.op = "Filter" /\ plan' = Append(plan, n)
          BY <3>1 DEF Where
        <4> QED
          BY <4>1
      <3>2. CASE Case(c) \/ Add(c)
        <4>1. c.fn \in {"Add", "Case"} /\ AddNode(LookUp(c), c).op \in {"AddCase", "AddCol"}
          BY <3>2 DEF Case, Add, AddNode
        <4>2. plan' = Append(plan, AddNode(LookUp(c), c))
          BY <3>2 DEF Case, Add
        <4> QED
          BY <4>1, <4>2
      <3>3. CASE GroupBy(c)
        <4>1. PICK aggs, ids : plan' = Append(plan, [op |-> "Aggregate", names |-> c.cols,
                                                    aggs |-> aggs, ids |-> ids])
          BY <3>3 DEF GroupBy
        <4>2. Plain([op |-> "Aggregate", names |-> c.cols, aggs |-> aggs, ids |-> ids])
          OBVIOUS
        <4> QED
          BY <4>1, <4>2
      <3>4. CASE Count(c)
        <4>1. PICK aggs : plan' = Append(plan, [op |-> "Aggregate", names |-> <<>>,
                                               ids |-> <<>>, aggs |-> aggs])
          BY <3>4 DEF Count
        <4>2. Plain([op |-> "Aggregate", names |-> <<>>, ids |-> <<>>, aggs |-> aggs])
          OBVIOUS
        <4> QED
          BY <4>1, <4>2
      <3>5. CASE Rename(c)
        <4>1. plan' = Append(plan, [op |-> "As", from |-> c.from, to |-> c.to])
          BY <3>5 DEF Rename
        <4>2. Plain([op |-> "As", from |-> c.from, to |-> c.to])
          OBVIOUS
        <4> QED
          BY <4>1, <4>2
      <3> QED
        BY <1>5, <3>1, <3>2, <3>3, <3>4, <3>5
    <2>2. UNCHANGED <<order, pendingOffset>>
      BY <1>5 DEF Where, Case, Add, GroupBy, Count, Rename
    <2>3. /\ ~ Cut(n) /\ ~ Wraps(n) /\ n.op \notin {"Limit", "TopK"}
          /\ HasCut(plan) => ~ NeedsRows(n)
          /\ HasWrap(plan) => ~ Adds(n)
      BY <1>3, <2>1 DEF Cut, NeedsRows, Wraps, Adds
    <2>4. /\ Spaced(plan') /\ Sized(plan') /\ (HasCut(plan') <=> HasCut(plan))
          /\ HasWrap(plan') <=> HasWrap(plan)
      BY <1>3, <2>1, <2>3, SpacedMore
    <2> QED
      BY <1>2, <1>3, <2>2, <2>4 DEF CutsKept
  <1>6. CASE OrderBy(c) \/ Select(c)
    <2>1. UNCHANGED <<plan, pendingOffset>>
      BY <1>6 DEF OrderBy, Select
    <2> QED
      BY <1>2, <1>3, <2>1 DEF CutsKept
  <1>7. CASE OffsetCall(c)
    <2>1. c.fn = "Offset" /\ UNCHANGED order
      BY <1>7 DEF OffsetCall
    <2>2. CASE order # NoOrder
      <3>1. plan' = plan /\ pendingOffset' = c.n
        BY <1>7, <2>2 DEF OffsetCall
      <3> QED
        BY <1>2, <1>3, <1>4, <2>1, <3>1 DEF CutsKept
    <2>3. CASE order = NoOrder
      <3> DEFINE n == [op |-> "Offset", n |-> c.n]
      <3>1. n.op = "Offset" /\ plan' = Append(plan, n) /\ UNCHANGED pendingOffset
        BY <1>7, <2>3 DEF OffsetCall
      <3> HIDE DEF n
      <3>2. ~ NeedsRows(n) /\ ~ Adds(n)
        BY <3>1 DEF NeedsRows, Adds
      <3>3. Spaced(plan') /\ Sized(plan')
        BY <1>3, <3>1, <3>2, SpacedMore
      <3> QED
        BY <1>2, <1>3, <2>1, <2>3, <3>1, <3>3 DEF CutsKept
    <2> QED
      BY <2>2, <2>3
  <1>8. CASE LimitCall(c) /\ order # NoOrder
    <2>1. c.fn = "Limit" /\ order' = NoOrder /\ pendingOffset' = 0
      BY <1>8 DEF LimitCall
    <2>2. ~ HasCut(plan)
      BY <1>3, <1>8, <2>1
    <2> DEFINE topK == [op |-> "TopK", id |-> Id(LookUp(c), order.col), desc |-> order.desc,
                        id2 |-> IF order.col2 = NoCol THEN 0 ELSE Id(LookUp(c), order.col2),
                        n |-> c.n + pendingOffset]
               skip == [op |-> "Offset", n |-> pendingOffset]
    <2>3. /\ topK.op = "TopK" /\ skip.op = "Offset" /\ topK.n = c.n + pendingOffset
          /\ plan' = plan \o <<topK>> \o (IF pendingOffset > 0 THEN <<skip>> ELSE <<>>)
      BY <1>8 DEF LimitCall
    <2> HIDE DEF topK, skip
    <2>4. plan \o <<topK>> = Append(plan, topK)
      BY AddOne
    <2>9. ~ Adds(topK) /\ ~ Adds(skip) /\ topK.n \in Nat
      BY <1>3, <1>4, <2>1, <2>3 DEF Adds
    <2>5. /\ IsSeq(Append(plan, topK)) /\ Spaced(Append(plan, topK))
          /\ Sized(Append(plan, topK)) /\ (HasCut(Append(plan, topK)) <=> Cut(topK))
          /\ HasWrap(Append(plan, topK)) <=> HasWrap(plan) \/ Wraps(topK)
      BY <2>2, <2>3, <2>9, <1>3, SpacedMore
    <2>6. /\ Cut(topK) => c.n = 0
          /\ Wraps(topK) /\ ~ pendingOffset > 0 => ~ (c.n <= IndexRange)
      BY <1>3, <1>4, <2>1, <2>3 DEF Cut, Wraps
    <2>7. CASE pendingOffset > 0
      <3>1. plan' = Append(Append(plan, topK), skip)
        BY <2>3, <2>4, <2>5, <2>7, AddOne
      <3>2. ~ NeedsRows(skip)
        BY <2>3 DEF NeedsRows
      <3>3. Spaced(plan') /\ Sized(plan')
        BY <2>3, <2>5, <2>9, <3>1, <3>2, SpacedMore
      <3> QED
        BY <1>2, <1>3, <2>1, <2>7, <3>3 DEF CutsKept
    <2>8. CASE ~ pendingOffset > 0
      <3>1. plan' = Append(plan, topK)
        BY <2>3, <2>4, <2>5, <2>8, AddOne
      <3> QED
        BY <1>2, <2>1, <2>5, <2>6, <3>1 DEF CutsKept
    <2> QED
      BY <2>7, <2>8
  <1>9. CASE LimitCall(c) /\ order = NoOrder
    <2> DEFINE n == [op |-> "Limit", n |-> c.n]
    <2>1. /\ c.fn = "Limit" /\ UNCHANGED <<order, pendingOffset>>
          /\ n.op = "Limit" /\ n.n = c.n /\ plan' = Append(plan, n)
      BY <1>9 DEF LimitCall
    <2> HIDE DEF n
    <2>2. /\ ~ NeedsRows(n) /\ ~ Adds(n) /\ (Cut(n) => c.n = 0)
          /\ Wraps(n) => ~ (c.n <= IndexRange)
      BY <2>1 DEF NeedsRows, Cut, Adds, Wraps
    <2>3. /\ Spaced(plan') /\ Sized(plan') /\ (HasCut(plan') <=> HasCut(plan) \/ Cut(n))
          /\ HasWrap(plan') <=> HasWrap(plan) \/ Wraps(n)
      BY <1>3, <1>4, <2>1, <2>2, SpacedMore
    <2> QED
      BY <1>2, <1>3, <1>9, <2>1, <2>2, <2>3 DEF CutsKept
  <1> QED
    BY <1>5, <1>6, <1>7, <1>8, <1>9 DEF Call

-----------------------------------------------------------------------------
(* An answerable query while it is made                                      *)

\* Its selection is right.  When a Count has left the columns unknown, nothing
\* refers to one, and the chain still finds what it uses.
BuildFine ==
    phase = "build" /\ Answerable =>
        /\ CutsKept
        /\ order # NoOrder => NoCount /\ OrderPending(Len(calls))
        /\ IsSeq(selected) /\ (selected # <<>> => NoCount /\ Selecting)
        /\ NoCount =>
               /\ Making \/ Len(parser.schema) = Len(parser.scan)
               /\ \A k \in 1 .. Len(selected) : selected[k] \in 0 .. Len(parser.schema)
        /\ ~ NoCount => /\ IsSeq(parser.scan) /\ IsSeq(parser.schema)
                       /\ \E t : Turns(plan, ScanCols(ScanColumns(parser)), t)

\* What an answerable query in which nothing was counted knows of its columns.
LEMMA NamedFine ==
    ASSUME BuildNames, phase = "build", Answerable, NoCount
    PROVE  /\ Good /\ Lay(plan, parser, AsMeant.cols) /\ OrderKnown(AsMeant.cols)
           /\ StringsRight(AsMeant) /\ Typed(parser.schema, AsMeant.strings)
  BY DEF BuildNames, Good, Answerable, WellMade

\* Nothing is selected but positions of cur_schema_.
LEMMA SelectInside ==
    ASSUME NEW c \in Calls, Select(c), NEW cols, Lay(plan, parser', cols),
           IsSeq(selected), Len(parser.schema) \in Nat,
           Len(parser.schema) <= Len(parser'.schema),
           \A k \in 1 .. Len(selected) : selected[k] \in 0 .. Len(parser.schema)
    PROVE  /\ IsSeq(selected')
           /\ \A k \in 1 .. Len(selected') : selected'[k] \in 0 .. Len(parser'.schema)
  <1> DEFINE p == LookUp(c)
             Ids(names) == [k \in 1 .. Len(names) |-> Id(p, names[k])]
  <1>1. parser' = p /\ selected' = IF c.star THEN Ids(RealNames) ELSE selected \o Ids(c.cols)
    BY DEF Select
  <1>2. Len(p.schema) \in Nat /\ \A name : Id(p, name) \in 0 .. Len(p.schema)
    BY <1>1, IdInside
  <1>3. ASSUME NEW names, Len(names) \in Nat
        PROVE  /\ IsSeq(Ids(names)) /\ Len(Ids(names)) = Len(names)
               /\ \A k \in 1 .. Len(names) : Ids(names)[k] \in 0 .. Len(p.schema)
    <2>1. IsSeq(Ids(names)) /\ Len(Ids(names)) = Len(names)
      BY <1>3, MadeSeq
    <2> QED
      BY <1>2, <2>1
  <1>4. Len(RealNames) \in Nat
    <2>1. Len(RealSchema) \in Nat
      BY RealSchemaNames
    <2>2. IsSeq(RealNames) /\ Len(RealNames) = Len(RealSchema)
      BY <2>1, MadeSeq DEF RealNames
    <2> QED
      BY <2>1, <2>2
  <1>5. Len(c.cols) \in Nat
    BY CallsAssumption, LenProperties DEF Select
  <1> HIDE DEF Ids, p
  <1>6. CASE c.star
    BY <1>1, <1>3, <1>4, <1>6
  <1>7. CASE ~ c.star
    <2>1. PICK s : s = Ids(c.cols)
      OBVIOUS
    <2>2. IsSeq(s) /\ Len(s) \in Nat /\ \A k \in 1 .. Len(s) : s[k] \in 0 .. Len(p.schema)
      BY <1>3, <1>5, <2>1
    <2>3. PICK u : u = selected \o s
      OBVIOUS
    <2>4. Joined(selected, s, u)
      BY <2>2, <2>3, SeqConcat
    <2>5. PICK a \in Nat, b \in Nat : a = Len(selected) /\ b = Len(s)
      BY <2>2, SeqLen
    <2>6. ASSUME NEW k \in 1 .. Len(u) PROVE u[k] \in 0 .. Len(p.schema)
      <3>1. CASE k \in 1 .. a
        BY <1>1, <1>2, <2>4, <2>5, <3>1 DEF Joined
      <3>2. CASE k \notin 1 .. a
        <4>1. k - a \in 1 .. b /\ k = a + (k - a)
          BY <2>4, <2>5, <3>2 DEF Joined
        <4>2. u[a + (k - a)] = s[k - a]
          BY <2>4, <2>5, <4>1 DEF Joined
        <4> QED
          BY <2>2, <2>5, <4>1, <4>2
      <3> QED
        BY <3>1, <3>2
    <2> QED
      BY <1>1, <1>7, <2>1, <2>3, <2>4, <2>6 DEF Joined
  <1> QED
    BY <1>6, <1>7

\* A cut, or a count of everything, finds what it uses: nothing.
LEMMA TurnsCounted ==
    ASSUME NEW pl, IsSeq(pl), NEW s, NEW t, Turns(pl, s, t), NEW n,
           \/ n.op \in {"Limit", "Offset"}
           \/ n = [op |-> "Aggregate", names |-> <<>>, ids |-> <<>>,
                   aggs |-> <<[fun |-> "COUNT", name |-> "COUNT(*)", type |-> "int64",
                               takes |-> "int64", id |-> 0]>>]
    PROVE  \E u : Turns(Append(pl, n), s, u)
  <1>1. IsSeq(t) /\ Len(t) \in Nat
    <2>1. PICK L : Layers(pl, L) /\ L[Len(pl)] = t
      BY DEF Turns
    <2>2. Len(pl) \in 0 .. Len(pl)
      BY SeqLen
    <2>3. IsSeq(t)
      BY <2>1, <2>2 DEF Layers
    <2> QED
      BY <2>3, SeqLen
  <1>2. CASE n.op \in {"Limit", "Offset"}
    <2>1. After(n, t) = t /\ Fits(n, t)
      BY <1>2 DEF After, Fits, Parts
    <2> QED
      BY <1>1, <1>2, <2>1, TurnsMore
  <1>3. CASE n = [op |-> "Aggregate", names |-> <<>>, ids |-> <<>>,
                  aggs |-> <<[fun |-> "COUNT", name |-> "COUNT(*)", type |-> "int64",
                              takes |-> "int64", id |-> 0]>>]
    <2>1. /\ n.op = "Aggregate" /\ n.names = <<>> /\ n.ids = <<>>
          /\ n.aggs = <<[fun |-> "COUNT", name |-> "COUNT(*)", type |-> "int64",
                         takes |-> "int64", id |-> 0]>>
      BY <1>3
    <2>2. Len(n.aggs) = 1 /\ n.aggs[1].id = 0
      BY <2>1
    <2>3. Fits(n, t)
      <3>1. ASSUME NEW r \in Parts(n) PROVE r.id = 0
        <4>1. PICK a \in 1 .. Len(n.aggs) : r = n.aggs[a]
          BY <2>1 DEF Parts
        <4>2. a = 1
          BY <2>2, <4>1
        <4> QED
          BY <2>2, <4>1, <4>2
      <3>2. IsSeq(n.ids) /\ Len(n.ids) = 0
        BY <2>1, EmptyIsSeq
      <3> QED
        BY <2>1, <3>1, <3>2 DEF Fits, Reading
    <2>4. IsSeq(After(n, t))
      <3> DEFINE a == KeyCols(n, KeyTypes(n, [cols |-> t]))
                 b == AggCols(n)
      <3>1. After(n, t) = a \o b
        BY <2>1 DEF After, GroupCols
      <3>2. IsSeq(b)
        BY <2>2, MadeSeq DEF AggCols
      <3>3. IsSeq(a)
        <4>1. Len(n.names) \in Nat
          BY <2>1, EmptyIsSeq
        <4>2. PICK keys : keys = KeyTypes(n, [cols |-> t])
          OBVIOUS
        <4>3. IsSeq(KeyCols(n, keys))
          BY <4>1, MadeSeq DEF KeyCols
        <4> QED
          BY <4>2, <4>3
      <3> HIDE DEF a, b
      <3> QED
        BY <3>1, <3>2, <3>3, SeqConcat DEF Joined
    <2> QED
      BY <2>1, <2>3, <2>4, TurnsMore
  <1> QED
    BY <1>2, <1>3

\* A call of a query that has its columns.
LEMMA CallFineNamed ==
    ASSUME QInv, BuildNames, BuildFine, NEW c \in Calls, Call(c), phase = "build",
           calls' = Append(calls, c), table' = table, IsSeq(calls), IsMeaning(AsMeant),
           c.fn \in Fns \ {"Count"}, Answerable', NoCount
    PROVE  /\ order' # NoOrder => OrderPending(Len(calls))'
           /\ IsSeq(selected') /\ (selected' # <<>> => Selecting')
           /\ Making' \/ Len(parser'.schema) = Len(parser'.scan)
           /\ \A k \in 1 .. Len(selected') : selected'[k] \in 0 .. Len(parser'.schema)
  <1>1. /\ Answerable /\ Meant!Sensible(AsMeant, c)
        /\ c.fn = "GroupBy" => ~ Selecting
    BY FineBefore
  <1>2. /\ IsSeq(selected) /\ (selected # <<>> => Selecting)
        /\ Making \/ Len(parser.schema) = Len(parser.scan)
        /\ \A k \in 1 .. Len(selected) : selected[k] \in 0 .. Len(parser.schema)
    BY <1>1 DEF BuildFine
  <1>3. /\ NoCount'
        /\ Making' <=> Making \/ c.fn \in {"Add", "Case", "GroupBy"}
        /\ Selecting' <=> Selecting \/ c.fn = "Select"
    BY CallsMore
  <1>4. Good'
    BY <1>3 DEF Good, Answerable, WellMade
  <1>5. /\ Lay(plan, parser, AsMeant.cols) /\ OrderKnown(AsMeant.cols)
        /\ StringsRight(AsMeant) /\ Typed(parser.schema, AsMeant.strings)
    BY <1>1, NamedFine
  <1>6. BuildNames' /\ phase' = "build"
    BY CallNames DEF Call, Building, Where, Case, Add, GroupBy, Count, OrderBy, OffsetCall,
        LimitCall, Rename, Select, buildRest
  <1>7. /\ Lay(plan', parser', AsMeant'.cols)
        /\ order' # NoOrder => OrderPending(Len(calls))'
    BY <1>4, <1>6 DEF BuildNames
  <1>8. PICK q : q = AsMeant
    OBVIOUS
  <1>9. KeepsTypes(c, q)
    BY <1>1, <1>5, <1>8, CallTyped
  <1>12. Making' \/ Len(parser'.schema) = Len(parser'.scan)
    BY <1>2, <1>3, <1>9 DEF KeepsTypes
  <1>13. Len(parser.schema) \in Nat /\ Len(parser'.schema) \in Nat
    BY <1>5, <1>7, IdInside
  <1>14. CASE Select(c)
    <2>1. c.fn = "Select"
      BY <1>14 DEF Select
    <2>2. Len(parser.schema) <= Len(parser'.schema)
      BY <1>9, <2>1 DEF KeepsTypes
    <2>3. Lay(plan, parser', AsMeant'.cols)
      BY <1>7, <1>14 DEF Select
    <2>4. /\ IsSeq(selected')
          /\ \A k \in 1 .. Len(selected') : selected'[k] \in 0 .. Len(parser'.schema)
      <3>1. PICK cols : cols = AsMeant'.cols
        OBVIOUS
      <3> QED
        BY <1>2, <1>13, <1>14, <2>2, <2>3, <3>1, SelectInside
    <2> QED
      BY <1>3, <1>7, <1>12, <2>1, <2>4
  <1>15. CASE ~ Select(c)
    <2>1. selected' = selected
      BY <1>15 DEF Call, Where, Case, Add, GroupBy, Count, OrderBy, OffsetCall, LimitCall,
          Rename
    <2>2. \A k \in 1 .. Len(selected) : selected[k] \in 0 .. Len(parser'.schema)
      <3>1. CASE c.fn = "GroupBy"
        BY <1>1, <1>2, <3>1
      <3>2. CASE c.fn # "GroupBy"
        <4>1. Len(parser.schema) <= Len(parser'.schema)
          BY <1>9, <3>2 DEF KeepsTypes
        <4> QED
          BY <1>2, <1>13, <4>1
      <3> QED
        BY <3>1, <3>2
    <2> QED
      BY <1>2, <1>3, <1>7, <1>12, <2>1, <2>2
  <1> QED
    BY <1>14, <1>15

\* A call after which the columns are unknown.
LEMMA CallFineCounted ==
    ASSUME QInv, BuildNames, BuildFine, NEW c \in Calls, Call(c), phase = "build",
           calls' = Append(calls, c), table' = table, IsSeq(calls), IsMeaning(AsMeant),
           c.fn \in Fns, Answerable', ~ NoCount \/ c.fn = "Count"
    PROVE  /\ order' = NoOrder /\ selected' = <<>>
           /\ IsSeq(parser'.scan) /\ IsSeq(parser'.schema)
           /\ \E t : Turns(plan', ScanCols(ScanColumns(parser))', t)
  <1>1. /\ Answerable
        /\ c.fn = "Count" => ~ OrderPending(Len(calls)) /\ ~ Selecting
        /\ c.fn \in NotCounted => NoCount
    BY FineBefore
  <1>2. c.fn \in {"Limit", "Offset", "Count"}
    BY <1>1 DEF Fns, NotCounted
  <1>3. order = NoOrder /\ selected = <<>>
    BY <1>1 DEF BuildFine
  <1>4. PICK t : /\ IsSeq(parser.scan) /\ IsSeq(parser.schema)
                 /\ Turns(plan, ScanCols(ScanColumns(parser)), t)
    <2>1. CASE NoCount
      <3>1. Lay(plan, parser, AsMeant.cols)
        BY <1>1, <2>1, NamedFine
      <3>2. PICK pl, p, cols : pl = plan /\ p = parser /\ cols = AsMeant.cols
        OBVIOUS
      <3>3. IsSeq(parser.scan) /\ IsSeq(parser.schema)
        BY <3>1 DEF Lay
      <3> QED
        BY <3>1, <3>2, <3>3, RunTurns
    <2>2. CASE ~ NoCount
      BY <1>1, <2>2 DEF BuildFine
    <2> QED
      BY <2>1, <2>2
  <1>5. PICK n : /\ plan' = Append(plan, n)
                 /\ \/ n.op \in {"Limit", "Offset"}
                    \/ n = [op |-> "Aggregate", names |-> <<>>, ids |-> <<>>,
                            aggs |-> <<[fun |-> "COUNT", name |-> "COUNT(*)",
                                        type |-> "int64", takes |-> "int64", id |-> 0]>>]
    <2>1. LimitCall(c) \/ OffsetCall(c) \/ Count(c)
      BY <1>2 DEF Call, Where, Case, Add, GroupBy, OrderBy, Rename, Select
    <2>2. CASE LimitCall(c)
      <3>1. plan' = Append(plan, [op |-> "Limit", n |-> c.n])
        BY <1>3, <2>2 DEF LimitCall
      <3> QED
        BY <3>1
    <2>3. CASE OffsetCall(c)
      <3>1. plan' = Append(plan, [op |-> "Offset", n |-> c.n])
        BY <1>3, <2>3 DEF OffsetCall
      <3> QED
        BY <3>1
    <2>4. CASE Count(c)
      BY <2>4 DEF Count
    <2> QED
      BY <2>1, <2>2, <2>3, <2>4
  <1>6. UNCHANGED <<parser, order, selected>>
    BY <1>2, <1>3 DEF Call, Where, Case, Add, GroupBy, OrderBy, Rename, Select, LimitCall,
        OffsetCall, Count
  <1>7. IsSeq(plan)
    BY DEF QInv, BuildInv, Chain
  <1>8. PICK s : s = ScanCols(ScanColumns(parser))
    OBVIOUS
  <1>9. \E u : Turns(Append(plan, n), s, u)
    BY <1>4, <1>5, <1>7, <1>8, TurnsCounted
  <1>10. ScanCols(ScanColumns(parser))' = s
    BY <1>6, <1>8 DEF ScanCols, ScanColumns
  <1>11. IsSeq(parser'.scan) /\ IsSeq(parser'.schema)
    BY <1>4, <1>6
  <1> QED
    BY <1>3, <1>5, <1>6, <1>9, <1>10, <1>11

LEMMA CallFine ==
    ASSUME QInv, BuildNames, BuildFine, NEW c \in Calls, Call(c)
    PROVE  BuildFine'
  <1>1. /\ phase = "build" /\ calls' = Append(calls, c) /\ UNCHANGED table
    BY DEF Call, Building, scanVars
  <1>2. IsSeq(calls) /\ IsMeaning(AsMeant) /\ IsSeq(plan)
    BY <1>1 DEF QInv, BuildInv, BuildNames, Chain
  <1>3. c.fn \in Fns
    BY DEF Call, Where, Case, Add, GroupBy, Count, OrderBy, OffsetCall, LimitCall,
        Rename, Select, Fns
  <1> SUFFICES ASSUME Answerable' PROVE BuildFine'
    BY DEF BuildFine
  <1>4. /\ Answerable
        /\ c.fn \in {"Add", "Case"} => ~ Cutting(Len(calls)) /\ ~ LongLimit
        /\ c.fn = "Limit" /\ OrderPending(Len(calls)) => ~ Cutting(Len(calls) - 1)
    BY <1>1, <1>2, <1>3, FineBefore
  <1>5. CutsKept'
    BY <1>1, <1>2, <1>4, CallCuts DEF BuildFine
  <1>6. NoCount' <=> NoCount /\ c.fn # "Count"
    BY <1>1, <1>2, CallsMore
  <1>7. CASE NoCount'
    BY <1>1, <1>2, <1>3, <1>5, <1>6, <1>7, CallFineNamed DEF BuildFine
  <1>8. CASE ~ NoCount'
    <2>1. /\ order' = NoOrder /\ selected' = <<>>
          /\ IsSeq(parser'.scan) /\ IsSeq(parser'.schema)
          /\ \E t : Turns(plan', ScanCols(ScanColumns(parser))', t)
      BY <1>1, <1>2, <1>3, <1>6, <1>8, CallFineCounted
    <2>2. (\E t : Turns(plan, ScanCols(ScanColumns(parser)), t))'
      BY <2>1
    <2> QED
      BY <1>5, <1>8, <2>1, <2>2, EmptyIsSeq DEF BuildFine
  <1> QED
    BY <1>7, <1>8

\* A column of the query is known.
LEMMA ColumnKnown ==
    ASSUME NEW cols, Lay(plan, parser, cols), NEW name \in cols \cup {NoCol}
    PROVE  Known(name)
  <1>1. Len(parser.schema) \in Nat /\ cols \subseteq Having(parser.schema) \cup Real
    BY SeqLen DEF Lay
  <1>2. \A m \in 1 .. Len(parser.schema) : m # 0
    BY <1>1
  <1>3. name \in Having(parser.schema) => IndexOf(parser.schema, name) # 0
    BY <1>1, <1>2, IndexOfName
  <1>4. name \in Real => IndexOf(RealSchema, name) # 0
    BY RealSchemaNames, IndexOfName
  <1> QED
    BY <1>1, <1>3, <1>4 DEF Known

\* The column of a condition is found, with the type of the condition.
PredTyped(c, q) ==
    LET p == Register(parser, c.pred.col)
    IN  /\ Id(p, c.pred.col) \in 1 .. Len(p.schema)
        /\ TypeOf(p, c.pred.col) = c.pred.type
        /\ Grown(parser, p)

LEMMA PredicateTyped ==
    ASSUME BuildNames, phase = "build", Answerable, NoCount,
           NEW c \in Calls, c.fn \in {"Where", "Case"}, NEW q, q = AsMeant,
           Meant!Sensible(q, c)
    PROVE  PredTyped(c, q)
  <1> DEFINE col == c.pred.col
             p == Register(parser, col)
  <1>1. /\ Lay(plan, parser, q.cols) /\ OrderKnown(q.cols)
        /\ StringsRight(q) /\ Typed(parser.schema, q.strings)
    BY NamedFine
  <1>2. col \in q.cols
    BY DEF Meant!Sensible, Meant!Mentioned
  <1>3. Lay(plan, p, q.cols) /\ col \in Having(p.schema)
    BY <1>1, <1>2, RegisterLay
  <1>4. Typed(p.schema, q.strings) /\ Grown(parser, p)
    BY <1>1, <1>2, RegisterTyped
  <1>5. Id(p, col) \in 1 .. Len(p.schema) /\ TypeOf(p, col) = Meant!TypeIn(q, col)
    BY <1>3, <1>4, ColumnFits DEF Lay
  <1>6. c.pred.type = Meant!TypeIn(q, col)
    BY DEF Meant!Sensible, Meant!RightType
  <1> QED
    BY <1>4, <1>5, <1>6 DEF PredTyped

\* No call of an answerable query is refused.
LEMMA NotRefused ==
    ASSUME QInv, BuildNames, BuildFine, NEW c \in Calls, Refuse(c), Answerable'
    PROVE  FALSE
  <1>1. /\ phase = "build" /\ calls' = Append(calls, c) /\ table' = table
        /\ Unparsed(c) \/ \E i \in 1 .. Len(LookedUp(c)) : ~ Known(LookedUp(c)[i])
    BY DEF Refuse, Building, scanVars
  <1>2. IsSeq(calls) /\ IsMeaning(AsMeant)
    BY <1>1 DEF QInv, BuildInv, BuildNames
  <1>3. ASSUME ~ Unparsed(c) PROVE FALSE
    <2>1. \E i \in 1 .. Len(LookedUp(c)) : ~ Known(LookedUp(c)[i])
      BY <1>1, <1>3
    <2>2. LookedUp(c) # <<>>
      BY <2>1
    <2>3. c.fn \in Fns \ {"Count", "Offset"} /\ (c.fn = "Limit" => order # NoOrder)
      BY <2>2 DEF LookedUp, Fns
    <2>4. /\ Answerable /\ Meant!Sensible(AsMeant, c)
          /\ c.fn \in NotCounted => NoCount
      BY <1>1, <1>2, <2>3, FineBefore
    <2>5. NoCount
      BY <1>1, <2>3, <2>4 DEF Fns, NotCounted, BuildFine
    <2>6. Lay(plan, parser, AsMeant.cols) /\ OrderKnown(AsMeant.cols)
      BY <1>1, <2>4, <2>5, NamedFine
    <2>7. \A i \in 1 .. Len(LookedUp(c)) : LookedUp(c)[i] \in AsMeant.cols \cup {NoCol}
      BY <2>3, <2>4, <2>6, LookUpNames
    <2> QED
      BY <2>1, <2>6, <2>7, ColumnKnown
  <1>4. ASSUME Unparsed(c) PROVE FALSE
    <2>1. /\ c.fn \in {"Where", "Case"} /\ c.pred.type = "string"
          /\ TypeOf(Register(parser, c.pred.col), c.pred.col) # "string"
      BY <1>4 DEF Unparsed
    <2>2. c.fn \in Fns \ {"Count"} /\ c.fn \in NotCounted
      BY <2>1 DEF Fns, NotCounted
    <2>3. /\ Answerable /\ Meant!Sensible(AsMeant, c) /\ NoCount
      BY <1>1, <1>2, <2>2, FineBefore
    <2>4. PICK q : q = AsMeant
      OBVIOUS
    <2>5. PredTyped(c, q)
      BY <1>1, <2>1, <2>3, <2>4, PredicateTyped
    <2> QED
      BY <2>1, <2>5 DEF PredTyped
  <1> QED
    BY <1>3, <1>4

\* No string predicate of an answerable query is looked up past the end of
\* columns_for_scan_.
LEMMA NotOverrun ==
    ASSUME QInv, BuildNames, BuildFine, NEW c \in Calls, Overrun(c), Answerable'
    PROVE  FALSE
  <1> DEFINE col == c.pred.col
             p == Register(parser, col)
             k == Id(p, col)
  <1>1. /\ phase = "build" /\ calls' = Append(calls, c) /\ table' = table
        /\ c.fn \in {"Where", "Case"} /\ PushesPastEnd(p, c.pred)
    BY DEF Overrun, Building, scanVars, PastEnd
  <1>2. IsSeq(calls) /\ IsMeaning(AsMeant)
    BY <1>1 DEF QInv, BuildInv, BuildNames
  <1>3. c.fn \in Fns \ {"Count"} /\ c.fn \in NotCounted
    BY <1>1 DEF Fns, NotCounted
  <1>4. /\ Answerable /\ Meant!Sensible(AsMeant, c) /\ NoCount
        /\ c.pred.type = "string" => ~ Making
    BY <1>1, <1>2, <1>3, FineBefore
  <1>5. PICK q : q = AsMeant
    OBVIOUS
  <1>6. PredTyped(c, q)
    BY <1>1, <1>4, <1>5, PredicateTyped
  <1>7. c.pred.type = "string" /\ k > Len(p.scan)
    BY <1>1 DEF PushesPastEnd
  <1>8. Making \/ Len(parser.schema) = Len(parser.scan)
    BY <1>1, <1>4 DEF BuildFine
  <1>9. Len(p.schema) = Len(p.scan)
    BY <1>4, <1>6, <1>7, <1>8 DEF PredTyped, Grown
  <1>10. k \in 1 .. Len(p.schema) /\ Len(p.schema) \in Nat
    BY <1>6 DEF PredTyped, Grown
  <1>11. PICK i \in Int, n \in Int : i = k /\ n = Len(p.schema)
    BY <1>10
  <1> QED
    BY <1>7, <1>9, <1>10, <1>11

\* Nor does Run refuse it.
LEMMA RunNotRefused == ASSUME BuildNames, BuildFine, RunRefused, Answerable PROVE FALSE
  <1>1. phase = "build" /\ order # NoOrder /\ ~ Known(order.col)
    BY DEF RunRefused
  <1>2. NoCount
    BY <1>1 DEF BuildFine
  <1>3. Lay(plan, parser, AsMeant.cols) /\ OrderKnown(AsMeant.cols)
    BY <1>1, <1>2, NamedFine
  <1> QED
    BY <1>1, <1>3, ColumnKnown DEF OrderKnown

\* A query without calls.
LEMMA InitFine == QueryInit => BuildFine
  <1> SUFFICES ASSUME QueryInit PROVE BuildFine
    OBVIOUS
  <1>1. /\ plan = <<>> /\ calls = <<>> /\ selected = <<>> /\ order = NoOrder
        /\ pendingOffset = 0 /\ parser.schema = <<>> /\ parser.scan = <<>>
    BY DEF QueryInit, Init
  <1>2. CutsKept
    <2>1. \A k : k \notin 1 .. Len(plan)
      BY <1>1, EmptyIsSeq
    <2>2. ~ HasCut(plan) /\ ~ HasWrap(plan) /\ Spaced(plan) /\ Sized(plan)
      BY <2>1 DEF HasCut, HasWrap, Spaced, Sized
    <2>3. pendingOffset \in Nat /\ (pendingOffset > 0 => Skipping)
      BY <1>1
    <2>4. HasCut(plan) => Cutting(Len(calls)) /\ (order # NoOrder => Cutting(Len(calls) - 1))
      BY <2>2
    <2>5. HasWrap(plan) => Cutting(Len(calls)) \/ LongLimit
      BY <2>2
    <2> QED
      BY <2>2, <2>3, <2>4, <2>5, Zenon DEF CutsKept
  <1>3. NoCount
    BY <1>1, EmptyIsSeq DEF NoCount
  <1> QED
    BY <1>1, <1>2, <1>3, EmptyIsSeq DEF BuildFine

-----------------------------------------------------------------------------
(* Rows where they are needed                                              *)

\* No operator among the first n may leave a batch without rows.
Uncut(n) == \A k \in 1 .. n : ~ Cut(plan[k])

HasRows(b) == IsSeq(b.rows) /\ Len(b.rows) > 0

\* What an operator keeps.
Held(r) ==
    /\ r.batch # NoBatch => HasRows(r.batch)
    /\ IsFiniteSet(DOMAIN r.groups) /\ IsSeq(r.out)

\* No batch is without rows that comes from uncut operators, or is gathered
\* by one.
Filled ==
    /\ dir = "up" /\ ret # NoBatch /\ Uncut(act - 1) => HasRows(ret)
    /\ \A m \in 1 .. Len(plan) : Uncut(m) => Held(mem[m])

\* The scan reads columns that have rows, and no more than can be numbered.
ScanFilled ==
    /\ IsSeq(columns) /\ Len(columns) > 0
    /\ rowGroup \in 0 .. Len(table) /\ (scanPc = "read" => rowGroup > 0)
    /\ IsSeq(chunks)
    /\ Len(chunks) > 0 =>
           IsSeq(chunks[1]) /\ Len(chunks[1]) > 0 /\ Len(chunks[1]) < IndexRange

\* An answerable query that runs.
RunFine ==
    phase = "run" /\ ~ Reran /\ Answerable =>
        /\ \E L : Flows(L)
        /\ Spaced(plan) /\ Sized(plan)
        /\ ScanFilled /\ Filled
        /\ dir \notin {"thrown", "undefined"}
        /\ IsSeq(parser.schema)
        /\ IsSeq(selected) /\ (selected # <<>> => NoCount)
        /\ \A k \in 1 .. Len(selected) : selected[k] \in 0 .. Len(parser.schema)

\* Before that, the scan has not begun.
NotBegun == table \in Tables /\ (phase = "build" => rowGroup = 0 /\ chunks = <<>>)

-----------------------------------------------------------------------------
(* What the operators do to the number of rows                             *)

\* The groups after each row.
Added(op, groups, rows, n, e) ==
    e = [k \in 0 .. n |-> IF k = 0 THEN groups ELSE AddRow(op, e[k - 1], rows[k])]

LEMMA AddedExist ==
    ASSUME NEW op, NEW groups, NEW rows
    PROVE  \A n \in Nat : \E e : Added(op, groups, rows, n, e)
  <1> DEFINE Has == {n \in Nat : \E e : Added(op, groups, rows, n, e)}
  <1>1. 0 \in Has
    <2>1. Added(op, groups, rows, 0, [k \in 0 .. 0 |-> groups])
      BY DEF Added
    <2> QED
      BY <2>1
  <1>2. ASSUME NEW n \in Nat, n \in Has PROVE n + 1 \in Has
    <2>1. PICK e : Added(op, groups, rows, n, e)
      BY <1>2
    <2> DEFINE g == [k \in 0 .. n + 1 |-> IF k = n + 1 THEN AddRow(op, e[n], rows[k]) ELSE e[k]]
    <2>2. Added(op, groups, rows, n + 1, g)
      <3>1. ASSUME NEW k \in 0 .. n + 1
            PROVE  g[k] = IF k = 0 THEN groups ELSE AddRow(op, g[k - 1], rows[k])
        <4>1. CASE k = 0
          BY <2>1, <4>1 DEF Added
        <4>2. CASE k \in 1 .. n
          <5>1. g[k] = e[k] /\ g[k - 1] = e[k - 1]
            BY <4>2
          <5>2. e[k] = AddRow(op, e[k - 1], rows[k])
            <6>1. k \in 0 .. n /\ k # 0
              BY <4>2
            <6> QED
              BY <2>1, <6>1 DEF Added
          <5> QED
            BY <4>2, <5>1, <5>2
        <4>3. CASE k = n + 1
          <5>1. g[k] = AddRow(op, e[n], rows[k]) /\ g[k - 1] = e[n]
            BY <4>3
          <5> QED
            BY <4>3, <5>1
        <4> QED
          BY <4>1, <4>2, <4>3
      <3> HIDE DEF g
      <3>2. g = [k \in 0 .. n + 1 |-> g[k]]
        BY DEF g
      <3> QED
        BY <3>1, <3>2 DEF Added
    <2> HIDE DEF g
    <2> QED
      BY <2>2
  <1> HIDE DEF Has
  <1>3. \A n \in Nat : n \in Has
    BY <1>1, <1>2, SetInduction
  <1> QED
    BY <1>3 DEF Has

LEMMA AddedSteps ==
    ASSUME NEW op, NEW groups, NEW rows, Len(rows) \in Nat
    PROVE  \E e : /\ e[0] = groups
                  /\ \A k \in 1 .. Len(rows) : e[k] = AddRow(op, e[k - 1], rows[k])
                  /\ ProcessBatch(op, groups, rows) = e[Len(rows)]
  <1> DEFINE f == CHOOSE e : Added(op, groups, rows, Len(rows), e)
  <1>1. \E e : Added(op, groups, rows, Len(rows), e)
    BY AddedExist
  <1>2. Added(op, groups, rows, Len(rows), f)
    BY <1>1
  <1>3. ProcessBatch(op, groups, rows) = f[Len(rows)]
    BY Zenon DEF ProcessBatch, Added
  <1> HIDE DEF f
  <1>4. f[0] = groups
    <2>1. 0 \in 0 .. Len(rows)
      OBVIOUS
    <2> QED
      BY <1>2, <2>1 DEF Added
  <1>5. ASSUME NEW k \in 1 .. Len(rows) PROVE f[k] = AddRow(op, f[k - 1], rows[k])
    <2>1. k \in 0 .. Len(rows) /\ k # 0
      OBVIOUS
    <2> QED
      BY <1>2, <2>1 DEF Added
  <1> QED
    BY <1>3, <1>4, <1>5

\* A batch leaves finitely many groups.
LEMMA GroupsFinite ==
    ASSUME NEW op, NEW groups, IsFiniteSet(DOMAIN groups), NEW rows, IsSeq(rows)
    PROVE  IsFiniteSet(DOMAIN ProcessBatch(op, groups, rows))
  <1>1. Len(rows) \in Nat
    BY SeqLen
  <1>2. PICK e : /\ e[0] = groups
                 /\ \A k \in 1 .. Len(rows) : e[k] = AddRow(op, e[k - 1], rows[k])
                 /\ ProcessBatch(op, groups, rows) = e[Len(rows)]
    BY <1>1, AddedSteps
  <1> DEFINE S == {n \in Nat : n <= Len(rows) => IsFiniteSet(DOMAIN e[n])}
  <1>3. 0 \in S
    BY <1>2
  <1>4. ASSUME NEW n \in Nat, n \in S PROVE n + 1 \in S
    <2> SUFFICES ASSUME n + 1 <= Len(rows) PROVE IsFiniteSet(DOMAIN e[n + 1])
      OBVIOUS
    <2>1. IsFiniteSet(DOMAIN e[n])
      BY <1>1, <1>4
    <2>2. n + 1 \in 1 .. Len(rows) /\ n + 1 - 1 = n
      BY <1>1
    <2>3. e[n + 1] = AddRow(op, e[n], rows[n + 1])
      BY <1>2, <2>2
    <2>4. PICK key : DOMAIN AddRow(op, e[n], rows[n + 1]) = DOMAIN e[n] \cup {key}
      BY Zenon DEF AddRow
    <2>5. IsFiniteSet(DOMAIN e[n] \cup {key})
      BY <2>1, FS_AddElement
    <2> QED
      BY <2>3, <2>4, <2>5
  <1> HIDE DEF S
  <1>5. \A n \in Nat : n \in S
    BY <1>3, <1>4, SetInduction
  <1> QED
    BY <1>1, <1>2, <1>5 DEF S

\* The rows kept, with one more row.
KeptWith(op, had, row) == IF row[op.id] \in op.sat THEN Append(had, row) ELSE had

\* The rows kept up to each row.
Filtered(op, rows, n, e) ==
    e = [k \in 0 .. n |-> IF k = 0 THEN <<>> ELSE KeptWith(op, e[k - 1], rows[k])]

LEMMA FilteredExist ==
    ASSUME NEW op, NEW rows
    PROVE  \A n \in Nat : \E e : Filtered(op, rows, n, e)
  <1> DEFINE Has == {n \in Nat : \E e : Filtered(op, rows, n, e)}
  <1>1. 0 \in Has
    <2>1. Filtered(op, rows, 0, [k \in 0 .. 0 |-> <<>>])
      BY DEF Filtered
    <2> QED
      BY <2>1
  <1>2. ASSUME NEW n \in Nat, n \in Has PROVE n + 1 \in Has
    <2>1. PICK e : Filtered(op, rows, n, e)
      BY <1>2
    <2> DEFINE g == [k \in 0 .. n + 1 |-> IF k = n + 1 THEN KeptWith(op, e[n], rows[k]) ELSE e[k]]
    <2>2. Filtered(op, rows, n + 1, g)
      <3>1. ASSUME NEW k \in 0 .. n + 1
            PROVE  g[k] = IF k = 0 THEN <<>> ELSE KeptWith(op, g[k - 1], rows[k])
        <4>1. CASE k = 0
          BY <2>1, <4>1 DEF Filtered
        <4>2. CASE k \in 1 .. n
          <5>1. g[k] = e[k] /\ g[k - 1] = e[k - 1]
            BY <4>2
          <5>2. e[k] = KeptWith(op, e[k - 1], rows[k])
            <6>1. k \in 0 .. n /\ k # 0
              BY <4>2
            <6> QED
              BY <2>1, <6>1 DEF Filtered
          <5> QED
            BY <4>2, <5>1, <5>2
        <4>3. CASE k = n + 1
          <5>1. g[k] = KeptWith(op, e[n], rows[k]) /\ g[k - 1] = e[n]
            BY <4>3
          <5> QED
            BY <4>3, <5>1
        <4> QED
          BY <4>1, <4>2, <4>3
      <3> HIDE DEF g
      <3>2. g = [k \in 0 .. n + 1 |-> g[k]]
        BY DEF g
      <3> QED
        BY <3>1, <3>2 DEF Filtered
    <2> HIDE DEF g
    <2> QED
      BY <2>2
  <1> HIDE DEF Has
  <1>3. \A n \in Nat : n \in Has
    BY <1>1, <1>2, SetInduction
  <1> QED
    BY <1>3 DEF Has

LEMMA FilteredSteps ==
    ASSUME NEW op, NEW rows, Len(rows) \in Nat
    PROVE  \E e : /\ e[0] = <<>>
                  /\ \A k \in 1 .. Len(rows) : e[k] = KeptWith(op, e[k - 1], rows[k])
                  /\ Selected(op, rows) = e[Len(rows)]
  <1> DEFINE f == CHOOSE e : Filtered(op, rows, Len(rows), e)
  <1>1. \E e : Filtered(op, rows, Len(rows), e)
    BY FilteredExist
  <1>2. Filtered(op, rows, Len(rows), f)
    BY <1>1
  <1>3. Selected(op, rows) = f[Len(rows)]
    BY Zenon DEF Selected, Filtered, KeptWith
  <1> HIDE DEF f
  <1>4. f[0] = <<>>
    <2>1. 0 \in 0 .. Len(rows)
      OBVIOUS
    <2> QED
      BY <1>2, <2>1 DEF Filtered
  <1>5. ASSUME NEW k \in 1 .. Len(rows) PROVE f[k] = KeptWith(op, f[k - 1], rows[k])
    <2>1. k \in 0 .. Len(rows) /\ k # 0
      OBVIOUS
    <2> QED
      BY <1>2, <2>1 DEF Filtered
  <1> QED
    BY <1>3, <1>4, <1>5

LEMMA SelectedSeq ==
    ASSUME NEW op, NEW rows, IsSeq(rows)
    PROVE  IsSeq(Selected(op, rows))
  <1>1. Len(rows) \in Nat
    BY SeqLen
  <1>2. PICK e : /\ e[0] = <<>>
                 /\ \A k \in 1 .. Len(rows) : e[k] = KeptWith(op, e[k - 1], rows[k])
                 /\ Selected(op, rows) = e[Len(rows)]
    BY <1>1, FilteredSteps
  <1> DEFINE S == {n \in Nat : n <= Len(rows) => IsSeq(e[n])}
  <1>3. 0 \in S
    BY <1>2, EmptyIsSeq
  <1>4. ASSUME NEW n \in Nat, n \in S PROVE n + 1 \in S
    <2> SUFFICES ASSUME n + 1 <= Len(rows) PROVE IsSeq(e[n + 1])
      OBVIOUS
    <2>1. IsSeq(e[n])
      BY <1>1, <1>4
    <2>2. n + 1 \in 1 .. Len(rows) /\ n + 1 - 1 = n
      BY <1>1
    <2>3. e[n + 1] = KeptWith(op, e[n], rows[n + 1])
      BY <1>2, <2>2
    <2> QED
      BY <2>1, <2>3, SeqAppend DEF KeptWith
  <1> HIDE DEF S
  <1>5. \A n \in Nat : n \in S
    BY <1>3, <1>4, SetInduction
  <1> QED
    BY <1>1, <1>2, <1>5 DEF S

\* A sequence that is not empty has a length.
LEMMA SomeRows ==
    ASSUME NEW s, IsSeq(s), s # <<>>
    PROVE  Len(s) > 0
  <1>1. Len(s) \in Nat
    BY SeqLen
  <1>2. Len(s) # 0
    <2> SUFFICES ASSUME Len(s) = 0 PROVE s = <<>>
      OBVIOUS
    <2> QED
      BY EmptyIsSeq, SameSeq
  <1> QED
    BY <1>1, <1>2

\* A part of a sequence, from its first element.
LEMMA SubSeqLen ==
    ASSUME NEW s, IsSeq(s), NEW n \in 0 .. Len(s)
    PROVE  IsSeq(SubSeq(s, 1, n)) /\ Len(SubSeq(s, 1, n)) = n
  <1>1. PICK S : s \in Seq(S)
    BY DEF IsSeq
  <1>2. Len(s) \in Nat
    BY SeqLen
  <1>3. SubSeq(s, 1, n) \in Seq(S) /\ Len(SubSeq(s, 1, n)) = n
    BY <1>1, <1>2, SubSeqProperties
  <1> QED
    BY <1>3 DEF IsSeq

LEMMA SmallerOf ==
    ASSUME NEW m \in Nat, NEW n \in Nat
    PROVE  /\ Smaller(m, n) \in 0 .. m /\ Smaller(m, n) \in 0 .. n
           /\ m > 0 /\ n > 0 => Smaller(m, n) > 0
  BY DEF Smaller

\* What is gathered has rows, if each batch has and the limit is not 0.
LEMMA GatherRows ==
    ASSUME NEW n, n.op \in Collecting, n.op = "Limit" => n.n \in Nat \ {0},
           NEW had, had # NoBatch => HasRows(had), NEW b, HasRows(b)
    PROVE  HasRows(Gather(n, had, b))
  <1> DEFINE before == IF had = NoBatch THEN <<>> ELSE had.rows
             rows == before \o b.rows
             k == Keeps(n, rows)
  <1>1. IsSeq(before) /\ IsSeq(b.rows) /\ Len(b.rows) \in Nat /\ Len(b.rows) > 0
    BY EmptyIsSeq, SeqLen DEF HasRows
  <1> HIDE DEF before
  <1>2. IsSeq(rows) /\ Len(rows) = Len(before) + Len(b.rows)
    BY <1>1, SeqConcat DEF Joined
  <1>3. Len(rows) \in Nat /\ Len(rows) > 0
    BY <1>1, <1>2, SeqLen
  <1>4. Gather(n, had, b).rows = SubSeq(rows, 1, k)
    BY DEF Gather, before
  <1> HIDE DEF rows
  <1>5. k \in 0 .. Len(rows) /\ k > 0
    BY <1>3, LimitAssumption, SmallerOf DEF Keeps, Collecting
  <1> HIDE DEF k
  <1>6. IsSeq(SubSeq(rows, 1, k)) /\ Len(SubSeq(rows, 1, k)) = k
    BY <1>2, <1>5, SubSeqLen
  <1> QED
    BY <1>4, <1>5, <1>6 DEF HasRows

\* Numbering and sorting keep the number of rows.
LEMMA NumberedRows ==
    ASSUME NEW rows, Len(rows) \in Nat
    PROVE  IsSeq(Numbered(rows)) /\ Len(Numbered(rows)) = Len(rows)
  BY MadeSeq DEF Numbered

LEMMA SortedLen ==
    ASSUME NEW n, NEW rows, Len(rows) \in Nat, NEW s \in SortedRows(n, rows)
    PROVE  IsSeq(s) /\ Len(s) = Len(rows)
  <1>1. PICK p : s = [i \in 1 .. Len(rows) |-> rows[p[i]]]
    BY DEF SortedRows, Arrangements
  <1> QED
    BY <1>1, MadeSeq

LEMMA TopKLen ==
    ASSUME NEW n, n.n \in Nat \ {0}, NEW rows, Len(rows) \in Nat, Len(rows) > 0,
           NEW s \in TopKRows(n, rows)
    PROVE  IsSeq(s) /\ Len(s) > 0
  <1>1. PICK p, all : /\ all = [i \in 1 .. Len(rows) |-> rows[p[i]]]
                      /\ s = Numbered(SubSeq(all, 1, Smaller(n.n, Len(rows))))
    BY DEF TopKRows, Arrangements
  <1>2. IsSeq(all) /\ Len(all) = Len(rows)
    BY <1>1, MadeSeq
  <1>3. PICK k : k = Smaller(n.n, Len(rows)) /\ k \in 0 .. Len(rows) /\ k > 0
    <2>1. PICK a \in Nat, b \in Nat : a = n.n /\ b = Len(rows) /\ a > 0 /\ b > 0
      OBVIOUS
    <2>2. Smaller(a, b) \in 0 .. b /\ Smaller(a, b) > 0
      BY <2>1, SmallerOf
    <2> QED
      BY <2>1, <2>2
  <1>4. PICK first : first = SubSeq(all, 1, k) /\ Len(first) = k
    BY <1>2, <1>3, SubSeqLen
  <1>5. Len(first) \in Nat /\ Len(first) > 0
    BY <1>3, <1>4
  <1>6. s = Numbered(first)
    BY <1>1, <1>3, <1>4
  <1> QED
    BY <1>5, <1>6, NumberedRows

-----------------------------------------------------------------------------
(* Rows where they are needed: the steps                                   *)

LEMMA UncutBelow ==
    ASSUME act \in 1 .. Len(plan), Len(plan) \in Nat, Uncut(act)
    PROVE  Uncut(act - 1) /\ ~ Cut(plan[act])
  BY DEF Uncut

\* A step that sets the memory of the running operator, and perhaps returns.
LEMMA SetFills ==
    ASSUME Filled, ShapeInv, phase = "run", act > 0, plan' = plan,
           NEW r, Sets(r), act <= Len(plan) /\ Uncut(act) => Held(r),
           \/ dir' \in {"down", "done"} \/ ret' = NoBatch
           \/ /\ act <= Len(plan) /\ act' = act + 1
              /\ Uncut(act) => HasRows(ret')
    PROVE  Filled'
  <1>1. Len(plan) \in Nat /\ act \in 1 .. Len(plan) + 1 /\ DOMAIN mem = 1 .. Len(plan) + 1
    BY RunningOp DEF ShapeInv
  <1>2. \A n : Uncut(n)' <=> Uncut(n)
    BY DEF Uncut
  <1>3. ASSUME NEW m \in 1 .. Len(plan), Uncut(m) PROVE Held(mem'[m])
    <2>1. CASE m = act
      BY <1>1, <1>3, <2>1 DEF Sets
    <2>2. CASE m # act
      BY <1>1, <1>3, <2>2 DEF Sets, Filled
    <2> QED
      BY <2>1, <2>2
  <1>4. \A m \in 1 .. Len(plan) : Held(mem[m])' <=> Held(mem'[m])
    BY DEF Held, HasRows
  <1>5. dir' = "up" /\ ret' # NoBatch /\ Uncut(act' - 1) => HasRows(ret')
    <2>1. CASE act' = act + 1 /\ (Uncut(act) => HasRows(ret'))
      <3>1. act' - 1 = act
        BY <1>1, <2>1
      <3> QED
        BY <2>1, <3>1
    <2> QED
      BY <2>1
  <1>6. HasRows(ret)' <=> HasRows(ret')
    BY DEF HasRows
  <1>7. Uncut(act - 1)' <=> Uncut(act' - 1)
    BY DEF Uncut
  <1> QED
    BY <1>2, <1>3, <1>4, <1>5, <1>6, <1>7 DEF Filled

\* The operators leave the scan alone.
LEMMA ScanKept == ASSUME ScanFilled, UNCHANGED scanKept PROVE ScanFilled'
  BY DEF ScanFilled, scanKept

\* The next group of the file.
LEMMA OpenFills ==
    ASSUME ScanFilled, table \in Tables, OpenGroup, UNCHANGED <<table, columns>>
    PROVE  ScanFilled'
  <1>1. Len(table) \in Nat
    BY TablesAssumption
  <1>2. rowGroup' \in 0 .. Len(table) /\ (scanPc' = "read" => rowGroup' > 0)
    BY <1>1 DEF OpenGroup, ScanFilled, NumRowGroups
  <1>3. chunks' = <<>> /\ Len(chunks') = 0
    BY DEF OpenGroup
  <1> QED
    BY <1>2, <1>3, EmptyIsSeq DEF ScanFilled

\* A chunk that is not pruned has the rows of its group.
LEMMA ReadFills ==
    ASSUME ScanFilled, table \in Tables, GroupsFilled, GroupsFit, ReadColumn
    PROVE  ScanFilled'
  <1>1. /\ scanPc = "read" /\ ~ Dropped /\ chunks' = Append(chunks, NextChunk)
        /\ UNCHANGED <<table, columns, rowGroup, scanPc>>
    BY DEF ReadColumn
  <1>2. rowGroup \in 1 .. Len(table) /\ IsSeq(chunks)
    <2>1. Len(table) \in Nat
      BY TablesAssumption
    <2> QED
      BY <1>1, <2>1 DEF ScanFilled
  <1>3. /\ Len(table[rowGroup]) \in Nat /\ Len(table[rowGroup]) > 0
        /\ Len(table[rowGroup]) < IndexRange
    <2>1. table[rowGroup] \in Seq(ToSet(table[rowGroup]))
      BY <1>2, TablesAssumption
    <2>2. IsSeq(table[rowGroup])
      BY <2>1 DEF IsSeq
    <2>3. table[rowGroup] # <<>>
      BY <1>2 DEF GroupsFilled
    <2>4. Len(table[rowGroup]) < IndexRange
      BY <1>2 DEF GroupsFit
    <2> QED
      BY <2>2, <2>3, <2>4, SomeRows, SeqLen
  <1>4. PICK k : k = Len(chunks) + 1
    OBVIOUS
  <1>5. NextChunk = GetBatch(rowGroup, columns[k], OptionsAt(k))
    BY <1>4 DEF NextChunk
  <1>6. ~ Pruned(rowGroup, columns[k], OptionsAt(k))
    <2> SUFFICES ASSUME Pruned(rowGroup, columns[k], OptionsAt(k)) PROVE FALSE
      OBVIOUS
    <2>1. NextChunk = <<>>
      BY <1>5 DEF GetBatch
    <2>2. OptionsAt(k) # NoOptions
      BY DEF Pruned
    <2> QED
      BY <1>1, <1>4, <2>1, <2>2 DEF Dropped
  <1>7. NextChunk = Column(rowGroup, columns[k])
    BY <1>5, <1>6 DEF GetBatch
  <1>8. IsSeq(NextChunk) /\ Len(NextChunk) = Len(table[rowGroup])
    BY <1>3, <1>7, MadeSeq DEF Column
  <1>9. PICK chunk : chunk = NextChunk
    OBVIOUS
  <1>10. /\ IsSeq(chunks') /\ Len(chunks) \in Nat
         /\ \A i \in 1 .. Len(chunks) : chunks'[i] = chunks[i]
         /\ chunks'[Len(chunks) + 1] = chunk
    BY <1>1, <1>2, <1>9, SeqAppend
  <1>11. IsSeq(chunks'[1]) /\ Len(chunks'[1]) > 0 /\ Len(chunks'[1]) < IndexRange
    <2>1. CASE Len(chunks) = 0
      <3>1. chunks'[1] = chunk
        BY <1>10, <2>1
      <3> QED
        BY <1>3, <1>8, <1>9, <3>1
    <2>2. CASE Len(chunks) > 0
      <3>1. chunks'[1] = chunks[1]
        BY <1>10, <2>2
      <3> QED
        BY <2>2, <3>1 DEF ScanFilled
    <2> QED
      BY <1>10, <2>1, <2>2
  <1> QED
    BY <1>1, <1>10, <1>11 DEF ScanFilled

LEMMA ScanFills ==
    ASSUME ScanFilled, Filled, ShapeInv, phase = "run", table \in Tables, GroupsFilled,
           GroupsFit, CallScan \/ ScanReturns
    PROVE  ScanFilled' /\ Filled'
  <1>1. CASE CallScan
    <2>1. UNCHANGED <<plan, mem, dir>> /\ dir = "down"
      BY <1>1 DEF CallScan, opVars
    <2>2. Filled'
      <3>1. \A n : Uncut(n)' <=> Uncut(n)
        BY <2>1 DEF Uncut
      <3>2. \A m \in 1 .. Len(plan) : Held(mem[m])' <=> Held(mem[m])
        BY <2>1 DEF Held, HasRows
      <3> QED
        BY <2>1, <3>1, <3>2 DEF Filled
    <2>3. ScanFilled'
      BY <1>1, OpenFills, ReadFills DEF CallScan, GetNext, SkipGroup
    <2> QED
      BY <2>2, <2>3
  <1>2. CASE ScanReturns
    <2>1. UNCHANGED <<plan, mem>> /\ act' = 1 /\ scanPc' = "idle"
          /\ UNCHANGED <<table, columns, rowGroup, chunks>>
      BY <1>2 DEF ScanReturns, ReturnBatch, ReturnNone
    <2>2. ScanFilled'
      BY <2>1 DEF ScanFilled
    <2>3. ret' # NoBatch => HasRows(ret)'
      <3> SUFFICES ASSUME ReturnBatch PROVE HasRows(ret')
        BY <1>2 DEF ScanReturns, ReturnNone, HasRows
      <3>1. Len(chunks) > 0
        BY DEF ScanFilled, ReturnBatch
      <3>2. Len(chunks[1]) \in Nat /\ Len(chunks[1]) > 0
        BY <3>1, SeqLen DEF ScanFilled
      <3> DEFINE rows == [r \in 1 .. Len(chunks[1]) |->
                            [k \in 1 .. Len(columns) |-> chunks[k][r]]]
      <3>3. ret'.rows = rows
        BY DEF ReturnBatch
      <3>4. IsSeq(rows) /\ Len(rows) = Len(chunks[1])
        BY <3>2, MadeSeq
      <3> QED
        BY <3>2, <3>3, <3>4 DEF HasRows
    <2>4. Filled'
      <3>1. \A n : Uncut(n)' <=> Uncut(n)
        BY <2>1 DEF Uncut
      <3>2. \A m \in 1 .. Len(plan) : Held(mem[m])' <=> Held(mem[m])
        BY <2>1 DEF Held, HasRows
      <3> QED
        BY <2>1, <2>3, <3>1, <3>2 DEF Filled
    <2> QED
      BY <2>2, <2>4
  <1> QED
    BY <1>1, <1>2

LEMMA CallFills ==
    ASSUME Filled, ShapeInv, phase = "run", CallChild
    PROVE  Filled'
  <1>1. act > 0 /\ dir' = "down" /\ plan' = plan
    BY DEF CallChild, PullChild
  <1>2. /\ act \in DOMAIN mem /\ Memory(mem[act]) /\ act \in 0 .. Len(plan) + 1
        /\ Len(plan) \in Nat
    BY <1>1, RunningOp
  <1>3. act <= Len(plan) /\ Uncut(act) => Held(mem[act])
    BY <1>1, <1>2 DEF Filled
  <1>4. PICK r : /\ Sets(r)
                 /\ r.batch \in {mem[act].batch, NoBatch}
                 /\ r.groups = mem[act].groups /\ r.out = mem[act].out
    <2>1. CASE UNCHANGED mem
      BY <2>1 DEF Sets
    <2>2. CASE mem' = [mem EXCEPT ![act].batch = NoBatch]
      <3> WITNESS [mem[act] EXCEPT !.batch = NoBatch]
      <3> QED
        BY <1>2, <2>2 DEF Sets, Memory, Fields
    <2>3. CASE mem' = [mem EXCEPT ![act].ready = TRUE]
      <3> WITNESS [mem[act] EXCEPT !.ready = TRUE]
      <3> QED
        BY <1>2, <2>3 DEF Sets, Memory, Fields
    <2> QED
      BY <2>1, <2>2, <2>3 DEF CallChild
  <1>5. act <= Len(plan) /\ Uncut(act) => Held(r)
    BY <1>3, <1>4 DEF Held
  <1> QED
    BY <1>1, <1>4, <1>5, SetFills

\* What operators that are not cut hand on.
LEMMA FilterFills ==
    ASSUME Filled, ShapeInv, phase = "run", Filter
    PROVE  Filled'
  <1>1. /\ dir = "up" /\ Running.op = "Filter" /\ ret # NoBatch /\ UNCHANGED <<plan, mem>>
    BY DEF Filter
  <1>2. act \in 1 .. Len(plan) /\ act > 0 /\ Len(plan) \in Nat /\ Running = plan[act]
    BY <1>1, Inside, RunningOp DEF Running
  <1>3. Uncut(act) => Held(mem[act]) /\ HasRows(ret)
    BY <1>1, <1>2, UncutBelow DEF Filled
  <1>4. Sets(mem[act]) /\ DOMAIN ret = {"cols", "rows"}
    BY <1>1, <1>2, Unset DEF ShapeInv, IsBatch
  <1>5. CASE dir' = "down"
    BY <1>1, <1>2, <1>3, <1>4, <1>5, SetFills
  <1>6. CASE dir' # "down"
    <2>1. PICK rows : rows = Selected(Running, ret.rows)
      OBVIOUS
    <2>2. rows # <<>> /\ Return([ret EXCEPT !.rows = rows])
      BY <1>6, <2>1 DEF Filter, PullChild
    <2>3. act' = act + 1 /\ ret'.rows = rows
      BY <1>4, <2>2 DEF Return
    <2>4. HasRows(ret) => HasRows(ret')
      BY <2>1, <2>2, <2>3, SelectedSeq, SomeRows DEF HasRows
    <2> QED
      BY <1>1, <1>2, <1>3, <1>4, <2>3, <2>4, SetFills
  <1> QED
    BY <1>5, <1>6

LEMMA TransformFills ==
    ASSUME Filled, ShapeInv, phase = "run", Transform
    PROVE  Filled'
  <1>1. /\ dir = "up" /\ ret # NoBatch /\ UNCHANGED <<plan, mem>>
        /\ \/ Running.op \in {"AddCol", "AddCase"} /\ Return(AddColumn(Running, ret))
           \/ Running.op = "As" /\ Return(Renamed(Running, ret))
    BY DEF Transform
  <1>2. act \in 1 .. Len(plan) /\ act > 0 /\ Len(plan) \in Nat /\ Running = plan[act]
    BY <1>1, Inside, RunningOp DEF Running
  <1>3. Uncut(act) => Held(mem[act]) /\ HasRows(ret)
    BY <1>1, <1>2, UncutBelow DEF Filled
  <1>4. Sets(mem[act]) /\ DOMAIN ret = {"cols", "rows"} /\ act' = act + 1
    BY <1>1, <1>2, Unset DEF ShapeInv, IsBatch, Return
  <1>5. HasRows(ret) => HasRows(ret')
    <2>1. CASE ret' = AddColumn(Running, ret)
      <3> DEFINE rows == [i \in 1 .. Len(ret.rows) |->
                            Insert(ret.rows[i], Running.at, AddedValue(Running, ret.rows[i]))]
      <3>1. ret'.rows = rows
        BY <2>1 DEF AddColumn
      <3>2. Len(ret.rows) \in Nat => IsSeq(rows) /\ Len(rows) = Len(ret.rows)
        BY MadeSeq
      <3> HIDE DEF rows
      <3> QED
        BY <3>1, <3>2, SeqLen DEF HasRows
    <2>2. CASE ret' = Renamed(Running, ret)
      <3>1. ret'.rows = ret.rows
        BY <1>4, <2>2 DEF Renamed
      <3> QED
        BY <3>1 DEF HasRows
    <2> QED
      BY <1>1, <2>1, <2>2 DEF Return
  <1> QED
    BY <1>1, <1>2, <1>3, <1>4, <1>5, SetFills

LEMMA CollectFills ==
    ASSUME Filled, ShapeInv, phase = "run", Sized(plan), Collect
    PROVE  Filled'
  <1>1. /\ dir = "up" /\ Running.op \in Collecting /\ ret # NoBatch /\ dir' = "down"
        /\ UNCHANGED <<plan, ret>> /\ act > 0
        /\ mem' = [mem EXCEPT ![act].batch = Gather(Running, @, ret)]
    BY DEF Collect, PullChild, ShapeInv
  <1>2. /\ act \in DOMAIN mem /\ act \in 1 .. Len(plan) + 1 /\ Len(plan) \in Nat
        /\ Memory(mem[act])
    BY <1>1, RunningOp DEF ShapeInv
  <1> DEFINE b == Gather(Running, mem[act].batch, ret)
             r == [mem[act] EXCEPT !.batch = b]
  <1>3. act <= Len(plan) /\ Uncut(act) => HasRows(b) /\ Held(mem[act])
    <2> SUFFICES ASSUME act <= Len(plan), Uncut(act) PROVE HasRows(b) /\ Held(mem[act])
      OBVIOUS
    <2>1. act \in 1 .. Len(plan) /\ Running = plan[act]
      BY <1>2 DEF Running
    <2>2. Held(mem[act]) /\ HasRows(ret) /\ ~ Cut(plan[act])
      BY <1>1, <1>2, <2>1, UncutBelow DEF Filled
    <2>3. Running.op = "Limit" => Running.n \in Nat \ {0}
      BY <2>1, <2>2 DEF Sized, Cut
    <2>4. PICK n, had : n = Running /\ had = mem[act].batch
      OBVIOUS
    <2>5. n.op \in Collecting /\ (n.op = "Limit" => n.n \in Nat \ {0})
          /\ (had # NoBatch => HasRows(had))
      BY <1>1, <2>2, <2>3, <2>4 DEF Held
    <2>6. HasRows(Gather(n, had, ret))
      BY <2>2, <2>5, GatherRows
    <2> QED
      BY <2>2, <2>4, <2>6
  <1> HIDE DEF b
  <1>4. /\ Sets(r) /\ r.batch = b
        /\ r.groups = mem[act].groups /\ r.out = mem[act].out
    BY <1>1, <1>2 DEF Sets, Memory, Fields, b
  <1> HIDE DEF r
  <1>5. act <= Len(plan) /\ Uncut(act) => Held(r)
    BY <1>3, <1>4 DEF Held
  <1> QED
    BY <1>1, <1>4, <1>5, SetFills

LEMMA AggregateFills ==
    ASSUME Filled, ShapeInv, phase = "run", Aggregate
    PROVE  Filled'
  <1>1. /\ dir = "up" /\ Running.op = "Aggregate" /\ UNCHANGED plan /\ dir' = "down"
        /\ act > 0 /\ ret # NoBatch
        /\ mem' = [mem EXCEPT ![act].keys = KeyTypes(Running, ret),
                              ![act].groups = ProcessBatch(Running, @, ret.rows)]
    BY DEF Aggregate, PullChild, ShapeInv
  <1>2. /\ act \in DOMAIN mem /\ Memory(mem[act]) /\ act \in 1 .. Len(plan)
        /\ Len(plan) \in Nat
    BY <1>1, RunningOp, Inside
  <1>3. PICK g, keys : /\ g = ProcessBatch(Running, mem[act].groups, ret.rows)
                       /\ keys = KeyTypes(Running, ret)
    OBVIOUS
  <1>4. Uncut(act) => Held(mem[act]) /\ HasRows(ret)
    BY <1>1, <1>2, UncutBelow DEF Filled
  <1>5. Uncut(act) => IsFiniteSet(DOMAIN g)
    BY <1>3, <1>4, GroupsFinite DEF Held, HasRows
  <1> DEFINE r == [mem[act] EXCEPT !.keys = keys, !.groups = g]
  <1>6. Sets(r) /\ r.batch = mem[act].batch /\ r.groups = g /\ r.out = mem[act].out
    BY <1>1, <1>2, <1>3 DEF Memory, Fields, Sets
  <1> HIDE DEF r
  <1>7. act <= Len(plan) /\ Uncut(act) => Held(r)
    BY <1>4, <1>5, <1>6 DEF Held
  <1> QED
    BY <1>1, <1>6, <1>7, SetFills

LEMMA FinishFills ==
    ASSUME Filled, ShapeInv, phase = "run", Sized(plan), FinishCollect
    PROVE  Filled'
  <1> DEFINE b == mem[act].batch
  <1>1. /\ dir = "up" /\ ret = NoBatch /\ UNCHANGED plan
        /\ Running.op \in Collecting /\ b # NoBatch
        /\ Limit(b) \/ Offset(b) \/ Sort(b) \/ TopK(b)
    BY DEF FinishCollect
  <1>2. Running.op \in Collecting \ {"Run"}
    BY <1>1 DEF Limit, Offset, Sort, TopK
  <1>3. /\ act \in 1 .. Len(plan) /\ act > 0 /\ act \in DOMAIN mem /\ Len(plan) \in Nat
        /\ Memory(mem[act]) /\ DOMAIN b = {"cols", "rows"} /\ Running = plan[act]
    BY <1>1, <1>2, Inside, RunningOp DEF Memory, IsBatch, Running
  <1>4. Uncut(act) => Held(mem[act]) /\ HasRows(b) /\ ~ Cut(Running)
    BY <1>1, <1>3, UncutBelow DEF Filled, Held
  <1>5. PICK rows : /\ Return([b EXCEPT !.rows = rows])
                    /\ Uncut(act) => IsSeq(rows) /\ Len(rows) > 0
    <2>1. CASE Limit(b)
      BY <1>4, <2>1, NumberedRows, SeqLen DEF Limit, HasRows
    <2>2. CASE Offset(b)
      BY <1>4, <2>2 DEF Offset, Cut
    <2>3. CASE Sort(b)
      <3>1. PICK s \in SortedRows(Running, b.rows) : Return([b EXCEPT !.rows = s])
        BY <2>3 DEF Sort
      <3>2. Len(b.rows) \in Nat => IsSeq(s) /\ Len(s) = Len(b.rows)
        <4>1. PICK n, rs : n = Running /\ rs = b.rows
          OBVIOUS
        <4>2. s \in SortedRows(n, rs)
          BY <4>1
        <4> HIDE DEF b
        <4> QED
          BY <4>1, <4>2, SortedLen
      <3> QED
        BY <1>4, <3>1, <3>2, SeqLen DEF HasRows
    <2>4. CASE TopK(b)
      <3>1. CASE Uncut(act)
        <4>1. Running.n # 0 /\ Running.n \in Nat
          BY <1>3, <1>4, <2>4, <3>1 DEF TopK, Cut, Sized
        <4>2. PICK s \in TopKRows(Running, b.rows) : Return([b EXCEPT !.rows = s])
          BY <2>4, <4>1 DEF TopK
        <4>3. PICK n, rs : n = Running /\ rs = b.rows
          OBVIOUS
        <4>4. Len(rs) \in Nat /\ Len(rs) > 0 /\ n.n \in Nat \ {0} /\ s \in TopKRows(n, rs)
          BY <1>4, <3>1, <4>1, <4>2, <4>3, SeqLen DEF HasRows
        <4>5. IsSeq(s) /\ Len(s) > 0
          <5> HIDE DEF b
          <5> QED
            BY <4>4, TopKLen
        <4> QED
          BY <4>2, <4>5
      <3>2. CASE ~ Uncut(act)
        <4>1. \E rows : Return([b EXCEPT !.rows = rows])
          BY <2>4 DEF TopK
        <4> QED
          BY <3>2, <4>1
      <3> QED
        BY <3>1, <3>2
    <2> QED
      BY <1>1, <2>1, <2>2, <2>3, <2>4
  <1>6. PICK r : /\ Sets(r) /\ r.batch = mem[act].batch
                 /\ r.groups = mem[act].groups /\ r.out = mem[act].out
    <2>1. CASE UNCHANGED mem
      BY <1>3, <2>1, Unset
    <2>2. CASE Offset(b)
      <3>1. PICK skip : mem' = [mem EXCEPT ![act].skipped = skip]
        BY <2>2 DEF Offset
      <3> WITNESS [mem[act] EXCEPT !.skipped = skip]
      <3> QED
        BY <1>3, <3>1 DEF Memory, Fields, Sets
    <2> QED
      BY <1>1, <2>1, <2>2 DEF Limit, Sort, TopK
  <1>7. act' = act + 1 /\ ret'.rows = rows
    BY <1>3, <1>5 DEF Return
  <1>8. Uncut(act) => Held(r) /\ HasRows(ret')
    BY <1>4, <1>5, <1>6, <1>7 DEF Held, HasRows
  <1> QED
    BY <1>1, <1>3, <1>6, <1>7, <1>8, SetFills

\* The groups are finitely many, so they come in a sequence.
LEMMA AggregateRunFills ==
    ASSUME Filled, ShapeInv, phase = "run", AggregateRun
    PROVE  Filled'
  <1>1. /\ dir = "up" /\ Running.op = "Aggregate" /\ UNCHANGED plan /\ dir' = "down"
        /\ act > 0
    BY DEF AggregateRun, ShapeInv
  <1>2. /\ act \in DOMAIN mem /\ Memory(mem[act]) /\ act \in 1 .. Len(plan)
        /\ Len(plan) \in Nat
    BY <1>1, RunningOp, Inside
  <1>3. PICK keys \in SetToSeqs(DOMAIN mem[act].groups) :
            mem' = [mem EXCEPT ![act].out =
                        [i \in 1 .. Len(keys) |->
                            GroupRow(Running, mem[act].groups, keys[i])]]
    BY DEF AggregateRun
  <1>4. PICK out : out = [i \in 1 .. Len(keys) |->
                             GroupRow(Running, mem[act].groups, keys[i])]
    OBVIOUS
  <1>5. Uncut(act) => Held(mem[act])
    BY <1>2 DEF Filled
  <1>6. IsFiniteSet(DOMAIN mem[act].groups) => IsSeq(out)
    <2> SUFFICES ASSUME IsFiniteSet(DOMAIN mem[act].groups) PROVE IsSeq(out)
      OBVIOUS
    <2>1. PICK n \in Nat : n = Cardinality(DOMAIN mem[act].groups)
      BY FS_CardinalityType
    <2>2. keys \in [1 .. n -> DOMAIN mem[act].groups]
      BY <1>3, <2>1 DEF SetToSeqs
    <2>3. Len(keys) \in Nat
      BY <2>2
    <2> QED
      BY <1>4, <2>3, MadeSeq
  <1> DEFINE r == [mem[act] EXCEPT !.out = out]
  <1>7. Sets(r) /\ r.batch = mem[act].batch /\ r.groups = mem[act].groups /\ r.out = out
    BY <1>2, <1>3, <1>4 DEF Memory, Fields, Sets
  <1> HIDE DEF r
  <1>8. act <= Len(plan) /\ Uncut(act) => Held(r)
    BY <1>5, <1>6, <1>7 DEF Held
  <1> QED
    BY <1>1, <1>3, <1>4, <1>7, <1>8, SetFills

\* No batch of groups is without one.
LEMMA EmitFills ==
    ASSUME Filled, ShapeInv, phase = "run", EmitGroups
    PROVE  Filled'
  <1> DEFINE out == mem[act].out
             n == Smaller(ChunkSize, Len(out))
             rest == SubSeq(out, n + 1, Len(out))
  <1>1. /\ dir = "down" /\ act > 0 /\ Running.op = "Aggregate"
        /\ UNCHANGED plan /\ act' = act + 1
        /\ ret' = (IF out = <<>> THEN NoBatch
                   ELSE [cols |-> GroupCols(Running, mem[act].keys), rows |-> SubSeq(out, 1, n)])
        /\ mem' = [mem EXCEPT ![act].out = rest]
    BY DEF EmitGroups, Return
  <1>2. /\ act \in 1 .. Len(plan) /\ act \in DOMAIN mem /\ Len(plan) \in Nat
        /\ Memory(mem[act])
    BY <1>1, RunningOp
  <1>3. Uncut(act) => Held(mem[act]) /\ IsSeq(out)
    BY <1>2 DEF Filled, Held
  <1> DEFINE r == [mem[act] EXCEPT !.out = rest]
  <1>4. Sets(r) /\ r.batch = mem[act].batch /\ r.groups = mem[act].groups /\ r.out = rest
    BY <1>1, <1>2 DEF Memory, Fields, Sets
  <1>5. PICK s, m : s = out /\ m = n /\ m = Smaller(ChunkSize, Len(s))
    OBVIOUS
  <1> HIDE DEF out, n, r
  <1>6. ASSUME IsSeq(s)
        PROVE  /\ IsSeq(SubSeq(s, m + 1, Len(s)))
               /\ s # <<>> => IsSeq(SubSeq(s, 1, m)) /\ Len(SubSeq(s, 1, m)) > 0
    <2>1. Len(s) \in Nat
      BY <1>6, SeqLen
    <2>2. m \in 0 .. Len(s) /\ (s # <<>> => m > 0)
      <3>1. ChunkSize \in Nat /\ ChunkSize > 0
        BY LimitAssumption
      <3>2. m \in 0 .. Len(s) /\ (Len(s) > 0 => m > 0)
        BY <1>5, <2>1, <3>1, SmallerOf
      <3> QED
        BY <1>6, <3>2, SomeRows
    <2>3. IsSeq(SubSeq(s, m + 1, Len(s)))
      <3>1. PICK S : s \in Seq(S)
        BY <1>6 DEF IsSeq
      <3>2. SubSeq(s, m + 1, Len(s)) \in Seq(S)
        BY <2>1, <2>2, <3>1, SubSeqProperties
      <3> QED
        BY <3>2 DEF IsSeq
    <2> QED
      BY <1>6, <2>2, <2>3, SubSeqLen
  <1>7. Uncut(act) => Held(r)
    BY <1>3, <1>4, <1>5, <1>6 DEF Held
  <1>8. ret' = NoBatch \/ (Uncut(act) => HasRows(ret'))
    <2> SUFFICES ASSUME ret' # NoBatch, Uncut(act) PROVE HasRows(ret')
      OBVIOUS
    <2>1. s # <<>> /\ ret'.rows = SubSeq(s, 1, m)
      BY <1>1, <1>5
    <2> QED
      BY <1>3, <1>5, <1>6, <2>1 DEF HasRows
  <1>9. act <= Len(plan) /\ plan' = plan /\ Sets(r)
    BY <1>1, <1>2, <1>4
  <1>10. \/ ret' = NoBatch
         \/ act <= Len(plan) /\ act' = act + 1 /\ (Uncut(act) => HasRows(ret'))
    BY <1>1, <1>8, <1>9
  <1>11. act > 0
    BY <1>1
  <1> QED
    BY <1>7, <1>9, <1>10, <1>11, SetFills

LEMMA RestFills ==
    ASSUME Filled, ShapeInv, phase = "run", PassNone \/ CollectNone \/ EngineDone
    PROVE  Filled'
  <1>1. act > 0 /\ UNCHANGED <<plan, mem>>
    BY DEF PassNone, CollectNone, EngineDone, ShapeInv
  <1>2. Sets(mem[act]) /\ Len(plan) \in Nat /\ act \in 0 .. Len(plan) + 1
    BY <1>1, Unset, RunningOp
  <1>3. act <= Len(plan) /\ Uncut(act) => Held(mem[act])
    BY <1>1, <1>2 DEF Filled
  <1>4. dir' = "done" \/ ret' = NoBatch
    BY DEF PassNone, CollectNone, EngineDone, Return
  <1> QED
    BY <1>1, <1>2, <1>3, <1>4, SetFills

-----------------------------------------------------------------------------
(* An answerable query is answered                                           *)

\* What reads a row of columns that fit finds its column, of the type it takes.
LEMMA ReadersFit ==
    ASSUME NEW n, NEW cols, IsSeq(cols), Fits(n, cols)
    PROVE  /\ \A r \in Parts(n) : ~ Misplaced(r, cols) /\ ~ Mistyped(r, cols)
           /\ \A row : Readers(n, row) \subseteq Parts(n)
  <1>1. Len(cols) \in Nat
    BY SeqLen
  <1>2. ASSUME NEW r \in Parts(n) PROVE ~ Misplaced(r, cols) /\ ~ Mistyped(r, cols)
    <2>1. Reading(r, cols)
      BY DEF Fits
    <2> QED
      BY <1>1, <2>1 DEF Reading, Misplaced, Mistyped
  <1>3. ASSUME NEW row PROVE Readers(n, row) \subseteq Parts(n)
    BY DEF Readers, Parts, Branch
  <1> QED
    BY <1>2, <1>3

\* The columns of a batch that comes up fit the operator it comes to.
LEMMA ComesUpFit ==
    ASSUME ShapeInv, phase = "run", NEW L, Flows(L), dir = "up"
    PROVE  /\ act \in 1 .. Len(plan) + 1 /\ Len(plan) \in Nat
           /\ act \notin 1 .. Len(plan) => Running = [op |-> "Run"]
           /\ act \in 1 .. Len(plan) =>
                  /\ Running = plan[act] /\ Fits(Running, L[act - 1]) /\ IsSeq(L[act - 1])
                  /\ ret # NoBatch => ret.cols = L[act - 1]
                  /\ mem[act].batch # NoBatch => mem[act].batch.cols = L[act - 1]
  <1>1. act > 0
    BY DEF ShapeInv
  <1>2. /\ act \in 1 .. Len(plan) + 1 /\ Len(plan) \in Nat
        /\ act \notin 1 .. Len(plan) => Running = [op |-> "Run"]
        /\ act \in 1 .. Len(plan) => Running = plan[act]
    BY <1>1, RunningOp DEF Running, EngineRun
  <1>3. act \in 1 .. Len(plan) => act - 1 \in 0 .. Len(plan)
    BY <1>2
  <1> QED
    BY <1>2, <1>3 DEF Flows, Layers, Carried

\* The types are those the operators were compiled for.
LEMMA NotThrowing ==
    ASSUME ShapeInv, phase = "run", NEW L, Flows(L), Throw
    PROVE  FALSE
  <1>1. dir = "up" /\ ret # NoBatch
    BY DEF Throw
  <1>2. PICK n : n = Running
    OBVIOUS
  <1>3. Throws(n, ret) \/ (LooksFirst(n, ret) /\ Mistyped(n, ret.cols))
    BY <1>2 DEF Throw
  <1>4. CASE act \notin 1 .. Len(plan)
    <2>1. n.op = "Run"
      BY <1>1, <1>2, <1>4, ComesUpFit
    <2>2. \A row : Readers(n, row) = {}
      BY <2>1 DEF Readers
    <2> QED
      BY <1>3, <2>1, <2>2 DEF Throws, LooksFirst
  <1>5. CASE act \in 1 .. Len(plan)
    <2>1. PICK cols : cols = L[act - 1]
      OBVIOUS
    <2>2. Fits(n, cols) /\ IsSeq(cols) /\ ret.cols = cols
      BY <1>1, <1>2, <1>5, <2>1, ComesUpFit
    <2>3. ~ Throws(n, ret)
      <3>1. \A row : \A r \in Readers(n, row) : ~ Mistyped(r, ret.cols)
        BY <2>2, ReadersFit
      <3>2. n.op = "AddCase" => \A row : Branch(n, row).type = n.type
        BY <2>2 DEF Fits, Branch
      <3> QED
        BY <3>1, <3>2 DEF Throws
    <2>4. LooksFirst(n, ret) => n \in Parts(n)
      BY DEF LooksFirst, Parts
    <2> QED
      BY <1>3, <2>2, <2>3, <2>4, ReadersFit
  <1> QED
    BY <1>4, <1>5

\* An operator finds its columns, rows if it needs them, and no more than can
\* be numbered.
LEMMA NotMisbehaving ==
    ASSUME ShapeInv, phase = "run", NEW L, Flows(L), Spaced(plan), Sized(plan),
           ScanFilled, Filled, Misbehave
    PROVE  FALSE
  <1>1. ~ TooLong
    <2>1. TooLong => Len(chunks) > 0
      BY DEF TooLong, ScanFilled
    <2>2. Len(chunks) > 0 => Len(chunks[1]) \in Nat /\ Len(chunks[1]) < IndexRange
      BY SeqLen DEF ScanFilled
    <2>3. IndexRange \in Nat
      BY LimitAssumption
    <2> QED
      BY <2>1, <2>2, <2>3 DEF TooLong
  <1>2. dir = "up"
    BY <1>1 DEF Misbehave
  <1>3. PICK n : n = Running
    OBVIOUS
  <1>4. \/ ret # NoBatch /\ Unfit(n, ret)
        \/ ret # NoBatch /\ LooksFirst(n, ret) /\ Misplaced(n, ret.cols)
        \/ Adds(n) /\ Wrapped(act)
        \/ mem[act].batch # NoBatch /\ Unfinished(n, mem[act].batch)
    BY <1>1, <1>3 DEF Misbehave, Adds
  <1>5. CASE act \notin 1 .. Len(plan)
    <2>1. n.op = "Run"
      BY <1>2, <1>3, <1>5, ComesUpFit
    <2>2. \A row : Readers(n, row) = {}
      BY <2>1 DEF Readers
    <2> QED
      BY <1>4, <2>1, <2>2 DEF Unfit, Unfinished, LooksFirst, Adds
  <1>6. CASE act \in 1 .. Len(plan)
    <2>1. PICK cols : cols = L[act - 1]
      OBVIOUS
    <2>2. /\ Fits(n, cols) /\ IsSeq(cols) /\ n = plan[act] /\ Len(plan) \in Nat
          /\ ret # NoBatch => ret.cols = cols
          /\ mem[act].batch # NoBatch => mem[act].batch.cols = cols
      BY <1>2, <1>3, <1>6, <2>1, ComesUpFit
    <2>3. Len(cols) \in Nat
      BY <2>2, SeqLen
    <2>4. NeedsRows(n) => Uncut(act - 1) /\ Uncut(act)
      <3> SUFFICES ASSUME NeedsRows(n) PROVE Uncut(act - 1) /\ Uncut(act)
        OBVIOUS
      <3>1. ~ Cut(n)
        BY DEF NeedsRows, Cut
      <3>2. \A k \in 1 .. act : k \in 1 .. Len(plan) /\ (k < act \/ k = act)
        BY <1>6, <2>2
      <3>3. \A k \in 1 .. act : ~ Cut(plan[k])
        BY <1>6, <2>2, <3>1, <3>2 DEF Spaced
      <3>4. \A k \in 1 .. act - 1 : k \in 1 .. act
        BY <1>6, <2>2
      <3> QED
        BY <3>3, <3>4 DEF Uncut
    <2>5. ASSUME ret # NoBatch, Unfit(n, ret) PROVE FALSE
      <3>1. ret.cols = cols
        BY <2>2, <2>5
      <3>2. \A row : \A r \in Readers(n, row) : ~ Misplaced(r, ret.cols)
        BY <2>2, <3>1, ReadersFit
      <3>3. CASE Adds(n)
        <4>1. HasRows(ret)
          BY <1>2, <2>4, <2>5, <3>3 DEF Adds, NeedsRows, Filled
        <4>2. ret.rows # <<>>
          BY <4>1, EmptyIsSeq DEF HasRows
        <4>3. n.at \in 0 .. Len(cols)
          BY <2>2, <3>3 DEF Fits, Adds
        <4>4. ~ (n.at > Len(ret.cols))
          BY <2>3, <3>1, <4>3
        <4> QED
          BY <2>5, <3>2, <3>3, <4>2, <4>4 DEF Unfit, Adds
      <3>4. CASE n.op = "Aggregate"
        <4>1. IsSeq(n.ids) /\ \A k \in 1 .. Len(n.ids) : n.ids[k] \in 1 .. Len(cols)
          BY <2>2, <3>4 DEF Fits
        <4>2. DOMAIN n.ids = 1 .. Len(n.ids)
          BY <4>1, SeqLen
        <4>3. \A k \in DOMAIN n.ids : ~ (n.ids[k] > Len(ret.cols))
          BY <2>3, <3>1, <4>1, <4>2
        <4> QED
          BY <2>5, <3>2, <3>4, <4>3 DEF Unfit
      <3> QED
        BY <2>5, <3>2, <3>3, <3>4 DEF Unfit, Adds
    <2>6. ASSUME mem[act].batch # NoBatch, Unfinished(n, mem[act].batch) PROVE FALSE
      <3>1. PICK b : b = mem[act].batch
        OBVIOUS
      <3>2. b.cols = cols /\ Unfinished(n, b)
        BY <2>2, <2>6, <3>1
      <3>3. n.op \in {"Sort", "TopK"} => ~ (n.id > Len(b.cols))
        BY <2>2, <2>3, <3>2 DEF Fits
      <3>4. CASE n.op = "TopK" /\ n.n > 0
        <4>1. n.n # 0
          BY <1>6, <2>2, <3>4 DEF Sized
        <4>2. HasRows(b)
          BY <1>6, <2>4, <2>6, <3>1, <3>4, <4>1 DEF NeedsRows, Filled, Held
        <4>3. b.rows # <<>>
          BY <4>2, EmptyIsSeq DEF HasRows
        <4>4. ~ (n.id2 > Len(b.cols))
          BY <2>2, <2>3, <3>2, <3>4 DEF Fits
        <4> QED
          BY <3>2, <3>3, <3>4, <4>3, <4>4 DEF Unfinished
      <3> QED
        BY <3>2, <3>3, <3>4 DEF Unfinished
    <2>7. ASSUME Adds(n), Wrapped(act) PROVE FALSE
      <3>1. PICK j \in 1 .. act - 1 :
                plan[j].op \in {"Limit", "TopK"} /\ plan[j].n > IndexRange
        BY <2>7 DEF Wrapped
      <3>2. j \in 1 .. Len(plan) /\ j < act
        BY <1>6, <2>2, <3>1
      <3>3. plan[j].n \in Nat /\ IndexRange \in Nat
        BY <3>1, <3>2, LimitAssumption DEF Sized
      <3>4. Wraps(plan[j])
        BY <3>1, <3>3 DEF Wraps
      <3> QED
        BY <1>6, <2>2, <2>7, <3>2, <3>4 DEF Spaced
    <2>8. LooksFirst(n, ret) => n \in Parts(n)
      BY DEF LooksFirst, Parts
    <2> QED
      BY <1>4, <2>2, <2>5, <2>6, <2>7, <2>8, ReadersFit
  <1> QED
    BY <1>5, <1>6

LEMMA StepFills ==
    ASSUME ShapeInv, phase = "run", NEW L, Flows(L), Spaced(plan), Sized(plan),
           ScanFilled, Filled, dir \notin {"thrown", "undefined"}, table \in Tables,
           GroupsFilled, GroupsFit, OpStep
    PROVE  ScanFilled' /\ Filled' /\ dir' \notin {"thrown", "undefined"}
  <1>1. ~ Misbehave /\ ~ Throw
    BY NotMisbehaving, NotThrowing
  <1>2. CASE CallScan \/ ScanReturns
    BY <1>2, ScanFills DEF CallScan, ScanReturns, opVars
  <1>3. CASE ~ (CallScan \/ ScanReturns)
    <2>1. UNCHANGED scanKept /\ dir' \notin {"thrown", "undefined"}
      BY <1>1, <1>3 DEF OpStep, CallChild, Filter, Transform, PassNone, Collect,
          CollectNone, FinishCollect, Limit, Offset, Sort, TopK, Aggregate, AggregateRun,
          EmitGroups, EngineDone, PullChild, Return
    <2>2. Filled'
      BY <1>1, <1>3, CallFills, FilterFills, TransformFills, CollectFills, FinishFills,
         AggregateFills, AggregateRunFills, EmitFills, RestFills DEF OpStep
    <2> QED
      BY <2>1, <2>2, ScanKept
  <1> QED
    BY <1>2, <1>3

\* What is answerable depends on the file and the calls only.
LEMMA FineKept ==
    ASSUME UNCHANGED <<table, calls>>
    PROVE  (Answerable' <=> Answerable) /\ (NoCount' <=> NoCount) /\ (Reran' <=> Reran)
  BY DEF Answerable, WellMade, InScope, OrdersKept, OrderPending, StringsFirst, RowsLeft, CutsToNothing,
         GroupsFilled, SelectedAfterGroups, Before, CountLast, LimitsFit, GroupsFit, NoCount,
         Reran

LEMMA ExecuteFine ==
    ASSUME QInv, RunFine, table \in Tables, Execute
    PROVE  RunFine'
  <1>1. phase = "run" /\ OpStep /\ UNCHANGED buildVars /\ ShapeInv
    BY DEF Execute, QInv
  <1>2. UNCHANGED <<table, columns, plan, calls, phase, parser, selected>>
    BY <1>1, StepKeeps
  <1> SUFFICES ASSUME ~ Reran', Answerable' PROVE RunFine'
    BY DEF RunFine
  <1>3. ~ Reran /\ Answerable /\ (NoCount' <=> NoCount)
    BY <1>2, FineKept
  <1>4. PICK L : Flows(L)
    BY <1>1, <1>3 DEF RunFine
  <1>5. ScanFilled' /\ Filled' /\ dir' \notin {"thrown", "undefined"}
    BY <1>1, <1>3, <1>4, StepFills DEF RunFine, Answerable, WellMade
  <1>6. Flows(L)'
    BY <1>1, <1>4, StepFlows
  <1>7. Spaced(plan') /\ Sized(plan') /\ Spaced(plan)' /\ Sized(plan)'
    BY <1>1, <1>2, <1>3 DEF RunFine, Spaced, Sized, Cut, NeedsRows, Wraps, Adds
  <1> QED
    BY <1>1, <1>2, <1>3, <1>5, <1>6, <1>7 DEF RunFine

\* What Run makes of the parser and the chain of a query that has its columns.
LEMMA RunStartNamed ==
    ASSUME NInv, BuildFine, Run, Answerable, NoCount
    PROVE  /\ Lay(plan, parser', AsMeant.cols)
           /\ Len(parser.schema) \in Nat /\ Len(parser'.schema) \in Nat
           /\ Len(parser.schema) <= Len(parser'.schema)
  <1>1. phase = "build"
    BY DEF Run
  <1>2. Lay(plan, parser, AsMeant.cols) /\ OrderKnown(AsMeant.cols)
    BY <1>1 DEF NInv, BuildNames, Good, Answerable, WellMade
  <1>3. StringsRight(AsMeant) /\ Typed(parser.schema, AsMeant.strings)
    BY <1>1, NamedFine DEF NInv
  <1>4. Len(parser.schema) \in Nat
    BY <1>2, IdInside
  <1>5. PICK q : q = AsMeant
    OBVIOUS
  <1>6. CASE order = NoOrder
    <2>1. parser' = parser
      BY <1>6 DEF Run
    <2> QED
      BY <1>2, <1>4, <2>1
  <1>7. CASE order # NoOrder
    <2>1. parser' = Register(parser, order.col)
      BY <1>7 DEF Run
    <2>2. order.col \in q.cols \/ order.col \notin Real
      BY <1>2, <1>5, <1>7, RealSchemaNames DEF OrderKnown
    <2>3. Lay(plan, Register(parser, order.col), q.cols)
      BY <1>2, <1>5, <2>2, RegisterLay
    <2>4. Grown(parser, Register(parser, order.col))
      BY <1>2, <1>3, <1>5, <2>2, RegisterTyped
    <2> QED
      BY <1>5, <2>1, <2>3, <2>4 DEF Grown
  <1> QED
    BY <1>6, <1>7

\* A run begins with nothing gathered, and columns to read.
LEMMA RunStartFine ==
    ASSUME NInv, BuildFine, NotBegun, Run
    PROVE  RunFine'
  <1>1. /\ phase = "build" /\ phase' = "run" /\ dir' = dir
        /\ UNCHANGED <<table, calls, rowGroup, scanPc, chunks, selected>>
        /\ columns' = ScanColumns(parser')
    BY DEF Run
  <1>2. dir' = "down" /\ scanPc' = "idle" /\ Chain(plan)
    BY <1>1 DEF NInv, QInv, BuildInv
  <1> SUFFICES ASSUME Answerable', ~ Reran' PROVE RunFine'
    BY DEF RunFine
  <1>3. Answerable /\ (NoCount' <=> NoCount)
    BY <1>1, FineKept
  <1>4. CutsKept /\ IsSeq(selected) /\ (selected # <<>> => NoCount)
    BY <1>1, <1>3 DEF BuildFine
  <1>5. IsSeq(parser'.scan) /\ IsSeq(parser'.schema)
    <2>1. CASE NoCount
      BY <1>3, <2>1, RunStartNamed DEF Lay
    <2>2. CASE ~ NoCount
      <3>1. order = NoOrder /\ IsSeq(parser.scan) /\ IsSeq(parser.schema)
        BY <1>1, <1>3, <2>2 DEF BuildFine
      <3>2. parser' = parser
        BY <3>1 DEF Run
      <3> QED
        BY <3>1, <3>2
    <2> QED
      BY <2>1, <2>2
  <1>6. IsSeq(columns') /\ Len(columns') > 0
    <2>1. CASE parser'.scan = <<>>
      <3>1. columns' = Append(<<>>, 1)
        BY <1>1, <2>1 DEF ScanColumns
      <3>2. PICK none : none = <<>> /\ IsSeq(none) /\ Len(none) = 0
        BY EmptyIsSeq
      <3>3. IsSeq(Append(none, 1)) /\ Len(Append(none, 1)) = 0 + 1
        BY <3>2, SeqAppend
      <3>4. columns' = Append(none, 1)
        BY <3>1, <3>2
      <3> QED
        BY <3>3, <3>4
    <2>2. CASE parser'.scan # <<>>
      BY <1>1, <1>5, <2>2, SomeRows DEF ScanColumns
    <2> QED
      BY <2>1, <2>2
  <1>7. ScanFilled'
    <2>1. table \in Tables /\ rowGroup = 0 /\ chunks = <<>>
      BY <1>1 DEF NotBegun
    <2>2. Len(table) \in Nat
      BY <2>1, TablesAssumption
    <2> QED
      BY <1>1, <1>2, <1>6, <2>1, <2>2, EmptyIsSeq DEF ScanFilled
  <1>8. PICK pl : pl = plan' /\ mem' = [i \in 1 .. Len(pl) + 1 |-> Fresh]
    BY DEF Run
  <1>9. Filled'
    <2>1. Held(Fresh)
      BY EmptyIsSeq, FS_EmptySet DEF Held, Fresh
    <2>2. \A m \in 1 .. Len(pl) : m \in 1 .. Len(pl) + 1
      OBVIOUS
    <2>3. \A m \in 1 .. Len(pl) : Held(mem'[m])
      BY <1>8, <2>1, <2>2
    <2>4. \A m : Held(mem[m])' <=> Held(mem'[m])
      BY DEF Held, HasRows
    <2> QED
      BY <1>2, <1>8, <2>3, <2>4 DEF Filled
  <1>10. Spaced(pl) /\ Sized(pl)
    <2>1. Spaced(plan) /\ Sized(plan) /\ IsSeq(plan)
      BY <1>2, <1>4 DEF CutsKept, Chain
    <2>2. CASE order = NoOrder
      BY <1>8, <2>1, <2>2 DEF Run
    <2>3. CASE order # NoOrder
      <3> DEFINE n == [op |-> "Sort", id |-> Id(Register(parser, order.col), order.col),
                       desc |-> order.desc]
      <3>1. n.op = "Sort" /\ pl = Append(plan, n)
        BY <1>8, <2>3 DEF Run
      <3> HIDE DEF n
      <3>2. ~ NeedsRows(n) /\ ~ Adds(n)
        BY <3>1 DEF NeedsRows, Adds
      <3> QED
        BY <2>1, <3>1, <3>2, SpacedMore
    <2> QED
      BY <2>2, <2>3
  <1>11. \E L : Flows(L)'
    <2>1. CASE NoCount
      <3>1. Good'
        BY <1>3, <2>1 DEF Good, Answerable, WellMade
      <3>2. PICK L : RunsWith(L)'
        BY <1>1, <3>1, RunStart DEF RunNames
      <3> QED
        BY <3>2 DEF RunsWith
    <2>2. CASE ~ NoCount
      <3>1. PICK t : order = NoOrder /\ Turns(plan, ScanCols(ScanColumns(parser)), t)
        BY <1>1, <1>3, <2>2 DEF BuildFine
      <3>2. PICK L : Layers(plan, L) /\ L[0] = ScanCols(ScanColumns(parser))
        BY <3>1 DEF Turns
      <3>3. plan' = plan /\ parser' = parser
        BY <3>1 DEF Run
      <3>4. \A m \in 1 .. Len(pl) + 1 : mem'[m].batch = NoBatch
        BY <1>8 DEF Fresh
      <3>5. \A n, cols : KeysHold(Fresh, n, cols)
        BY DEF KeysHold, Fresh
      <3>6. \A m \in 1 .. Len(pl) : mem'[m] = Fresh
        <4>1. \A m \in 1 .. Len(pl) : m \in 1 .. Len(pl) + 1
          OBVIOUS
        <4> QED
          BY <1>8, <4>1
      <3>7. \A m : KeysHold(mem[m], plan[m], L[m - 1])' <=> KeysHold(mem'[m], plan'[m], L[m - 1])
        BY DEF KeysHold, KeyTypes
      <3>8. Carried(L)'
        BY <1>2, <1>8, <3>4, <3>5, <3>6, <3>7 DEF Carried
      <3> QED
        BY <1>1, <3>2, <3>3, <3>8 DEF Flows, ScanCols
    <2> QED
      BY <2>1, <2>2
  <1>12. \A k \in 1 .. Len(selected') : selected'[k] \in 0 .. Len(parser'.schema)
    <2>1. CASE selected = <<>>
      BY <1>1, <2>1
    <2>2. CASE selected # <<>>
      <3>1. NoCount
        BY <1>4, <2>2
      <3>2. \A k \in 1 .. Len(selected) : selected[k] \in 0 .. Len(parser.schema)
        BY <1>1, <1>3, <3>1 DEF BuildFine
      <3>3. /\ Len(parser.schema) \in Nat /\ Len(parser'.schema) \in Nat
            /\ Len(parser.schema) <= Len(parser'.schema)
        BY <1>3, <3>1, RunStartNamed
      <3> QED
        BY <1>1, <3>2, <3>3
    <2> QED
      BY <2>1, <2>2
  <1>13. Spaced(plan)' /\ Sized(plan)'
    BY <1>8, <1>10 DEF Spaced, Sized, Cut, NeedsRows, Wraps, Adds
  <1> QED
    BY <1>1, <1>2, <1>3, <1>4, <1>5, <1>7, <1>9, <1>11, <1>12, <1>13 DEF RunFine

\* Its answer has the columns that were selected.
LEMMA NotFailing == ASSUME NInv, RunFine, Fail, Answerable, ~ Reran PROVE FALSE
  <1>1. phase = "run" /\ ShapeInv
    BY DEF Fail, NInv, QInv
  <1>2. dir = "done" /\ ~ SelectedExist
    BY <1>1 DEF Fail, RunFine
  <1>3. /\ IsSeq(parser.schema) /\ (selected # <<>> => NoCount)
        /\ \A k \in 1 .. Len(selected) : selected[k] \in 0 .. Len(parser.schema)
    BY <1>1 DEF RunFine
  <1>4. selected # <<>>
    BY <1>2 DEF SelectedExist
  <1>5. PICK L : RunsWith(L)
    BY <1>1, <1>3, <1>4 DEF NInv, RunNames, Good, Answerable, WellMade
  <1>6. ret # NoBatch => EndsRight(ret.cols)
    <2> SUFFICES ASSUME ret # NoBatch PROVE EndsRight(ret.cols)
      OBVIOUS
    <2>1. PICK n \in Nat : n = Len(plan) /\ act = n + 1
      BY <1>1, <1>2, RunningOp DEF ShapeInv
    <2>2. ret.cols = L[act - 1] /\ act - 1 = n
      BY <1>2, <1>5, <2>1 DEF RunsWith, Flows, Carried
    <2> QED
      BY <1>5, <2>1, <2>2 DEF RunsWith
  <1>7. PICK n \in Nat : n = Len(parser.schema)
    BY <1>3, SeqLen
  <1>8. ret # NoBatch => Len(ret.cols) \in Nat /\ Len(ret.cols) >= n
    <2>1. Len(Append(parser.schema, RealSchema[1])) = n + 1
      BY <1>3, <1>7, SeqAppend
    <2> QED
      BY <1>6, <1>7, <2>1 DEF EndsRight
  <1>9. Width \in Nat /\ Width >= n
    BY <1>7, <1>8 DEF Width
  <1> QED
    BY <1>2, <1>3, <1>7, <1>9 DEF SelectedExist

\* What keeps an answerable query clear of exceptions and undefined behaviour.
AInv == NInv /\ NotBegun /\ BuildFine /\ RunFine /\ AlwaysAnswered

\* A run made again is none of a query that has run once.
LEMMA RunAgainReran == ASSUME IsSeq(calls), RunAgain PROVE Reran'
  <1>1. calls' = Append(calls, [fn |-> "Run"])
    BY DEF RunAgain
  <1>2. /\ Len(calls') = Len(calls) + 1 /\ Len(calls) \in Nat
        /\ calls'[Len(calls) + 1] = [fn |-> "Run"]
    BY <1>1, SeqAppend
  <1>3. Len(calls) + 1 \in 1 .. Len(calls')
    BY <1>2
  <1> QED
    BY <1>2, <1>3 DEF Reran

LEMMA AnsweredStep == ASSUME AInv, [Next]_vars PROVE AInv'
  <1>1. NInv'
    BY NamesStep DEF AInv
  <1>2. QInv /\ BuildNames /\ IsSeq(calls)
    BY DEF AInv, NInv
  <1>3. NotBegun'
    <2>1. table' = table
      BY StepKeeps DEF Next, Call, Refuse, Overrun, Building, Run, RunRefused, RunAgain,
         Execute, Answer, Fail, vars, scanVars
    <2>2. phase' = "build" => phase = "build" /\ UNCHANGED <<rowGroup, chunks>>
      BY DEF Next, Call, Refuse, Overrun, Building, Run, RunRefused, RunAgain, Execute,
         Answer, Fail, vars, scanVars, buildVars
    <2> QED
      BY <2>1, <2>2 DEF AInv, NotBegun
  <1>4. CASE \E c \in Calls : Call(c)
    <2>1. PICK c \in Calls : Call(c)
      BY <1>4
    <2>2. phase' = "build"
      BY <2>1 DEF Call, Building, Where, Case, Add, GroupBy, Count, OrderBy, OffsetCall,
          LimitCall, Rename, Select, buildRest
    <2>3. BuildFine'
      BY <1>2, <2>1, CallFine DEF AInv
    <2> QED
      BY <1>1, <1>3, <2>2, <2>3 DEF AInv, RunFine, AlwaysAnswered
  <1>5. CASE Run
    <2>1. phase' = "run"
      BY <1>5 DEF Run
    <2>2. RunFine'
      BY <1>5, RunStartFine DEF AInv
    <2> QED
      BY <1>1, <1>3, <2>1, <2>2 DEF AInv, BuildFine, AlwaysAnswered
  <1>6. CASE RunAgain
    <2>1. phase' = "run" /\ Reran'
      BY <1>2, <1>6, RunAgainReran DEF RunAgain
    <2> QED
      BY <1>1, <1>3, <2>1 DEF AInv, BuildFine, RunFine, AlwaysAnswered
  <1>7. CASE Execute
    <2>1. phase' = "run"
      BY <1>7 DEF Execute, buildVars
    <2>2. RunFine'
      BY <1>2, <1>7, ExecuteFine DEF AInv, NotBegun
    <2> QED
      BY <1>1, <1>3, <2>1, <2>2 DEF AInv, BuildFine, AlwaysAnswered
  <1>8. CASE Answer
    <2>1. phase' = "done"
      BY <1>8 DEF Answer
    <2> QED
      BY <1>1, <1>3, <2>1 DEF AInv, BuildFine, RunFine, AlwaysAnswered
  <1>9. CASE \/ Fail \/ RunRefused \/ \E c \in Calls : Refuse(c) \/ Overrun(c)
    <2>1. phase' \in {"error", "undefined"}
      BY <1>9 DEF Fail, RunRefused, Refuse, Overrun
    <2>2. ~ Reran' => ~ Answerable'
      <3>1. CASE Fail \/ RunRefused
        <4>1. (Answerable' <=> Answerable) /\ (Reran' <=> Reran)
          <5>1. UNCHANGED <<table, calls>>
            BY <3>1 DEF Fail, RunRefused, scanVars
          <5> QED
            BY <5>1, FineKept
        <4>2. Fail /\ Answerable => Reran
          BY NotFailing DEF AInv
        <4>3. RunRefused => ~ Answerable
          BY <1>2, RunNotRefused DEF AInv
        <4> QED
          BY <3>1, <4>1, <4>2, <4>3
      <3>2. CASE \E c \in Calls : Refuse(c) \/ Overrun(c)
        BY <1>2, <3>2, NotRefused, NotOverrun DEF AInv
      <3> QED
        BY <1>9, <3>1, <3>2
    <2> QED
      BY <1>1, <1>3, <2>1, <2>2 DEF AInv, BuildFine, RunFine, AlwaysAnswered
  <1>10. CASE UNCHANGED vars
    <2>1. /\ UNCHANGED <<table, columns, options, rowGroup, scanPc, chunks, ret>>
          /\ UNCHANGED <<plan, act, dir, mem, calls, phase, parser, selected, order,
                         pendingOffset>>
      BY <1>10 DEF vars, scanVars, opVars, buildVars
    <2>2. /\ Answerable' <=> Answerable
          /\ NoCount' <=> NoCount
          /\ Reran' <=> Reran
      BY <2>1, FineKept
    <2>3. BuildFine'
      <3>1. AsMeant' = AsMeant /\ (Making' <=> Making) /\ (Selecting' <=> Selecting)
        BY <2>1 DEF AsMeant, Making, Selecting
      <3>2. OrderPending(Len(calls))' <=> OrderPending(Len(calls))
        BY <2>1 DEF OrderPending
      <3>3. CutsKept' <=> CutsKept
        BY <2>1 DEF CutsKept, Spaced, Sized, HasCut, HasWrap, Cut, NeedsRows, Wraps, Adds,
            Skipping, Cutting, CutsToNothing, LongLimit
      <3>4. ScanCols(ScanColumns(parser))' = ScanCols(ScanColumns(parser))
        BY <2>1 DEF ScanCols, ScanColumns
      <3> QED
        BY <2>1, <2>2, <3>1, <3>2, <3>3, <3>4 DEF AInv, BuildFine
    <2>4. RunFine'
      <3>1. ASSUME NEW L, Flows(L) PROVE Flows(L)'
        BY <2>1, <3>1 DEF Flows, Carried, ScanCols
      <3>2. Filled' <=> Filled
        BY <2>1 DEF Filled, Uncut, Held, HasRows
      <3>3. ScanFilled' <=> ScanFilled
        BY <2>1 DEF ScanFilled
      <3>4. (Spaced(plan)' <=> Spaced(plan)) /\ (Sized(plan)' <=> Sized(plan))
        BY <2>1 DEF Spaced, Sized, Cut, NeedsRows, Wraps, Adds
      <3> QED
        BY <2>1, <2>2, <3>1, <3>2, <3>3, <3>4 DEF AInv, RunFine
    <2> QED
      BY <1>1, <1>3, <2>1, <2>2, <2>3, <2>4 DEF AInv, AlwaysAnswered
  <1> QED
    BY <1>4, <1>5, <1>6, <1>7, <1>8, <1>9, <1>10 DEF Next

\* Whatever the file and the calls: a query that is answerable, supported or
\* not, meets none of the failures the model has a step for.  No column it
\* names is unknown; no position is past the end of the list it indexes; no
\* std::get meets a column or a value of the other type; no operator that
\* needs rows is given a batch without any, and none that adds a column one
\* with more rows than its positions can number.  Outside the model stay sums
\* and literals that overflow, texts that do not parse, and the lifetime of
\* what a string_view points to.
THEOREM NeverFails == Spec => []AlwaysAnswered
  <1>1. QueryInit => AInv
    <2> SUFFICES ASSUME QueryInit PROVE AInv
      OBVIOUS
    <2>1. phase = "build" /\ calls = <<>> /\ table \in Tables /\ rowGroup = 0 /\ chunks = <<>>
      BY DEF QueryInit, Init, ScanInit
    <2>2. NInv
      BY <2>1, InitInv, InitNames, EmptyIsSeq DEF NInv, RunNames
    <2> QED
      BY <2>1, <2>2, InitFine DEF AInv, NotBegun, RunFine, AlwaysAnswered
  <1>2. AInv /\ [Next]_vars => AInv'
    BY AnsweredStep
  <1>3. AInv => AlwaysAnswered
    BY DEF AInv
  <1> QED
    BY <1>1, <1>2, <1>3, PTL DEF Spec
=============================================================================
