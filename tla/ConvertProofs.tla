--------------------------- MODULE ConvertProofs ----------------------------
(***************************************************************************)
(* Proofs about Convert, for every text, every schema and every batch      *)
(* size.  The first part is about the file: where its items lie, and that  *)
(* the reader finds the meta data, and by it the chunks (ChunksAreFound).  *)
(* The second is about the text: what the reader has of it after every     *)
(* character, and so that the table stored is the one the text describes   *)
(* (RowsAreAsWritten), and that the text printed describes it again        *)
(* (PrintedReadsBack).                                                     *)
(***************************************************************************)
EXTENDS Convert, SequenceTheorems, FiniteSetTheorems, WellFoundedInduction, TLAPS

-----------------------------------------------------------------------------
(* The inductive invariant                                                 *)

IsSeq(s) == \E S : s \in Seq(S)

Columns == Seq({"int64", "string"}) \ {<<>>}

JobInv ==
    /\ DOMAIN job = {"text", "columns", "batch_size"}
    /\ job.columns \in Columns /\ job.batch_size \in Nat \ {0}

EndOf(f) == IF f = <<>> THEN 0 ELSE Last(f).at + Last(f).bytes

\* The items follow each other, without overlapping.
Laid(f) ==
    /\ IsSeq(f)
    /\ EndOf(f) \in Nat
    /\ \A k \in 1 .. Len(f) :
           /\ f[k].at \in Nat /\ f[k].bytes \in Nat \ {0}
           /\ f[k].at + f[k].bytes <= EndOf(f)
    /\ \A i \in 1 .. Len(f) : \A k \in i + 1 .. Len(f) : f[i].at + f[i].bytes <= f[k].at

\* Where the file consists of chunks alone, and where it is complete.
Reading == {"group", "row", "chars", "rowEnd", "write", "meta"}
Stored == {"stored", "readMeta", "print", "printed"}

\* Entry k of the meta data is about item k, which begins where the one before
\* it ends.
ChunksInv ==
    \A k \in 1 .. Len(batch_meta) :
        /\ file[k].at = batch_meta[k].offset /\ file[k].bytes = batch_meta[k].size
        /\ IsSeq(file[k].v)
        /\ file[k].at = IF k = 1 THEN 0 ELSE file[k - 1].at + file[k - 1].bytes

\* The meta data, the schema and the trailer lie behind the chunks.
MetasInv ==
    \A k \in 1 .. Len(batch_meta) :
        /\ file[Len(batch_meta) + k].at = offset + (k - 1) * 16
        /\ file[Len(batch_meta) + k].v = batch_meta[k]

SchemaInv ==
    \A k \in 1 .. Cols :
        /\ file[2 * Len(batch_meta) + k].at = offset + 16 * Len(batch_meta) + (k - 1) * 10
        /\ file[2 * Len(batch_meta) + k].v = job.columns[k]

TrailerInv ==
    \A k \in 1 .. 3 :
        /\ file[2 * Len(batch_meta) + Cols + k].at = EndOf(file) - 24 + (k - 1) * 8
        /\ file[2 * Len(batch_meta) + Cols + k].v = <<offset, Len(batch_meta), Cols>>[k]

FileInv ==
    pc # "error" =>
        /\ Laid(file) /\ IsSeq(batch_meta) /\ offset \in Nat
        /\ pc \in Reading \cup {"schema", "trailer"} \cup Stored
        /\ ChunksInv
        /\ pc \in Reading => Len(file) = Len(batch_meta) /\ EndOf(file) = offset
        /\ pc \notin Reading => MetasInv
        /\ pc = "schema" =>
               /\ Len(file) = 2 * Len(batch_meta)
               /\ EndOf(file) = offset + 16 * Len(batch_meta)
        /\ pc \notin Reading \cup {"schema"} => SchemaInv
        /\ pc = "trailer" =>
               /\ Len(file) = 2 * Len(batch_meta) + Cols
               /\ EndOf(file) = offset + 16 * Len(batch_meta) + 10 * Cols
        /\ pc \in Stored => Len(file) = 2 * Len(batch_meta) + Cols + 3 /\ TrailerInv
        /\ pc = "readMeta" => rpos = offset

\* The values column c has of the group, in the middle of a row.
Partly(c) == IF c <= status THEN row + 1 ELSE row

BatchInv ==
    /\ DOMAIN batch = 1 .. Cols
    /\ \A c \in 1 .. Cols : IsSeq(batch[c])
    /\ pc \notin {"row", "chars", "rowEnd", "write", "error"} =>
           \A c \in 1 .. Cols : batch[c] = <<>>
    /\ pc \notin {"write", "print", "error"} => j = 0
    /\ pc = "print" => j \in 0 .. Cols - 1
    /\ pc = "row" =>
           row \in 0 .. job.batch_size /\ \A c \in 1 .. Cols : Len(batch[c]) = row
    /\ pc \in {"chars", "rowEnd"} => row \in 0 .. job.batch_size - 1 /\ status \in 0 .. Cols - 1
    /\ pc = "chars" => \A c \in 1 .. Cols : Len(batch[c]) = Partly(c)
    /\ pc = "rowEnd" =>
           \/ /\ status = 0 /\ current_str = <<>>
              /\ \A c \in 1 .. Cols : Len(batch[c]) = row + 1
           \/ Eof /\ \A c \in 1 .. Cols : Len(batch[c]) = Partly(c)

\* Every row group that is not the last of its file must be full.
MustBeFull(g, G) ==
    g < G \/ (pc = "group" /\ ~ Eof) \/ pc \in {"row", "chars", "rowEnd", "write"}

\* G groups are complete.  Of the one being written, j columns are, all of L
\* values.
GroupsInv(G) ==
    /\ Len(batch_meta) = G * Cols + (IF pc = "write" THEN j ELSE 0)
    /\ \A g \in 1 .. G, c \in 1 .. Cols :
           Len(Chunk(g, c)) = Len(Chunk(g, 1)) /\ Len(Chunk(g, c)) <= job.batch_size
    /\ \A g \in 1 .. G : MustBeFull(g, G) => Len(Chunk(g, 1)) = job.batch_size
    /\ pc = "write" =>
           /\ j \in 0 .. Cols
           /\ \E L \in 0 .. job.batch_size :
                  /\ L = job.batch_size \/ Eof
                  /\ \A c \in 1 .. j : batch[c] = <<>> /\ Len(file[G * Cols + c].v) = L
                  /\ \A c \in j + 1 .. Cols : Len(batch[c]) = L

ConvertInv ==
    /\ JobInv /\ FileInv /\ BatchInv
    /\ pc # "error" => \E G \in Nat : GroupsInv(G)

\* g groups are printed, and the columns read are those of the next.
ColumnsRead(g) ==
    /\ row = g * Cols + Len(columns)
    /\ \A c \in 1 .. Len(columns) : columns[c] = Chunk(g + 1, c)

\* The reader is behind the row chunks it has read.  It prints from column 0,
\* or is in a row.
PrintInv ==
    /\ pc \notin {"print", "error"} => columns = <<>>
    /\ r \in Nat
    /\ pc = "print" =>
           /\ row \in 0 .. Len(batch_meta)
           /\ rpos = IF row = 0 THEN 0 ELSE file[row].at + file[row].bytes
           /\ IsSeq(columns) /\ Len(columns) \in 0 .. Cols
           /\ \E g \in Nat : ColumnsRead(g)
           /\ j # 0 => GroupRead /\ r < Len(columns[1])

-----------------------------------------------------------------------------
(* Numbers and sequences                                                   *)

LEMMA TimesMonotone ==
    ASSUME NEW a \in Int, NEW c \in Int, a <= c, NEW b \in Nat
    PROVE  a * b <= c * b
  <1>1. (c - a) * b >= 0 /\ (c - a) * b = c * b - a * b
    OBVIOUS
  <1> QED
    BY <1>1

LEMMA NoRemainder ==
    ASSUME NEW g \in Nat, NEW c \in Nat \ {0}
    PROVE  (g * c) \div c = g
  OBVIOUS

LEMMA SeqAppend ==
    ASSUME NEW s, IsSeq(s), NEW x
    PROVE  /\ IsSeq(Append(s, x))
           /\ Len(Append(s, x)) = Len(s) + 1 /\ Len(s) \in Nat
           /\ \A k \in 1 .. Len(s) : Append(s, x)[k] = s[k]
           /\ Append(s, x)[Len(s) + 1] = x
  <1>1. PICK S : s \in Seq(S)
    BY DEF IsSeq
  <1>2. s \in Seq(S \cup {x}) /\ x \in S \cup {x}
    BY <1>1
  <1>3. Append(s, x) \in Seq(S \cup {x})
    BY <1>2, AppendProperties
  <1> QED
    BY <1>2, <1>3, AppendProperties DEF IsSeq

LEMMA SeqLength == ASSUME NEW s, IsSeq(s) PROVE Len(s) \in Nat /\ DOMAIN s = 1 .. Len(s)
  <1>1. PICK S : s \in Seq(S)
    BY DEF IsSeq
  <1> QED
    BY <1>1

LEMMA SeqConcat ==
    ASSUME NEW s, IsSeq(s), NEW t, IsSeq(t)
    PROVE  /\ IsSeq(s \o t) /\ Len(s \o t) = Len(s) + Len(t)
           /\ \A k \in 1 .. Len(s) : (s \o t)[k] = s[k]
           /\ \A k \in 1 .. Len(t) : (s \o t)[Len(s) + k] = t[k]
  <1>1. PICK S : s \in Seq(S)
    BY DEF IsSeq
  <1>2. PICK T : t \in Seq(T)
    BY DEF IsSeq
  <1>3. s \in Seq(S \cup T) /\ t \in Seq(S \cup T)
    BY <1>1, <1>2
  <1>4. Len(s) \in Nat /\ Len(t) \in Nat
    BY <1>3
  <1>5. /\ s \o t \in Seq(S \cup T) /\ Len(s \o t) = Len(s) + Len(t)
        /\ \A k \in 1 .. Len(s) + Len(t) :
               (s \o t)[k] = IF k <= Len(s) THEN s[k] ELSE t[k - Len(s)]
    BY <1>3, ConcatProperties
  <1>6. ASSUME NEW k \in 1 .. Len(s) PROVE (s \o t)[k] = s[k]
    BY <1>4, <1>5
  <1>7. ASSUME NEW k \in 1 .. Len(t) PROVE (s \o t)[Len(s) + k] = t[k]
    <2>1. Len(s) + k \in 1 .. Len(s) + Len(t) /\ ~ (Len(s) + k <= Len(s))
          /\ (Len(s) + k) - Len(s) = k
      BY <1>4
    <2> QED
      BY <1>5, <2>1
  <1> QED
    BY <1>5, <1>6, <1>7 DEF IsSeq

LEMMA Positive ==
    ASSUME JobInv
    PROVE  Cols \in Nat \ {0} /\ job.columns \in Seq({"int64", "string"}) /\ job.batch_size \in Nat
  <1>1. job.columns \in Seq({"int64", "string"}) /\ job.columns # <<>>
    BY DEF JobInv, Columns
  <1> QED
    BY <1>1, EmptySeq DEF JobInv, Cols

-----------------------------------------------------------------------------
(* The layout of the file                                                  *)

\* Items of one size written behind a file.
Items(f, values, bytes) ==
    f \o [k \in 1 .. Len(values) |->
             [at |-> EndOf(f) + (k - 1) * bytes, bytes |-> bytes, v |-> values[k]]]

LEMMA WrittenItems ==
    ASSUME NEW values, NEW bytes
    PROVE  Written(values, bytes) = Items(file, values, bytes)
  BY DEF Written, Items, FileSize, EndOf

\* They lie behind the others, one behind the other.
Behind(g, f, values, bytes) ==
    /\ Laid(g)
    /\ Len(g) = Len(f) + Len(values)
    /\ EndOf(g) = EndOf(f) + Len(values) * bytes
    /\ \A k \in 1 .. Len(f) : g[k] = f[k]
    /\ \A k \in 1 .. Len(values) :
           /\ g[Len(f) + k].at = EndOf(f) + (k - 1) * bytes
           /\ g[Len(f) + k].bytes = bytes
           /\ g[Len(f) + k].v = values[k]

LEMMA ItemsLaid ==
    ASSUME NEW f, Laid(f), NEW values, IsSeq(values), NEW bytes \in Nat \ {0}
    PROVE  Behind(Items(f, values, bytes), f, values, bytes)
  <1> DEFINE n == Len(f)
             m == Len(values)
             t == [k \in 1 .. m |-> [at |-> EndOf(f) + (k - 1) * bytes,
                                     bytes |-> bytes, v |-> values[k]]]
             g == Items(f, values, bytes)
  <1>1. n \in Nat /\ m \in Nat /\ EndOf(f) \in Nat /\ IsSeq(f)
    BY SeqLength DEF Laid
  <1>2. IsSeq(t) /\ Len(t) = m
    <2> DEFINE T == {t[k] : k \in 1 .. m}
    <2>1. t \in [1 .. m -> T]
      OBVIOUS
    <2> HIDE DEF t, T
    <2>2. t \in Seq(T) /\ Len(t) = m
      BY <1>1, <2>1
    <2> QED
      BY <2>2 DEF IsSeq
  <1>3. /\ IsSeq(g) /\ Len(g) = n + m
        /\ \A k \in 1 .. n : g[k] = f[k]
        /\ \A k \in 1 .. m : g[n + k] = t[k]
    <2>1. g = f \o t
      BY DEF Items
    <2>2. n = Len(f)
      OBVIOUS
    <2> HIDE DEF g, t, n, m
    <2>3. /\ IsSeq(f \o t) /\ Len(f \o t) = Len(f) + Len(t)
          /\ \A k \in 1 .. Len(f) : (f \o t)[k] = f[k]
          /\ \A k \in 1 .. Len(t) : (f \o t)[Len(f) + k] = t[k]
      <3>1. IsSeq(f)
        BY <1>1
      <3>2. PICK u : u = t
        OBVIOUS
      <3>3. IsSeq(u)
        BY <1>2, <3>2
      <3>4. /\ IsSeq(f \o u) /\ Len(f \o u) = Len(f) + Len(u)
            /\ \A k \in 1 .. Len(f) : (f \o u)[k] = f[k]
            /\ \A k \in 1 .. Len(u) : (f \o u)[Len(f) + k] = u[k]
        BY <3>1, <3>3, SeqConcat
      <3> QED
        BY <3>2, <3>4
    <2> QED
      BY <1>2, <2>1, <2>2, <2>3
  <1>4. \A k \in 1 .. m : /\ g[n + k].at = EndOf(f) + (k - 1) * bytes
                          /\ g[n + k].bytes = bytes /\ g[n + k].v = values[k]
    <2>1. \A k \in 1 .. m : /\ t[k].at = EndOf(f) + (k - 1) * bytes
                            /\ t[k].bytes = bytes /\ t[k].v = values[k]
      OBVIOUS
    <2> HIDE DEF g, t, m, n
    <2> QED
      BY <1>3, <2>1
  <1> HIDE DEF g, t, n, m
  <1>5. EndOf(g) = EndOf(f) + m * bytes
    <2>1. CASE m = 0
      <3>1. n = 0 => f = <<>> /\ g = <<>>
        BY <1>1, <1>3, <2>1, EmptySeq DEF n, IsSeq
      <3>2. n # 0 => f # <<>> /\ g # <<>> /\ g[Len(g)] = f[Len(f)]
        BY <1>1, <1>3, <2>1 DEF n
      <3> QED
        BY <1>1, <2>1, <3>1, <3>2 DEF EndOf, Last
    <2>2. CASE m # 0
      <3>1. g # <<>> /\ Len(g) = n + m /\ m \in 1 .. m
        BY <1>1, <1>3, <2>2
      <3>2. EndOf(g) = EndOf(f) + (m - 1) * bytes + bytes
        BY <1>1, <1>4, <3>1 DEF EndOf, Last
      <3>3. (m - 1) * bytes + bytes = m * bytes
        BY <1>1
      <3> QED
        BY <1>1, <3>2, <3>3
    <2> QED
      BY <2>1, <2>2
  <1>6. m * bytes \in Nat /\ \A k \in 1 .. m : (k - 1) * bytes \in Nat
    BY <1>1
  <1>7. ASSUME NEW k \in 1 .. n + m
        PROVE  /\ g[k].at \in Nat /\ g[k].bytes \in Nat \ {0}
               /\ g[k].at + g[k].bytes <= EndOf(g)
               /\ k <= n => g[k].at + g[k].bytes <= EndOf(f)
    <2>1. CASE k <= n
      <3>1. k \in 1 .. Len(f) /\ g[k] = f[k]
        BY <1>1, <1>3, <2>1 DEF n
      <3>2. f[k].at \in Nat /\ f[k].bytes \in Nat \ {0} /\ f[k].at + f[k].bytes <= EndOf(f)
        BY <3>1 DEF Laid
      <3> QED
        BY <1>1, <1>5, <1>6, <3>1, <3>2
    <2>2. CASE ~ (k <= n)
      <3>1. PICK x \in 1 .. m : k = n + x
        <4>1. k - n \in 1 .. m /\ k = n + (k - n)
          BY <1>1, <2>2
        <4> QED
          BY <4>1
      <3>2. g[k].at = EndOf(f) + (x - 1) * bytes /\ g[k].bytes = bytes
        BY <1>4, <3>1
      <3>3. x * bytes <= m * bytes /\ x * bytes = (x - 1) * bytes + bytes
            /\ x * bytes \in Nat
        BY <1>1, TimesMonotone
      <3> QED
        BY <1>1, <1>5, <1>6, <2>2, <3>2, <3>3
    <2> QED
      BY <2>1, <2>2
  <1>8. ASSUME NEW i \in 1 .. n + m, NEW k \in i + 1 .. n + m
        PROVE  g[i].at + g[i].bytes <= g[k].at
    <2>1. CASE k <= n
      <3>1. i \in 1 .. Len(f) /\ k \in i + 1 .. Len(f) /\ g[k] = f[k] /\ g[i] = f[i]
        BY <1>1, <1>3, <2>1 DEF n
      <3> QED
        BY <3>1 DEF Laid
    <2>2. CASE i <= n /\ ~ (k <= n)
      <3>1. k - n \in 1 .. m /\ k = n + (k - n)
        BY <1>1, <2>2
      <3>2. g[k].at = EndOf(f) + ((k - n) - 1) * bytes /\ ((k - n) - 1) * bytes \in Nat
        BY <1>4, <1>6, <3>1
      <3>3. g[i].at + g[i].bytes <= EndOf(f) /\ g[i].at + g[i].bytes \in Nat
        BY <1>1, <1>7, <2>2
      <3> QED
        BY <1>1, <3>2, <3>3
    <2>3. CASE ~ (i <= n)
      <3>1. PICK x \in 1 .. m, y \in 1 .. m : i = n + x /\ k = n + y /\ x <= y - 1
        <4>1. i - n \in 1 .. m /\ k - n \in 1 .. m /\ i = n + (i - n) /\ k = n + (k - n)
              /\ i - n <= (k - n) - 1
          BY <1>1, <2>3
        <4> QED
          BY <4>1
      <3>2. /\ g[i].at = EndOf(f) + (x - 1) * bytes /\ g[i].bytes = bytes
            /\ g[k].at = EndOf(f) + (y - 1) * bytes
        BY <1>4, <3>1
      <3>3. x * bytes <= (y - 1) * bytes /\ x * bytes = (x - 1) * bytes + bytes
        BY <1>1, <3>1, TimesMonotone
      <3> QED
        BY <1>1, <1>6, <3>2, <3>3
    <2> QED
      BY <1>1, <2>1, <2>2, <2>3
  <1>9. Laid(g)
    <2>1. EndOf(g) \in Nat
      BY <1>1, <1>5, <1>6
    <2> QED
      BY <1>1, <1>3, <1>7, <1>8, <2>1 DEF Laid
  <1> QED
    BY <1>3, <1>4, <1>5, <1>9 DEF n, m, g, Behind

\* At most one item lies at a position.
LEMMA OneItem ==
    ASSUME Laid(file), NEW k \in 1 .. Len(file)
    PROVE  /\ ItemsAt(file[k].at) = {k}
           /\ ValueAt(file[k].at) = file[k].v
  <1>1. Len(file) \in Nat
    BY SeqLength DEF Laid
  <1>2. ASSUME NEW i \in 1 .. Len(file), file[i].at = file[k].at PROVE i = k
    <2>1. /\ file[i].at \in Nat /\ file[i].bytes \in Nat \ {0}
          /\ file[k].at \in Nat /\ file[k].bytes \in Nat \ {0}
      BY DEF Laid
    <2>2. CASE i < k
      <3>1. k \in i + 1 .. Len(file)
        BY <1>1, <2>2
      <3>2. file[i].at + file[i].bytes <= file[k].at
        BY <3>1 DEF Laid
      <3> QED
        BY <1>2, <2>1, <3>2
    <2>3. CASE k < i
      <3>1. i \in k + 1 .. Len(file)
        BY <1>1, <2>3
      <3>2. file[k].at + file[k].bytes <= file[i].at
        BY <3>1 DEF Laid
      <3> QED
        BY <1>2, <2>1, <3>2
    <2> QED
      BY <1>1, <2>2, <2>3
  <1>3. ItemsAt(file[k].at) = {k}
    BY <1>2 DEF ItemsAt
  <1> QED
    BY <1>3 DEF ValueAt

-----------------------------------------------------------------------------
(* Reading the text                                                        *)

LEMMA EmptyIsSeq == IsSeq(<<>>)
  <1>1. <<>> \in Seq({})
    OBVIOUS
  <1> QED
    BY <1>1 DEF IsSeq

LEMMA InitInv == Init => ConvertInv
  <1> SUFFICES ASSUME Init PROVE ConvertInv
    OBVIOUS
  <1>1. job \in [text : Seq(ToSet(job.text)), columns : Columns, batch_size : Nat \ {0}]
    BY JobsAssumption DEF Init, Columns
  <1>2. JobInv /\ Cols \in Nat
    <2>1. JobInv
      BY <1>1 DEF JobInv
    <2> QED
      BY <2>1, Positive
  <1>3. /\ pc = "group" /\ rpos = 0 /\ row = 0 /\ j = 0
        /\ batch = [c \in 1 .. Cols |-> <<>>]
        /\ batch_meta = <<>> /\ offset = 0 /\ file = <<>>
    BY DEF Init, ParseInit
  <1>4. FileInv
    <2>1. Laid(file)
      BY <1>3, EmptyIsSeq DEF Laid, EndOf
    <2> QED
      BY <1>3, <2>1, EmptyIsSeq DEF FileInv, EndOf, Reading, Stored, ChunksInv
  <1>5. BatchInv
    BY <1>2, <1>3, EmptyIsSeq DEF BatchInv
  <1>6. GroupsInv(0)
    BY <1>2, <1>3 DEF GroupsInv
  <1> QED
    BY <1>2, <1>4, <1>5, <1>6 DEF ConvertInv

\* What the steps that read the text leave alone.
LEMMA StoreKept ==
    ASSUME FileInv, UNCHANGED <<job, batch_meta, offset, file>>,
           pc \in Reading, pc' \in Reading
    PROVE  FileInv'
  <1>1. Laid(file)' /\ ChunksInv' /\ IsSeq(batch_meta)' /\ offset' \in Nat
    BY DEF FileInv, Laid, EndOf, ChunksInv, Reading
  <1>2. Len(file') = Len(batch_meta') /\ EndOf(file)' = offset'
    BY DEF FileInv, EndOf, Reading
  <1> QED
    BY <1>1, <1>2 DEF FileInv, Reading, Stored

LEMMA GroupsKept ==
    ASSUME NEW G \in Nat, GroupsInv(G), UNCHANGED <<job, batch_meta, file>>,
           pc \in {"row", "chars", "rowEnd"}, pc' \in {"row", "chars", "rowEnd"}
    PROVE  GroupsInv(G)'
  BY DEF GroupsInv, MustBeFull, Chunk, Cols

\* The group to be written is formed, and nothing of it is written yet.
LEMMA GroupFormed ==
    ASSUME NEW G \in Nat, GroupsInv(G), UNCHANGED <<job, batch_meta, file>>,
           pc \in {"row", "chars", "rowEnd"}, pc' = "write", j' = 0, Cols \in Nat,
           NEW L \in 0 .. job.batch_size, L = job.batch_size \/ Eof',
           \A c \in 1 .. Cols : Len(batch'[c]) = L
    PROVE  GroupsInv(G)'
  <1>1. Cols' = Cols /\ (\A g, c : Chunk(g, c)' = Chunk(g, c))
    BY DEF Cols, Chunk
  <1>2. Len(batch_meta') = G * Cols' + (IF pc' = "write" THEN j' ELSE 0)
    BY <1>1 DEF GroupsInv
  <1>3. /\ \A g \in 1 .. G, c \in 1 .. Cols :
               Len(Chunk(g, c)) = Len(Chunk(g, 1)) /\ Len(Chunk(g, c)) <= job.batch_size
        /\ \A g \in 1 .. G : Len(Chunk(g, 1)) = job.batch_size
    BY DEF GroupsInv, MustBeFull
  <1>4. /\ j' \in 0 .. Cols
        /\ \A c \in 1 .. j' : FALSE
        /\ \A c \in j' + 1 .. Cols : Len(batch'[c]) = L
    OBVIOUS
  <1> QED
    BY <1>1, <1>2, <1>3, <1>4 DEF GroupsInv

LEMMA ThrowStep == ASSUME ConvertInv, Throw PROVE ConvertInv'
  <1>1. pc' = "error" /\ UNCHANGED <<job, batch>>
    BY DEF Throw, parseVars
  <1>2. JobInv' /\ BatchInv'
    BY <1>1 DEF ConvertInv, JobInv, BatchInv, Cols
  <1> QED
    BY <1>1, <1>2 DEF ConvertInv, FileInv

LEMMA NextGroupStep == ASSUME ConvertInv, NextGroup PROVE ConvertInv'
  <1>1. /\ pc = "group" /\ UNCHANGED <<job, rpos, batch, batch_meta, offset, file, j>>
        /\ IF Eof THEN pc' = "meta" ELSE pc' = "row" /\ row' = 0
    BY DEF NextGroup, storeVars, printVars
  <1>2. PICK G \in Nat : GroupsInv(G)
    BY <1>1 DEF ConvertInv
  <1>3. JobInv' /\ FileInv'
    BY <1>1, StoreKept DEF ConvertInv, JobInv, Reading
  <1>4. BatchInv'
    BY <1>1 DEF ConvertInv, BatchInv, JobInv, Cols
  <1>5. GroupsInv(G)'
    BY <1>1, <1>2 DEF GroupsInv, MustBeFull, Chunk, Cols
  <1> QED
    BY <1>3, <1>4, <1>5 DEF ConvertInv

LEMMA NextRowStep == ASSUME ConvertInv, NextRow PROVE ConvertInv'
  <1>1. /\ pc = "row" /\ status' = 0
        /\ UNCHANGED <<job, rpos, row, batch, batch_meta, offset, file, j>>
        /\ pc' = IF row < job.batch_size THEN "chars" ELSE "write"
    BY DEF NextRow, storeVars, printVars
  <1>2. PICK G \in Nat : GroupsInv(G)
    BY <1>1 DEF ConvertInv
  <1>3. /\ Cols \in Nat \ {0} /\ job.batch_size \in Nat /\ row \in 0 .. job.batch_size /\ j = 0
        /\ \A c \in 1 .. Cols : Len(batch[c]) = row
    BY <1>1, Positive DEF ConvertInv, BatchInv
  <1>4. JobInv' /\ FileInv'
    BY <1>1, StoreKept DEF ConvertInv, JobInv, Reading
  <1>5. BatchInv'
    BY <1>1, <1>3 DEF ConvertInv, BatchInv, Partly, Cols
  <1>6. GroupsInv(G)'
    <2>1. CASE pc' = "chars"
      BY <1>1, <1>2, <2>1, GroupsKept
    <2>2. CASE pc' = "write"
      <3>1. row = job.batch_size
        BY <1>1, <1>3, <2>2
      <3> QED
        BY <1>1, <1>2, <1>3, <2>2, <3>1, GroupFormed
    <2> QED
      BY <1>1, <2>1, <2>2
  <1> QED
    BY <1>4, <1>5, <1>6 DEF ConvertInv

\* The columns after a value is pushed.
LEMMA PushStep ==
    ASSUME BatchInv, JobInv, Push, status \in 0 .. Cols - 1, row \in Nat,
           \A c \in 1 .. Cols : Len(batch[c]) = Partly(c)
    PROVE  /\ DOMAIN batch' = 1 .. Cols
           /\ \A c \in 1 .. Cols :
                  /\ IsSeq(batch'[c])
                  /\ Len(batch'[c]) = IF c <= status + 1 THEN row + 1 ELSE row
  <1>1. Cols \in Nat \ {0} /\ DOMAIN batch = 1 .. Cols /\ status + 1 \in 1 .. Cols
    BY Positive DEF BatchInv
  <1>2. PICK x : batch' = [batch EXCEPT ![status + 1] = Append(batch[status + 1], x)]
    BY DEF Push
  <1>3. /\ DOMAIN batch' = 1 .. Cols
        /\ batch'[status + 1] = Append(batch[status + 1], x)
        /\ \A c \in 1 .. Cols : c # status + 1 => batch'[c] = batch[c]
    BY <1>1, <1>2
  <1>4. /\ IsSeq(batch'[status + 1])
        /\ Len(batch'[status + 1]) = Len(batch[status + 1]) + 1
    <2>1. IsSeq(batch[status + 1])
      BY <1>1 DEF BatchInv
    <2> QED
      BY <1>3, <2>1, SeqAppend
  <1>5. Len(batch[status + 1]) = row
    BY <1>1 DEF Partly
  <1>6. ASSUME NEW c \in 1 .. Cols
        PROVE  /\ IsSeq(batch'[c])
               /\ Len(batch'[c]) = IF c <= status + 1 THEN row + 1 ELSE row
    <2>1. CASE c = status + 1
      BY <1>1, <1>4, <1>5, <2>1
    <2>2. CASE c # status + 1
      <3>1. batch'[c] = batch[c] /\ (c <= status <=> c <= status + 1)
        BY <1>1, <1>3, <2>2
      <3> QED
        BY <3>1 DEF BatchInv, Partly
    <2> QED
      BY <2>1, <2>2
  <1> QED
    BY <1>3, <1>6

LEMMA EndFieldStep == ASSUME ConvertInv, EndField PROVE ConvertInv'
  <1>1. /\ pc = "chars" /\ Push /\ current_str' = <<>>
        /\ UNCHANGED <<job, row, batch_meta, offset, file, j>>
        /\ pc' \in {"chars", "rowEnd"}
        /\ pc' = "rowEnd" => status' = 0 /\ status = Cols - 1
        /\ pc' = "chars" => status' = status + 1 /\ ~ (status >= Cols - 1)
    BY DEF EndField, storeVars, printVars, IsSeparator, BadField
  <1>2. PICK G \in Nat : GroupsInv(G)
    BY <1>1 DEF ConvertInv
  <1>3. /\ Cols \in Nat \ {0} /\ job.batch_size \in Nat
        /\ row \in 0 .. job.batch_size - 1 /\ status \in 0 .. Cols - 1 /\ j = 0
        /\ \A c \in 1 .. Cols : Len(batch[c]) = Partly(c)
    BY <1>1, Positive DEF ConvertInv, BatchInv
  <1>4. /\ DOMAIN batch' = 1 .. Cols
        /\ \A c \in 1 .. Cols :
               /\ IsSeq(batch'[c])
               /\ Len(batch'[c]) = IF c <= status + 1 THEN row + 1 ELSE row
    BY <1>1, <1>3, PushStep DEF ConvertInv
  <1>5. JobInv' /\ FileInv'
    BY <1>1, StoreKept DEF ConvertInv, JobInv, Reading
  <1>6. BatchInv'
    <2>1. CASE pc' = "rowEnd"
      BY <1>1, <1>3, <1>4, <2>1 DEF BatchInv, Cols
    <2>2. CASE pc' = "chars"
      BY <1>1, <1>3, <1>4, <2>2 DEF BatchInv, Partly, Cols
    <2> QED
      BY <1>1, <2>1, <2>2
  <1>7. GroupsInv(G)'
    BY <1>1, <1>2, GroupsKept
  <1> QED
    BY <1>5, <1>6, <1>7 DEF ConvertInv

LEMMA TakeCharStep == ASSUME ConvertInv, TakeChar \/ InputEnds PROVE ConvertInv'
  <1>1. /\ pc = "chars" /\ UNCHANGED <<job, row, status, batch, batch_meta, offset, file, j>>
        /\ pc' = "chars" \/ (pc' = "rowEnd" /\ Eof /\ UNCHANGED rpos)
    BY DEF TakeChar, InputEnds, storeVars, printVars, parseVars
  <1>2. PICK G \in Nat : GroupsInv(G)
    BY <1>1 DEF ConvertInv
  <1>3. JobInv' /\ FileInv'
    BY <1>1, StoreKept DEF ConvertInv, JobInv, Reading
  <1>4. BatchInv'
    BY <1>1 DEF ConvertInv, BatchInv, Partly, Cols, Eof, text
  <1>5. GroupsInv(G)'
    BY <1>1, <1>2, GroupsKept
  <1> QED
    BY <1>3, <1>4, <1>5 DEF ConvertInv

LEMMA RowDoneStep == ASSUME ConvertInv, RowDone PROVE ConvertInv'
  <1>1. /\ pc = "rowEnd" /\ pc' = "row" /\ ~ Eof /\ row' = row + 1
        /\ UNCHANGED <<job, batch, batch_meta, offset, file, j>>
    BY DEF RowDone, storeVars, printVars
  <1>2. PICK G \in Nat : GroupsInv(G)
    BY <1>1 DEF ConvertInv
  <1>3. /\ job.batch_size \in Nat /\ row \in 0 .. job.batch_size - 1
        /\ \A c \in 1 .. Cols : Len(batch[c]) = row + 1
    BY <1>1, Positive DEF ConvertInv, BatchInv
  <1>4. JobInv' /\ FileInv'
    BY <1>1, StoreKept DEF ConvertInv, JobInv, Reading
  <1>5. BatchInv'
    BY <1>1, <1>3 DEF ConvertInv, BatchInv, Cols
  <1>6. GroupsInv(G)'
    BY <1>1, <1>2, GroupsKept
  <1> QED
    BY <1>4, <1>5, <1>6 DEF ConvertInv

\* The text is over: the group that is left may be short.
LEMMA LastRowStep == ASSUME ConvertInv, LastRow \/ NoLastRow PROVE ConvertInv'
  <1>1. /\ pc = "rowEnd" /\ pc' = "write" /\ Eof
        /\ UNCHANGED <<job, rpos, row, status, batch_meta, offset, file, j>>
        /\ \/ LastField /\ Push
           \/ status = 0 /\ UNCHANGED batch
    BY DEF LastRow, NoLastRow, storeVars, printVars, parseVars
  <1>2. PICK G \in Nat : GroupsInv(G)
    BY <1>1 DEF ConvertInv
  <1>3. /\ Cols \in Nat \ {0} /\ job.batch_size \in Nat
        /\ row \in 0 .. job.batch_size - 1 /\ status \in 0 .. Cols - 1 /\ j = 0
    BY <1>1, Positive DEF ConvertInv, BatchInv
  <1>4. PICK L \in 0 .. job.batch_size :
            /\ DOMAIN batch' = 1 .. Cols
            /\ \A c \in 1 .. Cols : IsSeq(batch'[c]) /\ Len(batch'[c]) = L
    <2>1. CASE LastField /\ Push
      <3>1. status = Cols - 1 /\ current_str # <<>>
        BY <2>1 DEF LastField
      <3>2. \A c \in 1 .. Cols : Len(batch[c]) = Partly(c)
        BY <1>1, <3>1 DEF ConvertInv, BatchInv
      <3>3. /\ DOMAIN batch' = 1 .. Cols
            /\ \A c \in 1 .. Cols :
                   /\ IsSeq(batch'[c])
                   /\ Len(batch'[c]) = IF c <= status + 1 THEN row + 1 ELSE row
        BY <1>3, <2>1, <3>2, PushStep DEF ConvertInv
      <3> QED
        BY <1>3, <3>1, <3>3
    <2>2. CASE status = 0 /\ UNCHANGED batch
      <3>1. \/ \A c \in 1 .. Cols : Len(batch[c]) = row + 1
            \/ \A c \in 1 .. Cols : Len(batch[c]) = Partly(c)
        BY <1>1 DEF ConvertInv, BatchInv
      <3>2. \/ \A c \in 1 .. Cols : Len(batch[c]) = row + 1
            \/ \A c \in 1 .. Cols : Len(batch[c]) = row
        BY <1>3, <2>2, <3>1 DEF Partly
      <3> QED
        BY <1>3, <2>2, <3>2 DEF ConvertInv, BatchInv
    <2> QED
      BY <1>1, <2>1, <2>2
  <1>5. JobInv' /\ FileInv'
    BY <1>1, StoreKept DEF ConvertInv, JobInv, Reading
  <1>6. BatchInv'
    BY <1>1, <1>4 DEF ConvertInv, BatchInv, Cols
  <1>7. GroupsInv(G)'
    <2>1. Eof'
      BY <1>1 DEF Eof, text
    <2>2. \A c \in 1 .. Cols : Len(batch'[c]) = L
      BY <1>4
    <2> QED
      BY <1>1, <1>2, <1>3, <2>1, <2>2, GroupFormed
  <1> QED
    BY <1>5, <1>6, <1>7 DEF ConvertInv

-----------------------------------------------------------------------------
(* Writing the file                                                        *)

\* An index of a column of a complete group.
LEMMA GroupIndex ==
    ASSUME NEW C \in Nat \ {0}, NEW G \in Nat, NEW g \in 1 .. G, NEW c \in 1 .. C
    PROVE  (g - 1) * C + c \in 1 .. G * C
  <1>1. (g - 1) * C \in Nat /\ g * C <= G * C /\ (g - 1) * C + C = g * C /\ G * C \in Nat
    BY TimesMonotone
  <1> QED
    BY <1>1

LEMMA WriteChunkStep == ASSUME ConvertInv, WriteChunk PROVE ConvertInv'
  <1> DEFINE size == ChunkSize(batch[j + 1])
             n == Len(batch_meta)
  <1>1. /\ pc = "write" /\ pc' = "write" /\ j < Cols /\ j' = j + 1
        /\ file' = Items(file, <<batch[j + 1]>>, size)
        /\ batch_meta' = Append(batch_meta, [size |-> size, offset |-> offset])
        /\ offset' = offset + size
        /\ batch' = [batch EXCEPT ![j + 1] = <<>>]
        /\ UNCHANGED <<job, rpos, row, status, current_str, columns, r>>
    BY WrittenItems DEF WriteChunk, MetaOf
  <1>2. PICK G \in Nat : GroupsInv(G)
    BY <1>1 DEF ConvertInv
  <1>3. /\ Cols \in Nat \ {0} /\ job.batch_size \in Nat /\ j \in 0 .. Cols
        /\ n = G * Cols + j /\ G * Cols \in Nat
    <2>1. Cols \in Nat \ {0} /\ job.batch_size \in Nat
      BY Positive DEF ConvertInv
    <2>2. j \in 0 .. Cols /\ n = G * Cols + j
      BY <1>1, <1>2 DEF GroupsInv
    <2> QED
      BY <2>1, <2>2
  <1>4. PICK L \in 0 .. job.batch_size :
            /\ L = job.batch_size \/ Eof
            /\ \A c \in 1 .. j : batch[c] = <<>> /\ Len(file[G * Cols + c].v) = L
            /\ \A c \in j + 1 .. Cols : Len(batch[c]) = L
    BY <1>1, <1>2 DEF GroupsInv
  <1>5. j + 1 \in 1 .. Cols /\ IsSeq(batch[j + 1]) /\ Len(batch[j + 1]) = L
    <2>1. j + 1 \in j + 1 .. Cols /\ j + 1 \in 1 .. Cols
      BY <1>1, <1>3
    <2> QED
      BY <1>4, <2>1 DEF ConvertInv, BatchInv
  <1>6. size \in Nat \ {0}
    BY <1>5 DEF ChunkSize
  <1>7. /\ Laid(file) /\ IsSeq(batch_meta) /\ offset \in Nat /\ ChunksInv
        /\ Len(file) = n /\ EndOf(file) = offset /\ n \in Nat
    BY <1>1, SeqLength DEF ConvertInv, FileInv, Reading
  <1> HIDE DEF size
  <1>8. /\ Laid(file') /\ Len(file') = n + 1 /\ EndOf(file') = offset + size
        /\ \A k \in 1 .. n : file'[k] = file[k]
        /\ file'[n + 1].at = offset /\ file'[n + 1].bytes = size
        /\ file'[n + 1].v = batch[j + 1]
    <2> DEFINE values == <<batch[j + 1]>>
    <2>1. IsSeq(values) /\ Len(values) = 1 /\ values[1] = batch[j + 1]
      <3>1. values \in Seq({batch[j + 1]})
        OBVIOUS
      <3> QED
        BY <3>1 DEF IsSeq
    <2>2. file' = Items(file, values, size)
      BY <1>1
    <2> HIDE DEF values, n
    <2>3. Behind(file', file, values, size)
      BY <1>6, <1>7, <2>1, <2>2, ItemsLaid
    <2>4. 1 \in 1 .. 1 /\ (1 - 1) * size = 0 /\ 1 * size = size
      BY <1>6
    <2> QED
      BY <1>7, <2>1, <2>3, <2>4 DEF Behind
  <1>9. /\ IsSeq(batch_meta') /\ Len(batch_meta') = n + 1
        /\ \A k \in 1 .. n : batch_meta'[k] = batch_meta[k]
        /\ batch_meta'[n + 1] = [size |-> size, offset |-> offset]
    <2> HIDE DEF n
    <2>1. /\ IsSeq(batch_meta') /\ Len(batch_meta') = Len(batch_meta) + 1
          /\ \A k \in 1 .. Len(batch_meta) : batch_meta'[k] = batch_meta[k]
          /\ batch_meta'[Len(batch_meta) + 1] = [size |-> size, offset |-> offset]
      BY <1>1, <1>7, SeqAppend
    <2> QED
      BY <2>1 DEF n
  <1> HIDE DEF n
  <1>10. \A k \in 1 .. n + 1 : k \in 1 .. n \/ k = n + 1
    BY <1>7
  <1>11. FileInv'
    <2>1. ChunksInv'
      <3>1. ASSUME NEW k \in 1 .. n
            PROVE  /\ file'[k].at = batch_meta'[k].offset
                   /\ file'[k].bytes = batch_meta'[k].size
                   /\ IsSeq(file'[k].v)
                   /\ file'[k].at = IF k = 1 THEN 0 ELSE file'[k - 1].at + file'[k - 1].bytes
        <4>1. k # 1 => k - 1 \in 1 .. n
          BY <1>7
        <4>2. file'[k] = file[k] /\ (k # 1 => file'[k - 1] = file[k - 1])
          BY <1>8, <4>1
        <4>3. /\ file[k].at = batch_meta[k].offset /\ file[k].bytes = batch_meta[k].size
              /\ IsSeq(file[k].v)
              /\ file[k].at = IF k = 1 THEN 0 ELSE file[k - 1].at + file[k - 1].bytes
          BY <1>7 DEF ChunksInv, n
        <4> QED
          BY <1>9, <4>2, <4>3
      <3>2. /\ file'[n + 1].at = batch_meta'[n + 1].offset
            /\ file'[n + 1].bytes = batch_meta'[n + 1].size
            /\ IsSeq(file'[n + 1].v)
        BY <1>5, <1>8, <1>9
      <3>3. file'[n + 1].at = IF n + 1 = 1 THEN 0 ELSE file'[(n + 1) - 1].at + file'[(n + 1) - 1].bytes
        <4>1. CASE n = 0
          BY <1>7, <1>8, <4>1, EmptySeq DEF EndOf, Laid, IsSeq
        <4>2. CASE n # 0
          <5>1. file # <<>> /\ n \in 1 .. n /\ (n + 1) - 1 = n /\ n + 1 # 1
            BY <1>7, <4>2
          <5>2. file'[n] = file[n] /\ offset = file[n].at + file[n].bytes
            BY <1>7, <1>8, <5>1 DEF EndOf, Last
          <5> QED
            BY <1>8, <5>1, <5>2
        <4> QED
          BY <4>1, <4>2
      <3> QED
        BY <1>9, <1>10, <3>1, <3>2, <3>3 DEF ChunksInv
    <2>2. Len(file') = Len(batch_meta') /\ EndOf(file)' = offset' /\ offset' \in Nat
      BY <1>1, <1>6, <1>7, <1>8, <1>9 DEF EndOf
    <2>3. Laid(file)'
      BY <1>8 DEF Laid, EndOf
    <2> QED
      BY <1>1, <1>9, <2>1, <2>2, <2>3 DEF FileInv, Reading, Stored
  <1>12. /\ DOMAIN batch' = 1 .. Cols /\ batch'[j + 1] = <<>>
         /\ \A c \in 1 .. Cols : c # j + 1 => batch'[c] = batch[c]
    BY <1>1, <1>5 DEF ConvertInv, BatchInv
  <1>13. BatchInv'
    <2>1. \A c \in 1 .. Cols : IsSeq(batch'[c])
      BY <1>12, EmptyIsSeq DEF ConvertInv, BatchInv
    <2> QED
      BY <1>1, <1>12, <2>1 DEF BatchInv, Cols
  <1>14. GroupsInv(G)'
    <2>1. \A g \in 1 .. G, c \in 1 .. Cols : Chunk(g, c)' = Chunk(g, c)
      <3>1. ASSUME NEW g \in 1 .. G, NEW c \in 1 .. Cols
            PROVE  (g - 1) * Cols + c \in 1 .. n
        <4>1. (g - 1) * Cols + c \in 1 .. G * Cols
          BY <1>3, GroupIndex
        <4> QED
          BY <1>3, <4>1
      <3> QED
        BY <1>1, <1>8, <3>1 DEF Chunk, Cols
    <2>2. Len(batch_meta') = G * Cols + j'
      BY <1>1, <1>3, <1>9
    <2>3. j' \in 0 .. Cols
      BY <1>1, <1>3
    <2>4. ASSUME NEW c \in 1 .. j'
          PROVE  batch'[c] = <<>> /\ Len(file'[G * Cols + c].v) = L
      <3>1. CASE c = j + 1
        <4>1. G * Cols + c = n + 1
          BY <1>3, <3>1
        <4> QED
          BY <1>5, <1>8, <1>12, <3>1, <4>1
      <3>2. CASE c # j + 1
        <4>1. c \in 1 .. j /\ c \in 1 .. Cols /\ G * Cols + c \in 1 .. n
          BY <1>1, <1>3, <3>2
        <4> QED
          BY <1>4, <1>8, <1>12, <3>2, <4>1
      <3> QED
        BY <3>1, <3>2
    <2>5. ASSUME NEW c \in j' + 1 .. Cols PROVE Len(batch'[c]) = L
      <3>1. c \in j + 1 .. Cols /\ c \in 1 .. Cols /\ c # j + 1
        BY <1>1, <1>3
      <3> QED
        BY <1>4, <1>12, <3>1
    <2>6. Eof' <=> Eof
      BY <1>1 DEF Eof, text
    <2>7. /\ \A g \in 1 .. G, c \in 1 .. Cols :
                Len(Chunk(g, c)) = Len(Chunk(g, 1)) /\ Len(Chunk(g, c)) <= job.batch_size
          /\ \A g \in 1 .. G : Len(Chunk(g, 1)) = job.batch_size
      BY <1>1, <1>2 DEF GroupsInv, MustBeFull
    <2>8. 1 \in 1 .. Cols /\ Cols' = Cols
      BY <1>1, <1>3 DEF Cols
    <2>9. /\ \A g \in 1 .. G, c \in 1 .. Cols :
                Len(Chunk(g, c)') = Len(Chunk(g, 1)') /\ Len(Chunk(g, c)') <= job.batch_size
          /\ \A g \in 1 .. G : Len(Chunk(g, 1)') = job.batch_size
      BY <2>1, <2>7, <2>8
    <2> QED
      BY <1>1, <1>4, <2>2, <2>3, <2>4, <2>5, <2>6, <2>8, <2>9 DEF GroupsInv
  <1>15. JobInv'
    BY <1>1 DEF ConvertInv, JobInv
  <1> QED
    BY <1>11, <1>13, <1>14, <1>15 DEF ConvertInv

\* The group is complete.
LEMMA GroupWrittenStep == ASSUME ConvertInv, GroupWritten PROVE ConvertInv'
  <1>1. /\ pc = "write" /\ pc' = "group" /\ j >= Cols /\ j' = 0
        /\ UNCHANGED <<job, rpos, batch, batch_meta, offset, file>>
    BY DEF GroupWritten, storeVars, parseVars
  <1>2. PICK G \in Nat : GroupsInv(G)
    BY <1>1 DEF ConvertInv
  <1>3. Cols \in Nat \ {0} /\ job.batch_size \in Nat /\ j = Cols
    BY <1>1, <1>2, Positive DEF ConvertInv, GroupsInv
  <1>4. PICK L \in 0 .. job.batch_size :
            /\ L = job.batch_size \/ Eof
            /\ \A c \in 1 .. Cols : batch[c] = <<>> /\ Len(file[G * Cols + c].v) = L
    BY <1>1, <1>2, <1>3 DEF GroupsInv
  <1>5. JobInv' /\ FileInv'
    BY <1>1, StoreKept DEF ConvertInv, JobInv, Reading
  <1>6. BatchInv'
    BY <1>1, <1>4 DEF ConvertInv, BatchInv, Cols
  <1>7. GroupsInv(G + 1)'
    <2>1. Cols' = Cols /\ (\A g, c : Chunk(g, c)' = Chunk(g, c)) /\ (Eof' <=> Eof)
      BY <1>1 DEF Cols, Chunk, Eof, text
    <2>2. Len(batch_meta') = (G + 1) * Cols
      BY <1>1, <1>2, <1>3 DEF GroupsInv
    <2>3. ASSUME NEW c \in 1 .. Cols PROVE Len(Chunk(G + 1, c)) = L
      <3>1. (G + 1 - 1) * Cols + c = G * Cols + c
        BY <1>3
      <3> QED
        BY <1>4, <3>1 DEF Chunk
    <2>4. 1 \in 1 .. Cols /\ L <= job.batch_size
      BY <1>3
    <2>5. ASSUME NEW g \in 1 .. G + 1, NEW c \in 1 .. Cols
          PROVE  Len(Chunk(g, c)) = Len(Chunk(g, 1)) /\ Len(Chunk(g, c)) <= job.batch_size
      <3>1. CASE g = G + 1
        BY <2>3, <2>4, <3>1
      <3>2. CASE g \in 1 .. G
        BY <1>2, <3>2 DEF GroupsInv
      <3> QED
        BY <3>1, <3>2
    <2>6. ASSUME NEW g \in 1 .. G + 1, g < G + 1 \/ ~ Eof
          PROVE  Len(Chunk(g, 1)) = job.batch_size
      <3>1. CASE g = G + 1
        BY <1>4, <2>3, <2>4, <2>6, <3>1
      <3>2. CASE g \in 1 .. G
        BY <1>1, <1>2, <3>2 DEF GroupsInv, MustBeFull
      <3> QED
        BY <3>1, <3>2
    <2> QED
      BY <1>1, <2>1, <2>2, <2>5, <2>6 DEF GroupsInv, MustBeFull
  <1>8. G + 1 \in Nat
    OBVIOUS
  <1> QED
    BY <1>5, <1>6, <1>7, <1>8 DEF ConvertInv

\* After the last group: the chunks stay where they are.
LEMMA GroupsDone ==
    ASSUME NEW G \in Nat, GroupsInv(G), Cols \in Nat \ {0}, Cols' = Cols,
           job'.batch_size = job.batch_size, Len(batch_meta') = Len(batch_meta),
           \A k \in 1 .. Len(batch_meta) : file'[k] = file[k],
           pc \in {"meta", "schema", "trailer"} \cup Stored,
           pc' \in {"meta", "schema", "trailer"} \cup Stored
    PROVE  GroupsInv(G)'
  <1>1. Len(batch_meta) = G * Cols /\ G * Cols \in Nat
    BY DEF GroupsInv, Stored
  <1>2. ASSUME NEW g \in 1 .. G, NEW c \in 1 .. Cols
        PROVE  Chunk(g, c)' = Chunk(g, c)
    <2>1. (g - 1) * Cols + c \in 1 .. G * Cols
      BY GroupIndex
    <2> QED
      BY <1>1, <2>1 DEF Chunk
  <1>3. /\ \A g \in 1 .. G, c \in 1 .. Cols :
               Len(Chunk(g, c)) = Len(Chunk(g, 1)) /\ Len(Chunk(g, c)) <= job.batch_size
        /\ \A g \in 1 .. G : g < G => Len(Chunk(g, 1)) = job.batch_size
    BY DEF GroupsInv, MustBeFull
  <1>4. 1 \in 1 .. Cols
    OBVIOUS
  <1>5. /\ \A g \in 1 .. G, c \in 1 .. Cols :
               Len(Chunk(g, c)') = Len(Chunk(g, 1)') /\ Len(Chunk(g, c)') <= job'.batch_size
        /\ \A g \in 1 .. G : g < G => Len(Chunk(g, 1)') = job'.batch_size
    BY <1>2, <1>3, <1>4
  <1>6. Len(batch_meta') = G * Cols' + (IF pc' = "write" THEN j' ELSE 0)
    BY <1>1 DEF Stored
  <1> QED
    BY <1>5, <1>6 DEF GroupsInv, MustBeFull, Stored

\* What is written behind the chunks leaves them as they are.
LEMMA ChunksKept ==
    ASSUME UNCHANGED batch_meta, Len(batch_meta) \in Nat, ChunksInv,
           \A k \in 1 .. Len(batch_meta) : file'[k] = file[k]
    PROVE  ChunksInv'
  <1> SUFFICES ASSUME NEW k \in 1 .. Len(batch_meta)
               PROVE  /\ file'[k].at = batch_meta[k].offset /\ file'[k].bytes = batch_meta[k].size
                      /\ IsSeq(file'[k].v)
                      /\ file'[k].at = IF k = 1 THEN 0
                                       ELSE file'[k - 1].at + file'[k - 1].bytes
    BY DEF ChunksInv
  <1>1. k # 1 => k - 1 \in 1 .. Len(batch_meta)
    OBVIOUS
  <1>2. file'[k] = file[k] /\ (k # 1 => file'[k - 1] = file[k - 1])
    BY <1>1
  <1> QED
    BY <1>2 DEF ChunksInv

LEMMA WriteMetaStep == ASSUME ConvertInv, WriteMeta PROVE ConvertInv'
  <1>1. /\ pc = "meta" /\ pc' = "schema" /\ file' = Items(file, batch_meta, 16)
        /\ UNCHANGED <<job, batch, batch_meta, offset, j>>
    BY WrittenItems DEF WriteMeta, parseVars, printVars
  <1>2. PICK G \in Nat : GroupsInv(G)
    BY <1>1 DEF ConvertInv
  <1>3. /\ Laid(file) /\ IsSeq(batch_meta) /\ offset \in Nat /\ ChunksInv
        /\ Len(file) = Len(batch_meta) /\ EndOf(file) = offset /\ Len(batch_meta) \in Nat
    BY <1>1, SeqLength DEF ConvertInv, FileInv, Reading
  <1>4. Behind(file', file, batch_meta, 16)
    <2>1. 16 \in Nat \ {0}
      OBVIOUS
    <2> QED
      BY <1>1, <1>3, <2>1, ItemsLaid
  <1>5. \A k \in 1 .. Len(batch_meta) : file'[k] = file[k]
    BY <1>3, <1>4 DEF Behind
  <1>6. FileInv'
    <2>1. ChunksInv'
      BY <1>1, <1>3, <1>5, ChunksKept
    <2>2. MetasInv'
      BY <1>1, <1>3, <1>4 DEF Behind, MetasInv
    <2>3. Laid(file)' /\ Len(file') = 2 * Len(batch_meta)
          /\ EndOf(file)' = offset + 16 * Len(batch_meta)
      BY <1>3, <1>4 DEF Behind, Laid, EndOf
    <2> QED
      BY <1>1, <1>3, <2>1, <2>2, <2>3 DEF FileInv, Reading, Stored
  <1>7. JobInv' /\ BatchInv'
    BY <1>1 DEF ConvertInv, JobInv, BatchInv, Cols
  <1>8. GroupsInv(G)'
    <2>1. Cols \in Nat \ {0} /\ Cols' = Cols
      BY <1>1, Positive DEF ConvertInv, Cols
    <2> QED
      BY <1>1, <1>2, <1>5, <2>1, GroupsDone
  <1> QED
    BY <1>6, <1>7, <1>8 DEF ConvertInv

LEMMA WriteSchemaStep == ASSUME ConvertInv, WriteSchema PROVE ConvertInv'
  <1> DEFINE n == Len(batch_meta)
  <1>1. /\ pc = "schema" /\ pc' = "trailer" /\ file' = Items(file, job.columns, 10)
        /\ UNCHANGED <<job, batch, batch_meta, offset, j>>
    BY WrittenItems DEF WriteSchema, parseVars, printVars
  <1>2. PICK G \in Nat : GroupsInv(G)
    BY <1>1 DEF ConvertInv
  <1>3. /\ Laid(file) /\ IsSeq(batch_meta) /\ offset \in Nat /\ ChunksInv /\ MetasInv
        /\ Len(file) = 2 * n /\ EndOf(file) = offset + 16 * n /\ n \in Nat
    BY <1>1, SeqLength DEF ConvertInv, FileInv, Reading
  <1>4. Cols \in Nat \ {0} /\ Cols' = Cols /\ IsSeq(job.columns)
    BY <1>1, Positive DEF ConvertInv, Cols, IsSeq
  <1>5. Behind(file', file, job.columns, 10)
    <2>1. 10 \in Nat \ {0}
      OBVIOUS
    <2> QED
      BY <1>1, <1>3, <1>4, <2>1, ItemsLaid
  <1>6. \A k \in 1 .. n : k \in 1 .. 2 * n /\ n + k \in 1 .. 2 * n
    BY <1>3
  <1>7. \A k \in 1 .. 2 * n : file'[k] = file[k]
    BY <1>3, <1>5 DEF Behind
  <1>8. FileInv'
    <2>1. ChunksInv'
      BY <1>1, <1>3, <1>6, <1>7, ChunksKept
    <2>2. MetasInv'
      BY <1>1, <1>3, <1>6, <1>7 DEF MetasInv
    <2>3. SchemaInv'
      BY <1>1, <1>3, <1>4, <1>5 DEF Behind, SchemaInv, Cols
    <2>4. Laid(file)' /\ Len(file') = 2 * n + Cols
          /\ EndOf(file)' = offset + 16 * n + 10 * Cols
      <3>1. /\ Laid(file') /\ Len(file') = Len(file) + Cols
            /\ EndOf(file') = EndOf(file) + Cols * 10
        BY <1>5 DEF Behind, Cols
      <3>2. Cols * 10 = 10 * Cols
        BY <1>4
      <3>3. Laid(file)' /\ EndOf(file)' = EndOf(file')
        BY <3>1 DEF Laid, EndOf
      <3> QED
        BY <1>3, <3>1, <3>2, <3>3
    <2> QED
      BY <1>1, <1>3, <1>4, <2>1, <2>2, <2>3, <2>4 DEF FileInv, Reading, Stored
  <1>9. JobInv' /\ BatchInv'
    BY <1>1 DEF ConvertInv, JobInv, BatchInv, Cols
  <1>10. GroupsInv(G)'
    BY <1>1, <1>2, <1>4, <1>6, <1>7, GroupsDone
  <1> QED
    BY <1>8, <1>9, <1>10 DEF ConvertInv

LEMMA WriteTrailerStep == ASSUME ConvertInv, WriteTrailer PROVE ConvertInv'
  <1> DEFINE n == Len(batch_meta)
             numbers == <<offset, n, Cols>>
  <1>1. /\ pc = "trailer" /\ pc' = "stored" /\ file' = Items(file, numbers, 8)
        /\ UNCHANGED <<job, batch, batch_meta, offset, j>>
    BY WrittenItems DEF WriteTrailer, parseVars, printVars
  <1>2. PICK G \in Nat : GroupsInv(G)
    BY <1>1 DEF ConvertInv
  <1>3. Cols \in Nat \ {0} /\ Cols' = Cols
    BY <1>1, Positive DEF ConvertInv, Cols
  <1>4. /\ Laid(file) /\ IsSeq(batch_meta) /\ offset \in Nat
        /\ ChunksInv /\ MetasInv /\ SchemaInv
        /\ Len(file) = 2 * n + Cols /\ EndOf(file) = offset + 16 * n + 10 * Cols /\ n \in Nat
    BY <1>1, SeqLength DEF ConvertInv, FileInv, Reading
  <1>5. IsSeq(numbers) /\ Len(numbers) = 3
    <2>1. numbers \in Seq(Nat)
      BY <1>3, <1>4
    <2> QED
      BY <2>1 DEF IsSeq
  <1> HIDE DEF numbers
  <1>6. Behind(file', file, numbers, 8)
    <2>1. 8 \in Nat \ {0}
      OBVIOUS
    <2> QED
      BY <1>1, <1>4, <1>5, <2>1, ItemsLaid
  <1>7. /\ \A k \in 1 .. n : k \in 1 .. 2 * n + Cols /\ n + k \in 1 .. 2 * n + Cols
        /\ \A k \in 1 .. Cols : 2 * n + k \in 1 .. 2 * n + Cols
    BY <1>3, <1>4
  <1>8. \A k \in 1 .. 2 * n + Cols : file'[k] = file[k]
    BY <1>4, <1>6 DEF Behind
  <1>9. FileInv'
    <2>1. ChunksInv'
      BY <1>1, <1>4, <1>7, <1>8, ChunksKept
    <2>2. MetasInv'
      BY <1>1, <1>4, <1>7, <1>8 DEF MetasInv
    <2>3. SchemaInv'
      BY <1>1, <1>3, <1>4, <1>7, <1>8 DEF SchemaInv
    <2>4. Laid(file)' /\ Len(file') = 2 * n + Cols + 3 /\ EndOf(file)' = EndOf(file) + 24
      BY <1>3, <1>4, <1>5, <1>6 DEF Behind, Laid, EndOf
    <2>5. TrailerInv'
      <3>1. \A k \in 1 .. 3 :
                /\ file'[2 * n + Cols + k].at = EndOf(file) + (k - 1) * 8
                /\ file'[2 * n + Cols + k].v = numbers[k]
        BY <1>4, <1>5, <1>6 DEF Behind
      <3>2. numbers' = numbers /\ EndOf(file) = EndOf(file)' - 24
        BY <1>1, <1>3, <1>4, <2>4 DEF numbers
      <3> QED
        BY <1>1, <1>3, <3>1, <3>2 DEF TrailerInv, numbers
    <2> QED
      BY <1>1, <1>3, <1>4, <2>1, <2>2, <2>3, <2>4, <2>5 DEF FileInv, Reading, Stored
  <1>10. JobInv' /\ BatchInv'
    BY <1>1 DEF ConvertInv, JobInv, BatchInv, Cols
  <1>11. GroupsInv(G)'
    BY <1>1, <1>2, <1>3, <1>7, <1>8, GroupsDone DEF Stored
  <1> QED
    BY <1>9, <1>10, <1>11 DEF ConvertInv

-----------------------------------------------------------------------------
(* Reading the file                                                        *)

\* The complete file.
LEMMA StoredFile ==
    ASSUME ConvertInv, pc \in Stored
    PROVE  /\ Laid(file) /\ IsSeq(batch_meta) /\ offset \in Nat /\ Len(batch_meta) \in Nat
           /\ ChunksInv /\ MetasInv /\ SchemaInv /\ TrailerInv
           /\ Cols \in Nat \ {0}
           /\ Len(file) = 2 * Len(batch_meta) + Cols + 3
           /\ EndOf(file) \in Nat
  <1>1. /\ Laid(file) /\ IsSeq(batch_meta) /\ offset \in Nat
        /\ ChunksInv /\ MetasInv /\ SchemaInv /\ TrailerInv
        /\ Len(file) = 2 * Len(batch_meta) + Cols + 3
    BY DEF ConvertInv, FileInv, Stored, Reading
  <1>2. Cols \in Nat \ {0} /\ EndOf(file) \in Nat
    BY <1>1, Positive DEF ConvertInv, Laid
  <1> QED
    BY <1>1, <1>2, SeqLength

\* The three numbers of the trailer are those that were written.
LEMMA TrailerFound ==
    ASSUME ConvertInv, pc \in Stored
    PROVE  /\ ValueAt(TrailerAt) = offset
           /\ ValueAt(TrailerAt + 8) = Len(batch_meta)
           /\ ValueAt(TrailerAt + 16) = Cols
  <1> DEFINE first_ == 2 * Len(batch_meta) + Cols
  <1>1. /\ Laid(file) /\ TrailerInv /\ EndOf(file) \in Nat /\ first_ \in Nat
        /\ Len(file) = first_ + 3
    BY StoredFile
  <1>2. TrailerAt = EndOf(file) - 24
    BY DEF TrailerAt, FileSize, EndOf
  <1>3. ASSUME NEW k \in 1 .. 3
        PROVE  ValueAt(EndOf(file) - 24 + (k - 1) * 8) = <<offset, Len(batch_meta), Cols>>[k]
    <2>1. first_ + k \in 1 .. Len(file)
      BY <1>1
    <2>2. ValueAt(file[first_ + k].at) = file[first_ + k].v
      BY <1>1, <2>1, OneItem
    <2> QED
      BY <1>1, <2>2 DEF TrailerInv
  <1>4. /\ ValueAt(EndOf(file) - 24 + (1 - 1) * 8) = offset
        /\ ValueAt(EndOf(file) - 24 + (2 - 1) * 8) = Len(batch_meta)
        /\ ValueAt(EndOf(file) - 24 + (3 - 1) * 8) = Cols
    <2>1. 1 \in 1 .. 3 /\ 2 \in 1 .. 3 /\ 3 \in 1 .. 3
      OBVIOUS
    <2> QED
      BY <1>3, <2>1
  <1>5. /\ EndOf(file) - 24 + (1 - 1) * 8 = TrailerAt
        /\ EndOf(file) - 24 + (2 - 1) * 8 = TrailerAt + 8
        /\ EndOf(file) - 24 + (3 - 1) * 8 = TrailerAt + 16
    BY <1>1, <1>2
  <1> QED
    BY <1>4, <1>5

\* So are the meta data and the schema, from the offset on.
LEMMA MetaFound ==
    ASSUME ConvertInv, pc \in Stored
    PROVE  /\ \A k \in 1 .. Len(batch_meta) : ValueAt(offset + (k - 1) * 16) = batch_meta[k]
           /\ \A k \in 1 .. Cols :
                  ValueAt(offset + Len(batch_meta) * 16 + (k - 1) * 10) = job.columns[k]
  <1> DEFINE n == Len(batch_meta)
  <1>1. /\ Laid(file) /\ MetasInv /\ SchemaInv /\ offset \in Nat /\ n \in Nat
        /\ Cols \in Nat /\ Len(file) = 2 * n + Cols + 3
    BY StoredFile
  <1>2. ASSUME NEW k \in 1 .. n PROVE ValueAt(offset + (k - 1) * 16) = batch_meta[k]
    <2>1. n + k \in 1 .. Len(file)
      BY <1>1
    <2>2. ValueAt(file[n + k].at) = file[n + k].v
      BY <1>1, <2>1, OneItem
    <2> QED
      BY <1>1, <2>2 DEF MetasInv
  <1>3. ASSUME NEW k \in 1 .. Cols
        PROVE  ValueAt(offset + n * 16 + (k - 1) * 10) = job.columns[k]
    <2>1. 2 * n + k \in 1 .. Len(file) /\ n * 16 = 16 * n
      BY <1>1
    <2>2. ValueAt(file[2 * n + k].at) = file[2 * n + k].v
      BY <1>1, <2>1, OneItem
    <2> QED
      BY <1>1, <2>1, <2>2 DEF SchemaInv
  <1> QED
    BY <1>2, <1>3

\* What the steps that read leave alone.
LEMMA FileKept ==
    ASSUME FileInv, UNCHANGED <<job, batch_meta, offset, file>>,
           pc \in Stored, pc' \in Stored, pc' = "readMeta" => rpos' = offset
    PROVE  FileInv'
  <1>1. /\ Laid(file)' /\ IsSeq(batch_meta)' /\ offset' \in Nat
        /\ ChunksInv' /\ MetasInv' /\ SchemaInv' /\ TrailerInv'
    BY DEF FileInv, Laid, EndOf, ChunksInv, MetasInv, SchemaInv, TrailerInv, Cols,
           Reading, Stored
  <1>2. Len(file') = 2 * Len(batch_meta') + Cols' + 3
    BY DEF FileInv, Cols, Stored
  <1> QED
    BY <1>1, <1>2 DEF FileInv, Reading, Stored

LEMMA ReadTrailerStep == ASSUME ConvertInv, ReadTrailer PROVE ConvertInv'
  <1>1. /\ pc = "stored" /\ pc' = "readMeta" /\ rpos' = ValueAt(TrailerAt)
        /\ UNCHANGED <<job, batch, batch_meta, offset, file, j>>
    BY DEF ReadTrailer, storeVars, printVars
  <1>2. PICK G \in Nat : GroupsInv(G)
    BY <1>1 DEF ConvertInv
  <1>3. pc \in Stored /\ pc' \in Stored
    BY <1>1 DEF Stored
  <1>4. FileInv'
    BY <1>1, <1>3, TrailerFound, FileKept DEF ConvertInv
  <1>5. JobInv' /\ BatchInv'
    BY <1>1 DEF ConvertInv, JobInv, BatchInv, Cols
  <1>6. GroupsInv(G)'
    <2>1. Cols \in Nat \ {0} /\ Cols' = Cols
      BY <1>1, Positive DEF ConvertInv, Cols
    <2> QED
      BY <1>1, <1>2, <1>3, <2>1, GroupsDone
  <1> QED
    BY <1>4, <1>5, <1>6 DEF ConvertInv

\* The reader has the meta data and the schema that the writer had.
LEMMA MetaRead ==
    ASSUME ConvertInv, ReadMeta
    PROVE  /\ IsSeq(batch_meta') /\ Len(batch_meta') = Len(batch_meta)
           /\ \A k \in 1 .. Len(batch_meta) : batch_meta'[k] = batch_meta[k]
           /\ DOMAIN job' = DOMAIN job /\ job'.batch_size = job.batch_size
           /\ job'.columns = job.columns
  <1> DEFINE n == Len(batch_meta)
             read == [k \in 1 .. n |-> ValueAt(offset + (k - 1) * 16)]
             schema == [k \in 1 .. Cols |-> ValueAt(offset + n * 16 + (k - 1) * 10)]
  <1>1. pc = "readMeta" /\ pc \in Stored /\ rpos = offset
    BY DEF ConvertInv, FileInv, ReadMeta, Stored
  <1>2. batch_meta' = read /\ job' = [job EXCEPT !.columns = schema]
    BY <1>1, TrailerFound DEF ReadMeta
  <1>3. n \in Nat /\ Cols \in Nat
    BY <1>1, StoredFile
  <1>4. \A k \in 1 .. n : read[k] = batch_meta[k]
    BY <1>1, MetaFound
  <1>5. IsSeq(read) /\ Len(read) = n
    <2> DEFINE T == {read[k] : k \in 1 .. n}
    <2>1. read \in [1 .. n -> T]
      OBVIOUS
    <2> HIDE DEF read, T
    <2>2. read \in Seq(T) /\ Len(read) = n
      BY <1>3, <2>1
    <2> QED
      BY <2>2 DEF IsSeq
  <1>6. schema = job.columns
    <2>1. job.columns \in Seq({"int64", "string"})
      BY Positive DEF ConvertInv
    <2>2. job.columns = [k \in 1 .. Cols |-> job.columns[k]]
      BY <2>1 DEF Cols
    <2>3. \A k \in 1 .. Cols : schema[k] = job.columns[k]
      BY <1>1, MetaFound
    <2> QED
      BY <2>2, <2>3
  <1>7. DOMAIN job' = DOMAIN job /\ job'.batch_size = job.batch_size
        /\ job'.columns = job.columns
    <2>1. DOMAIN job = {"text", "columns", "batch_size"}
      BY DEF ConvertInv, JobInv
    <2> HIDE DEF schema
    <2> QED
      BY <1>2, <1>6, <2>1
  <1> HIDE DEF read
  <1> QED
    BY <1>2, <1>4, <1>5, <1>7

LEMMA ReadMetaStep == ASSUME ConvertInv, ReadMeta PROVE ConvertInv'
  <1> DEFINE n == Len(batch_meta)
  <1>1. /\ pc = "readMeta" /\ pc' = "print" /\ pc \in Stored /\ pc' \in Stored
        /\ UNCHANGED <<batch, offset, file, j>>
    BY DEF ReadMeta, printVars, Stored
  <1>2. PICK G \in Nat : GroupsInv(G)
    BY <1>1 DEF ConvertInv
  <1>3. /\ IsSeq(batch_meta') /\ Len(batch_meta') = n
        /\ \A k \in 1 .. n : batch_meta'[k] = batch_meta[k]
        /\ DOMAIN job' = DOMAIN job /\ job'.batch_size = job.batch_size
        /\ job'.columns = job.columns
    BY MetaRead
  <1>4. Cols' = Cols
    BY <1>3 DEF Cols
  <1>5. /\ Laid(file) /\ offset \in Nat /\ n \in Nat /\ Cols \in Nat \ {0}
        /\ ChunksInv /\ MetasInv /\ SchemaInv /\ TrailerInv
        /\ Len(file) = 2 * n + Cols + 3
    BY <1>1, StoredFile
  <1>6. FileInv'
    <2>1. Laid(file)' /\ offset' \in Nat /\ Len(file') = 2 * Len(batch_meta') + Cols' + 3
      BY <1>1, <1>3, <1>4, <1>5 DEF Laid, EndOf
    <2>2. ChunksInv'
      BY <1>1, <1>3, <1>5 DEF ChunksInv
    <2>3. MetasInv'
      BY <1>1, <1>3, <1>5 DEF MetasInv
    <2>4. SchemaInv'
      BY <1>1, <1>3, <1>4, <1>5 DEF SchemaInv
    <2>5. TrailerInv'
      BY <1>1, <1>3, <1>4, <1>5 DEF TrailerInv, EndOf
    <2> QED
      BY <1>1, <1>3, <2>1, <2>2, <2>3, <2>4, <2>5 DEF FileInv, Reading, Stored
  <1>7. JobInv' /\ BatchInv'
    BY <1>1, <1>3, <1>4, <1>5 DEF ConvertInv, JobInv, BatchInv
  <1>8. GroupsInv(G)'
    BY <1>1, <1>2, <1>3, <1>4, <1>5, GroupsDone
  <1> QED
    BY <1>6, <1>7, <1>8 DEF ConvertInv

-----------------------------------------------------------------------------
(* Printing                                                                *)

LEMMA PrintStep ==
    ASSUME ConvertInv, ReadChunk \/ PrintField \/ GroupPrinted
    PROVE  ConvertInv'
  <1>1. /\ pc = "print" /\ pc' = "print" /\ pc \in Stored
        /\ UNCHANGED <<job, batch, batch_meta, offset, file>>
        /\ j' = j \/ j' = (j + 1) % Cols
    BY DEF ReadChunk, PrintField, GroupPrinted, parseVars, storeVars, Stored
  <1>2. PICK G \in Nat : GroupsInv(G)
    BY <1>1 DEF ConvertInv
  <1>3. Cols \in Nat \ {0} /\ Cols' = Cols /\ j \in 0 .. Cols - 1
    BY <1>1, Positive DEF ConvertInv, BatchInv, Cols
  <1>4. j' \in 0 .. Cols - 1
    <2>1. (j + 1) % Cols \in 0 .. Cols - 1
      BY <1>3
    <2> QED
      BY <1>1, <1>3, <2>1
  <1>5. FileInv'
    BY <1>1, FileKept DEF ConvertInv
  <1>6. JobInv' /\ BatchInv'
    BY <1>1, <1>3, <1>4 DEF ConvertInv, JobInv, BatchInv
  <1>7. GroupsInv(G)'
    BY <1>1, <1>2, <1>3, GroupsDone
  <1> QED
    BY <1>5, <1>6, <1>7 DEF ConvertInv

LEMMA PrintedStep == ASSUME ConvertInv, PrintInv, Printed PROVE ConvertInv'
  <1>1. /\ pc = "print" /\ pc' = "printed" /\ pc \in Stored /\ pc' \in Stored
        /\ columns = <<>>
        /\ UNCHANGED <<job, batch, batch_meta, offset, file, j>>
    BY DEF Printed, parseVars, storeVars, printVars, Stored
  <1>2. PICK G \in Nat : GroupsInv(G)
    BY <1>1 DEF ConvertInv
  <1>3. Cols \in Nat \ {0} /\ Cols' = Cols
    BY <1>1, Positive DEF ConvertInv, Cols
  <1>4. j = 0
    <2>1. ~ GroupRead
      BY <1>1, <1>3 DEF GroupRead
    <2> QED
      BY <1>1, <2>1 DEF PrintInv
  <1>5. FileInv'
    BY <1>1, FileKept DEF ConvertInv
  <1>6. JobInv' /\ BatchInv'
    BY <1>1, <1>3, <1>4 DEF ConvertInv, JobInv, BatchInv
  <1>7. GroupsInv(G)'
    BY <1>1, <1>2, <1>3, GroupsDone
  <1> QED
    BY <1>5, <1>6, <1>7 DEF ConvertInv

\* A second file is begun.
LEMMA AgainStep == ASSUME ConvertInv, Again PROVE ConvertInv'
  <1>1. /\ pc = "printed" /\ pc' = "group" /\ UNCHANGED <<batch, j>>
        /\ job' = [job EXCEPT !.text = csv]
        /\ batch_meta' = <<>> /\ offset' = 0 /\ file' = <<>>
    BY DEF Again, printVars
  <1>2. /\ DOMAIN job' = {"text", "columns", "batch_size"}
        /\ job'.columns = job.columns /\ job'.batch_size = job.batch_size
        /\ Cols' = Cols
    BY <1>1 DEF ConvertInv, JobInv, Cols
  <1>3. Cols \in Nat \ {0}
    BY Positive DEF ConvertInv
  <1>4. FileInv'
    <2>1. Laid(file)'
      BY <1>1, EmptyIsSeq DEF Laid, EndOf
    <2> QED
      BY <1>1, <2>1, EmptyIsSeq DEF FileInv, EndOf, Reading, Stored, ChunksInv
  <1>5. JobInv' /\ BatchInv'
    BY <1>1, <1>2 DEF ConvertInv, JobInv, BatchInv
  <1>6. GroupsInv(0)'
    BY <1>1, <1>2, <1>3 DEF GroupsInv
  <1> QED
    BY <1>4, <1>5, <1>6 DEF ConvertInv

LEMMA NextConvert == ASSUME ConvertInv, PrintInv, [Next]_vars PROVE ConvertInv'
  <1>1. CASE UNCHANGED vars
    <2>1. PICK G \in Nat : pc # "error" => GroupsInv(G)
      BY DEF ConvertInv
    <2>2. JobInv' /\ BatchInv'
      BY <1>1 DEF vars, parseVars, storeVars, printVars, ConvertInv, JobInv, BatchInv,
                  Partly, Cols, Eof, text
    <2>3. FileInv'
      BY <1>1 DEF vars, parseVars, storeVars, ConvertInv, FileInv, Laid, EndOf,
                  ChunksInv, MetasInv, SchemaInv, TrailerInv, Cols
    <2>4. pc' # "error" => GroupsInv(G)'
      BY <1>1, <2>1 DEF vars, parseVars, storeVars, printVars, GroupsInv, MustBeFull,
                        Chunk, Cols, Eof, text
    <2> QED
      BY <2>2, <2>3, <2>4 DEF ConvertInv
  <1>2. CASE RejectField \/ RejectLastRow
    BY <1>2, ThrowStep DEF RejectField, RejectLastRow
  <1> QED
    BY <1>1, <1>2, NextGroupStep, NextRowStep, EndFieldStep, TakeCharStep, RowDoneStep,
       LastRowStep, WriteChunkStep, GroupWrittenStep, WriteMetaStep, WriteSchemaStep,
       WriteTrailerStep, ReadTrailerStep, ReadMetaStep, PrintStep, PrintedStep,
       AgainStep DEF Next

LEMMA ReadChunkPrint == ASSUME ConvertInv, PrintInv, ReadChunk PROVE PrintInv'
  <1> DEFINE k == row + 1
             c == Len(columns) + 1
  <1>1. /\ pc = "print" /\ pc' = "print" /\ pc \in Stored
        /\ row < Len(batch_meta) /\ Len(columns) < Cols
        /\ columns' = Append(columns, ValueAt(rpos))
        /\ rpos' = rpos + batch_meta[k].size /\ row' = k
        /\ UNCHANGED <<job, batch_meta, file, r, j>>
    BY DEF ReadChunk, storeVars, Stored
  <1>2. /\ Laid(file) /\ ChunksInv /\ Len(batch_meta) \in Nat /\ Cols \in Nat \ {0}
        /\ Len(file) = 2 * Len(batch_meta) + Cols + 3
    BY <1>1, StoredFile
  <1>3. /\ row \in 0 .. Len(batch_meta) /\ r \in Nat
        /\ rpos = IF row = 0 THEN 0 ELSE file[row].at + file[row].bytes
        /\ IsSeq(columns) /\ Len(columns) \in 0 .. Cols
        /\ j # 0 => Len(columns) = Cols
    BY <1>1 DEF PrintInv, GroupRead
  <1>4. PICK g \in Nat : ColumnsRead(g)
    BY <1>1 DEF PrintInv
  <1>5. k \in 1 .. Len(batch_meta) /\ k \in 1 .. Len(file) /\ k - 1 = row
    BY <1>1, <1>2, <1>3
  <1>6. rpos = file[k].at /\ batch_meta[k].size = file[k].bytes
    <2>1. /\ file[k].at = IF k = 1 THEN 0 ELSE file[k - 1].at + file[k - 1].bytes
          /\ batch_meta[k].size = file[k].bytes
      BY <1>2, <1>5 DEF ChunksInv
    <2>2. k = 1 <=> row = 0
      BY <1>3
    <2> QED
      BY <1>3, <1>5, <2>1, <2>2
  <1>7. ValueAt(rpos) = file[k].v
    BY <1>2, <1>5, <1>6, OneItem
  <1>8. /\ IsSeq(columns') /\ Len(columns') = c
        /\ \A i \in 1 .. Len(columns) : columns'[i] = columns[i]
        /\ columns'[c] = file[k].v
    BY <1>1, <1>3, <1>7, SeqAppend
  <1>9. Cols' = Cols /\ (\A h, i : Chunk(h, i)' = Chunk(h, i))
    BY <1>1 DEF Cols, Chunk
  <1>10. ColumnsRead(g)'
    <2>1. row = g * Cols + Len(columns) /\ g * Cols \in Nat
      BY <1>2, <1>4 DEF ColumnsRead
    <2>2. row' = g * Cols' + Len(columns')
      BY <1>1, <1>3, <1>8, <1>9, <2>1
    <2>3. (g + 1 - 1) * Cols + c = k
      BY <1>2, <1>3, <2>1
    <2>4. columns'[c] = Chunk(g + 1, c)
      BY <1>8, <2>3 DEF Chunk
    <2>5. \A i \in 1 .. Len(columns) : columns'[i] = Chunk(g + 1, i)
      BY <1>4, <1>8 DEF ColumnsRead
    <2>6. \A i \in 1 .. c : i \in 1 .. Len(columns) \/ i = c
      BY <1>3
    <2>7. \A i \in 1 .. Len(columns') : columns'[i] = Chunk(g + 1, i)'
      BY <1>8, <1>9, <2>4, <2>5, <2>6
    <2> QED
      BY <2>2, <2>7 DEF ColumnsRead
  <1>11. /\ j' = 0 /\ c \in 0 .. Cols
         /\ row' \in 0 .. Len(batch_meta')
         /\ rpos' = file'[row'].at + file'[row'].bytes /\ row' # 0
    BY <1>1, <1>2, <1>3, <1>5, <1>6
  <1>12. Len(columns') \in 0 .. Cols' /\ r' \in Nat
    BY <1>1, <1>3, <1>8, <1>9, <1>11
  <1> HIDE DEF c, k
  <1> QED
    BY <1>1, <1>8, <1>10, <1>11, <1>12 DEF PrintInv

LEMMA PrintFieldPrint == ASSUME ConvertInv, PrintInv, PrintField PROVE PrintInv'
  <1>1. /\ pc = "print" /\ pc' = "print" /\ GroupRead /\ r < Len(columns[1])
        /\ j' = (j + 1) % Cols
        /\ r' = IF j = Cols - 1 THEN r + 1 ELSE r
        /\ UNCHANGED <<job, rpos, row, batch_meta, file, columns>>
    BY DEF PrintField, parseVars, storeVars
  <1>2. Cols \in Nat \ {0} /\ Cols' = Cols /\ j \in 0 .. Cols - 1 /\ r \in Nat
    BY <1>1, Positive DEF ConvertInv, BatchInv, PrintInv, Cols
  <1>3. r' \in Nat /\ (j = Cols - 1 => j' = 0)
    BY <1>1, <1>2
  <1>4. PICK g \in Nat : ColumnsRead(g)
    BY <1>1 DEF PrintInv
  <1>5. ColumnsRead(g)'
    BY <1>1, <1>4 DEF ColumnsRead, Chunk, Cols
  <1> QED
    BY <1>1, <1>2, <1>3, <1>5 DEF PrintInv, GroupRead

LEMMA GroupPrintedPrint == ASSUME ConvertInv, PrintInv, GroupPrinted PROVE PrintInv'
  <1>1. /\ pc = "print" /\ pc' = "print" /\ pc \in Stored
        /\ Len(columns) = Cols /\ r >= Len(columns[1])
        /\ columns' = <<>> /\ r' = 0
        /\ UNCHANGED <<job, rpos, row, batch_meta, file, j>>
    BY DEF GroupPrinted, GroupRead, parseVars, storeVars, Stored
  <1>2. ChunksInv /\ Len(batch_meta) \in Nat /\ Cols \in Nat \ {0} /\ Cols' = Cols
    BY <1>1, StoredFile DEF Cols
  <1>3. PICK g \in Nat : ColumnsRead(g)
    BY <1>1 DEF PrintInv
  <1>4. row = g * Cols + Cols /\ g * Cols \in Nat /\ row \in 0 .. Len(batch_meta)
    BY <1>1, <1>2, <1>3 DEF ColumnsRead, PrintInv
  <1>5. Len(columns[1]) \in Nat
    <2>1. columns[1] = Chunk(g + 1, 1)
      BY <1>1, <1>2, <1>3 DEF ColumnsRead
    <2>2. (g + 1 - 1) * Cols + 1 \in 1 .. Len(batch_meta)
      BY <1>2, <1>4
    <2>3. IsSeq(Chunk(g + 1, 1))
      BY <1>2, <2>2 DEF ChunksInv, Chunk
    <2> QED
      BY <2>1, <2>3, SeqLength
  <1>6. j = 0
    BY <1>1, <1>5 DEF PrintInv
  <1>7. ColumnsRead(g + 1)'
    <2>1. row = (g + 1) * Cols + 0
      BY <1>2, <1>4
    <2> QED
      BY <1>1, <1>2, <2>1 DEF ColumnsRead
  <1>8. IsSeq(columns') /\ Len(columns') = 0 /\ 0 \in 0 .. Cols
    BY <1>1, <1>2, EmptyIsSeq
  <1>9. g + 1 \in Nat
    OBVIOUS
  <1> QED
    BY <1>1, <1>2, <1>6, <1>7, <1>8, <1>9 DEF PrintInv

LEMMA ReadMetaPrint == ASSUME ConvertInv, PrintInv, ReadMeta PROVE PrintInv'
  <1>1. /\ pc = "readMeta" /\ pc' = "print" /\ rpos' = 0 /\ row' = 0
        /\ UNCHANGED <<columns, r, j>> /\ columns = <<>> /\ j = 0 /\ r \in Nat
    BY DEF ReadMeta, printVars, ConvertInv, BatchInv, PrintInv
  <1>2. IsSeq(batch_meta') /\ job'.columns = job.columns
    BY MetaRead
  <1>3. Cols \in Nat /\ Cols' = Cols /\ Len(batch_meta') \in Nat
    BY <1>2, Positive, SeqLength DEF ConvertInv, Cols
  <1>4. IsSeq(columns') /\ Len(columns') = 0
    BY <1>1, EmptyIsSeq
  <1>5. ColumnsRead(0)'
    BY <1>1, <1>3, <1>4 DEF ColumnsRead
  <1> QED
    BY <1>1, <1>3, <1>4, <1>5 DEF PrintInv

LEMMA NextPrint == ASSUME ConvertInv, PrintInv, [Next]_vars PROVE PrintInv'
  <1>1. CASE UNCHANGED vars
    BY <1>1 DEF vars, parseVars, storeVars, printVars, PrintInv, ColumnsRead, Chunk,
                Cols, GroupRead
  <1>2. CASE \/ NextGroup \/ NextRow \/ RejectField \/ EndField \/ TakeChar \/ InputEnds
             \/ RowDone \/ LastRow \/ RejectLastRow \/ NoLastRow
    BY <1>2 DEF NextGroup, NextRow, RejectField, EndField, TakeChar, InputEnds, RowDone,
                LastRow, RejectLastRow, NoLastRow, Throw, printVars, PrintInv
  <1>3. CASE \/ WriteChunk \/ GroupWritten \/ WriteMeta \/ WriteSchema \/ WriteTrailer
             \/ ReadTrailer \/ Printed \/ Again
    BY <1>3 DEF WriteChunk, GroupWritten, WriteMeta, WriteSchema, WriteTrailer,
                ReadTrailer, Printed, Again, printVars, PrintInv
  <1> QED
    BY <1>1, <1>2, <1>3, ReadMetaPrint, ReadChunkPrint, PrintFieldPrint,
       GroupPrintedPrint DEF Next

-----------------------------------------------------------------------------
(* The theorem                                                             *)

\* What n items are in, after h groups of C.
LEMMA GroupOf ==
    ASSUME NEW C \in Nat \ {0}, NEW h \in Nat, NEW n \in 1 .. C
    PROVE  ((h * C + n) - 1) \div C = h
  <1>1. (h * C + n) - 1 = h * C + (n - 1) /\ n - 1 \in 0 .. C - 1 /\ h * C \in Nat
    OBVIOUS
  <1>2. (h * C + (n - 1)) \div C = h
    <2>1. PICK q : q = (h * C + (n - 1)) \div C
      OBVIOUS
    <2>2. q \in Int /\ q * C <= h * C + (n - 1) /\ h * C + (n - 1) < q * C + C
      BY <1>1, <2>1
    <2>3. ~ (q < h)
      <3>1. q < h => (q + 1) * C <= h * C
        BY <2>2, TimesMonotone
      <3>2. (q + 1) * C = q * C + C /\ q * C \in Int
        BY <2>2
      <3> QED
        BY <1>1, <2>2, <3>1, <3>2
    <2>4. ~ (q > h)
      <3>1. q > h => (h + 1) * C <= q * C
        BY <2>2, TimesMonotone
      <3>2. (h + 1) * C = h * C + C /\ q * C \in Int
        BY <2>2
      <3> QED
        BY <1>1, <2>2, <3>1, <3>2
    <2> QED
      BY <2>1, <2>2, <2>3, <2>4
  <1> QED
    BY <1>1, <1>2

LEMMA Found == ASSUME ConvertInv, PrintInv PROVE ChunksFound
  <1> SUFFICES ASSUME pc \in {"stored", "print"}
               PROVE  /\ \A k \in 1 .. Len(batch_meta) :
                             /\ file[k].at = batch_meta[k].offset
                             /\ file[k].bytes = batch_meta[k].size
                             /\ ItemsAt(batch_meta[k].offset) = {k}
                      /\ \A g \in 1 .. Groups, c \in 1 .. Cols :
                             /\ Len(Chunk(g, c)) = Len(Chunk(g, 1))
                             /\ IF g < Groups THEN Len(Chunk(g, c)) = job.batch_size
                                              ELSE Len(Chunk(g, c)) <= job.batch_size
                      /\ pc = "print" =>
                             \A c \in 1 .. Len(columns) :
                                 columns[c] = Chunk((row - 1) \div Cols + 1, c)
    BY DEF ChunksFound
  <1>1. /\ Laid(file) /\ ChunksInv /\ Len(batch_meta) \in Nat /\ Cols \in Nat \ {0}
        /\ Len(file) = 2 * Len(batch_meta) + Cols + 3
    BY StoredFile DEF Stored
  <1>2. PICK G \in Nat : GroupsInv(G)
    BY DEF ConvertInv
  <1>3. ASSUME NEW k \in 1 .. Len(batch_meta)
        PROVE  /\ file[k].at = batch_meta[k].offset
               /\ file[k].bytes = batch_meta[k].size
               /\ ItemsAt(batch_meta[k].offset) = {k}
    <2>1. file[k].at = batch_meta[k].offset /\ file[k].bytes = batch_meta[k].size
      BY <1>1 DEF ChunksInv
    <2>2. k \in 1 .. Len(file)
      BY <1>1
    <2>3. ItemsAt(file[k].at) = {k}
      BY <1>1, <2>2, OneItem
    <2> QED
      BY <2>1, <2>3
  <1>4. Groups = G
    <2>1. Len(batch_meta) = G * Cols
      BY <1>1, <1>2 DEF GroupsInv
    <2> QED
      BY <1>1, <2>1, NoRemainder DEF Groups
  <1>5. ASSUME NEW g \in 1 .. Groups, NEW c \in 1 .. Cols
        PROVE  /\ Len(Chunk(g, c)) = Len(Chunk(g, 1))
               /\ IF g < Groups THEN Len(Chunk(g, c)) = job.batch_size
                                ELSE Len(Chunk(g, c)) <= job.batch_size
    BY <1>2, <1>4 DEF GroupsInv, MustBeFull
  <1>6. ASSUME pc = "print", NEW c \in 1 .. Len(columns)
        PROVE  columns[c] = Chunk((row - 1) \div Cols + 1, c)
    <2>1. PICK h \in Nat : ColumnsRead(h)
      BY <1>6 DEF PrintInv
    <2>2. row = h * Cols + Len(columns) /\ Len(columns) \in 1 .. Cols
      BY <1>1, <1>6, <2>1 DEF ColumnsRead, PrintInv
    <2>3. (row - 1) \div Cols = h
      BY <1>1, <2>2, GroupOf
    <2> QED
      BY <2>1, <2>3 DEF ColumnsRead
  <1> QED
    BY <1>3, <1>5, <1>6

\* For every text, schema and batch size: when a file is stored, and whenever
\* one is being printed, the meta data read back through the trailer finds
\* every chunk, each row group but the last has batch_size rows, and what is
\* printed are the columns of one group (ConvertToColumnar, GetMeta, PrintTable).
THEOREM ChunksAreFound == Spec => []ChunksFound
  <1>1. Init => ConvertInv /\ PrintInv
    <2>1. Init => PrintInv
      BY DEF Init, PrintInv
    <2> QED
      BY <2>1, InitInv
  <1>2. ConvertInv /\ PrintInv /\ [Next]_vars => ConvertInv' /\ PrintInv'
    BY NextConvert, NextPrint
  <1>3. ConvertInv /\ PrintInv => ChunksFound
    BY Found
  <1> QED
    BY <1>1, <1>2, <1>3, PTL DEF Spec

-----------------------------------------------------------------------------
(* Induction and counting                                                  *)

LEMMA SetInduction ==
    ASSUME NEW S, 0 \in S, \A n \in Nat : n \in S => n + 1 \in S
    PROVE  \A n \in Nat : n \in S
  <1> DEFINE R == {ss \in Nat \X Nat : ss[1] < ss[2]}
             T == {k \in Nat : k \notin S}
  <1>1. IsWellFoundedOn(R, Nat)
    BY NatLessThanWellFounded DEF OpToRel
  <1> SUFFICES ASSUME NEW n \in Nat, n \notin S PROVE FALSE
    OBVIOUS
  <1>2. T \in SUBSET Nat /\ T # {}
    OBVIOUS
  <1>3. PICK x \in T : \A y \in T : ~ (<<y, x>> \in R)
    <2> HIDE DEF T
    <2> QED
      BY <1>1, <1>2, WFMin
  <1>4. x - 1 \in Nat /\ x - 1 < x /\ (x - 1) + 1 = x
    OBVIOUS
  <1>5. <<x - 1, x>> \in R
    BY <1>4
  <1>6. x - 1 \in S
    BY <1>3, <1>4, <1>5
  <1> QED
    BY <1>4, <1>6

\* How many of the first n positions are in A.
CountIn(A, n) == Cardinality({k \in 1 .. n : k \in A})

LEMMA CountNext ==
    ASSUME NEW A, NEW n \in Nat
    PROVE  /\ CountIn(A, n) \in Nat
           /\ CountIn(A, n + 1) = CountIn(A, n) + (IF n + 1 \in A THEN 1 ELSE 0)
           /\ CountIn(A, 0) = 0
  <1> DEFINE I(x) == {k \in 1 .. x : k \in A}
  <1>1. IsFiniteSet(I(n))
    <2>1. IsFiniteSet(1 .. n)
      BY FS_Interval
    <2> QED
      BY <2>1, FS_Subset
  <1>2. /\ CountIn(A, n) = Cardinality(I(n)) /\ CountIn(A, n + 1) = Cardinality(I(n + 1))
        /\ CountIn(A, 0) = Cardinality(I(0))
    BY DEF CountIn
  <1>3. n + 1 \in A => I(n + 1) = I(n) \cup {n + 1} /\ n + 1 \notin I(n)
    OBVIOUS
  <1>4. n + 1 \notin A => I(n + 1) = I(n)
    OBVIOUS
  <1>5. I(0) = {}
    OBVIOUS
  <1> HIDE DEF I
  <1>6. Cardinality(I(n)) \in Nat
    BY <1>1, FS_CardinalityType
  <1>7. n + 1 \in A => Cardinality(I(n + 1)) = Cardinality(I(n)) + 1
    BY <1>1, <1>3, FS_AddElement
  <1>8. Cardinality(I(0)) = 0
    BY <1>5, FS_EmptySet
  <1> QED
    BY <1>2, <1>4, <1>6, <1>7, <1>8

LEMMA CountMonotone ==
    ASSUME NEW A, NEW n \in Nat, NEW m \in 0 .. n
    PROVE  CountIn(A, m) <= CountIn(A, n)
  <1> DEFINE I(x) == {k \in 1 .. x : k \in A}
  <1>1. IsFiniteSet(1 .. n)
    BY FS_Interval
  <1>2. IsFiniteSet(I(n))
    BY <1>1, FS_Subset
  <1>3. I(m) \subseteq I(n)
    OBVIOUS
  <1> HIDE DEF I
  <1>4. Cardinality(I(m)) <= Cardinality(I(n))
    BY <1>2, <1>3, FS_Subset
  <1> QED
    BY <1>4 DEF CountIn, I

\* The count takes every value on its way.
LEMMA CountReaches ==
    ASSUME NEW A
    PROVE  \A n \in Nat : \A m \in 1 .. CountIn(A, n) :
               \E k \in 1 .. n : k \in A /\ CountIn(A, k) = m
  <1> DEFINE Good == {n \in Nat : \A m \in 1 .. CountIn(A, n) :
                          \E k \in 1 .. n : k \in A /\ CountIn(A, k) = m}
  <1>1. 0 \in Good
    <2>1. CountIn(A, 0) = 0
      BY CountNext
    <2> QED
      BY <2>1
  <1>2. ASSUME NEW n \in Nat, n \in Good PROVE n + 1 \in Good
    <2>1. /\ CountIn(A, n) \in Nat
          /\ CountIn(A, n + 1) = CountIn(A, n) + (IF n + 1 \in A THEN 1 ELSE 0)
      BY CountNext
    <2>2. ASSUME NEW m \in 1 .. CountIn(A, n + 1)
          PROVE  \E k \in 1 .. n + 1 : k \in A /\ CountIn(A, k) = m
      <3>1. CASE m \in 1 .. CountIn(A, n)
        <4>1. PICK k \in 1 .. n : k \in A /\ CountIn(A, k) = m
          BY <1>2, <3>1
        <4>2. k \in 1 .. n + 1
          OBVIOUS
        <4> QED
          BY <4>1, <4>2
      <3>2. CASE ~ (m \in 1 .. CountIn(A, n))
        <4>1. n + 1 \in A /\ m = CountIn(A, n + 1)
          BY <2>1, <3>2
        <4>2. n + 1 \in 1 .. n + 1
          OBVIOUS
        <4> QED
          BY <4>1, <4>2
      <3> QED
        BY <3>1, <3>2
    <2> QED
      BY <2>2
  <1> HIDE DEF Good
  <1>3. \A n \in Nat : n \in Good
    BY <1>1, <1>2, SetInduction
  <1> QED
    BY <1>3 DEF Good

\* Members of A are counted one after the other.
LEMMA CountBefore ==
    ASSUME NEW A, NEW n \in Nat, n + 1 \in A, NEW m \in 0 .. n
    PROVE  CountIn(A, m) < CountIn(A, n + 1)
  <1>1. /\ CountIn(A, n + 1) = CountIn(A, n) + 1
        /\ CountIn(A, n) \in Nat /\ CountIn(A, m) \in Nat
    BY CountNext
  <1>2. CountIn(A, m) <= CountIn(A, n)
    BY CountMonotone
  <1> QED
    BY <1>1, <1>2

LEMMA CountUnique ==
    ASSUME NEW A, NEW m \in Nat \ {0}, NEW n \in Nat \ {0}, m \in A, n \in A,
           CountIn(A, m) = CountIn(A, n)
    PROVE  m = n
  <1>1. m - 1 \in Nat /\ (m - 1) + 1 = m /\ n - 1 \in Nat /\ (n - 1) + 1 = n
        /\ CountIn(A, m) \in Nat
    BY CountNext
  <1>2. ~ (m < n)
    <2> SUFFICES ASSUME m < n PROVE FALSE
      OBVIOUS
    <2>1. m \in 0 .. n - 1 /\ (n - 1) + 1 \in A
      BY <1>1
    <2>2. CountIn(A, m) < CountIn(A, (n - 1) + 1)
      BY <1>1, <2>1, CountBefore
    <2> QED
      BY <1>1, <2>2
  <1>3. ~ (n < m)
    <2> SUFFICES ASSUME n < m PROVE FALSE
      OBVIOUS
    <2>1. n \in 0 .. m - 1 /\ (m - 1) + 1 \in A
      BY <1>1
    <2>2. CountIn(A, n) < CountIn(A, (m - 1) + 1)
      BY <1>1, <2>1, CountBefore
    <2> QED
      BY <1>1, <2>2
  <1> QED
    BY <1>2, <1>3

\* Only the members counted matter.
LEMMA CountSame ==
    ASSUME NEW A, NEW B, NEW n \in Nat, \A k \in 1 .. n : k \in A <=> k \in B
    PROVE  CountIn(A, n) = CountIn(B, n)
  <1>1. {k \in 1 .. n : k \in A} = {k \in 1 .. n : k \in B}
    OBVIOUS
  <1> QED
    BY <1>1 DEF CountIn

-----------------------------------------------------------------------------
(* The separators of a text                                                *)

QuotesOf(t) == {k \in Nat : t[k] = Quote}
SeparatorsOf(t) == {k \in Nat : Separates(t, k)}

LEMMA AsCounts ==
    ASSUME NEW t, NEW n \in Nat
    PROVE  /\ SeparatorsIn(t, n) = CountIn(SeparatorsOf(t), n)
           /\ Quoted(t, n + 1) <=> CountIn(QuotesOf(t), n) % 2 = 1
  <1>1. {k \in 1 .. n : Separates(t, k)} = {k \in 1 .. n : k \in SeparatorsOf(t)}
    BY DEF SeparatorsOf
  <1>2. {k \in 1 .. n : t[k] = Quote} = {k \in 1 .. n : k \in QuotesOf(t)}
    BY DEF QuotesOf
  <1>3. (n + 1) - 1 = n
    OBVIOUS
  <1> QED
    BY <1>1, <1>2, <1>3 DEF SeparatorsIn, Quoted, CountIn

\* One character more.
LEMMA QuotedNext ==
    ASSUME NEW t, NEW n \in Nat
    PROVE  /\ ~ Quoted(t, 1)
           /\ Quoted(t, n + 2) <=> IF t[n + 1] = Quote THEN ~ Quoted(t, n + 1)
                                                     ELSE Quoted(t, n + 1)
  <1>1. /\ CountIn(QuotesOf(t), n) \in Nat /\ CountIn(QuotesOf(t), 0) = 0
        /\ CountIn(QuotesOf(t), n + 1)
               = CountIn(QuotesOf(t), n) + (IF n + 1 \in QuotesOf(t) THEN 1 ELSE 0)
    BY CountNext
  <1>2. n + 1 \in QuotesOf(t) <=> t[n + 1] = Quote
    BY DEF QuotesOf
  <1>3. /\ Quoted(t, n + 1) <=> CountIn(QuotesOf(t), n) % 2 = 1
        /\ Quoted(t, n + 2) <=> CountIn(QuotesOf(t), n + 1) % 2 = 1
        /\ Quoted(t, 1) <=> CountIn(QuotesOf(t), 0) % 2 = 1
    <2>1. n + 1 \in Nat /\ (n + 1) + 1 = n + 2 /\ 0 + 1 = 1
      OBVIOUS
    <2> QED
      BY <2>1, AsCounts
  <1>4. \A x \in Nat : (x + 1) % 2 = 1 <=> ~ (x % 2 = 1)
    OBVIOUS
  <1> QED
    BY <1>1, <1>2, <1>3, <1>4

LEMMA SeparatorsNext ==
    ASSUME NEW t, NEW n \in Nat
    PROVE  /\ SeparatorsIn(t, n) \in Nat /\ SeparatorsIn(t, 0) = 0
           /\ SeparatorsIn(t, n + 1)
                  = SeparatorsIn(t, n) + (IF Separates(t, n + 1) THEN 1 ELSE 0)
  <1>1. n + 1 \in SeparatorsOf(t) <=> Separates(t, n + 1)
    BY DEF SeparatorsOf
  <1>2. /\ SeparatorsIn(t, n) = CountIn(SeparatorsOf(t), n)
        /\ SeparatorsIn(t, n + 1) = CountIn(SeparatorsOf(t), n + 1)
        /\ SeparatorsIn(t, 0) = CountIn(SeparatorsOf(t), 0)
    BY AsCounts
  <1> QED
    BY <1>1, <1>2, CountNext

LEMMA SeparatorsGrow ==
    ASSUME NEW t, NEW n \in Nat, NEW m \in 0 .. n
    PROVE  SeparatorsIn(t, m) <= SeparatorsIn(t, n)
  BY AsCounts, CountMonotone

\* The m-th separator.
LEMMA SeparatorIs ==
    ASSUME NEW t, Len(t) \in Nat, NEW k \in 1 .. Len(t), Separates(t, k)
    PROVE  Separator(t, SeparatorsIn(t, k)) = k /\ SeparatorsIn(t, k) \in 1 .. SeparatorsIn(t, Len(t))
  <1> DEFINE m == SeparatorsIn(t, k)
             x == CHOOSE i \in 1 .. Len(t) : Separates(t, i) /\ SeparatorsIn(t, i) = m
  <1>1. m \in Nat \ {0} /\ m <= SeparatorsIn(t, Len(t)) /\ SeparatorsIn(t, Len(t)) \in Nat
    <2>1. k - 1 \in Nat /\ (k - 1) + 1 = k
      OBVIOUS
    <2>2. SeparatorsIn(t, k - 1) \in Nat /\ SeparatorsIn(t, k) = SeparatorsIn(t, k - 1) + 1
      BY <2>1, SeparatorsNext
    <2>3. k \in 0 .. Len(t) /\ SeparatorsIn(t, Len(t)) \in Nat
      BY SeparatorsNext
    <2>4. SeparatorsIn(t, k) <= SeparatorsIn(t, Len(t))
      BY <2>3, SeparatorsGrow
    <2> QED
      BY <2>2, <2>3, <2>4
  <1>2. x \in 1 .. Len(t) /\ Separates(t, x) /\ SeparatorsIn(t, x) = m
    OBVIOUS
  <1>3. Separator(t, m) = x
    BY <1>1 DEF Separator
  <1> HIDE DEF x, m
  <1>4. x = k
    <2>1. x \in SeparatorsOf(t) /\ k \in SeparatorsOf(t) /\ x \in Nat \ {0} /\ k \in Nat \ {0}
      BY <1>2 DEF SeparatorsOf
    <2>2. CountIn(SeparatorsOf(t), x) = CountIn(SeparatorsOf(t), k)
      BY <1>2, <2>1, AsCounts DEF m
    <2> QED
      BY <2>1, <2>2, CountUnique
  <1> QED
    BY <1>1, <1>3, <1>4 DEF m

LEMMA SeparatorAt ==
    ASSUME NEW t, Len(t) \in Nat, NEW n \in 0 .. Len(t), NEW m \in 1 .. SeparatorsIn(t, n)
    PROVE  /\ Separator(t, m) \in 1 .. n
           /\ Separates(t, Separator(t, m)) /\ SeparatorsIn(t, Separator(t, m)) = m
  <1>1. m \in 1 .. CountIn(SeparatorsOf(t), n)
    BY AsCounts
  <1>2. PICK k \in 1 .. n : k \in SeparatorsOf(t) /\ CountIn(SeparatorsOf(t), k) = m
    BY <1>1, CountReaches
  <1>3. Separates(t, k) /\ SeparatorsIn(t, k) = m /\ k \in 1 .. Len(t)
    BY <1>2, AsCounts DEF SeparatorsOf
  <1> QED
    BY <1>3, SeparatorIs

-----------------------------------------------------------------------------
(* A string without its quotation marks                                    *)

\* What is kept of the first n characters follows from that of one less.
KeptOf(s, n, before) == IF s[n] = Quote THEN before ELSE Append(before, s[n])

KeptTo(s, n, e) == e = [k \in 0 .. n |-> IF k = 0 THEN <<>> ELSE KeptOf(s, k, e[k - 1])]

LEMMA KeptExists ==
    ASSUME NEW s
    PROVE  \A n \in Nat : \E e : KeptTo(s, n, e)
  <1> DEFINE Good == {n \in Nat : \E e : KeptTo(s, n, e)}
  <1>1. 0 \in Good
    <2>1. KeptTo(s, 0, [k \in 0 .. 0 |-> <<>>])
      BY DEF KeptTo
    <2> QED
      BY <2>1
  <1>2. ASSUME NEW n \in Good PROVE n + 1 \in Good
    <2>1. PICK e : KeptTo(s, n, e)
      OBVIOUS
    <2> DEFINE g == [k \in 0 .. n + 1 |-> IF k = n + 1 THEN KeptOf(s, k, e[n]) ELSE e[k]]
    <2>2. KeptTo(s, n + 1, g)
      <3>1. ASSUME NEW k \in 0 .. n + 1
            PROVE  g[k] = IF k = 0 THEN <<>> ELSE KeptOf(s, k, g[k - 1])
        <4>1. n \in Nat
          OBVIOUS
        <4>2. CASE k = 0
          BY <2>1, <4>1, <4>2 DEF KeptTo
        <4>3. CASE k \in 1 .. n
          <5>1. g[k] = e[k] /\ g[k - 1] = e[k - 1]
            BY <4>1, <4>3
          <5>2. e[k] = KeptOf(s, k, e[k - 1])
            <6>1. k \in 0 .. n /\ k # 0
              BY <4>1, <4>3
            <6> QED
              BY <2>1, <6>1 DEF KeptTo
          <5> QED
            BY <4>1, <4>3, <5>1, <5>2
        <4>4. CASE k = n + 1
          <5>1. g[k] = KeptOf(s, k, e[n]) /\ g[k - 1] = e[n]
            BY <4>1, <4>4
          <5> QED
            BY <4>1, <4>4, <5>1
        <4> QED
          BY <4>1, <4>2, <4>3, <4>4
      <3> HIDE DEF g
      <3>2. g = [k \in 0 .. n + 1 |-> g[k]]
        BY DEF g
      <3> QED
        BY <3>1, <3>2 DEF KeptTo
    <2> HIDE DEF g
    <2>3. n + 1 \in Nat /\ \E h : KeptTo(s, n + 1, h)
      BY <2>2
    <2> QED
      BY <2>3
  <1> HIDE DEF Good
  <1>3. \A n \in Nat : n \in Good
    BY <1>1, <1>2, SetInduction
  <1> QED
    BY <1>3 DEF Good

LEMMA KeptEach ==
    ASSUME NEW s, NEW n \in Nat, NEW e, KeptTo(s, n, e)
    PROVE  e[0] = <<>> /\ \A k \in 1 .. n : e[k] = KeptOf(s, k, e[k - 1])
  <1>1. e[0] = <<>>
    <2>1. 0 \in 0 .. n
      OBVIOUS
    <2> QED
      BY <2>1 DEF KeptTo
  <1>2. ASSUME NEW k \in 1 .. n PROVE e[k] = KeptOf(s, k, e[k - 1])
    <2>1. k \in 0 .. n /\ k # 0
      OBVIOUS
    <2> QED
      BY <2>1 DEF KeptTo
  <1> QED
    BY <1>1, <1>2

\* What is kept does not depend on the characters behind.
LEMMA KeptSame ==
    ASSUME NEW s, NEW n \in Nat, NEW e, KeptTo(s, n, e),
           NEW t, NEW m \in 0 .. n, NEW f, KeptTo(t, m, f), \A k \in 1 .. m : s[k] = t[k]
    PROVE  \A k \in 0 .. m : e[k] = f[k]
  <1> DEFINE Good == {k \in Nat : k <= m => e[k] = f[k]}
  <1>0. /\ e[0] = <<>> /\ \A k \in 1 .. n : e[k] = KeptOf(s, k, e[k - 1])
        /\ f[0] = <<>> /\ \A k \in 1 .. m : f[k] = KeptOf(t, k, f[k - 1])
    <2>1. e[0] = <<>> /\ \A k \in 1 .. n : e[k] = KeptOf(s, k, e[k - 1])
      BY KeptEach
    <2>2. m \in Nat
      OBVIOUS
    <2>3. f[0] = <<>> /\ \A k \in 1 .. m : f[k] = KeptOf(t, k, f[k - 1])
      BY <2>2, KeptEach
    <2> QED
      BY <2>1, <2>3
  <1>1. 0 \in Good
    BY <1>0
  <1>2. ASSUME NEW k \in Nat, k \in Good PROVE k + 1 \in Good
    <2> SUFFICES ASSUME k + 1 <= m PROVE e[k + 1] = f[k + 1]
      OBVIOUS
    <2>1. k + 1 \in 1 .. m /\ k + 1 \in 1 .. n /\ (k + 1) - 1 = k /\ k <= m
      OBVIOUS
    <2>2. e[k + 1] = KeptOf(s, k + 1, e[k]) /\ f[k + 1] = KeptOf(t, k + 1, f[k])
      BY <1>0, <2>1
    <2>3. s[k + 1] = t[k + 1] /\ e[k] = f[k]
      BY <1>2, <2>1
    <2> QED
      BY <2>2, <2>3 DEF KeptOf
  <1> HIDE DEF Good
  <1>3. \A k \in Nat : k \in Good
    BY <1>1, <1>2, SetInduction
  <1> QED
    BY <1>3 DEF Good

\* Unquoted is the last of what is kept.
LEMMA UnquotedKept ==
    ASSUME NEW s, Len(s) \in Nat
    PROVE  \E e : KeptTo(s, Len(s), e) /\ Unquoted(s) = e[Len(s)]
  <1> DEFINE f == CHOOSE e : KeptTo(s, Len(s), e)
  <1>1. \E e : KeptTo(s, Len(s), e)
    BY KeptExists
  <1>2. KeptTo(s, Len(s), f)
    BY <1>1
  <1>3. Unquoted(s) = f[Len(s)]
    BY Zenon DEF Unquoted, KeptOf, KeptTo
  <1> QED
    BY <1>2, <1>3

LEMMA UnquotedEmpty == Unquoted(<<>>) = <<>>
  <1>1. Len(<<>>) = 0 /\ 0 \in Nat
    OBVIOUS
  <1>2. PICK e : KeptTo(<<>>, 0, e) /\ Unquoted(<<>>) = e[0]
    BY <1>1, UnquotedKept
  <1> QED
    BY <1>2, KeptEach

LEMMA UnquotedAppend ==
    ASSUME NEW s, IsSeq(s), NEW x
    PROVE  Unquoted(Append(s, x)) = IF x = Quote THEN Unquoted(s) ELSE Append(Unquoted(s), x)
  <1> DEFINE t == Append(s, x)
  <1>1. PICK n \in Nat : n = Len(s)
    BY SeqLength
  <1>2. Len(t) = n + 1 /\ (\A k \in 1 .. n : t[k] = s[k]) /\ t[n + 1] = x
    BY <1>1, SeqAppend
  <1> HIDE DEF t
  <1>3. PICK f : KeptTo(s, n, f) /\ Unquoted(s) = f[n]
    BY <1>1, UnquotedKept
  <1>4. PICK e : KeptTo(t, n + 1, e) /\ Unquoted(t) = e[n + 1]
    BY <1>1, <1>2, UnquotedKept
  <1>5. e[n] = f[n]
    <2>1. n \in 0 .. n /\ n \in 0 .. n + 1 /\ n + 1 \in Nat
      OBVIOUS
    <2>2. \A k \in 0 .. n : e[k] = f[k]
      BY <1>2, <1>3, <1>4, <2>1, KeptSame
    <2> QED
      BY <2>1, <2>2
  <1>6. e[n + 1] = KeptOf(t, n + 1, e[n])
    <2>1. n + 1 \in 1 .. n + 1 /\ (n + 1) - 1 = n /\ n + 1 \in Nat
      OBVIOUS
    <2>2. \A k \in 1 .. n + 1 : e[k] = KeptOf(t, k, e[k - 1])
      BY <1>4, <2>1, KeptEach
    <2>3. e[n + 1] = KeptOf(t, n + 1, e[(n + 1) - 1])
      BY <2>1, <2>2
    <2> QED
      BY <2>1, <2>3
  <1> QED
    BY <1>2, <1>3, <1>4, <1>5, <1>6 DEF KeptOf, t

-----------------------------------------------------------------------------
(* The fields of a text                                                    *)

\* The field that is being read behind p characters, so far.
Pending(t, p) == Unquoted(SubSeq(t, Separator(t, SeparatorsIn(t, p)) + 1, p))

\* The last separator read is one of the characters read.
LEMMA LastSeparator ==
    ASSUME NEW t, Len(t) \in Nat, NEW p \in 0 .. Len(t)
    PROVE  /\ SeparatorsIn(t, p) \in Nat
           /\ Separator(t, SeparatorsIn(t, p)) \in 0 .. p
  <1>1. p \in Nat /\ SeparatorsIn(t, p) \in Nat
    BY SeparatorsNext
  <1>2. CASE SeparatorsIn(t, p) = 0
    BY <1>1, <1>2 DEF Separator
  <1>3. CASE SeparatorsIn(t, p) # 0
    <2>1. SeparatorsIn(t, p) \in 1 .. SeparatorsIn(t, p)
      BY <1>1, <1>3
    <2>2. Separator(t, SeparatorsIn(t, p)) \in 1 .. p
      BY <2>1, SeparatorAt
    <2> QED
      BY <1>1, <2>2
  <1> QED
    BY <1>2, <1>3

LEMMA SubSeqNext ==
    ASSUME NEW t, IsSeq(t), NEW a \in Nat \ {0}, NEW b \in Nat, a <= b + 1, b + 1 <= Len(t)
    PROVE  /\ SubSeq(t, a, b + 1) = Append(SubSeq(t, a, b), t[b + 1])
           /\ IsSeq(SubSeq(t, a, b))
  <1>1. PICK S : t \in Seq(S)
    BY DEF IsSeq
  <1>2. Len(t) \in Nat /\ b + 1 \in 1 .. Len(t)
    BY <1>1
  <1> DEFINE v == SubSeq(t, a, b)
             w == SubSeq(t, a, b + 1)
  <1>3. /\ v \in Seq(S) /\ Len(v) = b + 1 - a
        /\ \A k \in 1 .. b + 1 - a : v[k] = t[a + k - 1]
    BY <1>1, <1>2
  <1>4. /\ w \in Seq(S) /\ Len(w) = b + 2 - a
        /\ \A k \in 1 .. b + 2 - a : w[k] = t[a + k - 1]
    BY <1>1, <1>2
  <1>5. t[b + 1] \in S
    BY <1>1, <1>2, ElementOfSeq
  <1> HIDE DEF v, w
  <1>6. Append(v, t[b + 1]) \in Seq(S) /\ Len(Append(v, t[b + 1])) = Len(w)
    BY <1>3, <1>4, <1>5
  <1>7. ASSUME NEW k \in 1 .. Len(w) PROVE Append(v, t[b + 1])[k] = w[k]
    <2>1. CASE k \in 1 .. Len(v)
      <3>1. Append(v, t[b + 1])[k] = v[k]
        BY <1>3, <1>5, <2>1
      <3> QED
        BY <1>3, <1>4, <2>1, <3>1
    <2>2. CASE k = Len(v) + 1
      <3>1. Append(v, t[b + 1])[k] = t[b + 1]
        BY <1>3, <1>5, <2>2
      <3>2. k = b + 2 - a /\ a + k - 1 = b + 1 /\ k \in 1 .. b + 2 - a
        BY <1>3, <2>2
      <3> QED
        BY <1>4, <3>1, <3>2
    <2> QED
      BY <1>3, <1>4, <2>1, <2>2
  <1>8. Append(v, t[b + 1]) = w
    BY <1>4, <1>6, <1>7, SeqEqual
  <1> QED
    BY <1>3, <1>8 DEF v, w, IsSeq

LEMMA PendingStart ==
    ASSUME NEW t, IsSeq(t)
    PROVE  Pending(t, 0) = <<>>
  <1>1. SeparatorsIn(t, 0) = 0
    BY SeparatorsNext
  <1>2. Separator(t, 0) = 0
    BY DEF Separator
  <1>3. SubSeq(t, 0 + 1, 0) = <<>>
    <2>1. PICK S : t \in Seq(S)
      BY DEF IsSeq
    <2> QED
      BY <2>1
  <1> QED
    BY <1>1, <1>2, <1>3, UnquotedEmpty DEF Pending

LEMMA PendingNext ==
    ASSUME NEW t, IsSeq(t), NEW p \in Nat, p < Len(t), ~ Separates(t, p + 1)
    PROVE  /\ SeparatorsIn(t, p + 1) = SeparatorsIn(t, p)
           /\ Pending(t, p + 1) = IF t[p + 1] = Quote THEN Pending(t, p)
                                  ELSE Append(Pending(t, p), t[p + 1])
  <1> DEFINE n == SeparatorsIn(t, p)
             a == Separator(t, n) + 1
  <1>1. Len(t) \in Nat /\ p \in 0 .. Len(t)
    BY SeqLength
  <1>2. SeparatorsIn(t, p + 1) = n
    BY SeparatorsNext
  <1>3. a \in Nat \ {0} /\ a <= p + 1
    BY <1>1, LastSeparator
  <1>4. /\ Pending(t, p) = Unquoted(SubSeq(t, a, p))
        /\ Pending(t, p + 1) = Unquoted(SubSeq(t, a, p + 1))
    BY <1>2 DEF Pending
  <1> HIDE DEF a, n
  <1>5. SubSeq(t, a, p + 1) = Append(SubSeq(t, a, p), t[p + 1]) /\ IsSeq(SubSeq(t, a, p))
    <2>1. p + 1 <= Len(t)
      BY <1>1
    <2> QED
      BY <1>3, <2>1, SubSeqNext
  <1> QED
    BY <1>2, <1>4, <1>5, UnquotedAppend DEF n

\* A separator ends the field that is being read.
LEMMA FieldEnds ==
    ASSUME NEW t, IsSeq(t), NEW p \in Nat, p < Len(t), Separates(t, p + 1)
    PROVE  /\ SeparatorsIn(t, p + 1) = SeparatorsIn(t, p) + 1
           /\ Separator(t, SeparatorsIn(t, p) + 1) = p + 1
           /\ FieldText(t, SeparatorsIn(t, p) + 1) = Pending(t, p)
           /\ Pending(t, p + 1) = <<>>
  <1>0. PICK n : n = SeparatorsIn(t, p)
    OBVIOUS
  <1>1. Len(t) \in Nat /\ p \in 0 .. Len(t) /\ p + 1 \in 1 .. Len(t)
    BY SeqLength
  <1>2. SeparatorsIn(t, p + 1) = n + 1 /\ n \in Nat
    BY <1>0, SeparatorsNext
  <1>3. Separator(t, n + 1) = p + 1
    BY <1>1, <1>2, SeparatorIs
  <1>4. (n + 1) - 1 = n /\ (p + 1) - 1 = p
    BY <1>2
  <1>5. FieldText(t, n + 1) = Pending(t, p)
    BY <1>0, <1>3, <1>4 DEF FieldText, Pending
  <1>6. SubSeq(t, (p + 1) + 1, p + 1) = <<>>
    <2>1. PICK S : t \in Seq(S)
      BY DEF IsSeq
    <2> QED
      BY <2>1
  <1>7. Pending(t, p + 1) = <<>>
    BY <1>2, <1>3, <1>6, UnquotedEmpty DEF Pending
  <1> QED
    BY <1>0, <1>2, <1>3, <1>5, <1>7

\* So does the end of the text.
LEMMA TextEnds ==
    ASSUME NEW t, IsSeq(t)
    PROVE  FieldText(t, SeparatorsIn(t, Len(t)) + 1) = Pending(t, Len(t))
  <1>1. Len(t) \in Nat
    BY SeqLength
  <1>2. PICK n \in Nat : n = SeparatorsIn(t, Len(t))
    BY <1>1, SeparatorsNext
  <1>3. Separator(t, n + 1) = Len(t) + 1
    BY <1>2 DEF Separator
  <1>4. (n + 1) - 1 = n /\ (Len(t) + 1) - 1 = Len(t)
    BY <1>1, <1>2
  <1> QED
    BY <1>2, <1>3, <1>4 DEF FieldText, Pending

-----------------------------------------------------------------------------
(* The table the text describes                                            *)

\* What column c of row x is called as a field.
FieldOf(x, c) == (x - 1) * Cols + c

\* The row that is value k of row group g.
RowOf(g, k) == (g - 1) * job.batch_size + k

\* v is what the text says of column c of row x.
Right(v, x, c) ==
    /\ ~ Invalid(job.columns[c], FieldText(text, FieldOf(x, c)))
    /\ v = ConvertType(job.columns[c], FieldText(text, FieldOf(x, c)))

\* The values stored and those of the group being formed are the text's.
ValuesInv(G) ==
    /\ \A g \in 1 .. G + 1, c \in 1 .. Cols : (g - 1) * Cols + c <= Len(batch_meta) =>
           \A k \in 1 .. Len(Chunk(g, c)) : Right(Chunk(g, c)[k], RowOf(g, k), c)
    /\ \A c \in 1 .. Cols : \A k \in 1 .. Len(batch[c]) :
           Right(batch[c][k], RowOf(G + 1, k), c)

\* The first n separators stand where lines end, and between their columns.
LinesInv(n) == \A m \in 1 .. n : (text[Separator(text, m)] = Newline) <=> (m % Cols = 0)

\* n fields are read, and the reader is
AtField(n) ==
    /\ rpos \in 0 .. Len(text)
    /\ n = SeparatorsIn(text, rpos)
    /\ LinesInv(n)

AtLine(n) == AtField(n) /\ ~ Quoted(text, rpos + 1) /\ Pending(text, rpos) = <<>>

InLine(n) ==
    /\ AtField(n)
    /\ lock \in BOOLEAN /\ (lock <=> Quoted(text, rpos + 1))
    /\ current_str = Pending(text, rpos)

Complete(n) == n = FieldCount(text) /\ LinesInv(SeparatorsIn(text, Len(text)))

\* The rows of the groups that are complete, and of the one being written.
StoredRows(G) == IF G = 0 THEN 0 ELSE (G - 1) * job.batch_size + Len(Chunk(G, Cols))
GroupLen(G) == IF j < Cols THEN Len(batch[Cols]) ELSE Len(file[G * Cols + Cols].v)

FieldsInv(G, n) ==
    /\ pc = "group" => n = StoredRows(G) * Cols /\ IF Eof THEN Complete(n) ELSE AtLine(n)
    /\ pc = "row" => ~ Eof /\ AtLine(n) /\ n = (G * job.batch_size + row) * Cols
    /\ pc = "chars" => InLine(n) /\ n = (G * job.batch_size + row) * Cols + status
    /\ pc = "rowEnd" =>
           \/ /\ AtLine(n) /\ status = 0 /\ current_str = <<>>
              /\ n = (G * job.batch_size + (row + 1)) * Cols
              /\ \A c \in 1 .. Cols : Len(batch[c]) = row + 1
           \/ /\ Eof /\ InLine(n) /\ n = (G * job.batch_size + row) * Cols + status
              /\ \A c \in 1 .. Cols : Len(batch[c]) = Partly(c)
    /\ pc = "write" =>
           /\ n = (G * job.batch_size + GroupLen(G)) * Cols
           /\ IF Eof THEN Complete(n) ELSE AtLine(n) /\ GroupLen(G) = job.batch_size
    /\ pc \in {"meta", "schema", "trailer"} \cup Stored =>
           n = StoredRows(G) * Cols /\ Complete(n)

ParsedInv(G, n) ==
    /\ Len(batch_meta) = G * Cols + (IF pc = "write" THEN j ELSE 0)
    /\ ValuesInv(G)
    /\ FieldsInv(G, n)

TextInv ==
    /\ IsSeq(text)
    /\ pc = "error" => ~ Accepts(text)
    /\ pc # "error" => \E G \in Nat, n \in Nat : ParsedInv(G, n)

LEMMA Remainder ==
    ASSUME NEW C \in Nat \ {0}, NEW h \in Nat, NEW n \in 0 .. C - 1
    PROVE  (h * C + n) % C = n
  <1>1. h * C \in Nat
    OBVIOUS
  <1>2. PICK a \in Nat : a = h * C + n
    BY <1>1
  <1>3. a \div C = h
    <2>1. n + 1 \in 1 .. C /\ (h * C + (n + 1)) - 1 = h * C + n
      BY <1>1
    <2>2. ((h * C + (n + 1)) - 1) \div C = h
      BY <2>1, GroupOf
    <2> QED
      BY <1>2, <2>1, <2>2
  <1>4. a = ((a \div C) * C) + (a % C)
    BY <1>2
  <1>5. a % C \in Int /\ a % C = a - h * C
    BY <1>1, <1>2, <1>3, <1>4
  <1> QED
    BY <1>1, <1>2, <1>5

\* The column of a field.
LEMMA FieldColumn ==
    ASSUME JobInv, NEW x \in Nat \ {0}, NEW c \in 1 .. Cols
    PROVE  /\ TypeOf(FieldOf(x, c)) = job.columns[c]
           /\ FieldOf(x, c) \in Nat \ {0}
           /\ FieldOf(x, c) % Cols = 0 <=> c = Cols
  <1>1. Cols \in Nat \ {0} /\ x - 1 \in Nat /\ c - 1 \in 0 .. Cols - 1
    BY Positive
  <1>2. (x - 1) * Cols \in Nat
    BY <1>1
  <1>3. FieldOf(x, c) \in Nat \ {0} /\ FieldOf(x, c) - 1 = (x - 1) * Cols + (c - 1)
    BY <1>1, <1>2 DEF FieldOf
  <1>4. ((x - 1) * Cols + (c - 1)) % Cols = c - 1
    BY <1>1, Remainder
  <1>5. TypeOf(FieldOf(x, c)) = job.columns[c]
    BY <1>1, <1>3, <1>4 DEF TypeOf
  <1>6. CASE c = Cols
    <2>1. FieldOf(x, c) = x * Cols + 0 /\ 0 \in 0 .. Cols - 1 /\ x \in Nat
      BY <1>1, <1>2, <1>6 DEF FieldOf
    <2>2. (x * Cols + 0) % Cols = 0
      BY <1>1, <2>1, Remainder
    <2> QED
      BY <1>3, <1>5, <1>6, <2>1, <2>2
  <1>7. CASE c # Cols
    <2>1. c \in 0 .. Cols - 1
      BY <1>1, <1>7
    <2>2. ((x - 1) * Cols + c) % Cols = c
      BY <1>1, <2>1, Remainder
    <2> QED
      BY <1>3, <1>5, <1>7, <2>1, <2>2 DEF FieldOf
  <1> QED
    BY <1>6, <1>7

-----------------------------------------------------------------------------
(* What the steps leave alone                                              *)

SameJob == job'.text = job.text /\ job'.columns = job.columns /\ job'.batch_size = job.batch_size

LEMMA TextSame ==
    ASSUME SameJob
    PROVE  /\ text' = text /\ Cols' = Cols
           /\ \A n : LinesInv(n)' <=> LinesInv(n)
           /\ \A n : Complete(n)' <=> Complete(n)
           /\ Accepts(text)' <=> Accepts(text)
           /\ \A g, k : RowOf(g, k)' = RowOf(g, k)
           /\ \A v, x, c : Right(v, x, c)' <=> Right(v, x, c)
  <1>1. text' = text /\ Cols' = Cols
    BY DEF SameJob, text, Cols
  <1>2. \A n : LinesInv(n)' <=> LinesInv(n)
    BY <1>1 DEF LinesInv
  <1>3. FieldCount(text)' = FieldCount(text)
    BY <1>1 DEF FieldCount
  <1>4. \A n : Complete(n)' <=> Complete(n)
    BY <1>1, <1>2, <1>3 DEF Complete
  <1>5. \A m : TypeOf(m)' = TypeOf(m)
    BY <1>1 DEF TypeOf, SameJob
  <1>6. Accepts(text)' <=> Accepts(text)
    BY <1>1, <1>3, <1>5 DEF Accepts
  <1>7. \A g, k : RowOf(g, k)' = RowOf(g, k)
    BY DEF RowOf, SameJob
  <1>8. \A v, x, c : Right(v, x, c)' <=> Right(v, x, c)
    BY <1>1 DEF Right, FieldOf, SameJob
  <1> QED
    BY <1>1, <1>2, <1>4, <1>6, <1>7, <1>8

LEMMA PlaceSame ==
    ASSUME SameJob
    PROVE  /\ rpos' = rpos => \A n : (AtField(n)' <=> AtField(n)) /\ (AtLine(n)' <=> AtLine(n))
           /\ UNCHANGED <<rpos, lock, current_str>> => \A n : InLine(n)' <=> InLine(n)
           /\ rpos' = rpos => (Eof' <=> Eof)
  <1>1. text' = text /\ \A n : LinesInv(n)' <=> LinesInv(n)
    BY TextSame
  <1>2. rpos' = rpos => \A n : AtField(n)' <=> AtField(n)
    BY <1>1 DEF AtField
  <1>3. rpos' = rpos => \A n : AtLine(n)' <=> AtLine(n)
    BY <1>1, <1>2 DEF AtLine
  <1>4. UNCHANGED <<rpos, lock, current_str>> => \A n : InLine(n)' <=> InLine(n)
    BY <1>1, <1>2 DEF InLine
  <1>5. rpos' = rpos => (Eof' <=> Eof)
    BY <1>1 DEF Eof
  <1> QED
    BY <1>2, <1>3, <1>4, <1>5

LEMMA ChunksSame ==
    ASSUME SameJob, file' = file
    PROVE  \A g, c : Chunk(g, c)' = Chunk(g, c)
  BY DEF SameJob, Chunk, Cols

LEMMA ValuesSame ==
    ASSUME SameJob, UNCHANGED <<batch, batch_meta, file>>, NEW G, ValuesInv(G)
    PROVE  ValuesInv(G)'
  BY TextSame, ChunksSame DEF ValuesInv

LEMMA JobSame ==
    ASSUME job' = job
    PROVE  SameJob
  BY DEF SameJob

-----------------------------------------------------------------------------
(* Reading the text                                                        *)

LEMMA NextGroupText == ASSUME ConvertInv, TextInv, NextGroup PROVE TextInv'
  <1>1. /\ pc = "group" /\ UNCHANGED <<job, rpos, batch, batch_meta, file>>
        /\ IF Eof THEN pc' = "meta" ELSE pc' = "row" /\ row' = 0
    BY DEF NextGroup, storeVars, printVars
  <1>2. PICK G \in Nat, n \in Nat : ParsedInv(G, n)
    BY <1>1 DEF TextInv
  <1>3. SameJob
    BY <1>1, JobSame
  <1>4. ValuesInv(G)' /\ Len(batch_meta') = G * Cols' + 0
    BY <1>1, <1>2, <1>3, ValuesSame, TextSame DEF ParsedInv
  <1>5. /\ n = StoredRows(G) * Cols /\ (IF Eof THEN Complete(n) ELSE AtLine(n))
    BY <1>1, <1>2 DEF ParsedInv, FieldsInv
  <1>6. StoredRows(G)' = StoredRows(G)
    BY <1>1, <1>3, ChunksSame, TextSame DEF StoredRows
  <1>7. FieldsInv(G, n)'
    <2>1. CASE Eof
      BY <1>1, <1>3, <1>5, <1>6, <2>1, TextSame DEF FieldsInv, Stored
    <2>2. CASE ~ Eof
      <3>1. StoredRows(G) = G * job.batch_size + 0
        <4>1. job.batch_size \in Nat /\ Cols \in Nat \ {0}
          BY Positive DEF ConvertInv
        <4>2. PICK H \in Nat : GroupsInv(H)
          BY <1>1 DEF ConvertInv
        <4>3. Len(batch_meta) = G * Cols /\ Len(batch_meta) = H * Cols
          BY <1>1, <1>2, <4>1, <4>2 DEF ParsedInv, GroupsInv
        <4>4. H = G
          BY <4>1, <4>3, NoRemainder
        <4>5. G # 0 => G \in 1 .. G /\ Cols \in 1 .. Cols
          BY <4>1
        <4>6. G # 0 => Len(Chunk(G, Cols)) = job.batch_size
          BY <1>1, <2>2, <4>2, <4>4, <4>5 DEF GroupsInv, MustBeFull
        <4>7. G # 0 => (G - 1) * job.batch_size + job.batch_size = G * job.batch_size
          BY <4>1
        <4> QED
          BY <4>1, <4>6, <4>7 DEF StoredRows
      <3>2. AtLine(n)' /\ ~ Eof'
        BY <1>1, <1>3, <1>5, <2>2, PlaceSame
      <3>3. pc' = "row" /\ row' = 0 /\ job' = job /\ Cols' = Cols
        BY <1>1, <1>3, <2>2, TextSame
      <3> QED
        BY <1>5, <3>1, <3>2, <3>3 DEF FieldsInv, Stored
    <2> QED
      BY <2>1, <2>2
  <1>8. IsSeq(text)' /\ pc' # "error" /\ pc' # "write"
    BY <1>1, <1>3, TextSame DEF TextInv
  <1> QED
    BY <1>4, <1>7, <1>8 DEF TextInv, ParsedInv

LEMMA NextRowText == ASSUME ConvertInv, TextInv, NextRow PROVE TextInv'
  <1>1. /\ pc = "row" /\ status' = 0 /\ lock' = FALSE /\ current_str' = <<>>
        /\ UNCHANGED <<job, rpos, row, batch, batch_meta, file, j>>
        /\ pc' = IF row < job.batch_size THEN "chars" ELSE "write"
    BY DEF NextRow, storeVars, printVars
  <1>2. PICK G \in Nat, n \in Nat : ParsedInv(G, n)
    BY <1>1 DEF TextInv
  <1>3. SameJob /\ Cols' = Cols
    BY <1>1, JobSame, TextSame
  <1>4. /\ Cols \in Nat \ {0} /\ job.batch_size \in Nat /\ row \in 0 .. job.batch_size /\ j = 0
        /\ \A c \in 1 .. Cols : Len(batch[c]) = row
    BY <1>1, Positive DEF ConvertInv, BatchInv
  <1>5. ValuesInv(G)' /\ Len(batch_meta') = G * Cols' + (IF pc' = "write" THEN j' ELSE 0)
    BY <1>1, <1>2, <1>3, <1>4, ValuesSame DEF ParsedInv
  <1>6. ~ Eof /\ AtLine(n) /\ n = (G * job.batch_size + row) * Cols
    BY <1>1, <1>2 DEF ParsedInv, FieldsInv
  <1>7. ~ Eof' /\ AtLine(n)'
    BY <1>1, <1>3, <1>6, PlaceSame
  <1>8. FieldsInv(G, n)'
    <2>1. CASE pc' = "chars"
      <3>1. InLine(n)'
        BY <1>1, <1>7 DEF InLine, AtLine
      <3>2. n = (G * job'.batch_size + row') * Cols' + status'
        BY <1>1, <1>3, <1>4, <1>6
      <3> QED
        BY <2>1, <3>1, <3>2 DEF FieldsInv, Stored
    <2>2. CASE pc' = "write"
      <3>1. row = job.batch_size
        BY <1>1, <1>4, <2>2
      <3>2. GroupLen(G)' = job.batch_size
        BY <1>1, <1>3, <1>4, <3>1 DEF GroupLen
      <3> QED
        BY <1>1, <1>3, <1>6, <1>7, <2>2, <3>1, <3>2 DEF FieldsInv, Stored
    <2> QED
      BY <1>1, <2>1, <2>2
  <1>9. IsSeq(text)' /\ pc' # "error"
    BY <1>1, <1>3, TextSame DEF TextInv
  <1> QED
    BY <1>5, <1>8, <1>9 DEF TextInv, ParsedInv

LEMMA TakeCharText == ASSUME ConvertInv, TextInv, TakeChar PROVE TextInv'
  <1>1. /\ pc = "chars" /\ pc' = "chars" /\ ~ Eof /\ ~ IsSeparator /\ rpos' = rpos + 1
        /\ UNCHANGED <<job, row, status, batch, batch_meta, file, j>>
        /\ IF Symbol = Quote THEN lock' = ~ lock /\ UNCHANGED current_str
                             ELSE current_str' = Append(current_str, Symbol) /\ UNCHANGED lock
    BY DEF TakeChar, storeVars, printVars
  <1>2. PICK G \in Nat, n \in Nat : ParsedInv(G, n)
    BY <1>1 DEF TextInv
  <1>3. SameJob /\ text' = text /\ Cols' = Cols
    BY <1>1, JobSame, TextSame
  <1>4. InLine(n) /\ n = (G * job.batch_size + row) * Cols + status
    BY <1>1, <1>2 DEF ParsedInv, FieldsInv
  <1>5. /\ IsSeq(text) /\ Len(text) \in Nat /\ rpos \in Nat /\ rpos < Len(text)
        /\ n = SeparatorsIn(text, rpos) /\ LinesInv(n) /\ lock \in BOOLEAN
        /\ lock <=> Quoted(text, rpos + 1)
        /\ current_str = Pending(text, rpos) /\ Symbol = text[rpos + 1]
    BY <1>1, <1>4, SeqLength DEF TextInv, InLine, AtField, Eof, Symbol
  <1>6. ~ Separates(text, rpos + 1)
    BY <1>1, <1>5 DEF IsSeparator, Separates
  <1>7. /\ SeparatorsIn(text, rpos + 1) = n
        /\ Pending(text, rpos + 1) = IF text[rpos + 1] = Quote THEN Pending(text, rpos)
                                     ELSE Append(Pending(text, rpos), text[rpos + 1])
    BY <1>5, <1>6, PendingNext
  <1>8. Quoted(text, rpos + 2) <=> IF text[rpos + 1] = Quote THEN ~ Quoted(text, rpos + 1)
                                                            ELSE Quoted(text, rpos + 1)
    BY <1>5, QuotedNext
  <1>9. InLine(n)'
    <2>1. rpos' \in 0 .. Len(text) /\ rpos' + 1 = rpos + 2
      BY <1>1, <1>5
    <2>2. LinesInv(n)'
      BY <1>3, <1>5, TextSame
    <2>3. lock' \in BOOLEAN /\ (lock' <=> Quoted(text, rpos + 2))
      BY <1>1, <1>5, <1>8
    <2>4. current_str' = Pending(text, rpos + 1)
      BY <1>1, <1>5, <1>7
    <2> QED
      BY <1>1, <1>3, <1>7, <2>1, <2>2, <2>3, <2>4 DEF InLine, AtField
  <1>10. FieldsInv(G, n)'
    BY <1>1, <1>3, <1>4, <1>9 DEF FieldsInv, Stored
  <1>11. ValuesInv(G)' /\ Len(batch_meta') = G * Cols' + (IF pc' = "write" THEN j' ELSE 0)
    BY <1>1, <1>2, <1>3, ValuesSame DEF ParsedInv
  <1> QED
    BY <1>1, <1>3, <1>5, <1>10, <1>11 DEF TextInv, ParsedInv

LEMMA InputEndsText == ASSUME ConvertInv, TextInv, InputEnds PROVE TextInv'
  <1>1. /\ pc = "chars" /\ pc' = "rowEnd" /\ Eof
        /\ UNCHANGED <<job, rpos, row, status, lock, current_str, batch, batch_meta, file, j>>
    BY DEF InputEnds, parseVars, storeVars, printVars
  <1>2. PICK G \in Nat, n \in Nat : ParsedInv(G, n)
    BY <1>1 DEF TextInv
  <1>3. SameJob /\ text' = text /\ Cols' = Cols
    BY <1>1, JobSame, TextSame
  <1>4. InLine(n) /\ n = (G * job.batch_size + row) * Cols + status
    BY <1>1, <1>2 DEF ParsedInv, FieldsInv
  <1>5. InLine(n)' /\ Eof'
    BY <1>1, <1>3, <1>4, PlaceSame
  <1>6. \A c \in 1 .. Cols : Len(batch[c]) = Partly(c)
    BY <1>1 DEF ConvertInv, BatchInv
  <1>7. FieldsInv(G, n)'
    BY <1>1, <1>3, <1>4, <1>5, <1>6 DEF FieldsInv, Stored, Partly
  <1>8. ValuesInv(G)' /\ Len(batch_meta') = G * Cols' + (IF pc' = "write" THEN j' ELSE 0)
    BY <1>1, <1>2, <1>3, ValuesSame DEF ParsedInv
  <1> QED
    BY <1>1, <1>3, <1>7, <1>8 DEF TextInv, ParsedInv

LEMMA RowDoneText == ASSUME ConvertInv, TextInv, RowDone PROVE TextInv'
  <1>1. /\ pc = "rowEnd" /\ pc' = "row" /\ ~ Eof /\ row' = row + 1
        /\ UNCHANGED <<job, rpos, batch, batch_meta, file, j>>
    BY DEF RowDone, storeVars, printVars
  <1>2. PICK G \in Nat, n \in Nat : ParsedInv(G, n)
    BY <1>1 DEF TextInv
  <1>3. SameJob /\ text' = text /\ Cols' = Cols
    BY <1>1, JobSame, TextSame
  <1>4. AtLine(n) /\ n = (G * job.batch_size + (row + 1)) * Cols
    BY <1>1, <1>2 DEF ParsedInv, FieldsInv
  <1>5. AtLine(n)' /\ ~ Eof'
    BY <1>1, <1>3, <1>4, PlaceSame
  <1>6. FieldsInv(G, n)'
    BY <1>1, <1>3, <1>4, <1>5 DEF FieldsInv, Stored
  <1>7. ValuesInv(G)' /\ Len(batch_meta') = G * Cols' + (IF pc' = "write" THEN j' ELSE 0)
    BY <1>1, <1>2, <1>3, ValuesSame DEF ParsedInv
  <1> QED
    BY <1>1, <1>3, <1>6, <1>7 DEF TextInv, ParsedInv

\* The field read is pushed to its column, and is what the text says.
LEMMA PushText ==
    ASSUME ConvertInv, TextInv, NEW G \in Nat, ValuesInv(G), Push, status \in 0 .. Cols - 1, row \in Nat,
           \A c \in 1 .. Cols : Len(batch[c]) = Partly(c),
           UNCHANGED <<job, batch_meta, file>>,
           current_str = FieldText(text, FieldOf(RowOf(G + 1, row + 1), status + 1)),
           ~ Invalid(TypeNow, current_str)
    PROVE  ValuesInv(G)'
  <1>1. SameJob /\ Cols' = Cols
    BY JobSame, TextSame
  <1>2. Cols \in Nat \ {0} /\ DOMAIN batch = 1 .. Cols /\ status + 1 \in 1 .. Cols
    BY Positive DEF ConvertInv, BatchInv
  <1> DEFINE v == ConvertType(TypeNow, current_str)
  <1>3. /\ batch'[status + 1] = Append(batch[status + 1], v)
        /\ \A c \in 1 .. Cols : c # status + 1 => batch'[c] = batch[c]
    BY <1>2 DEF Push
  <1>4. Right(v, RowOf(G + 1, row + 1), status + 1)
    BY DEF Right, TypeNow
  <1> HIDE DEF v
  <1>5. IsSeq(batch[status + 1]) /\ Len(batch[status + 1]) = row
    BY <1>2 DEF ConvertInv, BatchInv, Partly
  <1>6. ASSUME NEW c \in 1 .. Cols, NEW k \in 1 .. Len(batch'[c])
        PROVE  Right(batch'[c][k], RowOf(G + 1, k), c)
    <2>1. CASE c # status + 1
      BY <1>3, <1>6, <2>1 DEF ValuesInv
    <2>2. CASE c = status + 1 /\ k \in 1 .. row
      <3>1. batch'[c][k] = batch[c][k]
        BY <1>3, <1>5, <2>2, SeqAppend
      <3> QED
        BY <1>5, <2>2, <3>1 DEF ValuesInv
    <2>3. CASE c = status + 1 /\ k = row + 1
      <3>1. batch'[c][k] = v
        BY <1>3, <1>5, <2>3, SeqAppend
      <3> QED
        BY <1>4, <2>3, <3>1
    <2>4. Len(batch'[status + 1]) = row + 1
      BY <1>3, <1>5, SeqAppend
    <2> QED
      BY <2>1, <2>2, <2>3, <2>4
  <1>7. (\A c \in 1 .. Cols : \A k \in 1 .. Len(batch[c]) :
             Right(batch[c][k], RowOf(G + 1, k), c))'
    BY <1>1, <1>6, TextSame DEF Right, RowOf, FieldOf, SameJob
  <1>8. (\A g \in 1 .. G + 1, c \in 1 .. Cols : (g - 1) * Cols + c <= Len(batch_meta) =>
             \A k \in 1 .. Len(Chunk(g, c)) : Right(Chunk(g, c)[k], RowOf(g, k), c))'
    BY <1>1, TextSame, ChunksSame DEF ValuesInv
  <1> QED
    BY <1>7, <1>8 DEF ValuesInv

\* The field the reader is in.
LEMMA FieldNow ==
    ASSUME JobInv, NEW G \in Nat, row \in Nat, status \in 0 .. Cols - 1,
           NEW n, n = (G * job.batch_size + row) * Cols + status
    PROVE  /\ n \in Nat
           /\ FieldOf(RowOf(G + 1, row + 1), status + 1) = n + 1
           /\ TypeOf(n + 1) = TypeNow
           /\ (n + 1) % Cols = 0 <=> status = Cols - 1
           /\ n % Cols = status
  <1>1. Cols \in Nat \ {0} /\ job.batch_size \in Nat /\ status + 1 \in 1 .. Cols
    BY Positive
  <1>2. PICK x \in Nat : x = G * job.batch_size + row
    BY <1>1
  <1>3. RowOf(G + 1, row + 1) = x + 1
    BY <1>1, <1>2 DEF RowOf
  <1>4. x * Cols \in Nat /\ n = x * Cols + status /\ n \in Nat /\ (x + 1) - 1 = x
    BY <1>1, <1>2
  <1>5. FieldOf(x + 1, status + 1) = n + 1
    BY <1>1, <1>4 DEF FieldOf
  <1>6. x + 1 \in Nat \ {0}
    BY <1>2
  <1>7. TypeOf(n + 1) = TypeNow /\ ((n + 1) % Cols = 0 <=> status = Cols - 1)
    BY <1>1, <1>5, <1>6, FieldColumn DEF TypeNow
  <1>8. n % Cols = status
    BY <1>1, <1>2, <1>4, Remainder
  <1> QED
    BY <1>3, <1>4, <1>5, <1>7, <1>8

\* The reader is at the end of a field.
LEMMA AtSeparator ==
    ASSUME TextInv, ~ Eof, IsSeparator, NEW n, InLine(n)
    PROVE  /\ rpos \in Nat /\ rpos < Len(text) /\ Len(text) \in Nat /\ n \in Nat
           /\ SeparatorsIn(text, rpos + 1) = n + 1 /\ n + 1 \in 1 .. SeparatorsIn(text, Len(text))
           /\ Separator(text, n + 1) = rpos + 1
           /\ FieldText(text, n + 1) = current_str
           /\ Pending(text, rpos + 1) = <<>>
           /\ ~ Quoted(text, rpos + 2) /\ lock = FALSE
           /\ Symbol = text[rpos + 1] /\ Symbol \in {Comma, Newline}
  <1>1. /\ IsSeq(text) /\ Len(text) \in Nat /\ rpos \in Nat /\ rpos < Len(text)
        /\ n = SeparatorsIn(text, rpos) /\ lock \in BOOLEAN
        /\ lock <=> Quoted(text, rpos + 1)
        /\ current_str = Pending(text, rpos) /\ Symbol = text[rpos + 1]
    BY SeqLength DEF TextInv, InLine, AtField, Eof, Symbol
  <1>2. Separates(text, rpos + 1) /\ lock = FALSE /\ Symbol \in {Comma, Newline}
    BY <1>1 DEF IsSeparator, Separates
  <1>3. /\ SeparatorsIn(text, rpos + 1) = n + 1 /\ Separator(text, n + 1) = rpos + 1
        /\ FieldText(text, n + 1) = current_str /\ Pending(text, rpos + 1) = <<>>
    BY <1>1, <1>2, FieldEnds
  <1>4. ~ Quoted(text, rpos + 2)
    BY <1>1, <1>2, QuotedNext, CharsAssumption
  <1>5. n \in Nat /\ n + 1 \in 1 .. SeparatorsIn(text, Len(text))
    <2>1. n \in Nat /\ SeparatorsIn(text, Len(text)) \in Nat
      BY <1>1, SeparatorsNext
    <2>2. rpos + 1 \in 0 .. Len(text)
      BY <1>1
    <2>3. SeparatorsIn(text, rpos + 1) <= SeparatorsIn(text, Len(text))
      BY <1>1, <2>2, SeparatorsGrow
    <2> QED
      BY <1>3, <2>1, <2>3
  <1> QED
    BY <1>1, <1>2, <1>3, <1>4, <1>5

LEMMA EndFieldText == ASSUME ConvertInv, TextInv, EndField PROVE TextInv'
  <1>1. /\ pc = "chars" /\ ~ Eof /\ IsSeparator /\ ~ BadField /\ Push /\ current_str' = <<>>
        /\ rpos' = rpos + 1
        /\ UNCHANGED <<job, row, lock, batch_meta, file, j>>
        /\ IF Symbol = Newline THEN status' = 0 /\ pc' = "rowEnd"
                               ELSE status' = status + 1 /\ pc' = "chars"
    BY DEF EndField, storeVars, printVars
  <1>2. PICK G \in Nat, n \in Nat : ParsedInv(G, n)
    BY <1>1 DEF TextInv
  <1>3. SameJob /\ text' = text /\ Cols' = Cols
    BY <1>1, JobSame, TextSame
  <1>4. /\ JobInv /\ Cols \in Nat \ {0} /\ job.batch_size \in Nat /\ row \in Nat
        /\ status \in 0 .. Cols - 1 /\ \A c \in 1 .. Cols : Len(batch[c]) = Partly(c)
    BY <1>1, Positive DEF ConvertInv, BatchInv
  <1>5. InLine(n) /\ n = (G * job.batch_size + row) * Cols + status
    BY <1>1, <1>2 DEF ParsedInv, FieldsInv
  <1>6. /\ rpos \in Nat /\ rpos < Len(text) /\ Len(text) \in Nat
        /\ SeparatorsIn(text, rpos + 1) = n + 1
        /\ Separator(text, n + 1) = rpos + 1
        /\ FieldText(text, n + 1) = current_str
        /\ Pending(text, rpos + 1) = <<>>
        /\ ~ Quoted(text, rpos + 2) /\ lock = FALSE
        /\ Symbol = text[rpos + 1] /\ Symbol \in {Comma, Newline}
    BY <1>1, <1>5, AtSeparator
  <1>7. /\ FieldOf(RowOf(G + 1, row + 1), status + 1) = n + 1
        /\ (n + 1) % Cols = 0 <=> status = Cols - 1
    BY <1>4, <1>5, FieldNow
  <1>8. Symbol = Newline <=> status = Cols - 1
    BY <1>1, <1>4, <1>6, CharsAssumption DEF BadField
  <1>9. LinesInv(n + 1)
    <2>1. \A m \in 1 .. n + 1 : m \in 1 .. n \/ m = n + 1
      OBVIOUS
    <2>2. LinesInv(n)
      BY <1>5 DEF InLine, AtField
    <2> QED
      BY <1>6, <1>7, <1>8, <2>1, <2>2 DEF LinesInv
  <1>10. ValuesInv(G)'
    <2>1. ValuesInv(G) /\ ~ Invalid(TypeNow, current_str)
      BY <1>1, <1>2 DEF ParsedInv, BadField
    <2> QED
      BY <1>1, <1>4, <1>6, <1>7, <2>1, PushText
  <1>11. AtField(n + 1)'
    <2>1. rpos' \in 0 .. Len(text) /\ n + 1 = SeparatorsIn(text, rpos')
      BY <1>1, <1>6
    <2>2. LinesInv(n + 1)'
      BY <1>3, <1>9, TextSame
    <2> QED
      BY <1>3, <2>1, <2>2 DEF AtField
  <1>12. ~ Quoted(text', rpos' + 1) /\ Pending(text', rpos') = <<>>
    <2>1. rpos' + 1 = rpos + 2
      BY <1>1, <1>6
    <2> QED
      BY <1>1, <1>3, <1>6, <2>1
  <1>16. PICK x \in Nat : x = G * job.batch_size + row
    BY <1>4
  <1>17. n = x * Cols + status
    BY <1>5, <1>16, Zenon
  <1>18. G * job.batch_size + (row + 1) = x + 1
    <2>1. PICK y \in Nat : y = G * job.batch_size
      BY <1>4
    <2>2. y + (row + 1) = (y + row) + 1
      BY <1>4
    <2> QED
      BY <1>16, <2>1, <2>2, Zenon
  <1>13. FieldsInv(G, n + 1)'
    <2>1. CASE Symbol = Newline
      <3>1. AtLine(n + 1)'
        BY <1>11, <1>12 DEF AtLine
      <3>2. pc' = "rowEnd" /\ status' = 0 /\ status = Cols - 1
        BY <1>1, <1>8, <2>1
      <3>3. n + 1 = (G * job.batch_size + (row + 1)) * Cols
        <4>1. n + 1 = (x + 1) * Cols
          <5>1. x * Cols \in Nat /\ (x + 1) * Cols = x * Cols + Cols
            BY <1>4
          <5>2. PICK y \in Nat : y = x * Cols
            BY <5>1
          <5>3. n = y + status
            BY <1>17, <5>2, Zenon
          <5>4. n + 1 = y + Cols
            BY <1>4, <3>2, <5>2, <5>3
          <5> QED
            BY <5>1, <5>2, <5>4
        <4> QED
          BY <1>18, <4>1
      <3>4. \A c \in 1 .. Cols : Len(batch'[c]) = row + 1
        BY <1>1, <1>4, <3>2, PushStep DEF ConvertInv
      <3> QED
        BY <1>1, <1>3, <3>1, <3>2, <3>3, <3>4 DEF FieldsInv, Stored
    <2>2. CASE Symbol # Newline
      <3>1. InLine(n + 1)'
        BY <1>1, <1>6, <1>11, <1>12 DEF InLine
      <3>2. n + 1 = (G * job.batch_size + row) * Cols + (status + 1)
        <4>1. x * Cols \in Nat
          BY <1>4
        <4>2. n + 1 = x * Cols + (status + 1)
          BY <1>4, <1>17, <4>1
        <4> QED
          BY <1>16, <4>2
      <3> QED
        BY <1>1, <1>3, <2>2, <3>1, <3>2 DEF FieldsInv, Stored
    <2> QED
      BY <2>1, <2>2
  <1>14. Len(batch_meta') = G * Cols' + (IF pc' = "write" THEN j' ELSE 0)
    BY <1>1, <1>2, <1>3 DEF ParsedInv
  <1>15. IsSeq(text)' /\ pc' # "error" /\ n + 1 \in Nat
    BY <1>1, <1>3 DEF TextInv
  <1> QED
    BY <1>10, <1>13, <1>14, <1>15 DEF TextInv, ParsedInv

\* The reader is at the end of the text.
LEMMA AtEnd ==
    ASSUME TextInv, Eof, NEW n, AtField(n), current_str = Pending(text, rpos), n % Cols \in Int
    PROVE  /\ n = SeparatorsIn(text, Len(text)) /\ n \in Nat
           /\ FieldText(text, n + 1) = current_str
           /\ FieldCount(text) = IF n % Cols = Cols - 1 /\ current_str # <<>> THEN n + 1 ELSE n
           /\ LinesInv(SeparatorsIn(text, Len(text)))
  <1>1. IsSeq(text) /\ Len(text) \in Nat
    BY SeqLength DEF TextInv
  <1>2. rpos = Len(text)
    BY <1>1 DEF AtField, Eof
  <1>3. n = SeparatorsIn(text, Len(text)) /\ n \in Nat
    BY <1>1, <1>2, SeparatorsNext DEF AtField
  <1>4. FieldText(text, n + 1) = current_str
    BY <1>1, <1>2, <1>3, TextEnds
  <1>5. LinesInv(SeparatorsIn(text, Len(text)))
    BY <1>3 DEF AtField
  <1>6. FieldCount(text) = IF n % Cols = Cols - 1 /\ current_str # <<>> THEN n + 1 ELSE n
    BY <1>3, <1>4 DEF FieldCount
  <1> QED
    BY <1>3, <1>4, <1>5, <1>6

LEMMA RejectFieldText == ASSUME ConvertInv, TextInv, RejectField PROVE TextInv'
  <1>1. /\ pc = "chars" /\ pc' = "error" /\ ~ Eof /\ IsSeparator /\ BadField /\ UNCHANGED job
    BY DEF RejectField, Throw
  <1>2. PICK G \in Nat, n \in Nat : ParsedInv(G, n)
    BY <1>1 DEF TextInv
  <1>3. SameJob /\ text' = text
    BY <1>1, JobSame, TextSame
  <1>4. /\ JobInv /\ Cols \in Nat \ {0} /\ row \in Nat /\ status \in 0 .. Cols - 1
    BY <1>1, Positive DEF ConvertInv, BatchInv
  <1>5. InLine(n) /\ n = (G * job.batch_size + row) * Cols + status
    BY <1>1, <1>2 DEF ParsedInv, FieldsInv
  <1>6. /\ n + 1 \in 1 .. SeparatorsIn(text, Len(text))
        /\ Separator(text, n + 1) = rpos + 1
        /\ FieldText(text, n + 1) = current_str
        /\ Symbol = text[rpos + 1] /\ Symbol \in {Comma, Newline}
    BY <1>1, <1>5, AtSeparator
  <1>7. TypeOf(n + 1) = TypeNow /\ ((n + 1) % Cols = 0 <=> status = Cols - 1)
    BY <1>4, <1>5, FieldNow
  <1>8. ~ Accepts(text)
    <2>1. CASE ~ (Symbol = Newline <=> status = Cols - 1)
      BY <1>6, <1>7, <2>1 DEF Accepts
    <2>2. CASE Invalid(TypeNow, current_str)
      <3>1. SeparatorsIn(text, Len(text)) \in Nat
        BY SeqLength, SeparatorsNext DEF TextInv
      <3>2. FieldCount(text) \in Nat /\ SeparatorsIn(text, Len(text)) <= FieldCount(text)
        BY <3>1 DEF FieldCount
      <3>3. n + 1 \in 1 .. FieldCount(text)
        BY <1>6, <3>1, <3>2
      <3> QED
        BY <1>6, <1>7, <2>2, <3>3 DEF Accepts
    <2> QED
      BY <1>1, <1>4, <1>6, <2>1, <2>2, CharsAssumption DEF BadField
  <1> QED
    BY <1>1, <1>3, <1>8, TextSame DEF TextInv

LEMMA RejectLastRowText == ASSUME ConvertInv, TextInv, RejectLastRow PROVE TextInv'
  <1>1. /\ pc = "rowEnd" /\ pc' = "error" /\ Eof /\ UNCHANGED job
        /\ IF LastField THEN Invalid(TypeNow, current_str) ELSE status # 0
    BY DEF RejectLastRow, Throw
  <1>2. PICK G \in Nat, n \in Nat : ParsedInv(G, n)
    BY <1>1 DEF TextInv
  <1>3. SameJob /\ text' = text
    BY <1>1, JobSame, TextSame
  <1>4. /\ JobInv /\ Cols \in Nat \ {0} /\ row \in Nat /\ status \in 0 .. Cols - 1
    BY <1>1, Positive DEF ConvertInv, BatchInv
  <1>5. InLine(n) /\ n = (G * job.batch_size + row) * Cols + status
    BY <1>1, <1>2 DEF ParsedInv, FieldsInv, LastField
  <1>6. TypeOf(n + 1) = TypeNow /\ n % Cols = status
    BY <1>4, <1>5, FieldNow
  <1>7. AtField(n) /\ current_str = Pending(text, rpos) /\ n % Cols \in Int
    BY <1>4, <1>5, <1>6 DEF InLine
  <1>8. /\ FieldText(text, n + 1) = current_str
        /\ FieldCount(text) = IF n % Cols = Cols - 1 /\ current_str # <<>> THEN n + 1 ELSE n
    BY <1>1, <1>7, AtEnd
  <1>9. ~ Accepts(text)
    <2>1. CASE LastField
      <3>1. FieldCount(text) = n + 1 /\ n + 1 \in 1 .. n + 1
        BY <1>6, <1>8, <2>1 DEF LastField
      <3> QED
        BY <1>1, <1>6, <1>8, <2>1, <3>1 DEF Accepts
    <2>2. CASE ~ LastField
      <3>1. FieldCount(text) = n /\ status # 0
        BY <1>1, <1>6, <1>8, <2>2 DEF LastField
      <3> QED
        BY <1>6, <3>1 DEF Accepts
    <2> QED
      BY <2>1, <2>2
  <1> QED
    BY <1>1, <1>3, <1>9, TextSame DEF TextInv

LEMMA LastRowText == ASSUME ConvertInv, TextInv, LastRow PROVE TextInv'
  <1>1. /\ pc = "rowEnd" /\ pc' = "write" /\ Eof /\ LastField /\ Push
        /\ ~ Invalid(TypeNow, current_str)
        /\ UNCHANGED <<job, rpos, row, status, lock, current_str, batch_meta, file, j>>
    BY DEF LastRow, storeVars, printVars
  <1>2. PICK G \in Nat, n \in Nat : ParsedInv(G, n)
    BY <1>1 DEF TextInv
  <1>3. SameJob /\ text' = text /\ Cols' = Cols
    BY <1>1, JobSame, TextSame
  <1>4. /\ JobInv /\ Cols \in Nat \ {0} /\ job.batch_size \in Nat /\ row \in Nat /\ j = 0
        /\ status = Cols - 1 /\ status \in 0 .. Cols - 1 /\ current_str # <<>>
    BY <1>1, Positive DEF ConvertInv, BatchInv, LastField
  <1>5. /\ InLine(n) /\ n = (G * job.batch_size + row) * Cols + status
        /\ \A c \in 1 .. Cols : Len(batch[c]) = Partly(c)
    BY <1>1, <1>2, <1>4 DEF ParsedInv, FieldsInv
  <1>6. FieldOf(RowOf(G + 1, row + 1), status + 1) = n + 1 /\ n % Cols = status
    BY <1>4, <1>5, FieldNow
  <1>7. AtField(n) /\ current_str = Pending(text, rpos) /\ n % Cols \in Int
    BY <1>4, <1>5, <1>6 DEF InLine
  <1>8. /\ FieldText(text, n + 1) = current_str
        /\ FieldCount(text) = n + 1
        /\ LinesInv(SeparatorsIn(text, Len(text)))
    BY <1>1, <1>4, <1>6, <1>7, AtEnd
  <1>9. ValuesInv(G)'
    <2>1. ValuesInv(G)
      BY <1>2 DEF ParsedInv
    <2> QED
      BY <1>1, <1>4, <1>5, <1>6, <1>8, <2>1, PushText
  <1>10. GroupLen(G)' = row + 1
    <2>1. Len(batch'[Cols]) = row + 1
      BY <1>1, <1>4, <1>5, PushStep DEF ConvertInv
    <2> QED
      BY <1>1, <1>3, <1>4, <2>1 DEF GroupLen
  <1>11. n + 1 = (G * job.batch_size + (row + 1)) * Cols
    <2>1. PICK y \in Nat : y = G * job.batch_size
      BY <1>4
    <2>2. PICK x \in Nat : x = y + row
      BY <1>4
    <2>3. n = x * Cols + status
      BY <1>5, <2>1, <2>2, Zenon
    <2>4. PICK z \in Nat : z = x * Cols
      BY <1>4
    <2>5. n + 1 = z + Cols /\ (x + 1) * Cols = x * Cols + Cols
      BY <1>4, <2>3, <2>4
    <2>6. n + 1 = (x + 1) * Cols /\ y + (row + 1) = x + 1
      BY <1>4, <2>2, <2>4, <2>5
    <2> QED
      BY <2>1, <2>6, Zenon
  <1>12. Complete(n + 1)'
    BY <1>3, <1>8, TextSame DEF Complete
  <1>13. Eof'
    BY <1>1, <1>3, PlaceSame
  <1>14. FieldsInv(G, n + 1)'
    BY <1>1, <1>3, <1>10, <1>11, <1>12, <1>13 DEF FieldsInv, Stored
  <1>15. Len(batch_meta') = G * Cols' + (IF pc' = "write" THEN j' ELSE 0)
    <2>1. G * Cols + 0 = G * Cols
      BY <1>4
    <2> QED
      BY <1>1, <1>2, <1>3, <1>4, <2>1 DEF ParsedInv
  <1>16. IsSeq(text)' /\ pc' # "error" /\ n + 1 \in Nat
    BY <1>1, <1>3 DEF TextInv
  <1> QED
    BY <1>9, <1>14, <1>15, <1>16 DEF TextInv, ParsedInv

LEMMA NoLastRowText == ASSUME ConvertInv, TextInv, NoLastRow PROVE TextInv'
  <1>1. /\ pc = "rowEnd" /\ pc' = "write" /\ Eof /\ ~ LastField /\ status = 0
        /\ UNCHANGED <<job, rpos, row, status, lock, current_str, batch, batch_meta, file, j>>
    BY DEF NoLastRow, storeVars, printVars, parseVars
  <1>2. PICK G \in Nat, n \in Nat : ParsedInv(G, n)
    BY <1>1 DEF TextInv
  <1>3. SameJob /\ text' = text /\ Cols' = Cols
    BY <1>1, JobSame, TextSame
  <1>4. /\ JobInv /\ Cols \in Nat \ {0} /\ job.batch_size \in Nat /\ row \in Nat /\ j = 0
    BY <1>1, Positive DEF ConvertInv, BatchInv
  <1>5. PICK L \in Nat :
            /\ n = (G * job.batch_size + L) * Cols
            /\ \A c \in 1 .. Cols : Len(batch[c]) = L
    <2>1. CASE /\ n = (G * job.batch_size + (row + 1)) * Cols
               /\ \A c \in 1 .. Cols : Len(batch[c]) = row + 1
      <3>1. row + 1 \in Nat
        BY <1>4
      <3> QED
        BY <2>1, <3>1, Zenon
    <2>2. CASE /\ n = (G * job.batch_size + row) * Cols + status
               /\ \A c \in 1 .. Cols : Len(batch[c]) = Partly(c)
      <3>1. \A c \in 1 .. Cols : Len(batch[c]) = row
        BY <1>1, <1>4, <2>2 DEF Partly
      <3>2. n = (G * job.batch_size + row) * Cols
        BY <1>1, <1>4, <2>2
      <3> QED
        BY <1>4, <3>1, <3>2, Zenon
    <2> QED
      BY <1>1, <1>2, <2>1, <2>2 DEF ParsedInv, FieldsInv
  <1>6. AtField(n) /\ current_str = Pending(text, rpos)
    BY <1>1, <1>2 DEF ParsedInv, FieldsInv, AtLine, InLine
  <1>7. n % Cols = 0
    <2>1. PICK x \in Nat : x = G * job.batch_size + L
      BY <1>4
    <2>2. n = x * Cols
      BY <1>5, <2>1, Zenon
    <2>3. (x * Cols + 0) % Cols = 0 /\ x * Cols + 0 = x * Cols
      BY <1>4, Remainder
    <2> QED
      BY <2>2, <2>3
  <1>8. Complete(n)
    <2>1. /\ FieldCount(text) = IF n % Cols = Cols - 1 /\ current_str # <<>> THEN n + 1 ELSE n
          /\ LinesInv(SeparatorsIn(text, Len(text)))
      BY <1>1, <1>6, <1>7, AtEnd
    <2>2. ~ (n % Cols = Cols - 1 /\ current_str # <<>>)
      BY <1>1, <1>4, <1>7 DEF LastField
    <2> QED
      BY <2>1, <2>2 DEF Complete
  <1>9. Complete(n)' /\ Eof'
    BY <1>1, <1>3, <1>8, TextSame, PlaceSame
  <1>10. GroupLen(G)' = L
    BY <1>1, <1>3, <1>4, <1>5 DEF GroupLen
  <1>11. FieldsInv(G, n)'
    BY <1>1, <1>3, <1>5, <1>9, <1>10 DEF FieldsInv, Stored
  <1>12. ValuesInv(G)'
    BY <1>1, <1>2, <1>3, ValuesSame DEF ParsedInv
  <1>13. Len(batch_meta') = G * Cols' + (IF pc' = "write" THEN j' ELSE 0)
    <2>1. G * Cols + 0 = G * Cols
      BY <1>4
    <2> QED
      BY <1>1, <1>2, <1>3, <1>4, <2>1 DEF ParsedInv
  <1>14. IsSeq(text)' /\ pc' # "error"
    BY <1>1, <1>3 DEF TextInv
  <1> QED
    BY <1>11, <1>12, <1>13, <1>14 DEF TextInv, ParsedInv

\* The chunk written is behind the others, and is the column.
LEMMA ChunkWritten ==
    ASSUME ConvertInv, WriteChunk, NEW G \in Nat, GroupsInv(G)
    PROVE  /\ Cols \in Nat \ {0} /\ job.batch_size \in Nat /\ j \in 0 .. Cols - 1
           /\ G * Cols \in Nat /\ Len(batch_meta) = G * Cols + j
           /\ Len(batch_meta') = G * Cols + (j + 1)
           /\ \A k \in 1 .. G * Cols + j : file'[k] = file[k]
           /\ file'[G * Cols + (j + 1)].v = batch[j + 1]
           /\ batch'[j + 1] = <<>>
           /\ \A c \in 1 .. Cols : c # j + 1 => batch'[c] = batch[c]
  <1> DEFINE size == ChunkSize(batch[j + 1])
  <1>1. /\ pc = "write" /\ j < Cols
        /\ file' = Items(file, <<batch[j + 1]>>, size)
        /\ batch_meta' = Append(batch_meta, [size |-> size, offset |-> offset])
        /\ batch' = [batch EXCEPT ![j + 1] = <<>>]
    BY WrittenItems DEF WriteChunk, MetaOf
  <1>2. /\ Cols \in Nat \ {0} /\ job.batch_size \in Nat /\ j \in 0 .. Cols - 1
        /\ G * Cols \in Nat /\ Len(batch_meta) = G * Cols + j
    <2>1. Cols \in Nat \ {0} /\ job.batch_size \in Nat
      BY Positive DEF ConvertInv
    <2>2. j \in 0 .. Cols /\ Len(batch_meta) = G * Cols + j
      BY <1>1 DEF GroupsInv
    <2> QED
      BY <1>1, <2>1, <2>2
  <1>3. j + 1 \in 1 .. Cols /\ DOMAIN batch = 1 .. Cols /\ IsSeq(batch[j + 1])
    <2>1. j + 1 \in 1 .. Cols
      BY <1>2
    <2> QED
      BY <2>1 DEF ConvertInv, BatchInv
  <1>4. size \in Nat \ {0}
    BY <1>3, SeqLength DEF ChunkSize
  <1>5. /\ Laid(file) /\ IsSeq(batch_meta) /\ Len(file) = Len(batch_meta)
    BY <1>1 DEF ConvertInv, FileInv, Reading
  <1> HIDE DEF size
  <1>6. PICK values : values = <<batch[j + 1]>>
    OBVIOUS
  <1>7. IsSeq(values) /\ Len(values) = 1 /\ values[1] = batch[j + 1]
    <2>1. values \in Seq({batch[j + 1]})
      BY <1>6
    <2> QED
      BY <1>6, <2>1 DEF IsSeq
  <1>8. Behind(file', file, values, size)
    BY <1>1, <1>4, <1>5, <1>6, <1>7, ItemsLaid
  <1>9. PICK n \in Nat : n = G * Cols + j
    BY <1>2
  <1>10. n = Len(file) /\ n = Len(batch_meta) /\ G * Cols + (j + 1) = n + 1
    BY <1>2, <1>5, <1>9
  <1>11. (\A k \in 1 .. n : file'[k] = file[k]) /\ file'[n + 1].v = batch[j + 1]
    <2>1. 1 \in 1 .. 1
      OBVIOUS
    <2> QED
      BY <1>7, <1>8, <1>10, <2>1 DEF Behind
  <1>12. Len(batch_meta') = n + 1
    BY <1>1, <1>5, <1>10, SeqAppend
  <1>13. /\ batch'[j + 1] = <<>>
         /\ \A c \in 1 .. Cols : c # j + 1 => batch'[c] = batch[c]
    BY <1>1, <1>3
  <1> QED
    BY <1>2, <1>9, <1>10, <1>11, <1>12, <1>13

LEMMA WriteChunkText == ASSUME ConvertInv, TextInv, WriteChunk PROVE TextInv'
  <1>1. /\ pc = "write" /\ pc' = "write" /\ j' = j + 1 /\ j < Cols
        /\ UNCHANGED <<job, rpos, row, status, lock, current_str>>
    BY DEF WriteChunk
  <1>2. PICK G \in Nat, n \in Nat : ParsedInv(G, n)
    BY <1>1 DEF TextInv
  <1>3. SameJob /\ text' = text /\ Cols' = Cols
    BY <1>1, JobSame, TextSame
  <1>4. GroupsInv(G)
    <2>1. PICK H \in Nat : GroupsInv(H)
      BY <1>1 DEF ConvertInv
    <2>2. Cols \in Nat \ {0}
      BY Positive DEF ConvertInv
    <2>3. Len(batch_meta) = G * Cols + j /\ Len(batch_meta) = H * Cols + j /\ j \in 0 .. Cols
      BY <1>1, <1>2, <2>1 DEF ParsedInv, GroupsInv
    <2>4. j + 1 \in 1 .. Cols
      BY <1>1, <2>2, <2>3
    <2>5. ((G * Cols + (j + 1)) - 1) \div Cols = G /\ ((H * Cols + (j + 1)) - 1) \div Cols = H
      BY <2>2, <2>4, GroupOf
    <2>6. (G * Cols + (j + 1)) - 1 = G * Cols + j /\ (H * Cols + (j + 1)) - 1 = H * Cols + j
      <3>1. G * Cols \in Nat /\ H * Cols \in Nat /\ j \in Nat
        BY <2>2, <2>3
      <3> QED
        BY <3>1
    <2>7. G = H
      BY <2>3, <2>5, <2>6
    <2> QED
      BY <2>1, <2>7
  <1>5. /\ Cols \in Nat \ {0} /\ job.batch_size \in Nat /\ j \in 0 .. Cols - 1
        /\ G * Cols \in Nat /\ Len(batch_meta) = G * Cols + j
        /\ Len(batch_meta') = G * Cols + (j + 1)
        /\ \A k \in 1 .. G * Cols + j : file'[k] = file[k]
        /\ file'[G * Cols + (j + 1)].v = batch[j + 1]
        /\ batch'[j + 1] = <<>>
        /\ \A c \in 1 .. Cols : c # j + 1 => batch'[c] = batch[c]
    BY <1>4, ChunkWritten
  <1>6. ValuesInv(G)
    BY <1>2 DEF ParsedInv
  <1>15. Cols \in Nat \ {0} /\ j \in 0 .. Cols - 1
    BY <1>5
  <1>16. j + 1 \in 1 .. Cols /\ j \in Nat
    BY <1>15
  <1>7. ASSUME NEW g \in 1 .. G + 1, NEW c \in 1 .. Cols,
               (g - 1) * Cols + c <= G * Cols + (j + 1),
               NEW k \in 1 .. Len(Chunk(g, c)')
        PROVE  Right(Chunk(g, c)'[k], RowOf(g, k), c)
    <2>1. PICK y \in Nat : y = (g - 1) * Cols
      <3>1. PICK C \in Nat : C = Cols
        BY <1>15
      <3>2. (g - 1) * C \in Nat
        OBVIOUS
      <3> QED
        BY <3>1, <3>2
    <2>2. Chunk(g, c)' = file'[y + c].v /\ Chunk(g, c) = file[y + c].v
      BY <1>3, <2>1 DEF Chunk
    <2>3. CASE y + c <= G * Cols + j
      <3>1. y + c \in 1 .. G * Cols + j
        <4>1. PICK z \in Nat : z = G * Cols
          BY <1>5
        <4>2. y + c <= z + j
          BY <2>3, <4>1
        <4>3. y + c \in 1 .. z + j
          <5>1. c \in Nat \ {0}
            BY <1>15
          <5> QED
            BY <1>16, <4>2, <5>1
        <4> QED
          BY <4>1, <4>3
      <3>2. Chunk(g, c)' = Chunk(g, c) /\ (g - 1) * Cols + c <= Len(batch_meta)
        BY <1>5, <2>1, <2>2, <2>3, <3>1
      <3> QED
        BY <1>6, <3>2 DEF ValuesInv
    <2>4. CASE ~ (y + c <= G * Cols + j)
      <3>1. y + c = G * Cols + (j + 1)
        BY <1>5, <1>7, <2>1, <2>4
      <3>2. g = G + 1 /\ c = j + 1
        <4>1. g - 1 \in Nat /\ j + 1 \in 1 .. Cols
          BY <1>5
        <4>2. (((g - 1) * Cols + c) - 1) \div Cols = g - 1 /\ ((G * Cols + (j + 1)) - 1) \div Cols = G
          BY <1>5, <4>1, GroupOf
        <4>3. g - 1 = G
          BY <2>1, <3>1, <4>2
        <4>4. y = G * Cols
          BY <2>1, <4>3
        <4> QED
          BY <1>5, <2>1, <3>1, <4>3, <4>4
      <3>3. Chunk(g, c)' = batch[j + 1] /\ j + 1 \in 1 .. Cols
        <4>1. j + 1 \in 1 .. Cols
          BY <1>16
        <4>2. file'[y + c].v = batch[j + 1]
          BY <1>5, <3>1, Zenon
        <4> QED
          BY <2>2, <4>1, <4>2
      <3>4. Right(batch[j + 1][k], RowOf(G + 1, k), j + 1)
        BY <1>6, <3>3 DEF ValuesInv
      <3> QED
        BY <3>2, <3>3, <3>4
    <2> QED
      BY <2>3, <2>4
  <1>8. ValuesInv(G)'
    <2>1. ASSUME NEW c \in 1 .. Cols, NEW k \in 1 .. Len(batch'[c])
          PROVE  Right(batch'[c][k], RowOf(G + 1, k), c)
      <3>1. c # j + 1
        <4>1. Len(<<>>) = 0 /\ ~ (k \in 1 .. 0)
          OBVIOUS
        <4> QED
          BY <1>5, <2>1, <4>1
      <3> QED
        BY <1>5, <1>6, <3>1 DEF ValuesInv
    <2>2. (\A c \in 1 .. Cols : \A k \in 1 .. Len(batch[c]) :
               Right(batch[c][k], RowOf(G + 1, k), c))'
      BY <1>3, <2>1, TextSame DEF Right, RowOf, FieldOf, SameJob
    <2>3. (\A g \in 1 .. G + 1, c \in 1 .. Cols : (g - 1) * Cols + c <= Len(batch_meta) =>
               \A k \in 1 .. Len(Chunk(g, c)) : Right(Chunk(g, c)[k], RowOf(g, k), c))'
      BY <1>3, <1>5, <1>7, TextSame DEF Right, RowOf, FieldOf, SameJob
    <2> QED
      BY <2>2, <2>3 DEF ValuesInv
  <1>9. GroupLen(G)' = GroupLen(G)
    <2>1. GroupLen(G) = Len(batch[Cols])
      BY <1>1 DEF GroupLen
    <2>2. CASE j + 1 < Cols
      <3>1. Cols \in 1 .. Cols /\ Cols # j + 1
        BY <1>5, <2>2
      <3> QED
        BY <1>1, <1>3, <1>5, <2>1, <2>2, <3>1 DEF GroupLen
    <2>3. CASE ~ (j + 1 < Cols)
      <3>1. j + 1 = Cols
        BY <1>5, <2>3
      <3>2. file'[G * Cols + Cols].v = batch[Cols]
        BY <1>5, <3>1
      <3> QED
        BY <1>1, <1>3, <2>1, <2>3, <3>2 DEF GroupLen
    <2> QED
      BY <2>2, <2>3
  <1>10. /\ n = (G * job.batch_size + GroupLen(G)) * Cols
         /\ IF Eof THEN Complete(n) ELSE AtLine(n) /\ GroupLen(G) = job.batch_size
    BY <1>1, <1>2 DEF ParsedInv, FieldsInv
  <1>11. /\ n = (G * job'.batch_size + GroupLen(G)') * Cols'
         /\ IF Eof' THEN Complete(n)' ELSE AtLine(n)' /\ GroupLen(G)' = job'.batch_size
    BY <1>1, <1>3, <1>9, <1>10, TextSame, PlaceSame
  <1>12. FieldsInv(G, n)'
    BY <1>1, <1>11 DEF FieldsInv, Stored
  <1>13. Len(batch_meta') = G * Cols' + (IF pc' = "write" THEN j' ELSE 0)
    BY <1>1, <1>3, <1>5
  <1>14. IsSeq(text)' /\ pc' # "error"
    BY <1>1, <1>3 DEF TextInv
  <1> QED
    BY <1>8, <1>12, <1>13, <1>14 DEF TextInv, ParsedInv

LEMMA GroupWrittenText == ASSUME ConvertInv, TextInv, GroupWritten PROVE TextInv'
  <1>1. /\ pc = "write" /\ pc' = "group" /\ j >= Cols /\ j' = 0
        /\ UNCHANGED <<job, rpos, batch, batch_meta, file>>
    BY DEF GroupWritten, storeVars, parseVars
  <1>2. PICK G \in Nat, n \in Nat : ParsedInv(G, n)
    BY <1>1 DEF TextInv
  <1>3. SameJob /\ text' = text /\ Cols' = Cols
    BY <1>1, JobSame, TextSame
  <1>4. Cols \in Nat \ {0} /\ job.batch_size \in Nat /\ j = Cols
    <2>1. PICK H \in Nat : GroupsInv(H)
      BY <1>1 DEF ConvertInv
    <2> QED
      BY <1>1, <2>1, Positive DEF ConvertInv, GroupsInv
  <1>5. PICK G1 \in Nat : G1 = G + 1
    OBVIOUS
  <1>6. Len(batch_meta) = G1 * Cols
    <2>1. Len(batch_meta) = G * Cols + Cols
      BY <1>1, <1>2, <1>4 DEF ParsedInv
    <2> QED
      BY <1>4, <1>5, <2>1
  <1>7. ConvertInv'
    BY GroupWrittenStep
  <1>8. ValuesInv(G1)'
    <2>1. \A c \in 1 .. Cols' : batch'[c] = <<>>
      BY <1>1, <1>7 DEF ConvertInv, BatchInv
    <2>2. (\A c \in 1 .. Cols : \A k \in 1 .. Len(batch[c]) :
               Right(batch[c][k], RowOf(G1 + 1, k), c))'
      <3>1. Len(<<>>) = 0 /\ 1 .. 0 = {}
        OBVIOUS
      <3> QED
        BY <2>1, <3>1
    <2>3. ASSUME NEW g \in 1 .. G1 + 1, NEW c \in 1 .. Cols,
                 (g - 1) * Cols + c <= Len(batch_meta)
          PROVE  g \in 1 .. G + 1
      <3> SUFFICES ASSUME g = G1 + 1 PROVE FALSE
        BY <1>5
      <3>1. g - 1 = G1 /\ G1 * Cols \in Nat
        BY <1>4
      <3> QED
        BY <1>4, <1>6, <2>3, <3>1
    <2>4. \A g \in 1 .. G1 + 1, c \in 1 .. Cols : (g - 1) * Cols + c <= Len(batch_meta) =>
               \A k \in 1 .. Len(Chunk(g, c)) : Right(Chunk(g, c)[k], RowOf(g, k), c)
      BY <1>2, <2>3 DEF ParsedInv, ValuesInv
    <2>5. (\A g \in 1 .. G1 + 1, c \in 1 .. Cols : (g - 1) * Cols + c <= Len(batch_meta) =>
               \A k \in 1 .. Len(Chunk(g, c)) : Right(Chunk(g, c)[k], RowOf(g, k), c))'
      BY <1>1, <1>3, <2>4, TextSame, ChunksSame
    <2> QED
      BY <2>2, <2>5 DEF ValuesInv
  <1>9. FieldsInv(G1, n)'
    <2>1. G1 - 1 = G /\ G1 # 0
      BY <1>5
    <2>2. StoredRows(G1)' = G * job.batch_size + GroupLen(G)
      <3>1. Chunk(G1, Cols)' = file[G * Cols + Cols].v
        BY <1>1, <1>3, <2>1 DEF Chunk
      <3>2. GroupLen(G) = Len(file[G * Cols + Cols].v)
        BY <1>4 DEF GroupLen
      <3> QED
        BY <1>1, <1>3, <2>1, <3>1, <3>2 DEF StoredRows
    <2>3. /\ n = (G * job.batch_size + GroupLen(G)) * Cols
          /\ IF Eof THEN Complete(n) ELSE AtLine(n)
      BY <1>1, <1>2 DEF ParsedInv, FieldsInv
    <2>4. IF Eof' THEN Complete(n)' ELSE AtLine(n)'
      BY <1>1, <1>3, <2>3, TextSame, PlaceSame
    <2> QED
      BY <1>1, <1>3, <2>2, <2>3, <2>4 DEF FieldsInv, Stored
  <1>10. Len(batch_meta') = G1 * Cols' + (IF pc' = "write" THEN j' ELSE 0)
    <2>1. G1 * Cols + 0 = G1 * Cols
      BY <1>4
    <2> QED
      BY <1>1, <1>3, <1>6, <2>1
  <1>11. IsSeq(text)' /\ pc' # "error"
    BY <1>1, <1>3 DEF TextInv
  <1> QED
    BY <1>8, <1>9, <1>10, <1>11 DEF TextInv, ParsedInv

Late == {"meta", "schema", "trailer"} \cup Stored

\* After the last group: the chunks, and so the values, stay.
LEMMA ChunksStay ==
    ASSUME ConvertInv, TextInv, SameJob, batch' = batch, Len(batch_meta') = Len(batch_meta),
           \A k \in 1 .. Len(batch_meta) : file'[k] = file[k],
           pc \in Late, pc' \in Late
    PROVE  TextInv'
  <1>1. pc # "error" /\ pc' # "error" /\ pc # "write" /\ pc' # "write"
        /\ pc' \notin {"group", "row", "chars", "rowEnd"}
    BY DEF Late, Stored
  <1>2. PICK G \in Nat, n \in Nat : ParsedInv(G, n)
    BY <1>1 DEF TextInv
  <1>3. text' = text /\ Cols' = Cols /\ job'.batch_size = job.batch_size
    BY TextSame DEF SameJob
  <1>4. Cols \in Nat \ {0} /\ Len(batch_meta) = G * Cols /\ G * Cols \in Nat
    <2>1. Cols \in Nat \ {0}
      BY Positive DEF ConvertInv
    <2> QED
      BY <1>1, <1>2, <2>1 DEF ParsedInv
  <1>5. ASSUME NEW g \in Nat \ {0}, NEW c \in 1 .. Cols, (g - 1) * Cols + c <= Len(batch_meta)
        PROVE  Chunk(g, c)' = Chunk(g, c)
    <2>1. (g - 1) * Cols \in Nat /\ c \in Nat \ {0}
      BY <1>4
    <2>2. (g - 1) * Cols + c \in 1 .. Len(batch_meta)
      BY <1>4, <1>5, <2>1
    <2> QED
      BY <1>3, <2>2 DEF Chunk
  <1>6. ValuesInv(G)'
    <2>1. (\A c \in 1 .. Cols : \A k \in 1 .. Len(batch[c]) :
               Right(batch[c][k], RowOf(G + 1, k), c))'
      BY <1>2, <1>3, TextSame DEF ParsedInv, ValuesInv
    <2>2. \A g \in 1 .. G + 1, c \in 1 .. Cols : (g - 1) * Cols + c <= Len(batch_meta) =>
              \A k \in 1 .. Len(Chunk(g, c)') : Right(Chunk(g, c)'[k], RowOf(g, k), c)
      BY <1>2, <1>5 DEF ParsedInv, ValuesInv
    <2>3. (\A g \in 1 .. G + 1, c \in 1 .. Cols : (g - 1) * Cols + c <= Len(batch_meta) =>
               \A k \in 1 .. Len(Chunk(g, c)) : Right(Chunk(g, c)[k], RowOf(g, k), c))'
      BY <1>3, <2>2 DEF Right, RowOf, FieldOf, SameJob
    <2> QED
      BY <2>1, <2>3 DEF ValuesInv
  <1>7. n = StoredRows(G) * Cols /\ Complete(n)
    BY <1>2 DEF ParsedInv, FieldsInv, Late
  <1>8. StoredRows(G)' = StoredRows(G)
    <2>1. CASE G = 0
      BY <2>1 DEF StoredRows
    <2>2. CASE G # 0
      <3>1. G \in Nat \ {0} /\ Cols \in 1 .. Cols /\ (G - 1) * Cols + Cols <= Len(batch_meta)
        BY <1>4, <2>2
      <3> QED
        BY <1>3, <1>5, <3>1 DEF StoredRows
    <2> QED
      BY <2>1, <2>2
  <1>9. FieldsInv(G, n)'
    <2>1. Complete(n)'
      BY <1>7, TextSame
    <2> QED
      BY <1>1, <1>3, <1>7, <1>8, <2>1 DEF FieldsInv
  <1>10. Len(batch_meta') = G * Cols' + (IF pc' = "write" THEN j' ELSE 0)
    <2>1. G * Cols + 0 = G * Cols
      BY <1>4
    <2> QED
      BY <1>1, <1>3, <1>4, <2>1
  <1>11. IsSeq(text)'
    BY <1>3 DEF TextInv
  <1> QED
    BY <1>1, <1>6, <1>9, <1>10, <1>11 DEF TextInv, ParsedInv

LEMMA StoreText ==
    ASSUME ConvertInv, TextInv, WriteMeta \/ WriteSchema \/ WriteTrailer
    PROVE  TextInv'
  <1>1. /\ pc \in {"meta", "schema", "trailer"} /\ pc' \in {"schema", "trailer", "stored"}
        /\ UNCHANGED <<job, batch, batch_meta>>
        /\ \/ pc = "meta" /\ file' = Items(file, batch_meta, 16)
           \/ pc = "schema" /\ file' = Items(file, job.columns, 10)
           \/ pc = "trailer" /\ file' = Items(file, <<offset, Len(batch_meta), Cols>>, 8)
    BY WrittenItems DEF WriteMeta, WriteSchema, WriteTrailer, parseVars
  <1>2. /\ Laid(file) /\ IsSeq(batch_meta) /\ offset \in Nat
        /\ Len(batch_meta) \in Nat
        /\ pc = "meta" => Len(file) = Len(batch_meta)
        /\ pc = "schema" => Len(file) = 2 * Len(batch_meta)
        /\ pc = "trailer" => Len(file) = 2 * Len(batch_meta) + Cols
    BY <1>1, SeqLength DEF ConvertInv, FileInv, Reading
  <1>3. Cols \in Nat \ {0} /\ IsSeq(job.columns)
    BY Positive DEF ConvertInv, IsSeq
  <1>4. \E values : \E bytes \in Nat \ {0} :
            IsSeq(values) /\ file' = Items(file, values, bytes)
    <2>1. CASE pc = "meta"
      <3>1. 16 \in Nat \ {0}
        OBVIOUS
      <3> QED
        BY <1>1, <1>2, <2>1, <3>1
    <2>2. CASE pc = "schema"
      <3>1. 10 \in Nat \ {0}
        OBVIOUS
      <3> QED
        BY <1>1, <1>3, <2>2, <3>1
    <2>3. CASE pc = "trailer"
      <3>1. 8 \in Nat \ {0}
        OBVIOUS
      <3>2. <<offset, Len(batch_meta), Cols>> \in Seq(Nat)
        BY <1>2, <1>3
      <3>3. IsSeq(<<offset, Len(batch_meta), Cols>>)
        BY <3>2 DEF IsSeq
      <3> QED
        BY <1>1, <2>3, <3>1, <3>3
    <2> QED
      BY <1>1, <2>1, <2>2, <2>3
  <1>5. \A k \in 1 .. Len(file) : file'[k] = file[k]
    <2>1. PICK values : \E bytes \in Nat \ {0} :
                            IsSeq(values) /\ file' = Items(file, values, bytes)
      BY <1>4
    <2>2. PICK bytes \in Nat \ {0} : IsSeq(values) /\ file' = Items(file, values, bytes)
      BY <2>1
    <2>3. Behind(Items(file, values, bytes), file, values, bytes)
      BY <1>2, <2>2, ItemsLaid
    <2> QED
      BY <2>2, <2>3 DEF Behind
  <1>6. \A k \in 1 .. Len(batch_meta) : k \in 1 .. Len(file)
    BY <1>1, <1>2, <1>3
  <1>7. SameJob
    BY <1>1, JobSame
  <1> QED
    BY <1>1, <1>5, <1>6, <1>7, ChunksStay DEF Late, Stored

LEMMA ReadText ==
    ASSUME ConvertInv, TextInv,
           ReadTrailer \/ ReadMeta \/ ReadChunk \/ PrintField \/ GroupPrinted \/ Printed
    PROVE  TextInv'
  <1>1. /\ pc \in Late /\ pc' \in Late /\ UNCHANGED <<batch, file>>
    BY DEF ReadTrailer, ReadMeta, ReadChunk, PrintField, GroupPrinted, Printed, parseVars,
           storeVars, Late, Stored
  <1>2. CASE ReadMeta
    <2>1. /\ Len(batch_meta') = Len(batch_meta)
          /\ job'.batch_size = job.batch_size /\ job'.columns = job.columns
      BY <1>2, MetaRead
    <2>2. job'.text = job.text
      <3>1. "text" \in DOMAIN job
        BY DEF ConvertInv, JobInv
      <3>2. \E x : job' = [job EXCEPT !.columns = x]
        BY <1>2 DEF ReadMeta
      <3> QED
        BY <3>1, <3>2
    <2>3. SameJob
      BY <2>1, <2>2 DEF SameJob
    <2> QED
      BY <1>1, <2>1, <2>3, ChunksStay
  <1>3. CASE ReadTrailer \/ ReadChunk \/ PrintField \/ GroupPrinted \/ Printed
    <2>1. UNCHANGED <<job, batch_meta>>
      BY <1>3 DEF ReadTrailer, ReadChunk, PrintField, GroupPrinted, Printed, storeVars
    <2>2. SameJob
      BY <2>1, JobSame
    <2> QED
      BY <1>1, <2>1, <2>2, ChunksStay
  <1> QED
    BY <1>2, <1>3

\* A text of which nothing is read.
LEMMA BeginText ==
    ASSUME JobInv, IsSeq(text), rpos = 0, batch_meta = <<>>, pc = "group",
           \A c \in 1 .. Cols : batch[c] = <<>>
    PROVE  TextInv
  <1>1. Cols \in Nat \ {0} /\ Len(text) \in Nat
    BY Positive, SeqLength
  <1>2. Len(<<>>) = 0 /\ 1 .. 0 = {} /\ 0 \in 0 .. Len(text)
    BY <1>1
  <1>3. /\ SeparatorsIn(text, 0) = 0 /\ ~ Quoted(text, 1) /\ Pending(text, 0) = <<>>
    BY SeparatorsNext, QuotedNext, PendingStart
  <1>4. AtField(0) /\ current_str = current_str
    BY <1>2, <1>3 DEF AtField, LinesInv
  <1>5. AtLine(0)
    <2>1. 0 + 1 = 1
      OBVIOUS
    <2> QED
      BY <1>3, <1>4, <2>1 DEF AtLine
  <1>6. Eof => Complete(0)
    <2> SUFFICES ASSUME Eof PROVE Complete(0)
      OBVIOUS
    <2>1. Len(text) = 0
      BY <1>1 DEF Eof
    <2>2. FieldText(text, 0 + 1) = <<>>
      BY <1>3, <2>1, TextEnds
    <2>3. FieldCount(text) = 0
      BY <1>3, <2>1, <2>2 DEF FieldCount
    <2>4. LinesInv(0)
      BY <1>2 DEF LinesInv
    <2> QED
      BY <1>3, <2>1, <2>3, <2>4 DEF Complete
  <1>7. ValuesInv(0)
    <2>1. ASSUME NEW g \in 1 .. 0 + 1, NEW c \in 1 .. Cols PROVE ~ ((g - 1) * Cols + c <= 0)
      <3>1. g - 1 = 0 /\ 0 * Cols = 0
        BY <1>1
      <3> QED
        BY <1>1, <3>1
    <2> QED
      BY <1>2, <2>1 DEF ValuesInv
  <1>8. FieldsInv(0, 0)
    <2>1. StoredRows(0) * Cols = 0
      BY <1>1 DEF StoredRows
    <2> QED
      BY <1>5, <1>6, <2>1 DEF FieldsInv, Stored
  <1>9. Len(batch_meta) = 0 * Cols + 0
    BY <1>1, <1>2
  <1> QED
    BY <1>7, <1>8, <1>9 DEF TextInv, ParsedInv

LEMMA InitText == ASSUME Init PROVE TextInv
  <1>1. JobInv
    BY InitInv DEF ConvertInv
  <1>2. IsSeq(text)
    <2>1. job \in [text : Seq(ToSet(job.text)), columns : Seq({"int64", "string"}) \ {<<>>},
                   batch_size : Nat \ {0}]
      BY JobsAssumption DEF Init
    <2> QED
      BY <2>1 DEF IsSeq, text
  <1> QED
    BY <1>1, <1>2, BeginText DEF Init, ParseInit

\* Again begins with the text printed.
LEMMA AgainText == ASSUME ConvertInv, TextInv, Again, IsSeq(csv) PROVE TextInv'
  <1>1. ConvertInv'
    BY AgainStep
  <1>2. /\ pc' = "group" /\ rpos' = 0 /\ batch_meta' = <<>> /\ job' = [job EXCEPT !.text = csv]
    BY DEF Again
  <1>3. JobInv' /\ \A c \in 1 .. Cols' : batch'[c] = <<>>
    BY <1>1, <1>2 DEF ConvertInv, BatchInv
  <1>4. text' = csv
    BY <1>2 DEF text, ConvertInv, JobInv
  <1>5. IsSeq(text)'
    BY <1>4
  <1>6. (JobInv /\ IsSeq(text) /\ rpos = 0 /\ batch_meta = <<>> /\ pc = "group"
         /\ (\A c \in 1 .. Cols : batch[c] = <<>>) => TextInv)'
    BY BeginText, PTL
  <1> QED
    BY <1>2, <1>3, <1>5, <1>6

LEMMA NextText == ASSUME ConvertInv, TextInv, pc = "printed" => IsSeq(csv), [Next]_vars
                  PROVE  TextInv'
  <1>1. CASE UNCHANGED vars
    <2>1. UNCHANGED <<job, pc, rpos, row, status, lock, current_str, batch, batch_meta, file, j>>
      BY <1>1 DEF vars, parseVars, storeVars, printVars
    <2>2. SameJob /\ text' = text /\ Cols' = Cols
      BY <2>1, JobSame, TextSame
    <2>3. CASE pc = "error"
      BY <2>1, <2>2, <2>3, TextSame DEF TextInv
    <2>4. CASE pc # "error"
      <3>1. PICK G \in Nat, n \in Nat : ParsedInv(G, n)
        BY <2>4 DEF TextInv
      <3>2. ValuesInv(G)'
        BY <2>1, <2>2, <3>1, ValuesSame DEF ParsedInv
      <3>3. StoredRows(G)' = StoredRows(G) /\ GroupLen(G)' = GroupLen(G)
        BY <2>1, <2>2 DEF StoredRows, GroupLen, Chunk
      <3>4. /\ AtLine(n)' <=> AtLine(n)
            /\ InLine(n)' <=> InLine(n)
            /\ Complete(n)' <=> Complete(n)
            /\ Eof' <=> Eof
        BY <2>1, <2>2, TextSame, PlaceSame
      <3>5. FieldsInv(G, n)'
        BY <2>1, <2>2, <3>1, <3>3, <3>4 DEF ParsedInv, FieldsInv, Partly
      <3>6. Len(batch_meta') = G * Cols' + (IF pc' = "write" THEN j' ELSE 0)
        BY <2>1, <2>2, <3>1 DEF ParsedInv
      <3>7. IsSeq(text)'
        BY <2>2 DEF TextInv
      <3> QED
        BY <2>1, <2>4, <3>2, <3>5, <3>6, <3>7 DEF TextInv, ParsedInv
    <2> QED
      BY <2>3, <2>4
  <1>3. Again => IsSeq(csv)
    BY DEF Again
  <1> QED
    BY <1>1, <1>3, NextGroupText, NextRowText, RejectFieldText, EndFieldText, TakeCharText,
       InputEndsText, RowDoneText, LastRowText, RejectLastRowText, NoLastRowText,
       WriteChunkText, GroupWrittenText, StoreText, ReadText, AgainText DEF Next

-----------------------------------------------------------------------------
(* The table stored                                                        *)

\* The rows of the first n groups, one group after the other.
WithGroup(s, g) == s \o GroupRows(g)

UpTo(n, e) == e = [g \in 0 .. n |-> IF g = 0 THEN <<>> ELSE WithGroup(e[g - 1], g)]

LEMMA UpToExists == \A n \in Nat : \E e : UpTo(n, e)
  <1> DEFINE Good == {n \in Nat : \E e : UpTo(n, e)}
  <1>1. 0 \in Good
    <2>1. UpTo(0, [g \in 0 .. 0 |-> <<>>])
      BY DEF UpTo
    <2> QED
      BY <2>1
  <1>2. ASSUME NEW n \in Good PROVE n + 1 \in Good
    <2>1. PICK e : UpTo(n, e)
      OBVIOUS
    <2> DEFINE u == [g \in 0 .. n + 1 |-> IF g = n + 1 THEN WithGroup(e[n], g) ELSE e[g]]
    <2>2. UpTo(n + 1, u)
      <3>1. ASSUME NEW g \in 0 .. n + 1
            PROVE  u[g] = IF g = 0 THEN <<>> ELSE WithGroup(u[g - 1], g)
        <4>1. n \in Nat
          OBVIOUS
        <4>2. CASE g = 0
          BY <2>1, <4>1, <4>2 DEF UpTo
        <4>3. CASE g \in 1 .. n
          <5>1. u[g] = e[g] /\ u[g - 1] = e[g - 1]
            BY <4>1, <4>3
          <5>2. e[g] = WithGroup(e[g - 1], g)
            <6>1. g \in 0 .. n /\ g # 0
              BY <4>1, <4>3
            <6> QED
              BY <2>1, <6>1 DEF UpTo
          <5> QED
            BY <4>1, <4>3, <5>1, <5>2
        <4>4. CASE g = n + 1
          <5>1. u[g] = WithGroup(e[n], g) /\ u[g - 1] = e[n]
            BY <4>1, <4>4
          <5> QED
            BY <4>1, <4>4, <5>1
        <4> QED
          BY <4>1, <4>2, <4>3, <4>4
      <3> HIDE DEF u
      <3>2. u = [g \in 0 .. n + 1 |-> u[g]]
        BY DEF u
      <3> QED
        BY <3>1, <3>2 DEF UpTo
    <2> HIDE DEF u
    <2>3. n + 1 \in Nat /\ \E h : UpTo(n + 1, h)
      BY <2>2
    <2> QED
      BY <2>3
  <1> HIDE DEF Good
  <1>3. \A n \in Nat : n \in Good
    BY <1>1, <1>2, SetInduction
  <1> QED
    BY <1>3 DEF Good

LEMMA TableUpTo ==
    ASSUME Groups \in Nat
    PROVE  \E e : UpTo(Groups, e) /\ Table = e[Groups]
  <1> DEFINE f == CHOOSE e : UpTo(Groups, e)
  <1>1. \E e : UpTo(Groups, e)
    BY UpToExists
  <1>2. UpTo(Groups, f)
    BY <1>1
  <1>3. Table = f[Groups]
    BY Zenon DEF Table, UpTo, WithGroup
  <1> QED
    BY <1>2, <1>3

\* The rows are what the text says of the first n lines.
RowsRight(s, n) ==
    /\ IsSeq(s) /\ Len(s) = n
    /\ \A x \in 1 .. n : /\ DOMAIN s[x] = 1 .. Cols /\ s[x] = [c \in 1 .. Cols |-> s[x][c]]
                         /\ \A c \in 1 .. Cols : Right(s[x][c], x, c)

\* The columns of group g + 1 have L values, of the rows from n + 1 on.
GroupGives(g, n, L) ==
    /\ \A c \in 1 .. Cols : Len(Chunk(g + 1, c)) = L
    /\ \A k \in 1 .. L : RowOf(g + 1, k) = n + k
    /\ \A c \in 1 .. Cols : \A k \in 1 .. L : Right(Chunk(g + 1, c)[k], RowOf(g + 1, k), c)

\* One group more.
LEMMA GroupRight ==
    ASSUME Cols \in Nat \ {0}, NEW g \in Nat, NEW n \in Nat, NEW s, RowsRight(s, n),
           NEW L \in Nat, GroupGives(g, n, L)
    PROVE  RowsRight(s \o GroupRows(g + 1), n + L)
  <1>1. PICK t : t = GroupRows(g + 1)
    OBVIOUS
  <1>2. Len(Chunk(g + 1, 1)) = L /\ 1 \in 1 .. Cols
    BY DEF GroupGives
  <1>3. t = [k \in 1 .. L |-> [c \in 1 .. Cols |-> Chunk(g + 1, c)[k]]]
    BY <1>1, <1>2 DEF GroupRows
  <1>4. IsSeq(t) /\ Len(t) = L
    <2> DEFINE T == {t[k] : k \in 1 .. L}
    <2>1. t \in [1 .. L -> T]
      BY <1>3
    <2> HIDE DEF T
    <2>2. t \in Seq(T) /\ Len(t) = L
      BY <2>1
    <2> QED
      BY <2>2 DEF IsSeq
  <1>5. \A k \in 1 .. L : t[k] = [c \in 1 .. Cols |-> Chunk(g + 1, c)[k]]
    BY <1>3
  <1>6. IsSeq(s) /\ Len(s) = n
    BY DEF RowsRight
  <1>7. PICK u : u = s \o t
    OBVIOUS
  <1>8. /\ IsSeq(u) /\ Len(u) = n + L
        /\ \A k \in 1 .. n : u[k] = s[k]
        /\ \A k \in 1 .. L : u[n + k] = t[k]
    <2>1. /\ IsSeq(s \o t) /\ Len(s \o t) = Len(s) + Len(t)
          /\ \A k \in 1 .. Len(s) : (s \o t)[k] = s[k]
          /\ \A k \in 1 .. Len(t) : (s \o t)[Len(s) + k] = t[k]
      <3>1. IsSeq(s) /\ IsSeq(t)
        BY <1>4, <1>6
      <3> QED
        BY <3>1, SeqConcat
    <2> QED
      BY <1>4, <1>6, <1>7, <2>1
  <1>9. ASSUME NEW x \in 1 .. n + L
        PROVE  /\ DOMAIN u[x] = 1 .. Cols /\ u[x] = [c \in 1 .. Cols |-> u[x][c]]
               /\ \A c \in 1 .. Cols : Right(u[x][c], x, c)
    <2>1. CASE x \in 1 .. n
      <3>1. u[x] = s[x]
        BY <1>8, <2>1
      <3> QED
        BY <2>1, <3>1 DEF RowsRight
    <2>2. CASE ~ (x \in 1 .. n)
      <3>1. PICK k \in 1 .. L : x = n + k
        <4>1. x - n \in 1 .. L /\ x = n + (x - n)
          BY <2>2
        <4> QED
          BY <4>1
      <3>2. u[x] = [c \in 1 .. Cols |-> Chunk(g + 1, c)[k]]
        BY <1>5, <1>8, <3>1
      <3>3. RowOf(g + 1, k) = x
        BY <3>1 DEF GroupGives
      <3>4. \A c \in 1 .. Cols : Right(Chunk(g + 1, c)[k], x, c)
        BY <3>3 DEF GroupGives
      <3>5. \A c \in 1 .. Cols : u[x][c] = Chunk(g + 1, c)[k]
        BY <3>2
      <3> QED
        BY <3>2, <3>4, <3>5
    <2> QED
      BY <2>1, <2>2
  <1>10. RowsRight(u, n + L)
    BY <1>8, <1>9 DEF RowsRight
  <1> QED
    BY <1>1, <1>7, <1>10

\* The rows of a complete file.
LEMMA TableRight ==
    ASSUME ConvertInv, pc \in Stored, NEW G \in Nat, GroupsInv(G), ValuesInv(G)
    PROVE  RowsRight(Table, StoredRows(G))
  <1>1. /\ Cols \in Nat \ {0} /\ job.batch_size \in Nat /\ Len(batch_meta) = G * Cols
        /\ \A g \in 1 .. G, c \in 1 .. Cols : Len(Chunk(g, c)) = Len(Chunk(g, 1))
        /\ \A g \in 1 .. G : g < G => Len(Chunk(g, 1)) = job.batch_size
    <2>1. Cols \in Nat \ {0} /\ job.batch_size \in Nat
      BY Positive DEF ConvertInv
    <2>2. /\ Len(batch_meta) = G * Cols + 0
          /\ \A g \in 1 .. G, c \in 1 .. Cols : Len(Chunk(g, c)) = Len(Chunk(g, 1))
          /\ \A g \in 1 .. G : g < G => Len(Chunk(g, 1)) = job.batch_size
      BY DEF GroupsInv, MustBeFull, Stored
    <2>3. G * Cols + 0 = G * Cols
      BY <2>1
    <2> QED
      BY <2>1, <2>2, <2>3
  <1>2. Groups = G
    BY <1>1, NoRemainder DEF Groups
  <1>3. PICK e : UpTo(G, e) /\ Table = e[G]
    BY <1>2, TableUpTo
  <1>4. e[0] = <<>> /\ \A g \in 1 .. G : e[g] = e[g - 1] \o GroupRows(g)
    <2>1. e[0] = <<>>
      BY <1>3 DEF UpTo
    <2>2. ASSUME NEW g \in 1 .. G PROVE e[g] = e[g - 1] \o GroupRows(g)
      <3>1. g \in 0 .. G /\ g # 0
        OBVIOUS
      <3>2. e[g] = WithGroup(e[g - 1], g)
        BY <1>3, <3>1 DEF UpTo
      <3> QED
        BY <3>2 DEF WithGroup
    <2> QED
      BY <2>1, <2>2
  <1>5. ASSUME NEW g \in 1 .. G, NEW c \in 1 .. Cols
        PROVE  Len(Chunk(g, c)) \in Nat /\ (g - 1) * Cols + c <= Len(batch_meta)
    <2>1. (g - 1) * Cols + c \in 1 .. G * Cols
      BY <1>1, GroupIndex
    <2>2. IsSeq(Chunk(g, c))
      BY <1>1, <2>1, StoredFile DEF ChunksInv, Chunk
    <2>3. G * Cols \in Nat
      BY <1>1
    <2> QED
      BY <1>1, <2>1, <2>2, <2>3, SeqLength
  <1> DEFINE Good == {g \in Nat : g <= G => StoredRows(g) \in Nat /\ RowsRight(e[g], StoredRows(g))}
  <1>6. 0 \in Good
    <2>1. StoredRows(0) = 0 /\ Len(<<>>) = 0 /\ 1 .. 0 = {}
      BY DEF StoredRows
    <2> QED
      BY <1>4, <2>1, EmptyIsSeq DEF RowsRight
  <1>7. ASSUME NEW g \in Nat, g \in Good PROVE g + 1 \in Good
    <2> SUFFICES ASSUME g + 1 <= G
                 PROVE  StoredRows(g + 1) \in Nat /\ RowsRight(e[g + 1], StoredRows(g + 1))
      OBVIOUS
    <2>1. g + 1 \in 1 .. G /\ (g + 1) - 1 = g /\ g + 1 # 0 /\ g <= G /\ Cols \in 1 .. Cols
          /\ 1 \in 1 .. Cols
      BY <1>1
    <2>2. PICK L \in Nat : L = Len(Chunk(g + 1, 1))
      BY <1>5, <2>1
    <2>3. \A c \in 1 .. Cols : Len(Chunk(g + 1, c)) = L
      BY <1>1, <2>1, <2>2
    <2>4. StoredRows(g) = g * job.batch_size
      <3>1. CASE g = 0
        <4>1. 0 * job.batch_size = 0
          BY <1>1
        <4> QED
          BY <3>1, <4>1 DEF StoredRows
      <3>2. CASE g # 0
        <4>1. g \in 1 .. G /\ g < G
          BY <2>1, <3>2
        <4>2. Len(Chunk(g, Cols)) = job.batch_size
          BY <1>1, <2>1, <4>1
        <4>3. (g - 1) * job.batch_size + job.batch_size = g * job.batch_size
          <5>1. PICK b \in Nat : b = job.batch_size
            BY <1>1
          <5>2. (g - 1) * b + b = g * b
            OBVIOUS
          <5> QED
            BY <5>1, <5>2
        <4> QED
          BY <3>2, <4>2, <4>3 DEF StoredRows
      <3> QED
        BY <3>1, <3>2
    <2>5. PICK n \in Nat : n = g * job.batch_size
      BY <1>1
    <2>6. StoredRows(g + 1) = n + L
      BY <2>1, <2>3, <2>5 DEF StoredRows
    <2>7. RowsRight(e[g], n)
      BY <1>7, <2>1, <2>4, <2>5
    <2>8. \A k \in 1 .. L : RowOf(g + 1, k) = n + k
      BY <2>1, <2>5 DEF RowOf
    <2>9. \A c \in 1 .. Cols : \A k \in 1 .. L :
              Right(Chunk(g + 1, c)[k], RowOf(g + 1, k), c)
      <3>1. g + 1 \in 1 .. G + 1
        BY <2>1
      <3>2. \A c \in 1 .. Cols : ((g + 1) - 1) * Cols + c <= Len(batch_meta)
        BY <1>5, <2>1
      <3> QED
        BY <2>3, <3>1, <3>2 DEF ValuesInv
    <2>10. RowsRight(e[g] \o GroupRows(g + 1), n + L)
      BY <1>1, <2>3, <2>7, <2>8, <2>9, GroupRight DEF GroupGives
    <2>11. e[g + 1] = e[g] \o GroupRows(g + 1)
      BY <1>4, <2>1
    <2> QED
      BY <2>6, <2>10, <2>11
  <1> HIDE DEF Good
  <1>8. \A g \in Nat : g \in Good
    BY <1>6, <1>7, SetInduction
  <1> QED
    BY <1>3, <1>8 DEF Good

\* Every field is of a line and a column.
LEMMA FieldIs ==
    ASSUME Cols \in Nat \ {0}, NEW N \in Nat, NEW m \in 1 .. N * Cols
    PROVE  \E x \in 1 .. N, c \in 1 .. Cols : m = FieldOf(x, c)
  <1>1. PICK C \in Nat \ {0} : C = Cols
    OBVIOUS
  <1>2. N * C \in Nat /\ m - 1 \in Nat /\ m - 1 < N * C
    BY <1>1
  <1>3. PICK q \in Int, y \in 0 .. C - 1 : m - 1 = (q * C) + y
    <2>1. m - 1 = (((m - 1) \div C) * C) + ((m - 1) % C)
      BY <1>2
    <2>2. (m - 1) \div C \in Int /\ (m - 1) % C \in 0 .. C - 1
      BY <1>2
    <2> QED
      BY <2>1, <2>2
  <1>4. q \in 0 .. N - 1
    <2>1. ~ (q < 0)
      <3>1. q < 0 => (q + 1) * C <= 0 * C
        BY TimesMonotone
      <3>2. (q + 1) * C = q * C + C /\ q * C \in Int /\ 0 * C = 0
        OBVIOUS
      <3> QED
        BY <1>2, <1>3, <3>1, <3>2
    <2>2. ~ (q >= N)
      <3>1. q >= N => N * C <= q * C
        BY TimesMonotone
      <3>2. q * C \in Int
        OBVIOUS
      <3> QED
        BY <1>2, <1>3, <3>1, <3>2
    <2> QED
      BY <2>1, <2>2
  <1>5. q + 1 \in 1 .. N /\ y + 1 \in 1 .. Cols
    BY <1>1, <1>4
  <1>6. m = FieldOf(q + 1, y + 1)
    <2>1. (q + 1) - 1 = q /\ q * C \in Nat
      BY <1>4
    <2> QED
      BY <1>1, <1>3, <2>1 DEF FieldOf
  <1> QED
    BY <1>5, <1>6

\* What is known of a stored file: its N rows are those of the text.
LEMMA StoredRight ==
    ASSUME ConvertInv, TextInv, pc \in Stored
    PROVE  \E G \in Nat, N \in Nat :
               /\ GroupsInv(G) /\ ValuesInv(G) /\ N = StoredRows(G)
               /\ RowsRight(Table, N) /\ Complete(N * Cols)
  <1>1. PICK G \in Nat, n \in Nat : ParsedInv(G, n)
    BY DEF TextInv, Stored
  <1>2. PICK H \in Nat : GroupsInv(H)
    BY DEF ConvertInv, Stored
  <1>3. G = H
    <2>1. Cols \in Nat \ {0}
      BY Positive DEF ConvertInv
    <2>2. Len(batch_meta) = G * Cols + 0 /\ Len(batch_meta) = H * Cols + 0
      BY <1>1, <1>2 DEF ParsedInv, GroupsInv, Stored
    <2>3. G * Cols + 0 = G * Cols /\ H * Cols + 0 = H * Cols
      BY <2>1
    <2>4. (G * Cols) \div Cols = G /\ (H * Cols) \div Cols = H
      BY <2>1, NoRemainder
    <2> QED
      BY <2>2, <2>3, <2>4
  <1>4. ValuesInv(G) /\ n = StoredRows(G) * Cols /\ Complete(n)
    BY <1>1 DEF ParsedInv, FieldsInv
  <1>5. RowsRight(Table, StoredRows(G))
    BY <1>2, <1>3, <1>4, TableRight
  <1>6. StoredRows(G) \in Nat
    <2>1. IsSeq(Table) /\ Len(Table) = StoredRows(G)
      BY <1>5 DEF RowsRight
    <2> QED
      BY <2>1, SeqLength
  <1> QED
    BY <1>2, <1>3, <1>4, <1>5, <1>6

\* Rows that are what the text says are those of the reference, and then the
\* text is accepted.
LEMMA RowsRead ==
    ASSUME JobInv, NEW N \in Nat, NEW s, RowsRight(s, N), Complete(N * Cols)
    PROVE  Accepts(text) /\ s = RowsOfText(text)
  <1>1. Cols \in Nat \ {0} /\ FieldCount(text) = N * Cols
    BY Positive DEF Complete
  <1>2. ASSUME NEW x \in 1 .. N, NEW c \in 1 .. Cols
        PROVE  /\ ~ Invalid(TypeOf(FieldOf(x, c)), FieldText(text, FieldOf(x, c)))
               /\ s[x][c] = ConvertType(TypeOf(FieldOf(x, c)), FieldText(text, FieldOf(x, c)))
    <2>1. Right(s[x][c], x, c)
      BY DEF RowsRight
    <2>2. TypeOf(FieldOf(x, c)) = job.columns[c]
      BY FieldColumn
    <2> QED
      BY <2>1, <2>2 DEF Right
  <1>3. Accepts(text)
    <2>1. \A m \in 1 .. SeparatorsIn(text, Len(text)) :
              (text[Separator(text, m)] = Newline) <=> (m % Cols = 0)
      BY DEF Complete, LinesInv
    <2>2. FieldCount(text) % Cols = 0
      <3>1. N * Cols + 0 = N * Cols /\ 0 \in 0 .. Cols - 1
        BY <1>1
      <3>2. (N * Cols + 0) % Cols = 0
        BY <1>1, <3>1, Remainder
      <3> QED
        BY <1>1, <3>1, <3>2
    <2>3. ASSUME NEW m \in 1 .. FieldCount(text)
          PROVE  ~ Invalid(TypeOf(m), FieldText(text, m))
      <3>1. PICK x \in 1 .. N, c \in 1 .. Cols : m = FieldOf(x, c)
        BY <1>1, FieldIs
      <3> QED
        BY <1>2, <3>1
    <2> QED
      BY <2>1, <2>2, <2>3 DEF Accepts
  <1>4. s = RowsOfText(text)
    <2>1. FieldCount(text) \div Cols = N
      BY <1>1, NoRemainder
    <2>2. s = [x \in 1 .. N |-> s[x]]
      <3>1. PICK S : s \in Seq(S)
        BY DEF RowsRight, IsSeq
      <3>2. Len(s) = N
        BY DEF RowsRight
      <3> QED
        BY <3>1, <3>2
    <2>3. ASSUME NEW x \in 1 .. N
          PROVE  s[x] = [c \in 1 .. Cols |->
                             ConvertType(TypeOf((x - 1) * Cols + c), FieldText(text, (x - 1) * Cols + c))]
      <3>1. s[x] = [c \in 1 .. Cols |-> s[x][c]]
        BY DEF RowsRight
      <3>2. \A c \in 1 .. Cols :
                s[x][c] = ConvertType(TypeOf((x - 1) * Cols + c), FieldText(text, (x - 1) * Cols + c))
        BY <1>2 DEF FieldOf
      <3> QED
        BY <3>1, <3>2, Zenon
    <2> QED
      BY <2>1, <2>2, <2>3, Zenon DEF RowsOfText
  <1> QED
    BY <1>3, <1>4

LEMMA Rows == ASSUME ConvertInv, TextInv PROVE RowsAsWritten
  <1>1. ASSUME pc = "stored" PROVE Accepts(text) /\ Table = RowsOfText(text)
    <2>1. PICK G \in Nat, N \in Nat : RowsRight(Table, N) /\ Complete(N * Cols)
      BY <1>1, StoredRight DEF Stored
    <2> QED
      BY <2>1, RowsRead DEF ConvertInv
  <1> QED
    BY <1>1 DEF RowsAsWritten, TextInv

-----------------------------------------------------------------------------
(* Texts that begin alike                                                  *)

LEMMA SeparatorOrder ==
    ASSUME NEW t, IsSeq(t), NEW m \in 1 .. SeparatorsIn(t, Len(t)) + 1
    PROVE  /\ Separator(t, m - 1) \in 0 .. Len(t) /\ Separator(t, m) \in 1 .. Len(t) + 1
           /\ Separator(t, m - 1) < Separator(t, m)
           /\ m <= SeparatorsIn(t, Len(t)) => Separator(t, m) \in 1 .. Len(t)
  <1>1. PICK n \in Nat : n = SeparatorsIn(t, Len(t))
    BY SeqLength, SeparatorsNext
  <1>2. PICK L \in Nat : L = Len(t)
    BY SeqLength
  <1>3. ASSUME NEW i \in 1 .. n
        PROVE  Separator(t, i) \in 1 .. L /\ SeparatorsIn(t, Separator(t, i)) = i
    <2>1. L \in 0 .. L /\ i \in 1 .. SeparatorsIn(t, L)
      BY <1>1, <1>2
    <2> QED
      BY <1>2, <2>1, SeparatorAt
  <1>4. Separator(t, 0) = 0 /\ SeparatorsIn(t, 0) = 0
    BY SeparatorsNext DEF Separator
  <1>5. Separator(t, m - 1) \in 0 .. L /\ SeparatorsIn(t, Separator(t, m - 1)) = m - 1
    <2>1. m - 1 = 0 \/ m - 1 \in 1 .. n
      BY <1>1
    <2> QED
      BY <1>3, <1>4, <2>1
  <1>6. CASE m \in 1 .. n
    <2>1. Separator(t, m) \in 1 .. L /\ SeparatorsIn(t, Separator(t, m)) = m
      BY <1>3, <1>6
    <2>2. Separator(t, m - 1) < Separator(t, m)
      <3> SUFFICES ASSUME ~ (Separator(t, m - 1) < Separator(t, m)) PROVE FALSE
        OBVIOUS
      <3>1. Separator(t, m) \in 0 .. Separator(t, m - 1) /\ Separator(t, m - 1) \in Nat
        BY <1>5, <2>1
      <3>2. SeparatorsIn(t, Separator(t, m)) <= SeparatorsIn(t, Separator(t, m - 1))
        BY <3>1, SeparatorsGrow
      <3> QED
        BY <1>5, <2>1, <3>2
    <2> QED
      BY <1>1, <1>2, <1>5, <1>6, <2>1, <2>2
  <1>7. CASE m = n + 1
    <2>1. Separator(t, m) = L + 1
      BY <1>1, <1>2, <1>7 DEF Separator
    <2> QED
      BY <1>1, <1>2, <1>5, <1>7, <2>1
  <1> QED
    BY <1>1, <1>6, <1>7

LEMMA SubSeqSame ==
    ASSUME NEW t, IsSeq(t), NEW u, IsSeq(u), NEW a \in Nat \ {0}, NEW b \in Nat,
           a <= b + 1, b <= Len(t), b <= Len(u), \A k \in 1 .. b : u[k] = t[k]
    PROVE  SubSeq(u, a, b) = SubSeq(t, a, b)
  <1>1. PICK S : t \in Seq(S)
    BY DEF IsSeq
  <1>2. PICK T : u \in Seq(T)
    BY DEF IsSeq
  <1>3. /\ SubSeq(t, a, b) \in Seq(S) /\ Len(SubSeq(t, a, b)) = b + 1 - a
        /\ \A k \in 1 .. b + 1 - a : SubSeq(t, a, b)[k] = t[a + k - 1]
    BY <1>1
  <1>4. /\ SubSeq(u, a, b) \in Seq(T) /\ Len(SubSeq(u, a, b)) = b + 1 - a
        /\ \A k \in 1 .. b + 1 - a : SubSeq(u, a, b)[k] = u[a + k - 1]
    BY <1>2
  <1>5. \A k \in 1 .. b + 1 - a : a + k - 1 \in 1 .. b
    OBVIOUS
  <1>6. \A k \in 1 .. b + 1 - a : SubSeq(u, a, b)[k] = SubSeq(t, a, b)[k]
    BY <1>3, <1>4, <1>5
  <1>7. SubSeq(t, a, b) \in Seq(S \cup T) /\ SubSeq(u, a, b) \in Seq(S \cup T)
    BY <1>3, <1>4
  <1> QED
    BY <1>3, <1>4, <1>6, <1>7, SeqEqual

LEMMA PrefixSame ==
    ASSUME NEW t, IsSeq(t), NEW u, IsSeq(u), Len(t) <= Len(u), \A k \in 1 .. Len(t) : u[k] = t[k]
    PROVE  /\ SeparatorsIn(u, Len(t)) = SeparatorsIn(t, Len(t))
           /\ Quoted(u, Len(t) + 1) <=> Quoted(t, Len(t) + 1)
           /\ Pending(u, Len(t)) = Pending(t, Len(t))
           /\ \A m \in 1 .. SeparatorsIn(t, Len(t)) :
                  /\ Separator(u, m) = Separator(t, m) /\ FieldText(u, m) = FieldText(t, m)
                  /\ u[Separator(u, m)] = t[Separator(t, m)]
  <1>1. PICK L \in Nat : L = Len(t)
    BY SeqLength
  <1>2. Len(u) \in Nat /\ L <= Len(u)
    BY <1>1, SeqLength
  <1>3. ASSUME NEW n \in 0 .. L PROVE Quoted(u, n + 1) <=> Quoted(t, n + 1)
    <2>1. n \in Nat /\ \A k \in 1 .. n : k \in QuotesOf(u) <=> k \in QuotesOf(t)
      BY <1>1 DEF QuotesOf
    <2>2. CountIn(QuotesOf(u), n) = CountIn(QuotesOf(t), n)
      BY <2>1, CountSame
    <2> QED
      BY <2>1, <2>2, AsCounts
  <1>4. ASSUME NEW k \in 1 .. L PROVE Separates(u, k) <=> Separates(t, k)
    <2>1. k - 1 \in 0 .. L /\ (k - 1) + 1 = k
      OBVIOUS
    <2>2. Quoted(u, k) <=> Quoted(t, k)
      BY <1>3, <2>1
    <2> QED
      BY <1>1, <2>2 DEF Separates
  <1>5. ASSUME NEW n \in 0 .. L PROVE SeparatorsIn(u, n) = SeparatorsIn(t, n)
    <2>1. n \in Nat /\ \A k \in 1 .. n : k \in SeparatorsOf(u) <=> k \in SeparatorsOf(t)
      BY <1>4 DEF SeparatorsOf
    <2>2. CountIn(SeparatorsOf(u), n) = CountIn(SeparatorsOf(t), n)
      BY <2>1, CountSame
    <2> QED
      BY <2>1, <2>2, AsCounts
  <1>6. PICK N \in Nat : N = SeparatorsIn(t, L)
    BY SeparatorsNext
  <1>7. ASSUME NEW m \in 0 .. N
        PROVE  Separator(u, m) = Separator(t, m) /\ Separator(t, m) \in 0 .. L
               /\ (m # 0 => Separator(t, m) \in 1 .. L)
    <2>1. CASE m = 0
      BY <2>1 DEF Separator
    <2>2. CASE m # 0
      <3>1. L \in 0 .. L /\ m \in 1 .. SeparatorsIn(t, L)
        BY <1>6, <2>2
      <3>2. PICK k \in 1 .. L : k = Separator(t, m) /\ Separates(t, k) /\ SeparatorsIn(t, k) = m
        BY <1>1, <3>1, SeparatorAt
      <3>3. k \in 0 .. L /\ k \in 1 .. Len(u)
        BY <1>2
      <3>4. Separates(u, k) /\ SeparatorsIn(u, k) = m
        BY <1>4, <1>5, <3>2, <3>3
      <3>5. Separator(u, SeparatorsIn(u, k)) = k
        BY <1>2, <3>3, <3>4, SeparatorIs
      <3> QED
        BY <3>2, <3>3, <3>4, <3>5
    <2> QED
      BY <2>1, <2>2
  <1>8. Pending(u, L) = Pending(t, L)
    <2>1. SeparatorsIn(u, L) = N /\ N \in 0 .. N
      BY <1>5, <1>6
    <2>2. PICK a \in Nat : a = Separator(t, N) /\ a = Separator(u, N) /\ a <= L
      BY <1>7, <2>1
    <2>3. a + 1 \in Nat \ {0} /\ a + 1 <= L + 1
      BY <2>2
    <2>4. SubSeq(u, a + 1, L) = SubSeq(t, a + 1, L)
      BY <1>1, <1>2, <2>3, SubSeqSame
    <2> QED
      BY <1>6, <2>1, <2>2, <2>4 DEF Pending
  <1>9. ASSUME NEW m \in 1 .. N
        PROVE  /\ Separator(u, m) = Separator(t, m) /\ FieldText(u, m) = FieldText(t, m)
               /\ u[Separator(u, m)] = t[Separator(t, m)]
    <2>1. m \in 0 .. N /\ m - 1 \in 0 .. N /\ m # 0 /\ m \in 1 .. SeparatorsIn(t, Len(t)) + 1
      BY <1>1, <1>6
    <2>2. PICK a \in Nat : a = Separator(t, m - 1) /\ a = Separator(u, m - 1)
      BY <1>7, <2>1
    <2>3. PICK b \in 1 .. L : b = Separator(t, m) /\ b = Separator(u, m)
      BY <1>7, <2>1
    <2>4. a < b
      BY <2>1, <2>2, <2>3, SeparatorOrder
    <2>5. /\ a + 1 \in Nat \ {0} /\ b - 1 \in Nat /\ a + 1 <= (b - 1) + 1 /\ b - 1 <= L
          /\ \A k \in 1 .. b - 1 : k \in 1 .. L
      BY <2>4
    <2>6. SubSeq(u, a + 1, b - 1) = SubSeq(t, a + 1, b - 1)
      BY <1>1, <1>2, <2>5, SubSeqSame
    <2> QED
      BY <1>1, <2>2, <2>3, <2>6 DEF FieldText
  <1>10. L \in 0 .. L
    OBVIOUS
  <1> QED
    BY <1>1, <1>3, <1>5, <1>6, <1>8, <1>9, <1>10

-----------------------------------------------------------------------------
(* The values                                                              *)

\* A string as it is stored: its quotation marks are gone.
Plain(s) == IsSeq(s) /\ \A k \in 1 .. Len(s) : s[k] # Quote

LEMMA UnquotedPlain ==
    ASSUME NEW s, Len(s) \in Nat
    PROVE  Plain(Unquoted(s))
  <1>1. PICK e : KeptTo(s, Len(s), e) /\ Unquoted(s) = e[Len(s)]
    BY UnquotedKept
  <1>2. e[0] = <<>> /\ \A k \in 1 .. Len(s) : e[k] = KeptOf(s, k, e[k - 1])
    BY <1>1, KeptEach
  <1> DEFINE Good == {n \in Nat : n <= Len(s) => Plain(e[n])}
  <1>3. 0 \in Good
    <2>1. Len(<<>>) = 0 /\ 1 .. 0 = {}
      OBVIOUS
    <2> QED
      BY <1>2, <2>1, EmptyIsSeq DEF Plain
  <1>4. ASSUME NEW n \in Nat, n \in Good PROVE n + 1 \in Good
    <2> SUFFICES ASSUME n + 1 <= Len(s) PROVE Plain(e[n + 1])
      OBVIOUS
    <2>1. n + 1 \in 1 .. Len(s) /\ (n + 1) - 1 = n /\ n <= Len(s)
      OBVIOUS
    <2>2. e[n + 1] = KeptOf(s, n + 1, e[n]) /\ Plain(e[n])
      BY <1>2, <1>4, <2>1
    <2>3. CASE s[n + 1] = Quote
      BY <2>2, <2>3 DEF KeptOf
    <2>4. CASE s[n + 1] # Quote
      <3>1. e[n + 1] = Append(e[n], s[n + 1])
        BY <2>2, <2>4 DEF KeptOf
      <3>2. PICK f : f = e[n]
        OBVIOUS
      <3>3. IsSeq(f) /\ \A k \in 1 .. Len(f) : f[k] # Quote
        BY <2>2, <3>2 DEF Plain
      <3>4. /\ IsSeq(Append(f, s[n + 1])) /\ Len(Append(f, s[n + 1])) = Len(f) + 1 /\ Len(f) \in Nat
            /\ \A k \in 1 .. Len(f) : Append(f, s[n + 1])[k] = f[k]
            /\ Append(f, s[n + 1])[Len(f) + 1] = s[n + 1]
        BY <3>3, SeqAppend
      <3>5. \A k \in 1 .. Len(f) + 1 : k \in 1 .. Len(f) \/ k = Len(f) + 1
        BY <3>4
      <3> QED
        BY <2>4, <3>1, <3>2, <3>3, <3>4, <3>5 DEF Plain
    <2> QED
      BY <2>3, <2>4
  <1> HIDE DEF Good
  <1>5. \A n \in Nat : n \in Good
    BY <1>3, <1>4, SetInduction
  <1> QED
    BY <1>1, <1>5 DEF Good

LEMMA SubSeqIs ==
    ASSUME NEW t, IsSeq(t), NEW a \in Nat \ {0}, NEW b \in Nat, a <= b + 1, b <= Len(t)
    PROVE  /\ IsSeq(SubSeq(t, a, b)) /\ Len(SubSeq(t, a, b)) = b + 1 - a
           /\ \A k \in 1 .. b + 1 - a : SubSeq(t, a, b)[k] = t[a + k - 1]
  <1>1. PICK S : t \in Seq(S)
    BY DEF IsSeq
  <1>2. /\ SubSeq(t, a, b) \in Seq(S) /\ Len(SubSeq(t, a, b)) = b + 1 - a
        /\ \A k \in 1 .. b + 1 - a : SubSeq(t, a, b)[k] = t[a + k - 1]
    BY <1>1
  <1> QED
    BY <1>2 DEF IsSeq

LEMMA FieldPlain ==
    ASSUME NEW t, IsSeq(t), NEW m \in 1 .. SeparatorsIn(t, Len(t)) + 1
    PROVE  Plain(FieldText(t, m))
  <1>1. Len(t) \in Nat
    BY SeqLength
  <1>2. PICK a \in Nat, b \in Nat : a = Separator(t, m - 1) /\ b = Separator(t, m) - 1
                                    /\ a <= b /\ b <= Len(t)
    <2>1. /\ Separator(t, m - 1) \in 0 .. Len(t) /\ Separator(t, m) \in 1 .. Len(t) + 1
          /\ Separator(t, m - 1) < Separator(t, m)
      BY SeparatorOrder
    <2>2. /\ Separator(t, m - 1) \in Nat /\ Separator(t, m) - 1 \in Nat
          /\ Separator(t, m - 1) <= Separator(t, m) - 1 /\ Separator(t, m) - 1 <= Len(t)
      BY <1>1, <2>1
    <2> QED
      BY <2>2
  <1>3. a + 1 \in Nat \ {0} /\ a + 1 <= b + 1
    BY <1>2
  <1>4. Len(SubSeq(t, a + 1, b)) \in Nat
    BY <1>2, <1>3, SubSeqIs, SeqLength
  <1> QED
    BY <1>2, <1>4, UnquotedPlain DEF FieldText

\* A numeral has no special character, and is read as itself.
LEMMA ParsedNumeral ==
    ASSUME NEW s, Parsed(s) # <<>>
    PROVE  Plain(Parsed(s)) /\ Parsed(Parsed(s)) = Parsed(s)
  <1>1. PICK d : d = Parsed(s)
    OBVIOUS
  <1>2. d \in Numerals
    BY <1>1 DEF Parsed
  <1>3. d \in Seq(ToSet(d)) /\ Stoll(d) = d
        /\ \A k \in 1 .. Len(d) : d[k] \notin {Comma, Newline, Quote}
    BY <1>2, NumeralsAssumption
  <1>4. Plain(d)
    BY <1>3 DEF Plain, IsSeq
  <1>5. Parsed(d) = d
    BY <1>2, <1>3 DEF Parsed
  <1> QED
    BY <1>1, <1>4, <1>5

\* A value printed and parsed again is the same.
LEMMA ValuePlain ==
    ASSUME NEW s, Plain(s), NEW type, ~ Invalid(type, s)
    PROVE  /\ Plain(ConvertType(type, s))
           /\ ConvertType(type, ConvertType(type, s)) = ConvertType(type, s)
           /\ ~ Invalid(type, ConvertType(type, s))
  BY ParsedNumeral DEF ConvertType, Invalid, Plain

-----------------------------------------------------------------------------
(* The text printed                                                        *)

\* Behind n characters the reader has passed S separators, is (q) or is not
\* between quotation marks, and has p of the field it is in.
At(t, n, S, q, p) ==
    /\ n \in 0 .. Len(t)
    /\ SeparatorsIn(t, n) = S
    /\ Quoted(t, n + 1) <=> q
    /\ Pending(t, n) = p

LEMMA AtQuote ==
    ASSUME NEW t, IsSeq(t), NEW n \in Nat, n < Len(t), NEW S, NEW q \in BOOLEAN, NEW p,
           At(t, n, S, q, p), t[n + 1] = Quote
    PROVE  At(t, n + 1, S, ~ q, p)
  <1>1. ~ Separates(t, n + 1)
    BY CharsAssumption DEF Separates
  <1>2. SeparatorsIn(t, n + 1) = SeparatorsIn(t, n) /\ Pending(t, n + 1) = Pending(t, n)
    BY <1>1, PendingNext
  <1>3. Quoted(t, n + 2) <=> ~ Quoted(t, n + 1)
    BY QuotedNext
  <1>4. n + 1 \in 0 .. Len(t) /\ (n + 1) + 1 = n + 2
    BY SeqLength
  <1> QED
    BY <1>2, <1>3, <1>4 DEF At

LEMMA AtCharacter ==
    ASSUME NEW t, IsSeq(t), NEW n \in Nat, n < Len(t), NEW S, NEW q \in BOOLEAN, NEW p,
           At(t, n, S, q, p), t[n + 1] # Quote, q \/ t[n + 1] \notin {Comma, Newline}
    PROVE  At(t, n + 1, S, q, Append(p, t[n + 1]))
  <1>1. ~ Separates(t, n + 1)
    BY DEF Separates, At
  <1>2. /\ SeparatorsIn(t, n + 1) = SeparatorsIn(t, n)
        /\ Pending(t, n + 1) = Append(Pending(t, n), t[n + 1])
    BY <1>1, PendingNext
  <1>3. Quoted(t, n + 2) <=> Quoted(t, n + 1)
    BY QuotedNext
  <1>4. n + 1 \in 0 .. Len(t) /\ (n + 1) + 1 = n + 2
    BY SeqLength
  <1> QED
    BY <1>2, <1>3, <1>4 DEF At

LEMMA PassSeparator ==
    ASSUME NEW t, IsSeq(t), NEW n \in Nat, n < Len(t), NEW S, NEW p,
           At(t, n, S, FALSE, p), t[n + 1] \in {Comma, Newline}
    PROVE  /\ At(t, n + 1, S + 1, FALSE, <<>>)
           /\ FieldText(t, S + 1) = p /\ Separator(t, S + 1) = n + 1
  <1>1. Separates(t, n + 1) /\ t[n + 1] # Quote
    BY CharsAssumption DEF Separates, At
  <1>2. /\ SeparatorsIn(t, n + 1) = S + 1 /\ Separator(t, S + 1) = n + 1
        /\ FieldText(t, S + 1) = p /\ Pending(t, n + 1) = <<>>
    BY <1>1, FieldEnds DEF At
  <1>3. Quoted(t, n + 2) <=> Quoted(t, n + 1)
    BY <1>1, QuotedNext
  <1>4. n + 1 \in 0 .. Len(t) /\ (n + 1) + 1 = n + 2
    BY SeqLength
  <1>5. ~ Quoted(t, (n + 1) + 1)
    BY <1>1, <1>3, <1>4 DEF At
  <1>6. At(t, n + 1, S + 1, FALSE, <<>>)
    BY <1>2, <1>4, <1>5 DEF At
  <1> QED
    BY <1>2, <1>6

\* The characters of a value are read as they are, between quotation marks or
\* if none of them separates.
LEMMA AtValue ==
    ASSUME NEW t, IsSeq(t), NEW b \in Nat, NEW S, NEW q \in BOOLEAN, At(t, b, S, q, <<>>),
           NEW v, Plain(v), b + Len(v) <= Len(t), \A k \in 1 .. Len(v) : t[b + k] = v[k],
           q \/ ~ NeedsQuoting(v)
    PROVE  At(t, b + Len(v), S, q, v)
  <1>1. IsSeq(v) /\ \A k \in 1 .. Len(v) : v[k] # Quote
    BY DEF Plain
  <1>2. Len(v) \in Nat /\ Len(t) \in Nat
    BY <1>1, SeqLength
  <1>3. SubSeq(v, 1, 0) = <<>> /\ SubSeq(v, 1, Len(v)) = v
    <2>1. PICK V : v \in Seq(V)
      BY <1>1 DEF IsSeq
    <2> QED
      BY <2>1
  <1> DEFINE Good == {n \in Nat : n <= Len(v) => At(t, b + n, S, q, SubSeq(v, 1, n))}
  <1>4. 0 \in Good
    <2>1. b + 0 = b
      OBVIOUS
    <2> QED
      BY <1>3, <2>1
  <1>5. ASSUME NEW n \in Nat, n \in Good PROVE n + 1 \in Good
    <2> SUFFICES ASSUME n + 1 <= Len(v) PROVE At(t, b + (n + 1), S, q, SubSeq(v, 1, n + 1))
      OBVIOUS
    <2>1. n + 1 \in 1 .. Len(v) /\ n <= Len(v) /\ 1 <= n + 1 /\ 1 \in Nat \ {0}
      BY <1>2
    <2>2. At(t, b + n, S, q, SubSeq(v, 1, n))
      BY <1>5, <2>1
    <2>3. b + n \in Nat /\ b + n < Len(t) /\ (b + n) + 1 = b + (n + 1)
      BY <1>2
    <2>4. t[b + (n + 1)] = v[n + 1] /\ v[n + 1] # Quote
      BY <1>1, <2>1
    <2>5. q \/ v[n + 1] \notin {Comma, Newline}
      BY <2>1 DEF NeedsQuoting
    <2>6. SubSeq(v, 1, n + 1) = Append(SubSeq(v, 1, n), v[n + 1])
      BY <1>1, <2>1, SubSeqNext
    <2>7. At(t, (b + n) + 1, S, q, Append(SubSeq(v, 1, n), t[(b + n) + 1]))
      BY <2>2, <2>3, <2>4, <2>5, AtCharacter
    <2> QED
      BY <2>3, <2>4, <2>6, <2>7
  <1> HIDE DEF Good
  <1>6. \A n \in Nat : n \in Good
    BY <1>4, <1>5, SetInduction
  <1>7. Len(v) \in Good
    BY <1>2, <1>6
  <1>8. At(t, b + Len(v), S, q, SubSeq(v, 1, Len(v)))
    BY <1>2, <1>7 DEF Good
  <1> QED
    BY <1>3, <1>8, Zenon

\* What of a printed field is at its places.
LEMMA FieldShape ==
    ASSUME NEW v, IsSeq(v)
    PROVE  /\ IsSeq(Field(v))
           /\ ~ NeedsQuoting(v) => Field(v) = v
           /\ NeedsQuoting(v) =>
                  /\ Len(Field(v)) = Len(v) + 2
                  /\ Field(v)[1] = Quote /\ Field(v)[Len(v) + 2] = Quote
                  /\ \A k \in 1 .. Len(v) : Field(v)[k + 1] = v[k]
  <1>1. CASE ~ NeedsQuoting(v)
    BY <1>1 DEF Field
  <1>2. CASE NeedsQuoting(v)
    <2>1. PICK s : s = <<Quote>> /\ IsSeq(s) /\ Len(s) = 1 /\ s[1] = Quote
      <3>1. <<Quote>> \in Seq({Quote}) /\ Len(<<Quote>>) = 1 /\ <<Quote>>[1] = Quote
        OBVIOUS
      <3>2. IsSeq(<<Quote>>)
        BY <3>1 DEF IsSeq
      <3> QED
        BY <3>1, <3>2
    <2>2. PICK u : u = s \o v
      OBVIOUS
    <2>3. /\ IsSeq(u) /\ Len(u) = 1 + Len(v)
          /\ u[1] = Quote
          /\ \A k \in 1 .. Len(v) : u[1 + k] = v[k]
      <3>1. /\ IsSeq(s \o v) /\ Len(s \o v) = Len(s) + Len(v)
            /\ \A k \in 1 .. Len(s) : (s \o v)[k] = s[k]
            /\ \A k \in 1 .. Len(v) : (s \o v)[Len(s) + k] = v[k]
        BY <2>1, SeqConcat
      <3>2. 1 \in 1 .. Len(s)
        BY <2>1
      <3> QED
        BY <2>1, <2>2, <3>1, <3>2
    <2>4. PICK w : w = u \o s
      OBVIOUS
    <2>5. Len(v) \in Nat
      BY SeqLength
    <2>6. /\ IsSeq(w) /\ Len(w) = Len(v) + 2
          /\ w[Len(v) + 2] = Quote
          /\ \A k \in 1 .. Len(v) + 1 : w[k] = u[k]
      <3>1. /\ IsSeq(u \o s) /\ Len(u \o s) = Len(u) + Len(s)
            /\ \A k \in 1 .. Len(u) : (u \o s)[k] = u[k]
            /\ \A k \in 1 .. Len(s) : (u \o s)[Len(u) + k] = s[k]
        BY <2>1, <2>3, SeqConcat
      <3>2. 1 \in 1 .. Len(s) /\ Len(u) + 1 = Len(v) + 2 /\ 1 .. Len(u) = 1 .. Len(v) + 1
        BY <2>1, <2>3, <2>5
      <3>3. Len(u) + Len(s) = Len(v) + 2
        BY <2>1, <2>3, <2>5
      <3>4. (u \o s)[Len(u) + 1] = Quote
        BY <2>1, <3>1, <3>2
      <3> QED
        BY <2>4, <3>1, <3>2, <3>3, <3>4
    <2>7. Field(v) = w
      <3>1. Field(v) = <<Quote>> \o v \o <<Quote>>
        BY <1>2 DEF Field
      <3> QED
        BY <2>1, <2>2, <2>4, <3>1
    <2>8. 1 \in 1 .. Len(v) + 1 /\ \A k \in 1 .. Len(v) : k + 1 \in 1 .. Len(v) + 1 /\ 1 + k = k + 1
      BY <2>5
    <2>9. w[1] = Quote /\ \A k \in 1 .. Len(v) : w[k + 1] = v[k]
      BY <2>3, <2>6, <2>8
    <2> QED
      BY <1>2, <2>6, <2>7, <2>9
  <1> QED
    BY <1>1, <1>2

\* A field printed is read back, without its quotation marks.
LEMMA FieldBack ==
    ASSUME NEW t, IsSeq(t), NEW b \in Nat, NEW S, At(t, b, S, FALSE, <<>>),
           NEW v, Plain(v), b + Len(Field(v)) <= Len(t),
           \A k \in 1 .. Len(Field(v)) : t[b + k] = Field(v)[k]
    PROVE  At(t, b + Len(Field(v)), S, FALSE, v)
  <1>1. IsSeq(v)
    BY DEF Plain
  <1>2. Len(v) \in Nat /\ Len(t) \in Nat
    BY <1>1, SeqLength
  <1>3. CASE ~ NeedsQuoting(v)
    <2>1. Field(v) = v
      BY <1>3 DEF Field
    <2> QED
      BY <1>3, <2>1, AtValue
  <1>4. CASE NeedsQuoting(v)
    <2>1. PICK f : f = Field(v)
      OBVIOUS
    <2>2. /\ Len(f) = Len(v) + 2 /\ f[1] = Quote /\ f[Len(v) + 2] = Quote
          /\ \A k \in 1 .. Len(v) : f[k + 1] = v[k]
      BY <1>1, <1>4, <2>1, FieldShape
    <2>3. b + (Len(v) + 2) <= Len(t) /\ \A k \in 1 .. Len(v) + 2 : t[b + k] = f[k]
      BY <2>1, <2>2
    <2>4. At(t, b + 1, S, TRUE, <<>>)
      <3>1. t[b + 1] = Quote /\ b < Len(t)
        <4>1. 1 \in 1 .. Len(v) + 2
          BY <1>2
        <4> QED
          BY <1>2, <2>2, <2>3, <4>1
      <3>2. At(t, b + 1, S, ~ FALSE, <<>>)
        BY <3>1, AtQuote
      <3> QED
        BY <3>2
    <2>5. At(t, (b + 1) + Len(v), S, TRUE, v)
      <3>1. b + 1 \in Nat /\ (b + 1) + Len(v) <= Len(t)
        BY <1>2, <2>3
      <3>2. ASSUME NEW k \in 1 .. Len(v) PROVE t[(b + 1) + k] = v[k]
        <4>1. k + 1 \in 1 .. Len(v) + 2 /\ (b + 1) + k = b + (k + 1)
          BY <1>2
        <4> QED
          BY <2>2, <2>3, <4>1
      <3> QED
        BY <2>4, <3>1, <3>2, AtValue
    <2>6. At(t, ((b + 1) + Len(v)) + 1, S, FALSE, v)
      <3>1. (b + 1) + Len(v) \in Nat /\ (b + 1) + Len(v) < Len(t)
            /\ ((b + 1) + Len(v)) + 1 = b + (Len(v) + 2) /\ Len(v) + 2 \in 1 .. Len(v) + 2
        BY <1>2, <2>3
      <3>2. t[((b + 1) + Len(v)) + 1] = Quote
        BY <2>2, <2>3, <3>1
      <3>3. At(t, ((b + 1) + Len(v)) + 1, S, ~ TRUE, v)
        BY <2>5, <3>1, <3>2, AtQuote
      <3> QED
        BY <3>3
    <2>7. ((b + 1) + Len(v)) + 1 = b + Len(Field(v))
      BY <1>2, <2>1, <2>2
    <2> QED
      BY <2>6, <2>7
  <1> QED
    BY <1>3, <1>4

\* What the text says of field m, as a value.
FieldValue(m) == ConvertType(TypeOf(m), FieldText(text, m))

\* t has S fields, the first of the table the text describes, and p of the next.
FieldsShown(t, S) ==
    \A m \in 1 .. S : /\ FieldText(t, m) = FieldValue(m)
                      /\ (t[Separator(t, m)] = Newline) <=> (m % Cols = 0)

Shown(t, S, p) ==
    /\ IsSeq(t) /\ S \in Nat
    /\ At(t, Len(t), S, FALSE, p)
    /\ FieldsShown(t, S)

LEMMA ShownKept ==
    ASSUME NEW t, NEW S, NEW p, Shown(t, S, p), NEW s, IsSeq(s)
    PROVE  /\ IsSeq(t \o s) /\ Len(t \o s) = Len(t) + Len(s)
           /\ \A k \in 1 .. Len(s) : (t \o s)[Len(t) + k] = s[k]
           /\ Len(t) \in Nat /\ Len(s) \in Nat
           /\ At(t \o s, Len(t), S, FALSE, p)
           /\ FieldsShown(t \o s, S)
  <1>1. IsSeq(t) /\ Len(t) \in Nat /\ Len(s) \in Nat
    BY SeqLength DEF Shown
  <1>2. PICK u : u = t \o s
    OBVIOUS
  <1>3. /\ IsSeq(u) /\ Len(u) = Len(t) + Len(s)
        /\ \A k \in 1 .. Len(t) : u[k] = t[k]
        /\ \A k \in 1 .. Len(s) : u[Len(t) + k] = s[k]
    BY <1>1, <1>2, SeqConcat
  <1>4. Len(t) <= Len(u) /\ Len(t) \in 0 .. Len(u)
    BY <1>1, <1>3
  <1>5. /\ SeparatorsIn(u, Len(t)) = SeparatorsIn(t, Len(t))
        /\ Quoted(u, Len(t) + 1) <=> Quoted(t, Len(t) + 1)
        /\ Pending(u, Len(t)) = Pending(t, Len(t))
        /\ \A m \in 1 .. SeparatorsIn(t, Len(t)) :
               /\ Separator(u, m) = Separator(t, m) /\ FieldText(u, m) = FieldText(t, m)
               /\ u[Separator(u, m)] = t[Separator(t, m)]
    BY <1>1, <1>3, <1>4, PrefixSame
  <1>6. /\ SeparatorsIn(t, Len(t)) = S /\ ~ Quoted(t, Len(t) + 1) /\ Pending(t, Len(t)) = p
    BY DEF Shown, At
  <1>7. At(u, Len(t), S, FALSE, p)
    BY <1>4, <1>5, <1>6 DEF At
  <1>8. FieldsShown(u, S)
    BY <1>5, <1>6 DEF Shown, FieldsShown
  <1> QED
    BY <1>1, <1>2, <1>3, <1>7, <1>8

LEMMA ShowField ==
    ASSUME NEW t, NEW S, Shown(t, S, <<>>), NEW v, Plain(v)
    PROVE  Shown(t \o Field(v), S, v)
  <1>1. IsSeq(Field(v))
    BY FieldShape DEF Plain
  <1>2. PICK u : u = t \o Field(v)
    OBVIOUS
  <1>3. /\ IsSeq(u) /\ Len(u) = Len(t) + Len(Field(v))
        /\ \A k \in 1 .. Len(Field(v)) : u[Len(t) + k] = Field(v)[k]
        /\ Len(t) \in Nat /\ Len(Field(v)) \in Nat
        /\ At(u, Len(t), S, FALSE, <<>>)
        /\ FieldsShown(u, S)
    BY <1>1, <1>2, ShownKept
  <1>4. At(u, Len(t) + Len(Field(v)), S, FALSE, v)
    <2>1. Len(t) + Len(Field(v)) <= Len(u)
      BY <1>3
    <2> QED
      BY <1>3, <2>1, FieldBack
  <1>5. S \in Nat
    BY DEF Shown
  <1> QED
    BY <1>2, <1>3, <1>4, <1>5 DEF Shown

\* The character that ends field m.
Ends(x, m) == (x = Newline) <=> (m % Cols = 0)

LEMMA ShowSeparator ==
    ASSUME NEW t, NEW S \in Nat, NEW p, Shown(t, S, p), p = FieldValue(S + 1),
           NEW x \in {Comma, Newline}, Ends(x, S + 1)
    PROVE  Shown(t \o <<x>>, S + 1, <<>>)
  <1>1. PICK s : s = <<x>>
    OBVIOUS
  <1>2. IsSeq(s) /\ Len(s) = 1 /\ s[1] = x
    <2>1. <<x>> \in Seq({x}) /\ Len(<<x>>) = 1 /\ <<x>>[1] = x
      OBVIOUS
    <2> QED
      BY <1>1, <2>1 DEF IsSeq
  <1>3. PICK u : u = t \o s
    OBVIOUS
  <1>4. /\ IsSeq(u) /\ Len(u) = Len(t) + 1 /\ u[Len(t) + 1] = x
        /\ Len(t) \in Nat
        /\ At(u, Len(t), S, FALSE, p)
        /\ FieldsShown(u, S)
    <2>1. 1 \in 1 .. Len(s)
      BY <1>2
    <2>2. /\ IsSeq(t \o s) /\ Len(t \o s) = Len(t) + Len(s)
          /\ \A k \in 1 .. Len(s) : (t \o s)[Len(t) + k] = s[k]
          /\ Len(t) \in Nat /\ Len(s) \in Nat
          /\ At(t \o s, Len(t), S, FALSE, p)
          /\ FieldsShown(t \o s, S)
      <3>1. IsSeq(s)
        BY <1>2
      <3> QED
        BY <3>1, ShownKept
    <2> QED
      BY <1>2, <1>3, <2>1, <2>2
  <1>5. /\ At(u, Len(t) + 1, S + 1, FALSE, <<>>)
        /\ FieldText(u, S + 1) = p /\ Separator(u, S + 1) = Len(t) + 1
    <2>1. IsSeq(u) /\ Len(t) \in Nat /\ Len(t) < Len(u) /\ u[Len(t) + 1] \in {Comma, Newline}
      BY <1>4
    <2>2. At(u, Len(t), S, FALSE, p)
      BY <1>4
    <2> QED
      BY <2>1, <2>2, PassSeparator
  <1>7. ASSUME NEW m \in 1 .. S + 1
        PROVE  /\ FieldText(u, m) = FieldValue(m)
               /\ (u[Separator(u, m)] = Newline) <=> (m % Cols = 0)
    <2>1. CASE m \in 1 .. S
      BY <1>4, <2>1 DEF FieldsShown
    <2>2. CASE m = S + 1
      BY <1>4, <1>5, <2>2 DEF Ends
    <2> QED
      BY <2>1, <2>2
  <1>8. FieldsShown(u, S + 1)
    BY <1>7 DEF FieldsShown
  <1>9. Shown(u, S + 1, <<>>)
    <2>1. Len(u) = Len(t) + 1 /\ IsSeq(u)
      BY <1>4
    <2>2. At(u, Len(u), S + 1, FALSE, <<>>)
      BY <1>5, <2>1
    <2>3. S + 1 \in Nat
      OBVIOUS
    <2> QED
      BY <1>8, <2>1, <2>2, <2>3 DEF Shown
  <1> QED
    BY <1>1, <1>3, <1>9

-----------------------------------------------------------------------------
(* The group that is printed                                               *)

\* The rows before a group that is not the first are those of full groups.
LEMMA FullBefore ==
    ASSUME ConvertInv, pc \in Stored, NEW G \in Nat, GroupsInv(G), NEW g \in Nat, g < G
    PROVE  StoredRows(g) = g * job.batch_size
  <1>1. PICK b \in Nat : b = job.batch_size
    BY Positive DEF ConvertInv
  <1>2. Cols \in 1 .. Cols /\ 1 \in 1 .. Cols
    BY Positive DEF ConvertInv
  <1>3. CASE g = 0
    BY <1>1, <1>3 DEF StoredRows
  <1>4. CASE g # 0
    <2>1. g \in 1 .. G
      BY <1>4
    <2>2. Len(Chunk(g, Cols)) = b
      BY <1>1, <1>2, <2>1 DEF GroupsInv, MustBeFull
    <2>3. (g - 1) * b + b = g * b
      OBVIOUS
    <2> QED
      BY <1>1, <1>4, <2>2, <2>3 DEF StoredRows
  <1> QED
    BY <1>3, <1>4

\* The columns read are those of L rows of the text, behind the rows stored
\* before.
RowsInColumns(g, n, L) ==
    /\ L = Len(columns[1]) /\ n = StoredRows(g) /\ StoredRows(g + 1) = n + L
    /\ (n + L) * Cols <= FieldCount(text)
    /\ \A c \in 1 .. Cols : \A k \in 1 .. L : Right(columns[c][k], n + k, c)

LEMMA GroupText ==
    ASSUME ConvertInv, PrintInv, TextInv, pc = "print", NEW g \in Nat, ColumnsRead(g), GroupRead
    PROVE  \E n \in Nat, L \in Nat : RowsInColumns(g, n, L)
  <1>1. PICK G \in Nat, N \in Nat : /\ GroupsInv(G) /\ ValuesInv(G) /\ N = StoredRows(G)
                                    /\ Complete(N * Cols)
    BY StoredRight DEF Stored
  <1>2. PICK C \in Nat \ {0} : C = Cols
    BY Positive DEF ConvertInv
  <1>3. PICK b \in Nat : b = job.batch_size
    BY Positive DEF ConvertInv
  <1>4. pc \in Stored /\ Len(batch_meta) = G * C
    <2>1. Len(batch_meta) = G * Cols + 0
      BY <1>1 DEF GroupsInv
    <2>2. G * C + 0 = G * C
      OBVIOUS
    <2> QED
      BY <1>2, <2>1, <2>2 DEF Stored
  <1>5. Len(columns) = C /\ row = g * C + C /\ row <= Len(batch_meta)
    BY <1>2, <1>4 DEF GroupRead, ColumnsRead, PrintInv
  <1>6. g + 1 <= G
    <2>1. G <= g => G * C <= g * C
      BY TimesMonotone
    <2>2. g * C \in Nat /\ G * C \in Nat
      OBVIOUS
    <2> QED
      BY <1>4, <1>5, <2>1, <2>2
  <1>7. g + 1 \in 1 .. G /\ g < G /\ (g + 1) - 1 = g /\ 1 \in 1 .. C /\ C \in 1 .. C
    BY <1>6
  <1>8. \A c \in 1 .. C : columns[c] = Chunk(g + 1, c) /\ g * C + c <= Len(batch_meta)
    <2>1. ASSUME NEW c \in 1 .. C PROVE g * C + c <= Len(batch_meta)
      <3>1. ((g + 1) - 1) * C + c \in 1 .. G * C
        BY <1>7, GroupIndex
      <3>2. G * C \in Nat
        OBVIOUS
      <3> QED
        BY <1>4, <1>7, <3>1, <3>2
    <2> QED
      BY <1>5, <2>1 DEF ColumnsRead
  <1>9. Chunk(g + 1, 1) = file[g * C + 1].v /\ IsSeq(Chunk(g + 1, 1))
    <2>1. g * C + 1 \in 1 .. Len(batch_meta)
      <3>1. g * C \in Nat /\ G * C \in Nat
        OBVIOUS
      <3>2. g * C + 1 <= Len(batch_meta)
        BY <1>7, <1>8
      <3> QED
        BY <1>4, <3>1, <3>2
    <2>2. IsSeq(file[g * C + 1].v)
      BY <1>4, <2>1, StoredFile DEF ChunksInv
    <2> QED
      BY <1>2, <1>7, <2>2 DEF Chunk
  <1>10. PICK L \in Nat : L = Len(Chunk(g + 1, 1))
    BY <1>9, SeqLength
  <1>11. \A c \in 1 .. C : Len(Chunk(g + 1, c)) = L
    BY <1>1, <1>2, <1>7, <1>10 DEF GroupsInv
  <1>12. PICK n \in Nat : n = g * b
    OBVIOUS
  <1>13. StoredRows(g) = n
    BY <1>1, <1>3, <1>4, <1>7, <1>12, FullBefore
  <1>14. StoredRows(g + 1) = n + L
    <2>1. g + 1 # 0
      OBVIOUS
    <2>2. Len(Chunk(g + 1, Cols)) = L
      BY <1>2, <1>7, <1>11
    <2> QED
      BY <1>3, <1>7, <1>12, <2>1, <2>2 DEF StoredRows
  <1>15. n + L <= N
    <2>1. CASE g + 1 = G
      BY <1>1, <1>14, <2>1
    <2>2. CASE g + 1 < G
      <3>1. L = b
        BY <1>1, <1>3, <1>7, <1>10, <2>2 DEF GroupsInv, MustBeFull
      <3>2. n + L = (g + 1) * b
        BY <1>12, <3>1
      <3>3. (g + 1) * b <= (G - 1) * b
        <4>1. g + 1 <= G - 1 /\ g + 1 \in Int /\ G - 1 \in Int
          BY <2>2
        <4> QED
          BY <4>1, TimesMonotone
      <3>4. PICK x \in Nat : x = Len(Chunk(G, Cols))
        <4>1. (G - 1) * C + C \in 1 .. G * C
          BY <1>7, GroupIndex
        <4>2. G \in 1 .. G /\ G * C \in Nat
          BY <2>2
        <4>3. (G - 1) * Cols + Cols \in 1 .. Len(batch_meta)
          BY <1>2, <1>4, <4>1, <4>2
        <4>4. IsSeq(Chunk(G, Cols))
          BY <1>4, <4>3, StoredFile DEF ChunksInv, Chunk
        <4> QED
          BY <4>4, SeqLength
      <3>5. N = (G - 1) * b + x
        <4>1. G # 0
          BY <2>2
        <4> QED
          BY <1>1, <1>3, <3>4, <4>1 DEF StoredRows
      <3>6. (G - 1) * b \in Int
        OBVIOUS
      <3> QED
        BY <3>2, <3>3, <3>5, <3>6
    <2> QED
      BY <1>6, <2>1, <2>2
  <1>16. (n + L) * C <= N * C
    BY <1>15, TimesMonotone
  <1>17. ASSUME NEW c \in 1 .. C, NEW k \in 1 .. L PROVE Right(columns[c][k], n + k, c)
    <2>1. g + 1 \in 1 .. G + 1 /\ ((g + 1) - 1) * Cols + c <= Len(batch_meta)
      BY <1>2, <1>7, <1>8
    <2>2. Right(Chunk(g + 1, c)[k], RowOf(g + 1, k), c)
      BY <1>1, <1>2, <1>11, <2>1 DEF ValuesInv
    <2>3. RowOf(g + 1, k) = n + k
      BY <1>3, <1>7, <1>12 DEF RowOf
    <2>4. columns[c] = Chunk(g + 1, c)
      BY <1>8
    <2> QED
      BY <2>2, <2>3, <2>4
  <1>18. FieldCount(text) = N * C
    BY <1>1, <1>2 DEF Complete
  <1>19. L = Len(columns[1])
    BY <1>7, <1>8, <1>10
  <1> QED
    BY <1>2, <1>13, <1>14, <1>16, <1>17, <1>18, <1>19 DEF RowsInColumns

\* What is stored is printed as it is to be read.
LEMMA ValueShown ==
    ASSUME JobInv, IsSeq(text), NEW x \in Nat \ {0}, NEW c \in 1 .. Cols,
           FieldOf(x, c) <= FieldCount(text), NEW v, Right(v, x, c)
    PROVE  v = FieldValue(FieldOf(x, c)) /\ Plain(v)
  <1>1. PICK m \in Nat \ {0} : m = FieldOf(x, c) /\ TypeOf(m) = job.columns[c]
    BY FieldColumn
  <1>2. PICK s \in Nat : s = SeparatorsIn(text, Len(text))
    BY SeqLength, SeparatorsNext
  <1>3. FieldCount(text) = s \/ FieldCount(text) = s + 1
    BY <1>2 DEF FieldCount
  <1>4. m \in 1 .. s + 1
    BY <1>1, <1>2, <1>3
  <1>5. Plain(FieldText(text, m))
    BY <1>2, <1>4, FieldPlain
  <1>6. ~ Invalid(job.columns[c], FieldText(text, m)) /\ v = ConvertType(job.columns[c], FieldText(text, m))
    BY <1>1 DEF Right
  <1>7. Plain(v)
    BY <1>5, <1>6, ValuePlain
  <1> QED
    BY <1>1, <1>6, <1>7 DEF FieldValue

-----------------------------------------------------------------------------
(* Printing the table                                                      *)

\* n rows are printed, and c columns of the next.
PrintedTo(t, n, c) ==
    IF c = 0 THEN Shown(t, n * Cols, <<>>)
             ELSE Shown(t, n * Cols + (c - 1), FieldValue(n * Cols + c))

CopyInv ==
    /\ round \in {1, 2}
    /\ pc # "print" => r = 0
    /\ round = 1 /\ pc \notin {"print", "printed"} => csv = <<>>
    /\ pc \in {"readMeta", "print", "printed"} =>
           round = 1 /\ Accepts(text) /\ first = RowsOfText(text)
    /\ pc = "print" =>
           /\ r = 0 \/ (GroupRead /\ r <= Len(columns[1]))
           /\ \E g \in Nat : ColumnsRead(g) /\ PrintedTo(csv, StoredRows(g) + r, j)
    /\ pc = "printed" =>
           \E n \in Nat : n * Cols = FieldCount(text) /\ PrintedTo(csv, n, 0)
    /\ round = 2 => Accepts(text) /\ RowsOfText(text) = first

LEMMA ShownSame ==
    ASSUME SameJob
    PROVE  /\ \A t, n, c : PrintedTo(t, n, c)' <=> PrintedTo(t, n, c)
           /\ FieldCount(text)' = FieldCount(text) /\ RowsOfText(text)' = RowsOfText(text)
  <1>1. text' = text /\ Cols' = Cols
    BY TextSame
  <1>2. \A m : TypeOf(m)' = TypeOf(m)
    BY <1>1 DEF TypeOf, SameJob
  <1>3. \A m : FieldValue(m)' = FieldValue(m)
    BY <1>1, <1>2 DEF FieldValue
  <1>4. \A t, S : FieldsShown(t, S)' <=> FieldsShown(t, S)
    BY <1>1, <1>3 DEF FieldsShown
  <1>5. \A t, S, p : Shown(t, S, p)' <=> Shown(t, S, p)
    BY <1>4 DEF Shown
  <1>6. \A t, n, c : PrintedTo(t, n, c)' <=> PrintedTo(t, n, c)
    BY <1>1, <1>3, <1>5 DEF PrintedTo
  <1>7. FieldCount(text)' = FieldCount(text)
    BY <1>1 DEF FieldCount
  <1>8. RowsOfText(text)' = RowsOfText(text)
    BY <1>1, <1>2, <1>7 DEF RowsOfText
  <1> QED
    BY <1>6, <1>7, <1>8

\* What is printed of value number m of the rows: a separator before it unless
\* it is the first of its row, and a newline behind the last.
Leading(c) == IF c > 0 THEN <<Comma>> ELSE <<>>
Trailing(c) == IF c = Cols - 1 THEN <<Newline>> ELSE <<>>

LEMMA SeqPlusNothing ==
    ASSUME NEW t, IsSeq(t)
    PROVE  t \o <<>> = t
  <1>1. PICK T : t \in Seq(T)
    BY DEF IsSeq
  <1> QED
    BY <1>1

LEMMA ValuePrinted ==
    ASSUME JobInv, NEW t, NEW n \in Nat, NEW c \in 0 .. Cols - 1, PrintedTo(t, n, c),
           NEW v, Plain(v), v = FieldValue(n * Cols + (c + 1))
    PROVE  IF c = Cols - 1 THEN PrintedTo(((t \o Leading(c)) \o Field(v)) \o Trailing(c), n + 1, 0)
                           ELSE PrintedTo(((t \o Leading(c)) \o Field(v)) \o Trailing(c), n, c + 1)
  <1>1. PICK C \in Nat \ {0} : C = Cols
    BY Positive
  <1>2. PICK m \in Nat : m = n * C
    BY <1>1
  <1>3. c \in 0 .. C - 1 /\ m + c \in Nat /\ (m + c) + 1 = m + (c + 1) /\ (n + 1) * C = m + C
    BY <1>1, <1>2
  <1>4. PICK u : u = t \o Leading(c)
    OBVIOUS
  <1>5. Shown(u, m + c, <<>>)
    <2>1. CASE c = 0
      <3>1. Shown(t, m, <<>>)
        BY <1>1, <1>2, <2>1 DEF PrintedTo
      <3>2. t \o <<>> = t
        BY <3>1, SeqPlusNothing DEF Shown
      <3>3. m + c = m /\ Leading(c) = <<>>
        BY <1>2, <2>1 DEF Leading
      <3> QED
        BY <1>4, <3>1, <3>2, <3>3
    <2>2. CASE c # 0
      <3>1. Shown(t, m + (c - 1), FieldValue(m + c))
        BY <1>1, <1>2, <2>2 DEF PrintedTo
      <3>2. m + (c - 1) \in Nat /\ (m + (c - 1)) + 1 = m + c /\ c > 0
        BY <1>3, <2>2
      <3>3. Ends(Comma, m + c)
        <4>1. (m + c) % C = c
          BY <1>2, <1>3, Remainder
        <4> QED
          BY <1>1, <2>2, <4>1, CharsAssumption DEF Ends
      <3>4. Shown(t \o <<Comma>>, (m + (c - 1)) + 1, <<>>)
        BY <3>1, <3>2, <3>3, ShowSeparator
      <3>5. Leading(c) = <<Comma>>
        BY <3>2 DEF Leading
      <3> QED
        BY <1>4, <3>2, <3>4, <3>5
    <2> QED
      BY <2>1, <2>2
  <1>6. PICK w : w = u \o Field(v)
    OBVIOUS
  <1>7. Shown(w, m + c, v)
    BY <1>5, <1>6, ShowField
  <1>8. v = FieldValue(m + (c + 1))
    BY <1>1, <1>2
  <1>9. CASE c = Cols - 1
    <2>1. Ends(Newline, (m + c) + 1)
      <3>1. (m + c) + 1 = (n + 1) * C + 0 /\ 0 \in 0 .. C - 1 /\ n + 1 \in Nat
        BY <1>1, <1>3, <1>9
      <3>2. ((n + 1) * C + 0) % C = 0
        BY <3>1, Remainder
      <3> QED
        BY <1>1, <3>1, <3>2 DEF Ends
    <2>2. Shown(w \o <<Newline>>, (m + c) + 1, <<>>)
      <3>1. v = FieldValue((m + c) + 1) /\ Newline \in {Comma, Newline}
        BY <1>3, <1>8
      <3> QED
        BY <1>3, <1>7, <2>1, <3>1, ShowSeparator
    <2>3. (m + c) + 1 = (n + 1) * Cols
      BY <1>1, <1>3, <1>9
    <2>4. Trailing(c) = <<Newline>>
      BY <1>9 DEF Trailing
    <2>5. PrintedTo(w \o <<Newline>>, n + 1, 0)
      BY <2>2, <2>3 DEF PrintedTo
    <2> QED
      BY <1>4, <1>6, <1>9, <2>4, <2>5
  <1>10. CASE c # Cols - 1
    <2>1. Trailing(c) = <<>>
      BY <1>10 DEF Trailing
    <2>2. w \o <<>> = w
      BY <1>7, SeqPlusNothing DEF Shown
    <2>3. PrintedTo(w, n, c + 1)
      <3>1. (c + 1) - 1 = c /\ c + 1 # 0
        BY <1>3
      <3>2. Shown(w, m + c, FieldValue(m + (c + 1)))
        BY <1>7, <1>8
      <3> QED
        BY <1>1, <1>2, <3>1, <3>2 DEF PrintedTo
    <2> QED
      BY <1>4, <1>6, <1>10, <2>1, <2>2, <2>3
  <1> QED
    BY <1>9, <1>10

LEMMA PrintFieldCopy == ASSUME ConvertInv, PrintInv, TextInv, CopyInv, PrintField PROVE CopyInv'
  <1>1. /\ pc = "print" /\ pc' = "print" /\ GroupRead /\ r < Len(columns[1])
        /\ UNCHANGED <<job, round, row, file, columns, first>>
        /\ j' = (j + 1) % Cols
        /\ r' = IF j = Cols - 1 THEN r + 1 ELSE r
    BY DEF PrintField, parseVars, storeVars
  <1>2. csv' = ((csv \o Leading(j)) \o Field(columns[j + 1][r + 1])) \o Trailing(j)
    BY DEF PrintField, Leading, Trailing
  <1>3. SameJob
    BY <1>1, JobSame
  <1>4. PICK C \in Nat \ {0} : C = Cols
    BY Positive DEF ConvertInv
  <1>5. PICK g \in Nat : ColumnsRead(g) /\ PrintedTo(csv, StoredRows(g) + r, j)
    BY <1>1 DEF CopyInv
  <1>6. PICK n \in Nat, L \in Nat : RowsInColumns(g, n, L)
    BY <1>1, <1>5, GroupText
  <1>7. r \in Nat /\ r < L /\ j \in 0 .. C - 1
    <2>1. r \in Nat
      BY DEF PrintInv
    <2>2. L = Len(columns[1])
      BY <1>6 DEF RowsInColumns
    <2>3. j \in 0 .. Cols - 1
      BY <1>1 DEF ConvertInv, BatchInv
    <2> QED
      BY <1>1, <1>4, <2>1, <2>2, <2>3
  <1> DEFINE v == columns[j + 1][r + 1]
  <1>8. Right(v, n + (r + 1), j + 1)
    <2>1. j + 1 \in 1 .. Cols /\ r + 1 \in 1 .. L
      BY <1>4, <1>7
    <2> QED
      BY <1>6, <2>1 DEF RowsInColumns
  <1> HIDE DEF v
  <1>9. PICK x \in Nat \ {0}, c \in 1 .. Cols : x = n + (r + 1) /\ c = j + 1
    BY <1>4, <1>7
  <1>10. FieldOf(x, c) = (n + r) * Cols + (j + 1)
    <2>1. x - 1 = n + r
      BY <1>7, <1>9
    <2> QED
      BY <1>9, <2>1 DEF FieldOf
  <1>11. FieldOf(x, c) <= FieldCount(text)
    <2>1. (n + L) * C <= FieldCount(text)
      BY <1>4, <1>6 DEF RowsInColumns
    <2>2. PICK N \in Nat : FieldCount(text) = N
      <3>1. PICK s \in Nat : s = SeparatorsIn(text, Len(text))
        BY SeqLength, SeparatorsNext DEF TextInv
      <3> QED
        BY <3>1 DEF FieldCount
    <2>3. ((n + r) + 1) * C <= (n + L) * C /\ ((n + r) + 1) * C = (n + r) * C + C
      <3>1. (n + r) + 1 <= n + L /\ (n + r) + 1 \in Int /\ n + L \in Int /\ n + r \in Int
        BY <1>7
      <3>2. ((n + r) + 1) * C <= (n + L) * C
        BY <3>1, TimesMonotone
      <3> QED
        BY <3>1, <3>2
    <2>4. (n + r) * C \in Nat /\ (n + L) * C \in Nat
      BY <1>7
    <2> QED
      BY <1>4, <1>7, <1>10, <2>1, <2>2, <2>3, <2>4
  <1>12. v = FieldValue((n + r) * Cols + (j + 1)) /\ Plain(v)
    <2>1. Right(v, x, c)
      BY <1>8, <1>9
    <2> QED
      BY <1>9, <1>10, <1>11, <2>1, ValueShown DEF ConvertInv, TextInv
  <1>13. PrintedTo(csv, n + r, j)
    BY <1>5, <1>6 DEF RowsInColumns
  <1>14. IF j = Cols - 1 THEN PrintedTo(csv', (n + r) + 1, 0) ELSE PrintedTo(csv', n + r, j + 1)
    <2>1. csv' = ((csv \o Leading(j)) \o Field(v)) \o Trailing(j)
      BY <1>2 DEF v
    <2>2. n + r \in Nat /\ j \in 0 .. Cols - 1
      BY <1>4, <1>7
    <2> QED
      BY <1>12, <1>13, <2>1, <2>2, ValuePrinted DEF ConvertInv
  <1>15. PrintedTo(csv', n + r', j') /\ r' <= Len(columns[1])
    <2>1. L = Len(columns[1])
      BY <1>6 DEF RowsInColumns
    <2>2. CASE j = Cols - 1
      <3>1. j' = 0 /\ r' = r + 1 /\ n + r' = (n + r) + 1
        BY <1>1, <1>4, <1>7, <2>2
      <3> QED
        BY <1>7, <1>14, <2>1, <2>2, <3>1
    <2>3. CASE j # Cols - 1
      <3>1. j' = j + 1 /\ r' = r
        BY <1>1, <1>4, <1>7, <2>3
      <3> QED
        BY <1>7, <1>14, <2>1, <2>3, <3>1
    <2> QED
      BY <2>2, <2>3
  <1>16. (\E h \in Nat : ColumnsRead(h) /\ PrintedTo(csv, StoredRows(h) + r, j))'
    <2>1. ColumnsRead(g)' /\ StoredRows(g)' = n
      BY <1>1, <1>3, <1>5, <1>6, TextSame, ChunksSame DEF ColumnsRead, RowsInColumns, StoredRows
    <2>2. PrintedTo(csv, n + r, j)'
      BY <1>3, <1>15, ShownSame DEF PrintedTo, Shown, FieldsShown
    <2> QED
      BY <2>1, <2>2
  <1>17. (r = 0 \/ (GroupRead /\ r <= Len(columns[1])))'
    BY <1>1, <1>3, <1>15, TextSame DEF GroupRead
  <1>18. round' = 1 /\ Accepts(text)' /\ first' = RowsOfText(text)'
    BY <1>1, <1>3, TextSame, ShownSame DEF CopyInv
  <1> QED
    BY <1>1, <1>16, <1>17, <1>18 DEF CopyInv

LEMMA ReadTrailerCopy == ASSUME ConvertInv, TextInv, CopyInv, ReadTrailer PROVE CopyInv'
  <1>1. /\ pc = "stored" /\ pc' = "readMeta" /\ round = 1 /\ first' = Table
        /\ UNCHANGED <<job, round, r, csv>>
    BY DEF ReadTrailer, storeVars, printVars
  <1>2. SameJob
    BY <1>1, JobSame
  <1>3. Accepts(text) /\ Table = RowsOfText(text)
    BY <1>1, Rows DEF RowsAsWritten
  <1>4. Accepts(text)' /\ first' = RowsOfText(text)'
    BY <1>1, <1>2, <1>3, TextSame, ShownSame
  <1> QED
    BY <1>1, <1>4 DEF CopyInv

LEMMA ReadMetaCopy == ASSUME ConvertInv, PrintInv, CopyInv, ReadMeta PROVE CopyInv'
  <1>1. /\ pc = "readMeta" /\ pc' = "print" /\ row' = 0 /\ columns = <<>> /\ j = 0 /\ r = 0
        /\ UNCHANGED <<round, columns, r, j, csv, first>>
        /\ job'.text = job.text
    BY DEF ReadMeta, printVars, ConvertInv, BatchInv, PrintInv, CopyInv, JobInv
  <1>2. SameJob
    BY <1>1, MetaRead DEF SameJob
  <1>3. Cols' = Cols /\ Cols \in Nat \ {0}
    BY <1>2, TextSame, Positive DEF ConvertInv
  <1>4. csv = <<>> /\ round = 1
    BY <1>1 DEF CopyInv
  <1>5. PrintedTo(csv, 0, 0)
    <2>1. IsSeq(csv) /\ Len(csv) = 0
      BY <1>4, EmptyIsSeq
    <2>2. SeparatorsIn(csv, 0) = 0 /\ ~ Quoted(csv, 0 + 1) /\ Pending(csv, 0) = <<>>
      BY <2>1, SeparatorsNext, QuotedNext, PendingStart
    <2>3. 0 * Cols = 0
      BY <1>3
    <2>4. Shown(csv, 0, <<>>)
      BY <2>1, <2>2 DEF Shown, At, FieldsShown
    <2> QED
      BY <2>3, <2>4 DEF PrintedTo
  <1>6. (\E h \in Nat : ColumnsRead(h) /\ PrintedTo(csv, StoredRows(h) + r, j))'
    <2>1. PrintedTo(csv, 0, 0)'
      <3>1. PrintedTo(csv', 0, 0)
        BY <1>1, <1>5
      <3> QED
        BY <1>2, <3>1, ShownSame DEF PrintedTo, Shown, FieldsShown
    <2>2. ColumnsRead(0)' /\ StoredRows(0)' = 0
      <3>1. Len(<<>>) = 0 /\ 0 * Cols = 0
        BY <1>3
      <3> QED
        BY <1>1, <1>3, <3>1 DEF ColumnsRead, StoredRows
    <2>3. 0 + r' = 0 /\ j' = 0
      BY <1>1
    <2> QED
      BY <2>1, <2>2, <2>3
  <1>7. (r = 0 \/ (GroupRead /\ r <= Len(columns[1])))'
    BY <1>1
  <1>8. Accepts(text)' /\ first' = RowsOfText(text)'
    BY <1>1, <1>2, TextSame, ShownSame DEF CopyInv
  <1> QED
    BY <1>1, <1>4, <1>6, <1>7, <1>8 DEF CopyInv

LEMMA ReadChunkCopy == ASSUME ConvertInv, PrintInv, CopyInv, ReadChunk PROVE CopyInv'
  <1>1. /\ pc = "print" /\ pc' = "print" /\ Len(columns) < Cols /\ row' = row + 1
        /\ UNCHANGED <<job, round, file, r, j, csv, first>>
        /\ columns' = Append(columns, ValueAt(rpos))
    BY DEF ReadChunk, storeVars
  <1>2. SameJob /\ Cols' = Cols /\ Cols \in Nat \ {0}
    BY <1>1, JobSame, TextSame, Positive DEF ConvertInv
  <1>3. PICK g \in Nat : ColumnsRead(g) /\ PrintedTo(csv, StoredRows(g) + r, j)
    BY <1>1 DEF CopyInv
  <1>4. IsSeq(columns) /\ Len(columns) \in Nat /\ Len(columns') = Len(columns) + 1
    BY <1>1, SeqAppend DEF PrintInv
  <1>5. r = 0 /\ j = 0
    <2>1. ~ GroupRead
      BY <1>1, <1>4 DEF GroupRead
    <2> QED
      BY <1>1, <2>1 DEF CopyInv, PrintInv
  <1>6. PICK h \in Nat : ColumnsRead(h)'
    BY <1>1, ReadChunkPrint DEF PrintInv
  <1>7. h = g
    <2>1. PICK C \in Nat \ {0}, n \in Nat : C = Cols /\ n = Len(columns) /\ n < C
      BY <1>1, <1>2, <1>4
    <2>2. row = g * C + n /\ row + 1 = h * C + (n + 1)
      BY <1>1, <1>2, <1>3, <1>4, <1>6, <2>1 DEF ColumnsRead
    <2>3. n + 1 \in 1 .. C /\ g * C \in Nat /\ h * C \in Nat
      BY <2>1
    <2>4. ((g * C + (n + 1)) - 1) \div C = g /\ ((h * C + (n + 1)) - 1) \div C = h
      BY <2>3, GroupOf
    <2>5. g * C + (n + 1) = h * C + (n + 1)
      BY <2>2, <2>3
    <2> QED
      BY <2>4, <2>5
  <1>8. (\E i \in Nat : ColumnsRead(i) /\ PrintedTo(csv, StoredRows(i) + r, j))'
    <2>1. StoredRows(g)' = StoredRows(g)
      BY <1>1, <1>2, ChunksSame DEF StoredRows
    <2>2. PICK n : n = StoredRows(g) + r
      OBVIOUS
    <2>3. PrintedTo(csv', n, j')
      BY <1>1, <1>3, <2>2
    <2>4. PrintedTo(csv, n, j)'
      BY <1>2, <2>3, ShownSame DEF PrintedTo, Shown, FieldsShown
    <2>5. StoredRows(g)' + r' = n
      BY <1>1, <2>1, <2>2
    <2> QED
      BY <1>6, <1>7, <2>4, <2>5
  <1>9. (r = 0 \/ (GroupRead /\ r <= Len(columns[1])))'
    BY <1>1, <1>5
  <1>10. Accepts(text)' /\ first' = RowsOfText(text)' /\ round' = 1
    BY <1>1, <1>2, TextSame, ShownSame DEF CopyInv
  <1> QED
    BY <1>1, <1>8, <1>9, <1>10 DEF CopyInv

LEMMA GroupPrintedCopy ==
    ASSUME ConvertInv, PrintInv, TextInv, CopyInv, GroupPrinted
    PROVE  CopyInv'
  <1>1. /\ pc = "print" /\ pc' = "print" /\ GroupRead /\ r >= Len(columns[1])
        /\ columns' = <<>> /\ r' = 0
        /\ UNCHANGED <<job, round, row, file, j, csv, first>>
    BY DEF GroupPrinted, parseVars, storeVars
  <1>2. SameJob /\ Cols' = Cols /\ Cols \in Nat \ {0}
    BY <1>1, JobSame, TextSame, Positive DEF ConvertInv
  <1>3. PICK g \in Nat : ColumnsRead(g) /\ PrintedTo(csv, StoredRows(g) + r, j)
    BY <1>1 DEF CopyInv
  <1>4. PICK n \in Nat, L \in Nat : RowsInColumns(g, n, L)
    BY <1>1, <1>3, GroupText
  <1>5. n = StoredRows(g) /\ L = Len(columns[1]) /\ StoredRows(g + 1) = n + L
    BY <1>4 DEF RowsInColumns
  <1>6. r = L
    <2>1. r \in Nat /\ (r = 0 \/ r <= Len(columns[1]))
      BY <1>1 DEF CopyInv, PrintInv
    <2> QED
      BY <1>1, <1>5, <2>1
  <1>7. j = 0
    BY <1>1, <1>5, <1>6 DEF PrintInv
  <1>8. ColumnsRead(g + 1)'
    <2>1. row = g * Cols + Cols
      BY <1>1, <1>3 DEF ColumnsRead, GroupRead
    <2>2. PICK C \in Nat : C = Cols
      BY <1>2
    <2>3. g * C + C = (g + 1) * C + 0
      OBVIOUS
    <2>4. row' = (g + 1) * Cols' + 0 /\ Len(<<>>) = 0
      BY <1>1, <1>2, <2>1, <2>2, <2>3
    <2> QED
      BY <1>1, <2>4 DEF ColumnsRead
  <1>9. (\E i \in Nat : ColumnsRead(i) /\ PrintedTo(csv, StoredRows(i) + r, j))'
    <2>1. StoredRows(g + 1)' = n + L
      BY <1>1, <1>2, <1>5, ChunksSame DEF StoredRows
    <2>2. PrintedTo(csv', n + L, j')
      BY <1>1, <1>3, <1>5, <1>6
    <2>3. PrintedTo(csv, n + L, j)'
      BY <1>2, <2>2, ShownSame DEF PrintedTo, Shown, FieldsShown
    <2>4. StoredRows(g + 1)' + r' = n + L /\ g + 1 \in Nat
      BY <1>1, <2>1
    <2> QED
      BY <1>8, <2>3, <2>4
  <1>10. Accepts(text)' /\ first' = RowsOfText(text)' /\ round' = 1
    BY <1>1, <1>2, TextSame, ShownSame DEF CopyInv
  <1> QED
    BY <1>1, <1>9, <1>10 DEF CopyInv

LEMMA PrintedCopy == ASSUME ConvertInv, PrintInv, TextInv, CopyInv, Printed PROVE CopyInv'
  <1>1. /\ pc = "print" /\ pc' = "printed" /\ row >= Len(batch_meta) /\ columns = <<>>
        /\ UNCHANGED <<job, round, r, j, csv, first>>
    BY DEF Printed, parseVars, storeVars, printVars
  <1>2. SameJob /\ Cols' = Cols
    BY <1>1, JobSame, TextSame
  <1>3. PICK C \in Nat \ {0} : C = Cols
    BY Positive DEF ConvertInv
  <1>4. PICK g \in Nat : ColumnsRead(g) /\ PrintedTo(csv, StoredRows(g) + r, j)
    BY <1>1 DEF CopyInv
  <1>5. r = 0 /\ j = 0
    <2>1. Len(<<>>) = 0
      OBVIOUS
    <2>2. ~ GroupRead
      BY <1>1, <1>3, <2>1 DEF GroupRead
    <2> QED
      BY <1>1, <2>2 DEF CopyInv, PrintInv
  <1>6. PICK G \in Nat, N \in Nat : /\ GroupsInv(G) /\ N = StoredRows(G) /\ Complete(N * Cols)
    BY <1>1, StoredRight DEF Stored
  <1>7. g = G
    <2>1. row = g * C + 0 /\ Len(batch_meta) = G * C + 0
      <3>1. Len(<<>>) = 0
        OBVIOUS
      <3> QED
        BY <1>1, <1>3, <1>4, <1>6, <3>1 DEF ColumnsRead, GroupsInv
    <2>2. row \in 0 .. Len(batch_meta)
      BY <1>1 DEF PrintInv
    <2>3. g * C \in Nat /\ G * C \in Nat
      OBVIOUS
    <2>4. g * C = G * C
      BY <1>1, <2>1, <2>2, <2>3
    <2>5. (g * C) \div C = g /\ (G * C) \div C = G
      BY NoRemainder
    <2> QED
      BY <2>4, <2>5
  <1>8. PrintedTo(csv', N, 0)
    <2>1. N + 0 = N
      OBVIOUS
    <2> QED
      BY <1>1, <1>4, <1>5, <1>6, <1>7, <2>1
  <1>9. (\E n \in Nat : n * Cols = FieldCount(text) /\ PrintedTo(csv, n, 0))'
    <2>1. PrintedTo(csv, N, 0)'
      BY <1>2, <1>8, ShownSame DEF PrintedTo, Shown, FieldsShown
    <2>2. (N * Cols)' = FieldCount(text)'
      BY <1>2, <1>6, ShownSame DEF Complete
    <2> QED
      BY <2>1, <2>2
  <1>10. Accepts(text)' /\ first' = RowsOfText(text)' /\ round' = 1
    BY <1>1, <1>2, TextSame, ShownSame DEF CopyInv
  <1> QED
    BY <1>1, <1>5, <1>9, <1>10 DEF CopyInv

\* What is printed is accepted, and describes the same table.
LEMMA CopyRead ==
    ASSUME JobInv, IsSeq(text), Accepts(text), NEW n \in Nat, n * Cols = FieldCount(text),
           PrintedTo(csv, n, 0)
    PROVE  Accepts(csv) /\ RowsOfText(csv) = RowsOfText(text)
  <1>1. PICK C \in Nat \ {0} : C = Cols
    BY Positive
  <1>2. PICK M \in Nat : M = n * C
    BY <1>1
  <1>3. Shown(csv, M, <<>>)
    BY <1>1, <1>2 DEF PrintedTo
  <1>4. /\ IsSeq(csv) /\ SeparatorsIn(csv, Len(csv)) = M /\ Pending(csv, Len(csv)) = <<>>
        /\ \A m \in 1 .. M : /\ FieldText(csv, m) = FieldValue(m)
                             /\ (csv[Separator(csv, m)] = Newline) <=> (m % Cols = 0)
    BY <1>3 DEF Shown, At, FieldsShown
  <1>5. FieldCount(csv) = M
    <2>1. FieldText(csv, M + 1) = <<>>
      BY <1>4, TextEnds
    <2> QED
      BY <1>4, <2>1 DEF FieldCount
  <1>6. FieldCount(text) = M
    BY <1>1, <1>2
  <1>7. ASSUME NEW m \in 1 .. M
        PROVE  /\ ~ Invalid(TypeOf(m), FieldText(csv, m))
               /\ ConvertType(TypeOf(m), FieldText(csv, m)) = ConvertType(TypeOf(m), FieldText(text, m))
    <2>1. PICK s \in Nat : s = SeparatorsIn(text, Len(text))
      BY SeqLength, SeparatorsNext
    <2>2. M = s \/ M = s + 1
      BY <1>6, <2>1 DEF FieldCount
    <2>3. Plain(FieldText(text, m))
      <3>1. m \in 1 .. s + 1
        BY <2>2
      <3> QED
        BY <2>1, <3>1, FieldPlain
    <2>4. ~ Invalid(TypeOf(m), FieldText(text, m))
      BY <1>6 DEF Accepts
    <2>5. FieldText(csv, m) = ConvertType(TypeOf(m), FieldText(text, m))
      BY <1>4 DEF FieldValue
    <2> QED
      BY <2>3, <2>4, <2>5, ValuePlain
  <1>8. Accepts(csv)
    <2>1. M % Cols = 0
      <3>1. M = n * C + 0 /\ 0 \in 0 .. C - 1
        BY <1>2
      <3>2. (n * C + 0) % C = 0
        BY <3>1, Remainder
      <3> QED
        BY <1>1, <3>1, <3>2
    <2> QED
      BY <1>4, <1>5, <1>7, <2>1 DEF Accepts
  <1>9. RowsOfText(csv) = RowsOfText(text)
    <2>1. M \div Cols = n
      BY <1>1, <1>2, NoRemainder
    <2>2. ASSUME NEW x \in 1 .. n, NEW c \in 1 .. Cols
          PROVE  ConvertType(TypeOf((x - 1) * Cols + c), FieldText(csv, (x - 1) * Cols + c))
                 = ConvertType(TypeOf((x - 1) * Cols + c), FieldText(text, (x - 1) * Cols + c))
      <3>1. (x - 1) * C + c \in 1 .. n * C
        BY <1>1, GroupIndex
      <3> QED
        BY <1>1, <1>2, <1>7, <3>1
    <2> QED
      BY <1>5, <1>6, <2>1, <2>2 DEF RowsOfText
  <1> QED
    BY <1>8, <1>9

LEMMA AgainCopy == ASSUME ConvertInv, TextInv, CopyInv, Again PROVE CopyInv'
  <1>1. /\ pc = "printed" /\ pc' = "group" /\ round' = 2 /\ r' = r /\ first' = first
        /\ job' = [job EXCEPT !.text = csv]
    BY DEF Again, printVars
  <1>2. text' = csv /\ job'.columns = job.columns /\ Cols' = Cols
    BY <1>1 DEF ConvertInv, JobInv, text, Cols
  <1>3. Accepts(csv) /\ RowsOfText(csv) = RowsOfText(text) /\ RowsOfText(text) = first
    BY <1>1, CopyRead DEF CopyInv, ConvertInv, TextInv
  <1>4. \A m : TypeOf(m)' = TypeOf(m)
    BY <1>2 DEF TypeOf
  <1>5. FieldCount(text)' = FieldCount(csv)
    BY <1>2 DEF FieldCount
  <1>6. Accepts(text)' <=> Accepts(csv)
    BY <1>2, <1>4, <1>5 DEF Accepts
  <1>7. RowsOfText(text)' = RowsOfText(csv)
    BY <1>2, <1>4, <1>5 DEF RowsOfText
  <1>8. r' = 0
    BY <1>1 DEF CopyInv
  <1> QED
    BY <1>1, <1>3, <1>6, <1>7, <1>8 DEF CopyInv

\* The steps that neither print nor begin a round.
LEMMA OtherCopy ==
    ASSUME CopyInv, UNCHANGED <<job, round, r, csv, first>>,
           pc \notin {"readMeta", "print", "printed"},
           pc' \notin {"readMeta", "print", "printed"}
    PROVE  CopyInv'
  <1>1. SameJob
    BY JobSame
  <1>2. (Accepts(text)' <=> Accepts(text)) /\ RowsOfText(text)' = RowsOfText(text)
    BY <1>1, TextSame, ShownSame
  <1> QED
    BY <1>2 DEF CopyInv

LEMMA NextCopy == ASSUME ConvertInv, PrintInv, TextInv, CopyInv, [Next]_vars PROVE CopyInv'
  <1>1. CASE UNCHANGED vars
    <2>1. UNCHANGED <<job, round, pc, row, columns, r, j, csv, file, first>>
      BY <1>1 DEF vars, parseVars, storeVars, printVars
    <2>2. SameJob
      BY <2>1, JobSame
    <2>3. Accepts(text)' <=> Accepts(text)
      BY <2>2, TextSame
    <2>4. FieldCount(text)' = FieldCount(text) /\ RowsOfText(text)' = RowsOfText(text)
      BY <2>2, ShownSame
    <2>5. GroupRead' <=> GroupRead
      BY <2>1, <2>2, TextSame DEF GroupRead
    <2>6. pc = "print" =>
              (\E g \in Nat : ColumnsRead(g) /\ PrintedTo(csv, StoredRows(g) + r, j))'
      <3> SUFFICES ASSUME pc = "print"
                   PROVE  (\E g \in Nat : ColumnsRead(g) /\ PrintedTo(csv, StoredRows(g) + r, j))'
        OBVIOUS
      <3>1. PICK g \in Nat : ColumnsRead(g) /\ PrintedTo(csv, StoredRows(g) + r, j)
        BY DEF CopyInv
      <3>2. ColumnsRead(g)' /\ StoredRows(g)' = StoredRows(g)
        BY <2>1, <2>2, <3>1, TextSame, ChunksSame DEF ColumnsRead, StoredRows
      <3>3. PICK n : n = StoredRows(g) + r
        OBVIOUS
      <3>4. PrintedTo(csv', n, j')
        BY <2>1, <3>1, <3>3
      <3>5. PrintedTo(csv, n, j)'
        BY <2>2, <3>4, ShownSame DEF PrintedTo, Shown, FieldsShown
      <3>6. StoredRows(g)' + r' = n
        BY <2>1, <3>2, <3>3
      <3> QED
        BY <3>2, <3>5, <3>6
    <2>7. pc = "printed" =>
              (\E n \in Nat : n * Cols = FieldCount(text) /\ PrintedTo(csv, n, 0))'
      <3> SUFFICES ASSUME pc = "printed"
                   PROVE  (\E n \in Nat : n * Cols = FieldCount(text) /\ PrintedTo(csv, n, 0))'
        OBVIOUS
      <3>1. PICK n \in Nat : n * Cols = FieldCount(text) /\ PrintedTo(csv, n, 0)
        BY DEF CopyInv
      <3>2. PrintedTo(csv', n, 0)
        BY <2>1, <3>1
      <3>3. PrintedTo(csv, n, 0)'
        BY <2>2, <3>2, ShownSame DEF PrintedTo, Shown, FieldsShown
      <3>4. (n * Cols)' = FieldCount(text)'
        BY <2>2, <2>4, <3>1, TextSame
      <3> QED
        BY <3>3, <3>4
    <2> QED
      BY <2>1, <2>3, <2>4, <2>5, <2>6, <2>7 DEF CopyInv
  <1>2. CASE \/ NextGroup \/ NextRow \/ RejectField \/ EndField \/ TakeChar \/ InputEnds
             \/ RowDone \/ LastRow \/ RejectLastRow \/ NoLastRow
    <2>1. /\ UNCHANGED <<job, round, r, csv, first>>
          /\ pc \notin {"readMeta", "print", "printed"}
          /\ pc' \notin {"readMeta", "print", "printed"}
      BY <1>2 DEF NextGroup, NextRow, RejectField, EndField, TakeChar, InputEnds, RowDone,
                  LastRow, RejectLastRow, NoLastRow, Throw, printVars
    <2> QED
      BY <2>1, OtherCopy
  <1>3. CASE WriteChunk \/ GroupWritten \/ WriteMeta \/ WriteSchema \/ WriteTrailer
    <2>1. /\ UNCHANGED <<job, round, r, csv, first>>
          /\ pc \notin {"readMeta", "print", "printed"}
          /\ pc' \notin {"readMeta", "print", "printed"}
      BY <1>3 DEF WriteChunk, GroupWritten, WriteMeta, WriteSchema, WriteTrailer, printVars
    <2> QED
      BY <2>1, OtherCopy
  <1> QED
    BY <1>1, <1>2, <1>3, ReadTrailerCopy, ReadMetaCopy, ReadChunkCopy, PrintFieldCopy,
       GroupPrintedCopy, PrintedCopy, AgainCopy DEF Next

-----------------------------------------------------------------------------
(* The theorems                                                            *)

TableInv == ConvertInv /\ PrintInv /\ TextInv /\ CopyInv

LEMMA TableStarts == Init => TableInv
  <1> SUFFICES ASSUME Init PROVE TableInv
    OBVIOUS
  <1>1. ConvertInv /\ PrintInv
    BY InitInv DEF Init, PrintInv
  <1>2. TextInv
    BY InitText
  <1>3. CopyInv
    BY DEF Init, CopyInv
  <1> QED
    BY <1>1, <1>2, <1>3 DEF TableInv

LEMMA TableKept == TableInv /\ [Next]_vars => TableInv'
  <1> SUFFICES ASSUME ConvertInv, PrintInv, TextInv, CopyInv, [Next]_vars PROVE TableInv'
    BY DEF TableInv
  <1>1. ConvertInv' /\ PrintInv'
    BY NextConvert, NextPrint
  <1>2. CopyInv'
    BY NextCopy
  <1>3. pc = "printed" => IsSeq(csv)
    BY DEF CopyInv, PrintedTo, Shown
  <1>4. TextInv'
    BY <1>3, NextText
  <1> QED
    BY <1>1, <1>2, <1>4 DEF TableInv

\* For every text, schema and batch size: a text is stored just if every line
\* has its columns and every integer field a number, and the table stored is the one
\* its unquoted separators make (ConvertToColumnar).
THEOREM RowsAreAsWritten == Spec => []RowsAsWritten
  <1>1. TableInv => RowsAsWritten
    BY Rows DEF TableInv
  <1> QED
    BY <1>1, TableStarts, TableKept, PTL DEF Spec

\* For every text, schema and batch size: the text that is printed from a
\* stored table is accepted again, and stores the same table (PrintTable and
\* ConvertToColumnar).
THEOREM PrintedReadsBack == Spec => []RoundTrip
  <1>1. TableInv => RoundTrip
    BY Rows DEF TableInv, CopyInv, TextInv, RowsAsWritten, RoundTrip
  <1> QED
    BY <1>1, TableStarts, TableKept, PTL DEF Spec

=============================================================================
