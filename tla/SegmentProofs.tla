---------------------------- MODULE SegmentProofs ----------------------------
(***************************************************************************)
(* The segment (SegmentLog.tla and SegmentIndex.tla), for any lengths,     *)
(* epochs and bounds, any failures of creat, write and ftruncate in a      *)
(* write, and any crashes: what a sync promised stays and is found by a    *)
(* scan, a recovery keeps whole frames, appended frames are where they     *)
(* belong, and the index leads to every frame.                             *)
(*                                                                         *)
(* The invariant says of the file which of its cells are those of written  *)
(* frames, and that those behind them cannot pass for the frame that would *)
(* come next; this is what a scan can rely on (ScanRight).                 *)
(*                                                                         *)
(* The scan, the layout of the frames, the anchors and the search are      *)
(* defined by recursion.  What they compute is proved by induction over    *)
(* the naturals, stated for sets; Recursion and Fixpoint give the function *)
(* there is, and the definition, which chooses one, must then be it.       *)
(***************************************************************************)
EXTENDS SegmentLog, SequenceTheorems, NaturalsInduction, WellFoundedInduction, TLAPS

\* The cells of frames.
Cells == [frame : Frames, at : Nat]

\* The cells of the first n of the frames s.
First(s, n) == Layout(SubSeq(s, 1, n))

\* The frames written.
WrittenWell == written \in Seq(Frames)

\* The cells of the file.  One behind the frames written is of an append that began at
\* their end or before, and if it began there, of one that did not get to its last cell.
CellsWell ==
    /\ file \in Seq(Cells)
    /\ \A j \in 1..Len(file) :
          j <= Len(Layout(written)) => file[j] = Layout(written)[j]
    /\ \A j \in 1..Len(file) :
          j > Len(Layout(written)) =>
              /\ j - file[j].at <= Len(Layout(written))
              /\ j - file[j].at = Len(Layout(written)) =>
                    file[j].at < HeadCells + file[j].frame.len

\* A sync promised the cells of the first so many frames.
PromisedWell ==
    /\ durable \in 0..Len(file)
    /\ \E k \in 0..Len(written) : promised = First(written, k)
    /\ Len(promised) <= durable
    /\ promised # <<>> => entry = "durable" /\ head \in {"durable", "other"}

\* What the last scan has said is true until the next change.
ScanWell ==
    /\ scan \in [kind : {"none", "clean", "torn_tail", "corrupt", "head_bad"},
                 valid_end : Nat, last_epoch : 0..MaxEpoch]
    /\ SyncedReadable
    /\ scan.kind = "none" => scan = NotScanned
    /\ scan.kind = "clean" /\ handle = "closed" => file = Layout(written)

\* Where the next frame goes.
HandleWell ==
    /\ handle \in {"none", "opened", "headed", "synced", "open", "closed"}
    /\ entry \in {"none", "cached", "durable"}
    /\ head \in {"none", "torn", "cached", "durable", "other"}
    /\ offset \in Nat
    /\ lastEpoch \in 0..MaxEpoch
    /\ handle = "none" => /\ entry = "none" /\ file = <<>> /\ scan = NotScanned
                          /\ offset = 0 /\ lastEpoch = 0
    /\ handle \in {"opened", "headed", "synced"} =>
          file = <<>> /\ written = <<>> /\ scan = NotScanned /\ offset = 0 /\ lastEpoch = 0
    /\ handle = "open" => offset = Len(Layout(written)) /\ offset <= Len(file)

\* The invariant.
SegmentInv == WrittenWell /\ CellsWell /\ PromisedWell /\ ScanWell /\ HandleWell

-----------------------------------------------------------------------------
(* Induction and recursion over the naturals.                              *)

\* Induction over the naturals, as a fact about sets: a least number that is not in S
\* would follow one that is.
LEMMA InductionOnNat ==
  ASSUME NEW S \in SUBSET Nat, 0 \in S, \A n \in S : n + 1 \in S
  PROVE  S = Nat
<1> DEFINE R == OpToRel(<, Nat)
<1>1. \A m, n \in Nat : m < n => <<m, n>> \in R
  BY DEF OpToRel
<1>2. IsWellFoundedOn(R, Nat)
  BY NatLessThanWellFounded
<1> HIDE DEF R
<1> SUFFICES ASSUME Nat \ S # {} PROVE FALSE
  OBVIOUS
<1>3. PICK n \in Nat \ S : \A m \in Nat \ S : ~(<<m, n>> \in R)
  <2>1. Nat \ S \subseteq Nat
    OBVIOUS
  <2> QED
    BY <1>2, <2>1, WFMin
<1>4. n # 0 /\ n - 1 \in Nat /\ n - 1 < n
  BY <1>3
<1>5. n - 1 \in S
  BY <1>1, <1>3, <1>4
<1>6. (n - 1) + 1 = n
  BY <1>3
<1> QED
  BY <1>3, <1>5, <1>6

\* f is v0 with the steps taken one after the other.
Iterates(f, v0, step) == f[0] = v0 /\ \A n \in Nat : f[n + 1] = step[n][f[n]]

\* A recursion over the naturals has a solution: the solutions up to each n agree.
LEMMA Recursion ==
  ASSUME NEW V, NEW v0 \in V, NEW step \in [Nat -> [V -> V]]
  PROVE  \E f \in [Nat -> V] : Iterates(f, v0, step)
<1> DEFINE G(n) == {g \in [0..n -> V] : g[0] = v0 /\ \A i \in 0..(n - 1) : g[i + 1] = step[i][g[i]]}
<1> DEFINE S == {n \in Nat : G(n) # {}}
<1>1. S = Nat
  <2>1. 0 \in S
    <3>1. [i \in 0..0 |-> v0] \in G(0)
      OBVIOUS
    <3> QED BY <3>1
  <2>2. ASSUME NEW n \in S PROVE n + 1 \in S
    <3>1. PICK g \in G(n) : TRUE
      BY <2>2
    <3> DEFINE h == [i \in 0..(n + 1) |-> IF i = n + 1 THEN step[n][g[n]] ELSE g[i]]
    <3>2. n \in Nat /\ g \in [0..n -> V] /\ g[n] \in V
      BY <3>1
    <3>3. step[n][g[n]] \in V
      BY <3>2
    <3>4. h \in [0..(n + 1) -> V]
      BY <3>2, <3>3
    <3>5. h[0] = v0
      BY <3>1, <3>2
    <3>6. ASSUME NEW i \in 0..n PROVE h[i + 1] = step[i][h[i]]
      <4>1. CASE i = n
        BY <4>1, <3>2
      <4>2. CASE i # n
        <5>1. i \in 0..(n-1) /\ i + 1 \in 0..n /\ i + 1 # n + 1
          BY <4>2, <3>2
        <5>2. g[i + 1] = step[i][g[i]]
          BY <5>1, <3>1
        <5> QED BY <5>1, <5>2, <3>2
      <4> QED BY <4>1, <4>2
    <3>7. n + 1 \in Nat /\ (n + 1) - 1 = n
      BY <3>2
    <3> HIDE DEF h
    <3>8. h \in G(n + 1)
      BY <3>4, <3>5, <3>6, <3>7
    <3> QED BY <3>7, <3>8
  <2>3. S \in SUBSET Nat
    OBVIOUS
  <2> HIDE DEF S
  <2> QED BY <2>1, <2>2, <2>3, InductionOnNat
<1> DEFINE c == [n \in Nat |-> CHOOSE g \in G(n) : TRUE]
<1>2. \A n \in Nat : c[n] \in G(n)
  BY <1>1
<1> HIDE DEF c
<1>3. ASSUME NEW n \in Nat
      PROVE  \A i \in 0..n : c[n][i] = c[n + 1][i]
  <2> DEFINE T == {i \in Nat : i <= n => c[n][i] = c[n + 1][i]}
  <2>1. 0 \in T
    BY <1>2, n + 1 \in Nat
  <2>2. ASSUME NEW i \in T PROVE i + 1 \in T
    <3> SUFFICES ASSUME i + 1 <= n PROVE c[n][i + 1] = c[n + 1][i + 1]
      OBVIOUS
    <3>1. i \in 0..(n - 1) /\ i \in 0..((n + 1) - 1) /\ c[n][i] = c[n + 1][i] /\ n + 1 \in Nat
      BY <2>2
    <3>2. c[n][i + 1] = step[i][c[n][i]]
      BY <3>1, <1>2
    <3>3. c[n + 1][i + 1] = step[i][c[n + 1][i]]
      BY <3>1, <1>2
    <3> QED BY <3>1, <3>2, <3>3
  <2>3. T \in SUBSET Nat
    OBVIOUS
  <2>4. T = Nat
    <3> HIDE DEF T
    <3> QED BY <2>1, <2>2, <2>3, InductionOnNat
  <2> QED BY <2>4
<1> DEFINE f == [n \in Nat |-> c[n][n]]
<1>4. f \in [Nat -> V]
  BY <1>2
<1>5. f[0] = v0
  BY <1>2
<1>6. ASSUME NEW n \in Nat PROVE f[n + 1] = step[n][f[n]]
  <2>1. n + 1 \in Nat /\ n \in 0..((n + 1) - 1) /\ n \in 0..n
    OBVIOUS
  <2>2. c[n + 1][n + 1] = step[n][c[n + 1][n]]
    BY <2>1, <1>2
  <2> QED BY <2>1, <2>2, <1>3
<1>7. Iterates(f, v0, step)
  BY <1>5, <1>6 DEF Iterates
<1> HIDE DEF f
<1> QED BY <1>4, <1>7

-----------------------------------------------------------------------------
(* Layouts: the cells of frames, one frame after the other.                *)

\* A has the first n of the sequences q joined.
Joins(A, C, q) ==
    /\ A \in [Nat -> Seq(C)] /\ A[0] = <<>>
    /\ \A n \in Nat : n < Len(q) => A[n + 1] = A[n] \o q[n + 1]

\* There is such an A.
LEMMA JoinsExists ==
  ASSUME NEW C, NEW q \in Seq(Seq(C))
  PROVE  \E A : Joins(A, C, q)
<1> DEFINE V == Seq(C)
           step == [n \in Nat |-> [v \in V |-> IF n < Len(q) THEN v \o q[n + 1] ELSE v]]
<1>1. Len(q) \in Nat /\ \A n \in Nat : n < Len(q) => q[n + 1] \in Seq(C)
  <2>1. Len(q) \in Nat /\ \A i \in 1..Len(q) : q[i] \in Seq(C)
    BY LenProperties, ElementOfSeq
  <2> QED BY <2>1
<1>2. step \in [Nat -> [V -> V]]
  <2>1. ASSUME NEW n \in Nat, NEW v \in V
        PROVE  (IF n < Len(q) THEN v \o q[n + 1] ELSE v) \in V
    <3>1. CASE n < Len(q)
      <4>1. v \o q[n + 1] \in Seq(C)
        BY <1>1, <3>1, ConcatProperties
      <4> QED BY <3>1, <4>1
    <3>2. CASE ~(n < Len(q))
      BY <3>2
    <3> QED BY <3>1, <3>2
  <2> QED BY <2>1
<1>3. <<>> \in V
  BY EmptySeq
<1>4. PICK A \in [Nat -> V] : Iterates(A, <<>>, step)
  <2> HIDE DEF V, step
  <2> QED BY <1>2, <1>3, Recursion
<1>5. \A n \in Nat : A[n + 1] = step[n][A[n]]
  BY <1>4 DEF Iterates
<1>6. \A n \in Nat : n < Len(q) => A[n + 1] = A[n] \o q[n + 1]
  BY <1>5
<1>7. A[0] = <<>>
  BY <1>4 DEF Iterates
<1> QED
  BY <1>6, <1>7 DEF Joins

\* FlattenSeq joins them all.
LEMMA FlattenJoins ==
  ASSUME NEW C, NEW q \in Seq(Seq(C)), NEW A, Joins(A, C, q)
  PROVE  FlattenSeq(q) = A[Len(q)]
<1>1. Len(q) \in Nat /\ \A i \in 1..Len(q) : q[i] \in Seq(C)
  BY LenProperties, ElementOfSeq
<1>2. CASE Len(q) = 0
  <2>1. q = <<>>
    BY <1>2, EmptySeq
  <2> QED BY <1>2, <2>1, Zenon DEF FlattenSeq, Joins
<1>3. CASE Len(q) # 0
  <2> DEFINE h == [i \in 1..Len(q) |-> A[i]]
             g == CHOOSE g : g = [i \in 1..Len(q) |-> IF i = 1 THEN q[i] ELSE g[i - 1] \o q[i]]
  <2>1. h = [i \in 1..Len(q) |-> IF i = 1 THEN q[i] ELSE h[i - 1] \o q[i]]
    <3>1. ASSUME NEW i \in 1..Len(q)
          PROVE  A[i] = IF i = 1 THEN q[i] ELSE h[i - 1] \o q[i]
      <4>1. CASE i = 1
        <5>1. A[1] = <<>> \o q[1]
          <6>1. 0 \in Nat /\ 0 < Len(q) /\ 0 + 1 = 1
            BY <1>1, <1>3
          <6>2. A[0 + 1] = A[0] \o q[0 + 1]
            BY <6>1, Zenon DEF Joins
          <6> QED BY <6>1, <6>2 DEF Joins
        <5>2. <<>> \o q[1] = q[1]
          BY <1>1, <4>1, ConcatEmptySeq
        <5> QED BY <4>1, <5>1, <5>2
      <4>2. CASE i # 1
        <5>1. i - 1 \in Nat /\ i - 1 < Len(q) /\ (i - 1) + 1 = i /\ i - 1 \in 1..Len(q)
          BY <1>1, <4>2
        <5>2. A[i] = A[i - 1] \o q[i]
          BY <5>1 DEF Joins
        <5> QED BY <4>2, <5>1, <5>2
      <4> QED BY <4>1, <4>2
    <3> QED BY <3>1
  <2>2. g = [i \in 1..Len(q) |-> IF i = 1 THEN q[i] ELSE g[i - 1] \o q[i]]
    <3>1. \E x : x = [i \in 1..Len(q) |-> IF i = 1 THEN q[i] ELSE x[i - 1] \o q[i]]
      <4> HIDE DEF h
      <4> QED BY <2>1
    <3> QED BY <3>1, Zenon
  <2>3. FlattenSeq(q) = g[Len(q)]
    BY <1>3, Zenon DEF FlattenSeq
  <2> DEFINE T == {n \in Nat : n < Len(q) => g[n + 1] = A[n + 1]}
  <2> HIDE DEF g
  <2>4. 0 \in T
    <3>1. g[1] = q[1]
      BY <1>1, <1>3, <2>2
    <3>2. A[1] = <<>> \o q[1]
      <4>1. 0 \in Nat /\ 0 < Len(q) /\ 0 + 1 = 1
        BY <1>1, <1>3
      <4>2. A[0 + 1] = A[0] \o q[0 + 1]
        BY <4>1, Zenon DEF Joins
      <4> QED BY <4>1, <4>2 DEF Joins
    <3>3. <<>> \o q[1] = q[1]
      BY <1>1, <1>3, ConcatEmptySeq
    <3> QED BY <3>1, <3>2, <3>3
  <2>5. ASSUME NEW n \in T PROVE n + 1 \in T
    <3> SUFFICES ASSUME n + 1 < Len(q) PROVE g[n + 1 + 1] = A[n + 1 + 1]
      BY n + 1 \in Nat
    <3>1. n \in Nat /\ n + 1 \in Nat /\ g[n + 1] = A[n + 1]
      BY <1>1, <2>5
    <3>2. n + 1 + 1 \in 1..Len(q) /\ n + 1 + 1 # 1 /\ (n + 1 + 1) - 1 = n + 1
      BY <1>1, <3>1
    <3>3. g[n + 1 + 1] = g[n + 1] \o q[n + 1 + 1]
      BY <2>2, <3>2
    <3>4. A[n + 1 + 1] = A[n + 1] \o q[n + 1 + 1]
      BY <3>1 DEF Joins
    <3> QED BY <3>1, <3>3, <3>4
  <2>6. T = Nat
    <3>1. T \in SUBSET Nat
      OBVIOUS
    <3> HIDE DEF T
    <3> QED BY <2>4, <2>5, <3>1, InductionOnNat
  <2>7. Len(q) - 1 \in T /\ (Len(q) - 1) + 1 = Len(q) /\ Len(q) - 1 < Len(q)
    <3>1. Len(q) - 1 \in Nat /\ (Len(q) - 1) + 1 = Len(q) /\ Len(q) - 1 < Len(q)
      BY <1>1, <1>3
    <3> HIDE DEF T
    <3> QED BY <2>6, <3>1
  <2> QED BY <2>3, <2>7
<1> QED
  BY <1>2, <1>3

\* One sequence more comes behind the others.
LEMMA FlattenMore ==
  ASSUME NEW C, NEW q \in Seq(Seq(C)), NEW c \in Seq(C)
  PROVE  /\ FlattenSeq(q) \in Seq(C)
         /\ FlattenSeq(Append(q, c)) = FlattenSeq(q) \o c
<1> DEFINE r == Append(q, c)
<1>1. /\ r \in Seq(Seq(C)) /\ Len(q) \in Nat /\ Len(r) = Len(q) + 1
      /\ r[Len(q) + 1] = c /\ \A i \in 1..Len(q) : r[i] = q[i]
  BY AppendProperties, LenProperties
<1> HIDE DEF r
<1>2. PICK A : Joins(A, C, r)
  BY <1>1, JoinsExists
<1>3. Joins(A, C, q)
  <2>1. \A n \in Nat : n < Len(q) => n < Len(r) /\ r[n + 1] = q[n + 1]
    <3>1. \A n \in Nat : n < Len(q) => n < Len(r) /\ n + 1 \in 1..Len(q)
      BY <1>1
    <3> QED BY <1>1, <3>1
  <2> QED BY <1>2, <2>1 DEF Joins
<1>4. FlattenSeq(q) = A[Len(q)] /\ FlattenSeq(r) = A[Len(q) + 1]
  BY <1>1, <1>2, <1>3, FlattenJoins
<1>5. A[Len(q) + 1] = A[Len(q)] \o c /\ A[Len(q)] \in Seq(C)
  <2>1. Len(q) < Len(r)
    BY <1>1
  <2> QED BY <1>1, <1>2, <2>1, Zenon DEF Joins
<1> QED
  BY <1>4, <1>5 DEF r

\* The cells of a frame, one by one.
LEMMA CellsOfType ==
  ASSUME NEW f \in Frames
  PROVE  /\ CellsOf(f) \in Seq(Cells) /\ Len(CellsOf(f)) = HeadCells + f.len
         /\ f.len \in Nat /\ HeadCells + f.len \in Nat
         /\ \A i \in 1..(HeadCells + f.len) : CellsOf(f)[i] = [frame |-> f, at |-> i]
<1>1. f.len \in Nat /\ HeadCells + f.len \in Nat
  <2>1. f.len \in Lens
    BY DEF Frames
  <2>2. Lens \subseteq Nat
    BY SizesAssumption
  <2>3. f.len \in Nat
    BY <2>1, <2>2, Zenon
  <2>4. HeadCells + f.len \in Nat
    BY <2>3 DEF HeadCells
  <2> QED BY <2>3, <2>4
<1>2. \A i \in 1..(HeadCells + f.len) : [frame |-> f, at |-> i] \in Cells
  BY <1>1 DEF Cells
<1>3. /\ CellsOf(f) \in Seq(Cells) /\ Len(CellsOf(f)) = HeadCells + f.len
  <2> DEFINE n == HeadCells + f.len
  <2>1. CellsOf(f) = [i \in 1..n |-> [frame |-> f, at |-> i]]
    BY DEF CellsOf
  <2>2. n \in Nat
    BY <1>1
  <2> HIDE DEF n
  <2>3. [i \in 1..n |-> [frame |-> f, at |-> i]] \in Seq(Cells)
    BY <1>2, <2>2 DEF n
  <2> QED BY <2>1, <2>2, <2>3, LenProperties DEF n
<1> QED
  BY <1>1, <1>3 DEF CellsOf

\* No frames, no cells.
LEMMA LayoutEmpty == Layout(<<>>) = <<>>
<1>1. Len(<<>>) = 0 /\ 1..0 = {}
  OBVIOUS
<1>2. [i \in 1..0 |-> CellsOf(<<>>[i])] = <<>>
  BY <1>1, SMT
<1>3. Layout(<<>>) = FlattenSeq(<<>>)
  BY <1>1, <1>2 DEF Layout
<1> QED BY <1>1, <1>3 DEF FlattenSeq

\* The cells of one frame more come behind those of the others.
LEMMA LayoutMore ==
  ASSUME NEW s \in Seq(Frames), NEW f \in Frames
  PROVE  Layout(s) \in Seq(Cells) /\ Layout(Append(s, f)) = Layout(s) \o CellsOf(f)
<1> DEFINE q == [i \in 1..Len(s) |-> CellsOf(s[i])]
<1>1. Len(s) \in Nat /\ \A i \in 1..Len(s) : s[i] \in Frames
  BY LenProperties, ElementOfSeq
<1>2. q \in Seq(Seq(Cells)) /\ Len(q) = Len(s)
  <2>1. \A i \in 1..Len(s) : CellsOf(s[i]) \in Seq(Cells)
    BY <1>1, CellsOfType
  <2> QED BY <1>1, <2>1
<1>3. CellsOf(f) \in Seq(Cells)
  BY CellsOfType
<1>4. [i \in 1..Len(Append(s, f)) |-> CellsOf(Append(s, f)[i])] = Append(q, CellsOf(f))
  <2> DEFINE r == Append(s, f)
  <2>1. Len(r) = Len(s) + 1 /\ r[Len(s) + 1] = f /\ \A i \in 1..Len(s) : r[i] = s[i]
    BY AppendProperties, <1>1
  <2> DEFINE u == [i \in 1..Len(r) |-> CellsOf(r[i])]
             v == Append(q, CellsOf(f))
  <2>2. v \in Seq(Seq(Cells)) /\ Len(v) = Len(s) + 1 /\ v[Len(s) + 1] = CellsOf(f)
        /\ \A i \in 1..Len(s) : v[i] = q[i]
    <3> HIDE DEF q
    <3> QED BY <1>2, <1>3, AppendProperties
  <2>3. v = [i \in 1..(Len(s) + 1) |-> v[i]]
    <3> HIDE DEF v
    <3> QED BY <2>2, LenProperties
  <2>4. \A i \in 1..Len(s) : q[i] = CellsOf(s[i])
    OBVIOUS
  <2> HIDE DEF r, q, v
  <2>5. \A i \in 1..(Len(s) + 1) : v[i] = CellsOf(r[i])
    BY <1>1, <2>1, <2>2, <2>4, SMTT(30)
  <2>6. u = [i \in 1..(Len(s) + 1) |-> CellsOf(r[i])]
    BY <2>1
  <2>7. u = v
    BY <2>3, <2>5, <2>6
  <2> QED BY <2>7 DEF r, v
<1>5. FlattenSeq(q) \in Seq(Cells) /\ FlattenSeq(Append(q, CellsOf(f))) = FlattenSeq(q) \o CellsOf(f)
  <2> HIDE DEF q
  <2> QED BY <1>2, <1>3, FlattenMore
<1> QED
  BY <1>4, <1>5 DEF Layout

\* The first n elements.
LEMMA SubSeqHead ==
  ASSUME NEW S, NEW s \in Seq(S), NEW n \in 0..Len(s)
  PROVE  /\ SubSeq(s, 1, n) \in Seq(S) /\ Len(SubSeq(s, 1, n)) = n
         /\ \A i \in 1..n : SubSeq(s, 1, n)[i] = s[i]
<1>1. Len(s) \in Nat /\ \A i \in 1..Len(s) : s[i] \in S
  BY LenProperties, ElementOfSeq
<1>2. n \in Nat /\ n \in Int /\ 1 \in Int /\ \A i \in 1..n : s[i] \in S
  BY <1>1
<1>3. /\ SubSeq(s, 1, n) \in Seq(S)
      /\ Len(SubSeq(s, 1, n)) = IF 1 <= n THEN n - 1 + 1 ELSE 0
      /\ \A i \in 1..(n - 1 + 1) : SubSeq(s, 1, n)[i] = s[1 + i - 1]
  BY <1>2, SubSeqProperties
<1> DEFINE t == SubSeq(s, 1, n)
<1> HIDE DEF t
<1>4. Len(t) = n
  BY <1>2, <1>3 DEF t
<1>5. ASSUME NEW i \in 1..n PROVE t[i] = s[i]
  <2>1. i \in 1..(n - 1 + 1) /\ 1 + i - 1 = i
    BY <1>2
  <2> QED BY <1>3, <2>1 DEF t
<1> QED
  BY <1>3, <1>4, <1>5 DEF t

\* The first n + 1 elements are the first n and one.
LEMMA SubSeqOneMore ==
  ASSUME NEW S, NEW s \in Seq(S), NEW n \in Nat, n < Len(s)
  PROVE  SubSeq(s, 1, n + 1) = Append(SubSeq(s, 1, n), s[n + 1])
<1>1. Len(s) \in Nat /\ n \in 0..Len(s) /\ n + 1 \in 0..Len(s) /\ n + 1 \in 1..Len(s)
  BY LenProperties
<1>2. s[n + 1] \in S
  BY <1>1, ElementOfSeq
<1> DEFINE a == SubSeq(s, 1, n + 1)
           b == SubSeq(s, 1, n)
           c == Append(b, s[n + 1])
<1>3. a \in Seq(S) /\ Len(a) = n + 1 /\ \A i \in 1..(n + 1) : a[i] = s[i]
  BY <1>1, SubSeqHead
<1>4. b \in Seq(S) /\ Len(b) = n /\ \A i \in 1..n : b[i] = s[i]
  BY <1>1, SubSeqHead
<1>5. /\ c \in Seq(S) /\ Len(c) = n + 1 /\ c[n + 1] = s[n + 1]
      /\ \A i \in 1..n : c[i] = b[i]
  <2> HIDE DEF b
  <2> QED BY <1>2, <1>4, AppendProperties
<1> HIDE DEF a, b, c
<1>6. \A i \in 1..(n + 1) : a[i] = c[i]
  BY <1>3, <1>4, <1>5
<1>7. a = c
  BY <1>3, <1>5, <1>6, SeqEqual
<1> QED
  BY <1>7 DEF a, b, c

\* A layout is cells.
LEMMA LayoutType ==
  ASSUME NEW s \in Seq(Frames)
  PROVE  Layout(s) \in Seq(Cells) /\ Len(Layout(s)) \in Nat
<1>1. Layout(s) \in Seq(Cells)
  <2>1. CASE s = <<>>
    BY <2>1, LayoutEmpty, EmptySeq
  <2>2. CASE s # <<>>
    <3>1. Len(s) \in Nat \ {0}
      BY <2>2, EmptySeq
    <3>2. s[1] \in Frames
      BY <3>1, ElementOfSeq
    <3> QED BY <3>2, LayoutMore
  <2> QED BY <2>1, <2>2
<1> QED
  BY <1>1, LenProperties

\* The first none and the first all.
LEMMA FirstEnds ==
  ASSUME NEW s \in Seq(Frames)
  PROVE  First(s, 0) = <<>> /\ First(s, Len(s)) = Layout(s) /\ Len(First(s, 0)) = 0
<1>1. SubSeq(s, 1, 0) = <<>>
  BY SubSeqEmpty
<1>2. SubSeq(s, 1, Len(s)) = s
  BY SubSeqFull
<1> QED
  BY <1>1, <1>2, LayoutEmpty, EmptySeq DEF First

\* The cells of the first n frames are cells.
LEMMA FirstType ==
  ASSUME NEW s \in Seq(Frames), NEW n \in 0..Len(s)
  PROVE  First(s, n) \in Seq(Cells) /\ Len(First(s, n)) \in Nat
<1>1. SubSeq(s, 1, n) \in Seq(Frames)
  BY SubSeqHead
<1> QED
  BY <1>1, LayoutType DEF First

\* The cells of frame n + 1 come behind those of the first n.
LEMMA FirstNext ==
  ASSUME NEW s \in Seq(Frames), NEW n \in Nat, n < Len(s)
  PROVE  /\ s[n + 1] \in Frames
         /\ First(s, n + 1) = First(s, n) \o CellsOf(s[n + 1])
         /\ Len(First(s, n + 1)) = Len(First(s, n)) + HeadCells + s[n + 1].len
         /\ Len(First(s, n)) < Len(First(s, n + 1))
         /\ \A j \in 1..Len(First(s, n)) : First(s, n + 1)[j] = First(s, n)[j]
         /\ \A i \in 1..(HeadCells + s[n + 1].len) :
               First(s, n + 1)[Len(First(s, n)) + i] = [frame |-> s[n + 1], at |-> i]
<1>1. Len(s) \in Nat /\ n \in 0..Len(s) /\ n + 1 \in 1..Len(s)
  BY LenProperties
<1>2. s[n + 1] \in Frames
  BY <1>1, ElementOfSeq
<1>3. SubSeq(s, 1, n) \in Seq(Frames)
  BY <1>1, SubSeqHead
<1>4. First(s, n + 1) = First(s, n) \o CellsOf(s[n + 1])
  BY <1>2, <1>3, SubSeqOneMore, LayoutMore DEF First
<1> DEFINE a == First(s, n)
           c == CellsOf(s[n + 1])
           l == s[n + 1].len
<1>5. a \in Seq(Cells) /\ Len(a) \in Nat
  BY <1>1, FirstType
<1>6. /\ c \in Seq(Cells) /\ Len(c) = HeadCells + l /\ l \in Nat /\ HeadCells + l \in Nat
      /\ \A i \in 1..(HeadCells + l) : c[i] = [frame |-> s[n + 1], at |-> i]
  BY <1>2, CellsOfType
<1> HIDE DEF a, c, l
<1>7. /\ Len(a \o c) = Len(a) + Len(c)
      /\ \A i \in 1..(Len(a) + Len(c)) : (a \o c)[i] = IF i <= Len(a) THEN a[i] ELSE c[i - Len(a)]
  BY <1>5, <1>6, ConcatProperties
<1>8. Len(a \o c) = Len(a) + HeadCells + l /\ Len(a) < Len(a \o c)
  BY <1>5, <1>6, <1>7 DEF HeadCells
<1>9. \A j \in 1..Len(a) : (a \o c)[j] = a[j]
  BY <1>5, <1>6, <1>7
<1>10. ASSUME NEW i \in 1..(HeadCells + l) PROVE (a \o c)[Len(a) + i] = [frame |-> s[n + 1], at |-> i]
  <2>1. Len(a) + i \in 1..(Len(a) + Len(c)) /\ ~(Len(a) + i <= Len(a)) /\ (Len(a) + i) - Len(a) = i
    BY <1>5, <1>6 DEF HeadCells
  <2> QED BY <1>6, <1>7, <2>1
<1> QED
  BY <1>2, <1>4, <1>8, <1>9, <1>10, Zenon DEF a, c, l

\* More frames are more cells, and those of fewer frames are their beginning.
LEMMA FirstPrefix ==
  ASSUME NEW s \in Seq(Frames), NEW n \in 0..Len(s), NEW k \in n..Len(s)
  PROVE  /\ Len(First(s, n)) <= Len(First(s, k))
         /\ n < k => Len(First(s, n)) < Len(First(s, k))
         /\ \A j \in 1..Len(First(s, n)) : First(s, k)[j] = First(s, n)[j]
<1>0. Len(s) \in Nat /\ n \in Nat /\ k \in Nat /\ n <= k /\ k <= Len(s)
  BY LenProperties
<1> DEFINE Is(m) == /\ Len(First(s, n)) <= Len(First(s, m))
                    /\ n < m => Len(First(s, n)) < Len(First(s, m))
                    /\ \A j \in 1..Len(First(s, n)) : First(s, m)[j] = First(s, n)[j]
           T == {d \in Nat : n + d <= Len(s) => Is(n + d)}
<1>1. 0 \in T
  <2>1. n + 0 = n /\ ~(n < n) /\ Len(First(s, n)) <= Len(First(s, n))
    BY <1>0, FirstType
  <2> QED BY <2>1
<1>2. ASSUME NEW d \in T PROVE d + 1 \in T
  <2> SUFFICES ASSUME n + (d + 1) <= Len(s) PROVE Is(n + (d + 1))
    BY d + 1 \in Nat
  <2> DEFINE m == n + d
  <2>1. d \in Nat /\ m \in Nat /\ m < Len(s) /\ n + (d + 1) = m + 1 /\ m <= Len(s) /\ m \in 0..Len(s)
    BY <1>0
  <2>2. Is(m)
    BY <2>1
  <2> HIDE DEF Is
  <2>3. /\ Len(First(s, m)) < Len(First(s, m + 1))
        /\ \A j \in 1..Len(First(s, m)) : First(s, m + 1)[j] = First(s, m)[j]
    <3> HIDE DEF m
    <3> QED BY <2>1, FirstNext
  <2>4. Len(First(s, n)) \in Nat /\ Len(First(s, m)) \in Nat /\ Len(First(s, m + 1)) \in Nat
    <3>1. m + 1 \in 0..Len(s)
      BY <1>0, <2>1
    <3> HIDE DEF m
    <3> QED BY <2>1, <3>1, FirstType
  <2>5. Is(m + 1)
    <3> HIDE DEF m
    <3>1. Len(First(s, n)) < Len(First(s, m + 1))
      BY <2>2, <2>3, <2>4 DEF Is
    <3>2. ASSUME NEW j \in 1..Len(First(s, n)) PROVE First(s, m + 1)[j] = First(s, n)[j]
      <4>1. j \in 1..Len(First(s, m))
        BY <2>2, <2>4 DEF Is
      <4> QED BY <2>2, <2>3, <4>1 DEF Is
    <3> QED BY <2>4, <3>1, <3>2 DEF Is
  <2> QED BY <2>1, <2>5
<1>3. T = Nat
  <2>1. T \in SUBSET Nat
    OBVIOUS
  <2> HIDE DEF T
  <2> QED BY <1>1, <1>2, <2>1, InductionOnNat
<1>4. k - n \in T /\ n + (k - n) = k
  <2>1. k - n \in Nat /\ n + (k - n) = k
    BY <1>0
  <2> HIDE DEF T
  <2> QED BY <1>3, <2>1
<1> HIDE DEF Is
<1>5. Is(k)
  BY <1>0, <1>4
<1> QED
  BY <1>5 DEF Is

\* The cells of a frame in the middle of the others.
LEMMA FrameThere ==
  ASSUME NEW s \in Seq(Frames), NEW n \in Nat, n < Len(s)
  PROVE  /\ Len(First(s, n + 1)) <= Len(Layout(s))
         /\ \A i \in 1..(HeadCells + s[n + 1].len) :
               Layout(s)[Len(First(s, n)) + i] = [frame |-> s[n + 1], at |-> i]
<1>0. Len(s) \in Nat /\ n \in 0..Len(s) /\ n + 1 \in 0..Len(s) /\ Len(s) \in (n + 1)..Len(s)
  BY LenProperties
<1>1. /\ Len(First(s, n + 1)) <= Len(Layout(s))
      /\ \A j \in 1..Len(First(s, n + 1)) : Layout(s)[j] = First(s, n + 1)[j]
  BY <1>0, FirstPrefix, FirstEnds
<1>2. /\ Len(First(s, n + 1)) = Len(First(s, n)) + HeadCells + s[n + 1].len
      /\ s[n + 1] \in Frames
      /\ \A i \in 1..(HeadCells + s[n + 1].len) :
            First(s, n + 1)[Len(First(s, n)) + i] = [frame |-> s[n + 1], at |-> i]
  BY FirstNext
<1>3. Len(First(s, n)) \in Nat /\ s[n + 1].len \in Nat
  BY <1>0, <1>2, FirstType, CellsOfType
<1>4. ASSUME NEW i \in 1..(HeadCells + s[n + 1].len)
      PROVE  Layout(s)[Len(First(s, n)) + i] = [frame |-> s[n + 1], at |-> i]
  <2>1. Len(First(s, n)) + i \in 1..Len(First(s, n + 1))
    BY <1>2, <1>3 DEF HeadCells
  <2> QED BY <1>1, <1>2, <2>1
<1> QED
  BY <1>1, <1>4

\* How many whole frames of s a file of l cells has room for.
Room(s, l, m) == /\ m \in 0..Len(s)
                 /\ Len(First(s, m)) <= l
                 /\ m < Len(s) => l < Len(First(s, m + 1))

\* There is such an m.
LEMMA RoomExists ==
  ASSUME NEW s \in Seq(Frames), NEW l \in Nat
  PROVE  \E m : Room(s, l, m)
<1> SUFFICES ASSUME \A m \in 0..Len(s) :
                       Len(First(s, m)) <= l => m < Len(s) /\ ~(l < Len(First(s, m + 1)))
             PROVE  FALSE
  BY DEF Room
<1>0. Len(s) \in Nat
  BY LenProperties
<1> DEFINE T == {n \in Nat : n <= Len(s) => Len(First(s, n)) <= l}
<1>1. 0 \in T
  BY FirstEnds
<1>2. ASSUME NEW n \in T PROVE n + 1 \in T
  <2> SUFFICES ASSUME n + 1 <= Len(s) PROVE Len(First(s, n + 1)) <= l
    BY n + 1 \in Nat
  <2>1. n \in Nat /\ n \in 0..Len(s) /\ n + 1 \in 0..Len(s) /\ Len(First(s, n)) <= l
    BY <1>0
  <2>2. Len(First(s, n + 1)) \in Nat
    BY <2>1, FirstType
  <2> QED BY <2>1, <2>2
<1>3. T = Nat
  <2>1. T \in SUBSET Nat
    OBVIOUS
  <2> HIDE DEF T
  <2> QED BY <1>1, <1>2, <2>1, InductionOnNat
<1>4. Len(First(s, Len(s))) <= l
  BY <1>0, <1>3
<1>5. Len(s) \in 0..Len(s)
  BY <1>0
<1> QED
  BY <1>0, <1>4, <1>5

\* What fits is among the frames there is room for.
LEMMA RoomLeast ==
  ASSUME NEW s \in Seq(Frames), NEW l \in Nat, NEW m, Room(s, l, m), NEW k \in 0..Len(s),
         Len(First(s, k)) <= l
  PROVE  k <= m /\ Len(First(s, k)) <= Len(First(s, m))
<1>0. Len(s) \in Nat /\ m \in Nat /\ k \in Nat /\ m <= Len(s) /\ k <= Len(s)
  BY LenProperties DEF Room
<1>1. k <= m
  <2> SUFFICES ASSUME m < k PROVE FALSE
    BY <1>0
  <2>1. m + 1 \in 0..Len(s) /\ k \in (m + 1)..Len(s) /\ m < Len(s)
    BY <1>0
  <2>2. Len(First(s, m + 1)) <= Len(First(s, k))
    BY <2>1, FirstPrefix
  <2>3. Len(First(s, m + 1)) \in Nat /\ Len(First(s, k)) \in Nat
    BY <2>1, FirstType
  <2> QED BY <2>1, <2>2, <2>3 DEF Room
<1>2. m \in k..Len(s)
  BY <1>0, <1>1
<1> QED
  BY <1>1, <1>2, FirstPrefix

\* Fewer frames are a prefix of more.
LEMMA PrefixOf ==
  ASSUME NEW S, NEW a \in Seq(S), NEW b \in Seq(S)
  PROVE  IsPrefix(a, b) <=> Len(a) <= Len(b) /\ \A j \in 1..Len(a) : a[j] = b[j]
<1>0. Len(a) \in Nat /\ Len(b) \in Nat
  BY LenProperties
<1>1. SubSeq(a, 1, Len(a)) = a
  BY SubSeqFull
<1>2. ASSUME Len(a) <= Len(b)
      PROVE  SubSeq(b, 1, Len(a)) = a <=> \A j \in 1..Len(a) : a[j] = b[j]
  <2> DEFINE c == SubSeq(b, 1, Len(a))
  <2>1. Len(a) \in 0..Len(b)
    BY <1>0, <1>2
  <2>2. c \in Seq(S) /\ Len(c) = Len(a) /\ \A i \in 1..Len(a) : c[i] = b[i]
    BY <2>1, SubSeqHead
  <2> HIDE DEF c
  <2>3. (\A j \in 1..Len(a) : a[j] = b[j]) => c = a
    <3> SUFFICES ASSUME \A j \in 1..Len(a) : a[j] = b[j] PROVE c = a
      OBVIOUS
    <3>1. \A j \in 1..Len(c) : c[j] = a[j]
      BY <2>2
    <3> QED BY <2>2, <3>1, SeqEqual
  <2>4. c = a => \A j \in 1..Len(a) : a[j] = b[j]
    BY <2>2
  <2> QED BY <2>3, <2>4 DEF c
<1> QED
  BY <1>1, <1>2 DEF IsPrefix

\* The greatest is the one none is above.
LEMMA MaxIs ==
  ASSUME NEW D \in SUBSET Nat, NEW m \in D, \A y \in D : y <= m
  PROVE  Max(D) = m
<1>1. \A y \in D : m >= y
  OBVIOUS
<1>2. Max(D) \in D /\ \A y \in D : Max(D) >= y
  BY <1>1, Zenon DEF Max
<1>3. Max(D) <= m /\ Max(D) >= m /\ Max(D) \in Nat /\ m \in Nat
  BY <1>2, Zenon
<1> QED
  BY <1>3

\* The frames of s that are in the cells from the beginning on.
KeptOf(s, cells) ==
    SubSeq(s, 1, Max({n \in 0..Len(s) : IsPrefix(Layout(SubSeq(s, 1, n)), cells)}))

\* The cells of the first m frames keep these frames and no more.
LEMMA KeptOfFirst ==
  ASSUME NEW s \in Seq(Frames), NEW m \in 0..Len(s)
  PROVE  KeptOf(s, First(s, m)) = SubSeq(s, 1, m)
<1>0. Len(s) \in Nat /\ m \in Nat /\ m <= Len(s)
  BY LenProperties
<1> DEFINE D == {n \in 0..Len(s) : IsPrefix(Layout(SubSeq(s, 1, n)), First(s, m))}
<1>1. m \in D
  <2>1. First(s, m) \in Seq(Cells) /\ Len(First(s, m)) \in Nat
    BY FirstType
  <2>2. IsPrefix(First(s, m), First(s, m))
    BY <2>1, PrefixOf
  <2> QED BY <2>2 DEF First
<1>2. ASSUME NEW n \in D PROVE n <= m
  <2> SUFFICES ASSUME m < n PROVE FALSE
    BY <1>0
  <2>1. n \in 0..Len(s) /\ n \in m..Len(s)
    BY <1>0
  <2>2. Len(First(s, m)) < Len(First(s, n))
    BY <2>1, FirstPrefix
  <2>3. Len(First(s, m)) \in Nat /\ Len(First(s, n)) \in Nat
    BY <2>1, FirstType
  <2>4. Len(First(s, n)) <= Len(First(s, m))
    BY <1>2 DEF IsPrefix, First
  <2> QED BY <2>2, <2>3, <2>4
<1>3. D \in SUBSET Nat
  OBVIOUS
<1>4. Max(D) = m
  <2> HIDE DEF D
  <2> QED BY <1>1, <1>2, <1>3, MaxIs
<1> QED
  BY <1>4, Zenon DEF KeptOf

\* The cells of the first m frames keep these.
LEMMA KeptFirst ==
  ASSUME written \in Seq(Frames), NEW m \in 0..Len(written)
  PROVE  Kept(First(written, m)) = SubSeq(written, 1, m)
<1>1. KeptOf(written, First(written, m)) = SubSeq(written, 1, m)
  BY KeptOfFirst
<1> QED
  BY <1>1, Zenon DEF Kept, KeptOf

\* The lesser of two numbers.
LEMMA MinTwo ==
  ASSUME NEW a \in Int, NEW b \in Int
  PROVE  Min({a, b}) \in {a, b} /\ Min({a, b}) <= a /\ Min({a, b}) <= b
<1>1. \E x \in {a, b} : \A y \in {a, b} : x <= y
  BY a <= b \/ b <= a
<1>2. Min({a, b}) \in {a, b} /\ \A y \in {a, b} : Min({a, b}) <= y
  BY <1>1, Zenon DEF Min
<1> QED
  BY <1>2

\* What a write leaves, cell by cell.
LEMMA OverlayCells ==
  ASSUME NEW S, file \in Seq(S), NEW c \in Seq(S), offset \in 0..Len(file)
  PROVE  /\ Overlay(c) \in Seq(S)
         /\ Len(Overlay(c)) = IF offset + Len(c) <= Len(file) THEN Len(file) ELSE offset + Len(c)
         /\ \A j \in 1..Len(Overlay(c)) :
               /\ j <= offset => Overlay(c)[j] = file[j]
               /\ j > offset /\ j <= offset + Len(c) => Overlay(c)[j] = c[j - offset]
               /\ j > offset + Len(c) => j <= Len(file) /\ Overlay(c)[j] = file[j]
<1> DEFINE a == SubSeq(file, 1, offset)
           b == SubSeq(file, offset + Len(c) + 1, Len(file))
           ac == a \o c
           o == Overlay(c)
<1>1. /\ Len(file) \in Nat /\ offset \in Nat /\ offset <= Len(file) /\ Len(c) \in Nat
      /\ \A i \in 1..Len(file) : file[i] \in S
  BY LenProperties, ElementOfSeq
<1>2. a \in Seq(S) /\ Len(a) = offset /\ \A i \in 1..offset : a[i] = file[i]
  BY SubSeqHead
<1> DEFINE m == offset + Len(c) + 1
           l == IF m <= Len(file) THEN Len(file) - m + 1 ELSE 0
<1>3. b \in Seq(S) /\ Len(b) = l /\ \A i \in 1..l : b[i] = file[m + i - 1]
  <2>1. m \in Int /\ Len(file) \in Int /\ \A i \in m..Len(file) : file[i] \in S
    BY <1>1
  <2> HIDE DEF m
  <2>2. /\ b \in Seq(S) /\ Len(b) = IF m <= Len(file) THEN Len(file) - m + 1 ELSE 0
        /\ \A i \in 1..(Len(file) - m + 1) : b[i] = file[m + i - 1]
    BY <2>1, SubSeqProperties DEF m
  <2>3. \A i \in 1..l : i \in 1..(Len(file) - m + 1)
    BY <1>1, <2>1
  <2> QED BY <2>2, <2>3
<1>4. o = ac \o b
  BY DEF Overlay
<1> HIDE DEF a, b
<1>5. /\ ac \in Seq(S) /\ Len(ac) = offset + Len(c)
      /\ \A i \in 1..(offset + Len(c)) : ac[i] = IF i <= offset THEN a[i] ELSE c[i - offset]
  BY <1>2, ConcatProperties
<1> HIDE DEF ac, l, o
<1>6. /\ o \in Seq(S) /\ Len(o) = Len(ac) + Len(b)
      /\ \A i \in 1..(Len(ac) + Len(b)) : o[i] = IF i <= Len(ac) THEN ac[i] ELSE b[i - Len(ac)]
  BY <1>3, <1>4, <1>5, ConcatProperties
<1>7. Len(o) = IF offset + Len(c) <= Len(file) THEN Len(file) ELSE offset + Len(c)
  <2>1. \A f, p, k \in Nat :
           (p + k) + (IF p + k + 1 <= f THEN f - (p + k + 1) + 1 ELSE 0)
             = IF p + k <= f THEN f ELSE p + k
    OBVIOUS
  <2>2. Len(o) = (offset + Len(c)) + l
    BY <1>3, <1>5, <1>6, Zenon
  <2> QED BY <1>1, <2>1, <2>2, ZenonT(30) DEF l
<1>8. ASSUME NEW j \in 1..Len(o)
      PROVE  /\ j <= offset => o[j] = file[j]
             /\ j > offset /\ j <= offset + Len(c) => o[j] = c[j - offset]
             /\ j > offset + Len(c) => j <= Len(file) /\ o[j] = file[j]
  <2>1. CASE j <= offset
    <3>1. j \in 1..offset /\ j \in 1..(offset + Len(c)) /\ j <= Len(ac) /\ j \in 1..(Len(ac) + Len(b))
          /\ ~(j > offset) /\ ~(j > offset + Len(c))
      BY <1>1, <1>5, <1>6, <2>1
    <3>2. o[j] = ac[j]
      BY <1>6, <3>1
    <3>3. ac[j] = a[j]
      BY <1>5, <2>1, <3>1
    <3> QED BY <1>2, <3>1, <3>2, <3>3
  <2>2. CASE j > offset /\ j <= offset + Len(c)
    <3>1. j \in 1..(offset + Len(c)) /\ j <= Len(ac) /\ ~(j <= offset) /\ j \in 1..(Len(ac) + Len(b))
          /\ ~(j > offset + Len(c))
      BY <1>1, <1>5, <1>6, <2>2
    <3>2. o[j] = ac[j]
      BY <1>6, <3>1
    <3>3. ac[j] = c[j - offset]
      BY <1>5, <3>1
    <3> QED BY <3>1, <3>2, <3>3
  <2>3. CASE j > offset + Len(c)
    <3>1. ~(j <= Len(ac)) /\ j \in 1..(Len(ac) + Len(b)) /\ ~(j <= offset) /\ ~(j <= offset + Len(c))
      BY <1>1, <1>5, <1>6, <2>3
    <3>2. o[j] = b[j - Len(ac)]
      BY <1>6, <3>1
    <3>3. j <= Len(file) /\ j - Len(ac) \in 1..l /\ m + (j - Len(ac)) - 1 = j
      <4>1. \A f, p, k, i \in Nat :
               i > p + k /\ i <= (IF p + k <= f THEN f ELSE p + k)
               => /\ i <= f /\ p + k + 1 <= f
                  /\ i - (p + k) \in 1..(f - (p + k + 1) + 1)
                  /\ p + k + 1 + (i - (p + k)) - 1 = i
        OBVIOUS
      <4>2. j \in Nat /\ j <= IF offset + Len(c) <= Len(file) THEN Len(file) ELSE offset + Len(c)
        BY <1>1, <1>7
      <4>3. /\ j <= Len(file) /\ offset + Len(c) + 1 <= Len(file)
            /\ j - (offset + Len(c)) \in 1..(Len(file) - (offset + Len(c) + 1) + 1)
            /\ offset + Len(c) + 1 + (j - (offset + Len(c))) - 1 = j
        BY <1>1, <2>3, <4>1, <4>2
      <4> QED BY <1>5, <4>3 DEF l
    <3> QED BY <1>3, <3>1, <3>2, <3>3
  <2> QED BY <1>1, <2>1, <2>2, <2>3
<1> QED
  BY <1>6, <1>7, <1>8 DEF o

\* T looks only at what f has for smaller arguments than the one it answers for.
Narrows(D, V, m, T) ==
    \A f, g \in [D -> V] : \A s \in D :
        (\A t \in D : m[t] < m[s] => f[t] = g[t]) => T[f][s] = T[g][s]

\* T has a fixpoint.
HasFixpoint(D, V, T) == \E f \in [D -> V] : T[f] = f

\* A definition by recursion on a measure has a solution: after n rounds it is right
\* for everything that measures less than n.
LEMMA Fixpoint ==
  ASSUME NEW D, NEW V, NEW f0 \in [D -> V], NEW m \in [D -> Nat],
         NEW T \in [[D -> V] -> [D -> V]], Narrows(D, V, m, T)
  PROVE  HasFixpoint(D, V, T)
<1> DEFINE W == [D -> V]
           step == [n \in Nat |-> T]
<1>1. f0 \in W /\ T \in [W -> W] /\ step \in [Nat -> [W -> W]]
  OBVIOUS
<1>2. PICK A \in [Nat -> W] : Iterates(A, f0, step)
  <2> HIDE DEF W, step
  <2> QED BY <1>1, Recursion
<1>3. \A n \in Nat : A[n + 1] = T[A[n]] /\ A[n] \in W
  BY <1>2 DEF Iterates
<1>4. \A n \in Nat : \A s \in D : m[s] < n => A[n][s] = A[n + 1][s]
  <2> DEFINE N == {n \in Nat : \A s \in D : m[s] < n => A[n][s] = A[n + 1][s]}
  <2>1. 0 \in N
    OBVIOUS
  <2>2. ASSUME NEW n \in N PROVE n + 1 \in N
    <3>1. n \in Nat /\ n + 1 \in Nat
      BY <2>2
    <3>2. ASSUME NEW s \in D, m[s] < n + 1
          PROVE  A[n + 1][s] = A[n + 1 + 1][s]
      <4>1. \A t \in D : m[t] < m[s] => A[n][t] = A[n + 1][t]
        BY <2>2, <3>2
      <4>2. T[A[n]][s] = T[A[n + 1]][s]
        BY <1>3, <3>1, <4>1 DEF Narrows
      <4>3. A[n + 1] = T[A[n]] /\ A[n + 1 + 1] = T[A[n + 1]]
        BY <1>3, <3>1
      <4> QED BY <4>2, <4>3
    <3> QED BY <3>1, <3>2
  <2>3. N \in SUBSET Nat
    OBVIOUS
  <2>4. N = Nat
    <3> HIDE DEF N
    <3> QED BY <2>1, <2>2, <2>3, InductionOnNat
  <2> QED BY <2>4
<1>5. ASSUME NEW s \in D PROVE \A n \in Nat : A[m[s] + 1][s] = A[m[s] + 1 + n][s]
  <2> DEFINE N == {n \in Nat : A[m[s] + 1][s] = A[m[s] + 1 + n][s]}
  <2>0. m[s] \in Nat
    OBVIOUS
  <2>1. 0 \in N
    BY <2>0
  <2>2. ASSUME NEW n \in N PROVE n + 1 \in N
    <3>1. n \in Nat /\ m[s] + 1 + n \in Nat /\ m[s] < m[s] + 1 + n
          /\ (m[s] + 1 + n) + 1 = m[s] + 1 + (n + 1)
      <4>1. n \in Nat
        BY <2>2
      <4>2. \A x, y \in Nat : x + 1 + y \in Nat /\ x < x + 1 + y /\ (x + 1 + y) + 1 = x + 1 + (y + 1)
        OBVIOUS
      <4> HIDE DEF N
      <4> QED BY <2>0, <4>1, <4>2
    <3>2. A[m[s] + 1 + n][s] = A[(m[s] + 1 + n) + 1][s]
      BY <3>1, <1>4
    <3> QED BY <3>1, <3>2, <2>2
  <2>3. N \in SUBSET Nat
    OBVIOUS
  <2>4. N = Nat
    <3> HIDE DEF N
    <3> QED BY <2>1, <2>2, <2>3, InductionOnNat
  <2> QED BY <2>4
<1> DEFINE F == [s \in D |-> A[m[s] + 1][s]]
<1>6. F \in W
  <2>1. ASSUME NEW s \in D PROVE A[m[s] + 1][s] \in V
    <3>1. m[s] + 1 \in Nat
      OBVIOUS
    <3> QED BY <1>3, <3>1
  <2> QED BY <2>1
<1>7. ASSUME NEW s \in D PROVE T[F][s] = F[s]
  <2>1. m[s] \in Nat
    OBVIOUS
  <2>2. F[s] = T[A[m[s]]][s]
    BY <1>3, <2>1
  <2>3. ASSUME NEW t \in D, m[t] < m[s] PROVE A[m[s]][t] = F[t]
    <3>1. m[t] \in Nat /\ m[s] - (m[t] + 1) \in Nat /\ m[t] + 1 + (m[s] - (m[t] + 1)) = m[s]
      BY <2>1, <2>3
    <3>2. A[m[t] + 1][t] = A[m[t] + 1 + (m[s] - (m[t] + 1))][t]
      BY <1>5, <3>1
    <3> QED BY <3>1, <3>2
  <2> HIDE DEF F
  <2>4. T[A[m[s]]][s] = T[F][s]
    BY <1>3, <1>6, <2>1, <2>3 DEF Narrows
  <2> QED BY <2>2, <2>4
<1>8. T[F] \in W
  BY <1>1, <1>6
<1> HIDE DEF F
<1>9. T[F] = F
  BY <1>6, <1>7, <1>8
<1> QED
  BY <1>6, <1>9 DEF HasFixpoint

-----------------------------------------------------------------------------
(* The scan.                                                               *)

\* The ends of a scan by type.
EndsSet == [kind : {"clean", "torn_tail", "corrupt"}, valid_end : Nat, last_epoch : 0..MaxEpoch]

\* What the scanner comes to from p with the epoch e, if g is that of the rest.
ScanAt(g, p, e) ==
    LET torn  == Ends("torn_tail", p, e)
        bad   == Ends("corrupt", p, e)
        short == IF p = 0 \/ p < Len(file) THEN {torn, bad} ELSE {torn}
        fails == IF p = 0 THEN {torn, bad} ELSE {torn}
        f     == file[p + 1].frame
        q     == p + HeadCells + f.len
    IN  (IF "pread" \in Faults THEN fails ELSE {})
        \cup
        (IF p + HeadCells > Len(file) THEN short
         ELSE IF ~HeaderAt(p) THEN {torn, bad}
         ELSE IF q > Len(file) THEN {torn}
         ELSE IF ~FrameValid(p, e) THEN {bad}
         ELSE IF q = Len(file) THEN {Ends("clean", q, f.epoch)}
         ELSE g[q][f.epoch])

\* g is the scan from every place with every epoch.
IsScan(g) == g = [p \in 0..Len(file) |-> [e \in 0..MaxEpoch |-> ScanAt(g, p, e)]]

\* There is such a g.
ScanExists == \E g : IsScan(g)

\* g is such a scan, and the scanner's is what it has for the beginning.
ScanGives(g) == IsScan(g) /\ ScanEnds = g[0][0]

\* If there is such a g, ScanEnds is computed by one.
LEMMA ScanDef ==
  ASSUME ScanExists, head = "other"
  PROVE  \E g : ScanGives(g)
<1>1. \E g : g = [p \in 0..Len(file) |-> [e \in 0..MaxEpoch |-> ScanAt(g, p, e)]]
  BY DEF ScanExists, IsScan
<1> DEFINE g == CHOOSE g : g = [p \in 0..Len(file) |-> [e \in 0..MaxEpoch |-> ScanAt(g, p, e)]]
<1>2. g = [p \in 0..Len(file) |-> [e \in 0..MaxEpoch |-> ScanAt(g, p, e)]]
  BY <1>1, Zenon
<1>a. BaseOffset # 0 /\ head \notin {"none", "torn"}
  BY SizesAssumption DEF BaseOffset
<1>3. ScanEnds = g[0][0]
  BY <1>a, Zenon DEF ScanEnds, ScanAt
<1> QED
  BY <1>2, <1>3 DEF ScanGives, IsScan

\* A head in the file is that of a frame, and what it says leads on.
LEMMA CellAt ==
  ASSUME file \in Seq(Cells), NEW p \in Nat, p + HeadCells <= Len(file)
  PROVE  /\ file[p + 1].frame \in Frames /\ file[p + 1].frame.len \in Nat
         /\ file[p + 1].frame.epoch \in 0..MaxEpoch
         /\ p + HeadCells + file[p + 1].frame.len \in Nat
         /\ p < p + HeadCells + file[p + 1].frame.len
<1>1. p + 1 \in 1..Len(file)
  BY LenProperties DEF HeadCells
<1>2. file[p + 1] \in Cells
  BY <1>1, ElementOfSeq
<1>3. file[p + 1].frame \in Frames
  BY <1>2 DEF Cells
<1>4. file[p + 1].frame.len \in Nat
  BY <1>3, CellsOfType
<1>5. file[p + 1].frame.epoch \in 1..MaxEpoch
  BY <1>3 DEF Frames
<1>6. file[p + 1].frame.epoch \in 0..MaxEpoch
  <2>1. \A x \in 1..MaxEpoch : x \in 0..MaxEpoch
    BY SizesAssumption
  <2> QED BY <1>5, <2>1
<1> QED
  BY <1>3, <1>4, <1>6 DEF HeadCells

\* One frame more is an end if the rest has one.
LEMMA ScanAtType ==
  ASSUME file \in Seq(Cells), NEW g \in [0..Len(file) -> [0..MaxEpoch -> SUBSET EndsSet]],
         NEW p \in 0..Len(file), NEW e \in 0..MaxEpoch
  PROVE  ScanAt(g, p, e) \in SUBSET EndsSet
<1> DEFINE f == file[p + 1].frame
           q == p + HeadCells + f.len
<1>0. Len(file) \in Nat /\ p \in Nat
  BY LenProperties
<1>1. Ends("torn_tail", p, e) \in EndsSet /\ Ends("corrupt", p, e) \in EndsSet
  BY <1>0 DEF Ends, EndsSet
<1>2. CASE p + HeadCells > Len(file)
  BY <1>1, <1>2, Zenon DEF ScanAt
<1>3. CASE ~(p + HeadCells > Len(file)) /\ ~HeaderAt(p)
  BY <1>1, <1>3, Zenon DEF ScanAt
<1>4. CASE ~(p + HeadCells > Len(file)) /\ HeaderAt(p)
  <2>1. q \in Nat /\ f.epoch \in 0..MaxEpoch
    <3>1. p + HeadCells <= Len(file)
      BY <1>0, <1>4 DEF HeadCells
    <3> QED BY <1>0, <3>1, CellAt
  <2>2. CASE q > Len(file)
    BY <1>1, <1>4, <2>2, Zenon DEF ScanAt
  <2>3. CASE ~(q > Len(file)) /\ ~FrameValid(p, e)
    BY <1>1, <1>4, <2>3, Zenon DEF ScanAt
  <2>4. CASE ~(q > Len(file)) /\ FrameValid(p, e) /\ q = Len(file)
    <3>1. Ends("clean", q, f.epoch) \in EndsSet
      <4> HIDE DEF q, f
      <4>1. f.epoch \in 0..MaxEpoch /\ q \in Nat
        BY <2>1
      <4> QED BY <4>1 DEF Ends, EndsSet
    <3> QED BY <1>1, <1>4, <2>4, <3>1, Zenon DEF ScanAt
  <2>5. CASE ~(q > Len(file)) /\ FrameValid(p, e) /\ q # Len(file)
    <3>1. q \in 0..Len(file)
      <4> HIDE DEF q
      <4> QED BY <1>0, <2>1, <2>5
    <3>2. g[q][f.epoch] \in SUBSET EndsSet
      <4> HIDE DEF q, f
      <4>1. f.epoch \in 0..MaxEpoch
        BY <2>1
      <4> QED BY <3>1, <4>1
    <3> QED BY <1>1, <1>4, <2>5, <3>2, Zenon DEF ScanAt
  <2> QED BY <2>2, <2>3, <2>4, <2>5
<1> QED
  BY <1>2, <1>3, <1>4

\* The scanner looks only ahead.
LEMMA ScanAtLocal ==
  ASSUME file \in Seq(Cells), NEW p \in 0..Len(file), NEW e \in 0..MaxEpoch, NEW g, NEW h,
         \A t \in 0..Len(file) : p < t => g[t] = h[t]
  PROVE  ScanAt(g, p, e) = ScanAt(h, p, e)
<1> DEFINE f == file[p + 1].frame
           q == p + HeadCells + f.len
<1>0. Len(file) \in Nat /\ p \in Nat
  BY LenProperties
<1>1. CASE ~(p + HeadCells > Len(file)) /\ ~(q > Len(file))
  <2>1. p + HeadCells <= Len(file)
    BY <1>0, <1>1 DEF HeadCells
  <2>2. q \in Nat /\ p < q
    BY <1>0, <2>1, CellAt
  <2>3. q \in 0..Len(file)
    <3> HIDE DEF q
    <3> QED BY <1>0, <1>1, <2>2
  <2>4. g[q] = h[q]
    <3> HIDE DEF q
    <3> QED BY <2>2, <2>3
  <2> QED BY <2>4, Zenon DEF ScanAt
<1>2. CASE p + HeadCells > Len(file)
  BY <1>2, Zenon DEF ScanAt
<1>3. CASE ~(p + HeadCells > Len(file)) /\ q > Len(file)
  BY <1>3, Zenon DEF ScanAt
<1> QED
  BY <1>1, <1>2, <1>3

\* ScanEnds is what its definition says.
LEMMA ScanIs ==
  ASSUME file \in Seq(Cells)
  PROVE  ScanExists
<1> DEFINE D == 0..Len(file)
           V == [0..MaxEpoch -> SUBSET EndsSet]
           f0 == [p \in D |-> [e \in 0..MaxEpoch |-> {}]]
           m == [p \in D |-> Len(file) - p]
           T == [g \in [D -> V] |-> [p \in D |-> [e \in 0..MaxEpoch |-> ScanAt(g, p, e)]]]
<1>0. Len(file) \in Nat
  BY LenProperties
<1>1. f0 \in [D -> V]
  OBVIOUS
<1>2. m \in [D -> Nat]
  BY <1>0
<1>3. T \in [[D -> V] -> [D -> V]]
  <2>1. ASSUME NEW g \in [D -> V], NEW p \in D
        PROVE  [e \in 0..MaxEpoch |-> ScanAt(g, p, e)] \in V
    BY ScanAtType
  <2> HIDE DEF D, V
  <2> QED BY <2>1
<1>4. Narrows(D, V, m, T)
  <2> SUFFICES ASSUME NEW f \in [D -> V], NEW g \in [D -> V], NEW s \in D,
                      \A t \in D : m[t] < m[s] => f[t] = g[t]
               PROVE  T[f][s] = T[g][s]
    BY Zenon DEF Narrows
  <2>1. ASSUME NEW t \in 0..Len(file), s < t PROVE f[t] = g[t]
    <3>1. m[t] < m[s]
      BY <1>0, <2>1
    <3> HIDE DEF m
    <3> QED BY <3>1
  <2>2. \A e \in 0..MaxEpoch : ScanAt(f, s, e) = ScanAt(g, s, e)
    BY <2>1, ScanAtLocal
  <2>3. T[f][s] = [e \in 0..MaxEpoch |-> ScanAt(f, s, e)]
        /\ T[g][s] = [e \in 0..MaxEpoch |-> ScanAt(g, s, e)]
    <3> HIDE DEF D, V
    <3> QED OBVIOUS
  <2> HIDE DEF T
  <2> QED BY <2>2, <2>3
<1>5. HasFixpoint(D, V, T)
  <2> HIDE DEF D, V, f0, m, T
  <2> QED BY <1>1, <1>2, <1>3, <1>4, Fixpoint
<1>6. PICK g \in [D -> V] : T[g] = g
  <2> HIDE DEF D, V, T
  <2> QED BY <1>5 DEF HasFixpoint
<1>7. g = [p \in D |-> [e \in 0..MaxEpoch |-> ScanAt(g, p, e)]]
  <2> HIDE DEF D, V
  <2> QED BY <1>6
<1> QED
  BY <1>7 DEF ScanExists, IsScan

\* The epoch the scanner has seen when it is behind n frames of s.
EpochAt(s, n) == IF n = 0 THEN 0 ELSE s[n].epoch

\* Frame n is where its offset says, and its epoch not below that of the one before.
Sound(n) == /\ written[n].off = Base + Len(First(written, n - 1))
            /\ written[n].epoch >= EpochAt(written, n - 1)

\* A scan stopped behind the first k frames, these are sound, and it is at the end of the
\* m frames there is room for, or at a frame that is not sound.
StopsAt(end, k, m) ==
    /\ k \in 0..m
    /\ end.valid_end = Len(First(written, k))
    /\ end.last_epoch = EpochAt(written, k)
    /\ \A i \in 1..k : Sound(i)
    /\ end.kind = "clean" => end.valid_end = Len(file)
    /\ k < m => end.kind = "corrupt" /\ ~Sound(k + 1)

\* The ways a scan of a file with room for m frames may end.
RightEnds(m) == {end \in EndsSet : \E k : StopsAt(end, k, m)}

\* That is an epoch.
LEMMA EpochAtType ==
  ASSUME NEW s \in Seq(Frames), NEW n \in 0..Len(s)
  PROVE  EpochAt(s, n) \in 0..MaxEpoch
<1>0. MaxEpoch \in Nat /\ Len(s) \in Nat
  BY SizesAssumption, LenProperties
<1>1. CASE n = 0
  BY <1>0, <1>1 DEF EpochAt
<1>2. CASE n # 0
  <2>1. n \in 1..Len(s)
    BY <1>0, <1>2
  <2>2. s[n] \in Frames
    BY <2>1, ElementOfSeq
  <2>3. s[n].epoch \in 1..MaxEpoch
    BY <2>2 DEF Frames
  <2> QED BY <1>0, <1>2, <2>3 DEF EpochAt
<1> QED
  BY <1>1, <1>2

\* Whatever lies behind the frames written is never taken for a frame: its last cell
\* was not written.
LEMMA NothingBehind ==
  ASSUME WrittenWell, CellsWell, NEW p, p = Len(Layout(written)), NEW e \in 0..MaxEpoch,
         p + HeadCells <= Len(file),
         p + HeadCells + file[p + 1].frame.len <= Len(file)
  PROVE  ~FrameValid(p, e)
<1> DEFINE f == file[p + 1].frame
           n == HeadCells + f.len
<1>0. file \in Seq(Cells) /\ written \in Seq(Frames)
  BY DEF WrittenWell, CellsWell
<1>1. Len(file) \in Nat /\ p \in Nat
  BY <1>0, LenProperties, LayoutType
<1>2. f \in Frames /\ f.len \in Nat
  BY <1>0, <1>1, CellAt
<1> SUFFICES ASSUME FrameValid(p, e) PROVE FALSE
  OBVIOUS
<1>3. SubSeq(file, p + 1, p + HeadCells + f.len) = CellsOf(f)
  BY DEF FrameValid
<1>a. p + HeadCells + f.len <= Len(file) /\ p = Len(Layout(written))
  OBVIOUS
<1>4. n \in Nat /\ n > 0 /\ p + n \in 1..Len(file) /\ p + n > Len(Layout(written))
  <2> HIDE DEF f
  <2> QED BY <1>1, <1>2, <1>a DEF HeadCells
<1>5. CellsOf(f)[n] = [frame |-> f, at |-> n]
  <2>1. n \in 1..(HeadCells + f.len)
    BY <1>4
  <2> QED BY <1>2, <2>1, CellsOfType
<1>6. SubSeq(file, p + 1, p + HeadCells + f.len)[n] = file[p + n]
  <2> DEFINE a == p + 1
             b == p + HeadCells + f.len
  <2>1. /\ a \in Int /\ b \in Int /\ b - a + 1 = n /\ n \in 1..(b - a + 1) /\ a + n - 1 = p + n
    <3>1. \A x, h, l \in Nat :
             h + l > 0 =>
             /\ x + 1 \in Int /\ x + h + l \in Int /\ (x + h + l) - (x + 1) + 1 = h + l
             /\ h + l \in 1..((x + h + l) - (x + 1) + 1) /\ x + 1 + (h + l) - 1 = x + (h + l)
      OBVIOUS
    <3>2. HeadCells \in Nat
      BY DEF HeadCells
    <3>3. HeadCells + f.len > 0 /\ f.len \in Nat /\ p \in Nat
      BY <1>1, <1>2, <1>4
    <3> HIDE DEF f
    <3> QED BY <3>1, <3>2, <3>3, ZenonT(30)
  <2>2. \A i \in a..b : file[i] \in Cells
    <3>1. \A i \in a..b : i \in 1..Len(file)
      <4> HIDE DEF f
      <4> QED BY <1>1, <1>2, <1>a DEF HeadCells
    <3> QED BY <1>0, <3>1, ElementOfSeq
  <2> HIDE DEF a, b, n
  <2>3. \A i \in 1..(b - a + 1) : SubSeq(file, a, b)[i] = file[a + i - 1]
    BY <2>1, <2>2, SubSeqProperties
  <2>4. SubSeq(file, a, b)[n] = file[p + n]
    BY <2>1, <2>3
  <2> QED BY <2>4 DEF a, b
<1>7. file[p + n] = [frame |-> f, at |-> n]
  BY <1>3, <1>5, <1>6
<1>8. (p + n) - file[p + n].at = Len(Layout(written))
      => file[p + n].at < HeadCells + file[p + n].frame.len
  BY <1>4 DEF CellsWell
<1> HIDE DEF f
<1>9. n < n
  <2>1. file[p + n].at = n /\ file[p + n].frame = f
    BY <1>7
  <2>2. (p + n) - n = p
    BY <1>1, <1>4
  <2>3. n < HeadCells + f.len
    BY <1>8, <1>a, <2>1, <2>2
  <2> QED BY <2>3
<1> QED
  BY <1>4, <1>9

\* A frame written that the file has the room for is one the scanner takes if it is sound.
LEMMA FrameTaken ==
  ASSUME WrittenWell, CellsWell, NEW k \in Nat, k < Len(written), NEW p,
         p = Len(First(written, k)), Len(First(written, k + 1)) <= Len(file)
  PROVE  /\ p + HeadCells <= Len(file) /\ HeaderAt(p)
         /\ file[p + 1].frame = written[k + 1]
         /\ p + HeadCells + file[p + 1].frame.len = Len(First(written, k + 1))
         /\ FrameValid(p, EpochAt(written, k)) <=> Sound(k + 1)
<1> DEFINE f == written[k + 1]
           n == HeadCells + f.len
           L == Layout(written)
<1>0. /\ file \in Seq(Cells) /\ written \in Seq(Frames) /\ Len(file) \in Nat /\ Len(written) \in Nat
      /\ k \in 0..Len(written) /\ k + 1 \in 0..Len(written)
  BY LenProperties DEF WrittenWell, CellsWell
<1>1. p \in Nat /\ Len(L) \in Nat
  BY <1>0, FirstType, LayoutType
<1>2. f \in Frames /\ Len(First(written, k + 1)) = p + HeadCells + f.len
  BY <1>0, FirstNext
<1>3. f.len \in Nat /\ n \in Nat /\ n >= HeadCells
  BY <1>2, CellsOfType DEF HeadCells
<1>4. Len(First(written, k + 1)) <= Len(L) /\ \A i \in 1..n : L[p + i] = [frame |-> f, at |-> i]
  BY <1>0, FrameThere
<1>5. \A i \in 1..n : p + i \in 1..Len(file) /\ p + i <= Len(L)
  <2>1. Len(First(written, k + 1)) = p + n /\ p + n \in Nat
    BY <1>1, <1>2, <1>3, SMTT(30) DEF HeadCells
  <2>2. p + n <= Len(file) /\ p + n <= Len(L)
    <3> HIDE DEF n
    <3> QED BY <1>4, <2>1
  <2> HIDE DEF n, L
  <2> QED BY <1>0, <1>1, <1>3, <2>2
<1>6. \A i \in 1..n : file[p + i] = [frame |-> f, at |-> i]
  <2> HIDE DEF n
  <2> QED BY <1>4, <1>5 DEF CellsWell
<1> HIDE DEF f, L
<1>7. 1 \in 1..n /\ \A i \in 1..HeadCells : i \in 1..n
  BY <1>3 DEF HeadCells
<1>8. file[p + 1] = [frame |-> f, at |-> 1] /\ file[p + 1].frame = f
  <2> HIDE DEF n
  <2> QED BY <1>6, <1>7
<1>9. p + HeadCells <= Len(file)
  BY <1>0, <1>1, <1>2, <1>3, SMTT(30) DEF HeadCells
<1>10. HeaderAt(p)
  <2> HIDE DEF n
  <2> QED BY <1>6, <1>7, <1>8, <1>9, Zenon DEF HeaderAt
<1>11. SubSeq(file, p + 1, p + HeadCells + f.len) = CellsOf(f)
  <2> DEFINE a == p + 1
             b == p + HeadCells + f.len
             s == SubSeq(file, a, b)
             c == CellsOf(f)
  <2>1. a \in Int /\ b \in Int /\ a <= b /\ b - a + 1 = n
    BY <1>1, <1>3, SMTT(30) DEF HeadCells
  <2>2. \A i \in a..b : file[i] \in Cells
    <3>1. \A i \in a..b : i \in 1..Len(file)
      BY <1>0, <1>1, <1>2, <1>3 DEF HeadCells
    <3> QED BY <1>0, <3>1, ElementOfSeq
  <2> HIDE DEF a, b
  <2>3. /\ s \in Seq(Cells) /\ Len(s) = n
        /\ \A i \in 1..n : s[i] = file[a + i - 1]
    <3> HIDE DEF n
    <3> QED BY <2>1, <2>2, SubSeqProperties
  <2>4. \A i \in 1..n : a + i - 1 = p + i
    BY <1>1, <1>3 DEF a
  <2>5. /\ c \in Seq(Cells) /\ Len(c) = n
        /\ \A i \in 1..n : c[i] = [frame |-> f, at |-> i]
    BY <1>2, CellsOfType
  <2> HIDE DEF s, c, n
  <2>6. ASSUME NEW i \in 1..n PROVE s[i] = c[i]
    <3>1. s[i] = file[a + i - 1] /\ a + i - 1 = p + i
      BY <2>3, <2>4
    <3>2. file[p + i] = [frame |-> f, at |-> i]
      BY <1>6 DEF n
    <3>3. c[i] = [frame |-> f, at |-> i]
      BY <2>5
    <3> QED BY <3>1, <3>2, <3>3
  <2>7. s = c
    BY <2>3, <2>5, <2>6, SeqEqual
  <2> QED BY <2>7 DEF s, c, a, b
<1>12. Sound(k + 1) <=> f.off = Base + p /\ f.epoch >= EpochAt(written, k)
  <2>1. (k + 1) - 1 = k
    BY <1>0
  <2> QED BY <2>1 DEF Sound, f
<1>13. FrameValid(p, EpochAt(written, k)) <=> Sound(k + 1)
  BY <1>8, <1>11, <1>12, Zenon DEF FrameValid
<1> QED
  BY <1>2, <1>8, <1>9, <1>10, <1>13 DEF f

\* Behind the last whole frame the scan ends.
LEMMA ScanAtEnd ==
  ASSUME WrittenWell, CellsWell, "pread" \notin Faults, NEW g, NEW m, Room(written, Len(file), m),
         \A i \in 1..m : Sound(i)
  PROVE  ScanAt(g, Len(First(written, m)), EpochAt(written, m)) \subseteq RightEnds(m)
<1> DEFINE p == Len(First(written, m))
           e == EpochAt(written, m)
           f == file[p + 1].frame
           q == p + HeadCells + f.len
<1>0. /\ file \in Seq(Cells) /\ written \in Seq(Frames) /\ Len(file) \in Nat /\ Len(written) \in Nat
      /\ m \in 0..Len(written) /\ p <= Len(file)
  BY LenProperties DEF WrittenWell, CellsWell, Room
<1>1. p \in Nat /\ e \in 0..MaxEpoch
  BY <1>0, FirstType, EpochAtType
<1>2. Ends("torn_tail", p, e) \in RightEnds(m) /\ Ends("corrupt", p, e) \in RightEnds(m)
  <2>1. m \in 0..m /\ ~(m < m)
    BY <1>0
  <2>2. ASSUME NEW kind \in {"torn_tail", "corrupt"} PROVE StopsAt(Ends(kind, p, e), m, m)
    BY <2>1 DEF StopsAt, Ends
  <2>3. \A kind \in {"torn_tail", "corrupt"} : Ends(kind, p, e) \in EndsSet
    BY <1>1 DEF Ends, EndsSet
  <2> HIDE DEF p, e
  <2> QED BY <2>2, <2>3 DEF RightEnds
<1>3. CASE p + HeadCells > Len(file)
  <2> HIDE DEF p, e
  <2> QED BY <1>2, <1>3, Zenon DEF ScanAt, p, e
<1>4. CASE ~(p + HeadCells > Len(file)) /\ ~HeaderAt(p)
  BY <1>2, <1>4, Zenon DEF ScanAt
<1>5. CASE ~(p + HeadCells > Len(file)) /\ HeaderAt(p)
  <2>1. p + HeadCells <= Len(file)
    BY <1>0, <1>1, <1>5 DEF HeadCells
  <2>2. q \in Nat
    BY <1>0, <1>1, <2>1, CellAt
  <2>3. CASE q > Len(file)
    BY <1>2, <1>5, <2>3, Zenon DEF ScanAt
  <2>4. CASE ~(q > Len(file))
    <3>1. m = Len(written)
      <4> SUFFICES ASSUME m < Len(written) PROVE FALSE
        BY <1>0
      <4>1. m \in Nat
        BY <1>0
      <4>2. /\ written[m + 1] \in Frames
            /\ Len(First(written, m + 1)) = p + HeadCells + written[m + 1].len
        BY <1>0, <4>1, FirstNext
      <4>3. Layout(written)[p + 1] = [frame |-> written[m + 1], at |-> 1]
            /\ Len(First(written, m + 1)) <= Len(Layout(written))
        <5>1. written[m + 1].len \in Nat
          BY <4>2, CellsOfType
        <5>2. 1 \in 1..(HeadCells + written[m + 1].len)
          BY <5>1 DEF HeadCells
        <5> QED BY <1>0, <4>1, <5>2, FrameThere
      <4>4. p + 1 \in 1..Len(file) /\ p + 1 <= Len(Layout(written))
        <5>1. written[m + 1].len \in Nat /\ Len(Layout(written)) \in Nat
          BY <1>0, <4>2, CellsOfType, LayoutType
        <5> HIDE DEF p
        <5> QED BY <1>0, <1>1, <2>1, <4>2, <4>3, <5>1, SMTT(30) DEF HeadCells
      <4>5. f = written[m + 1]
        <5>1. file[p + 1] = Layout(written)[p + 1]
          BY <4>4 DEF CellsWell
        <5> QED BY <4>3, <5>1
      <4>6. q = Len(First(written, m + 1)) /\ Len(file) < Len(First(written, m + 1))
        BY <4>2, <4>5 DEF Room
      <4> QED BY <1>0, <2>2, <2>4, <4>6
    <3>2. p = Len(Layout(written))
      BY <1>0, <3>1, FirstEnds
    <3>3. ~FrameValid(p, e)
      <4>1. q <= Len(file)
        <5> HIDE DEF q
        <5> QED BY <1>0, <2>2, <2>4
      <4> QED BY <1>1, <2>1, <3>2, <4>1, NothingBehind
    <3> QED BY <1>2, <1>5, <2>4, <3>3, Zenon DEF ScanAt
  <2> QED BY <2>3, <2>4
<1> QED
  BY <1>3, <1>4, <1>5

\* At a whole frame it goes on behind it, if the frame is sound.
LEMMA ScanAtFrame ==
  ASSUME WrittenWell, CellsWell, "pread" \notin Faults, NEW g, NEW m, Room(written, Len(file), m),
         NEW k \in Nat, k < m, \A i \in 1..k : Sound(i),
         Sound(k + 1) => g[Len(First(written, k + 1))][EpochAt(written, k + 1)] \subseteq RightEnds(m)
  PROVE  ScanAt(g, Len(First(written, k)), EpochAt(written, k)) \subseteq RightEnds(m)
<1> DEFINE p == Len(First(written, k))
           e == EpochAt(written, k)
           f == file[p + 1].frame
           q == p + HeadCells + f.len
<1>0. /\ file \in Seq(Cells) /\ written \in Seq(Frames) /\ Len(file) \in Nat /\ Len(written) \in Nat
      /\ m \in 0..Len(written) /\ Len(First(written, m)) <= Len(file)
      /\ k < Len(written) /\ k + 1 \in 0..Len(written) /\ m \in (k + 1)..Len(written)
  <2>1. /\ file \in Seq(Cells) /\ written \in Seq(Frames) /\ Len(file) \in Nat /\ Len(written) \in Nat
        /\ m \in 0..Len(written) /\ Len(First(written, m)) <= Len(file)
    BY LenProperties DEF WrittenWell, CellsWell, Room
  <2> QED BY <2>1
<1>1. Len(First(written, k + 1)) <= Len(First(written, m))
      /\ (k + 1 < m => Len(First(written, k + 1)) < Len(First(written, m)))
  BY <1>0, FirstPrefix
<1>2. Len(First(written, k + 1)) \in Nat /\ Len(First(written, m)) \in Nat
  BY <1>0, FirstType
<1>3. /\ p + HeadCells <= Len(file) /\ HeaderAt(p) /\ f = written[k + 1]
      /\ q = Len(First(written, k + 1)) /\ (FrameValid(p, e) <=> Sound(k + 1))
  <2>1. Len(First(written, k + 1)) <= Len(file)
    BY <1>0, <1>1, <1>2
  <2> QED BY <1>0, <2>1, FrameTaken
<1>4. f.epoch = EpochAt(written, k + 1)
  BY <1>3, k + 1 # 0 DEF EpochAt
<1>5. ~(p + HeadCells > Len(file)) /\ ~(q > Len(file))
  <2>1. p \in Nat
    BY <1>0, FirstType
  <2> HIDE DEF p, q, f
  <2> QED BY <1>0, <1>1, <1>2, <1>3, <2>1 DEF HeadCells
<1>a. CASE ~Sound(k + 1)
  <2>1. ScanAt(g, p, e) = {Ends("corrupt", p, e)}
    BY <1>3, <1>5, <1>a, Zenon DEF ScanAt
  <2>2. p \in Nat /\ e \in 0..MaxEpoch /\ k \in 0..m
    BY <1>0, FirstType, EpochAtType
  <2>3. StopsAt(Ends("corrupt", p, e), k, m) /\ Ends("corrupt", p, e) \in EndsSet
    BY <1>a, <2>2 DEF StopsAt, Ends, EndsSet
  <2>4. Ends("corrupt", p, e) \in RightEnds(m)
    <3> HIDE DEF p, e
    <3> QED BY <2>3 DEF RightEnds
  <2> QED BY <2>1, <2>4
<1>6. CASE Sound(k + 1) /\ q = Len(file)
  <2>1. k + 1 = m
    BY <1>0, <1>1, <1>2, <1>3, <1>6
  <2>2. EpochAt(written, m) \in 0..MaxEpoch
    BY <1>0, EpochAtType
  <2>3. Ends("clean", q, f.epoch) \in RightEnds(m)
    <3>1. m \in 0..m /\ ~(m < m) /\ \A i \in 1..m : i \in 1..k \/ i = k + 1
      BY <1>0, <2>1
    <3>2. \A i \in 1..m : Sound(i)
      BY <1>6, <3>1
    <3> HIDE DEF q, f
    <3>3. StopsAt(Ends("clean", q, f.epoch), m, m)
      BY <1>3, <1>4, <1>6, <2>1, <3>1, <3>2 DEF StopsAt, Ends
    <3>4. Ends("clean", q, f.epoch) \in EndsSet
      BY <1>2, <1>3, <1>4, <2>1, <2>2 DEF Ends, EndsSet
    <3> QED BY <3>3, <3>4 DEF RightEnds
  <2>4. ScanAt(g, p, e) = {Ends("clean", q, f.epoch)}
    BY <1>3, <1>5, <1>6, Zenon DEF ScanAt
  <2> QED BY <2>3, <2>4
<1>7. CASE Sound(k + 1) /\ q # Len(file)
  <2>1. ScanAt(g, p, e) = g[q][f.epoch]
    BY <1>3, <1>5, <1>7, Zenon DEF ScanAt
  <2>2. g[q][f.epoch] = g[Len(First(written, k + 1))][EpochAt(written, k + 1)]
    <3> HIDE DEF q, f
    <3> QED BY <1>3, <1>4
  <2> QED BY <1>7, <2>1, <2>2
<1> QED
  BY <1>a, <1>6, <1>7

\* Every scan stops behind the last whole frame, or at the first that is not sound.
LEMMA ScanRight ==
  ASSUME WrittenWell, CellsWell, "pread" \notin Faults, head = "other",
         NEW m, Room(written, Len(file), m)
  PROVE  ScanEnds \subseteq RightEnds(m)
<1>0. /\ file \in Seq(Cells) /\ written \in Seq(Frames) /\ Len(file) \in Nat /\ Len(written) \in Nat
      /\ m \in 0..Len(written) /\ m \in Nat
  <2>1. /\ file \in Seq(Cells) /\ written \in Seq(Frames) /\ Len(file) \in Nat /\ Len(written) \in Nat
        /\ m \in 0..Len(written)
    BY LenProperties DEF WrittenWell, CellsWell, Room
  <2> QED BY <2>1
<1>1. PICK g : ScanGives(g)
  BY <1>0, ScanIs, ScanDef
<1>2. ASSUME NEW k \in 0..m
      PROVE  g[Len(First(written, k))][EpochAt(written, k)]
             = ScanAt(g, Len(First(written, k)), EpochAt(written, k))
  <2>1. k \in 0..Len(written) /\ m \in k..Len(written)
    BY <1>0
  <2>2. Len(First(written, k)) \in 0..Len(file)
    <3>1. Len(First(written, k)) \in Nat /\ Len(First(written, m)) \in Nat
      BY <1>0, <2>1, FirstType
    <3>2. Len(First(written, k)) <= Len(First(written, m)) /\ Len(First(written, m)) <= Len(file)
      BY <1>0, <2>1, FirstPrefix DEF Room
    <3> QED BY <1>0, <3>1, <3>2
  <2>3. EpochAt(written, k) \in 0..MaxEpoch
    BY <1>0, <2>1, EpochAtType
  <2>4. g = [p \in 0..Len(file) |-> [e \in 0..MaxEpoch |-> ScanAt(g, p, e)]]
    BY <1>1, Zenon DEF ScanGives, IsScan
  <2>5. \A p \in 0..Len(file) : g[p] = [e \in 0..MaxEpoch |-> ScanAt(g, p, e)]
    BY <2>4, Zenon
  <2>6. \A p \in 0..Len(file) : \A e \in 0..MaxEpoch : g[p][e] = ScanAt(g, p, e)
    BY <2>5, Zenon
  <2> QED BY <2>2, <2>3, <2>6, Zenon
<1> DEFINE Good(k) == (\A i \in 1..k : Sound(i))
                      => g[Len(First(written, k))][EpochAt(written, k)] \subseteq RightEnds(m)
           T == {d \in Nat : d <= m => Good(m - d)}
<1>3. 0 \in T
  <2>1. Good(m)
    BY <1>0, <1>2, ScanAtEnd
  <2>2. m - 0 = m
    BY <1>0
  <2> QED BY <2>1, <2>2
<1>4. ASSUME NEW d \in T PROVE d + 1 \in T
  <2> SUFFICES ASSUME d + 1 <= m PROVE Good(m - (d + 1))
    BY d + 1 \in Nat
  <2> DEFINE k == m - (d + 1)
  <2>1. d \in Nat /\ d <= m /\ k \in Nat /\ k < m /\ k + 1 = m - d /\ k \in 0..m
    BY <1>0
  <2>2. Good(k + 1)
    BY <2>1
  <2> HIDE DEF k
  <2>3. ASSUME \A i \in 1..k : Sound(i)
        PROVE  ScanAt(g, Len(First(written, k)), EpochAt(written, k)) \subseteq RightEnds(m)
    <3>1. \A i \in 1..(k + 1) : i \in 1..k \/ i = k + 1
      BY <2>1
    <3>2. Sound(k + 1) => g[Len(First(written, k + 1))][EpochAt(written, k + 1)] \subseteq RightEnds(m)
      BY <2>2, <2>3, <3>1
    <3> QED BY <2>1, <2>3, <3>2, ScanAtFrame
  <2>4. Good(k)
    BY <1>2, <2>1, <2>3
  <2> QED BY <2>4 DEF k
<1>5. T = Nat
  <2>1. T \in SUBSET Nat
    OBVIOUS
  <2> HIDE DEF T
  <2> QED BY <1>3, <1>4, <2>1, InductionOnNat
<1>6. Good(0)
  <2>1. m \in T /\ m - m = 0
    <3> HIDE DEF T
    <3> QED BY <1>0, <1>5
  <2> HIDE DEF Good
  <2> QED BY <1>0, <2>1
<1>7. g[0][0] \subseteq RightEnds(m)
  <2>1. Len(First(written, 0)) = 0 /\ EpochAt(written, 0) = 0
    BY <1>0, FirstEnds DEF EpochAt
  <2>2. \A i \in 1..0 : Sound(i)
    OBVIOUS
  <2> QED BY <1>6, <2>1, <2>2
<1> QED
  BY <1>1, <1>7 DEF ScanGives

-----------------------------------------------------------------------------
(* The steps.                                                              *)

\* What the proofs take for given of the file system: a scan reads what is there, and the
\* cut of a recovery succeeds.
Handled == "cut" \notin Faults /\ "pread" \notin Faults

\* While nobody has scanned, or the segment is open, nothing needs to be readable.
LEMMA NothingToRead ==
  /\ scan.kind = "none" \/ handle # "closed" => SyncedReadable
  /\ scan'.kind = "none" \/ handle' # "closed" => SyncedReadable'
  BY DEF SyncedReadable

\* The cells of the first frames do not depend on the others.
LEMMA FirstSame ==
  ASSUME NEW s \in Seq(Frames), NEW t \in Seq(Frames), NEW n \in Nat, n <= Len(s), n <= Len(t),
         \A i \in 1..n : s[i] = t[i]
  PROVE  First(s, n) = First(t, n)
<1> DEFINE a == SubSeq(s, 1, n)
           b == SubSeq(t, 1, n)
<1>1. n \in 0..Len(s) /\ n \in 0..Len(t)
  BY LenProperties
<1>2. a \in Seq(Frames) /\ Len(a) = n /\ \A i \in 1..n : a[i] = s[i]
  BY <1>1, SubSeqHead
<1>3. b \in Seq(Frames) /\ Len(b) = n /\ \A i \in 1..n : b[i] = t[i]
  BY <1>1, SubSeqHead
<1> HIDE DEF a, b
<1>4. \A i \in 1..Len(a) : a[i] = b[i]
  BY <1>2, <1>3
<1>5. a = b
  BY <1>2, <1>3, <1>4, SeqEqual
<1> QED
  BY <1>5 DEF First, a, b

\* Without a sync nothing is promised.
LEMMA NothingPromised ==
  ASSUME PromisedWell, WrittenWell, written = <<>> \/ entry # "durable" \/ head \notin {"durable", "other"}
  PROVE  promised = <<>>
<1>1. CASE written = <<>>
  <2>1. PICK k \in 0..Len(written) : promised = First(written, k)
    BY DEF PromisedWell
  <2>2. k = 0
    BY <1>1, <2>1, EmptySeq
  <2> QED BY <2>1, <2>2, FirstEnds DEF WrittenWell
<1> QED
  BY <1>1 DEF PromisedWell

\* The part of the invariant that is about the file alone.
KeptWell == WrittenWell /\ CellsWell /\ PromisedWell

\* The file and the frames as they were.
LEMMA SameKept ==
  ASSUME KeptWell, file' = file, written' = written
  PROVE  WrittenWell' /\ CellsWell'
  BY DEF KeptWell, WrittenWell, CellsWell

\* An empty file without frames.
LEMMA EmptyKept ==
  ASSUME file' = <<>>, written' = <<>>, durable' = 0, promised' = <<>>
  PROVE  KeptWell'
<1>1. <<>> \in Seq(Frames) /\ Len(<<>>) = 0 /\ <<>> \in Seq(Cells) /\ 1..0 = {}
  BY EmptySeq
<1>2. WrittenWell'
  BY <1>1 DEF WrittenWell
<1>3. CellsWell'
  BY <1>1 DEF CellsWell
<1>4. First(<<>>, 0) = <<>>
  BY <1>1, FirstEnds
<1>5. PromisedWell'
  BY <1>1, <1>4 DEF PromisedWell
<1> QED
  BY <1>2, <1>3, <1>5 DEF KeptWell

\* No segment is a good one.
LEMMA InitSegment == Init => SegmentInv
<1> SUFFICES ASSUME Init PROVE SegmentInv
  OBVIOUS
<1> USE DEF Init
<1>1. <<>> \in Seq(Frames) /\ Len(<<>>) = 0 /\ <<>> \in Seq(Cells) /\ 1..0 = {}
  BY EmptySeq
<1>2. WrittenWell
  BY <1>1 DEF WrittenWell
<1>3. CellsWell
  BY <1>1 DEF CellsWell
<1>4. First(<<>>, 0) = <<>>
  BY <1>1, FirstEnds
<1>5. PromisedWell
  BY <1>1, <1>4 DEF PromisedWell
<1>6. 0 \in 0..MaxEpoch
  BY SizesAssumption
<1>7. ScanWell
  <2>1. scan = [kind |-> "none", valid_end |-> 0, last_epoch |-> 0] /\ scan.kind = "none"
    BY DEF NotScanned
  <2>2. SyncedReadable
    BY <2>1, NothingToRead
  <2> QED BY <1>6, <2>1, <2>2 DEF ScanWell, NotScanned
<1>8. HandleWell
  <2>1. \/ entry = "none" /\ head = "none" /\ handle = "none"
        \/ entry = "durable" /\ head = "other" /\ handle = "closed"
    OBVIOUS
  <2> QED BY <1>6, <2>1 DEF HandleWell
<1> QED
  BY <1>2, <1>3, <1>5, <1>7, <1>8 DEF SegmentInv

\* The steps of creat, and where it breaks off.
LEMMA CreatKeeps ==
  ASSUME SegmentInv, CreatOpen \/ CreatHead \/ CreatSync \/ CreatDir \/ CreatBroken
  PROVE  SegmentInv'
<1>1. WrittenWell /\ CellsWell /\ PromisedWell /\ ScanWell /\ HandleWell
  BY DEF SegmentInv
<1>2. CASE CreatOpen
  <2>1. file = <<>> /\ entry = "none" /\ offset = 0 /\ lastEpoch = 0
    BY <1>1, <1>2 DEF CreatOpen, HandleWell
  <2>2. promised = <<>>
    BY <1>1, <2>1, NothingPromised
  <2>3. durable = 0
    BY <1>1, <2>1, EmptySeq DEF PromisedWell
  <2>4. KeptWell'
    BY <1>2, <2>1, <2>2, <2>3, EmptyKept DEF CreatOpen
  <2>5. scan.kind = "none"
    BY <1>1, <1>2 DEF NotScanned, HandleWell, CreatOpen
  <2>6. ScanWell'
    BY <1>1, <1>2, <2>5, NothingToRead DEF ScanWell, CreatOpen
  <2>7. HandleWell'
    BY <1>1, <1>2, <2>1, <2>5 DEF HandleWell, CreatOpen, ScanWell
  <2> QED BY <2>4, <2>6, <2>7 DEF SegmentInv, KeptWell
<1>3. CASE CreatHead \/ CreatSync \/ CreatDir \/ CreatBroken
  <2>1. file = <<>> /\ written = <<>> /\ scan = NotScanned /\ offset = 0 /\ lastEpoch = 0
    BY <1>1, <1>3 DEF CreatHead, CreatSync, CreatDir, CreatBroken, Creating, HandleWell
  <2>2. promised = <<>>
    BY <1>1, <2>1, NothingPromised
  <2>3. durable = 0
    BY <1>1, <2>1, EmptySeq DEF PromisedWell
  <2>4. UNCHANGED <<file, durable, offset, lastEpoch, scan, written, promised>>
    BY <1>3 DEF CreatHead, CreatSync, CreatDir, CreatBroken, frames
  <2>5. KeptWell'
    BY <2>1, <2>2, <2>3, <2>4, EmptyKept
  <2>6. scan.kind = "none"
    BY <2>1 DEF NotScanned
  <2>7. ScanWell'
    BY <1>1, <2>4, <2>6, NothingToRead DEF ScanWell
  <2>8. /\ handle' \in {"headed", "synced", "open", "closed"}
        /\ entry' \in {"none", "cached", "durable"}
        /\ head' \in {"none", "torn", "cached", "durable", "other"}
    BY <1>1, <1>3 DEF CreatHead, CreatSync, CreatDir, CreatBroken, HandleWell
  <2>9. Layout(<<>>) = <<>> /\ Len(<<>>) = 0 /\ 1..0 = {}
    BY LayoutEmpty
  <2>10. HandleWell'
    BY <1>1, <2>1, <2>4, <2>8, <2>9 DEF HandleWell
  <2> QED BY <2>5, <2>7, <2>10 DEF SegmentInv, KeptWell
<1> QED
  BY <1>2, <1>3

\* The destructor.
LEMMA CloseKeeps == SegmentInv /\ Close => SegmentInv'
<1> SUFFICES ASSUME SegmentInv, Close PROVE SegmentInv'
  OBVIOUS
<1>1. WrittenWell /\ CellsWell /\ PromisedWell /\ ScanWell /\ HandleWell
  BY DEF SegmentInv
<1>2. WrittenWell' /\ CellsWell'
  BY <1>1, SameKept DEF Close, KeptWell
<1>3. PromisedWell'
  BY <1>1 DEF PromisedWell, Close
<1>4. 0 \in 0..MaxEpoch
  BY SizesAssumption
<1>5. ScanWell'
  BY <1>4, NothingToRead DEF ScanWell, Close, NotScanned
<1>6. HandleWell'
  BY <1>1, <1>4 DEF HandleWell, Close
<1> QED
  BY <1>2, <1>3, <1>5, <1>6 DEF SegmentInv

\* open_append goes by what the scan has said.
LEMMA OpenAppendKeeps == SegmentInv /\ OpenAppend => SegmentInv'
<1> SUFFICES ASSUME SegmentInv, OpenAppend PROVE SegmentInv'
  OBVIOUS
<1>1. WrittenWell /\ CellsWell /\ PromisedWell /\ ScanWell /\ HandleWell
  BY DEF SegmentInv
<1>2. WrittenWell' /\ CellsWell'
  BY <1>1, SameKept DEF OpenAppend, KeptWell
<1>3. PromisedWell'
  BY <1>1 DEF PromisedWell, OpenAppend
<1>4. 0 \in 0..MaxEpoch
  BY SizesAssumption
<1>5. ScanWell'
  BY <1>1, NothingToRead DEF ScanWell, OpenAppend
<1>6. file = Layout(written)
  BY <1>1 DEF ScanWell, OpenAppend
<1>7. Len(file) \in Nat /\ Len(file) <= Len(file)
  <2>1. Len(file) \in Nat
    BY <1>1, LenProperties DEF CellsWell
  <2> QED BY <2>1
<1>8. HandleWell'
  BY <1>1, <1>4, <1>6, <1>7 DEF HandleWell, OpenAppend
<1> QED
  BY <1>2, <1>3, <1>5, <1>8 DEF SegmentInv

\* sysnc promises the cells of all frames written.
LEMMA SysncKeeps == SegmentInv /\ Sysnc => SegmentInv'
<1> SUFFICES ASSUME SegmentInv, Sysnc PROVE SegmentInv'
  OBVIOUS
<1>1. WrittenWell /\ CellsWell /\ PromisedWell /\ ScanWell /\ HandleWell
  BY DEF SegmentInv
<1>2. WrittenWell' /\ CellsWell'
  BY <1>1, SameKept DEF Sysnc, KeptWell
<1>3. /\ Len(file) \in Nat /\ Len(file) \in 0..Len(file)
      /\ Len(written) \in Nat /\ Len(written) \in 0..Len(written)
  <2>1. Len(file) \in Nat /\ Len(written) \in Nat
    BY <1>1, LenProperties DEF CellsWell, WrittenWell
  <2> QED BY <2>1
<1>4. PromisedWell'
  <2>1. CASE entry = "durable"
    <3>1. promised' = First(written, Len(written))
      BY <1>1, <2>1, FirstEnds DEF Sysnc, WrittenWell
    <3>2. Len(promised') <= Len(file)
      BY <2>1, <1>1 DEF Sysnc, HandleWell
    <3> QED BY <1>3, <2>1, <3>1, <3>2 DEF PromisedWell, Sysnc
  <2>2. CASE entry # "durable"
    <3>1. promised' = promised
      BY <2>2 DEF Sysnc
    <3>2. promised = <<>>
      BY <1>1, <2>2, NothingPromised
    <3>3. Len(promised) <= Len(file)
      BY <1>3, <3>2, EmptySeq
    <3> QED BY <1>1, <1>3, <3>1, <3>2, <3>3 DEF PromisedWell, Sysnc
  <2> QED BY <2>1, <2>2
<1>5. ScanWell'
  BY <1>1, NothingToRead DEF ScanWell, Sysnc
<1>6. HandleWell'
  BY <1>1 DEF HandleWell, Sysnc
<1> QED
  BY <1>2, <1>4, <1>5, <1>6 DEF SegmentInv

\* A file that is cut, with the frames left as they are.
LEMMA CutKeeps ==
  ASSUME WrittenWell, CellsWell, NEW n \in 0..Len(file), file' = SubSeq(file, 1, n), written' = written
  PROVE  WrittenWell' /\ CellsWell' /\ Len(file') = n
<1>1. file \in Seq(Cells)
  BY DEF CellsWell
<1>2. file' \in Seq(Cells) /\ Len(file') = n /\ \A j \in 1..n : file'[j] = file[j]
  BY <1>1, SubSeqHead
<1>3. \A j \in 1..n : j \in 1..Len(file)
  BY <1>1, LenProperties
<1>4. WrittenWell'
  BY DEF WrittenWell
<1>5. CellsWell'
  BY <1>2, <1>3 DEF CellsWell
<1> QED
  BY <1>2, <1>4, <1>5

\* A crash cuts the file behind what is durable.
LEMMA CrashKeeps == SegmentInv /\ Crash => SegmentInv'
<1> SUFFICES ASSUME SegmentInv, Crash PROVE SegmentInv'
  OBVIOUS
<1>1. WrittenWell /\ CellsWell /\ PromisedWell /\ ScanWell /\ HandleWell
  BY DEF SegmentInv
<1>2. /\ scan' = NotScanned /\ offset' = 0 /\ lastEpoch' = 0 /\ written' = written
      /\ promised' = promised /\ handle # "none"
  BY DEF Crash
<1>3. 0 \in 0..MaxEpoch
  BY SizesAssumption
<1>4. ScanWell'
  BY <1>2, <1>3, NothingToRead DEF ScanWell, NotScanned
<1>5. /\ Len(file) \in Nat /\ durable \in 0..Len(file) /\ Len(promised) <= durable
      /\ \E k \in 0..Len(written) : promised = First(written, k)
      /\ promised # <<>> => entry = "durable" /\ head \in {"durable", "other"}
  BY <1>1, LenProperties DEF CellsWell, PromisedWell
<1>6. Len(<<>>) = 0 /\ SubSeq(file, 1, 0) = <<>>
  BY SubSeqEmpty
<1>7. CASE /\ entry = "cached"
           /\ entry' = "none" /\ head' = "none" /\ handle' = "none"
           /\ file' = <<>> /\ durable' = 0
  <2>1. promised = <<>>
    BY <1>1, <1>7, NothingPromised
  <2>2. file' = SubSeq(file, 1, 0) /\ 0 \in 0..Len(file)
    BY <1>5, <1>6, <1>7
  <2>3. WrittenWell' /\ CellsWell' /\ Len(file') = 0
    BY <1>1, <1>2, <2>2, CutKeeps
  <2>4. PromisedWell'
    <3>1. \E k \in 0..Len(written') : promised' = First(written', k)
      BY <1>2, <1>5
    <3>2. durable' \in 0..Len(file') /\ Len(promised') <= durable'
      BY <1>2, <1>6, <1>7, <2>1, <2>3
    <3> QED BY <1>2, <2>1, <3>1, <3>2 DEF PromisedWell
  <2>5. HandleWell'
    BY <1>2, <1>3, <1>7 DEF HandleWell
  <2> QED BY <1>4, <2>3, <2>4, <2>5 DEF SegmentInv
<1>8. CASE /\ entry' = "durable" /\ handle' = "closed"
           /\ head' \in IF head = "cached" THEN {"none", "torn", "durable"} ELSE {head}
           /\ \E n \in durable..Len(file) :
                 /\ file' = IF head' \in {"none", "torn"} THEN <<>> ELSE SubSeq(file, 1, n)
                 /\ durable' = Len(file')
  <2>1. PICK n \in durable..Len(file) :
           /\ file' = IF head' \in {"none", "torn"} THEN <<>> ELSE SubSeq(file, 1, n)
           /\ durable' = Len(file')
    BY <1>8
  <2> DEFINE c == IF head' \in {"none", "torn"} THEN 0 ELSE n
  <2>2. c \in 0..Len(file) /\ file' = SubSeq(file, 1, c)
    BY <1>5, <1>6, <2>1
  <2>3. WrittenWell' /\ CellsWell' /\ Len(file') = c
    <3> HIDE DEF c
    <3> QED BY <1>1, <1>2, <2>2, CutKeeps
  <2>4. Len(promised) <= c
    <3>1. CASE promised = <<>>
      BY <1>5, <1>6, <2>2, <3>1
    <3>2. CASE promised # <<>>
      <4>1. head' \in {"durable", "other"}
        BY <1>5, <1>8, <3>2
      <4>2. durable <= n
        BY <1>5
      <4> QED BY <1>5, <4>1, <4>2
    <3> QED BY <3>1, <3>2
  <2>5. PromisedWell'
    <3>1. c \in 0..c
      BY <1>5, <2>2
    <3>2. promised # <<>> => head' \in {"durable", "other"}
      BY <1>5, <1>8
    <3> HIDE DEF c
    <3> QED BY <1>2, <1>5, <1>8, <2>1, <2>3, <2>4, <3>1, <3>2 DEF PromisedWell
  <2>6. head' \in {"none", "torn", "cached", "durable", "other"}
    BY <1>1, <1>8 DEF HandleWell
  <2>7. HandleWell'
    BY <1>2, <1>3, <1>8, <2>6 DEF HandleWell
  <2> QED BY <1>4, <2>3, <2>5, <2>7 DEF SegmentInv
<1> QED
  BY <1>7, <1>8 DEF Crash

\* Cells behind cells.
LEMMA ConcatCells ==
  \A a, b \in Seq(Cells) :
     /\ Len(a \o b) = Len(a) + Len(b)
     /\ \A j \in 1..(Len(a) + Len(b)) : (a \o b)[j] = IF j <= Len(a) THEN a[j] ELSE b[j - Len(a)]
  BY ConcatProperties

\* The frames the caller may write.
LEMMA NextFrameType ==
  ASSUME offset \in Nat, written \in Seq(Frames), NEW f \in NextFrames
  PROVE  f \in Frames
<1>1. BaseOffset + offset \in Nat /\ BaseOffset + Len(written) \in Nat
  BY SizesAssumption, LenProperties DEF BaseOffset
<1> QED
  BY <1>1 DEF NextFrames, Frames

\* An append that succeeds.
LEMMA WrittenKeeps ==
  ASSUME WrittenWell, CellsWell, offset = Len(Layout(written)), offset <= Len(file),
         NEW f \in Frames, file' = Overlay(CellsOf(f)), written' = Append(written, f)
  PROVE  /\ WrittenWell' /\ CellsWell'
         /\ Len(Layout(written')) = offset + HeadCells + f.len
         /\ Len(Layout(written')) <= Len(file') /\ Len(file) <= Len(file')
         /\ Len(written') = Len(written) + 1 /\ written'[Len(written) + 1] = f
         /\ \A i \in 1..Len(written) : written'[i] = written[i]
         /\ \A k \in 0..Len(written) : First(written', k) = First(written, k)
<1> DEFINE c == CellsOf(f)
           n == HeadCells + f.len
           L == Layout(written)
           M == Layout(written')
<1>0. /\ file \in Seq(Cells) /\ written \in Seq(Frames) /\ Len(file) \in Nat /\ Len(written) \in Nat
      /\ L \in Seq(Cells) /\ Len(L) \in Nat /\ offset \in 0..Len(file) /\ offset \in Nat
      /\ Base \in Nat /\ offset = Len(L)
  <2>1. /\ file \in Seq(Cells) /\ written \in Seq(Frames) /\ Len(file) \in Nat /\ Len(written) \in Nat
        /\ L \in Seq(Cells) /\ Len(L) \in Nat
    BY LenProperties, LayoutType DEF WrittenWell, CellsWell
  <2>2. Base \in Nat
    BY SizesAssumption
  <2> HIDE DEF L
  <2> QED BY <2>1, <2>2 DEF L
<1>1. /\ c \in Seq(Cells) /\ Len(c) = n /\ f.len \in Nat /\ n \in Nat
      /\ \A i \in 1..n : c[i] = [frame |-> f, at |-> i]
  BY CellsOfType
<1>2. n > 0
  BY <1>1 DEF HeadCells
<1>3. M = L \o c
  BY <1>0, LayoutMore
<1>4. /\ written' \in Seq(Frames) /\ Len(written') = Len(written) + 1
      /\ written'[Len(written) + 1] = f /\ \A i \in 1..Len(written) : written'[i] = written[i]
  BY <1>0, AppendProperties
<1> HIDE DEF c, L, M, n
<1>5. /\ Len(M) = offset + n
      /\ \A j \in 1..(offset + n) : M[j] = IF j <= offset THEN L[j] ELSE c[j - offset]
  <2>1. /\ Len(L \o c) = Len(L) + Len(c)
        /\ \A j \in 1..(Len(L) + Len(c)) : (L \o c)[j] = IF j <= Len(L) THEN L[j] ELSE c[j - Len(L)]
    <3>1. L \in Seq(Cells) /\ c \in Seq(Cells)
      BY <1>0, <1>1
    <3> QED BY <3>1, ConcatCells, Zenon
  <2>2. offset = Len(L) /\ Len(c) = n
    BY <1>0, <1>1
  <2> QED BY <1>3, <2>1, <2>2, Zenon
<1>6. /\ file' \in Seq(Cells)
      /\ Len(file') = IF offset + n <= Len(file) THEN Len(file) ELSE offset + n
      /\ \A j \in 1..Len(file') :
            /\ j <= offset => file'[j] = file[j]
            /\ j > offset /\ j <= offset + n => file'[j] = c[j - offset]
            /\ j > offset + n => j <= Len(file) /\ file'[j] = file[j]
  <2>1. /\ Overlay(c) \in Seq(Cells)
        /\ Len(Overlay(c)) = IF offset + Len(c) <= Len(file) THEN Len(file) ELSE offset + Len(c)
        /\ \A j \in 1..Len(Overlay(c)) :
              /\ j <= offset => Overlay(c)[j] = file[j]
              /\ j > offset /\ j <= offset + Len(c) => Overlay(c)[j] = c[j - offset]
              /\ j > offset + Len(c) => j <= Len(file) /\ Overlay(c)[j] = file[j]
    BY <1>0, <1>1, OverlayCells
  <2>2. file' = Overlay(c)
    BY DEF c
  <2> QED BY <1>1, <2>1, <2>2, Zenon
<1>7. offset + n <= Len(file') /\ Len(file) <= Len(file') /\ Len(file') \in Nat
  BY <1>0, <1>1, <1>6
<1>8. \A k \in 0..Len(written) : First(written', k) = First(written, k)
  <2> TAKE k \in 0..Len(written)
  <2>1. k \in Nat /\ k <= Len(written) /\ k <= Len(written') /\ \A i \in 1..k : i \in 1..Len(written)
    BY <1>0, <1>4
  <2> QED BY <1>0, <1>4, <2>1, FirstSame
<1>9. WrittenWell'
  BY <1>4 DEF WrittenWell
<1>10. ASSUME NEW j \in 1..Len(file'), j <= Len(M)
       PROVE  file'[j] = M[j]
  <2>1. j \in 1..(offset + n)
    BY <1>5, <1>7, <1>10
  <2>2. CASE j <= offset
    <3>1. j \in 1..Len(file) /\ j <= Len(L)
      BY <1>0, <2>1, <2>2 DEF L
    <3>2. file[j] = L[j]
      BY <3>1 DEF CellsWell, L
    <3> QED BY <1>5, <1>6, <2>1, <2>2, <3>2
  <2>3. CASE ~(j <= offset)
    <3>1. j > offset /\ j <= offset + n
      BY <1>0, <1>1, <2>1, <2>3
    <3> QED BY <1>5, <1>6, <2>1, <2>3, <3>1
  <2> QED BY <2>2, <2>3
<1>11. ASSUME NEW j \in 1..Len(file'), j > Len(M)
       PROVE  /\ j - file'[j].at <= Len(M)
              /\ j - file'[j].at = Len(M) => file'[j].at < HeadCells + file'[j].frame.len
  <2>1. j > offset + n /\ j \in 1..Len(file) /\ file'[j] = file[j] /\ j > Len(L)
    <3>1. j > offset + n
      BY <1>5, <1>11
    <3>2. j <= Len(file) /\ file'[j] = file[j]
      BY <1>6, <3>1
    <3> QED BY <1>0, <1>1, <1>7, <3>1, <3>2 DEF L
  <2>2. j - file[j].at <= Len(L)
    BY <2>1 DEF CellsWell, L
  <2>3. j - file[j].at \in Int
    <3>1. file[j] \in Cells
      BY <1>0, <2>1, ElementOfSeq
    <3> QED BY <3>1 DEF Cells
  <2>4. Len(L) < Len(M)
    BY <1>0, <1>1, <1>2, <1>5 DEF L
  <2>5. \A x \in Int, y, z \in Nat : x <= y /\ y < z => x <= z /\ x # z
    OBVIOUS
  <2>6. Len(L) \in Nat /\ Len(M) \in Nat
    BY <1>0, <1>1, <1>5
  <2> QED BY <2>1, <2>2, <2>3, <2>4, <2>5, <2>6
<1>12. CellsWell'
  BY <1>6, <1>10, <1>11 DEF CellsWell, M
<1>13. offset + n = offset + HeadCells + f.len
  <2>1. \A x, y, z \in Nat : x + (y + z) = x + y + z
    OBVIOUS
  <2>2. HeadCells \in Nat
    BY DEF HeadCells
  <2>3. offset \in Nat /\ f.len \in Nat
    BY <1>0, <1>1, Zenon
  <2>4. offset + (HeadCells + f.len) = offset + HeadCells + f.len
    BY <2>1, <2>2, <2>3, Zenon
  <2> QED BY <2>4, Zenon DEF n
<1> QED
  BY <1>4, <1>5, <1>7, <1>8, <1>9, <1>12, <1>13 DEF M

\* An append that fails.
LEMMA LeavingsKeep ==
  ASSUME WrittenWell, CellsWell, offset = Len(Layout(written)), offset <= Len(file),
         NEW f \in Frames, file' \in Leavings(CellsOf(f)), written' = written
  PROVE  WrittenWell' /\ CellsWell' /\ offset <= Len(file') /\ Len(file') \in Nat
<1>0. /\ file \in Seq(Cells) /\ written \in Seq(Frames) /\ Len(file) \in Nat
      /\ Len(Layout(written)) \in Nat /\ offset \in 0..Len(file) /\ offset \in Nat /\ Base \in Nat
  <2>1. /\ file \in Seq(Cells) /\ written \in Seq(Frames) /\ Len(file) \in Nat
        /\ Len(Layout(written)) \in Nat
    BY LenProperties, LayoutType DEF WrittenWell, CellsWell
  <2>2. Base \in Nat
    BY SizesAssumption
  <2> QED BY <2>1, <2>2
<1>1. CASE file' = file
  <2>1. WrittenWell' /\ CellsWell'
    BY <1>1 DEF WrittenWell, CellsWell
  <2> QED BY <1>0, <1>1, <2>1
<1>2. CASE file' = SubSeq(file, 1, offset)
  <2>1. WrittenWell' /\ CellsWell' /\ Len(file') = offset
    BY <1>0, <1>2, CutKeeps
  <2> QED BY <1>0, <2>1
<1>3. CASE \E n \in 0..(Len(CellsOf(f)) - 1) : file' = Overlay(SubSeq(CellsOf(f), 1, n))
  <2> DEFINE l == HeadCells + f.len
  <2>1. /\ CellsOf(f) \in Seq(Cells) /\ Len(CellsOf(f)) = l /\ l \in Nat
        /\ \A i \in 1..l : CellsOf(f)[i] = [frame |-> f, at |-> i]
    BY CellsOfType
  <2>2. PICK n \in 0..(Len(CellsOf(f)) - 1) : file' = Overlay(SubSeq(CellsOf(f), 1, n))
    BY <1>3
  <2> DEFINE c == SubSeq(CellsOf(f), 1, n)
  <2> HIDE DEF l
  <2>3. n \in Nat /\ n < l /\ n \in 0..Len(CellsOf(f)) /\ \A i \in 1..n : i \in 1..l
    BY <2>1, <2>2
  <2>4. c \in Seq(Cells) /\ Len(c) = n /\ \A i \in 1..n : c[i] = [frame |-> f, at |-> i]
    <3>1. c \in Seq(Cells) /\ Len(c) = n /\ \A i \in 1..n : c[i] = CellsOf(f)[i]
      BY <2>1, <2>3, SubSeqHead
    <3> QED BY <2>1, <2>3, <3>1
  <2> HIDE DEF c
  <2>5. /\ file' \in Seq(Cells)
        /\ Len(file') = IF offset + n <= Len(file) THEN Len(file) ELSE offset + n
        /\ \A j \in 1..Len(file') :
              /\ j <= offset => file'[j] = file[j]
              /\ j > offset /\ j <= offset + n => file'[j] = c[j - offset]
              /\ j > offset + n => j <= Len(file) /\ file'[j] = file[j]
    <3>1. /\ Overlay(c) \in Seq(Cells)
          /\ Len(Overlay(c)) = IF offset + Len(c) <= Len(file) THEN Len(file) ELSE offset + Len(c)
          /\ \A j \in 1..Len(Overlay(c)) :
                /\ j <= offset => Overlay(c)[j] = file[j]
                /\ j > offset /\ j <= offset + Len(c) => Overlay(c)[j] = c[j - offset]
                /\ j > offset + Len(c) => j <= Len(file) /\ Overlay(c)[j] = file[j]
      <4>1. file \in Seq(Cells) /\ c \in Seq(Cells) /\ offset \in 0..Len(file)
        BY <1>0, <2>4
      <4> QED BY <4>1, OverlayCells, Zenon
    <3>2. file' = Overlay(c)
      BY <2>2 DEF c
    <3> QED BY <2>4, <3>1, <3>2, Zenon
  <2>6. offset <= Len(file') /\ Len(file') \in Nat
    BY <1>0, <2>3, <2>5
  <2>7. WrittenWell'
    BY DEF WrittenWell
  <2>8. ASSUME NEW j \in 1..Len(file'), j <= Len(Layout(written))
        PROVE  file'[j] = Layout(written)[j]
    <3>1. j \in 1..Len(file) /\ j <= offset
      BY <1>0, <2>6, <2>8
    <3> QED BY <2>5, <2>8, <3>1 DEF CellsWell
  <2>9. ASSUME NEW j \in 1..Len(file'), j > Len(Layout(written))
        PROVE  /\ j - file'[j].at <= Len(Layout(written))
               /\ j - file'[j].at = Len(Layout(written)) =>
                     file'[j].at < HeadCells + file'[j].frame.len
    <3>1. CASE j <= offset + n
      <4>1. file'[j] = c[j - offset] /\ j - offset \in 1..n /\ j - offset < l
        <5>1. j > offset /\ j - offset \in 1..n /\ j - offset < l
          BY <1>0, <2>1, <2>3, <2>6, <2>9, <3>1
        <5> QED BY <2>5, <3>1, <5>1
      <4>2. file'[j].frame = f /\ file'[j].at = j - offset
        BY <2>4, <4>1
      <4>3. j - (j - offset) = offset
        BY <1>0
      <4> QED BY <4>1, <4>2, <4>3 DEF l
    <3>2. CASE ~(j <= offset + n)
      <4>1. j > offset + n
        BY <1>0, <2>3, <2>6, <3>2
      <4>2. j \in 1..Len(file) /\ file'[j] = file[j]
        <5>1. j <= Len(file) /\ file'[j] = file[j]
          BY <2>5, <4>1
        <5> QED BY <1>0, <2>6, <5>1
      <4> QED BY <2>9, <4>2 DEF CellsWell
    <3> QED BY <3>1, <3>2
  <2>10. CellsWell'
    BY <2>5, <2>8, <2>9 DEF CellsWell
  <2> QED BY <2>6, <2>7, <2>10
<1> QED
  BY <1>1, <1>2, <1>3, Zenon DEF Leavings

\* append, whether its two writes succeed or not.
LEMMA AppendKeeps ==
  ASSUME SegmentInv, NEW f \in NextFrames, AppendFrame(f)
  PROVE  SegmentInv'
<1>1. WrittenWell /\ CellsWell /\ PromisedWell /\ ScanWell /\ HandleWell
  BY DEF SegmentInv
<1>2. /\ handle = "open" /\ f.epoch >= lastEpoch
      /\ \/ /\ file' = Overlay(CellsOf(f))
            /\ offset' = offset + HeadCells + f.len
            /\ lastEpoch' = f.epoch
            /\ written' = Append(written, f)
         \/ /\ file' \in Leavings(CellsOf(f))
            /\ UNCHANGED <<offset, lastEpoch, written>>
      /\ durable' = Min({durable, offset})
      /\ UNCHANGED <<entry, head, handle, scan, promised>>
  BY DEF AppendFrame
<1>3. /\ offset = Len(Layout(written)) /\ offset <= Len(file) /\ offset \in Nat
  BY <1>1, <1>2 DEF HandleWell
<1>4. f \in Frames
  BY <1>1, <1>3, NextFrameType DEF WrittenWell
<1>5. f.epoch \in 0..MaxEpoch /\ f.epoch \in Nat /\ f.len \in Nat /\ MaxEpoch \in Nat
  <2>1. f.epoch \in 1..MaxEpoch /\ MaxEpoch \in Nat
    BY <1>4, SizesAssumption DEF Frames
  <2>2. f.len \in Nat
    BY <1>4, CellsOfType
  <2> QED BY <2>1, <2>2
<1>7. ScanWell'
  BY <1>1, <1>2, NothingToRead DEF ScanWell
<1>8. /\ durable \in Nat /\ durable' \in {durable, offset} /\ durable' <= durable /\ durable' <= offset
      /\ Len(promised) \in Nat /\ Len(promised) <= durable /\ Len(promised) <= offset
      /\ Len(written) \in Nat
  <2>1. PICK k \in 0..Len(written) : promised = First(written, k)
    BY <1>1 DEF PromisedWell
  <2>2. Len(written) \in Nat /\ Len(file) \in Nat
    BY <1>1, LenProperties DEF WrittenWell, CellsWell
  <2>3. Len(promised) \in Nat
    BY <1>1, <2>1, FirstType DEF WrittenWell
  <2>4. Len(promised) <= Len(Layout(written))
    <3>1. Len(written) \in k..Len(written)
      BY <2>1, <2>2
    <3> QED BY <1>1, <2>1, <3>1, FirstPrefix, FirstEnds DEF WrittenWell
  <2>5. durable \in Nat /\ Len(promised) <= durable
    BY <1>1, <2>2 DEF PromisedWell
  <2>6. Min({durable, offset}) \in {durable, offset} /\ Min({durable, offset}) <= durable
        /\ Min({durable, offset}) <= offset
    <3>1. durable \in Int /\ offset \in Int
      BY <1>3, <2>5
    <3> QED BY <3>1, MinTwo, Zenon
  <2> QED BY <1>2, <1>3, <2>2, <2>3, <2>4, <2>5, <2>6
<1>9. CASE /\ file' = Overlay(CellsOf(f))
           /\ offset' = offset + HeadCells + f.len
           /\ lastEpoch' = f.epoch
           /\ written' = Append(written, f)
  <2>1. /\ WrittenWell' /\ CellsWell'
        /\ Len(Layout(written')) = offset + HeadCells + f.len
        /\ Len(Layout(written')) <= Len(file') /\ Len(file) <= Len(file')
        /\ Len(written') = Len(written) + 1 /\ written'[Len(written) + 1] = f
        /\ \A i \in 1..Len(written) : written'[i] = written[i]
        /\ \A k \in 0..Len(written) : First(written', k) = First(written, k)
    BY <1>1, <1>3, <1>4, <1>9, WrittenKeeps
  <2>2. PromisedWell'
    <3>1. PICK k \in 0..Len(written) : promised = First(written, k)
      BY <1>1 DEF PromisedWell
    <3>2. k \in 0..Len(written') /\ promised' = First(written', k)
      BY <1>2, <1>8, <2>1, <3>1
    <3>3. durable' \in 0..Len(file') /\ Len(promised') <= durable'
      <4>1. Len(file) \in Nat /\ Len(file') \in Nat
        BY <1>1, <2>1, LenProperties DEF CellsWell
      <4> QED BY <1>2, <1>3, <1>8, <2>1, <4>1
    <3>4. promised' # <<>> => entry' = "durable" /\ head' \in {"durable", "other"}
      BY <1>1, <1>2 DEF PromisedWell
    <3> QED BY <3>2, <3>3, <3>4 DEF PromisedWell
  <2>4. offset' \in Nat
    BY <1>3, <1>5, <1>9 DEF HeadCells
  <2>5. HandleWell'
    BY <1>1, <1>2, <1>5, <1>9, <2>1, <2>4 DEF HandleWell
  <2> QED BY <1>7, <2>1, <2>2, <2>5 DEF SegmentInv
<1>10. CASE /\ file' \in Leavings(CellsOf(f))
            /\ UNCHANGED <<offset, lastEpoch, written>>
  <2>1. WrittenWell' /\ CellsWell' /\ offset <= Len(file') /\ Len(file') \in Nat
    BY <1>1, <1>3, <1>4, <1>10, LeavingsKeep
  <2>2. PromisedWell'
    <3>1. durable' \in 0..Len(file') /\ Len(promised') <= durable'
      BY <1>2, <1>3, <1>8, <2>1
    <3> QED BY <1>1, <1>2, <1>10, <3>1 DEF PromisedWell
  <2>3. HandleWell'
    BY <1>1, <1>2, <1>3, <1>10, <2>1 DEF HandleWell
  <2> QED BY <1>7, <2>1, <2>2, <2>3 DEF SegmentInv
<1> QED
  BY <1>2, <1>9, <1>10

\* A recovery leaves the whole frames.
LEMMA RecoverKeeps == Handled /\ SegmentInv /\ Recover => SegmentInv'
<1> SUFFICES ASSUME Handled, SegmentInv, Recover PROVE SegmentInv'
  OBVIOUS
<1>1. WrittenWell /\ CellsWell /\ PromisedWell /\ ScanWell /\ HandleWell
  BY DEF SegmentInv
<1>2. PICK end \in ScanEnds :
         /\ file' = IF end.kind = "torn_tail" THEN SubSeq(file, 1, end.valid_end) ELSE file
         /\ scan' = [end EXCEPT !.kind = IF @ = "torn_tail" THEN "clean" ELSE @]
  BY Zenon DEF Recover, Handled
<1>3. /\ handle = "closed" /\ scan.kind = "none" /\ durable' = Min({durable, Len(file')})
      /\ written' = IF scan'.kind = "clean" THEN Kept(file') ELSE written
      /\ UNCHANGED <<entry, head, handle, offset, lastEpoch, promised>>
  BY DEF Recover
<1>4. HandleWell'
  BY <1>1, <1>3 DEF HandleWell
<1>5. /\ Len(file) \in Nat /\ Len(written) \in Nat /\ durable \in Nat /\ durable <= Len(file)
      /\ Len(promised) <= durable /\ file \in Seq(Cells) /\ written \in Seq(Frames)
  <2>1. Len(file) \in Nat /\ Len(written) \in Nat /\ file \in Seq(Cells) /\ written \in Seq(Frames)
    BY <1>1, LenProperties DEF WrittenWell, CellsWell
  <2> QED BY <1>1, <2>1 DEF PromisedWell
<1>6. PICK k \in 0..Len(written) : promised = First(written, k)
  BY <1>1 DEF PromisedWell
<1>7. Len(promised) \in Nat /\ Len(promised) <= Len(file)
  BY <1>5, <1>6, FirstType
<1>8. ASSUME Len(file') \in Nat, Len(promised) <= Len(file')
      PROVE  durable' \in 0..Len(file') /\ Len(promised') <= durable'
  <2>1. /\ Min({durable, Len(file')}) \in {durable, Len(file')}
        /\ Min({durable, Len(file')}) <= durable /\ Min({durable, Len(file')}) <= Len(file')
    <3>1. durable \in Int /\ Len(file') \in Int
      BY <1>5, <1>8
    <3> QED BY <3>1, MinTwo, Zenon
  <2> QED BY <1>3, <1>5, <1>7, <1>8, <2>1
<1>9. CASE head # "other"
  <2>0. BaseOffset = 0
    BY <1>9 DEF BaseOffset
  <2>1. end = Ends("head_bad", 0, 0)
    BY <1>2, <2>0, Zenon DEF ScanEnds
  <2>2. file' = file /\ scan' = [kind |-> "head_bad", valid_end |-> 0, last_epoch |-> 0]
    BY <1>2, <2>1 DEF Ends
  <2>3. written' = written
    BY <1>3, <2>2
  <2>4. WrittenWell' /\ CellsWell'
    BY <1>1, <2>2, <2>3, SameKept DEF KeptWell
  <2>5. SyncedReadable'
    BY <1>3, <1>9 DEF SyncedReadable
  <2>6. durable' \in 0..Len(file') /\ Len(promised') <= durable'
    BY <1>5, <1>7, <1>8, <2>2
  <2>7. PromisedWell'
    BY <1>1, <1>3, <1>6, <2>3, <2>6 DEF PromisedWell
  <2>8. 0 \in 0..MaxEpoch
    BY SizesAssumption
  <2>9. ScanWell'
    BY <1>3, <2>2, <2>5, <2>8 DEF ScanWell
  <2> QED BY <1>4, <2>4, <2>7, <2>9 DEF SegmentInv
<1>10. CASE head = "other"
  <2>1. PICK m : Room(written, Len(file), m)
    BY <1>5, RoomExists
  <2>2. end \in RightEnds(m)
    BY <1>1, <1>2, <1>10, <2>1, ScanRight DEF Handled
  <2>3. PICK t : StopsAt(end, t, m)
    BY <2>2 DEF RightEnds
  <2> DEFINE p == Len(First(written, t))
             e == EpochAt(written, t)
  <2>4. /\ end \in EndsSet /\ end.valid_end = p /\ end.last_epoch = e
        /\ end.kind = "clean" => p = Len(file)
        /\ t \in 0..m
        /\ t < m => end.kind = "corrupt" /\ ~Sound(t + 1)
    BY <2>2, <2>3 DEF RightEnds, StopsAt
  <2>5. /\ m \in 0..Len(written) /\ m \in Nat /\ m <= Len(written) /\ t \in Nat /\ t <= m
        /\ t \in 0..Len(written) /\ m \in t..Len(written)
        /\ p \in Nat /\ p \in 0..Len(file) /\ First(written, t) \in Seq(Cells)
    <3>1. m \in 0..Len(written) /\ Len(First(written, m)) <= Len(file) /\ t \in 0..m
      BY <2>1, <2>3 DEF Room, StopsAt
    <3>2. /\ m \in Nat /\ m <= Len(written) /\ t \in Nat /\ t <= m
          /\ t \in 0..Len(written) /\ m \in t..Len(written)
      BY <1>5, <3>1
    <3>3. /\ p \in Nat /\ First(written, t) \in Seq(Cells) /\ p <= Len(First(written, m))
          /\ Len(First(written, m)) \in Nat
      BY <1>5, <3>1, <3>2, FirstType, FirstPrefix
    <3> HIDE DEF p
    <3> QED BY <1>5, <3>1, <3>2, <3>3
  <2>6. k <= m
    BY <1>5, <1>6, <1>7, <2>1, RoomLeast
  <2> HIDE DEF p, e
  <2>7. CASE end.kind = "corrupt"
    <3>1. file' = file /\ scan'.kind = "corrupt" /\ scan' \in EndsSet /\ scan'.valid_end = p
      BY <1>2, <2>4, <2>7 DEF EndsSet
    <3>2. written' = written
      BY <1>3, <3>1
    <3>3. WrittenWell' /\ CellsWell'
      BY <1>1, <3>1, <3>2, SameKept DEF KeptWell
    <3>4. durable' \in 0..Len(file') /\ Len(promised') <= durable'
      BY <1>5, <1>7, <1>8, <3>1
    <3>5. PromisedWell'
      BY <1>1, <1>3, <1>6, <3>2, <3>4 DEF PromisedWell
    <3>6. SyncedReadable'
      <4> SUFFICES ASSUME NEW n \in 1..Len(written), Len(First(written, n)) <= Len(promised),
                          ByBytes(n), Rising(n)
                   PROVE  Len(First(written, n)) <= p
        BY <1>3, <3>1, <3>2 DEF SyncedReadable, End, ByBytes, Rising, First
      <4>1. n \in Nat /\ n \in 0..Len(written) /\ Len(First(written, n)) \in Nat
        BY <1>5, FirstType
      <4>2. n <= m
        <5>1. Len(First(written, n)) <= Len(file)
          BY <1>5, <1>7, <4>1
        <5> QED BY <1>5, <2>1, <4>1, <5>1, RoomLeast
      <4>3. n <= t
        <5> SUFFICES ASSUME t < n PROVE FALSE
          BY <2>5, <4>1
        <5>1. t < m /\ t + 1 \in 1..n /\ (t + 1) - 1 = t
          BY <2>5, <4>1, <4>2
        <5>2. written[t + 1].off = Base + Len(First(written, t))
          BY <5>1 DEF ByBytes, End, First
        <5>3. written[t + 1].epoch >= EpochAt(written, t)
          <6>1. t + 1 \in 1..Len(written) /\ \A x \in 1..MaxEpoch : x \in Nat
            BY <1>5, <2>5, <5>1
          <6>2. written[t + 1].epoch \in Nat
            <7>1. written[t + 1] \in Frames
              BY <1>5, <6>1, ElementOfSeq
            <7> QED BY <6>1, <7>1 DEF Frames
          <6>3. CASE t = 0
            BY <6>2, <6>3 DEF EpochAt
          <6>4. CASE t # 0
            <7>1. t \in 1..n /\ t < t + 1 /\ t \in 1..Len(written)
              BY <1>5, <2>5, <4>1, <5>1, <6>4
            <7>2. written[t].epoch <= written[t + 1].epoch
              BY <5>1, <7>1 DEF Rising
            <7>3. written[t].epoch \in Nat
              <8>1. written[t] \in Frames
                BY <1>5, <7>1, ElementOfSeq
              <8> QED BY <6>1, <8>1 DEF Frames
            <7> QED BY <6>2, <6>4, <7>2, <7>3 DEF EpochAt
          <6> QED BY <6>3, <6>4
        <5>4. Sound(t + 1)
          <6> HIDE DEF p, e
          <6> QED BY <5>1, <5>2, <5>3 DEF Sound
        <5> QED BY <2>4, <5>1, <5>4
      <4>4. t \in n..Len(written)
        BY <2>5, <4>1, <4>3
      <4> QED BY <1>5, <4>1, <4>4, FirstPrefix DEF p
    <3>7. ScanWell'
      BY <1>3, <3>1, <3>6 DEF ScanWell, EndsSet
    <3> QED BY <1>4, <3>3, <3>5, <3>7 DEF SegmentInv
  <2>8. CASE end.kind # "corrupt"
    <3>a. t = m
      BY <2>4, <2>5, <2>8
    <3>1. /\ scan' = [kind |-> "clean", valid_end |-> p, last_epoch |-> e] /\ scan' \in EndsSet
          /\ scan'.kind = "clean"
      BY <1>2, <2>4, <2>8 DEF EndsSet
    <3>2. file' = SubSeq(file, 1, p)
      <4>1. CASE end.kind = "torn_tail"
        BY <1>2, <2>4, <4>1
      <4>2. CASE end.kind = "clean"
        <5>1. file' = file /\ p = Len(file)
          BY <1>2, <2>4, <4>2
        <5> QED BY <1>5, <5>1, SubSeqFull
      <4> QED BY <2>4, <2>8, <4>1, <4>2 DEF EndsSet
    <3>3. file' \in Seq(Cells) /\ Len(file') = p /\ \A j \in 1..p : file'[j] = file[j]
      BY <1>5, <2>5, <3>2, SubSeqHead
    <3>4. /\ p <= Len(Layout(written)) /\ \A j \in 1..p : Layout(written)[j] = First(written, t)[j]
      <4>1. Len(written) \in t..Len(written)
        BY <1>5, <2>5
      <4> QED BY <1>5, <2>5, <4>1, FirstPrefix, FirstEnds DEF p
    <3>5. file' = First(written, t)
      <4>1. ASSUME NEW j \in 1..Len(file') PROVE file'[j] = First(written, t)[j]
        <5>1. j \in 1..p /\ j \in 1..Len(file) /\ j <= Len(Layout(written))
          <6>1. Len(Layout(written)) \in Nat
            BY <1>5, LayoutType
          <6> QED BY <1>5, <2>5, <3>3, <3>4, <6>1
        <5>2. file[j] = Layout(written)[j]
          BY <1>1, <5>1 DEF CellsWell
        <5> QED BY <3>3, <3>4, <5>1, <5>2
      <4>2. Len(file') = Len(First(written, t))
        BY <3>3 DEF p
      <4> QED BY <2>5, <3>3, <4>1, <4>2, SeqEqual
    <3>6. written' = SubSeq(written, 1, t)
      BY <1>3, <1>5, <2>5, <3>1, <3>5, KeptFirst
    <3>7. written' \in Seq(Frames) /\ Len(written') = t /\ \A i \in 1..t : written'[i] = written[i]
      BY <1>5, <2>5, <3>6, SubSeqHead
    <3>9. \A i \in 0..t : First(written', i) = First(written, i)
      <4> TAKE i \in 0..t
      <4>1. i \in Nat /\ i <= Len(written') /\ i <= Len(written) /\ \A x \in 1..i : x \in 1..t
        BY <1>5, <2>5, <3>7
      <4>2. \A x \in 1..i : written'[x] = written[x]
        BY <3>7, <4>1
      <4> QED BY <1>5, <3>7, <4>1, <4>2, FirstSame
    <3>10. WrittenWell'
      BY <3>7 DEF WrittenWell
    <3>11. Layout(written') = file'
      BY <3>5, <3>6 DEF First
    <3>12. CellsWell'
      <4>1. \A j \in 1..Len(file') : ~(j > Len(file'))
        BY <2>5, <3>3
      <4> QED BY <3>3, <3>11, <4>1 DEF CellsWell
    <3>13. PromisedWell'
      <4>1. durable' \in 0..Len(file') /\ Len(promised') <= durable'
        <5>1. Len(promised) <= p
          BY <1>5, <1>6, <1>7, <2>1, <3>a, RoomLeast DEF p
        <5> QED BY <1>8, <2>5, <3>3, <5>1
      <4>2. k \in 0..Len(written') /\ promised' = First(written', k)
        <5>1. k \in 0..t
          BY <1>5, <2>5, <2>6, <3>a
        <5> QED BY <1>3, <1>6, <3>7, <3>9, <5>1
      <4>3. promised' # <<>> => entry' = "durable" /\ head' \in {"durable", "other"}
        BY <1>1, <1>3 DEF PromisedWell
      <4> QED BY <4>1, <4>2, <4>3 DEF PromisedWell
    <3>14. SyncedReadable'
      <4> SUFFICES ASSUME NEW n \in 1..Len(written')
                   PROVE  Len(First(written', n)) <= p
        BY <3>1 DEF SyncedReadable, End, First
      <4>1. n \in 0..Len(written') /\ Len(written') \in n..Len(written')
        BY <2>5, <3>7
      <4>2. Len(First(written', n)) <= Len(First(written', Len(written')))
        BY <3>7, <4>1, FirstPrefix
      <4>3. First(written', Len(written')) = file'
        BY <3>7, <3>11, FirstEnds
      <4> QED BY <3>3, <4>2, <4>3
    <3>15. ScanWell'
      <4>1. scan' \in [kind : {"none", "clean", "torn_tail", "corrupt", "head_bad"},
                       valid_end : Nat, last_epoch : 0..MaxEpoch]
        BY <3>1 DEF EndsSet
      <4> QED BY <3>1, <3>11, <3>14, <4>1 DEF ScanWell
    <3> QED BY <1>4, <3>10, <3>12, <3>13, <3>15 DEF SegmentInv
  <2> QED BY <2>7, <2>8
<1> QED
  BY <1>9, <1>10

\* Every step keeps the invariant.
LEMMA StepKeeps == Handled /\ SegmentInv /\ [Next]_vars => SegmentInv'
<1> SUFFICES ASSUME Handled, SegmentInv, [Next]_vars PROVE SegmentInv'
  OBVIOUS
<1>1. CASE CreatOpen \/ CreatHead \/ CreatSync \/ CreatDir \/ CreatBroken
  BY <1>1, CreatKeeps
<1>2. ASSUME NEW f \in NextFrames, AppendFrame(f) PROVE SegmentInv'
  BY <1>2, AppendKeeps
<1>3. CASE Sysnc
  BY <1>3, SysncKeeps
<1>4. CASE Close
  BY <1>4, CloseKeeps
<1>5. CASE Crash
  BY <1>5, CrashKeeps
<1>6. CASE OpenAppend
  BY <1>6, OpenAppendKeeps
<1>7. CASE Recover
  BY <1>7, RecoverKeeps
<1>8. CASE UNCHANGED vars
  <2>1. WrittenWell' /\ CellsWell' /\ PromisedWell' /\ HandleWell'
    BY <1>8 DEF vars, SegmentInv, WrittenWell, CellsWell, PromisedWell, HandleWell
  <2>2. SyncedReadable'
    BY <1>8 DEF vars, SegmentInv, ScanWell, SyncedReadable, End, ByBytes, Rising
  <2>3. ScanWell'
    BY <1>8, <2>2 DEF vars, SegmentInv, ScanWell
  <2> QED BY <2>1, <2>3 DEF SegmentInv
<1> QED
  BY <1>1, <1>2, <1>3, <1>4, <1>5, <1>6, <1>7, <1>8 DEF Next

\* The invariant holds, whatever the caller appends, on a file system as it should be.
LEMMA AlwaysSegmentInv ==
  ASSUME Handled
  PROVE  Spec => []SegmentInv
<1>1. Init => SegmentInv
  BY InitSegment
<1>2. SegmentInv /\ [Next]_vars => SegmentInv'
  BY StepKeeps
<1> QED
  BY <1>1, <1>2, PTL DEF Spec

\* The scanner never stops before the end of what a sync has made durable, but at a frame
\* that has not the offset its place asks for, or an epoch below an earlier one, and at
\* the head if the base offset is 0.
THEOREM SyncedIsReadable ==
  ASSUME Handled
  PROVE  Spec => []SyncedReadable
<1>1. SegmentInv => SyncedReadable
  BY DEF SegmentInv, ScanWell
<1> QED
  BY <1>1, AlwaysSegmentInv, PTL

\* A frame whose append returned true is where a reader will look for it.
THEOREM WrittenIsReadable ==
  ASSUME Handled
  PROVE  Spec => []WrittenReadable
<1>1. SegmentInv => WrittenReadable
  <2> SUFFICES ASSUME SegmentInv, handle = "open" PROVE IsPrefix(Layout(written), file)
    BY DEF WrittenReadable
  <2>1. WrittenWell /\ CellsWell /\ HandleWell
    BY DEF SegmentInv
  <2>2. /\ file \in Seq(Cells) /\ Layout(written) \in Seq(Cells)
        /\ Len(file) \in Nat /\ Len(Layout(written)) \in Nat
    BY <2>1, LenProperties, LayoutType DEF WrittenWell, CellsWell
  <2>3. Len(Layout(written)) <= Len(file)
    BY <2>1 DEF HandleWell
  <2>4. ASSUME NEW j \in 1..Len(Layout(written)) PROVE Layout(written)[j] = file[j]
    <3>1. j \in 1..Len(file) /\ j <= Len(Layout(written))
      BY <2>2, <2>3
    <3> QED BY <2>1, <3>1 DEF CellsWell
  <2> QED BY <2>2, <2>3, <2>4, PrefixOf
<1> QED
  BY <1>1, AlwaysSegmentInv, PTL

\* What has been synced stays.
THEOREM SyncedStays ==
  ASSUME Handled
  PROVE  Spec => []SyncedSurvives
<1>1. SegmentInv => SyncedSurvives
  <2> SUFFICES ASSUME SegmentInv PROVE IsPrefix(promised, file)
    BY DEF SyncedSurvives
  <2>1. WrittenWell /\ CellsWell /\ PromisedWell
    BY DEF SegmentInv
  <2>2. PICK k \in 0..Len(written) : promised = First(written, k)
    BY <2>1 DEF PromisedWell
  <2>3. /\ file \in Seq(Cells) /\ promised \in Seq(Cells) /\ Len(file) \in Nat
        /\ Len(promised) \in Nat /\ Len(written) \in Nat /\ Len(Layout(written)) \in Nat
    BY <2>1, <2>2, LenProperties, FirstType, LayoutType DEF WrittenWell, CellsWell
  <2>4. Len(promised) <= Len(file)
    BY <2>1, <2>3 DEF PromisedWell
  <2>5. /\ Len(promised) <= Len(Layout(written))
        /\ \A j \in 1..Len(promised) : Layout(written)[j] = promised[j]
    <3>1. Len(written) \in k..Len(written)
      BY <2>3
    <3> QED BY <2>1, <2>2, <3>1, FirstPrefix, FirstEnds DEF WrittenWell
  <2>6. ASSUME NEW j \in 1..Len(promised) PROVE promised[j] = file[j]
    <3>1. j \in 1..Len(file) /\ j <= Len(Layout(written))
      BY <2>3, <2>4, <2>5
    <3> QED BY <2>1, <2>5, <3>1 DEF CellsWell
  <2> QED BY <2>3, <2>4, <2>6, PrefixOf
<1> QED
  BY <1>1, AlwaysSegmentInv, PTL

\* A recovered segment holds whole frames and nothing behind them.
THEOREM RecoveredIsWhole ==
  ASSUME Handled
  PROVE  Spec => RecoveredWhole
<1>1. SegmentInv /\ SegmentInv' /\ [Next]_vars
      => [scan.kind = "none" /\ scan'.kind = "clean" => file' = Layout(written')]_vars
  <2> SUFFICES ASSUME SegmentInv', Next, scan.kind = "none", scan'.kind = "clean"
               PROVE  file' = Layout(written')
    OBVIOUS
  <2>1. Recover
    <3>1. NotScanned.kind # "clean"
      BY DEF NotScanned
    <3> QED
      BY <3>1 DEF Next, CreatOpen, CreatHead, CreatSync, CreatDir, CreatBroken, frames,
                  AppendFrame, Sysnc, Close, Crash, OpenAppend
  <2>2. handle' = "closed"
    BY <2>1 DEF Recover
  <2> QED BY <2>2 DEF SegmentInv, ScanWell
<1> QED
  BY <1>1, AlwaysSegmentInv, PTL DEF Spec, RecoveredWhole

\* Different numbers of frames have different numbers of cells.
LEMMA FirstInjective ==
  ASSUME NEW s \in Seq(Frames), NEW i \in 0..Len(s), NEW k \in 0..Len(s), First(s, i) = First(s, k)
  PROVE  i = k
<1>0. Len(s) \in Nat /\ i \in Nat /\ k \in Nat /\ i <= Len(s) /\ k <= Len(s)
  BY LenProperties
<1>1. Len(First(s, i)) \in Nat
  BY FirstType
<1>2. ~(i < k)
  <2> SUFFICES ASSUME i < k PROVE FALSE
    OBVIOUS
  <2>1. k \in i..Len(s)
    BY <1>0
  <2>2. Len(First(s, i)) < Len(First(s, k))
    BY <2>1, FirstPrefix
  <2> QED BY <1>1, <2>2
<1>3. ~(k < i)
  <2> SUFFICES ASSUME k < i PROVE FALSE
    OBVIOUS
  <2>1. i \in k..Len(s)
    BY <1>0
  <2>2. Len(First(s, k)) < Len(First(s, i))
    BY <2>1, FirstPrefix
  <2> QED BY <1>1, <2>2
<1> QED
  BY <1>0, <1>2, <1>3

\* The number of frames that are promised, now and after a step.
Promises(s, p, k) == k \in 0..Len(s) /\ p = First(s, k)

\* The number promised is the length of what is promised.
LEMMA StableIs ==
  ASSUME NEW s \in Seq(Frames), NEW p, NEW k, Promises(s, p, k)
  PROVE  Len(KeptOf(s, p)) = k
<1>1. KeptOf(s, p) = SubSeq(s, 1, k)
  BY KeptOfFirst DEF Promises
<1>2. Len(SubSeq(s, 1, k)) = k
  BY SubSeqHead DEF Promises
<1> QED
  BY <1>1, <1>2

\* Whatever is left of the cells, the frames kept are the first ones.
LEMMA KeptCuts ==
  ASSUME NEW s \in Seq(Frames), NEW c \in Seq(Cells)
  PROVE  \E n \in 0..Len(s) : KeptOf(s, c) = SubSeq(s, 1, n)
<1> DEFINE D == {n \in 0..Len(s) : IsPrefix(Layout(SubSeq(s, 1, n)), c)}
<1>0. Len(s) \in Nat /\ Len(c) \in Nat
  BY LenProperties
<1>1. 0 \in D
  <2>1. First(s, 0) = <<>> /\ Len(First(s, 0)) = 0 /\ First(s, 0) \in Seq(Cells)
    BY FirstEnds, EmptySeq
  <2>2. IsPrefix(First(s, 0), c)
    BY <1>0, <2>1, PrefixOf
  <2> QED BY <1>0, <2>2 DEF First
<1>2. \E m \in D : \A y \in D : m >= y
  <2> DEFINE P(n) == \A E \in SUBSET (0..n) : E # {} => \E m \in E : \A y \in E : m >= y
             T == {n \in Nat : P(n)}
  <2>1. 0 \in T
    <3>1. \A E \in SUBSET (0..0) : E # {} => 0 \in E /\ \A y \in E : 0 >= y
      <4> SUFFICES ASSUME NEW E \in SUBSET (0..0), E # {} PROVE 0 \in E /\ \A y \in E : 0 >= y
        OBVIOUS
      <4>1. \A y \in E : y = 0
        OBVIOUS
      <4>2. 0 >= 0
        OBVIOUS
      <4> QED BY <4>1, <4>2
    <3> QED BY <3>1
  <2>2. ASSUME NEW n \in T PROVE n + 1 \in T
    <3>1. ASSUME NEW E \in SUBSET (0..(n + 1)), E # {}
          PROVE  \E m \in E : \A y \in E : m >= y
      <4>1. CASE n + 1 \in E
        <5>1. \A y \in E : n + 1 >= y
          BY <2>2
        <5> QED BY <4>1, <5>1
      <4>2. CASE n + 1 \notin E
        <5>1. E \in SUBSET (0..n)
          BY <2>2, <4>2
        <5> QED BY <2>2, <3>1, <5>1
      <4> QED BY <4>1, <4>2
    <3> QED BY <2>2, <3>1
  <2>3. T = Nat
    <3>1. T \in SUBSET Nat
      OBVIOUS
    <3> HIDE DEF T
    <3> QED BY <2>1, <2>2, <3>1, InductionOnNat
  <2>4. P(Len(s))
    <3> HIDE DEF P
    <3> QED BY <1>0, <2>3
  <2>5. D \in SUBSET (0..Len(s)) /\ D # {}
    BY <1>1
  <2> HIDE DEF D
  <2> QED BY <2>4, <2>5
<1>3. Max(D) \in D
  BY <1>2, Zenon DEF Max
<1> QED
  BY <1>3, Zenon DEF KeptOf

\* A segment is a DurableLog: whatever fails, frames are added at the end, a recovery
\* takes them from the end only, and never one that a sync has covered.
THEOREM SegmentImplements ==
  ASSUME Handled
  PROVE  Spec => ImplementsDurableLog
<1> DEFINE stable == Len(Kept(promised))
<1>1. Init => Log!Init
  <2> SUFFICES ASSUME Init PROVE Log!Init
    OBVIOUS
  <2>1. written = <<>> /\ promised = <<>> /\ Len(<<>>) = 0 /\ <<>> \in Seq(Frames)
    BY EmptySeq DEF Init
  <2>2. Promises(<<>>, <<>>, 0)
    <3>0. 0 \in 0..0
      OBVIOUS
    <3>1. First(<<>>, 0) = <<>> /\ 0 \in 0..0
      BY <2>1, <3>0, FirstEnds, Zenon
    <3> QED BY <2>1, <3>1 DEF Promises
  <2>3. Len(KeptOf(written, promised)) = 0
    BY <2>1, <2>2, StableIs
  <2>4. Len(Kept(promised)) = 0
    BY <2>3 DEF Kept, KeptOf
  <2> QED BY <2>1, <2>4 DEF Log!Init
<1>2. SegmentInv /\ SegmentInv' /\ [Next]_vars
      => [Log!Add \/ Log!Sync \/ Log!Lose]_<<written, stable>>
  <2> SUFFICES ASSUME SegmentInv, SegmentInv', Next
               PROVE  [Log!Add \/ Log!Sync \/ Log!Lose]_<<written, stable>>
    BY DEF vars, Kept
  <2>1. /\ written \in Seq(Frames) /\ written' \in Seq(Frames) /\ file' \in Seq(Cells)
        /\ Len(written) \in Nat /\ Len(written') \in Nat
    BY LenProperties DEF SegmentInv, WrittenWell, CellsWell
  <2>2. PICK k : Promises(written, promised, k)
    BY DEF SegmentInv, PromisedWell, Promises
  <2>3. PICK l : Promises(written', promised', l)
    BY DEF SegmentInv, PromisedWell, Promises
  <2>4. stable = k /\ stable' = l
    <3>1. Len(KeptOf(written, promised)) = k /\ Len(KeptOf(written', promised')) = l
      BY <2>1, <2>2, <2>3, StableIs
    <3> QED BY <3>1 DEF Kept, KeptOf
  <2>5. k \in Nat /\ k <= Len(written) /\ l \in Nat /\ l <= Len(written')
    BY <2>1, <2>2, <2>3 DEF Promises
  <2> HIDE DEF stable
  <2>6. ASSUME promised' = promised, Len(written) <= Len(written'),
               \A i \in 1..Len(written) : written'[i] = written[i]
        PROVE  l = k
    <3>1. First(written', k) = First(written, k)
      <4>1. k <= Len(written') /\ \A i \in 1..k : i \in 1..Len(written)
        BY <2>1, <2>5, <2>6
      <4> QED BY <2>1, <2>5, <2>6, <4>1, FirstSame
    <3>2. k \in 0..Len(written') /\ l \in 0..Len(written') /\ First(written', l) = First(written', k)
      BY <2>1, <2>2, <2>3, <2>5, <2>6, <3>1 DEF Promises
    <3> QED BY <2>1, <3>2, FirstInjective
  <2>7. ASSUME promised' = promised, written' = written
        PROVE  stable' = stable /\ written' = written
    <3>1. Len(written) <= Len(written')
      BY <2>1, <2>7
    <3> QED BY <2>4, <2>6, <2>7, <3>1
  <2>8. ASSUME promised' = promised, NEW n \in 0..Len(written), written' = SubSeq(written, 1, n)
        PROVE  stable' = stable /\ n \in stable..Len(written)
    <3>1. Len(written') = n /\ \A i \in 1..n : written'[i] = written[i]
      BY <2>1, <2>8, SubSeqHead
    <3>2. First(written', l) = First(written, l)
      <4>1. l <= Len(written) /\ \A i \in 1..l : i \in 1..n
        BY <2>1, <2>5, <3>1
      <4> QED BY <2>1, <2>5, <3>1, <4>1, FirstSame
    <3>3. l \in 0..Len(written) /\ k \in 0..Len(written) /\ First(written, l) = First(written, k)
      <4>1. First(written, k) = promised /\ First(written', l) = promised'
        BY <2>2, <2>3 DEF Promises
      <4>2. l \in 0..Len(written) /\ k \in 0..Len(written)
        BY <2>1, <2>5, <3>1
      <4> QED BY <2>8, <3>2, <4>1, <4>2
    <3>4. l = k
      BY <2>1, <3>3, FirstInjective
    <3> QED BY <2>1, <2>4, <2>5, <3>1, <3>4
  <2>9. CASE CreatOpen
    <3>1. promised' = promised /\ written' = <<>> /\ 0 \in 0..Len(written)
      BY <2>1, <2>9 DEF CreatOpen
    <3>2. written' = SubSeq(written, 1, 0)
      BY <3>1, SubSeqEmpty
    <3> QED BY <2>8, <3>1, <3>2 DEF Log!Lose, stable
  <2>10. CASE CreatHead \/ CreatSync \/ CreatDir \/ CreatBroken \/ Close \/ Crash \/ OpenAppend
    <3>1. promised' = promised /\ written' = written
      BY <2>10 DEF CreatHead, CreatSync, CreatDir, CreatBroken, frames, Close, Crash, OpenAppend
    <3> QED BY <2>7, <3>1
  <2>11. CASE handle = "open" /\ \E f \in NextFrames : AppendFrame(f)
    <3>1. PICK f \in NextFrames : AppendFrame(f)
      BY <2>11
    <3>2. promised' = promised /\ (written' = Append(written, f) \/ written' = written)
      BY <3>1 DEF AppendFrame
    <3>3. f \in Frames
      <4>1. offset \in Nat /\ written \in Seq(Frames)
        BY DEF SegmentInv, HandleWell, WrittenWell
      <4> QED BY <4>1, NextFrameType
    <3>4. CASE written' = written
      BY <2>7, <3>2, <3>4
    <3>5. CASE written' = Append(written, f)
      <4>1. /\ Len(written') = Len(written) + 1 /\ written' # <<>>
            /\ \A i \in 1..Len(written) : written'[i] = written[i]
        BY <2>1, <3>3, <3>5, AppendProperties
      <4>2. Len(written') - 1 = Len(written) /\ Len(written) <= Len(written')
            /\ Len(written) \in 0..Len(written')
        BY <2>1, <4>1
      <4> DEFINE front == SubSeq(written', 1, Len(written))
      <4>3. /\ front \in Seq(Frames) /\ Len(front) = Len(written)
            /\ \A i \in 1..Len(written) : front[i] = written'[i]
        BY <2>1, <4>2, SubSeqHead
      <4> HIDE DEF front
      <4>4. written = front
        BY <2>1, <4>1, <4>3, SeqEqual
      <4>5. stable' = stable
        BY <2>4, <2>6, <3>2, <4>1, <4>2
      <4> QED
        BY <2>1, <4>1, <4>2, <4>4, <4>5 DEF Log!Add, front, stable
    <3> QED BY <3>2, <3>4, <3>5
  <2>12. CASE Sysnc
    <3>1. written' = written
      BY <2>12 DEF Sysnc
    <3>2. CASE entry = "durable"
      <4>1. promised' = First(written', Len(written'))
        BY <2>1, <2>12, <3>1, <3>2, FirstEnds DEF Sysnc
      <4>2. Len(written') \in 0..Len(written')
        BY <2>1
      <4>3. l = Len(written')
        BY <2>1, <2>3, <4>1, <4>2, FirstInjective DEF Promises
      <4> QED BY <2>4, <3>1, <4>3 DEF Log!Sync, stable
    <3>3. CASE entry # "durable"
      <4>1. promised' = promised
        BY <2>12, <3>3 DEF Sysnc
      <4> QED BY <2>7, <3>1, <4>1
    <3> QED BY <3>2, <3>3
  <2>13. CASE Recover
    <3>1. promised' = promised /\ written' = IF scan'.kind = "clean" THEN Kept(file') ELSE written
      BY <2>13 DEF Recover
    <3>2. CASE scan'.kind # "clean"
      BY <2>7, <3>1, <3>2
    <3>3. CASE scan'.kind = "clean"
      <4>1. written' = KeptOf(written, file')
        BY <3>1, <3>3 DEF Kept, KeptOf
      <4>2. PICK n \in 0..Len(written) : written' = SubSeq(written, 1, n)
        BY <2>1, <4>1, KeptCuts
      <4> QED BY <2>8, <3>1, <4>2 DEF Log!Lose, stable
    <3> QED BY <3>2, <3>3
  <2> QED
    BY <2>9, <2>10, <2>11, <2>12, <2>13 DEF Next
<1> QED
  BY <1>1, <1>2, AlwaysSegmentInv, PTL DEF Spec, ImplementsDurableLog, Log!Spec

-----------------------------------------------------------------------------
(* The anchors of a scan: a fold over the frames, one after the other.     *)

\* The greatest of a set of places.
LEMMA MaxOf ==
  ASSUME NEW n \in Nat, NEW D \in SUBSET (1..n), D # {}
  PROVE  Max(D) \in D /\ \A y \in D : Max(D) >= y
<1> DEFINE P(k) == \A E \in SUBSET (1..k) : E # {} => \E m \in E : \A y \in E : m >= y
           T == {k \in Nat : P(k)}
<1>1. 0 \in T
  BY 1..0 = {}
<1>2. ASSUME NEW k \in T PROVE k + 1 \in T
  <2>1. ASSUME NEW E \in SUBSET (1..(k + 1)), E # {}
        PROVE  \E m \in E : \A y \in E : m >= y
    <3>1. CASE k + 1 \in E
      <4>1. \A y \in E : k + 1 >= y
        BY <1>2
      <4> QED BY <3>1, <4>1
    <3>2. CASE k + 1 \notin E
      <4>1. E \in SUBSET (1..k)
        BY <1>2, <3>2
      <4> QED BY <1>2, <2>1, <4>1
    <3> QED BY <3>1, <3>2
  <2> QED BY <1>2, <2>1
<1>3. T \in SUBSET Nat
  OBVIOUS
<1>4. n \in T
  <2> HIDE DEF T
  <2>1. T = Nat
    BY <1>1, <1>2, <1>3, InductionOnNat
  <2> QED BY <2>1
<1>5. \E m \in D : \A y \in D : m >= y
  BY <1>4
<1> QED
  BY <1>5, Zenon DEF Max

\* What a uint64_t may have been made of.
Vals == Nat \cup {ToWord(x) : x \in Int}

\* The locals of segment_scanner that the index comes from.
ScanStates == [here : Nat, times : Nat, byteSince : Nat, idx : Seq(Vals)]

\* The locals before the first frame.
Start(b) == [here |-> b, times |-> 0, byteSince |-> 0, idx |-> <<>>]

\* The definition of the fold, of the last place of D.
ScanTurn(f, iv, b, s, D) ==
    IF D = {} THEN Start(b) ELSE ScanFrame(iv, f[D \ {Max(D)}], s[Max(D)])

\* f has the locals for every set of frames.
IsIdxFold(f, iv, b, s) == f = [D \in SUBSET DOMAIN s |-> ScanTurn(f, iv, b, s, D)]

\* There is such an f.
IdxFoldExists(iv, b, s) == \E f : IsIdxFold(f, iv, b, s)

\* g is such an f, and the anchors are what it has for all frames.
IdxFoldGives(iv, b, s, g) == Anchors(iv, b, s) = g[DOMAIN s].idx /\ IsIdxFold(g, iv, b, s)

\* If there is such an f, the anchors are computed by one.
LEMMA IdxFoldDef ==
  ASSUME NEW iv, NEW b, NEW s, IdxFoldExists(iv, b, s)
  PROVE  \E g : IdxFoldGives(iv, b, s, g)
<1>1. \E f : f = [D \in SUBSET DOMAIN s |-> ScanTurn(f, iv, b, s, D)]
  BY DEF IdxFoldExists, IsIdxFold
<1> DEFINE g == CHOOSE g : g = [D \in SUBSET DOMAIN s |-> ScanTurn(g, iv, b, s, D)]
<1>2. g = [D \in SUBSET DOMAIN s |-> ScanTurn(g, iv, b, s, D)]
  BY <1>1, Zenon
<1>3. Anchors(iv, b, s) = g[DOMAIN s].idx
  BY Zenon DEF FoldLeft, MapThenFoldSet, ScanTurn, Anchors, Start
<1> QED
  BY <1>2, <1>3 DEF IdxFoldGives, IsIdxFold


\* One more frame leaves locals that are well-typed.
LEMMA ScanFrameType ==
  ASSUME NEW iv \in Nat, NEW st \in ScanStates, NEW size \in Nat
  PROVE  ScanFrame(iv, st, size) \in ScanStates
<1>1. st.here + size \in Nat /\ st.times + 1 \in Nat /\ st.byteSince + size \in Nat
  BY DEF ScanStates
<1>2. CASE Due(iv, st, size)
  <2>1. Append(st.idx, ToWord(st.here)) \in Seq(Vals)
    BY AppendProperties DEF ScanStates, Vals
  <2> QED BY <1>1, <1>2, <2>1 DEF ScanFrame, ScanStates
<1>3. CASE ~Due(iv, st, size)
  BY <1>1, <1>3 DEF ScanFrame, ScanStates
<1> QED BY <1>2, <1>3

\* They are well-typed.
LEMMA StartType == \A b \in Nat : Start(b) \in ScanStates
<1>1. <<>> \in Seq(Vals)
  BY EmptySeq
<1> QED BY <1>1 DEF Start, ScanStates

\* There is such an f: it settles on the places up to k after k steps.
LEMMA IdxFoldFixpoint ==
  ASSUME NEW iv \in Nat, NEW b \in Nat, NEW s \in Seq(Nat)
  PROVE  IdxFoldExists(iv, b, s)
<1> DEFINE n == Len(s)
           S == SUBSET (1..n)
           V == [S -> ScanStates]
           v0 == [D \in S |-> Start(b)]
           step == [k \in Nat |-> [g \in V |-> [D \in S |->
                       IF k + 1 \in D THEN ScanFrame(iv, g[D \ {k + 1}], s[k + 1]) ELSE g[D]]]]
<1>0. n \in Nat /\ DOMAIN s = 1..n /\ \A i \in 1..n : s[i] \in Nat
  BY LenProperties, ElementOfSeq
<1>1. v0 \in V
  BY StartType
<1>2. step \in [Nat -> [V -> V]]
  <2>1. ASSUME NEW k \in Nat, NEW g \in V, NEW D \in S
        PROVE  (IF k + 1 \in D THEN ScanFrame(iv, g[D \ {k + 1}], s[k + 1]) ELSE g[D]) \in ScanStates
    <3>1. CASE k + 1 \in D
      <4>1. D \ {k + 1} \in S /\ k + 1 \in 1..n
        BY <3>1
      <4>2. g[D \ {k + 1}] \in ScanStates /\ s[k + 1] \in Nat
        BY <1>0, <4>1
      <4> QED BY <3>1, <4>2, ScanFrameType
    <3> QED BY <3>1
  <2> HIDE DEF S
  <2> QED BY <2>1
<1>3. PICK G \in [Nat -> V] : G[0] = v0 /\ \A k \in Nat : G[k + 1] = step[k][G[k]]
  <2> HIDE DEF V, v0, step, S, n
  <2>1. PICK A \in [Nat -> V] : Iterates(A, v0, step)
    BY <1>1, <1>2, Recursion
  <2> QED BY <2>1 DEF Iterates
<1>4. \A k \in Nat : \A D \in S :
         G[k + 1][D] = IF k + 1 \in D THEN ScanFrame(iv, G[k][D \ {k + 1}], s[k + 1]) ELSE G[k][D]
  <2> TAKE k \in Nat
  <2>1. G[k] \in V /\ G[k + 1] = step[k][G[k]]
    BY <1>3
  <2> HIDE DEF S
  <2> QED BY <2>1
<1> HIDE DEF S
<1>5. \A j, k \in Nat : \A D \in S : D \subseteq 1..j => G[j + k][D] = G[j][D]
  <2> TAKE j \in Nat
  <2> DEFINE T == {k \in Nat : \A D \in S : D \subseteq 1..j => G[j + k][D] = G[j][D]}
  <2>1. 0 \in T
    OBVIOUS
  <2>2. ASSUME NEW k \in T PROVE k + 1 \in T
    <3>1. k \in Nat /\ j + k \in Nat /\ j + (k + 1) = (j + k) + 1
      BY <2>2
    <3>2. ASSUME NEW D \in S, D \subseteq 1..j PROVE G[j + (k + 1)][D] = G[j][D]
      <4>1. (j + k) + 1 \notin D
        BY <3>1, <3>2
      <4>2. G[(j + k) + 1][D] = G[j + k][D]
        BY <1>4, <3>1, <4>1
      <4>3. G[j + k][D] = G[j][D]
        BY <2>2, <3>2
      <4> QED BY <3>1, <4>2, <4>3
    <3> QED BY <3>1, <3>2
  <2>3. T \in SUBSET Nat
    OBVIOUS
  <2>4. T = Nat
    <3> HIDE DEF T
    <3> QED BY <2>1, <2>2, <2>3, InductionOnNat
  <2> QED BY <2>4
<1> DEFINE F == [D \in S |-> G[n][D]]
<1>6. ASSUME NEW D \in S PROVE F[D] = ScanTurn(F, iv, b, s, D)
  <2>1. CASE D = {}
    <3>1. G[0 + n][D] = G[0][D]
      BY <1>0, <1>5, <2>1
    <3>2. G[0][D] = Start(b)
      BY <1>3
    <3>3. 0 + n = n
      BY <1>0
    <3> QED BY <2>1, <3>1, <3>2, <3>3 DEF ScanTurn
  <2>2. CASE D # {}
    <3> DEFINE m == Max(D)
    <3>1. m \in D /\ \A y \in D : m >= y
      BY <1>0, <2>2, MaxOf DEF S
    <3> HIDE DEF m
    <3>2. m \in 1..n /\ m - 1 \in Nat /\ (m - 1) + 1 = m /\ n - m \in Nat /\ m + (n - m) = n
          /\ n - (m - 1) \in Nat /\ (m - 1) + (n - (m - 1)) = n /\ m \in Nat
      BY <1>0, <3>1 DEF S
    <3>3. D \subseteq 1..m /\ D \ {m} \subseteq 1..(m - 1) /\ D \ {m} \in S
      BY <3>1, <3>2 DEF S
    <3> HIDE DEF n, F
    <3>4. G[n][D] = G[m][D]
      <4>1. G[m + (n - m)][D] = G[m][D]
        BY <1>5, <3>2, <3>3
      <4> QED BY <3>2, <4>1
    <3>5. G[m][D] = ScanFrame(iv, G[m - 1][D \ {m}], s[m])
      <4>1. G[(m - 1) + 1][D] = ScanFrame(iv, G[m - 1][D \ {(m - 1) + 1}], s[(m - 1) + 1])
        <5>1. (m - 1) + 1 \in D
          BY <3>1, <3>2
        <5> QED BY <1>4, <3>2, <5>1
      <4> QED BY <3>2, <4>1
    <3>6. G[n][D \ {m}] = G[m - 1][D \ {m}]
      <4>1. G[(m - 1) + (n - (m - 1))][D \ {m}] = G[m - 1][D \ {m}]
        BY <1>5, <3>2, <3>3
      <4> QED BY <3>2, <4>1
    <3>7. F[D] = ScanFrame(iv, F[D \ {m}], s[m])
      BY <3>3, <3>4, <3>5, <3>6 DEF F
    <3> QED BY <2>2, <3>7 DEF ScanTurn, m
  <2> QED BY <2>1, <2>2
<1>7. F = [D \in S |-> ScanTurn(F, iv, b, s, D)]
  BY <1>6
<1>8. S = SUBSET DOMAIN s
  BY <1>0 DEF S
<1> HIDE DEF F
<1> QED BY <1>7, <1>8, Zenon DEF IdxFoldExists, IsIdxFold

\* The locals of the scan after each number of frames.
ScanSteps(A, iv, b, s) ==
    /\ A \in [0..Len(s) -> ScanStates]
    /\ A[0] = Start(b)
    /\ \A j \in 1..Len(s) : A[j] = ScanFrame(iv, A[j - 1], s[j])
    /\ Anchors(iv, b, s) = A[Len(s)].idx

\* The frames are scanned one after the other.
LEMMA ScanInOrder ==
  ASSUME NEW iv \in Nat, NEW b \in Nat, NEW s \in Seq(Nat)
  PROVE  \E A : ScanSteps(A, iv, b, s)
<1>0. PICK g : IdxFoldGives(iv, b, s, g)
  BY IdxFoldFixpoint, IdxFoldDef
<1>1. /\ Anchors(iv, b, s) = g[DOMAIN s].idx
      /\ g = [D \in SUBSET DOMAIN s |-> ScanTurn(g, iv, b, s, D)]
  BY <1>0 DEF IdxFoldGives, IsIdxFold
<1>2. Len(s) \in Nat /\ DOMAIN s = 1..Len(s) /\ \A i \in 1..Len(s) : s[i] \in Nat
  BY LenProperties, ElementOfSeq
<1> DEFINE A == [j \in 0..Len(s) |-> g[1..j]]
<1>3. \A D \in SUBSET (1..Len(s)) : g[D] = ScanTurn(g, iv, b, s, D)
  BY <1>1, <1>2
<1>4. A[0] = Start(b)
  <2>1. 1..0 = {} /\ 0 \in 0..Len(s)
    BY <1>2
  <2>2. g[{}] = Start(b)
    BY <1>3 DEF ScanTurn
  <2> QED BY <2>1, <2>2
<1>5. ASSUME NEW j \in 1..Len(s) PROVE A[j] = ScanFrame(iv, A[j - 1], s[j])
  <2>1. 1..j \in SUBSET (1..Len(s)) /\ j \in 1..j /\ j \in Nat
    BY <1>2
  <2>2. Max(1..j) \in 1..j /\ \A y \in 1..j : Max(1..j) >= y
    BY <2>1, 1..j # {}, 1..j \in SUBSET (1..j), MaxOf
  <2>3. Max(1..j) = j
    BY <2>1, <2>2
  <2>4. (1..j) \ {j} = 1..(j - 1) /\ j - 1 \in 0..Len(s) /\ j \in 0..Len(s)
    BY <1>2
  <2>5. g[1..j] = ScanFrame(iv, g[1..(j - 1)], s[j])
    BY <1>3, <2>1, <2>3, <2>4 DEF ScanTurn
  <2> QED BY <2>4, <2>5
<1>6. A \in [0..Len(s) -> ScanStates]
  <2> DEFINE T == {j \in Nat : j <= Len(s) => A[j] \in ScanStates}
  <2> HIDE DEF A
  <2>1. 0 \in T
    BY <1>4, StartType
  <2>2. ASSUME NEW j \in T PROVE j + 1 \in T
    <3>1. CASE j + 1 <= Len(s)
      <4>1. j + 1 \in 1..Len(s) /\ (j + 1) - 1 = j /\ A[j] \in ScanStates
        BY <1>2, <2>2, <3>1
      <4>2. A[j + 1] = ScanFrame(iv, A[j], s[j + 1])
        BY <1>5, <4>1
      <4>3. ScanFrame(iv, A[j], s[j + 1]) \in ScanStates
        BY <4>1, <1>2, ScanFrameType
      <4> QED BY <2>2, <4>2, <4>3
    <3> QED BY <3>1, <2>2
  <2>3. T \in SUBSET Nat
    OBVIOUS
  <2>4. T = Nat
    <3> HIDE DEF T
    <3> QED BY <2>1, <2>2, <2>3, InductionOnNat
  <2>5. \A j \in 0..Len(s) : A[j] \in ScanStates
    BY <2>4, <1>2
  <2> QED BY <2>5 DEF A
<1>7. Anchors(iv, b, s) = A[Len(s)].idx
  BY <1>1, <1>2
<1> HIDE DEF A
<1>8. ScanSteps(A, iv, b, s)
  BY <1>4, <1>5, <1>6, <1>7 DEF ScanSteps
<1> QED
  BY <1>8

\* n + 1 edges of frames.
EdgesOf(E, N) ==
    /\ E \in [1..(N + 1) -> Nat]
    /\ \A i, j \in 1..(N + 1) : i < j => E[i] < E[j]

\* Anchors are edges of the first m frames, in order.
AnchorsAt(E, idx, m) ==
    /\ \A a \in 1..Len(idx) : \E k \in 1..m : idx[a] = E[k]
    /\ \A a, b \in 1..Len(idx) : a < b => idx[a] < idx[b]

\* Up to edge n frames without an anchor are few.
DenseTo(E, iv, idx, n) ==
    \A i, j \in 1..n :
        i < j /\ (\A k \in i..(j - 1), a \in 1..Len(idx) : idx[a] # E[k])
        => j - i < iv /\ E[j] - E[i] < Stride

\* Edge k has an anchor.
HasAnchor(E, idx, k) == \E a \in 1..Len(idx) : idx[a] = E[k]

\* The locals of the scan behind n frames.
ScannedWell(E, iv, n, st) ==
    /\ st \in ScanStates
    /\ st.here = E[n + 1]
    /\ st.times \in 0..n /\ st.times < iv
    /\ st.byteSince = E[n + 1] - E[n + 1 - st.times]
    /\ st.times > 0 => st.byteSince < Stride
    /\ AnchorsAt(E, st.idx, n - st.times)
    /\ st.times < n => HasAnchor(E, st.idx, n - st.times)
    /\ DenseTo(E, iv, st.idx, n + 1)

\* At the beginning.
LEMMA StartWell ==
  ASSUME NEW N \in Nat, NEW E, EdgesOf(E, N), NEW iv \in Nat \ {0}
  PROVE  ScannedWell(E, iv, 0, Start(E[1]))
<1> DEFINE st == Start(E[1])
<1>1. E[1] \in Nat
  BY DEF EdgesOf
<1>2. /\ st \in ScanStates /\ st.here = E[1] /\ st.times = 0 /\ st.byteSince = 0 /\ st.idx = <<>>
  BY <1>1, StartType DEF Start
<1> HIDE DEF st
<1>3. Len(st.idx) = 0
  BY <1>2
<1>4. AnchorsAt(E, st.idx, 0 - st.times)
  BY <1>3 DEF AnchorsAt
<1>5. DenseTo(E, iv, st.idx, 0 + 1)
  BY DEF DenseTo
<1>6. st.times \in 0..0 /\ st.times < iv /\ ~(st.times > 0) /\ ~(st.times < 0)
  BY <1>2
<1>7. 0 + 1 = 1 /\ 0 + 1 - st.times = 1 /\ E[1] - E[1] = 0
  BY <1>1, <1>2
<1>8. st.byteSince = E[0 + 1] - E[0 + 1 - st.times]
  BY <1>2, <1>7
<1> QED
  BY <1>2, <1>4, <1>5, <1>6, <1>7, <1>8 DEF ScannedWell, st

\* A number is a multiple of itself.
LEMMA ModSelf == \A x \in Nat \ {0} : x % x = 0
  OBVIOUS

\* Where no anchor has come for a while, one more frame without one is not too many.
LEMMA NotDueWell ==
  ASSUME NEW N \in Nat, NEW E, EdgesOf(E, N), NEW iv \in Nat \ {0}, NEW n \in Nat, n < N,
         NEW st, ScannedWell(E, iv, n, st), NEW size, size = E[n + 2] - E[n + 1],
         ~Due(iv, st, size)
  PROVE  ScannedWell(E, iv, n + 1, ScanFrame(iv, st, size))
<1> DEFINE r == ScanFrame(iv, st, size)
           t == st.times
<1>1. /\ E[n + 1] \in Nat /\ E[n + 2] \in Nat /\ E[n + 1] < E[n + 2] /\ E[n + 1 - t] \in Nat
      /\ t \in 0..n /\ n + 1 - t \in 1..(N + 1) /\ size \in Nat
  <2>1. t \in 0..n /\ n + 1 \in 1..(N + 1) /\ n + 2 \in 1..(N + 1) /\ n + 1 < n + 2
    BY DEF ScannedWell
  <2>2. n + 1 - t \in 1..(N + 1)
    <3> HIDE DEF t
    <3> QED BY <2>1
  <2> HIDE DEF t
  <2>3. E[n + 1] \in Nat /\ E[n + 2] \in Nat /\ E[n + 1] < E[n + 2] /\ E[n + 1 - t] \in Nat
    BY <2>1, <2>2 DEF EdgesOf
  <2> QED BY <2>1, <2>2, <2>3
<1>2. /\ st \in ScanStates /\ st.here = E[n + 1] /\ st.byteSince = E[n + 1] - E[n + 1 - t]
      /\ AnchorsAt(E, st.idx, n - t) /\ DenseTo(E, iv, st.idx, n + 1)
      /\ t < iv
      /\ t < n => HasAnchor(E, st.idx, n - t)
  BY DEF ScannedWell
<1>3. (t + 1) % iv # 0 /\ ~(st.byteSince + size >= Stride)
  BY DEF Due
<1>4. r \in ScanStates
  BY <1>1, <1>2, ScanFrameType
<1>5. r.here = st.here + size /\ r.times = t + 1 /\ r.byteSince = st.byteSince + size /\ r.idx = st.idx
  <2>1. r = [st EXCEPT !.here = @ + size, !.times = @ + 1, !.byteSince = @ + size]
    BY DEF ScanFrame
  <2> HIDE DEF r
  <2> QED BY <1>2, <2>1 DEF ScanStates
<1> HIDE DEF r
<1>6. t + 1 < iv /\ t + 1 \in 0..(n + 1)
  <2>1. t < iv
    BY DEF ScannedWell
  <2>2. t + 1 # iv
    BY <1>3, ModSelf
  <2> HIDE DEF t
  <2> QED BY <1>1, <2>1, <2>2
<1> HIDE DEF t
<1>7. r.here = E[n + 1 + 1]
  <2>1. \A x, y \in Nat : x + (y - x) = y
    OBVIOUS
  <2>2. n + 1 + 1 = n + 2
    OBVIOUS
  <2>3. r.here = E[n + 1] + (E[n + 2] - E[n + 1])
    BY <1>2, <1>5
  <2>4. E[n + 1] + (E[n + 2] - E[n + 1]) = E[n + 2]
    BY <1>1, <2>1
  <2> QED BY <2>2, <2>3, <2>4
<1>8. r.byteSince = E[n + 2] - E[n + 1 - t] /\ r.byteSince < Stride
  <2>1. \A x, y, z \in Nat : (y - x) + (z - y) = z - x
    OBVIOUS
  <2>2. st.byteSince + size = E[n + 2] - E[n + 1 - t]
    <3>1. st.byteSince + size = (E[n + 1] - E[n + 1 - t]) + (E[n + 2] - E[n + 1])
      BY <1>2
    <3> QED BY <1>1, <2>1, <3>1
  <2>3. st.byteSince + size \in Nat
    <3>1. st.byteSince \in Nat
      BY <1>2 DEF ScanStates
    <3>2. \A x, y \in Nat : x + y \in Nat
      OBVIOUS
    <3> QED BY <1>1, <3>1, <3>2, Zenon
  <2>4. \A x \in Nat : ~(x >= Stride) => x < Stride
    BY WidthsAssumption
  <2>5. r.byteSince < Stride
    BY <1>3, <1>5, <2>3, <2>4, Zenon
  <2> QED BY <1>5, <2>2, <2>5, Zenon
<1>9. DenseTo(E, iv, st.idx, n + 1 + 1)
  <2> SUFFICES ASSUME NEW i \in 1..(n + 2), NEW j \in 1..(n + 2), i < j,
                      \A k \in i..(j - 1), a \in 1..Len(st.idx) : st.idx[a] # E[k]
               PROVE  j - i < iv /\ E[j] - E[i] < Stride
    <3>1. n + 1 + 1 = n + 2
      OBVIOUS
    <3> QED BY <3>1, Zenon DEF DenseTo
  <2>1. CASE j <= n + 1
    <3>1. i \in 1..(n + 1) /\ j \in 1..(n + 1)
      BY <2>1
    <3> QED BY <1>2, <3>1, Zenon DEF DenseTo
  <2>2. CASE ~(j <= n + 1)
    <3>1. j = n + 2 /\ i \in 1..(n + 1)
      BY <2>2
    <3>2. i >= n + 1 - t
      <4>1. CASE t < n
        <5> HasAnchor(E, st.idx, n - t)
          BY <1>2, <4>1
        <5>1. PICK a \in 1..Len(st.idx) : st.idx[a] = E[n - t]
          BY DEF HasAnchor
        <5>2. ~(n - t \in i..(j - 1))
          BY <5>1, Zenon
        <5> QED BY <1>1, <3>1, <4>1, <5>2
      <4>2. CASE ~(t < n)
        BY <1>1, <3>1, <4>2
      <4> QED BY <4>1, <4>2
    <3>3. E[n + 1 - t] <= E[i] /\ E[i] \in Nat
      <4>1. i \in 1..(N + 1)
        BY <3>1
      <4>2. E[i] \in Nat
        BY <4>1 DEF EdgesOf
      <4>3. n + 1 - t < i => E[n + 1 - t] < E[i]
        BY <1>1, <4>1 DEF EdgesOf
      <4>4. n + 1 - t = i => E[n + 1 - t] = E[i]
        OBVIOUS
      <4>5. n + 1 - t < i \/ n + 1 - t = i
        <5>1. \A x, y \in Int : y >= x => x < y \/ x = y
          OBVIOUS
        <5>2. n + 1 - t \in Int /\ i \in Int
          BY <1>1, <3>1
        <5> QED BY <3>2, <5>1, <5>2
      <4>6. \A x, y \in Nat : x < y \/ x = y => x <= y
        OBVIOUS
      <4> QED BY <1>1, <4>2, <4>3, <4>4, <4>5, <4>6, Zenon
    <3>4. j - i < iv
      BY <1>1, <1>6, <3>1, <3>2
    <3>5. E[j] - E[i] < Stride
      BY <1>1, <1>8, <3>1, <3>3, WidthsAssumption, SMTT(30)
    <3> QED BY <3>4, <3>5
  <2> QED BY <2>1, <2>2
<1>10. n + 1 + 1 = n + 2 /\ n + 1 + 1 - (t + 1) = n + 1 - t /\ (n + 1) - (t + 1) = n - t
       /\ (t + 1 < n + 1 <=> t < n)
  BY <1>1
<1>11. t < n => HasAnchor(E, st.idx, n - t)
  BY DEF ScannedWell, t
<1>12. /\ r.times \in 0..(n + 1) /\ r.times < iv
       /\ r.byteSince = E[n + 1 + 1] - E[n + 1 + 1 - r.times]
       /\ r.times > 0 => r.byteSince < Stride
       /\ AnchorsAt(E, r.idx, (n + 1) - r.times)
       /\ DenseTo(E, iv, r.idx, n + 1 + 1)
  BY <1>2, <1>5, <1>6, <1>8, <1>9, <1>10, Zenon
<1>13. r.times < n + 1 => HasAnchor(E, r.idx, (n + 1) - r.times)
  BY <1>5, <1>10, <1>11, Zenon
<1> QED
  <2>1. ScannedWell(E, iv, n + 1, r)
    BY <1>4, <1>7, <1>12, <1>13, Zenon DEF ScannedWell
  <2> QED BY <2>1 DEF r

\* A frame that is due gets an anchor.
LEMMA DueWell ==
  ASSUME NEW N \in Nat, NEW E, EdgesOf(E, N), NEW iv \in Nat \ {0}, NEW n \in Nat, n < N,
         \A k \in 1..(N + 1) : ToWord(E[k]) = E[k],
         NEW st, ScannedWell(E, iv, n, st), NEW size, size = E[n + 2] - E[n + 1],
         Due(iv, st, size)
  PROVE  ScannedWell(E, iv, n + 1, ScanFrame(iv, st, size))
<1> DEFINE r == ScanFrame(iv, st, size)
           L == Len(st.idx)
<1>1. /\ E[n + 1] \in Nat /\ E[n + 2] \in Nat /\ E[n + 1] < E[n + 2] /\ size \in Nat
      /\ n + 1 \in 1..(N + 1) /\ n + 2 \in 1..(N + 1)
  <2>1. n + 1 \in 1..(N + 1) /\ n + 2 \in 1..(N + 1) /\ n + 1 < n + 2
    OBVIOUS
  <2>2. E[n + 1] \in Nat /\ E[n + 2] \in Nat /\ E[n + 1] < E[n + 2]
    BY <2>1 DEF EdgesOf
  <2> QED BY <2>1, <2>2
<1>2. /\ st \in ScanStates /\ st.here = E[n + 1] /\ st.times \in 0..n
      /\ AnchorsAt(E, st.idx, n - st.times) /\ DenseTo(E, iv, st.idx, n + 1)
  BY DEF ScannedWell
<1>3. r \in ScanStates
  BY <1>1, <1>2, ScanFrameType
<1>4. r.here = st.here + size /\ r.times = 0 /\ r.byteSince = 0 /\ r.idx = Append(st.idx, E[n + 1])
  <2>1. r = [here |-> st.here + size, times |-> 0, byteSince |-> 0,
             idx |-> Append(st.idx, ToWord(st.here))]
    BY DEF ScanFrame
  <2> HIDE DEF r
  <2> QED BY <1>1, <1>2, <2>1
<1> HIDE DEF r
<1>5. /\ L \in Nat /\ Len(r.idx) = L + 1 /\ r.idx[L + 1] = E[n + 1]
      /\ \A a \in 1..L : r.idx[a] = st.idx[a]
  <2>1. st.idx \in Seq(Vals) /\ E[n + 1] \in Vals
    BY <1>1, <1>2 DEF ScanStates, Vals
  <2>2. L \in Nat
    BY <2>1, LenProperties
  <2> QED BY <1>4, <2>1, <2>2, AppendProperties
<1>6. \A a \in 1..L : \E k \in 1..n : st.idx[a] = E[k]
  <2> TAKE a \in 1..L
  <2>1. PICK k \in 1..(n - st.times) : st.idx[a] = E[k]
    BY <1>2 DEF AnchorsAt
  <2>2. k \in 1..n
    BY <1>2
  <2> QED BY <2>1, <2>2
<1> HIDE DEF L
<1>7. AnchorsAt(E, r.idx, n + 1)
  <2>1. ASSUME NEW a \in 1..(L + 1) PROVE \E k \in 1..(n + 1) : r.idx[a] = E[k]
    <3>1. CASE a = L + 1
      <4>1. n + 1 \in 1..(n + 1)
        OBVIOUS
      <4> QED BY <1>5, <3>1, <4>1
    <3>2. CASE a # L + 1
      <4>1. a \in 1..L
        BY <1>5, <3>2
      <4>2. PICK k \in 1..n : st.idx[a] = E[k]
        BY <1>6, <4>1
      <4>3. k \in 1..(n + 1)
        OBVIOUS
      <4> QED BY <1>5, <4>1, <4>2, <4>3
    <3> QED BY <3>1, <3>2
  <2>2. ASSUME NEW a \in 1..(L + 1), NEW b \in 1..(L + 1), a < b PROVE r.idx[a] < r.idx[b]
    <3>1. a \in 1..L
      BY <1>5, <2>2
    <3>2. CASE b = L + 1
      <4>1. PICK k \in 1..n : st.idx[a] = E[k]
        BY <1>6, <3>1
      <4>2. k \in 1..(N + 1) /\ k < n + 1
        OBVIOUS
      <4>3. E[k] < E[n + 1]
        BY <1>1, <4>2 DEF EdgesOf
      <4> QED BY <1>5, <3>1, <3>2, <4>1, <4>3
    <3>3. CASE b # L + 1
      <4>1. b \in 1..L
        BY <1>5, <3>3
      <4>2. st.idx[a] < st.idx[b]
        BY <1>2, <2>2, <3>1, <4>1 DEF AnchorsAt, L
      <4> QED BY <1>5, <3>1, <4>1, <4>2
    <3> QED BY <3>2, <3>3
  <2> QED BY <1>5, <2>1, <2>2, Zenon DEF AnchorsAt
<1>8. HasAnchor(E, r.idx, n + 1)
  <2>1. L + 1 \in 1..(L + 1)
    BY <1>5
  <2> QED BY <1>5, <2>1 DEF HasAnchor
<1>9. DenseTo(E, iv, r.idx, n + 1 + 1)
  <2> SUFFICES ASSUME NEW i \in 1..(n + 2), NEW j \in 1..(n + 2), i < j,
                      \A k \in i..(j - 1), a \in 1..Len(r.idx) : r.idx[a] # E[k]
               PROVE  j - i < iv /\ E[j] - E[i] < Stride
    <3>1. n + 1 + 1 = n + 2
      OBVIOUS
    <3> QED BY <3>1, Zenon DEF DenseTo
  <2>1. L + 1 \in 1..Len(r.idx)
    BY <1>5
  <2>2. ~(n + 1 \in i..(j - 1))
    BY <1>5, <2>1, Zenon
  <2>3. i \in 1..(n + 1) /\ j \in 1..(n + 1)
    BY <2>2
  <2>4. \A k \in i..(j - 1), a \in 1..L : st.idx[a] # E[k]
    <3> TAKE k \in i..(j - 1), a \in 1..L
    <3>1. a \in 1..Len(r.idx) /\ r.idx[a] = st.idx[a]
      BY <1>5
    <3> QED BY <3>1
  <2> QED BY <1>2, <2>3, <2>4, Zenon DEF DenseTo, L
<1>10. r.here = E[(n + 1) + 1]
  <2>1. \A x, y \in Nat : x + (y - x) = y
    OBVIOUS
  <2>2. (n + 1) + 1 = n + 2
    OBVIOUS
  <2>3. r.here = E[n + 1] + (E[n + 2] - E[n + 1])
    BY <1>2, <1>4
  <2>4. E[n + 1] + (E[n + 2] - E[n + 1]) = E[n + 2]
    BY <1>1, <2>1
  <2> QED BY <2>2, <2>3, <2>4
<1>11. /\ r.times \in 0..(n + 1) /\ r.times < iv /\ ~(r.times > 0) /\ (n + 1) - r.times = n + 1
  BY <1>4
<1>12. r.byteSince = E[(n + 1) + 1] - E[(n + 1) + 1 - r.times]
  <2>1. (n + 1) + 1 - r.times = n + 2 /\ (n + 1) + 1 = n + 2 /\ E[n + 2] - E[n + 2] = 0
    BY <1>1, <1>4
  <2> QED BY <1>4, <2>1
<1> QED
  <2>1. ScannedWell(E, iv, n + 1, r)
    BY <1>3, <1>7, <1>8, <1>9, <1>10, <1>11, <1>12, Zenon DEF ScannedWell
  <2> QED BY <2>1 DEF r

\* The anchors of a scan: edges of frames, in order and dense.
LEMMA AnchorsRight ==
  ASSUME NEW N \in Nat, NEW E, EdgesOf(E, N), NEW iv \in Nat \ {0},
         \A k \in 1..(N + 1) : ToWord(E[k]) = E[k],
         NEW s \in Seq(Nat), Len(s) = N, \A i \in 1..N : s[i] = E[i + 1] - E[i]
  PROVE  LET idx == Anchors(iv, E[1], s)
         IN  /\ idx \in Seq(Vals)
             /\ AnchorsAt(E, idx, N)
             /\ DenseTo(E, iv, idx, N + 1)
<1>1. E[1] \in Nat
  BY DEF EdgesOf
<1>2. PICK A : ScanSteps(A, iv, E[1], s)
  BY <1>1, ScanInOrder
<1>3. /\ A[0] = Start(E[1])
      /\ \A j \in 1..N : A[j] = ScanFrame(iv, A[j - 1], s[j])
      /\ Anchors(iv, E[1], s) = A[N].idx
  BY <1>2 DEF ScanSteps
<1> DEFINE T == {n \in Nat : n <= N => ScannedWell(E, iv, n, A[n])}
<1>4. 0 \in T
  BY <1>3, StartWell
<1>5. ASSUME NEW n \in T PROVE n + 1 \in T
  <2>1. n \in Nat /\ n + 1 \in Nat
    BY <1>5
  <2> SUFFICES ASSUME n + 1 <= N PROVE ScannedWell(E, iv, n + 1, A[n + 1])
    BY <2>1
  <2>2. n < N /\ n + 1 \in 1..N /\ (n + 1) - 1 = n /\ (n + 1) + 1 = n + 2
    BY <2>1
  <2>3. ScannedWell(E, iv, n, A[n])
    BY <1>5, <2>2
  <2>4. A[n + 1] = ScanFrame(iv, A[n], s[n + 1]) /\ s[n + 1] = E[n + 2] - E[n + 1]
    <3>1. A[n + 1] = ScanFrame(iv, A[(n + 1) - 1], s[n + 1])
      BY <1>3, <2>2
    <3>2. s[n + 1] = E[(n + 1) + 1] - E[n + 1]
      BY <2>2
    <3> QED BY <2>2, <3>1, <3>2
  <2> HIDE DEF T
  <2>5. ScannedWell(E, iv, n + 1, ScanFrame(iv, A[n], s[n + 1]))
    <3>1. CASE Due(iv, A[n], s[n + 1])
      BY <2>1, <2>2, <2>3, <2>4, <3>1, DueWell
    <3>2. CASE ~Due(iv, A[n], s[n + 1])
      BY <2>1, <2>2, <2>3, <2>4, <3>2, NotDueWell
    <3> QED BY <3>1, <3>2
  <2> QED BY <2>4, <2>5
<1>6. ScannedWell(E, iv, N, A[N])
  <2>1. T \in SUBSET Nat
    OBVIOUS
  <2>2. T = Nat
    <3> HIDE DEF T
    <3> QED BY <1>4, <1>5, <2>1, InductionOnNat
  <2> QED BY <2>2
<1> HIDE DEF T
<1>7. AnchorsAt(E, A[N].idx, N)
  <2>1. A[N].times \in 0..N /\ AnchorsAt(E, A[N].idx, N - A[N].times)
    BY <1>6 DEF ScannedWell
  <2>2. \A k \in 1..(N - A[N].times) : k \in 1..N
    BY <2>1
  <2> QED BY <2>1, <2>2, Zenon DEF AnchorsAt
<1> QED
  BY <1>3, <1>6, <1>7 DEF ScannedWell, ScanStates

-----------------------------------------------------------------------------
(* The search of find_idx, as a loop over its locals.                      *)

\* Anchors that an int and a uint64_t can hold, in order.
Sorted(idx) ==
    /\ idx \in Seq(Nat)
    /\ \A i \in 1..Len(idx) : ToInt(idx[i]) = idx[i] /\ ToWord(idx[i]) = idx[i]
    /\ \A i, j \in 1..Len(idx) : i < j => idx[i] < idx[j]

\* The locals of the loop of find_idx.
Locals(idx) == [left : 0..Len(idx), right : -1..(Len(idx) - 1), result_idx : Int]

\* The place it looks at.
Middle(l) == l.left + (l.right - l.left) \div 2

\* The locals with which it goes on below the middle, or above it with the anchor a.
Lower(l) == [l EXCEPT !.right = Middle(l) - 1]
Upper(l, a) == [l EXCEPT !.left = Middle(l) + 1, !.result_idx = a]

\* What the loop comes to with the locals l, if g is the rest of it.
SearchAt(g, idx, target, l) ==
    LET medium == l.left + (l.right - l.left) \div 2
        anchor == idx[medium + 1]
    IN  IF l.left > l.right
        THEN IF l.result_idx = -1 THEN 0 ELSE ToWord(l.result_idx)
        ELSE IF target = anchor THEN anchor
        ELSE IF target > anchor
        THEN g[[l EXCEPT !.left = medium + 1, !.result_idx = ToInt(anchor)]]
        ELSE g[[l EXCEPT !.right = medium - 1]]

\* g is the loop.
IsSearch(g, idx, target) == g = [l \in Locals(idx) |-> SearchAt(g, idx, target, l)]

\* There is such a g.
SearchExists(idx, target) == \E g : IsSearch(g, idx, target)

\* g is the loop, and find_idx what it makes of the locals it starts with.
SearchGives(idx, target, g) ==
    /\ IsSearch(g, idx, target)
    /\ FindIdx(idx, target) =
          IF idx = <<>> THEN 0
          ELSE g[[left |-> 0, right |-> Len(idx) - 1, result_idx |-> -1]]

\* If there is such a g, find_idx is computed by one.
LEMMA SearchDef ==
  ASSUME NEW idx, NEW target, SearchExists(idx, target)
  PROVE  \E g : SearchGives(idx, target, g)
<1>1. \E g : g = [l \in Locals(idx) |-> SearchAt(g, idx, target, l)]
  BY DEF SearchExists, IsSearch
<1> DEFINE g == CHOOSE g : g = [l \in Locals(idx) |-> SearchAt(g, idx, target, l)]
<1>2. g = [l \in Locals(idx) |-> SearchAt(g, idx, target, l)]
  BY <1>1, Zenon
<1>3. FindIdx(idx, target) =
          IF idx = <<>> THEN 0
          ELSE g[[left |-> 0, right |-> Len(idx) - 1, result_idx |-> -1]]
  BY Zenon DEF FindIdx, SearchAt, Locals
<1> QED
  BY <1>2, <1>3 DEF SearchGives, IsSearch

\* The middle lies between the two ends.
LEMMA MiddleBetween ==
  ASSUME NEW idx, Len(idx) \in Nat, NEW l \in Locals(idx), l.left <= l.right
  PROVE  /\ Middle(l) \in l.left..l.right
         /\ Middle(l) + 1 \in 1..Len(idx)
         /\ Lower(l) \in Locals(idx)
         /\ \A r \in Int : Upper(l, r) \in Locals(idx)
<1>1. l.left \in 0..Len(idx) /\ l.right \in -1..(Len(idx) - 1) /\ l.result_idx \in Int
  BY DEF Locals
<1>2. \A x \in Nat : x \div 2 \in 0..x
  OBVIOUS
<1>3. l.right - l.left \in Nat
  BY <1>1
<1>4. (l.right - l.left) \div 2 \in 0..(l.right - l.left)
  BY <1>2, <1>3
<1>5. \A a, b, c \in Int : c \in 0..(b - a) => a + c \in a..b
  OBVIOUS
<1>6. Middle(l) \in l.left..l.right
  <2>1. l.left \in Int /\ l.right \in Int /\ (l.right - l.left) \div 2 \in Int
    BY <1>1, <1>4
  <2> QED BY <1>4, <1>5, <2>1 DEF Middle
<1>7. /\ Middle(l) + 1 \in 1..Len(idx) /\ Middle(l) + 1 \in 0..Len(idx)
      /\ Middle(l) - 1 \in -1..(Len(idx) - 1)
  BY <1>1, <1>6
<1>8. Lower(l) \in Locals(idx)
  <2> DEFINE x == Middle(l) - 1
  <2>1. x \in -1..(Len(idx) - 1)
    BY <1>7
  <2> HIDE DEF x
  <2>2. [l EXCEPT !.right = x] \in Locals(idx)
    BY <2>1 DEF Locals
  <2> QED BY <2>2 DEF x, Lower, Upper
<1>9. ASSUME NEW r \in Int
      PROVE  Upper(l, r) \in Locals(idx)
  <2> DEFINE x == Middle(l) + 1
  <2>1. x \in 0..Len(idx)
    BY <1>7
  <2> HIDE DEF x
  <2>2. [l EXCEPT !.left = x, !.result_idx = r] \in Locals(idx)
    BY <2>1 DEF Locals
  <2> QED BY <2>2 DEF x, Lower, Upper
<1> QED BY <1>6, <1>7, <1>8, <1>9

\* v is what the loop does with its locals, by cases, if a is the anchor in the middle.
SearchTurn(g, target, l, a, v) ==
    /\ ~(l.left <= l.right) => v = IF l.result_idx = -1 THEN 0 ELSE ToWord(l.result_idx)
    /\ l.left <= l.right => a \in Nat
    /\ l.left <= l.right /\ target = a => v = a
    /\ l.left <= l.right /\ target > a => v = g[Upper(l, a)]
    /\ l.left <= l.right /\ target < a => v = g[Lower(l)]

\* So does SearchAt.
LEMMA SearchCases ==
  ASSUME NEW idx, Sorted(idx), NEW target \in Nat, NEW l \in Locals(idx), NEW g
  PROVE  SearchTurn(g, target, l, idx[Middle(l) + 1], SearchAt(g, idx, target, l))
<1> DEFINE a == idx[Middle(l) + 1]
<1>1. l.left \in Int /\ l.right \in Int /\ Len(idx) \in Nat
  BY LenProperties DEF Locals, Sorted
<1>2. CASE l.left > l.right
  BY <1>1, <1>2 DEF SearchAt, SearchTurn
<1>3. CASE l.left <= l.right
  <2>1. a \in Nat /\ ToInt(a) = a
    <3>1. Middle(l) + 1 \in 1..Len(idx)
      BY <1>1, <1>3, MiddleBetween
    <3> QED BY <3>1, ElementOfSeq DEF Sorted
  <2>2. ~(l.left > l.right)
    BY <1>1, <1>3
  <2>3. CASE target = a
    <3>1. SearchAt(g, idx, target, l) = a
      BY <2>2, <2>3, Zenon DEF SearchAt, Middle
    <3>2. ~(target > a) /\ ~(target < a)
      BY <2>1, <2>3
    <3> QED BY <1>3, <2>1, <2>3, <3>1, <3>2, Zenon DEF SearchTurn
  <2>4. CASE target > a
    <3>1. ~(target = a) /\ ~(target < a)
      BY <2>1, <2>4
    <3>2. SearchAt(g, idx, target, l) = g[Upper(l, ToInt(a))]
      BY <2>2, <2>4, <3>1, Zenon DEF SearchAt, Middle, Upper
    <3> QED BY <1>3, <2>1, <2>4, <3>1, <3>2, Zenon DEF SearchTurn
  <2>5. CASE target < a
    <3>1. ~(target = a) /\ ~(target > a)
      BY <2>1, <2>5
    <3>2. SearchAt(g, idx, target, l) = g[Lower(l)]
      BY <2>2, <2>5, <3>1, Zenon DEF SearchAt, Middle, Lower
    <3> QED BY <1>3, <2>1, <2>5, <3>1, <3>2, Zenon DEF SearchTurn
  <2>6. target = a \/ target > a \/ target < a
    BY <2>1
  <2> QED BY <2>3, <2>4, <2>5, <2>6
<1> QED BY <1>1, <1>2, <1>3

\* How far apart the two ends are; from zero.
Gap(idx, l) == l.right - l.left + (Len(idx) + 1)

\* The search goes on with locals that are closer together.
LEMMA GapShrinks ==
  ASSUME NEW idx, Len(idx) \in Nat, NEW l \in Locals(idx)
  PROVE  /\ Gap(idx, l) \in Nat
         /\ l.left <= l.right =>
               /\ Gap(idx, Lower(l)) < Gap(idx, l)
               /\ \A r \in Int :
                     Gap(idx, Upper(l, r)) < Gap(idx, l)
<1>1. l.left \in 0..Len(idx) /\ l.right \in -1..(Len(idx) - 1)
  BY DEF Locals
<1>2. Gap(idx, l) \in Nat
  BY <1>1 DEF Gap
<1>3. ASSUME l.left <= l.right
      PROVE  Gap(idx, Lower(l)) < Gap(idx, l)
  <2> DEFINE x == Middle(l) - 1
  <2>1. x \in Int /\ x < l.right
    <3>1. Middle(l) \in l.left..l.right
      BY <1>3, MiddleBetween
    <3> QED BY <1>1, <3>1
  <2> HIDE DEF x
  <2>2. [l EXCEPT !.right = x].right = x /\ [l EXCEPT !.right = x].left = l.left
    BY DEF Locals
  <2>3. Gap(idx, [l EXCEPT !.right = x]) < Gap(idx, l)
    BY <1>1, <2>1, <2>2 DEF Gap
  <2> QED BY <2>3 DEF x, Lower
<1>4. ASSUME l.left <= l.right, NEW r \in Int
      PROVE  Gap(idx, Upper(l, r)) < Gap(idx, l)
  <2> DEFINE x == Middle(l) + 1
             k == [l EXCEPT !.left = x, !.result_idx = r]
  <2>1. x \in Int /\ l.left < x
    <3>1. Middle(l) \in l.left..l.right
      BY <1>4, MiddleBetween
    <3> QED BY <1>1, <3>1
  <2> HIDE DEF x
  <2>2. k.right = l.right /\ k.left = x
    BY DEF Locals
  <2> HIDE DEF k
  <2>3. Gap(idx, k) < Gap(idx, l)
    BY <1>1, <2>1, <2>2 DEF Gap
  <2> QED BY <2>3 DEF k, x, Upper
<1> QED BY <1>2, <1>3, <1>4

\* The search has an answer if what it goes on with has one.
LEMMA SearchAtType ==
  ASSUME NEW idx, Sorted(idx), NEW target \in Nat, NEW l \in Locals(idx),
         NEW g \in [Locals(idx) -> Vals]
  PROVE  SearchAt(g, idx, target, l) \in Vals
<1> DEFINE a == idx[Middle(l) + 1]
<1>1. Len(idx) \in Nat /\ l.left \in Int /\ l.right \in Int /\ l.result_idx \in Int
  BY LenProperties DEF Locals, Sorted
<1> DEFINE v == SearchAt(g, idx, target, l)
<1>4. SearchTurn(g, target, l, a, v)
  BY SearchCases
<1> HIDE DEF a, v
<1>2. CASE ~(l.left <= l.right)
  <2>1. 0 \in Vals /\ ToWord(l.result_idx) \in Vals
    BY <1>1 DEF Vals
  <2>2. v \in Vals
    BY <1>2, <1>4, <2>1, Zenon DEF SearchTurn
  <2> QED BY <2>2 DEF v
<1>3. CASE l.left <= l.right
  <2>1. Lower(l) \in Locals(idx) /\ \A r \in Int : Upper(l, r) \in Locals(idx)
    BY <1>1, <1>3, MiddleBetween
  <2>2. a \in Nat /\ a \in Vals
    BY <1>3, <1>4 DEF SearchTurn, Vals
  <2>3. g[Lower(l)] \in Vals /\ g[Upper(l, a)] \in Vals
    <3>1. a \in Int
      BY <2>2
    <3> QED BY <2>1, <3>1
  <2>4. target = a \/ target > a \/ target < a
    BY <2>2
  <2>5. v \in Vals
    BY <1>3, <1>4, <2>2, <2>3, <2>4, Zenon DEF SearchTurn
  <2> QED BY <2>5 DEF v
<1> QED BY <1>2, <1>3

\* The search looks only at what is closer together.
LEMMA SearchAtLocal ==
  ASSUME NEW idx, Sorted(idx), NEW target \in Nat, NEW l \in Locals(idx), NEW g, NEW h,
         \A k \in Locals(idx) : Gap(idx, k) < Gap(idx, l) => g[k] = h[k]
  PROVE  SearchAt(g, idx, target, l) = SearchAt(h, idx, target, l)
<1> DEFINE a == idx[Middle(l) + 1]
<1>1. Len(idx) \in Nat
  BY LenProperties DEF Sorted
<1> DEFINE v == SearchAt(g, idx, target, l)
           w == SearchAt(h, idx, target, l)
<1>2. SearchTurn(g, target, l, a, v) /\ SearchTurn(h, target, l, a, w)
  BY SearchCases
<1> HIDE DEF a, v, w
<1>3. CASE ~(l.left <= l.right)
  <2>1. v = w
    BY <1>2, <1>3, Zenon DEF SearchTurn
  <2> QED BY <2>1 DEF v, w
<1>4. CASE l.left <= l.right
  <2>1. a \in Nat
    BY <1>2, <1>4 DEF SearchTurn
  <2>2. /\ Lower(l) \in Locals(idx) /\ Upper(l, a) \in Locals(idx)
        /\ Gap(idx, Lower(l)) < Gap(idx, l) /\ Gap(idx, Upper(l, a)) < Gap(idx, l)
    <3>1. a \in Int
      BY <2>1
    <3> QED BY <1>1, <1>4, <3>1, MiddleBetween, GapShrinks
  <2>3. g[Lower(l)] = h[Lower(l)] /\ g[Upper(l, a)] = h[Upper(l, a)]
    BY <2>2, Zenon
  <2>4. target = a \/ target > a \/ target < a
    BY <2>1
  <2>5. v = w
    BY <1>2, <1>4, <2>3, <2>4, Zenon DEF SearchTurn
  <2> QED BY <2>5 DEF v, w
<1> QED BY <1>3, <1>4

\* The loop ends: find_idx is what its definition says.
LEMMA SearchIs ==
  ASSUME NEW idx, Sorted(idx), NEW target \in Nat
  PROVE  SearchExists(idx, target)
<1> DEFINE D == Locals(idx)
           V == Vals
           f0 == [l \in D |-> 0]
           m == [l \in D |-> Gap(idx, l)]
           T == [g \in [D -> V] |-> [l \in D |-> SearchAt(g, idx, target, l)]]
<1>0. Len(idx) \in Nat
  BY LenProperties DEF Sorted
<1>1. f0 \in [D -> V]
  BY DEF Vals
<1>2. m \in [D -> Nat]
  BY <1>0, GapShrinks
<1>3. T \in [[D -> V] -> [D -> V]]
  <2>1. \A g \in [D -> V] : \A l \in D : SearchAt(g, idx, target, l) \in V
    BY SearchAtType
  <2> HIDE DEF D, V
  <2> QED BY <2>1
<1>4. Narrows(D, V, m, T)
  <2> SUFFICES ASSUME NEW f \in [D -> V], NEW g \in [D -> V], NEW s \in D,
                      \A t \in D : m[t] < m[s] => f[t] = g[t]
               PROVE  T[f][s] = T[g][s]
    BY Zenon DEF Narrows
  <2>1. ASSUME NEW k \in Locals(idx), Gap(idx, k) < Gap(idx, s) PROVE f[k] = g[k]
    <3>1. m[k] = Gap(idx, k) /\ m[s] = Gap(idx, s)
      OBVIOUS
    <3> HIDE DEF m
    <3> QED BY <2>1, <3>1
  <2>2. SearchAt(f, idx, target, s) = SearchAt(g, idx, target, s)
    BY <2>1, SearchAtLocal
  <2>3. T[f][s] = SearchAt(f, idx, target, s) /\ T[g][s] = SearchAt(g, idx, target, s)
    <3> HIDE DEF D, V
    <3> QED OBVIOUS
  <2> HIDE DEF T
  <2> QED BY <2>2, <2>3
<1>5. HasFixpoint(D, V, T)
  <2> HIDE DEF D, V, f0, m, T
  <2> QED BY <1>1, <1>2, <1>3, <1>4, Fixpoint
<1>6. PICK g \in [D -> V] : T[g] = g
  <2> HIDE DEF D, V, T
  <2> QED BY <1>5 DEF HasFixpoint
<1>7. g = [l \in D |-> SearchAt(g, idx, target, l)]
  <2> HIDE DEF D, V
  <2> QED BY <1>6
<1> QED
  BY <1>7 DEF SearchExists, IsSearch

-----------------------------------------------------------------------------
(* The answer.                                                             *)

\* The first n anchors are those not above the target.
Splits(idx, target, n) ==
    /\ n \in 0..Len(idx)
    /\ \A i \in 1..Len(idx) : IF i <= n THEN idx[i] <= target ELSE target < idx[i]

\* Then the n-th is the greatest of them.
LEMMA FloorIs ==
  ASSUME NEW idx, Sorted(idx), NEW target \in Nat, NEW n, Splits(idx, target, n)
  PROVE  Floor(idx, target) = IF n = 0 THEN 0 ELSE idx[n]
<1> DEFINE below == {i \in 1..Len(idx) : idx[i] <= target}
           c == CHOOSE i \in below : \A j \in below : idx[j] <= idx[i]
<1>1. n \in Nat /\ n <= Len(idx) /\ Len(idx) \in Nat /\ \A i \in 1..Len(idx) : idx[i] \in Nat
  BY LenProperties, ElementOfSeq DEF Splits, Sorted
<1>2. below = 1..n
  <2>1. ASSUME NEW i \in 1..Len(idx) PROVE idx[i] <= target <=> i <= n
    <3>1. IF i <= n THEN idx[i] <= target ELSE target < idx[i]
      BY DEF Splits
    <3>2. idx[i] \in Nat
      BY <1>1
    <3> QED BY <3>1, <3>2
  <2>2. \A i : i \in 1..n <=> i \in 1..Len(idx) /\ i <= n
    BY <1>1
  <2> QED BY <2>1, <2>2
<1>3. Floor(idx, target) = IF below = {} THEN 0 ELSE idx[c]
  BY Zenon DEF Floor
<1>4. CASE n = 0
  BY <1>2, <1>3, <1>4
<1>5. CASE n # 0
  <2>1. n \in below /\ below # {}
    BY <1>1, <1>2, <1>5
  <2>2. \A j \in below : idx[j] <= idx[n]
    <3> TAKE j \in below
    <3>1. j \in 1..Len(idx) /\ n \in 1..Len(idx) /\ (j < n \/ j = n)
      BY <1>1, <1>2, <1>5
    <3>2. j < n => idx[j] < idx[n]
      BY <3>1 DEF Sorted
    <3>3. idx[j] \in Nat /\ idx[n] \in Nat
      BY <1>1, <3>1
    <3> QED BY <3>1, <3>2, <3>3
  <2> HIDE DEF below
  <2>3. c \in below /\ \A j \in below : idx[j] <= idx[c]
    <3>1. \E i \in below : \A j \in below : idx[j] <= idx[i]
      BY <2>1, <2>2
    <3> QED BY <3>1, Zenon
  <2> HIDE DEF c
  <2>4. c \in 1..Len(idx) /\ n \in 1..Len(idx) /\ idx[c] \in Nat /\ idx[n] \in Nat
    BY <1>1, <2>1, <2>3 DEF below
  <2>5. idx[c] <= idx[n] /\ idx[n] <= idx[c]
    BY <2>1, <2>2, <2>3
  <2>6. idx[c] = idx[n]
    BY <2>4, <2>5
  <2> QED BY <1>3, <1>5, <2>1, <2>6
<1> QED BY <1>4, <1>5

\* The loop has the target between its ends, and remembers the last anchor below it.
Between(idx, target, l) ==
    /\ l \in Locals(idx)
    /\ l.left <= l.right + 1
    /\ \A i \in 1..Len(idx) : i <= l.left => idx[i] < target
    /\ \A i \in 1..Len(idx) : i > l.right + 1 => target < idx[i]
    /\ l.result_idx = IF l.left = 0 THEN -1 ELSE idx[l.left]

\* When it ends, it knows the answer.
LEMMA EndsRight ==
  ASSUME NEW idx, Sorted(idx), NEW target \in Nat, NEW l, Between(idx, target, l), NEW g,
         ~(l.left <= l.right)
  PROVE  SearchAt(g, idx, target, l) = Floor(idx, target)
<1> DEFINE v == SearchAt(g, idx, target, l)
           n == l.left
<1>1. /\ l \in Locals(idx) /\ n \in 0..Len(idx) /\ l.right \in Int /\ Len(idx) \in Nat
      /\ n = l.right + 1
  BY LenProperties DEF Between, Locals, Sorted
<1>2. v = IF l.result_idx = -1 THEN 0 ELSE ToWord(l.result_idx)
  BY <1>1, SearchCases DEF SearchTurn
<1>3. Splits(idx, target, n)
  <2>1. ASSUME NEW i \in 1..Len(idx)
        PROVE  IF i <= n THEN idx[i] <= target ELSE target < idx[i]
    <3>1. CASE i <= n
      <4>1. idx[i] < target /\ idx[i] \in Nat
        BY <3>1, ElementOfSeq DEF Between, Sorted
      <4> QED BY <3>1, <4>1
    <3>2. CASE ~(i <= n)
      <4>1. i > l.right + 1
        BY <1>1, <3>2
      <4> QED BY <3>2, <4>1 DEF Between
    <3> QED BY <3>1, <3>2
  <2> QED BY <1>1, <2>1, Zenon DEF Splits
<1>4. Floor(idx, target) = IF n = 0 THEN 0 ELSE idx[n]
  BY <1>3, FloorIs
<1>5. l.result_idx = IF n = 0 THEN -1 ELSE idx[n]
  BY DEF Between
<1> HIDE DEF v, n
<1>6. ASSUME n = 0 PROVE v = Floor(idx, target)
  <2>1. Floor(idx, target) = 0 /\ l.result_idx = -1
    BY <1>4, <1>5, <1>6, Zenon
  <2> QED BY <1>2, <2>1, Zenon
<1>7. ASSUME n # 0 PROVE v = Floor(idx, target)
  <2>1. n \in 1..Len(idx)
    BY <1>1, <1>7
  <2>2. idx[n] \in Nat /\ ToWord(idx[n]) = idx[n]
    BY <2>1, ElementOfSeq DEF Sorted
  <2>3. idx[n] # -1
    BY <2>2
  <2>4. Floor(idx, target) = idx[n] /\ l.result_idx = idx[n]
    BY <1>4, <1>5, <1>7, Zenon
  <2>5. v = ToWord(l.result_idx)
    BY <1>2, <2>3, <2>4, Zenon
  <2> QED BY <2>2, <2>4, <2>5, Zenon
<1>8. v = Floor(idx, target)
  BY <1>6, <1>7, Zenon
<1> QED BY <1>8 DEF v

\* A target that is an anchor is its own answer.
LEMMA HitRight ==
  ASSUME NEW idx, Sorted(idx), NEW n \in 1..Len(idx)
  PROVE  Floor(idx, idx[n]) = idx[n]
<1>1. Len(idx) \in Nat /\ \A i \in 1..Len(idx) : idx[i] \in Nat
  BY LenProperties, ElementOfSeq DEF Sorted
<1>2. Splits(idx, idx[n], n)
  <2>1. ASSUME NEW i \in 1..Len(idx)
        PROVE  IF i <= n THEN idx[i] <= idx[n] ELSE idx[n] < idx[i]
    <3>1. idx[i] \in Nat /\ idx[n] \in Nat
      BY <1>1
    <3>2. CASE i < n
      BY <3>1, <3>2 DEF Sorted
    <3>3. CASE i = n
      BY <3>1, <3>3
    <3>4. CASE i > n
      BY <3>1, <3>4 DEF Sorted
    <3> QED BY <1>1, <3>2, <3>3, <3>4
  <2>2. n \in 0..Len(idx)
    BY <1>1
  <2> QED BY <2>1, <2>2, Zenon DEF Splits
<1>3. n # 0 /\ idx[n] \in Nat
  BY <1>1
<1> QED
  BY <1>2, <1>3, FloorIs

\* A turn of the loop keeps the target between its ends.
LEMMA TurnKeeps ==
  ASSUME NEW idx, Sorted(idx), NEW target \in Nat, NEW l, Between(idx, target, l),
         l.left <= l.right
  PROVE  LET a == idx[Middle(l) + 1]
         IN  /\ target > a => Between(idx, target, Upper(l, a))
             /\ target < a => Between(idx, target, Lower(l))
<1> DEFINE m == Middle(l)
           a == idx[m + 1]
<1>1. /\ l \in Locals(idx) /\ l.left \in Nat /\ l.right \in Int /\ Len(idx) \in Nat
      /\ \A i \in 1..Len(idx) : idx[i] \in Nat
  BY LenProperties, ElementOfSeq DEF Between, Locals, Sorted
<1>2. m \in l.left..l.right /\ m + 1 \in 1..Len(idx) /\ m \in Int
  BY <1>1, MiddleBetween
<1>3. a \in Nat
  BY <1>1, <1>2
<1>4. Lower(l) \in Locals(idx) /\ Upper(l, a) \in Locals(idx)
  <2>1. a \in Int
    BY <1>3
  <2> HIDE DEF a
  <2> QED BY <1>1, <2>1, MiddleBetween
<1>5. \A i \in 1..Len(idx) : /\ i < m + 1 => idx[i] < a
                             /\ m + 1 < i => a < idx[i]
  BY <1>2 DEF Sorted
<1>6. \A i \in 1..Len(idx) : i < m + 1 \/ i = m + 1 \/ m + 1 < i
  BY <1>2
<1>7. /\ Upper(l, a).left = m + 1 /\ Upper(l, a).right = l.right /\ Upper(l, a).result_idx = a
      /\ Lower(l).left = l.left /\ Lower(l).right = m - 1 /\ Lower(l).result_idx = l.result_idx
  <2> HIDE DEF a, m
  <2> QED BY <1>1 DEF Upper, Lower, Locals, m
<1>8. ASSUME target > a PROVE Between(idx, target, Upper(l, a))
  <2>1. ASSUME NEW i \in 1..Len(idx), i <= m + 1 PROVE idx[i] < target
    <3>1. idx[i] \in Nat /\ (i < m + 1 \/ i = m + 1)
      BY <1>1, <1>2, <2>1
    <3>2. CASE i = m + 1
      BY <1>8, <1>3, <3>2
    <3>3. CASE i < m + 1
      <4>1. idx[i] < a
        BY <1>5, <3>3
      <4> HIDE DEF a
      <4> QED BY <1>3, <1>8, <3>1, <4>1
    <3> QED BY <3>1, <3>2, <3>3
  <2>2. m + 1 <= l.right + 1 /\ m + 1 # 0
    BY <1>1, <1>2
  <2>3. \A i \in 1..Len(idx) : i > l.right + 1 => target < idx[i]
    BY DEF Between
  <2> HIDE DEF a, m
  <2> QED BY <1>4, <1>7, <2>1, <2>2, <2>3 DEF Between, a
<1>9. ASSUME target < a PROVE Between(idx, target, Lower(l))
  <2>1. ASSUME NEW i \in 1..Len(idx), i > m PROVE target < idx[i]
    <3>1. idx[i] \in Nat /\ (m + 1 < i \/ i = m + 1)
      BY <1>1, <1>2, <2>1
    <3>2. CASE i = m + 1
      BY <1>9, <1>3, <3>2
    <3>3. CASE m + 1 < i
      <4>1. a < idx[i]
        BY <1>5, <3>3
      <4> HIDE DEF a
      <4> QED BY <1>3, <1>9, <3>1, <4>1
    <3> QED BY <3>1, <3>2, <3>3
  <2>2. l.left <= (m - 1) + 1 /\ (m - 1) + 1 = m
    BY <1>1, <1>2
  <2>3. /\ \A i \in 1..Len(idx) : i <= l.left => idx[i] < target
        /\ l.result_idx = IF l.left = 0 THEN -1 ELSE idx[l.left]
    BY DEF Between
  <2> HIDE DEF a, m
  <2> QED BY <1>4, <1>7, <2>1, <2>2, <2>3 DEF Between
<1> QED BY <1>8, <1>9

\* The loop finds the greatest anchor not above the target.
LEMMA LoopFinds ==
  ASSUME NEW idx, Sorted(idx), NEW target \in Nat, NEW g, IsSearch(g, idx, target),
         NEW l, Between(idx, target, l)
  PROVE  g[l] = Floor(idx, target)
<1> DEFINE T == {n \in Nat : \A k \in Locals(idx) :
                    Between(idx, target, k) /\ Gap(idx, k) < n => g[k] = Floor(idx, target)}
<1>0. Len(idx) \in Nat /\ \A k \in Locals(idx) : Gap(idx, k) \in Nat
  BY LenProperties, GapShrinks DEF Sorted
<1>1. 0 \in T
  BY <1>0
<1>2. ASSUME NEW n \in T PROVE n + 1 \in T
  <2>1. n \in Nat /\ n + 1 \in Nat
    BY <1>2
  <2>2. \A k \in Locals(idx) :
           Between(idx, target, k) /\ Gap(idx, k) < n => g[k] = Floor(idx, target)
    BY <1>2
  <2> HIDE DEF T
  <2>3. ASSUME NEW k \in Locals(idx), Between(idx, target, k), Gap(idx, k) < n + 1
        PROVE  g[k] = Floor(idx, target)
    <3> DEFINE a == idx[Middle(k) + 1]
               v == SearchAt(g, idx, target, k)
    <3>1. g[k] = v
      BY Zenon DEF IsSearch
    <3>2. CASE ~(k.left <= k.right)
      BY <2>3, <3>1, <3>2, EndsRight
    <3>3. CASE k.left <= k.right
      <4>1. SearchTurn(g, target, k, a, v)
        BY SearchCases
      <4>2. Middle(k) + 1 \in 1..Len(idx)
        BY <1>0, <3>3, MiddleBetween
      <4>3. a \in Nat
        BY <3>3, <4>1 DEF SearchTurn
      <4>4. target = a => a = Floor(idx, target)
        BY <4>2, HitRight
      <4>5. /\ target > a => Between(idx, target, Upper(k, a))
            /\ target < a => Between(idx, target, Lower(k))
        BY <2>3, <3>3, TurnKeeps
      <4> HIDE DEF a, v
      <4>6. /\ Lower(k) \in Locals(idx) /\ Upper(k, a) \in Locals(idx)
            /\ Gap(idx, Lower(k)) < Gap(idx, k) /\ Gap(idx, Upper(k, a)) < Gap(idx, k)
        <5>1. a \in Int
          BY <4>3
        <5> QED BY <1>0, <3>3, <5>1, MiddleBetween, GapShrinks
      <4>7. Gap(idx, Lower(k)) < n /\ Gap(idx, Upper(k, a)) < n
        <5>1. Gap(idx, Lower(k)) \in Nat /\ Gap(idx, Upper(k, a)) \in Nat /\ Gap(idx, k) \in Nat
          BY <1>0, <4>6
        <5>2. \A x, y, z \in Nat : x < y /\ y < z + 1 => x < z
          OBVIOUS
        <5> QED BY <2>1, <2>3, <4>6, <5>1, <5>2
      <4>8. target = a \/ target > a \/ target < a
        BY <4>3
      <4>9. ASSUME target = a PROVE v = Floor(idx, target)
        BY <3>3, <4>1, <4>4, <4>9, Zenon DEF SearchTurn
      <4>10. ASSUME target > a PROVE v = Floor(idx, target)
        <5>1. g[Upper(k, a)] = Floor(idx, target)
          BY <2>2, <4>5, <4>6, <4>7, <4>10, Zenon
        <5> QED BY <3>3, <4>1, <4>10, <5>1, Zenon DEF SearchTurn
      <4>11. ASSUME target < a PROVE v = Floor(idx, target)
        <5>1. g[Lower(k)] = Floor(idx, target)
          BY <2>2, <4>5, <4>6, <4>7, <4>11, Zenon
        <5> QED BY <3>3, <4>1, <4>11, <5>1, Zenon DEF SearchTurn
      <4>12. v = Floor(idx, target)
        BY <4>8, <4>9, <4>10, <4>11, Zenon
      <4> QED BY <3>1, <4>12, Zenon
    <3> QED BY <3>2, <3>3
  <2> QED BY <2>1, <2>3 DEF T
<1>3. T = Nat
  <2>1. T \in SUBSET Nat
    OBVIOUS
  <2> HIDE DEF T
  <2> QED BY <1>1, <1>2, <2>1, InductionOnNat
<1>4. l \in Locals(idx)
  BY DEF Between
<1>5. Gap(idx, l) + 1 \in T /\ Gap(idx, l) < Gap(idx, l) + 1
  BY <1>0, <1>3, <1>4
<1> QED
  BY <1>4, <1>5

\* find_idx finds the greatest anchor not above the target.
LEMMA FindsFloor ==
  ASSUME NEW idx, Sorted(idx), NEW target \in Nat
  PROVE  FindIdx(idx, target) = Floor(idx, target)
<1>1. PICK g : SearchGives(idx, target, g)
  BY SearchIs, SearchDef
<1>2. /\ IsSearch(g, idx, target)
      /\ FindIdx(idx, target) = IF idx = <<>> THEN 0
                                ELSE g[[left |-> 0, right |-> Len(idx) - 1, result_idx |-> -1]]
  BY <1>1 DEF SearchGives
<1>3. Len(idx) \in Nat
  BY LenProperties DEF Sorted
<1>4. CASE idx = <<>>
  <2>1. Len(idx) = 0
    BY <1>4
  <2>2. Splits(idx, target, 0)
    BY <2>1 DEF Splits
  <2>3. Floor(idx, target) = 0
    BY <2>2, FloorIs
  <2> QED BY <1>2, <1>4, <2>3
<1>5. CASE idx # <<>>
  <2> DEFINE l == [left |-> 0, right |-> Len(idx) - 1, result_idx |-> -1]
  <2>1. Len(idx) > 0
    BY <1>3, <1>5, EmptySeq DEF Sorted
  <2>2. l \in Locals(idx) /\ l.left = 0 /\ l.right = Len(idx) - 1 /\ l.result_idx = -1
    BY <1>3, <2>1 DEF Locals
  <2> HIDE DEF l
  <2>3. Between(idx, target, l)
    <3>1. l.left <= l.right + 1
      BY <1>3, <2>2
    <3>2. \A i \in 1..Len(idx) : ~(i <= l.left) /\ ~(i > l.right + 1)
      BY <1>3, <2>2
    <3> QED BY <2>2, <3>1, <3>2 DEF Between
  <2>4. g[l] = Floor(idx, target)
    BY <1>2, <2>3, LoopFinds
  <2> QED BY <1>2, <1>5, <2>4 DEF l
<1> QED BY <1>4, <1>5

-----------------------------------------------------------------------------
(* The index of a recovered segment.                                       *)

\* The offsets of a segment go through an int and a uint64_t unchanged.
OffsetsFit == \A o \in 0..(Base + MaxCells) : ToInt(o) = o /\ ToWord(o) = o

\* What has been written fits the file.
Bounded == Len(Layout(written)) <= MaxCells

\* No step writes more than fits.
LEMMA StepBounded ==
  ASSUME Handled, SegmentInv, Bounded, [Next]_vars
  PROVE  Bounded'
<1>0. /\ written \in Seq(Frames) /\ Len(Layout(written)) \in Nat /\ file \in Seq(Cells)
      /\ Len(file) \in Nat /\ Len(Layout(written)) <= MaxCells
  BY LayoutType, LenProperties DEF SegmentInv, WrittenWell, CellsWell, Bounded
<1>1. CASE written' = written
  BY <1>0, <1>1 DEF Bounded
<1>2. CASE CreatOpen
  <2>1. written' = <<>> /\ Len(Layout(<<>>)) = 0 /\ 0 <= MaxCells
    BY <1>2, LayoutEmpty, SizesAssumption DEF CreatOpen
  <2> QED BY <2>1 DEF Bounded
<1>3. ASSUME NEW f \in NextFrames, AppendFrame(f), written' = Append(written, f) PROVE Bounded'
  <2>1. offset = Len(Layout(written)) /\ offset <= Len(file) /\ offset \in Nat
    BY <1>0, <1>3 DEF SegmentInv, HandleWell, AppendFrame
  <2>2. f \in Frames
    BY <1>0, <2>1, NextFrameType DEF SegmentInv, WrittenWell
  <2>3. Len(file) + HeadCells + f.len <= MaxCells
    BY <1>3 DEF AppendFrame
  <2> DEFINE w == Append(written, f)
  <2>4. w \in Seq(Frames) /\ Len(w) = Len(written) + 1 /\ w[Len(written) + 1] = f
        /\ SubSeq(w, 1, Len(written)) = written
    <3>1. /\ w \in Seq(Frames) /\ Len(w) = Len(written) + 1 /\ w[Len(written) + 1] = f
          /\ \A i \in 1..Len(written) : w[i] = written[i]
      BY <1>0, <2>2, AppendProperties
    <3>2. Len(written) \in Nat
      BY <1>0, LenProperties
    <3> HIDE DEF w
    <3>3. Len(written) \in 0..Len(w)
      BY <3>1, <3>2
    <3>4. /\ SubSeq(w, 1, Len(written)) \in Seq(Frames)
          /\ Len(SubSeq(w, 1, Len(written))) = Len(written)
          /\ \A i \in 1..Len(written) : SubSeq(w, 1, Len(written))[i] = w[i]
      BY <3>1, <3>3, SubSeqHead
    <3> DEFINE v == SubSeq(w, 1, Len(written))
    <3> HIDE DEF v
    <3>5. v = written
      BY <1>0, <3>1, <3>4, SeqEqual DEF v
    <3> QED BY <3>1, <3>5 DEF v
  <2> HIDE DEF w
  <2>5. Len(Layout(w)) = Len(Layout(written)) + HeadCells + f.len
    <3>1. Len(written) \in Nat /\ Len(written) < Len(w)
      BY <1>0, <2>4, LenProperties
    <3>2. Len(First(w, Len(written) + 1))
             = Len(First(w, Len(written))) + HeadCells + w[Len(written) + 1].len
      BY <2>4, <3>1, FirstNext
    <3>3. First(w, Len(w)) = Layout(w) /\ First(w, Len(written)) = Layout(written)
      BY <2>4, FirstEnds DEF First
    <3> QED BY <2>4, <3>2, <3>3
  <2>6. f.len \in Nat
    BY <2>2, CellsOfType
  <2>7. Len(Layout(w)) <= MaxCells
    BY <1>0, <2>1, <2>3, <2>5, <2>6, SizesAssumption DEF HeadCells
  <2> QED BY <1>3, <2>7 DEF Bounded, w
<1>4. CASE Recover
  <2>1. CASE scan'.kind = "clean"
    <3>1. written' = Kept(file') /\ file' \in Seq(Cells)
      <4>1. SegmentInv'
        BY StepKeeps
      <4> QED BY <1>4, <2>1, <4>1 DEF Recover, SegmentInv, CellsWell
    <3>2. PICK n \in 0..Len(written) : KeptOf(written, file') = SubSeq(written, 1, n)
      BY <1>0, <3>1, KeptCuts
    <3>3. Kept(file') = KeptOf(written, file')
      BY Zenon DEF Kept, KeptOf
    <3>4. Len(First(written, n)) <= Len(Layout(written)) /\ Len(First(written, n)) \in Nat
      <4>1. Len(written) \in n..Len(written)
        BY <1>0, LenProperties
      <4> QED BY <1>0, <4>1, FirstPrefix, FirstEnds, FirstType
    <3>5. Len(Layout(written')) = Len(First(written, n))
      BY <3>1, <3>2, <3>3 DEF First
    <3> QED BY <1>0, <3>4, <3>5, SizesAssumption DEF Bounded
  <2>2. CASE scan'.kind # "clean"
    <3>1. written' = written
      BY <1>4, <2>2 DEF Recover
    <3> QED BY <1>0, <3>1 DEF Bounded
  <2> QED BY <2>1, <2>2
<1>5. ASSUME NEW f \in NextFrames, AppendFrame(f)
      PROVE  written' = written \/ written' = Append(written, f)
  BY <1>5 DEF AppendFrame
<1>6. CASE \/ CreatHead \/ CreatSync \/ CreatDir \/ CreatBroken \/ Sysnc \/ Close \/ Crash
           \/ OpenAppend \/ UNCHANGED vars
  <2>1. written' = written
    BY <1>6 DEF CreatHead, CreatSync, CreatDir, CreatBroken, frames, Sysnc, Close, Crash,
                OpenAppend, vars
  <2> QED BY <1>1, <2>1
<1> QED
  BY <1>1, <1>2, <1>3, <1>4, <1>5, <1>6 DEF Next

\* The index of frames that fit.
LEMMA IndexOfWritten ==
  ASSUME OffsetsFit, SegmentInv, Bounded, NEW interval \in 1..MaxInterval
  PROVE  /\ Dense(interval, Idx(interval), Edges)
         /\ \A target \in 0..Edges[Len(Edges)] :
               FindIdx(Idx(interval), target) = Floor(Idx(interval), target)
<1> DEFINE N == Len(written)
           E == Edges
           s == [i \in 1..N |-> E[i + 1] - E[i]]
           idx == Idx(interval)
<1>0. /\ written \in Seq(Frames) /\ N \in Nat /\ Base \in Nat /\ MaxCells \in Nat
      /\ interval \in Nat \ {0}
  BY LenProperties, SizesAssumption DEF SegmentInv, WrittenWell
<1>1. E = [i \in 1..(N + 1) |-> Base + Len(First(written, i - 1))]
  BY DEF Edges, First
<1> HIDE DEF E
<1>2. \A i \in 1..(N + 1) : /\ i - 1 \in 0..N /\ E[i] = Base + Len(First(written, i - 1))
                            /\ Len(First(written, i - 1)) \in Nat
  <2>1. \A i \in 1..(N + 1) : i - 1 \in 0..N
    BY <1>0
  <2>2. \A n \in 0..N : Len(First(written, n)) \in Nat
    BY <1>0, FirstType
  <2> QED BY <1>1, <2>1, <2>2
<1>3. E \in [1..(N + 1) -> Nat] /\ \A i \in 1..(N + 1) : E[i] \in 0..(Base + MaxCells)
  <2>1. ASSUME NEW i \in 1..(N + 1) PROVE E[i] \in Nat /\ E[i] \in 0..(Base + MaxCells)
    <3>1. Len(First(written, i - 1)) <= Len(First(written, N))
      <4>1. i - 1 \in 0..N /\ N \in (i - 1)..N
        BY <1>0
      <4> QED BY <1>0, <4>1, FirstPrefix
    <3>2. Len(First(written, N)) <= MaxCells /\ Len(First(written, N)) \in Nat
      BY <1>0, FirstEnds, LayoutType DEF Bounded
    <3> HIDE DEF N
    <3>3. \A b, x, y, z \in Nat : x <= y /\ y <= z => b + x \in Nat /\ b + x \in 0..(b + z)
      OBVIOUS
    <3> QED BY <1>0, <1>2, <3>1, <3>2, <3>3
  <2> QED BY <1>1, <2>1
<1>4. \A i, j \in 1..(N + 1) : i < j => E[i] < E[j]
  <2> SUFFICES ASSUME NEW i \in 1..(N + 1), NEW j \in 1..(N + 1), i < j PROVE E[i] < E[j]
    OBVIOUS
  <2>1. i - 1 \in 0..N /\ j - 1 \in (i - 1)..N /\ i - 1 < j - 1
    BY <1>0
  <2>2. Len(First(written, i - 1)) < Len(First(written, j - 1))
    BY <1>0, <2>1, FirstPrefix
  <2>3. \A b, x, y \in Nat : x < y => b + x < b + y
    OBVIOUS
  <2> QED BY <1>0, <1>2, <2>2, <2>3
<1>5. EdgesOf(E, N)
  BY <1>3, <1>4 DEF EdgesOf
<1>6. Len(E) = N + 1 /\ E[1] = Base
  <2>1. 1 \in 1..(N + 1) /\ 1 - 1 = 0 /\ N + 1 \in Nat
    BY <1>0
  <2>2. E[1] = Base + Len(First(written, 0))
    BY <1>1, <2>1
  <2>3. Len(First(written, 0)) = 0
    BY <1>0, FirstEnds
  <2>4. E[1] = Base
    BY <1>0, <2>2, <2>3
  <2>5. Len(E) = N + 1
    BY <1>1, <2>1, LenProperties
  <2> QED BY <2>4, <2>5
<1>7. s \in Seq(Nat) /\ Len(s) = N /\ \A i \in 1..N : s[i] = E[i + 1] - E[i]
  <2>1. ASSUME NEW i \in 1..N PROVE E[i + 1] - E[i] \in Nat
    <3>1. i \in 1..(N + 1) /\ i + 1 \in 1..(N + 1) /\ i < i + 1
      BY <1>0
    <3>2. E[i] < E[i + 1] /\ E[i] \in Nat /\ E[i + 1] \in Nat
      BY <1>3, <1>4, <3>1
    <3> QED BY <3>2
  <2>2. s \in [1..N -> Nat]
    BY <2>1
  <2>3. s \in Seq(Nat) /\ Len(s) = N
    BY <1>0, <2>2, LenProperties
  <2> QED BY <2>3
<1>8. idx = Anchors(interval, E[1], s)
  BY <1>6, Zenon DEF Idx, E
<1>9. \A k \in 1..(N + 1) : ToWord(E[k]) = E[k]
  BY <1>3 DEF OffsetsFit
<1> HIDE DEF s, N, idx
<1>10. idx \in Seq(Vals) /\ AnchorsAt(E, idx, N) /\ DenseTo(E, interval, idx, N + 1)
  BY <1>0, <1>5, <1>7, <1>8, <1>9, AnchorsRight
<1>11. Dense(interval, idx, E)
  BY <1>6, <1>10, Zenon DEF Dense, DenseTo
<1>12. Sorted(idx)
  <2>1. ASSUME NEW i \in 1..Len(idx)
        PROVE  idx[i] \in Nat /\ ToInt(idx[i]) = idx[i] /\ ToWord(idx[i]) = idx[i]
    <3>1. PICK k \in 1..N : idx[i] = E[k]
      BY <1>10 DEF AnchorsAt
    <3>2. k \in 1..(N + 1)
      BY <1>0
    <3> QED BY <1>3, <3>1, <3>2 DEF OffsetsFit
  <2>2. idx \in Seq(Nat)
    BY <1>10, <2>1, LenProperties
  <2> QED BY <1>10, <2>1, <2>2, Zenon DEF Sorted, AnchorsAt
<1>13. \A target \in 0..E[Len(E)] : FindIdx(idx, target) = Floor(idx, target)
  BY <1>12, FindsFloor
<1> QED
  BY <1>11, <1>13 DEF idx, E

\* The index of a recovered segment leads a reader to any frame, if the offsets fit
\* the int that find_idx keeps them in.
THEOREM IndexIsRight ==
  ASSUME Handled, OffsetsFit
  PROVE  Spec => []IndexRight
<1>1. Init => Bounded
  <2>1. Init => written = <<>> /\ Len(Layout(<<>>)) = 0 /\ 0 <= MaxCells
    BY LayoutEmpty, SizesAssumption DEF Init
  <2> QED BY <2>1 DEF Bounded
<1>2. SegmentInv /\ Bounded /\ [Next]_vars => Bounded'
  BY StepBounded
<1>3. SegmentInv /\ Bounded => IndexRight
  BY IndexOfWritten DEF IndexRight
<1> QED
  BY <1>1, <1>2, <1>3, AlwaysSegmentInv, PTL DEF Spec
=============================================================================
