----------------------------- MODULE BopIOProof -----------------------------
(***************************************************************************)
(* Proofs about the I/O port for every program: any number of regions, of  *)
(* output operations in them and of characters in a text.                  *)
(***************************************************************************)
EXTENDS BopIO, SetInduction, SequenceTheorems

-----------------------------------------------------------------------------
(***************************************************************************)
(* FlattenSeq, which is defined by recursion on the index.                 *)
(***************************************************************************)
Flattens(s, n, f) ==
  f = [i \in 1 .. n |-> IF i = 1 THEN s[i] ELSE f[i - 1] \o s[i]]

LEMMA FlattensNext ==
  ASSUME NEW s, NEW n \in Nat, NEW f, Flattens(s, n, f)
  PROVE  \E g : Flattens(s, n + 1, g)
<1> DEFINE g == [i \in 1 .. n + 1 |->
                   IF i = n + 1 THEN (IF i = 1 THEN s[i] ELSE f[n] \o s[i]) ELSE f[i]]
<1>1. ASSUME NEW i \in 1 .. n + 1
      PROVE  g[i] = IF i = 1 THEN s[i] ELSE g[i - 1] \o s[i]
  <2>1. CASE i = n + 1
    BY <2>1
  <2>2. CASE i # n + 1
    <3>1. i \in 1 .. n /\ (i # 1 => i - 1 \in 1 .. n)
      BY <2>2
    <3>2. f[i] = IF i = 1 THEN s[i] ELSE f[i - 1] \o s[i]
      BY <3>1 DEF Flattens
    <3> QED
      BY <2>2, <3>1, <3>2
  <2> QED
    BY <2>1, <2>2
<1>2. g = [i \in 1 .. n + 1 |-> IF i = 1 THEN s[i] ELSE g[i - 1] \o s[i]]
  BY <1>1
<1> QED
  BY <1>2 DEF Flattens

LEMMA FlattensAll ==
  ASSUME NEW s, NEW n \in Nat
  PROVE  \E f : Flattens(s, n, f)
<1> DEFINE T == {d \in Nat : \E f : Flattens(s, d, f)}
<1>1. 0 \in T
  <2> DEFINE f == [i \in 1 .. 0 |-> s[i]]
  <2>1. Flattens(s, 0, f)
    BY DEF Flattens
  <2> QED
    BY <2>1
<1>2. ASSUME NEW d \in Nat, d \in T PROVE d + 1 \in T
  BY <1>2, FlattensNext
<1>3. \A d \in Nat : d \in T
  <2> HIDE DEF T
  <2> QED
    BY <1>1, <1>2, NaturalsBySuccessor
<1> QED
  BY <1>3

(* Two such functions agree where their sequences do. *)
LEMMA FlattensSame ==
  ASSUME NEW m \in Nat, NEW n \in Nat, n = m + 1,
         NEW s, NEW f, Flattens(s, n, f), NEW r, NEW g, Flattens(r, m, g),
         \A i \in 1 .. m : r[i] = s[i]
  PROVE  \A i \in 1 .. m : f[i] = g[i]
<1> DEFINE T == {d \in Nat : d + 1 <= m => f[d + 1] = g[d + 1]}
<1>0. /\ \A i \in 1 .. n : f[i] = IF i = 1 THEN s[i] ELSE f[i - 1] \o s[i]
      /\ \A i \in 1 .. m : g[i] = IF i = 1 THEN r[i] ELSE g[i - 1] \o r[i]
  BY DEF Flattens
<1>1. 0 \in T
  BY <1>0
<1>2. ASSUME NEW d \in Nat, d \in T PROVE d + 1 \in T
  <2> SUFFICES ASSUME (d + 1) + 1 <= m PROVE f[(d + 1) + 1] = g[(d + 1) + 1]
    OBVIOUS
  <2> DEFINE i == (d + 1) + 1
  <2>1. i \in 1 .. n /\ i \in 1 .. m /\ i # 1 /\ i - 1 = d + 1 /\ d + 1 <= m
    OBVIOUS
  <2>2. f[i - 1] = g[i - 1]
    BY <2>1, <1>2
  <2> QED
    BY <1>0, <2>1, <2>2
<1>3. \A d \in Nat : d \in T
  <2> HIDE DEF T
  <2> QED
    BY <1>1, <1>2, NaturalsBySuccessor
<1>4. ASSUME NEW i \in 1 .. m PROVE f[i] = g[i]
  <2>1. i - 1 \in T /\ (i - 1) + 1 = i
    BY <1>3
  <2> QED
    BY <2>1
<1> QED
  BY <1>4

LEMMA FlattenIs ==
  ASSUME NEW s, NEW n \in Nat \ {0}, Len(s) = n
  PROVE  \E f : Flattens(s, n, f) /\ FlattenSeq(s) = f[n]
<1> DEFINE f == CHOOSE f : Flattens(s, n, f)
<1>1. Flattens(s, n, f)
  BY FlattensAll
<1>2. FlattenSeq(s) = f[n]
  BY DEF FlattenSeq, Flattens
<1> QED
  BY <1>1, <1>2

LEMMA FlattenEmpty == ASSUME NEW s \in [1 .. 0 -> {}] PROVE FlattenSeq(s) = <<>>
<1>1. s = <<>> /\ Len(s) = 0
  OBVIOUS
<1> QED
  BY <1>1 DEF FlattenSeq

(* The last of a sequence of sequences comes last. *)
LEMMA FlattenNext ==
  ASSUME NEW S, NEW n \in Nat, NEW s \in [1 .. n + 1 -> Seq(S)], NEW r \in [1 .. n -> Seq(S)],
         \A i \in 1 .. n : r[i] = s[i]
  PROVE  FlattenSeq(s) = FlattenSeq(r) \o s[n + 1]
<1>1. Len(s) = n + 1 /\ Len(r) = n
  OBVIOUS
<1>2. PICK f : Flattens(s, n + 1, f) /\ FlattenSeq(s) = f[n + 1]
  BY <1>1, FlattenIs
<1>3. f[n + 1] = IF n = 0 THEN s[n + 1] ELSE f[n] \o s[n + 1]
  <2>1. n + 1 \in 1 .. n + 1 /\ (n + 1) - 1 = n /\ (n + 1 = 1 <=> n = 0)
    OBVIOUS
  <2>2. \A i \in 1 .. n + 1 : f[i] = IF i = 1 THEN s[i] ELSE f[i - 1] \o s[i]
    BY <1>2 DEF Flattens
  <2> QED
    BY <2>1, <2>2
<1>4. CASE n = 0
  <2>1. FlattenSeq(r) = <<>>
    <3>1. r \in [1 .. 0 -> {}]
      BY <1>4
    <3> QED
      BY <3>1, FlattenEmpty
  <2>2. <<>> \o s[n + 1] = s[n + 1]
    BY <1>4, ConcatEmptySeq
  <2> QED
    BY <1>2, <1>3, <1>4, <2>1, <2>2
<1>5. CASE n # 0
  <2>1. PICK g : Flattens(r, n, g) /\ FlattenSeq(r) = g[n]
    BY <1>1, <1>5, FlattenIs
  <2>2. f[n] = g[n]
    <3>1. PICK k \in Nat : k = n + 1
      OBVIOUS
    <3>2. Flattens(s, k, f) /\ Flattens(r, n, g) /\ \A i \in 1 .. n : r[i] = s[i]
      BY <1>2, <2>1, <3>1
    <3>3. \A i \in 1 .. n : f[i] = g[i]
      BY <3>1, <3>2, FlattensSame, SMTT(30)
    <3> QED
      BY <1>5, <3>3
  <2> QED
    BY <1>2, <1>3, <1>5, <2>1, <2>2
<1> QED
  BY <1>4, <1>5

(* What is flattened consists of what there is to flatten. *)
LEMMA FlattenType ==
  ASSUME NEW S, NEW n \in Nat, NEW s \in [1 .. n -> Seq(S)]
  PROVE  FlattenSeq(s) \in Seq(S)
<1> DEFINE r(k) == [i \in 1 .. k |-> s[i]]
           T == {k \in Nat : k <= n => FlattenSeq(r(k)) \in Seq(S)}
<1>1. 0 \in T
  <2>1. r(0) \in [1 .. 0 -> {}]
    OBVIOUS
  <2>2. FlattenSeq(r(0)) = <<>>
    BY <2>1, FlattenEmpty
  <2> QED
    BY <2>2, EmptySeq
<1>2. ASSUME NEW k \in Nat, k \in T PROVE k + 1 \in T
  <2> SUFFICES ASSUME k + 1 <= n PROVE FlattenSeq(r(k + 1)) \in Seq(S)
    OBVIOUS
  <2>1. r(k + 1) \in [1 .. k + 1 -> Seq(S)] /\ r(k) \in [1 .. k -> Seq(S)]
    OBVIOUS
  <2>2. \A i \in 1 .. k : r(k)[i] = r(k + 1)[i]
    OBVIOUS
  <2>3. FlattenSeq(r(k)) \in Seq(S) /\ r(k + 1)[k + 1] \in Seq(S)
    BY <1>2, <2>1
  <2>4. FlattenSeq(r(k + 1)) = FlattenSeq(r(k)) \o r(k + 1)[k + 1]
    <3> HIDE DEF r
    <3> QED
      BY <2>1, <2>2, FlattenNext
  <2> QED
    BY <2>3, <2>4, ConcatProperties, ZenonT(30)
<1>3. \A k \in Nat : k \in T
  <2> HIDE DEF T
  <2> QED
    BY <1>1, <1>2, NaturalsBySuccessor
<1>4. r(n) = s
  OBVIOUS
<1> QED
  BY <1>3, <1>4

-----------------------------------------------------------------------------
(***************************************************************************)
(* The output of a sequential execution, operation by operation.           *)
(***************************************************************************)
Char == Nat \X Nat \X Nat
Mark == Nat \X Nat

(* What operation k of region n prints, and what it writes to the file. *)
Printed(n, k) == IF program[n][k] = ToFile THEN <<>> ELSE Text(n, k)
Written(n, k) == IF program[n][k] = ToFile THEN <<<<n, k>>>> ELSE <<>>

LEMMA ProgramType ==
  ASSUME program \in Programs, NEW n \in 1 .. NumRegions
  PROVE  /\ Len(program[n]) \in Nat
         /\ \A k \in 1 .. Len(program[n]) : program[n][k] \in Items /\ program[n][k] \in Nat
<1>1. program[n] \in UNION {[1 .. m -> Items] : m \in 0 .. MaxItems}
  BY DEF Programs
<1>2. PICK m \in 0 .. MaxItems : program[n] \in [1 .. m -> Items]
  BY <1>1
<1>3. m \in Nat /\ Items \subseteq Nat
  BY IoAssumption DEF Items, ToFile
<1>4. Len(program[n]) = m
  BY <1>2, <1>3
<1> QED
  BY <1>2, <1>3, <1>4

LEMMA PieceType ==
  ASSUME program \in Programs, NEW n \in 1 .. NumRegions, NEW k \in 1 .. Len(program[n])
  PROVE  Printed(n, k) \in Seq(Char) /\ Written(n, k) \in Seq(Mark)
<1>1. program[n][k] \in Nat /\ n \in Nat /\ k \in Nat
  BY ProgramType, IoAssumption
<1>2. Text(n, k) \in [1 .. program[n][k] -> Char]
  BY <1>1 DEF Text, Char
<1>3. Text(n, k) \in Seq(Char)
  BY <1>1, <1>2
<1>4. <<>> \in Seq(Char) /\ <<>> \in Seq(Mark)
  BY EmptySeq
<1>5. <<n, k>> \in Mark
  BY <1>1 DEF Mark
<1>6. <<<<n, k>>>> \in Seq(Mark)
  BY <1>5
<1> QED
  BY <1>3, <1>4, <1>6 DEF Printed, Written

LEMMA RegionNothing ==
  ASSUME NEW n
  PROVE  RegionText(n, 0) = <<>> /\ RegionFile(n, 0) = <<>>
<1>1. /\ [k \in 1 .. 0 |-> IF program[n][k] = ToFile THEN <<>> ELSE Text(n, k)] \in [1 .. 0 -> {}]
      /\ [k \in 1 .. 0 |-> IF program[n][k] = ToFile THEN <<<<n, k>>>> ELSE <<>>] \in [1 .. 0 -> {}]
  OBVIOUS
<1> QED
  BY <1>1, FlattenEmpty DEF RegionText, RegionFile

LEMMA RegionType ==
  ASSUME program \in Programs, NEW n \in 1 .. NumRegions, NEW k \in 0 .. Len(program[n])
  PROVE  RegionText(n, k) \in Seq(Char) /\ RegionFile(n, k) \in Seq(Mark)
<1>1. k \in Nat /\ \A i \in 1 .. k : i \in 1 .. Len(program[n])
  BY ProgramType
<1>2. [i \in 1 .. k |-> Printed(n, i)] \in [1 .. k -> Seq(Char)]
  BY <1>1, PieceType
<1>3. [i \in 1 .. k |-> Written(n, i)] \in [1 .. k -> Seq(Mark)]
  BY <1>1, PieceType
<1>4. RegionText(n, k) \in Seq(Char)
  BY <1>1, <1>2, FlattenType DEF RegionText, Printed
<1>5. RegionFile(n, k) \in Seq(Mark)
  BY <1>1, <1>3, FlattenType DEF RegionFile, Written
<1> QED
  BY <1>4, <1>5

LEMMA RegionNext ==
  ASSUME program \in Programs, NEW n \in 1 .. NumRegions, NEW k \in Nat, k < Len(program[n])
  PROVE  /\ RegionText(n, k + 1) = RegionText(n, k) \o Printed(n, k + 1)
         /\ RegionFile(n, k + 1) = RegionFile(n, k) \o Written(n, k + 1)
<1>1. \A i \in 1 .. k + 1 : i \in 1 .. Len(program[n])
  BY ProgramType
<1> DEFINE s == [i \in 1 .. k + 1 |-> Printed(n, i)]
           r == [i \in 1 .. k |-> Printed(n, i)]
           sf == [i \in 1 .. k + 1 |-> Written(n, i)]
           rf == [i \in 1 .. k |-> Written(n, i)]
<1>2. s \in [1 .. k + 1 -> Seq(Char)] /\ r \in [1 .. k -> Seq(Char)]
  BY <1>1, PieceType
<1>3. sf \in [1 .. k + 1 -> Seq(Mark)] /\ rf \in [1 .. k -> Seq(Mark)]
  BY <1>1, PieceType
<1>4. /\ \A i \in 1 .. k : r[i] = s[i] /\ rf[i] = sf[i]
      /\ s[k + 1] = Printed(n, k + 1) /\ sf[k + 1] = Written(n, k + 1)
  OBVIOUS
<1>5. RegionText(n, k + 1) = FlattenSeq(s) /\ RegionText(n, k) = FlattenSeq(r)
  BY DEF RegionText, Printed
<1>6. RegionFile(n, k + 1) = FlattenSeq(sf) /\ RegionFile(n, k) = FlattenSeq(rf)
  BY DEF RegionFile, Written
<1> HIDE DEF s, r, sf, rf
<1>7. FlattenSeq(s) = FlattenSeq(r) \o s[k + 1]
  BY <1>2, <1>4, FlattenNext
<1>8. FlattenSeq(sf) = FlattenSeq(rf) \o sf[k + 1]
  BY <1>3, <1>4, FlattenNext
<1> QED
  BY <1>4, <1>5, <1>6, <1>7, <1>8

LEMMA SequentialNothing == SequentialText(0) = <<>> /\ SequentialFile(0) = <<>>
<1>1. /\ [n \in 1 .. 0 |-> RegionText(n, Len(program[n]))] \in [1 .. 0 -> {}]
      /\ [n \in 1 .. 0 |-> RegionFile(n, Len(program[n]))] \in [1 .. 0 -> {}]
  OBVIOUS
<1> QED
  BY <1>1, FlattenEmpty DEF SequentialText, SequentialFile

LEMMA SequentialType ==
  ASSUME program \in Programs, NEW n \in 0 .. NumRegions
  PROVE  SequentialText(n) \in Seq(Char) /\ SequentialFile(n) \in Seq(Mark)
<1>1. n \in Nat /\ \A i \in 1 .. n : i \in 1 .. NumRegions
  BY IoAssumption
<1>2. \A i \in 1 .. n : Len(program[i]) \in 0 .. Len(program[i])
  BY <1>1, ProgramType
<1>3. [i \in 1 .. n |-> RegionText(i, Len(program[i]))] \in [1 .. n -> Seq(Char)]
  BY <1>1, <1>2, RegionType
<1>4. [i \in 1 .. n |-> RegionFile(i, Len(program[i]))] \in [1 .. n -> Seq(Mark)]
  BY <1>1, <1>2, RegionType
<1>5. SequentialText(n) \in Seq(Char)
  BY <1>1, <1>3, FlattenType DEF SequentialText
<1>6. SequentialFile(n) \in Seq(Mark)
  BY <1>1, <1>4, FlattenType DEF SequentialFile
<1> QED
  BY <1>5, <1>6

LEMMA SequentialNext ==
  ASSUME program \in Programs, NEW n \in Nat, n < NumRegions
  PROVE  /\ SequentialText(n + 1) = SequentialText(n) \o RegionText(n + 1, Len(program[n + 1]))
         /\ SequentialFile(n + 1) = SequentialFile(n) \o RegionFile(n + 1, Len(program[n + 1]))
<1>1. /\ \A i \in 1 .. n + 1 : i \in 1 .. NumRegions
      /\ \A i \in 1 .. n + 1 : Len(program[i]) \in 0 .. Len(program[i])
  BY IoAssumption, ProgramType
<1> DEFINE s == [i \in 1 .. n + 1 |-> RegionText(i, Len(program[i]))]
           r == [i \in 1 .. n |-> RegionText(i, Len(program[i]))]
           sf == [i \in 1 .. n + 1 |-> RegionFile(i, Len(program[i]))]
           rf == [i \in 1 .. n |-> RegionFile(i, Len(program[i]))]
<1>2. s \in [1 .. n + 1 -> Seq(Char)] /\ r \in [1 .. n -> Seq(Char)]
  BY <1>1, RegionType
<1>3. sf \in [1 .. n + 1 -> Seq(Mark)] /\ rf \in [1 .. n -> Seq(Mark)]
  BY <1>1, RegionType
<1>4. /\ \A i \in 1 .. n : r[i] = s[i] /\ rf[i] = sf[i]
      /\ s[n + 1] = RegionText(n + 1, Len(program[n + 1]))
      /\ sf[n + 1] = RegionFile(n + 1, Len(program[n + 1]))
  OBVIOUS
<1>5. /\ SequentialText(n + 1) = FlattenSeq(s) /\ SequentialText(n) = FlattenSeq(r)
      /\ SequentialFile(n + 1) = FlattenSeq(sf) /\ SequentialFile(n) = FlattenSeq(rf)
  BY DEF SequentialText, SequentialFile
<1> HIDE DEF s, r, sf, rf
<1>6. FlattenSeq(s) = FlattenSeq(r) \o s[n + 1]
  BY <1>2, <1>4, FlattenNext
<1>7. FlattenSeq(sf) = FlattenSeq(rf) \o sf[n + 1]
  BY <1>3, <1>4, FlattenNext
<1> QED
  BY <1>4, <1>5, <1>6, <1>7

-----------------------------------------------------------------------------
(***************************************************************************)
(* Buffers.  A cell holds a character, a zero or what was there before.    *)
(***************************************************************************)
Cell == Char \cup {Nul, Junk}
Buffer == [alloc : Nat, used : Nat, data : Seq(Cell)]

LEMMA Cells == Nul \notin Char /\ Nul \in Cell /\ Junk \in Cell /\ Char \subseteq Cell
<1>1. \A c \in Char : Len(c) = 3
  BY DEF Char
<1>2. Len(Nul) = 1
  BY DEF Nul
<1> QED
  BY <1>1, <1>2 DEF Cell

Doubles(a, n, f) == f = [k \in 0 .. n |-> IF k = 0 THEN a ELSE 2 * f[k - 1]]

LEMMA DoublesNext ==
  ASSUME NEW a, NEW n \in Nat, NEW f, Doubles(a, n, f)
  PROVE  \E g : Doubles(a, n + 1, g)
<1> DEFINE g == [k \in 0 .. n + 1 |-> IF k = n + 1 THEN 2 * f[n] ELSE f[k]]
<1>1. ASSUME NEW k \in 0 .. n + 1
      PROVE  g[k] = IF k = 0 THEN a ELSE 2 * g[k - 1]
  <2>1. CASE k = n + 1
    BY <2>1
  <2>2. CASE k # n + 1
    <3>1. k \in 0 .. n /\ (k # 0 => k - 1 \in 0 .. n)
      BY <2>2
    <3>2. f[k] = IF k = 0 THEN a ELSE 2 * f[k - 1]
      BY <3>1 DEF Doubles
    <3> QED
      BY <2>2, <3>1, <3>2
  <2> QED
    BY <2>1, <2>2
<1>2. g = [k \in 0 .. n + 1 |-> IF k = 0 THEN a ELSE 2 * g[k - 1]]
  BY <1>1
<1> QED
  BY <1>2 DEF Doubles

LEMMA DoublesAll ==
  ASSUME NEW a, NEW n \in Nat
  PROVE  \E f : Doubles(a, n, f)
<1> DEFINE T == {d \in Nat : \E f : Doubles(a, d, f)}
<1>1. 0 \in T
  <2> DEFINE f == [k \in 0 .. 0 |-> a]
  <2>1. Doubles(a, 0, f)
    BY DEF Doubles
  <2> QED
    BY <2>1
<1>2. ASSUME NEW d \in Nat, d \in T PROVE d + 1 \in T
  BY <1>2, DoublesNext
<1>3. \A d \in Nat : d \in T
  <2> HIDE DEF T
  <2> QED
    BY <1>1, <1>2, NaturalsBySuccessor
<1> QED
  BY <1>3

(* Doubling often enough makes any room. *)
LEMMA DoublesGrow ==
  ASSUME NEW a \in Nat, a > 0, NEW n \in Nat, NEW f, Doubles(a, n, f)
  PROVE  \A k \in 0 .. n : f[k] \in Nat /\ f[k] >= a + k
<1>0. \A k \in 0 .. n : f[k] = IF k = 0 THEN a ELSE 2 * f[k - 1]
  BY DEF Doubles
<1> DEFINE T == {d \in Nat : d <= n => f[d] \in Nat /\ f[d] >= a + d}
<1>1. 0 \in T
  BY <1>0
<1>2. ASSUME NEW d \in Nat, d \in T PROVE d + 1 \in T
  <2> SUFFICES ASSUME d + 1 <= n PROVE f[d + 1] \in Nat /\ f[d + 1] >= a + (d + 1)
    OBVIOUS
  <2>1. d + 1 \in 0 .. n /\ d + 1 # 0 /\ (d + 1) - 1 = d /\ d <= n
    OBVIOUS
  <2>2. f[d + 1] = 2 * f[d] /\ f[d] \in Nat /\ f[d] >= a + d
    BY <1>0, <1>2, <2>1
  <2> QED
    BY <2>2
<1>3. \A d \in Nat : d \in T
  <2> HIDE DEF T
  <2> QED
    BY <1>1, <1>2, NaturalsBySuccessor
<1> QED
  BY <1>3

LEMMA MinIs ==
  ASSUME NEW T \in SUBSET Nat, T # {}
  PROVE  Min(T) \in T /\ \A x \in T : Min(T) <= x
BY LeastNatural DEF Min

(* realloc makes the room it is asked for, and keeps what there is. *)
LEMMA GrowMakesRoom ==
  ASSUME NEW b \in Buffer, b.used \in 1 .. b.alloc, Len(b.data) = b.alloc,
         NEW size \in Nat
  PROVE  /\ Grow(b, size) \in Buffer
         /\ Grow(b, size).used = b.used
         /\ Grow(b, size).alloc >= b.used + size /\ Grow(b, size).alloc > b.alloc
         /\ Len(Grow(b, size).data) = Grow(b, size).alloc
         /\ \A i \in 1 .. b.alloc : Grow(b, size).data[i] = b.data[i]
<1> DEFINE f == CHOOSE f : Doubles(b.alloc, size + 1, f)
           T == {s \in {f[k] : k \in 1 .. size + 1} : s >= b.used + size}
           new == Min(T)
           more == [i \in 1 .. new - b.alloc |-> Junk]
<1>1. b.alloc \in Nat /\ b.alloc > 0 /\ b.used \in Nat /\ b.data \in Seq(Cell) /\ size + 1 \in Nat
  BY DEF Buffer
<1>2. Doubles(b.alloc, size + 1, f)
  BY <1>1, DoublesAll
<1>3. \A k \in 0 .. size + 1 : f[k] \in Nat /\ f[k] >= b.alloc + k
  <2> HIDE DEF f
  <2> QED
    BY <1>1, <1>2, DoublesGrow
<1>4. T \in SUBSET Nat /\ T # {} /\ \A s \in T : s > b.alloc /\ s >= b.used + size
  <2> HIDE DEF f
  <2>1. size + 1 \in 1 .. size + 1 /\ f[size + 1] >= b.used + size
    BY <1>1, <1>3
  <2>2. \A k \in 1 .. size + 1 : f[k] \in Nat /\ f[k] > b.alloc
    BY <1>1, <1>3
  <2> QED
    BY <2>1, <2>2
<1>5. new \in Nat /\ new > b.alloc /\ new >= b.used + size
  <2> HIDE DEF T
  <2> QED
    BY <1>4, MinIs
<1>6. Grow(b, size) = [b EXCEPT !.alloc = new, !.data = b.data \o more]
  BY DEF Grow, Doubles
<1> HIDE DEF new
<1>7. more \in Seq(Cell) /\ Len(more) = new - b.alloc
  <2>1. new - b.alloc \in Nat
    BY <1>1, <1>5
  <2>2. more \in [1 .. new - b.alloc -> Cell]
    BY Cells
  <2> QED
    BY <2>1, <2>2
<1> HIDE DEF more
<1>8. /\ b.data \o more \in Seq(Cell)
      /\ Len(b.data \o more) = new
      /\ \A i \in 1 .. b.alloc : (b.data \o more)[i] = b.data[i]
  <2> DEFINE d == b.data
  <2>1. d \in Seq(Cell) /\ Len(d) = b.alloc
    BY <1>1
  <2> HIDE DEF d
  <2>2. /\ d \o more \in Seq(Cell)
        /\ Len(d \o more) = Len(d) + Len(more)
        /\ \A i \in 1 .. Len(d) + Len(more) :
             (d \o more)[i] = IF i <= Len(d) THEN d[i] ELSE more[i - Len(d)]
    BY <2>1, <1>7, ConcatProperties
  <2>3. Len(d \o more) = new /\ \A i \in 1 .. b.alloc : (d \o more)[i] = d[i]
    BY <2>1, <2>2, <1>1, <1>5, <1>7
  <2> QED
    BY <2>2, <2>3 DEF d
<1> QED
  BY <1>1, <1>5, <1>6, <1>8 DEF Buffer


(* vsnprintf leaves what comes before the terminating zero, and writes as  *)
(* much of the text as there is room for, with a zero after it.            *)
LEMMA VsnprintfIs ==
  ASSUME NEW b \in Buffer, b.used \in 1 .. b.alloc, Len(b.data) = b.alloc,
         NEW t \in Seq(Char), Len(t) > 0
  PROVE  /\ Vsnprintf(b, t) \in Seq(Cell)
         /\ Len(Vsnprintf(b, t)) = b.alloc
         /\ \A i \in 1 .. b.used - 1 : Vsnprintf(b, t)[i] = b.data[i]
         /\ b.used < b.alloc =>
              \E n \in 0 .. Len(t) :
                /\ b.used + n < b.alloc /\ (b.used + Len(t) < b.alloc => n = Len(t))
                /\ Vsnprintf(b, t)[b.used + n] = Nul
                /\ \A i \in b.used .. b.used + n - 1 : Vsnprintf(b, t)[i] = t[i - b.used + 1]
<1>1. /\ b.alloc \in Nat /\ b.used \in Nat /\ b.data \in Seq(Cell) /\ Len(t) \in Nat
      /\ DOMAIN b.data = 1 .. b.alloc /\ b.data \in [1 .. b.alloc -> Cell]
      /\ \A i \in 1 .. Len(t) : t[i] \in Cell
  BY Cells, ElementOfSeq, LenProperties DEF Buffer
<1>2. CASE b.used = b.alloc
  <2>1. Vsnprintf(b, t) = b.data
    BY <1>1, <1>2 DEF Vsnprintf, Avail
  <2> QED
    BY <2>1, <1>1, <1>2
<1>3. CASE b.used # b.alloc
  <2> DEFINE T == {Len(t), Avail(b) - 1}
             n == Min(T)
             d == [i \in 1 .. b.alloc |->
                     CASE i \in b.used .. b.used + n - 1 -> t[i - b.used + 1]
                       [] i = b.used + n -> Nul
                       [] OTHER -> b.data[i]]
  <2>1. T \in SUBSET Nat /\ T # {} /\ Avail(b) = b.alloc - b.used /\ Avail(b) # 0
    BY <1>1, <1>3 DEF Avail
  <2>2. Min(T) \in T /\ \A x \in T : Min(T) <= x
    <3> HIDE DEF T
    <3> QED
      BY <2>1, MinIs
  <2>3. /\ n \in 0 .. Len(t) /\ b.used + n < b.alloc
        /\ b.used + Len(t) < b.alloc => n = Len(t)
    BY <2>1, <2>2, <1>1, <1>3
  <2>4. Vsnprintf(b, t) = d
    BY <2>1, <1>1 DEF Vsnprintf
  <2> HIDE DEF n
  <2>5. ASSUME NEW i \in 1 .. b.alloc
        PROVE  /\ d[i] \in Cell
               /\ i < b.used => d[i] = b.data[i]
               /\ i = b.used + n => d[i] = Nul
               /\ i \in b.used .. b.used + n - 1 => d[i] = t[i - b.used + 1]
    <3>1. CASE i \in b.used .. b.used + n - 1
      <4>1. i - b.used + 1 \in 1 .. Len(t) /\ d[i] = t[i - b.used + 1]
        BY <3>1, <2>3, <1>1, SMTT(30)
      <4> QED
        BY <4>1, <3>1, <1>1, <2>3
    <3>2. CASE i = b.used + n
      <4>1. d[i] = Nul
        BY <3>2, <2>3, <1>1
      <4> QED
        BY <4>1, <3>2, <2>3, <1>1, Cells
    <3>3. CASE i \notin b.used .. b.used + n - 1 /\ i # b.used + n
      <4>1. d[i] = b.data[i]
        BY <3>3, <2>3, <1>1
      <4> QED
        BY <4>1, <3>3, <2>3, <1>1
    <3> QED
      BY <3>1, <3>2, <3>3
  <2>6. d \in [1 .. b.alloc -> Cell]
    BY <2>5
  <2> HIDE DEF d
  <2>7. d \in Seq(Cell) /\ Len(d) = b.alloc
    BY <2>6, <1>1
  <2>8. /\ \A i \in 1 .. b.used - 1 : d[i] = b.data[i]
        /\ d[b.used + n] = Nul
        /\ \A i \in b.used .. b.used + n - 1 : d[i] = t[i - b.used + 1]
    <3>1. \A i \in 1 .. b.used - 1 : i \in 1 .. b.alloc /\ i < b.used
      BY <2>3, <1>1
    <3>2. b.used + n \in 1 .. b.alloc
      BY <2>3, <1>1
    <3>3. \A i \in b.used .. b.used + n - 1 : i \in 1 .. b.alloc
      BY <2>3, <1>1
    <3>4. \A i \in 1 .. b.used - 1 : d[i] = b.data[i]
      BY <3>1, <2>5
    <3>5. d[b.used + n] = Nul
      BY <3>2, <2>5
    <3>6. \A i \in b.used .. b.used + n - 1 : d[i] = t[i - b.used + 1]
      BY <3>3, <2>5
    <3> QED
      BY <3>4, <3>5, <3>6
  <2> QED
    BY <2>3, <2>4, <2>7, <2>8
<1> QED
  BY <1>2, <1>3

(* A buffer holds a text up to a zero, which is where it should be unless  *)
(* some text has lost its last character.                                  *)
Holds(b, text, exact) ==
  /\ b \in Buffer /\ b.used \in 1 .. b.alloc /\ Len(b.data) = b.alloc
  /\ text \in Seq(Char) /\ b.used = Len(text) + 1
  /\ \E z \in 1 .. b.used :
       /\ b.data[z] = Nul
       /\ \A i \in 1 .. z - 1 : b.data[i] = text[i]
       /\ exact => z = b.used

LEMMA InitHolds == ASSUME NEW exact PROVE Holds(InitBuffer, <<>>, exact)
<1> DEFINE b == InitBuffer
<1>1. b.alloc = 1 /\ b.used = 1 /\ b.data = <<Nul>>
  BY DEF InitBuffer
<1>2. <<Nul>> \in Seq(Cell) /\ Len(<<Nul>>) = 1 /\ <<Nul>>[1] = Nul
  BY Cells
<1>3. b \in Buffer
  BY <1>2 DEF Buffer, InitBuffer
<1>4. <<>> \in Seq(Char) /\ Len(<<>>) = 0
  BY EmptySeq
<1> HIDE DEF b
<1>5. \E z \in 1 .. b.used : /\ b.data[z] = Nul
                             /\ \A i \in 1 .. z - 1 : b.data[i] = <<>>[i]
                             /\ exact => z = b.used
  <2>1. 1 \in 1 .. b.used /\ b.data[1] = Nul /\ 1 = b.used /\ \A i \in 1 .. 1 - 1 : FALSE
    BY <1>1, <1>2
  <2> QED
    BY <2>1
<1>6. Holds(b, <<>>, exact)
  BY <1>1, <1>2, <1>3, <1>4, <1>5 DEF Holds
<1> QED
  BY <1>6 DEF b


(* The buffer after the room for a text has been made. *)
Room(b, t) ==
  LET tried == [b EXCEPT !.data = Vsnprintf(b, t)]
  IN  IF TooLong(b, t) THEN Grow(tried, Len(t)) ELSE b

LEMMA RoomIs ==
  ASSUME NEW b \in Buffer, b.used \in 1 .. b.alloc, Len(b.data) = b.alloc,
         NEW t \in Seq(Char), Len(t) > 0
  PROVE  /\ Room(b, t) \in Buffer /\ Room(b, t).used = b.used
         /\ Room(b, t).alloc >= b.used + Len(t)
         /\ Len(Room(b, t).data) = Room(b, t).alloc
         /\ \A i \in 1 .. b.used - 1 : Room(b, t).data[i] = b.data[i]
<1>1. b.alloc \in Nat /\ b.used \in Nat /\ b.data \in Seq(Cell) /\ Len(t) \in Nat
  BY LenProperties DEF Buffer
<1>2. CASE TooLong(b, t)
  <2> DEFINE v == Vsnprintf(b, t)
             tried == [b EXCEPT !.data = v]
  <2>1. v \in Seq(Cell) /\ Len(v) = b.alloc /\ \A i \in 1 .. b.used - 1 : v[i] = b.data[i]
    BY VsnprintfIs
  <2> HIDE DEF v
  <2>2. /\ tried \in Buffer /\ tried.used = b.used /\ tried.alloc = b.alloc /\ tried.data = v
    BY <2>1 DEF Buffer
  <2>3. Room(b, t) = Grow(tried, Len(t))
    BY <1>2 DEF Room, v
  <2> HIDE DEF tried
  <2>4. /\ Grow(tried, Len(t)) \in Buffer
        /\ Grow(tried, Len(t)).used = b.used
        /\ Grow(tried, Len(t)).alloc >= b.used + Len(t)
        /\ Len(Grow(tried, Len(t)).data) = Grow(tried, Len(t)).alloc
        /\ \A i \in 1 .. b.alloc : Grow(tried, Len(t)).data[i] = v[i]
    BY <2>1, <2>2, <1>1, GrowMakesRoom
  <2>5. \A i \in 1 .. b.used - 1 : i \in 1 .. b.alloc
    BY <1>1
  <2> QED
    BY <2>1, <2>3, <2>4, <2>5
<1>3. CASE ~TooLong(b, t)
  <2>1. Room(b, t) = b
    BY <1>3 DEF Room
  <2>2. b.alloc >= b.used + Len(t)
    BY <1>1, <1>3 DEF TooLong, Avail
  <2> QED
    BY <2>1, <2>2
<1> QED
  BY <1>2, <1>3

LEMMA StoreIs ==
  ASSUME NEW b \in Buffer, NEW t, Room(b, t) \in Buffer
  PROVE  /\ Store(b, t).alloc = Room(b, t).alloc
         /\ Store(b, t).used = Room(b, t).used + Len(t)
         /\ Store(b, t).data = Vsnprintf(Room(b, t), t)
         /\ Store(b, t) = [alloc |-> Room(b, t).alloc, used |-> Room(b, t).used + Len(t),
                           data |-> Vsnprintf(Room(b, t), t)]
<1> DEFINE r == Room(b, t)
<1>1. Store(b, t) = [r EXCEPT !.data = Vsnprintf(r, t), !.used = @ + Len(t)]
  BY DEF Store, Room
<1> HIDE DEF r
<1>2. r \in Buffer
  BY DEF r
<1>3. Store(b, t) = [alloc |-> r.alloc, used |-> r.used + Len(t), data |-> Vsnprintf(r, t)]
  BY <1>1, <1>2 DEF Buffer
<1> QED
  BY <1>3 DEF r

(* BOP_printf appends a text to what the buffer holds. *)
LEMMA StoreHolds ==
  ASSUME NEW b, NEW text, NEW exact, Holds(b, text, exact), NEW t \in Seq(Char), Len(t) > 0,
         NEW exact2, exact2 => exact /\ Store(b, t).used # Store(b, t).alloc
  PROVE  Holds(Store(b, t), text \o t, exact2)
<1> DEFINE r == Room(b, t)
           s == Store(b, t)
           v == Vsnprintf(r, t)
<1>1. /\ b \in Buffer /\ b.used \in 1 .. b.alloc /\ Len(b.data) = b.alloc
      /\ text \in Seq(Char) /\ b.used = Len(text) + 1
      /\ Len(t) \in Nat /\ Len(text) \in Nat
  BY LenProperties DEF Holds
<1>2. /\ r \in Buffer /\ r.used = b.used /\ r.alloc >= b.used + Len(t)
      /\ Len(r.data) = r.alloc /\ \A i \in 1 .. b.used - 1 : r.data[i] = b.data[i]
  BY <1>1, RoomIs
<1>3. s.alloc = r.alloc /\ s.used = r.used + Len(t) /\ s.data = v
      /\ s = [alloc |-> r.alloc, used |-> r.used + Len(t), data |-> v]
  BY <1>1, <1>2, StoreIs
<1> HIDE DEF r, s
<1>4. r.alloc \in Nat /\ r.used \in 1 .. r.alloc /\ r.used < r.alloc /\ b.used \in Nat
  BY <1>1, <1>2 DEF Buffer
<1>5. /\ v \in Seq(Cell) /\ Len(v) = r.alloc
      /\ \A i \in 1 .. b.used - 1 : v[i] = b.data[i]
  BY <1>2, <1>4, VsnprintfIs
<1>6. PICK n \in 0 .. Len(t) :
        /\ b.used + n < r.alloc /\ (b.used + Len(t) < r.alloc => n = Len(t))
        /\ v[b.used + n] = Nul
        /\ \A i \in b.used .. b.used + n - 1 : v[i] = t[i - b.used + 1]
  <2>1. r.used < r.alloc =>
          \E n \in 0 .. Len(t) :
            /\ r.used + n < r.alloc /\ (r.used + Len(t) < r.alloc => n = Len(t))
            /\ v[r.used + n] = Nul
            /\ \A i \in r.used .. r.used + n - 1 : v[i] = t[i - r.used + 1]
    BY <1>2, <1>4, VsnprintfIs
  <2> QED
    BY <2>1, <1>2, <1>4
<1> HIDE DEF v
<1>7. /\ text \o t \in Seq(Char) /\ Len(text \o t) = Len(text) + Len(t)
      /\ \A i \in 1 .. Len(text) + Len(t) :
           (text \o t)[i] = IF i <= Len(text) THEN text[i] ELSE t[i - Len(text)]
  BY <1>1, ConcatProperties
<1>8. s \in Buffer /\ s.used \in 1 .. s.alloc /\ Len(s.data) = s.alloc
      /\ s.used = Len(text \o t) + 1
  <2>1. s.used \in Nat /\ s.used \in 1 .. s.alloc
    BY <1>1, <1>2, <1>3, <1>4
  <2>2. s \in Buffer
    BY <1>2, <1>3, <1>5, <2>1 DEF Buffer
  <2> QED
    BY <1>1, <1>2, <1>3, <1>5, <1>7, <2>1, <2>2
<1>9. PICK z \in 1 .. b.used :
        /\ b.data[z] = Nul
        /\ \A i \in 1 .. z - 1 : b.data[i] = text[i]
        /\ exact => z = b.used
  BY DEF Holds
<1>10. CASE z < b.used
  <2>1. z \in 1 .. s.used /\ s.data[z] = Nul
    BY <1>1, <1>2, <1>3, <1>4, <1>5, <1>9, <1>10, SMTT(30)
  <2>2. ASSUME NEW i \in 1 .. z - 1 PROVE s.data[i] = (text \o t)[i]
    <3>1. i \in 1 .. b.used - 1 /\ i \in 1 .. Len(text) + Len(t) /\ i <= Len(text)
      BY <1>1, <1>10
    <3> QED
      BY <3>1, <1>3, <1>5, <1>7, <1>9
  <2>3. ~exact2
    BY <1>9, <1>10
  <2> QED
    BY <2>1, <2>2, <2>3, <1>7, <1>8 DEF Holds, s
<1>11. CASE z = b.used
  <2> DEFINE y == b.used + n
  <2>1. y \in 1 .. s.used /\ s.data[y] = Nul
    BY <1>1, <1>2, <1>3, <1>4, <1>6
  <2>2. ASSUME NEW i \in 1 .. y - 1 PROVE s.data[i] = (text \o t)[i]
    <3>1. i \in 1 .. Len(text) + Len(t)
      BY <1>1
    <3>2. CASE i < b.used
      <4>1. i \in 1 .. b.used - 1 /\ i \in 1 .. z - 1 /\ i <= Len(text)
        BY <3>2, <1>1, <1>11
      <4> QED
        BY <4>1, <3>1, <1>3, <1>5, <1>7, <1>9
    <3>3. CASE i >= b.used
      <4>1. i \in b.used .. b.used + n - 1 /\ ~(i <= Len(text)) /\ i - b.used + 1 = i - Len(text)
        BY <3>3, <1>1
      <4> QED
        BY <4>1, <3>1, <1>3, <1>6, <1>7
    <3> QED
      BY <3>2, <3>3, <1>1
  <2>3. exact2 => y = s.used
    <3> SUFFICES ASSUME exact2 PROVE y = s.used
      OBVIOUS
    <3>1. s.used # s.alloc
      BY DEF s
    <3>2. b.used + Len(t) # r.alloc /\ b.used + Len(t) <= r.alloc
      BY <3>1, <1>2, <1>3
    <3>3. b.used + Len(t) < r.alloc
      BY <3>2, <1>1, <1>4
    <3> QED
      BY <3>3, <1>2, <1>3, <1>6
  <2> HIDE DEF y
  <2> QED
    BY <2>1, <2>2, <2>3, <1>7, <1>8 DEF Holds, s
<1> QED
  BY <1>1, <1>9, <1>10, <1>11

(* What printf shows of a buffer is the text, or the front part of it. *)
LEMMA CStringIs ==
  ASSUME NEW b, NEW text, NEW exact, Holds(b, text, exact)
  PROVE  /\ IsPrefix(CString(b), text)
         /\ CString(b) \in Seq(Char)
         /\ exact => CString(b) = text
<1>1. /\ b \in Buffer /\ b.used \in 1 .. b.alloc /\ Len(b.data) = b.alloc
      /\ text \in Seq(Char) /\ b.used = Len(text) + 1 /\ Len(text) \in Nat
      /\ b.alloc \in Nat /\ b.data \in Seq(Cell) /\ DOMAIN b.data = 1 .. b.alloc
  BY LenProperties DEF Holds, Buffer
<1>2. PICK z \in 1 .. b.used :
        /\ b.data[z] = Nul
        /\ \A i \in 1 .. z - 1 : b.data[i] = text[i]
        /\ exact => z = b.used
  BY DEF Holds
<1>3. \A i \in 1 .. z - 1 : i \in 1 .. Len(text) /\ text[i] \in Char /\ b.data[i] # Nul
  <2>1. \A i \in 1 .. z - 1 : i \in 1 .. Len(text)
    BY <1>1
  <2> QED
    BY <2>1, <1>1, <1>2, ElementOfSeq, Cells
<1> DEFINE T == {i \in DOMAIN b.data : b.data[i] = Nul}
<1>4. Min(T) = z
  <2>1. T \in SUBSET Nat /\ z \in T
    BY <1>1, <1>2
  <2>2. \A i \in T : z <= i
    BY <1>1, <1>3
  <2> HIDE DEF T
  <2>3. Min(T) \in T /\ Min(T) <= z
    BY <2>1, MinIs
  <2>4. z \in Nat /\ Min(T) \in Nat /\ z <= Min(T)
    BY <2>1, <2>2, <2>3
  <2> QED
    BY <2>3, <2>4
<1>5. CString(b) = SubSeq(b.data, 1, z - 1)
  BY <1>4 DEF CString
<1> DEFINE c == SubSeq(b.data, 1, z - 1)
<1>6. /\ c \in Seq(Char) /\ Len(c) = z - 1
      /\ \A i \in 1 .. z - 1 : c[i] = text[i]
  <2> DEFINE d == b.data
             m == z - 1
  <2>1. m \in Int /\ 1 \in Int /\ \A i \in 1 .. m : d[i] \in Char
    BY <1>2, <1>3
  <2> HIDE DEF d, m
  <2>2. /\ SubSeq(d, 1, m) \in Seq(Char)
        /\ Len(SubSeq(d, 1, m)) = IF 1 <= m THEN m - 1 + 1 ELSE 0
        /\ \A i \in 1 .. m - 1 + 1 : SubSeq(d, 1, m)[i] = d[1 + i - 1]
    BY <2>1, SubSeqProperties
  <2>3. m = z - 1 /\ m >= 0
    BY DEF m
  <2>4. Len(SubSeq(d, 1, m)) = m /\ \A i \in 1 .. m : SubSeq(d, 1, m)[i] = d[i]
    BY <2>1, <2>2, <2>3
  <2> QED
    BY <2>2, <2>3, <2>4, <1>2 DEF d, m
<1> HIDE DEF c
<1>7. Len(c) <= Len(text) /\ Len(c) \in Nat
  BY <1>1, <1>6
<1>8. SubSeq(text, 1, Len(c)) = c /\ SubSeq(c, 1, Len(c)) = c
  <2> DEFINE m == Len(c)
  <2>1. m \in Int /\ 1 \in Int /\ \A i \in 1 .. m : text[i] \in Char
    BY <1>3, <1>6, <1>7
  <2>2. m \in Nat /\ m = Len(c) /\ \A i \in 1 .. m : c[i] = text[i]
    BY <1>6, <1>7
  <2> HIDE DEF m
  <2>3. /\ SubSeq(text, 1, m) \in Seq(Char)
        /\ Len(SubSeq(text, 1, m)) = IF 1 <= m THEN m - 1 + 1 ELSE 0
        /\ \A i \in 1 .. m - 1 + 1 : SubSeq(text, 1, m)[i] = text[1 + i - 1]
    BY <2>1, SubSeqProperties
  <2>4. Len(SubSeq(text, 1, m)) = m /\ \A i \in 1 .. m : SubSeq(text, 1, m)[i] = text[i]
    BY <2>2, <2>3
  <2>5. SubSeq(text, 1, m) = c
    BY <2>2, <2>3, <2>4, <1>6, SeqEqual
  <2>6. SubSeq(c, 1, Len(c)) = c
    BY <1>6, SubSeqFull
  <2> QED
    BY <2>2, <2>5, <2>6
<1>9. exact => c = text
  <2> SUFFICES ASSUME exact PROVE c = text
    OBVIOUS
  <2>1. Len(c) = Len(text)
    BY <1>1, <1>2, <1>6
  <2>2. \A i \in 1 .. Len(c) : c[i] = text[i]
    BY <1>6
  <2> QED
    BY <2>1, <2>2, <1>1, <1>6, SeqEqual
<1>10. IsPrefix(c, text)
  BY <1>7, <1>8 DEF IsPrefix
<1> QED
  BY <1>5, <1>6, <1>9, <1>10 DEF c

-----------------------------------------------------------------------------
(***************************************************************************)
(* The text and the file of a sequential execution that has completed n    *)
(* regions and the first k operations of the next.                         *)
(***************************************************************************)
TextAt(n, k) == SequentialText(n) \o RegionText(n + 1, k)
FileAt(n, k) == SequentialFile(n) \o RegionFile(n + 1, k)

LEMMA Regroups ==
  ASSUME NEW S, NEW a \in Seq(S), NEW b \in Seq(S), NEW c \in Seq(S), NEW d, d = b \o c
  PROVE  a \o d = (a \o b) \o c
BY ConcatAssociative

LEMMA AtStart ==
  ASSUME program \in Programs, NEW n \in 0 .. NumRegions
  PROVE  TextAt(n, 0) = SequentialText(n) /\ FileAt(n, 0) = SequentialFile(n)
<1>1. RegionText(n + 1, 0) = <<>> /\ RegionFile(n + 1, 0) = <<>>
  BY RegionNothing
<1>2. SequentialText(n) \in Seq(Char) /\ SequentialFile(n) \in Seq(Mark)
  BY SequentialType
<1> QED
  BY <1>1, <1>2, ConcatEmptySeq DEF TextAt, FileAt

LEMMA AtType ==
  ASSUME program \in Programs, NEW n \in Nat, n < NumRegions,
         NEW k \in 0 .. Len(program[n + 1])
  PROVE  TextAt(n, k) \in Seq(Char) /\ FileAt(n, k) \in Seq(Mark)
<1>1. n \in 0 .. NumRegions /\ n + 1 \in 1 .. NumRegions
  BY IoAssumption
<1>2. SequentialText(n) \in Seq(Char) /\ SequentialFile(n) \in Seq(Mark)
  BY <1>1, SequentialType
<1>3. RegionText(n + 1, k) \in Seq(Char) /\ RegionFile(n + 1, k) \in Seq(Mark)
  BY <1>1, RegionType
<1> QED
  BY <1>2, <1>3, ConcatProperties DEF TextAt, FileAt

LEMMA AtNext ==
  ASSUME program \in Programs, NEW n \in Nat, n < NumRegions,
         NEW k \in Nat, k < Len(program[n + 1])
  PROVE  /\ TextAt(n, k + 1) = TextAt(n, k) \o Printed(n + 1, k + 1)
         /\ FileAt(n, k + 1) = FileAt(n, k) \o Written(n + 1, k + 1)
<1> DEFINE m == n + 1
<1>1. n \in 0 .. NumRegions /\ m \in 1 .. NumRegions
  BY IoAssumption
<1>2. SequentialText(n) \in Seq(Char) /\ SequentialFile(n) \in Seq(Mark)
  BY <1>1, SequentialType
<1>3. k \in 0 .. Len(program[m]) /\ k + 1 \in 1 .. Len(program[m])
  BY <1>1, ProgramType
<1> HIDE DEF m
<1>4. RegionText(m, k) \in Seq(Char) /\ RegionFile(m, k) \in Seq(Mark)
  BY <1>1, <1>3, RegionType
<1> DEFINE p == Printed(m, k + 1)
           w == Written(m, k + 1)
<1>5. p \in Seq(Char) /\ w \in Seq(Mark)
  BY <1>1, <1>3, PieceType
<1>6. RegionText(m, k + 1) = RegionText(m, k) \o p /\ RegionFile(m, k + 1) = RegionFile(m, k) \o w
  <2>1. k < Len(program[m])
    BY DEF m
  <2> QED
    BY <2>1, <1>1, RegionNext
<1>7. SequentialText(n) \o RegionText(m, k + 1) = (SequentialText(n) \o RegionText(m, k)) \o p
  <2> DEFINE a == SequentialText(n)  b == RegionText(m, k)  d == RegionText(m, k + 1)
  <2>1. a \in Seq(Char) /\ b \in Seq(Char) /\ p \in Seq(Char) /\ d = b \o p
    BY <1>2, <1>4, <1>5, <1>6
  <2> HIDE DEF a, b, d, p
  <2>2. a \o d = (a \o b) \o p
    BY <2>1, Regroups, SMTT(30)
  <2> QED
    BY <2>2 DEF a, b, d, p
<1>8. SequentialFile(n) \o RegionFile(m, k + 1) = (SequentialFile(n) \o RegionFile(m, k)) \o w
  <2> DEFINE a == SequentialFile(n)  b == RegionFile(m, k)  d == RegionFile(m, k + 1)
  <2>1. a \in Seq(Mark) /\ b \in Seq(Mark) /\ w \in Seq(Mark) /\ d = b \o w
    BY <1>2, <1>4, <1>5, <1>6
  <2> HIDE DEF a, b, d, w
  <2>2. a \o d = (a \o b) \o w
    BY <2>1, Regroups, SMTT(30)
  <2> QED
    BY <2>2 DEF a, b, d, w
<1> QED
  BY <1>7, <1>8 DEF TextAt, FileAt, m

LEMMA AtEnd ==
  ASSUME program \in Programs, NEW n \in Nat, n < NumRegions
  PROVE  /\ TextAt(n, Len(program[n + 1])) = SequentialText(n + 1)
         /\ FileAt(n, Len(program[n + 1])) = SequentialFile(n + 1)
BY SequentialNext DEF TextAt, FileAt

(* The program does not change, so neither does its sequential output. *)
LEMMA ProgramFixed ==
  ASSUME program' = program
  PROVE  /\ \A n, k : RegionText(n, k)' = RegionText(n, k)
         /\ \A n, k : TextAt(n, k)' = TextAt(n, k) /\ FileAt(n, k)' = FileAt(n, k)
         /\ \A n : SequentialText(n)' = SequentialText(n) /\ SequentialFile(n)' = SequentialFile(n)
BY DEF RegionText, RegionFile, Text, SequentialText, SequentialFile, TextAt, FileAt

-----------------------------------------------------------------------------
(***************************************************************************)
(* The inductive invariant.                                                *)
(***************************************************************************)
IoType ==
  /\ program \in Programs /\ buffered \in BOOLEAN
  /\ now \in 0 .. NumRegions
  /\ st \in [Task -> {"none", "run", "ended", "dead"}]
  /\ pos \in [Task -> Nat]
  /\ io \in [Task -> Seq(Char)]
  /\ stdout \in Seq(Char)
  /\ truncated \in BOOLEAN /\ unforked \in BOOLEAN /\ dropped \in BOOLEAN

NoTask == st["main"] = "none" /\ st["spec"] = "none" /\ st["undy"] = "none"
MainRuns == st["main"] = "run" /\ st["undy"] = "none"
UndyRuns == st["main"] = "ended" /\ st["undy"] = "run" /\ phase = "group"

Shape ==
  \/ phase \in {"seq", "crash"} /\ NoTask
  \/ phase = "end" /\ NoTask /\ now = NumRegions
  \/ phase = "serial" /\ MainRuns /\ st["spec"] = "none" /\ now < NumRegions
  \/ phase = "group" /\ (MainRuns \/ UndyRuns) /\ st["spec"] \in {"run", "dead"} /\ now < NumRegions

(* MAIN is in its region, then at its end; the understudy is in the next   *)
(* region, if there is one; the SPEC ends at the first output operation.   *)
Positions ==
  /\ MainRuns => pos["main"] <= Len(program[now + 1]) /\ pos["undy"] = 0
  /\ UndyRuns => pos["main"] = Len(program[now + 1])
  /\ UndyRuns => IF now + 2 <= NumRegions THEN pos["undy"] <= Len(program[now + 2])
                 ELSE pos["undy"] = 0
  /\ st["spec"] = "run" => pos["spec"] = 0

Files ==
  /\ phase = "seq" => file = FileAt(now, 0)
  /\ MainRuns => file = FileAt(now, pos["main"])
  /\ UndyRuns => file = FileAt(now + 1, pos["undy"])

Buffers ==
  /\ phase = "serial" => unforked
  /\ phase = "seq" /\ ~unforked => undy_buffer = NoBuffer
  /\ phase = "group" /\ MainRuns => undy_buffer = InitBuffer
  /\ UndyRuns => Holds(undy_buffer, RegionText(now + 2, pos["undy"]), ~truncated)
  /\ phase = "crash" => truncated \/ unforked

(* What task p would leave behind if the program ended with it. *)
SoFar(p) == IF buffered THEN io[p] ELSE stdout

Kept ==
  /\ ~buffered => \A p \in Task : io[p] = <<>>
  /\ buffered /\ phase # "end" => stdout = <<>>

NothingLost == ~truncated /\ ~(buffered /\ dropped)

Outputs ==
  NothingLost =>
    /\ phase = "seq" => SoFar("main") = TextAt(now, 0)
    /\ MainRuns => SoFar("main") = TextAt(now, pos["main"])
    /\ st["spec"] = "run" /\ buffered => io["spec"] = TextAt(now, 0)
    /\ UndyRuns => SoFar("undy") = TextAt(now + 1, 0)
    /\ phase = "end" => stdout = TextAt(NumRegions, 0)

IoInv == IoType /\ Shape /\ Positions /\ Files /\ Buffers /\ Kept /\ Outputs

LEMMA IoInit == Init => IoInv
<1> SUFFICES ASSUME Init PROVE IoInv
  OBVIOUS
<1>1. <<>> \in Seq(Char) /\ 0 \in 0 .. NumRegions
  BY EmptySeq, IoAssumption
<1>2. IoType
  BY <1>1 DEF Init, IoType
<1>3. phase = "seq" /\ NoTask /\ ~MainRuns /\ ~UndyRuns /\ now = 0
  BY DEF Init, NoTask, MainRuns, UndyRuns, Task
<1>4. Shape /\ Positions
  BY <1>3 DEF Shape, Positions, NoTask
<1>5. TextAt(now, 0) = <<>> /\ FileAt(now, 0) = <<>>
  BY <1>1, <1>2, <1>3, AtStart, SequentialNothing DEF IoType
<1>6. Files
  BY <1>3, <1>5 DEF Files, Init
<1>7. Buffers
  BY <1>3 DEF Buffers, Init
<1>8. Kept
  BY DEF Kept, Init
<1>9. SoFar("main") = <<>>
  BY DEF Init, SoFar, Task
<1>10. Outputs
  BY <1>3, <1>5, <1>9 DEF Outputs, NoTask
<1> QED
  BY <1>2, <1>4, <1>6, <1>7, <1>8, <1>10 DEF IoInv

(* io_group_init: MAIN and its SPEC start with the same output. *)
LEMMA GroupInitStep ==
  ASSUME IoInv, IoGroupInit
  PROVE  IoInv'
<1>1. IoType /\ phase = "seq" /\ NoTask /\ now < NumRegions /\ now \in Nat
  BY IoAssumption DEF IoInv, Shape, IoGroupInit, IoType
<1>2. /\ program' = program /\ buffered' = buffered /\ now' = now /\ stdout' = stdout
      /\ file' = file /\ truncated' = truncated /\ dropped' = dropped
      /\ pos' = [p \in Task |-> 0]
  BY DEF IoGroupInit
<1>3. /\ \A n, k : TextAt(n, k)' = TextAt(n, k) /\ FileAt(n, k)' = FileAt(n, k)
  BY <1>2, ProgramFixed
<1>4. CASE undy_buffer # NoBuffer
  <2>1. phase' = "crash" /\ NoTask' /\ io' = io /\ unforked' = unforked /\ unforked
        /\ st' = [p \in Task |-> "none"]
    BY <1>1, <1>4 DEF IoGroupInit, Crash, IoInv, Buffers, NoTask, Task
  <2>2. ~MainRuns' /\ ~UndyRuns' /\ st'["spec"] # "run"
    BY <2>1 DEF MainRuns, UndyRuns, NoTask
  <2>3. IoType'
    BY <1>1, <1>2, <2>1 DEF IoType
  <2>4. Shape' /\ Positions' /\ Files' /\ Buffers' /\ Outputs'
    BY <2>1, <2>2 DEF Shape, Positions, Files, Buffers, Outputs
  <2>5. Kept'
    BY <1>1, <1>2, <2>1 DEF IoInv, Kept
  <2> QED
    BY <2>3, <2>4, <2>5 DEF IoInv
<1>5. CASE undy_buffer = NoBuffer
  <2>1. /\ undy_buffer' = InitBuffer /\ phase' \in {"group", "serial"}
        /\ st' = [main |-> "run", spec |-> IF phase' = "group" THEN "run" ELSE "none", undy |-> "none"]
        /\ io' = IF phase' = "group" THEN [io EXCEPT !["spec"] = io["main"]] ELSE io
        /\ unforked' \in BOOLEAN /\ (phase' = "serial" => unforked')
    BY <1>1, <1>5 DEF IoGroupInit, IoType
  <2>2. MainRuns' /\ ~UndyRuns' /\ st'["spec"] = IF phase' = "group" THEN "run" ELSE "none"
    BY <2>1 DEF MainRuns, UndyRuns
  <2>3. pos'["main"] = 0 /\ pos'["spec"] = 0 /\ pos'["undy"] = 0
    BY <1>2 DEF Task
  <2>4. IoType'
    <3>1. io' \in [Task -> Seq(Char)]
      BY <1>1, <2>1 DEF IoType, Task
    <3>2. st' \in [Task -> {"none", "run", "ended", "dead"}]
      BY <2>1 DEF Task
    <3> QED
      BY <1>1, <1>2, <2>1, <3>1, <3>2 DEF IoType
  <2>5. Shape'
    BY <1>1, <1>2, <2>1, <2>2 DEF Shape
  <2>6. Positions'
    <3>1. now + 1 \in 1 .. NumRegions
      BY <1>1, IoAssumption
    <3>2. Len(program[now + 1]) \in Nat
      BY <1>1, <3>1, ProgramType DEF IoType
    <3> QED
      BY <1>2, <2>2, <2>3, <3>2 DEF Positions
  <2>7. Files'
    BY <1>1, <1>2, <1>3, <2>1, <2>2, <2>3 DEF IoInv, Files
  <2>8. Buffers'
    BY <2>1, <2>2 DEF Buffers
  <2>9. /\ io'["main"] = io["main"] /\ io'["undy"] = io["undy"]
        /\ io'["spec"] = IF phase' = "group" THEN io["main"] ELSE io["spec"]
    BY <1>1, <2>1 DEF IoType, Task
  <2>10. Kept'
    BY <1>1, <1>2, <2>1, <2>9 DEF IoInv, Kept, Task
  <2>11. Outputs'
    <3> SUFFICES ASSUME NothingLost' PROVE Outputs'
      BY DEF Outputs
    <3>1. SoFar("main") = TextAt(now, 0)
      BY <1>1, <1>2 DEF IoInv, Outputs, NothingLost
    <3>2. SoFar("main")' = TextAt(now, 0) /\ (buffered => io["main"] = TextAt(now, 0))
      BY <3>1, <1>2, <2>9 DEF SoFar
    <3> QED
      BY <3>2, <1>2, <1>3, <2>1, <2>2, <2>3, <2>9 DEF Outputs
  <2> QED
    BY <2>4, <2>5, <2>6, <2>7, <2>8, <2>10, <2>11 DEF IoInv
<1> QED
  BY <1>4, <1>5

(* MAIN, or a SEQ without tasks, before an output operation. *)
LEMMA MainAt ==
  ASSUME IoInv, Ready("main"), NEW k \in Nat, k = pos["main"] + 1
  PROVE  /\ MainRuns /\ ~UndyRuns /\ phase \in {"serial", "group"}
         /\ now \in Nat /\ now < NumRegions /\ now + 1 \in 1 .. NumRegions
         /\ k \in 1 .. Len(program[now + 1])
         /\ Item("main") = program[now + 1][k]
         /\ TextAt(now, k) = TextAt(now, pos["main"]) \o Printed(now + 1, k)
         /\ FileAt(now, k) = FileAt(now, pos["main"]) \o Written(now + 1, k)
         /\ TextAt(now, pos["main"]) \in Seq(Char) /\ FileAt(now, pos["main"]) \in Seq(Mark)
         /\ Printed(now + 1, k) \in Seq(Char) /\ Written(now + 1, k) \in Seq(Mark)
<1>1. st["main"] = "run" /\ pos["main"] < Len(program[now + 1]) /\ IoType
  BY DEF Ready, Region, IoInv
<1>2. MainRuns /\ ~UndyRuns /\ phase \in {"serial", "group"} /\ now < NumRegions
  BY <1>1 DEF IoInv, Shape, NoTask, UndyRuns
<1>3. now \in Nat /\ now + 1 \in 1 .. NumRegions /\ pos["main"] \in Nat
  BY <1>1, <1>2, IoAssumption DEF IoType, Task
<1>4. program \in Programs
  BY <1>1 DEF IoType
<1>5. Len(program[now + 1]) \in Nat
  BY <1>3, <1>4, ProgramType
<1>6. k \in 1 .. Len(program[now + 1]) /\ pos["main"] \in 0 .. Len(program[now + 1])
  BY <1>1, <1>3, <1>5
<1>7. /\ TextAt(now, k) = TextAt(now, pos["main"]) \o Printed(now + 1, k)
      /\ FileAt(now, k) = FileAt(now, pos["main"]) \o Written(now + 1, k)
  BY <1>1, <1>2, <1>3, <1>4, AtNext
<1>8. TextAt(now, pos["main"]) \in Seq(Char) /\ FileAt(now, pos["main"]) \in Seq(Mark)
  BY <1>2, <1>3, <1>4, <1>6, AtType
<1>9. Printed(now + 1, k) \in Seq(Char) /\ Written(now + 1, k) \in Seq(Mark)
  BY <1>3, <1>4, <1>6, PieceType
<1>10. Item("main") = program[now + 1][k]
  BY DEF Item, Region
<1> QED
  BY <1>2, <1>3, <1>6, <1>7, <1>8, <1>9, <1>10

(* The understudy before an output operation. *)
LEMMA UndyAt ==
  ASSUME IoInv, Ready("undy"), NEW k \in Nat, k = pos["undy"] + 1
  PROVE  /\ UndyRuns /\ ~MainRuns /\ st["spec"] \in {"run", "dead"}
         /\ now \in Nat /\ now < NumRegions /\ now + 2 \in 1 .. NumRegions
         /\ k \in 1 .. Len(program[now + 2])
         /\ Item("undy") = program[now + 2][k]
         /\ RegionText(now + 2, k) = RegionText(now + 2, pos["undy"]) \o Printed(now + 2, k)
         /\ FileAt(now + 1, k) = FileAt(now + 1, pos["undy"]) \o Written(now + 2, k)
         /\ FileAt(now + 1, pos["undy"]) \in Seq(Mark)
         /\ RegionText(now + 2, pos["undy"]) \in Seq(Char)
         /\ Printed(now + 2, k) \in Seq(Char) /\ Written(now + 2, k) \in Seq(Mark)
<1>1. st["undy"] = "run" /\ now + 2 <= NumRegions /\ pos["undy"] < Len(program[now + 2]) /\ IoType
  BY DEF Ready, Region, IoInv
<1>2. UndyRuns /\ ~MainRuns /\ now < NumRegions /\ st["spec"] \in {"run", "dead"}
  BY <1>1 DEF IoInv, Shape, NoTask, MainRuns, UndyRuns
<1>3. PICK n \in Nat : n = now + 1
  BY <1>1 DEF IoType
<1>4. PICK m \in Nat : m = now + 2
  BY <1>1 DEF IoType
<1>5. now \in Nat /\ m = n + 1 /\ n < NumRegions /\ m \in 1 .. NumRegions /\ pos["undy"] \in Nat
  BY <1>1, <1>3, <1>4, IoAssumption DEF IoType, Task
<1>6. program \in Programs
  BY <1>1 DEF IoType
<1>7. Len(program[m]) \in Nat
  BY <1>5, <1>6, ProgramType
<1>8. k \in 1 .. Len(program[m]) /\ pos["undy"] \in 0 .. Len(program[m]) /\ pos["undy"] < Len(program[m])
  BY <1>1, <1>4, <1>5, <1>7
<1>9. FileAt(n, k) = FileAt(n, pos["undy"]) \o Written(m, k)
  BY <1>5, <1>6, <1>8, AtNext
<1>10. RegionText(m, k) = RegionText(m, pos["undy"]) \o Printed(m, k)
  BY <1>5, <1>6, <1>8, RegionNext
<1>11. FileAt(n, pos["undy"]) \in Seq(Mark)
  BY <1>5, <1>6, <1>8, AtType
<1>12. RegionText(m, pos["undy"]) \in Seq(Char)
  BY <1>5, <1>6, <1>8, RegionType
<1>13. Printed(m, k) \in Seq(Char) /\ Written(m, k) \in Seq(Mark)
  BY <1>5, <1>6, <1>8, PieceType
<1>14. Item("undy") = program[m][k]
  BY <1>4 DEF Item, Region
<1> QED
  BY <1>2, <1>3, <1>4, <1>5, <1>8, <1>9, <1>10, <1>11, <1>12, <1>13, <1>14

(* The SPEC at an output operation is at the first of its region. *)
LEMMA SpecAt ==
  ASSUME IoInv, Ready("spec")
  PROVE  st["spec"] = "run" /\ phase = "group" /\ (MainRuns \/ UndyRuns) /\ pos["spec"] = 0
BY DEF IoInv, Ready, Shape, NoTask, Positions

(* A step of task p leaves the others where they are. *)
LEMMA StepIs ==
  ASSUME IoInv, NEW p \in Task, Step(p)
  PROVE  /\ Ready(p) /\ pos' \in [Task -> Nat] /\ pos'[p] = pos[p] + 1
         /\ \A q \in Task : q # p => pos'[q] = pos[q]
BY DEF IoInv, IoType, Step

(* BOP_printf in SEQ and MAIN. *)
LEMMA MainPrintsStep ==
  ASSUME IoInv, MainPrints
  PROVE  IoInv'
<1>0. IoType /\ pos["main"] \in Nat
  BY DEF IoInv, IoType, Task
<1>1. PICK k \in Nat : k = pos["main"] + 1
  BY <1>0
<1>2. /\ program' = program /\ buffered' = buffered /\ now' = now /\ phase' = phase /\ st' = st
      /\ undy_buffer' = undy_buffer /\ file' = file
      /\ truncated' = truncated /\ unforked' = unforked /\ dropped' = dropped
      /\ Step("main") /\ Item("main") # ToFile /\ Printf("main", Text(now + 1, pos'["main"]))
  BY DEF MainPrints, Region, history
<1>3. /\ Ready("main") /\ pos' \in [Task -> Nat] /\ pos'["main"] = k
      /\ pos'["spec"] = pos["spec"] /\ pos'["undy"] = pos["undy"]
  BY <1>1, <1>2, StepIs DEF Task
<1>4. /\ \A n, i : TextAt(n, i)' = TextAt(n, i) /\ FileAt(n, i)' = FileAt(n, i)
  BY <1>2, ProgramFixed
<1> DEFINE t == Text(now + 1, k)
<1>5. /\ MainRuns /\ ~UndyRuns /\ phase \in {"serial", "group"} /\ k \in 1 .. Len(program[now + 1])
      /\ TextAt(now, k) = TextAt(now, pos["main"]) \o t
      /\ FileAt(now, k) = FileAt(now, pos["main"]) \o <<>>
      /\ FileAt(now, pos["main"]) \in Seq(Mark)
      /\ t \in Seq(Char)
  BY <1>1, <1>2, <1>3, MainAt DEF Printed, Written
<1>6. FileAt(now, k) = FileAt(now, pos["main"])
  BY <1>5, ConcatEmptySeq
<1>7. MainRuns' /\ ~UndyRuns'
  BY <1>2, <1>5 DEF MainRuns, UndyRuns
<1> HIDE DEF t
<1>8. Printf("main", t)
  BY <1>2, <1>3 DEF t
<1>9. /\ io' \in [Task -> Seq(Char)] /\ stdout' \in Seq(Char)
      /\ io'["spec"] = io["spec"] /\ io'["undy"] = io["undy"]
      /\ SoFar("main")' = SoFar("main") \o t
      /\ ~buffered => io' = io
      /\ buffered => stdout' = stdout
  <2>1. CASE buffered
    <3>1. io' = [io EXCEPT !["main"] = io["main"] \o t] /\ stdout' = stdout
      BY <1>8, <2>1 DEF Printf
    <3>2. io["main"] \o t \in Seq(Char)
      BY <1>0, <1>5, ConcatProperties DEF IoType, Task
    <3> QED
      BY <1>0, <1>2, <2>1, <3>1, <3>2 DEF IoType, Task, SoFar
  <2>2. CASE ~buffered
    <3>1. stdout' = stdout \o t /\ io' = io
      BY <1>8, <2>2 DEF Printf
    <3>2. stdout \o t \in Seq(Char)
      BY <1>0, <1>5, ConcatProperties DEF IoType
    <3> QED
      BY <1>0, <1>2, <2>2, <3>1, <3>2 DEF IoType, Task, SoFar
  <2> QED
    BY <2>1, <2>2
<1>10. IoType'
  BY <1>0, <1>2, <1>3, <1>9 DEF IoType
<1>11. Shape'
  BY <1>2 DEF IoInv, Shape, NoTask, MainRuns, UndyRuns
<1>12. Positions'
  BY <1>2, <1>3, <1>5, <1>7 DEF IoInv, Positions
<1>13. Files'
  BY <1>2, <1>3, <1>4, <1>5, <1>6, <1>7 DEF IoInv, Files
<1>14. Buffers'
  BY <1>2, <1>5, <1>7 DEF IoInv, Buffers
<1>15. Kept'
  BY <1>2, <1>9 DEF IoInv, Kept
<1>16. Outputs'
  <2> SUFFICES ASSUME NothingLost' PROVE Outputs'
    BY DEF Outputs
  <2>1. SoFar("main") = TextAt(now, pos["main"]) /\ (st["spec"] = "run" /\ buffered => io["spec"] = TextAt(now, 0))
    BY <1>2, <1>5 DEF IoInv, Outputs, NothingLost
  <2> QED
    BY <1>2, <1>3, <1>4, <1>5, <1>7, <1>9, <2>1 DEF Outputs
<1> QED
  BY <1>10, <1>11, <1>12, <1>13, <1>14, <1>15, <1>16 DEF IoInv

(* A SPEC that reaches an output operation ends. *)
LEMMA SpecEndsStep ==
  ASSUME IoInv, SpecPrints \/ SpecWrites
  PROVE  IoInv'
<1>0. IoType
  BY DEF IoInv
<1>1. /\ program' = program /\ buffered' = buffered /\ now' = now /\ phase' = phase
      /\ undy_buffer' = undy_buffer /\ io' = io /\ stdout' = stdout /\ file' = file
      /\ truncated' = truncated /\ unforked' = unforked /\ dropped' = dropped
      /\ st' = [st EXCEPT !["spec"] = "dead"]
      /\ Step("spec")
  BY DEF SpecPrints, SpecWrites, output, history
<1>2. /\ Ready("spec") /\ pos' \in [Task -> Nat]
      /\ pos'["main"] = pos["main"] /\ pos'["undy"] = pos["undy"]
  BY <1>1, StepIs DEF Task
<1>3. /\ \A n, i : RegionText(n, i)' = RegionText(n, i)
      /\ \A n, i : TextAt(n, i)' = TextAt(n, i) /\ FileAt(n, i)' = FileAt(n, i)
  BY <1>1, ProgramFixed
<1>4. st["spec"] = "run" /\ phase = "group" /\ (MainRuns \/ UndyRuns) /\ now < NumRegions
  BY <1>2, SpecAt DEF IoInv, Shape
<1>5. /\ st'["main"] = st["main"] /\ st'["undy"] = st["undy"] /\ st'["spec"] = "dead"
      /\ st' \in [Task -> {"none", "run", "ended", "dead"}]
  BY <1>0, <1>1 DEF IoType, Task
<1>6. (MainRuns' <=> MainRuns) /\ (UndyRuns' <=> UndyRuns)
  BY <1>1, <1>5 DEF MainRuns, UndyRuns
<1>7. IoType'
  BY <1>0, <1>1, <1>2, <1>5 DEF IoType
<1>8. Shape'
  BY <1>1, <1>4, <1>5, <1>6 DEF Shape
<1>9. Positions'
  BY <1>1, <1>2, <1>5, <1>6 DEF IoInv, Positions
<1>10. Files'
  BY <1>1, <1>2, <1>3, <1>6 DEF IoInv, Files
<1>11. Buffers'
  BY <1>1, <1>2, <1>3, <1>6 DEF IoInv, Buffers
<1>12. Kept'
  BY <1>1 DEF IoInv, Kept
<1>13. Outputs'
  <2>1. \A p \in Task : SoFar(p)' = SoFar(p)
    BY <1>1 DEF SoFar
  <2>2. "main" \in Task /\ "undy" \in Task
    BY DEF Task
  <2> QED
    BY <1>1, <1>2, <1>3, <1>4, <1>5, <1>6, <2>1, <2>2 DEF IoInv, Outputs, NothingLost
<1> QED
  BY <1>7, <1>8, <1>9, <1>10, <1>11, <1>12, <1>13 DEF IoInv

(* BOP_fprintf in SEQ, MAIN and the understudy. *)
LEMMA OthersWriteStep ==
  ASSUME IoInv, OthersWrite
  PROVE  IoInv'
<1>0. IoType
  BY DEF IoInv
<1>1. PICK p \in {"main", "undy"} : Step(p) /\ Item(p) = ToFile /\ WriteFile(p)
  BY DEF OthersWrite
<1>2. /\ program' = program /\ buffered' = buffered /\ now' = now /\ phase' = phase /\ st' = st
      /\ undy_buffer' = undy_buffer /\ io' = io /\ stdout' = stdout
      /\ truncated' = truncated /\ unforked' = unforked /\ dropped' = dropped
  BY DEF OthersWrite, history
<1>3. /\ p \in Task /\ Ready(p) /\ pos' \in [Task -> Nat] /\ pos'[p] = pos[p] + 1 /\ pos[p] \in Nat
      /\ \A q \in Task : q # p => pos'[q] = pos[q]
  BY <1>0, <1>1, StepIs DEF Task, IoType
<1>4. /\ \A n, i : RegionText(n, i)' = RegionText(n, i)
      /\ \A n, i : TextAt(n, i)' = TextAt(n, i) /\ FileAt(n, i)' = FileAt(n, i)
  BY <1>2, ProgramFixed
<1>5. (MainRuns' <=> MainRuns) /\ (UndyRuns' <=> UndyRuns)
  BY <1>2 DEF MainRuns, UndyRuns
<1>6. IoType' /\ Shape' /\ Kept'
  BY <1>0, <1>2, <1>3, <1>5 DEF IoInv, IoType, Shape, NoTask, Kept
<1>7. PICK k \in Nat : k = pos[p] + 1
  BY <1>3
<1>8. pos'[p] = k /\ file' = Append(file, <<Region(p), k>>)
  BY <1>1, <1>3, <1>7 DEF WriteFile
<1>9. \A q \in Task : SoFar(q)' = SoFar(q)
  BY <1>2 DEF SoFar
<1>10. CASE p = "main"
  <2>1. /\ MainRuns /\ ~UndyRuns /\ phase \in {"serial", "group"}
        /\ now + 1 \in 1 .. NumRegions /\ now \in Nat /\ k \in 1 .. Len(program[now + 1])
        /\ program[now + 1][k] = ToFile
        /\ TextAt(now, k) = TextAt(now, pos["main"]) \o <<>>
        /\ FileAt(now, k) = FileAt(now, pos["main"]) \o <<<<now + 1, k>>>>
        /\ TextAt(now, pos["main"]) \in Seq(Char) /\ FileAt(now, pos["main"]) \in Seq(Mark)
    BY <1>1, <1>3, <1>7, <1>10, MainAt DEF Printed, Written
  <2>2. TextAt(now, k) = TextAt(now, pos["main"])
    BY <2>1, ConcatEmptySeq
  <2>3. file = FileAt(now, pos["main"])
    BY <2>1 DEF IoInv, Files
  <2>4. <<now + 1, k>> \in Mark
    BY <2>1 DEF Mark
  <2>5. file' = FileAt(now, k)
    BY <1>8, <1>10, <2>1, <2>3, <2>4, AppendIsConcat DEF Region
  <2>6. pos'["main"] = k /\ pos'["spec"] = pos["spec"] /\ pos'["undy"] = pos["undy"]
    BY <1>3, <1>8, <1>10 DEF Task
  <2>7. Positions'
    BY <1>2, <1>5, <2>1, <2>6 DEF IoInv, Positions
  <2>8. Files'
    BY <1>2, <1>4, <1>5, <2>1, <2>5, <2>6 DEF Files
  <2>9. Buffers'
    BY <1>2, <1>5, <2>1 DEF IoInv, Buffers
  <2>10. Outputs'
    <3>1. "main" \in Task /\ "undy" \in Task
      BY DEF Task
    <3> QED
      BY <1>2, <1>4, <1>5, <1>9, <2>1, <2>2, <2>6, <3>1 DEF IoInv, Outputs, NothingLost
  <2> QED
    BY <1>6, <2>7, <2>8, <2>9, <2>10 DEF IoInv
<1>11. CASE p = "undy"
  <2>1. /\ UndyRuns /\ ~MainRuns /\ phase = "group"
        /\ now + 2 \in 1 .. NumRegions /\ now \in Nat /\ k \in 1 .. Len(program[now + 2])
        /\ RegionText(now + 2, k) = RegionText(now + 2, pos["undy"]) \o <<>>
        /\ FileAt(now + 1, k) = FileAt(now + 1, pos["undy"]) \o <<<<now + 2, k>>>>
        /\ RegionText(now + 2, pos["undy"]) \in Seq(Char) /\ FileAt(now + 1, pos["undy"]) \in Seq(Mark)
    BY <1>1, <1>3, <1>7, <1>11, UndyAt DEF Printed, Written, UndyRuns
  <2>2. RegionText(now + 2, k) = RegionText(now + 2, pos["undy"])
    BY <2>1, ConcatEmptySeq
  <2>3. file = FileAt(now + 1, pos["undy"])
    BY <2>1 DEF IoInv, Files
  <2>4. <<now + 2, k>> \in Mark
    BY <2>1 DEF Mark
  <2>5. file' = FileAt(now + 1, k)
    BY <1>8, <1>11, <2>1, <2>3, <2>4, AppendIsConcat DEF Region
  <2>6. pos'["undy"] = k /\ pos'["spec"] = pos["spec"] /\ pos'["main"] = pos["main"]
    BY <1>3, <1>8, <1>11 DEF Task
  <2>7. Positions'
    BY <1>2, <1>5, <2>1, <2>6 DEF IoInv, Positions
  <2>8. Files'
    BY <1>2, <1>4, <1>5, <2>1, <2>5, <2>6 DEF Files
  <2>9. Buffers'
    BY <1>2, <1>4, <1>5, <2>1, <2>2, <2>6 DEF IoInv, Buffers
  <2>10. Outputs'
    <3>1. "main" \in Task /\ "undy" \in Task
      BY DEF Task
    <3> QED
      BY <1>2, <1>4, <1>5, <1>9, <2>1, <2>6, <3>1 DEF IoInv, Outputs, NothingLost
  <2> QED
    BY <1>6, <2>7, <2>8, <2>9, <2>10 DEF IoInv
<1> QED
  BY <1>10, <1>11

(* BOP_printf in the understudy: the text is in the buffer, or the         *)
(* assertion fails on a buffer that a text has filled.                     *)
LEMMA UndyPrintsStep ==
  ASSUME IoInv, UndyPrints
  PROVE  IoInv'
<1>0. IoType /\ pos["undy"] \in Nat
  BY DEF IoInv, IoType, Task
<1>1. PICK k \in Nat : k = pos["undy"] + 1
  BY <1>0
<1> DEFINE b == undy_buffer
           t == Text(now + 2, k)
           text == RegionText(now + 2, pos["undy"])
<1>2. /\ program' = program /\ buffered' = buffered /\ now' = now /\ io' = io /\ stdout' = stdout
      /\ file' = file /\ unforked' = unforked /\ dropped' = dropped
      /\ Step("undy") /\ Item("undy") # ToFile
  BY DEF UndyPrints, output
<1>3. /\ Ready("undy") /\ pos' \in [Task -> Nat] /\ pos'["undy"] = k
      /\ pos'["main"] = pos["main"] /\ pos'["spec"] = pos["spec"]
  BY <1>1, <1>2, StepIs DEF Task
<1>4. /\ UndyRuns /\ ~MainRuns /\ phase = "group"
      /\ now + 2 \in 1 .. NumRegions /\ k \in 1 .. Len(program[now + 2])
      /\ Item("undy") = program[now + 2][k]
      /\ RegionText(now + 2, k) = text \o t
      /\ FileAt(now + 1, k) = FileAt(now + 1, pos["undy"]) \o <<>>
      /\ FileAt(now + 1, pos["undy"]) \in Seq(Mark)
      /\ t \in Seq(Char)
  BY <1>1, <1>2, <1>3, UndyAt DEF Printed, Written, UndyRuns
<1>5. Len(t) > 0
  <2>1. program[now + 2][k] \in Nat \ {0}
    BY <1>0, <1>2, <1>4, ProgramType DEF IoType, ToFile
  <2> QED
    BY <2>1 DEF Text
<1>6. Holds(b, text, ~truncated)
  BY <1>4 DEF IoInv, Buffers
<1>7. \/ /\ undy_buffer' = Store(b, t) /\ phase' = phase /\ st' = st
         /\ truncated' = (truncated \/ Store(b, t).used = Store(b, t).alloc)
      \/ /\ b.data[b.used] # Nul /\ phase' = "crash" /\ st' = [p \in Task |-> "none"]
         /\ truncated' = truncated
  BY <1>3 DEF UndyPrints, Crash, Region
<1>8. CASE b.data[b.used] # Nul /\ phase' = "crash" /\ st' = [p \in Task |-> "none"]
           /\ truncated' = truncated
  <2>1. truncated
    BY <1>6, <1>8 DEF Holds
  <2>2. NoTask' /\ ~MainRuns' /\ ~UndyRuns' /\ st'["spec"] # "run"
    BY <1>8 DEF NoTask, MainRuns, UndyRuns, Task
  <2>3. IoType'
    BY <1>0, <1>2, <1>3, <1>8 DEF IoType
  <2>4. Shape' /\ Positions' /\ Files' /\ Buffers' /\ Outputs'
    BY <1>8, <2>1, <2>2 DEF Shape, Positions, Files, Buffers, Outputs
  <2>5. Kept'
    BY <1>2, <1>4 DEF IoInv, Kept
  <2> QED
    BY <2>3, <2>4, <2>5 DEF IoInv
<1>9. CASE /\ undy_buffer' = Store(b, t) /\ phase' = phase /\ st' = st
           /\ truncated' = (truncated \/ Store(b, t).used = Store(b, t).alloc)
  <2>1. truncated' \in BOOLEAN /\ (~truncated' => ~truncated /\ Store(b, t).used # Store(b, t).alloc)
    BY <1>0, <1>9 DEF IoType
  <2>2. UndyRuns' /\ ~MainRuns'
    BY <1>4, <1>9 DEF MainRuns, UndyRuns
  <2>3. /\ \A n, i : RegionText(n, i)' = RegionText(n, i)
        /\ \A n, i : TextAt(n, i)' = TextAt(n, i) /\ FileAt(n, i)' = FileAt(n, i)
    BY <1>2, ProgramFixed
  <2>4. FileAt(now + 1, k) = FileAt(now + 1, pos["undy"])
    BY <1>4, ConcatEmptySeq
  <2> HIDE DEF b, t, text
  <2>5. Holds(Store(b, t), text \o t, ~truncated')
    BY <1>4, <1>5, <1>6, <2>1, StoreHolds
  <2>6. IoType'
    BY <1>0, <1>2, <1>3, <1>9, <2>1 DEF IoType
  <2>7. Shape' /\ Kept'
    BY <1>2, <1>4, <1>9, <2>2 DEF IoInv, Shape, NoTask, MainRuns, UndyRuns, Kept
  <2>8. Positions'
    BY <1>2, <1>3, <1>4, <1>9, <2>2 DEF IoInv, Positions
  <2>9. Files'
    BY <1>2, <1>3, <1>4, <1>9, <2>2, <2>3, <2>4 DEF IoInv, Files
  <2>10. Buffers'
    BY <1>2, <1>3, <1>4, <1>9, <2>2, <2>3, <2>5 DEF Buffers
  <2>11. Outputs'
    <3>1. SoFar("undy")' = SoFar("undy") /\ (NothingLost' => NothingLost)
      BY <1>2, <2>1 DEF SoFar, NothingLost
    <3> QED
      BY <1>2, <1>4, <1>9, <2>2, <2>3, <3>1 DEF IoInv, Outputs
  <2> QED
    BY <2>6, <2>7, <2>8, <2>9, <2>10, <2>11 DEF IoInv
<1> QED
  BY <1>7, <1>8, <1>9

-----------------------------------------------------------------------------
(***************************************************************************)
(* The ends of regions and of groups.                                      *)
(***************************************************************************)

(* At the end of its region MAIN leaves what a sequential execution does. *)
LEMMA MainDone ==
  ASSUME IoInv, Done("main")
  PROVE  /\ MainRuns /\ phase \in {"serial", "group"} /\ now \in Nat /\ now < NumRegions
         /\ now + 1 \in 1 .. NumRegions /\ now + 1 \in 0 .. NumRegions
         /\ pos["main"] = Len(program[now + 1])
         /\ TextAt(now, pos["main"]) = TextAt(now + 1, 0)
         /\ FileAt(now, pos["main"]) = FileAt(now + 1, 0)
<1>1. st["main"] = "run" /\ IoType /\ program \in Programs
  BY DEF Done, IoInv, IoType
<1>2. MainRuns /\ phase \in {"serial", "group"} /\ now < NumRegions
  BY <1>1 DEF IoInv, Shape, NoTask, UndyRuns
<1>3. now \in Nat /\ pos["main"] \in Nat
  BY <1>1 DEF IoType, Task
<1>4. PICK n \in Nat : n = now + 1
  BY <1>3
<1>5. n \in 1 .. NumRegions /\ n \in 0 .. NumRegions /\ n <= NumRegions
  BY <1>2, <1>3, <1>4, IoAssumption
<1>6. Len(program[n]) \in Nat
  BY <1>1, <1>5, ProgramType
<1>7. pos["main"] = Len(program[n])
  <2>1. pos["main"] <= Len(program[n])
    BY <1>2, <1>4 DEF IoInv, Positions
  <2>2. ~(pos["main"] < Len(program[n]))
    BY <1>4, <1>5 DEF Done, Ready, Region
  <2> QED
    BY <1>3, <1>6, <2>1, <2>2
<1>8. /\ TextAt(now, Len(program[n])) = SequentialText(n)
      /\ FileAt(now, Len(program[n])) = SequentialFile(n)
  BY <1>1, <1>2, <1>3, <1>4, AtEnd
<1>9. TextAt(n, 0) = SequentialText(n) /\ FileAt(n, 0) = SequentialFile(n)
  BY <1>1, <1>5, AtStart
<1> QED
  BY <1>2, <1>3, <1>4, <1>5, <1>7, <1>8, <1>9

(* A SEQ continues after MAIN's region. *)
LEMMA SeqStep ==
  ASSUME IoInv, Done("main"), now' = now + 1, phase' = "seq", NoTask',
         st' \in [Task -> {"none", "run", "ended", "dead"}],
         unforked' = TRUE,
         UNCHANGED <<program, buffered, pos, undy_buffer, io, stdout, file, truncated, dropped>>
  PROVE  IoInv'
<1>1. ~MainRuns' /\ ~UndyRuns' /\ st'["spec"] # "run" /\ unforked'
  BY DEF NoTask, MainRuns, UndyRuns
<1>2. IoType' /\ Shape' /\ Positions' /\ Kept'
  BY <1>1, MainDone DEF IoInv, IoType, Shape, Positions, Kept
<1>3. /\ \A n, i : TextAt(n, i)' = TextAt(n, i) /\ FileAt(n, i)' = FileAt(n, i)
  BY ProgramFixed
<1>4. Files'
  BY <1>1, <1>3, MainDone DEF IoInv, Files
<1>5. Buffers'
  BY <1>1 DEF Buffers
<1>6. Outputs'
  <2>1. SoFar("main")' = SoFar("main") /\ (NothingLost' => NothingLost)
    BY DEF SoFar, NothingLost
  <2> QED
    BY <1>1, <1>3, <2>1, MainDone DEF IoInv, Outputs
<1> QED
  BY <1>2, <1>4, <1>5, <1>6 DEF IoInv

(* The end of MAIN's region, and of a region that SEQ executes alone. *)
LEMMA MainEndsStep ==
  ASSUME IoInv, MainEnds
  PROVE  IoInv'
<1>0. IoType
  BY DEF IoInv
<1>1. /\ Done("main") /\ phase = "group" /\ program' = program /\ buffered' = buffered /\ pos' = pos
      /\ undy_buffer' = undy_buffer /\ stdout' = stdout /\ file' = file
      /\ truncated' = truncated /\ dropped' = dropped
  BY DEF MainEnds
<1>2. /\ MainRuns /\ now \in Nat /\ now < NumRegions /\ pos["main"] = Len(program[now + 1])
      /\ TextAt(now, pos["main"]) = TextAt(now + 1, 0)
      /\ FileAt(now, pos["main"]) = FileAt(now + 1, 0)
  BY <1>1, MainDone
<1>3. CASE /\ st' = [p \in Task |-> "none"] /\ phase' = "seq" /\ now' = now + 1
           /\ unforked' = TRUE /\ io' = io
  <2>1. NoTask' /\ st' \in [Task -> {"none", "run", "ended", "dead"}]
    BY <1>3 DEF NoTask, Task
  <2> QED
    BY <1>1, <1>3, <2>1, SeqStep
<1>4. CASE /\ st' = [st EXCEPT !["main"] = "ended", !["undy"] = "run"]
           /\ io' = [io EXCEPT !["undy"] = io["main"]]
           /\ now' = now /\ phase' = phase /\ unforked' = unforked
  <2>1. /\ st' \in [Task -> {"none", "run", "ended", "dead"}]
        /\ st'["main"] = "ended" /\ st'["undy"] = "run" /\ st'["spec"] = st["spec"]
    BY <1>0, <1>4 DEF IoType, Task
  <2>2. /\ io' \in [Task -> Seq(Char)]
        /\ io'["main"] = io["main"] /\ io'["undy"] = io["main"] /\ io'["spec"] = io["spec"]
    BY <1>0, <1>4 DEF IoType, Task
  <2>3. UndyRuns' /\ ~MainRuns'
    BY <1>1, <1>4, <2>1 DEF UndyRuns, MainRuns
  <2>4. /\ \A n, i : RegionText(n, i)' = RegionText(n, i)
        /\ \A n, i : TextAt(n, i)' = TextAt(n, i) /\ FileAt(n, i)' = FileAt(n, i)
    BY <1>1, ProgramFixed
  <2>5. pos["undy"] = 0 /\ undy_buffer = InitBuffer
    BY <1>1, <1>2 DEF IoInv, Positions, Buffers
  <2>6. IoType'
    BY <1>0, <1>1, <1>4, <2>1, <2>2 DEF IoType
  <2>7. Shape'
    BY <1>1, <1>2, <1>4, <2>1, <2>3 DEF IoInv, Shape, NoTask
  <2>8. Positions'
    <3>1. now + 2 <= NumRegions => pos["undy"] <= Len(program[now + 2])
      <4> SUFFICES ASSUME now + 2 <= NumRegions PROVE Len(program[now + 2]) \in Nat
        BY <2>5
      <4>1. now + 2 \in 1 .. NumRegions
        BY <1>2, IoAssumption
      <4> QED
        BY <1>0, <4>1, ProgramType DEF IoType
    <3> QED
      BY <1>1, <1>2, <1>4, <2>1, <2>3, <2>5, <3>1 DEF IoInv, Positions
  <2>9. Files'
    BY <1>1, <1>2, <1>4, <2>3, <2>4, <2>5 DEF IoInv, Files
  <2>10. Buffers'
    <3>1. Holds(InitBuffer, RegionText(now + 2, 0), ~truncated)
      BY InitHolds, RegionNothing
    <3> QED
      BY <1>1, <1>4, <2>3, <2>4, <2>5, <3>1 DEF Buffers
  <2>11. Kept'
    BY <1>1, <1>4, <2>2 DEF IoInv, Kept, Task
  <2>12. Outputs'
    <3>1. SoFar("undy")' = SoFar("main") /\ (NothingLost' => NothingLost)
      BY <1>1, <2>2 DEF SoFar, NothingLost
    <3> QED
      BY <1>1, <1>2, <1>4, <2>1, <2>2, <2>3, <2>4, <3>1 DEF IoInv, Outputs
  <2> QED
    BY <2>6, <2>7, <2>8, <2>9, <2>10, <2>11, <2>12 DEF IoInv
<1> QED
  BY <1>3, <1>4 DEF MainEnds

LEMMA SerialEndsStep ==
  ASSUME IoInv, SerialEnds
  PROVE  IoInv'
<1>1. /\ Done("main") /\ phase = "serial" /\ now' = now + 1 /\ phase' = "seq"
      /\ st' = [st EXCEPT !["main"] = "none"] /\ unforked' = unforked
      /\ UNCHANGED <<program, buffered, pos, undy_buffer, io, stdout, file, truncated, dropped>>
  BY DEF SerialEnds, output, history
<1>2. st \in [Task -> {"none", "run", "ended", "dead"}] /\ unforked \in BOOLEAN /\ unforked
  BY <1>1 DEF IoInv, IoType, Buffers
<1>3. st["spec"] = "none" /\ st["undy"] = "none"
  BY <1>1 DEF IoInv, Shape, MainRuns
<1>4. NoTask' /\ st' \in [Task -> {"none", "run", "ended", "dead"}]
  BY <1>1, <1>2, <1>3 DEF NoTask, Task
<1>5. unforked' = TRUE
  BY <1>1, <1>2
<1> QED
  BY <1>1, <1>4, <1>5, SeqStep

(* A group whose winner continues after m regions. *)
LEMMA ContinueStep ==
  ASSUME IoInv, NEW p, NEW m \in 0 .. NumRegions, Continue(p, m), UndyRuns,
         FileAt(now + 1, pos["undy"]) = FileAt(m, 0),
         io' \in [Task -> Seq(Char)], stdout' \in Seq(Char), dropped' \in BOOLEAN,
         ~buffered => \A q \in Task : io'[q] = <<>>,
         buffered => stdout' = stdout,
         NothingLost' => SoFar("main")' = TextAt(m, 0)
  PROVE  IoInv'
<1>0. IoType
  BY DEF IoInv
<1>1. /\ st' = [q \in Task |-> "none"] /\ phase' = "seq" /\ now' = m /\ undy_buffer' = NoBuffer
      /\ program' = program /\ buffered' = buffered /\ pos' = pos /\ file' = file
      /\ truncated' = truncated /\ unforked' = unforked
  BY DEF Continue, FreeAllBuffers
<1>2. NoTask' /\ ~MainRuns' /\ ~UndyRuns' /\ st'["spec"] # "run"
  BY <1>1 DEF NoTask, MainRuns, UndyRuns, Task
<1>3. /\ \A n, i : TextAt(n, i)' = TextAt(n, i) /\ FileAt(n, i)' = FileAt(n, i)
  BY <1>1, ProgramFixed
<1>4. IoType'
  BY <1>0, <1>1 DEF IoType
<1>5. Shape' /\ Positions' /\ Buffers'
  BY <1>1, <1>2 DEF Shape, Positions, Buffers
<1>6. Files'
  BY <1>1, <1>2, <1>3 DEF IoInv, Files
<1>7. Kept'
  BY <1>1 DEF IoInv, Kept, UndyRuns
<1>8. Outputs'
  BY <1>1, <1>2, <1>3 DEF Outputs
<1> QED
  BY <1>4, <1>5, <1>6, <1>7, <1>8 DEF IoInv

(* The SPEC wins if its region has no output operation: its output is that *)
(* of the program before MAIN's region, unless MAIN printed in it.         *)
LEMMA GroupSuccStep ==
  ASSUME IoInv, IoGroupSucc
  PROVE  IoInv'
<1>0. IoType /\ program \in Programs
  BY DEF IoInv, IoType
<1>1. /\ st["main"] = "ended" /\ Done("spec") /\ now + 2 <= NumRegions
      /\ Continue("spec", now + 2) /\ io' = [io EXCEPT !["main"] = io["spec"]]
      /\ dropped' = (dropped \/ RegionText(now + 1, Len(program[now + 1])) # <<>>)
      /\ stdout' = stdout /\ truncated' = truncated /\ buffered' = buffered
  BY DEF IoGroupSucc, Continue
<1>2. UndyRuns /\ st["spec"] = "run" /\ pos["spec"] = 0
  BY <1>1 DEF IoInv, Shape, NoTask, MainRuns, Positions, Done
<1>3. now \in Nat /\ pos["undy"] \in Nat
  BY <1>0 DEF IoType, Task
<1>4. PICK n \in Nat : n = now + 1
  BY <1>3
<1>5. PICK m \in Nat : m = now + 2
  BY <1>3
<1>6. /\ m = n + 1 /\ n < NumRegions /\ m \in 1 .. NumRegions /\ m \in 0 .. NumRegions
      /\ n \in 0 .. NumRegions /\ n \in 1 .. NumRegions /\ now < NumRegions /\ now \in 0 .. NumRegions
  BY <1>1, <1>3, <1>4, <1>5, IoAssumption
<1>7. Len(program[m]) = 0
  <2>1. Len(program[m]) \in Nat
    BY <1>0, <1>6, ProgramType
  <2>2. ~(0 < Len(program[m]))
    BY <1>1, <1>2, <1>5 DEF Done, Ready, Region
  <2> QED
    BY <2>1, <2>2
<1>8. pos["undy"] = 0
  BY <1>1, <1>2, <1>3, <1>5, <1>7 DEF IoInv, Positions
<1>9. /\ TextAt(n, 0) = TextAt(m, 0) /\ FileAt(n, 0) = FileAt(m, 0)
      /\ TextAt(n, 0) = SequentialText(n)
  <2>1. /\ TextAt(n, Len(program[m])) = SequentialText(m)
        /\ FileAt(n, Len(program[m])) = SequentialFile(m)
    BY <1>0, <1>6, AtEnd
  <2>2. TextAt(m, 0) = SequentialText(m) /\ FileAt(m, 0) = SequentialFile(m)
    BY <1>0, <1>6, AtStart
  <2>3. TextAt(n, 0) = SequentialText(n)
    BY <1>0, <1>6, AtStart
  <2> QED
    BY <1>7, <2>1, <2>2, <2>3
<1>10. /\ io' \in [Task -> Seq(Char)] /\ stdout' \in Seq(Char) /\ dropped' \in BOOLEAN
       /\ io'["main"] = io["spec"] /\ io'["spec"] = io["spec"] /\ io'["undy"] = io["undy"]
  BY <1>0, <1>1 DEF IoType, Task
<1>11. ~buffered => \A q \in Task : io'[q] = <<>>
  BY <1>10 DEF IoInv, Kept, Task
<1>12. NothingLost' => SoFar("main")' = TextAt(m, 0)
  <2> SUFFICES ASSUME NothingLost' PROVE SoFar("main")' = TextAt(m, 0)
    OBVIOUS
  <2>1. NothingLost
    BY <1>1 DEF NothingLost
  <2>2. CASE ~buffered
    <3>1. stdout = TextAt(n, 0)
      BY <1>2, <1>4, <2>1, <2>2 DEF IoInv, Outputs, SoFar
    <3> QED
      BY <1>1, <1>9, <2>2, <3>1 DEF SoFar
  <2>3. CASE buffered
    <3>1. io["spec"] = TextAt(now, 0)
      BY <1>2, <2>1, <2>3 DEF IoInv, Outputs
    <3>2. RegionText(n, Len(program[n])) = <<>>
      BY <1>1, <1>4, <2>3 DEF NothingLost
    <3>3. SequentialText(now) \in Seq(Char) /\ TextAt(now, 0) = SequentialText(now)
      BY <1>0, <1>6, SequentialType, AtStart
    <3>4. SequentialText(n) = SequentialText(now) \o RegionText(n, Len(program[n]))
      BY <1>0, <1>3, <1>4, <1>6, SequentialNext
    <3>5. SequentialText(n) = SequentialText(now)
      BY <3>2, <3>3, <3>4, ConcatEmptySeq
    <3> QED
      BY <1>1, <1>9, <1>10, <2>3, <3>1, <3>3, <3>5 DEF SoFar
  <2> QED
    BY <2>2, <2>3
<1>13. Continue("spec", m)
  BY <1>1, <1>5
<1>14. FileAt(now + 1, pos["undy"]) = FileAt(m, 0)
  BY <1>4, <1>8, <1>9
<1> QED
  BY <1>1, <1>2, <1>6, <1>10, <1>11, <1>12, <1>13, <1>14, ContinueStep

(* The understudy wins: it prints what its buffer holds. *)
LEMMA UndySuccStep ==
  ASSUME IoInv, IoUndySucc
  PROVE  IoInv'
<1>0. IoType /\ program \in Programs
  BY DEF IoInv, IoType
<1> DEFINE c == CString(undy_buffer)
           r == RegionText(now + 2, pos["undy"])
<1>1. /\ Done("undy") /\ Continue("undy", Min({now + 2, NumRegions})) /\ dropped' = dropped
      /\ truncated' = truncated /\ buffered' = buffered
      /\ buffered => io' = [io EXCEPT !["main"] = io["undy"] \o c] /\ stdout' = stdout
      /\ ~buffered => stdout' = stdout \o c /\ io' = [io EXCEPT !["main"] = io["undy"]]
  BY DEF IoUndySucc, Continue
<1>2. UndyRuns /\ now < NumRegions
  BY <1>1 DEF IoInv, Shape, NoTask, MainRuns, UndyRuns, Done
<1>3. now \in Nat /\ pos["undy"] \in Nat /\ now \in 0 .. NumRegions
  BY <1>0 DEF IoType, Task
<1>4. PICK n \in Nat : n = now + 1
  BY <1>3
<1>5. PICK m \in Nat : m = Min({now + 2, NumRegions})
  <2>1. {now + 2, NumRegions} \in SUBSET Nat /\ {now + 2, NumRegions} # {}
    BY <1>3, IoAssumption
  <2> QED
    BY <2>1, MinIs
<1>6. m = IF now + 2 <= NumRegions THEN now + 2 ELSE n
  <2> DEFINE T == {now + 2, NumRegions}
  <2>1. T \in SUBSET Nat /\ now + 2 \in T /\ NumRegions \in T /\ \A x \in T : x = now + 2 \/ x = NumRegions
    BY <1>3, IoAssumption
  <2>2. m = Min(T)
    BY <1>5
  <2> HIDE DEF T
  <2>3. m \in T /\ m <= now + 2 /\ m <= NumRegions
    BY <2>1, <2>2, MinIs
  <2> QED
    BY <1>2, <1>3, <1>4, <2>1, <2>3, IoAssumption
<1>7. n \in 0 .. NumRegions /\ m \in 0 .. NumRegions
  BY <1>2, <1>3, <1>4, <1>6, IoAssumption
<1>8. TextAt(n, pos["undy"]) = TextAt(m, 0) /\ FileAt(n, pos["undy"]) = FileAt(m, 0)
  <2>1. CASE now + 2 <= NumRegions
    <3>1. m = n + 1 /\ n < NumRegions /\ m \in 1 .. NumRegions
      BY <1>3, <1>4, <1>6, <2>1, IoAssumption
    <3>2. Len(program[m]) \in Nat
      BY <1>0, <3>1, ProgramType
    <3>3. pos["undy"] <= Len(program[m]) /\ ~(pos["undy"] < Len(program[m]))
      BY <1>1, <1>2, <1>6, <2>1 DEF IoInv, Positions, Done, Ready, Region
    <3>4. pos["undy"] = Len(program[m])
      BY <1>3, <3>2, <3>3
    <3>5. /\ TextAt(n, Len(program[m])) = SequentialText(m)
          /\ FileAt(n, Len(program[m])) = SequentialFile(m)
      BY <1>0, <3>1, AtEnd
    <3>6. TextAt(m, 0) = SequentialText(m) /\ FileAt(m, 0) = SequentialFile(m)
      BY <1>0, <1>7, AtStart
    <3> QED
      BY <3>4, <3>5, <3>6
  <2>2. CASE ~(now + 2 <= NumRegions)
    BY <1>2, <1>6, <2>2 DEF IoInv, Positions
  <2> QED
    BY <2>1, <2>2
<1>9. Holds(undy_buffer, r, ~truncated)
  BY <1>2 DEF IoInv, Buffers
<1>10. c \in Seq(Char) /\ (~truncated => c = r)
  <2> HIDE DEF r
  <2> QED
    BY <1>9, CStringIs
<1> HIDE DEF c
<1>11. io["undy"] \o c \in Seq(Char) /\ stdout \o c \in Seq(Char)
  BY <1>0, <1>10, ConcatProperties DEF IoType, Task
<1>12. /\ io' \in [Task -> Seq(Char)] /\ stdout' \in Seq(Char) /\ dropped' \in BOOLEAN
       /\ buffered => io'["main"] = io["undy"] \o c
       /\ ~buffered => io'["main"] = io["undy"]
       /\ io'["spec"] = io["spec"] /\ io'["undy"] = io["undy"]
  BY <1>0, <1>1, <1>11 DEF IoType, Task
<1>13. ~buffered => \A q \in Task : io'[q] = <<>>
  BY <1>12 DEF IoInv, Kept, Task
<1>14. NothingLost' => SoFar("main")' = TextAt(m, 0)
  <2> SUFFICES ASSUME NothingLost' PROVE SoFar("main")' = TextAt(m, 0)
    OBVIOUS
  <2>1. NothingLost /\ c = r
    BY <1>1, <1>10 DEF NothingLost
  <2>2. SoFar("undy") = TextAt(n, 0)
    BY <1>2, <1>4, <2>1 DEF IoInv, Outputs
  <2>3. TextAt(n, 0) = SequentialText(n)
    BY <1>0, <1>7, AtStart
  <2>4. n + 1 = now + 2
    BY <1>3, <1>4
  <2>5. SequentialText(n) \o c = TextAt(m, 0)
    BY <1>8, <2>1, <2>4 DEF TextAt
  <2>6. SoFar("main")' = SoFar("undy") \o c
    BY <1>1, <1>12 DEF SoFar
  <2> QED
    BY <2>2, <2>3, <2>5, <2>6
<1>15. Continue("undy", m)
  BY <1>1, <1>5
<1>16. FileAt(now + 1, pos["undy"]) = FileAt(m, 0)
  BY <1>4, <1>8
<1> QED
  BY <1>1, <1>2, <1>7, <1>12, <1>13, <1>14, <1>15, <1>16, ContinueStep

(* exit writes what the C library keeps. *)
LEMMA ExitStep ==
  ASSUME IoInv, Exit
  PROVE  IoInv'
<1>0. IoType /\ phase = "seq" /\ now = NumRegions /\ NoTask
  BY DEF IoInv, Exit, Shape
<1>1. /\ phase' = "end" /\ stdout' = stdout \o io["main"]
      /\ program' = program /\ buffered' = buffered /\ now' = now /\ st' = st /\ pos' = pos
      /\ undy_buffer' = undy_buffer /\ io' = io /\ file' = file
      /\ truncated' = truncated /\ unforked' = unforked /\ dropped' = dropped
  BY DEF Exit, group, history
<1>2. NoTask' /\ ~MainRuns' /\ ~UndyRuns' /\ st'["spec"] # "run"
  BY <1>0, <1>1 DEF NoTask, MainRuns, UndyRuns
<1>3. /\ \A n, i : TextAt(n, i)' = TextAt(n, i) /\ FileAt(n, i)' = FileAt(n, i)
  BY <1>1, ProgramFixed
<1>4. io["main"] \in Seq(Char) /\ stdout \in Seq(Char)
  BY <1>0 DEF IoType, Task
<1>5. stdout \o io["main"] \in Seq(Char) /\ stdout \o <<>> = stdout /\ <<>> \o io["main"] = io["main"]
  BY <1>4, ConcatProperties, ConcatEmptySeq
<1>6. stdout \o io["main"] = SoFar("main")
  BY <1>0, <1>5 DEF IoInv, Kept, SoFar, Task
<1>7. IoType'
  BY <1>0, <1>1, <1>5 DEF IoType
<1>8. Shape' /\ Positions' /\ Files' /\ Buffers' /\ Kept'
  BY <1>0, <1>1, <1>2 DEF IoInv, Shape, Positions, Files, Buffers, Kept
<1>9. Outputs'
  <2>1. NothingLost' => NothingLost
    BY <1>1 DEF NothingLost
  <2> QED
    BY <1>0, <1>1, <1>2, <1>3, <1>6, <2>1 DEF IoInv, Outputs
<1> QED
  BY <1>7, <1>8, <1>9 DEF IoInv

-----------------------------------------------------------------------------
LEMMA IoNext == ASSUME IoInv, [Next]_vars PROVE IoInv'
<1>1. CASE Next
  BY <1>1, GroupInitStep, MainPrintsStep, UndyPrintsStep, SpecEndsStep, OthersWriteStep,
     MainEndsStep, SerialEndsStep, GroupSuccStep, UndySuccStep, ExitStep DEF Next
<1>2. CASE UNCHANGED vars
  <2>1. UNCHANGED <<program, buffered, now, phase, st, pos, undy_buffer, io, stdout, file,
                    truncated, unforked, dropped>>
    BY <1>2 DEF vars, group, output, history
  <2>2. /\ \A n, k : RegionText(n, k)' = RegionText(n, k)
        /\ \A n, k : TextAt(n, k)' = TextAt(n, k) /\ FileAt(n, k)' = FileAt(n, k)
    BY <2>1, ProgramFixed
  <2>3. (NoTask' <=> NoTask) /\ (MainRuns' <=> MainRuns) /\ (UndyRuns' <=> UndyRuns)
    BY <2>1 DEF NoTask, MainRuns, UndyRuns
  <2>4. IoType' /\ Shape' /\ Positions'
    BY <2>1, <2>3 DEF IoInv, IoType, Shape, Positions
  <2>5. Files' /\ Buffers' /\ Kept'
    BY <2>1, <2>2, <2>3 DEF IoInv, Files, Buffers, Kept
  <2>6. Outputs'
    <3>1. SoFar("main")' = SoFar("main") /\ SoFar("undy")' = SoFar("undy")
          /\ (NothingLost' <=> NothingLost)
      BY <2>1 DEF SoFar, NothingLost
    <3> QED
      BY <2>1, <2>2, <2>3, <3>1 DEF IoInv, Outputs
  <2> QED
    BY <2>4, <2>5, <2>6 DEF IoInv
<1> QED
  BY <1>1, <1>2

LEMMA IoInvariant == Spec => []IoInv
BY IoInit, IoNext, PTL DEF Spec

LEMMA BufferFollows == IoInv => BufferHoldsText
<1> SUFFICES ASSUME IoInv, st["undy"] = "run", phase = "group"
             PROVE  LET printed == RegionText(now + 2, pos["undy"])
                    IN  /\ IsPrefix(CString(undy_buffer), printed)
                        /\ ~truncated => CString(undy_buffer) = printed
  BY DEF BufferHoldsText
<1> DEFINE printed == RegionText(now + 2, pos["undy"])
<1>1. UndyRuns
  BY DEF IoInv, Shape, MainRuns
<1>2. Holds(undy_buffer, printed, ~truncated)
  BY <1>1 DEF IoInv, Buffers
<1> HIDE DEF printed
<1>3. IsPrefix(CString(undy_buffer), printed) /\ (~truncated => CString(undy_buffer) = printed)
  BY <1>2, CStringIs
<1> QED
  BY <1>3 DEF printed

LEMMA OutputFollows == IoInv => OutputIsSequential
<1> SUFFICES ASSUME IoInv, phase = "end", NothingLost PROVE stdout = SequentialText(NumRegions)
  BY DEF OutputIsSequential, NothingLost
<1>1. stdout = TextAt(NumRegions, 0)
  BY DEF IoInv, Outputs
<1>2. program \in Programs /\ NumRegions \in 0 .. NumRegions
  BY IoAssumption DEF IoInv, IoType
<1> QED
  BY <1>1, <1>2, AtStart

LEMMA FileFollows == IoInv => FileIsSequential
<1> SUFFICES ASSUME IoInv, phase = "seq" PROVE file = SequentialFile(now)
  BY DEF FileIsSequential
<1>1. file = FileAt(now, 0)
  BY DEF IoInv, Files
<1>2. program \in Programs /\ now \in 0 .. NumRegions
  BY DEF IoInv, IoType
<1> QED
  BY <1>1, <1>2, AtStart

(***************************************************************************)
(* The understudy's buffer holds a front part of what the understudy has   *)
(* printed, and all of it unless a text has filled it to its last cell:    *)
(* the arithmetic of vsnprintf, realloc and the stored length in           *)
(* BOP_printf, for texts of any lengths in any order.                      *)
(***************************************************************************)
THEOREM BufferKeepsText == Spec => []BufferHoldsText
BY IoInvariant, BufferFollows, PTL

(***************************************************************************)
(* For every program, and whoever wins the race of each group, the output  *)
(* of io_group_init, BOP_printf, io_undy_succ and io_group_succ together   *)
(* is that of a sequential execution, with the two exceptions that the     *)
(* property names.                                                         *)
(***************************************************************************)
THEOREM OutputAlwaysSequential == Spec => []OutputIsSequential
BY IoInvariant, OutputFollows, PTL

(***************************************************************************)
(* BOP_fprintf writes, from MAIN and from an understudy that may lose,     *)
(* what a sequential execution writes.                                     *)
(***************************************************************************)
THEOREM FileAlwaysSequential == Spec => []FileIsSequential
BY IoInvariant, FileFollows, PTL

(***************************************************************************)
(* The assertions of BOP_printf and io_group_init can fail only after a    *)
(* text has filled the buffer exactly or a fork has failed.                *)
(***************************************************************************)
THEOREM AssertionsAlwaysHold == Spec => []AssertionsHold
<1>1. IoInv => AssertionsHold
  BY DEF IoInv, Buffers, AssertionsHold
<1> QED
  BY <1>1, IoInvariant, PTL

=============================================================================
