--------------------------- MODULE PostWaitProof ----------------------------
(***************************************************************************)
(* Proofs about post-wait and ordered regions for every group size and     *)
(* every program made of the kinds of regions.                             *)
(***************************************************************************)
EXTENDS PostWait, SetInduction, SequenceTheorems

LEMMA TaskFacts ==
  /\ GroupSize \in Int /\ GroupSize >= 2 /\ Kinds \subseteq AllKinds
  /\ 0 \in Task
  /\ \A p \in Task : p \in Int /\ 0 <= p /\ p < GroupSize
  /\ \A p \in Int : 0 <= p /\ p < GroupSize => p \in Task
BY PostWaitAssumption DEF Task

-----------------------------------------------------------------------------
(***************************************************************************)
(* The steps of the regions, by operation.                                 *)
(***************************************************************************)
LEMMA StepsLen ==
  ASSUME NEW kind \in AllKinds
  PROVE  /\ Len(Steps(kind)) = CASE kind = "ordered" -> 3 [] kind = "late" -> 4
                                 [] kind = "early" -> 4 [] kind = "skip" -> 1
                                 [] kind = "plain" -> 1 [] kind = "empty" -> 2
                                 [] kind = "twice" -> 8
         /\ Len(Steps(kind)) \in Nat
BY DEF AllKinds, Steps

LEMMA StepsAre ==
  /\ Steps("ordered")[1] = Begin(1) /\ Steps("ordered")[2] = Access("z") /\ Steps("ordered")[3] = End(1)
  /\ Steps("late")[1] = Begin(1) /\ Steps("late")[2] = Access("z") /\ Steps("late")[3] = End(1)
  /\ Steps("late")[4] = Access("z")
  /\ Steps("early")[1] = Access("z") /\ Steps("early")[2] = Begin(1)
  /\ Steps("early")[3] = Access("z") /\ Steps("early")[4] = End(1)
  /\ Steps("skip")[1] = Skip(1)
  /\ Steps("plain")[1] = Access("y")
  /\ Steps("empty")[1] = Begin(1) /\ Steps("empty")[2] = End(1)
  /\ Steps("twice")[1] = Begin(1) /\ Steps("twice")[2] = Begin(2) /\ Steps("twice")[3] = Access("z")
  /\ Steps("twice")[4] = End(2) /\ Steps("twice")[5] = End(1) /\ Steps("twice")[6] = Begin(11)
  /\ Steps("twice")[7] = Access("y") /\ Steps("twice")[8] = End(11)
BY DEF Steps

LEMMA StepFields ==
  /\ \A a : Access(a).op = "access" /\ Access(a).addr = a
  /\ \A r : Begin(r).op = "begin" /\ Begin(r).region = r
  /\ \A r : End(r).op = "end" /\ End(r).region = r
  /\ \A r : Skip(r).op = "skip" /\ Skip(r).region = r
BY DEF Access, Begin, End, Skip

LEMMA OneOfTheSteps ==
  ASSUME NEW kind \in AllKinds, NEW n \in 1 .. Len(Steps(kind))
  PROVE  \/ kind = "ordered" /\ n \in {1, 2, 3}
         \/ kind = "late" /\ n \in {1, 2, 3, 4}
         \/ kind = "early" /\ n \in {1, 2, 3, 4}
         \/ kind = "skip" /\ n = 1
         \/ kind = "plain" /\ n = 1
         \/ kind = "empty" /\ n \in {1, 2}
         \/ kind = "twice" /\ n \in {1, 2, 3, 4, 5, 6, 7, 8}
<1>1. n \in Int /\ 1 <= n /\ n <= Len(Steps(kind))
  BY StepsLen
<1>2. CASE kind = "ordered"
  <2>1. Len(Steps(kind)) = 3
    BY <1>2, StepsLen
  <2>2. n = 1 \/ n = 2 \/ n = 3
    BY <1>1, <2>1
  <2> QED
    BY <1>2, <2>2
<1>3. CASE kind \in {"late", "early"}
  <2>1. Len(Steps(kind)) = 4
    BY <1>3, StepsLen
  <2>2. n = 1 \/ n = 2 \/ n = 3 \/ n = 4
    BY <1>1, <2>1
  <2> QED
    BY <1>3, <2>2
<1>4. CASE kind \in {"skip", "plain"}
  <2>1. Len(Steps(kind)) = 1
    BY <1>4, StepsLen
  <2>2. n = 1
    BY <1>1, <2>1
  <2> QED
    BY <1>4, <2>2
<1>5. CASE kind = "empty"
  <2>1. Len(Steps(kind)) = 2
    BY <1>5, StepsLen
  <2>2. n = 1 \/ n = 2
    BY <1>1, <2>1
  <2> QED
    BY <1>5, <2>2
<1>6. CASE kind = "twice"
  <2>1. Len(Steps(kind)) = 8
    BY <1>6, StepsLen
  <2>2. n = 1 \/ n = 2 \/ n = 3 \/ n = 4 \/ n = 5 \/ n = 6 \/ n = 7 \/ n = 8
    BY <1>1, <2>1
  <2> QED
    BY <1>6, <2>2
<1> QED
  BY <1>2, <1>3, <1>4, <1>5, <1>6 DEF AllKinds

LEMMA StepIs ==
  ASSUME NEW kind \in AllKinds, NEW n \in 1 .. Len(Steps(kind))
  PROVE  \/ kind \in {"ordered", "late", "empty", "twice"} /\ n = 1 /\ Steps(kind)[n] = Begin(1)
         \/ kind = "early" /\ n = 2 /\ Steps(kind)[n] = Begin(1)
         \/ kind = "twice" /\ n = 2 /\ Steps(kind)[n] = Begin(2)
         \/ kind = "twice" /\ n = 6 /\ Steps(kind)[n] = Begin(11)
         \/ kind \in {"ordered", "late"} /\ n = 2 /\ Steps(kind)[n] = Access("z")
         \/ kind = "late" /\ n = 4 /\ Steps(kind)[n] = Access("z")
         \/ kind = "early" /\ n \in {1, 3} /\ Steps(kind)[n] = Access("z")
         \/ kind = "plain" /\ n = 1 /\ Steps(kind)[n] = Access("y")
         \/ kind = "twice" /\ n = 3 /\ Steps(kind)[n] = Access("z")
         \/ kind = "twice" /\ n = 7 /\ Steps(kind)[n] = Access("y")
         \/ kind \in {"ordered", "late"} /\ n = 3 /\ Steps(kind)[n] = End(1)
         \/ kind = "early" /\ n = 4 /\ Steps(kind)[n] = End(1)
         \/ kind = "empty" /\ n = 2 /\ Steps(kind)[n] = End(1)
         \/ kind = "twice" /\ n = 4 /\ Steps(kind)[n] = End(2)
         \/ kind = "twice" /\ n = 5 /\ Steps(kind)[n] = End(1)
         \/ kind = "twice" /\ n = 8 /\ Steps(kind)[n] = End(11)
         \/ kind = "skip" /\ n = 1 /\ Steps(kind)[n] = Skip(1)
<1>1. CASE kind = "ordered" /\ n \in {1, 2, 3}
  BY <1>1, StepsAre
<1>2. CASE kind = "late" /\ n \in {1, 2, 3, 4}
  BY <1>2, StepsAre
<1>3. CASE kind = "early" /\ n \in {1, 2, 3, 4}
  BY <1>3, StepsAre
<1>4. CASE kind \in {"skip", "plain"} /\ n = 1
  BY <1>4, StepsAre
<1>5. CASE kind = "empty" /\ n \in {1, 2}
  BY <1>5, StepsAre
<1>6. CASE kind = "twice" /\ n \in {1, 2, 3, 4, 5, 6, 7, 8}
  BY <1>6, StepsAre
<1> QED
  BY <1>1, <1>2, <1>3, <1>4, <1>5, <1>6, OneOfTheSteps

LEMMA AccessSteps ==
  ASSUME NEW kind \in AllKinds, NEW n \in 1 .. Len(Steps(kind)), Steps(kind)[n].op = "access"
  PROVE  \/ kind \in {"ordered", "late"} /\ n = 2 /\ Steps(kind)[n].addr = "z"
         \/ kind = "late" /\ n = 4 /\ Steps(kind)[n].addr = "z"
         \/ kind = "early" /\ n \in {1, 3} /\ Steps(kind)[n].addr = "z"
         \/ kind = "plain" /\ n = 1 /\ Steps(kind)[n].addr = "y"
         \/ kind = "twice" /\ n = 3 /\ Steps(kind)[n].addr = "z"
         \/ kind = "twice" /\ n = 7 /\ Steps(kind)[n].addr = "y"
BY StepIs, StepFields

LEMMA BeginSteps ==
  ASSUME NEW kind \in AllKinds, NEW n \in 1 .. Len(Steps(kind)), Steps(kind)[n].op = "begin"
  PROVE  \/ kind \in {"ordered", "late", "empty", "twice"} /\ n = 1 /\ Steps(kind)[n].region = 1
         \/ kind = "early" /\ n = 2 /\ Steps(kind)[n].region = 1
         \/ kind = "twice" /\ n = 2 /\ Steps(kind)[n].region = 2
         \/ kind = "twice" /\ n = 6 /\ Steps(kind)[n].region = 11
BY StepIs, StepFields

LEMMA EndSteps ==
  ASSUME NEW kind \in AllKinds, NEW n \in 1 .. Len(Steps(kind)), Steps(kind)[n].op = "end"
  PROVE  \/ kind \in {"ordered", "late"} /\ n = 3 /\ Steps(kind)[n].region = 1
         \/ kind = "early" /\ n = 4 /\ Steps(kind)[n].region = 1
         \/ kind = "empty" /\ n = 2 /\ Steps(kind)[n].region = 1
         \/ kind = "twice" /\ n = 4 /\ Steps(kind)[n].region = 2
         \/ kind = "twice" /\ n = 5 /\ Steps(kind)[n].region = 1
         \/ kind = "twice" /\ n = 8 /\ Steps(kind)[n].region = 11
BY StepIs, StepFields

LEMMA SkipSteps ==
  ASSUME NEW kind \in AllKinds, NEW n \in 1 .. Len(Steps(kind)), Steps(kind)[n].op = "skip"
  PROVE  kind = "skip" /\ n = 1 /\ Steps(kind)[n].region = 1
BY StepIs, StepFields

(* The addresses a region accesses. *)
Touched(kind) ==
  CASE kind \in {"ordered", "late", "early"} -> {"z"}
    [] kind = "plain" -> {"y"}
    [] kind = "twice" -> {"y", "z"}
    [] OTHER -> {}

-----------------------------------------------------------------------------
(***************************************************************************)
(* Sequential execution.                                                   *)
(***************************************************************************)
Unrolls(kind, p, m, n, f) ==
  f = [k \in 1 .. n |-> IF k = 1 THEN m ELSE Execute(kind, p, k - 1, f[k - 1])]

LEMMA UnrollsNext ==
  ASSUME NEW kind, NEW p, NEW m, NEW n \in Nat, NEW f, Unrolls(kind, p, m, n, f)
  PROVE  \E g : Unrolls(kind, p, m, n + 1, g)
<1> DEFINE e(k, x) == IF k = 1 THEN m ELSE Execute(kind, p, k - 1, x)
           g == [k \in 1 .. n + 1 |-> IF k = n + 1 THEN e(k, f[n]) ELSE f[k]]
<1>1. ASSUME NEW k \in 1 .. n + 1 PROVE g[k] = IF k = 1 THEN m ELSE Execute(kind, p, k - 1, g[k - 1])
  <2>1. CASE k = n + 1
    BY <2>1
  <2>2. CASE k # n + 1
    <3>1. k \in 1 .. n /\ (k # 1 => k - 1 \in 1 .. n)
      BY <2>2
    <3>2. f[k] = IF k = 1 THEN m ELSE Execute(kind, p, k - 1, f[k - 1])
      BY <3>1 DEF Unrolls
    <3> QED
      BY <2>2, <3>1, <3>2
  <2> QED
    BY <2>1, <2>2
<1>2. g = [k \in 1 .. n + 1 |-> IF k = 1 THEN m ELSE Execute(kind, p, k - 1, g[k - 1])]
  BY <1>1
<1> QED
  BY <1>2 DEF Unrolls

LEMMA UnrollsAll ==
  ASSUME NEW kind, NEW p, NEW m, NEW n \in Nat
  PROVE  \E f : Unrolls(kind, p, m, n, f)
<1> DEFINE T == {d \in Nat : \E f : Unrolls(kind, p, m, d, f)}
<1>1. 0 \in T
  <2> DEFINE f == [k \in 1 .. 0 |-> m]
  <2>1. Unrolls(kind, p, m, 0, f)
    BY DEF Unrolls
  <2> QED
    BY <2>1
<1>2. ASSUME NEW d \in Nat, d \in T PROVE d + 1 \in T
  BY <1>2, UnrollsNext
<1>3. \A d \in Nat : d \in T
  <2> HIDE DEF T
  <2> QED
    BY <1>1, <1>2, NaturalsBySuccessor
<1> QED
  BY <1>3

LEMMA RegionRunIs ==
  ASSUME NEW kind \in AllKinds, NEW p, NEW m
  PROVE  Unrolls(kind, p, m, Len(Steps(kind)) + 1, RegionRun(kind, p, m))
<1> DEFINE n == Len(Steps(kind)) + 1
<1>1. n \in Nat
  BY StepsLen
<1>2. RegionRun(kind, p, m) = CHOOSE f : Unrolls(kind, p, m, n, f)
  BY DEF RegionRun, Unrolls
<1> HIDE DEF n
<1>3. \E f : Unrolls(kind, p, m, n, f)
  BY <1>1, UnrollsAll
<1>4. Unrolls(kind, p, m, n, RegionRun(kind, p, m))
  BY <1>2, <1>3
<1> QED
  BY <1>4 DEF n

(* The same for the regions of a program. *)
LastOf(prog, f, p) == IF p = 0 THEN FirstMemory ELSE f[p - 1][Len(Steps(prog[p - 1])) + 1]
Follows(prog, n, f) == f = [p \in 0 .. n - 1 |-> RegionRun(prog[p], p, LastOf(prog, f, p))]

LEMMA FollowsNext ==
  ASSUME NEW prog, NEW n \in Nat, NEW f, Follows(prog, n, f)
  PROVE  \E g : Follows(prog, n + 1, g)
<1> DEFINE g == [p \in 0 .. n + 1 - 1 |-> IF p = n THEN RegionRun(prog[p], p, LastOf(prog, f, p)) ELSE f[p]]
<1>1. ASSUME NEW p \in 0 .. n + 1 - 1 PROVE g[p] = RegionRun(prog[p], p, LastOf(prog, g, p))
  <2>1. LastOf(prog, g, p) = LastOf(prog, f, p)
    BY DEF LastOf
  <2>2. CASE p = n
    BY <2>1, <2>2
  <2>3. CASE p # n
    <3>1. p \in 0 .. n - 1
      BY <2>3
    <3>2. f[p] = RegionRun(prog[p], p, LastOf(prog, f, p))
      BY <3>1 DEF Follows
    <3> QED
      BY <2>1, <2>3, <3>2
  <2> QED
    BY <2>2, <2>3
<1>2. g = [p \in 0 .. n + 1 - 1 |-> RegionRun(prog[p], p, LastOf(prog, g, p))]
  BY <1>1
<1>3. Follows(prog, n + 1, g)
  <2> HIDE DEF g
  <2> QED
    BY <1>2 DEF Follows
<1> QED
  <2> HIDE DEF g
  <2> QED
    BY <1>3

LEMMA FollowsAll ==
  ASSUME NEW prog, NEW n \in Nat
  PROVE  \E f : Follows(prog, n, f)
<1> DEFINE T == {d \in Nat : \E f : Follows(prog, d, f)}
<1>1. 0 \in T
  <2> DEFINE f == [p \in 0 .. 0 - 1 |-> p]
  <2>1. Follows(prog, 0, f)
    BY DEF Follows
  <2> QED
    BY <2>1
<1>2. ASSUME NEW d \in Nat, d \in T PROVE d + 1 \in T
  BY <1>2, FollowsNext
<1>3. \A d \in Nat : d \in T
  <2> HIDE DEF T
  <2> QED
    BY <1>1, <1>2, NaturalsBySuccessor
<1> QED
  BY <1>3

LEMMA ProgramRunIs ==
  ASSUME NEW prog
  PROVE  Follows(prog, GroupSize, ProgramRun(prog))
<1>1. GroupSize \in Nat
  BY TaskFacts
<1>2. ProgramRun(prog) = CHOOSE f : Follows(prog, GroupSize, f)
  BY DEF ProgramRun, Follows, LastOf, Task
<1>3. \E f : Follows(prog, GroupSize, f)
  BY <1>1, FollowsAll
<1> QED
  BY <1>2, <1>3

(* The memory before the first step of a region is that after the region   *)
(* before, and each step executes on the memory before it.                 *)
LEMMA SequentialSteps ==
  ASSUME program \in [Task -> Kinds], NEW p \in Task
  PROVE  /\ Sequential(p, 1) = IF p = 0 THEN FirstMemory ELSE SequentialAfter(p - 1)
         /\ \A k \in 1 .. Len(Steps(program[p])) :
              Sequential(p, k + 1) = Execute(program[p], p, k, Sequential(p, k))
<1> DEFINE R == ProgramRun(program)
           kind == program[p]
           m == LastOf(program, R, p)
           n == Len(Steps(kind)) + 1
<1>1. SequentialRun[program] = R
  BY DEF SequentialRun
<1>2. kind \in AllKinds /\ p \in 0 .. GroupSize - 1 /\ (p # 0 => p - 1 \in Task)
  BY TaskFacts
<1>3. n \in Nat /\ n >= 1
  BY <1>2, StepsLen
<1>4. R[p] = RegionRun(kind, p, m)
  BY <1>2, ProgramRunIs DEF Follows
<1>5. Unrolls(kind, p, m, n, R[p])
  BY <1>2, <1>4, RegionRunIs
<1>6. R[p][1] = m
  BY <1>3, <1>5 DEF Unrolls
<1>7. ASSUME NEW k \in 1 .. Len(Steps(kind)) PROVE R[p][k + 1] = Execute(kind, p, k, R[p][k])
  <2>1. k + 1 \in 1 .. n /\ k + 1 # 1 /\ (k + 1) - 1 = k
    BY <1>3
  <2>2. \A i \in 1 .. n : R[p][i] = IF i = 1 THEN m ELSE Execute(kind, p, i - 1, R[p][i - 1])
    <3> HIDE DEF R, m, n, kind
    <3> QED
      BY <1>5 DEF Unrolls
  <2> QED
    BY <2>1, <2>2
<1> QED
  BY <1>1, <1>2, <1>6, <1>7 DEF Sequential, SequentialAfter, LastOf
(* A memory is a function on the addresses. *)
IsMem(m) == m = [a \in Addr |-> m[a]]

(* The value that step k of task p computes from v. *)
Computed(p, k, v) == [by |-> <<p, k>>, saw |-> v]

LEMMA ExecuteIs ==
  ASSUME NEW kind \in AllKinds, NEW n \in 1 .. Len(Steps(kind)), NEW p, NEW m, IsMem(m)
  PROVE  /\ IsMem(Execute(kind, p, n, m))
         /\ Steps(kind)[n].op # "access" => Execute(kind, p, n, m) = m
         /\ \A a \in Addr :
              Execute(kind, p, n, m)[a] =
                IF Steps(kind)[n].op = "access" /\ Steps(kind)[n].addr = a THEN Computed(p, n, m[a]) ELSE m[a]
<1> DEFINE s == Steps(kind)[n]
<1>1. CASE s.op # "access"
  BY <1>1 DEF Execute
<1>2. CASE s.op = "access"
  <2>1. s.addr \in Addr
    BY <1>2, AccessSteps DEF Addr
  <2>2. Execute(kind, p, n, m) = [m EXCEPT ![s.addr] = [by |-> <<p, n>>, saw |-> m[s.addr]]]
    BY <1>2 DEF Execute
  <2> HIDE DEF s
  <2>3. Execute(kind, p, n, m) = [a \in Addr |-> IF a = s.addr THEN Computed(p, n, m[a]) ELSE m[a]]
    BY <2>1, <2>2 DEF IsMem, Computed
  <2>4. IsMem(Execute(kind, p, n, m))
    BY <2>3 DEF IsMem
  <2> QED
    BY <1>2, <2>3, <2>4 DEF s
<1> QED
  BY <1>1, <1>2

LEMMA FirstIsMem == IsMem(FirstMemory)
BY DEF IsMem, FirstMemory

LEMMA SequentialMem ==
  ASSUME program \in [Task -> Kinds], NEW p \in Task, NEW n \in 1 .. Len(Steps(program[p])) + 1
  PROVE  IsMem(Sequential(p, n))
<1> USE TaskFacts
<1> DEFINE good(q) == \A k \in 1 .. Len(Steps(program[q])) + 1 : IsMem(Sequential(q, k))
<1>1. ASSUME NEW q \in Task, IsMem(Sequential(q, 1)) PROVE good(q)
  <2> DEFINE U == {d \in Nat : d <= Len(Steps(program[q])) => IsMem(Sequential(q, d + 1))}
  <2>0. program[q] \in AllKinds /\ Len(Steps(program[q])) \in Nat
    BY StepsLen
  <2>1. 0 \in U
    BY <1>1
  <2>2. ASSUME NEW d \in Nat, d \in U PROVE d + 1 \in U
    <3> SUFFICES ASSUME d + 1 <= Len(Steps(program[q])) PROVE IsMem(Sequential(q, (d + 1) + 1))
      OBVIOUS
    <3>1. PICK k \in 1 .. Len(Steps(program[q])) : k = d + 1
      BY <2>0
    <3>2. IsMem(Sequential(q, k))
      BY <2>0, <2>2, <3>1
    <3>3. Sequential(q, k + 1) = Execute(program[q], q, k, Sequential(q, k))
      BY SequentialSteps
    <3>4. IsMem(Sequential(q, k + 1))
      BY <2>0, <3>2, <3>3, ExecuteIs
    <3> QED
      BY <3>1, <3>4
  <2>3. \A d \in Nat : d \in U
    <3> HIDE DEF U
    <3> QED
      BY <2>1, <2>2, NaturalsBySuccessor
  <2>4. ASSUME NEW k \in 1 .. Len(Steps(program[q])) + 1 PROVE IsMem(Sequential(q, k))
    <3>1. PICK d \in Nat : d = k - 1
      BY <2>0
    <3>2. d <= Len(Steps(program[q])) /\ d + 1 = k
      BY <2>0, <3>1
    <3> QED
      BY <2>3, <3>2
  <2> QED
    BY <2>4
<1> DEFINE T == {d \in Nat : d \in Task => good(d)}
<1>2. 0 \in T
  <2>1. IsMem(Sequential(0, 1))
    BY SequentialSteps, FirstIsMem
  <2> QED
    BY <1>1, <2>1
<1>3. ASSUME NEW d \in Nat, d \in T PROVE d + 1 \in T
  <2> SUFFICES ASSUME d + 1 \in Task PROVE good(d + 1)
    OBVIOUS
  <2>1. PICK q \in Task : q = d + 1
    OBVIOUS
  <2>2. d \in Task /\ q # 0 /\ q - 1 = d /\ Len(Steps(program[d])) \in Nat
    <3>1. d \in Task /\ q # 0 /\ q - 1 = d
      BY <2>1
    <3>2. program[d] \in AllKinds
      BY <3>1
    <3> QED
      BY <3>1, <3>2, StepsLen
  <2>3. IsMem(SequentialAfter(d))
    BY <1>3, <2>2 DEF SequentialAfter
  <2>4. IsMem(Sequential(q, 1))
    BY <2>2, <2>3, SequentialSteps
  <2> QED
    BY <1>1, <2>1, <2>4
<1>4. \A d \in Nat : d \in T
  <2> HIDE DEF T
  <2> QED
    BY <1>2, <1>3, NaturalsBySuccessor
<1>5. good(p)
  BY <1>4
<1> QED
  BY <1>5

(* A step of the sequential execution at one address. *)
LEMMA SequentialStep ==
  ASSUME program \in [Task -> Kinds], NEW p \in Task, NEW k \in 1 .. Len(Steps(program[p])),
         NEW a \in Addr
  PROVE  Sequential(p, k + 1)[a] =
           IF Steps(program[p])[k].op = "access" /\ Steps(program[p])[k].addr = a
           THEN Computed(p, k, Sequential(p, k)[a]) ELSE Sequential(p, k)[a]
<1>1. program[p] \in AllKinds /\ k \in 1 .. Len(Steps(program[p])) + 1
  BY TaskFacts, StepsLen
<1>2. IsMem(Sequential(p, k))
  BY <1>1, SequentialMem
<1> QED
  BY <1>1, <1>2, ExecuteIs, SequentialSteps

(* What a region does not access it leaves alone. *)
LEMMA UntouchedRegion ==
  ASSUME program \in [Task -> Kinds], NEW p \in Task, NEW a \in Addr, a \notin Touched(program[p])
  PROVE  SequentialAfter(p)[a] = Sequential(p, 1)[a]
<1> DEFINE n == Len(Steps(program[p]))
           U == {d \in Nat : d <= n => Sequential(p, d + 1)[a] = Sequential(p, 1)[a]}
<1>0. program[p] \in AllKinds /\ n \in Nat
  BY TaskFacts, StepsLen
<1>1. 0 \in U
  OBVIOUS
<1>2. ASSUME NEW d \in Nat, d \in U PROVE d + 1 \in U
  <2> SUFFICES ASSUME d + 1 <= n PROVE Sequential(p, (d + 1) + 1)[a] = Sequential(p, 1)[a]
    OBVIOUS
  <2>1. PICK k \in 1 .. n : k = d + 1
    BY <1>0
  <2>2. Sequential(p, k)[a] = Sequential(p, 1)[a]
    BY <1>0, <1>2, <2>1
  <2>3. ~(Steps(program[p])[k].op = "access" /\ Steps(program[p])[k].addr = a)
    BY <1>0, AccessSteps DEF Touched
  <2>4. Sequential(p, k + 1)[a] = Sequential(p, k)[a]
    BY <2>3, SequentialStep
  <2> QED
    BY <2>1, <2>2, <2>4
<1>3. \A d \in Nat : d \in U
  <2> HIDE DEF U
  <2> QED
    BY <1>1, <1>2, NaturalsBySuccessor
<1>4. n \in U
  BY <1>0, <1>3
<1> QED
  BY <1>0, <1>4 DEF SequentialAfter

LEMMA UntouchedBetween ==
  ASSUME program \in [Task -> Kinds], NEW q \in Task, NEW p \in Task, q <= p, NEW a \in Addr,
         \A i \in q + 1 .. p : a \notin Touched(program[i])
  PROVE  SequentialAfter(p)[a] = SequentialAfter(q)[a]
<1> USE TaskFacts
<1> DEFINE U == {d \in Nat : q + d <= p => SequentialAfter(q + d)[a] = SequentialAfter(q)[a]}
<1>1. 0 \in U
  OBVIOUS
<1>2. ASSUME NEW d \in Nat, d \in U PROVE d + 1 \in U
  <2> SUFFICES ASSUME q + (d + 1) <= p PROVE SequentialAfter(q + (d + 1))[a] = SequentialAfter(q)[a]
    OBVIOUS
  <2>1. PICK r \in Task : r = q + (d + 1)
    OBVIOUS
  <2>2. r # 0 /\ r - 1 = q + d /\ r \in q + 1 .. p /\ q + d <= p
    BY <2>1
  <2>3. Sequential(r, 1) = SequentialAfter(q + d)
    BY <2>2, SequentialSteps
  <2>4. SequentialAfter(r)[a] = Sequential(r, 1)[a]
    BY <2>2, UntouchedRegion
  <2> QED
    BY <1>2, <2>1, <2>2, <2>3, <2>4
<1>3. \A d \in Nat : d \in U
  <2> HIDE DEF U
  <2> QED
    BY <1>1, <1>2, NaturalsBySuccessor
<1>4. p - q \in U /\ q + (p - q) = p
  BY <1>3
<1> QED
  BY <1>4

LEMMA UntouchedSoFar ==
  ASSUME program \in [Task -> Kinds], NEW p \in Task, NEW a \in Addr,
         \A i \in 0 .. p - 1 : a \notin Touched(program[i])
  PROVE  Sequential(p, 1)[a] = FirstMemory[a]
<1> USE TaskFacts
<1>1. CASE p = 0
  BY <1>1, SequentialSteps
<1>2. CASE p # 0
  <2>1. PICK r \in Task : r = p - 1
    BY <1>2
  <2>2. Sequential(p, 1) = SequentialAfter(r) /\ Sequential(0, 1) = FirstMemory
    BY <1>2, <2>1, SequentialSteps
  <2>3. SequentialAfter(r)[a] = SequentialAfter(0)[a]
    <3>1. \A i \in 0 + 1 .. r : i \in 0 .. p - 1
      BY <2>1
    <3>2. 0 <= r
      OBVIOUS
    <3> QED
      BY <3>1, <3>2, UntouchedBetween
  <2>4. SequentialAfter(0)[a] = Sequential(0, 1)[a]
    <3>1. 0 \in 0 .. p - 1
      BY <1>2
    <3> QED
      BY <3>1, UntouchedRegion
  <2> QED
    BY <2>2, <2>3, <2>4
<1> QED
  BY <1>1, <1>2

(* Between two tasks that enter the ordered region, all others skip it. *)
LEMMA SkippedBetween ==
  ASSUME program \in [Task -> Kinds], NEW q \in Task, NEW p \in Task, q < p,
         \A i \in q + 1 .. p - 1 : program[i] = "skip"
  PROVE  Sequential(p, 1)["z"] = SequentialAfter(q)["z"]
<1> USE TaskFacts
<1>1. PICK r \in Task : r = p - 1
  OBVIOUS
<1>2. Sequential(p, 1) = SequentialAfter(r)
  BY <1>1, SequentialSteps
<1>3. "z" \in Addr /\ q <= r /\ \A i \in q + 1 .. r : "z" \notin Touched(program[i])
  BY <1>1 DEF Touched, Addr
<1>4. SequentialAfter(r)["z"] = SequentialAfter(q)["z"]
  BY <1>3, UntouchedBetween
<1> QED
  BY <1>2, <1>4

-----------------------------------------------------------------------------
(***************************************************************************)
(* The inductive invariant.  The private state of a task is determined by  *)
(* the kind of its region and the steps it has made.                       *)
(***************************************************************************)
InRegion(kind, n) ==
  CASE kind \in {"ordered", "late"} /\ n \in {2, 3} -> 1
    [] kind = "early" /\ n \in {3, 4} -> 1
    [] kind = "empty" /\ n = 2 -> 1
    [] kind = "twice" /\ n \in {2, 3, 4, 5} -> 1
    [] kind = "twice" /\ n \in {7, 8} -> 11
    [] OTHER -> 0
OrderedWrites(kind, n) ==
  CASE kind \in {"ordered", "late"} /\ n = 3 -> {"z"}
    [] kind = "early" /\ n = 4 -> {"z"}
    [] kind = "twice" /\ n \in {4, 5} -> {"z"}
    [] kind = "twice" /\ n = 8 -> {"y"}
    [] OTHER -> {}
Reads(kind, n) ==
  CASE kind \in {"ordered", "late"} /\ n >= 3 -> {"z"}
    [] kind = "early" /\ n >= 2 -> {"z"}
    [] kind = "plain" /\ n >= 2 -> {"y"}
    [] kind = "twice" /\ n >= 8 -> {"y", "z"}
    [] kind = "twice" /\ n \in {4, 5, 6, 7} -> {"z"}
    [] OTHER -> {}
Writes(kind, n) ==
  CASE kind \in {"ordered", "late"} /\ n = 3 -> {"z"}
    [] kind = "late" /\ n = 5 -> {"z"}
    [] kind = "early" /\ n \in {2, 3, 4} -> {"z"}
    [] kind = "plain" /\ n = 2 -> {"y"}
    [] kind = "twice" /\ n \in {4, 5} -> {"z"}
    [] kind = "twice" /\ n \in {8, 9} -> {"y"}
    [] OTHER -> {}

States == {"run", "ended", "checked", "committed", "won", "dead", "crashed"}

PwType ==
  /\ program \in [Task -> Kinds] /\ partial_size \in Int
  /\ pos \in [Task -> Int] /\ st \in [Task -> States]
  /\ DOMAIN mem = Task /\ DOMAIN read_map = Task /\ DOMAIN write_map = Task
  /\ DOMAIN ordered_writes = Task /\ DOMAIN in_ordered = Task /\ DOMAIN local_ch = Task
  /\ DOMAIN received = Task /\ DOMAIN received_n_used = Task /\ DOMAIN patches = Task
  /\ \A p \in Task : IsMem(mem[p])

Private(p) ==
  /\ pos[p] \in 1 .. Len(Steps(program[p])) + 1
  /\ st[p] \notin {"run", "dead"} => Ended(p)
  /\ in_ordered[p] = InRegion(program[p], pos[p])
  /\ ordered_writes[p] = OrderedWrites(program[p], pos[p])
  /\ read_map[p] = Reads(program[p], pos[p])
  /\ write_map[p] = Writes(program[p], pos[p])
  /\ pos[p] <= 8 => local_ch[p] = NoLocal

(* The channel of a task in ordered region 1, and its place on the board.  *)
(* MAIN that skips the region uses the one before its own.                 *)
Place == {-1} \cup Task
Chan(p) == GroupSize + p + 1

EndAt(kind) ==
  CASE kind \in {"ordered", "late"} -> 3 [] kind = "early" -> 4 [] kind = "twice" -> 5
    [] OTHER -> 2
HasPosted(p) ==
  p \in Task /\ program[p] \notin {"skip", "plain"} /\ pos[p] > EndAt(program[p])

Posters == {p \in Task : HasPosted(p)}

(* Of the tasks on a chain all but the first skip the region, so that at   *)
(* most one has posted.                                                    *)
OnBoardIn(bd, posters, p) ==
  Chan(p) \in DOMAIN bd =>
    LET ch == bd[Chan(p)]
    IN  /\ ch = [id |-> Chan(p), data |-> ch.data, sender |-> ch.sender,
                 is_posted |-> ch.is_posted, list |-> ch.list]
        /\ ch.list \in Seq(Int) /\ Chan(p) \in ToSet(ch.list) /\ ToSet(ch.list) \subseteq DOMAIN bd
        /\ \A c \in ToSet(ch.list) : bd[c].list = ch.list
        /\ \A q \in Place : Chan(q) \in ToSet(ch.list) /\ q < p
             => \A i \in q + 1 .. p : program[i] = "skip"
        /\ ch.data # NoMap => p \in posters /\ program[p] # "empty"
        /\ ch.is_posted => \E q \in posters : Chan(q) \in ToSet(ch.list)

GoodBoard(bd, posters) ==
  /\ \A c \in DOMAIN bd : \E p \in Place : c = Chan(p)
  /\ \A p \in Place : OnBoardIn(bd, posters, p)

(* No task before has used the ordered region in a way that is not checked. *)
Clean(p) == ~Spoiled(p) /\ ~Before(p, "late")

PostedData(p) ==
  HasPosted(p) =>
    /\ Chan(p) \in DOMAIN board
    /\ program[p] # "empty" =>
         /\ DOMAIN board[Chan(p)].data = {"z"} /\ board[Chan(p)].sender = Index(p)
         /\ program[p] = "late" => board[Chan(p)].data["z"].by = <<p, 2>>
         /\ program[p] # "late" /\ Clean(p) => board[Chan(p)].data["z"] = SequentialAfter(p)["z"]

BoardInv == GoodBoard(board, Posters) /\ \A p \in Task : PostedData(p)

-----------------------------------------------------------------------------
Live(p) == st[p] \in {"run", "ended", "checked", "committed"}
Entered(p) == p = 0 \/ (program[p] \in {"ordered", "late", "empty", "twice"} /\ pos[p] >= 2)
YAt(kind) == IF kind = "plain" THEN 1 ELSE 7

(* The memory of a task: z is right once the task has entered the ordered  *)
(* region, y comes from the task itself.                                   *)
MemoryOf(p) ==
  Live(p) =>
    /\ Entered(p) /\ Clean(p) => mem[p]["z"] = Sequential(p, pos[p])["z"]
    /\ program[p] = "late" /\ pos[p] = 3 => mem[p]["z"].by = <<p, 2>>
    /\ program[p] = "late" /\ pos[p] = 5 => mem[p]["z"].by = <<p, 4>>
    /\ mem[p]["y"] = IF "y" \in Reads(program[p], pos[p])
                     THEN Computed(p, YAt(program[p]), FirstMemory["y"]) ELSE FirstMemory["y"]
    /\ program[p] = "twice" /\ p # 0 => pos[p] <= 6

(* Data received from a task that goes on to modify it is the data before. *)
FromTask(got) ==
  \E s \in Task : got.task = Index(s) /\ (program[s] = "late" => got.val.by = <<s, 2>>)
ReceivedBy(p) ==
  /\ pos[p] = 1 => received[p] = NoMap
  /\ \A a \in DOMAIN received[p] : a = "z" /\ FromTask(received[p][a])

TaskInv == \A p \in Task : Private(p) /\ MemoryOf(p) /\ ReceivedBy(p)

-----------------------------------------------------------------------------
Passed(p) == st[p] \in {"checked", "committed", "won", "crashed"}
LastWrites(p) == Writes(program[p], Len(Steps(program[p])) + 1)

UnionInv ==
  /\ "z" \in DOMAIN write_union => \E s \in Task : program[s] = "late" /\ write_union["z"] = Index(s)
  /\ \A p \in Task : Passed(p) => \A q \in 0 .. p : LastWrites(q) \subseteq DOMAIN write_union

(* Of the tasks that have passed one at most accesses y, and none commits  *)
(* that has used data modified after the post.                             *)
UsedLate(p) ==
  /\ "z" \in DOMAIN received_n_used[p]
  /\ \E s \in Task : /\ program[s] = "late"
                     /\ received_n_used[p]["z"].task = Index(s)
                     /\ received_n_used[p]["z"].val.by = <<s, 2>>
PassedOnly(p) ==
  /\ Passed(p) => \A q, r \in 0 .. p :
       q < r => "y" \notin Touched(program[q]) \/ "y" \notin Touched(program[r])
  /\ "z" \in Touched(program[p]) /\ Before(p, "late") =>
       st[p] # "committed" /\ (st[p] = "checked" => UsedLate(p))

PatchOf(p) ==
  /\ DOMAIN patches[p] \subseteq LastWrites(p)
  /\ program[p] = "late" /\ "z" \in DOMAIN patches[p] => patches[p]["z"].by = <<p, 4>>
  /\ st[p] \in {"run", "ended", "checked"} => patches[p] = NoMap
  /\ st[p] = "committed" => patches[p] = [a \in write_map[p] |-> mem[p][a]]

WonRight(p) ==
  st[p] = "won" /\ Waits(p) /\ Clean(p) => mem[p] = SequentialAfter(p)

CommitInv == UnionInv /\ \A p \in Task : PassedOnly(p) /\ PatchOf(p) /\ WonRight(p)

PwInv == PwType /\ TaskInv /\ BoardInv /\ CommitInv


LEMMA SamePrograms ==
  ASSUME program' = program, NEW p, NEW k
  PROVE  Sequential(p, k)' = Sequential(p, k)
BY DEF Sequential

-----------------------------------------------------------------------------
(***************************************************************************)
(* What a step leaves alone.                                               *)
(***************************************************************************)
LEMMA TaskKeeps ==
  ASSUME NEW q \in Task, Private(q), MemoryOf(q), ReceivedBy(q), program' = program,
         pos'[q] = pos[q], mem'[q] = mem[q], read_map'[q] = read_map[q], write_map'[q] = write_map[q],
         ordered_writes'[q] = ordered_writes[q], in_ordered'[q] = in_ordered[q],
         local_ch'[q] = local_ch[q], received'[q] = received[q],
         st'[q] \in {st[q], "dead"} \/ (Ended(q) /\ st'[q] \in States /\ (Live(q)' => Live(q)))
  PROVE  Private(q)' /\ MemoryOf(q)' /\ ReceivedBy(q)'
<1>1. Private(q)'
  BY DEF Private, Ended, NoLocal
<1>2. MemoryOf(q)'
  <2>1. Live(q)' => Live(q)
    BY DEF Live
  <2>2. Entered(q)' = Entered(q) /\ Clean(q)' = Clean(q) /\ Reads(program[q], pos[q])' = Reads(program[q], pos[q])
    BY DEF Entered, Clean, Spoiled, Before, Reads
  <2>3. Sequential(q, pos[q])' = Sequential(q, pos[q])
    BY DEF Sequential
  <2>4. (program[q])' = program[q] /\ (pos[q])' = pos[q] /\ (mem[q])' = mem[q]
    OBVIOUS
  <2>5. Computed(q, YAt(program[q]), FirstMemory["y"])' = Computed(q, YAt(program[q]), FirstMemory["y"])
    BY DEF Computed, YAt
  <2> QED
    BY <2>1, <2>2, <2>3, <2>4, <2>5 DEF MemoryOf
<1>3. ReceivedBy(q)'
  BY DEF ReceivedBy, FromTask
<1> QED
  BY <1>1, <1>2, <1>3

LEMMA GoodBoardGrows ==
  ASSUME NEW P, NEW Q, P \subseteq Q, NEW bd, GoodBoard(bd, P)
  PROVE  GoodBoard(bd, Q)
BY DEF GoodBoard, OnBoardIn

LEMMA BoardKeeps ==
  ASSUME BoardInv, program' = program, board' = board,
         \A q \in Task : HasPosted(q)' = HasPosted(q)
  PROVE  BoardInv'
<1>1. Posters' = Posters
  BY DEF Posters
<1>2. GoodBoard(board, Posters)'
  BY <1>1 DEF BoardInv, GoodBoard, OnBoardIn
<1>3. \A q \in Task : PostedData(q)'
  BY DEF BoardInv, PostedData, Clean, Spoiled, Before, SequentialAfter, Sequential
<1> QED
  BY <1>2, <1>3 DEF BoardInv

LEMMA CommitKeeps ==
  ASSUME CommitInv, program' = program, write_union' = write_union, patches' = patches,
         received_n_used' = received_n_used,
         \A q \in Task : \/ st'[q] \in {st[q], "dead"}
                         \/ st[q] = "run" /\ st'[q] = "ended",
         \A q \in Task : st[q] # "run" => mem'[q] = mem[q] /\ write_map'[q] = write_map[q]
  PROVE  CommitInv'
<1>1. \A q \in Task : Passed(q)' => Passed(q)
  BY DEF Passed
<1>2. UnionInv'
  BY <1>1 DEF CommitInv, UnionInv, LastWrites
<1>3. ASSUME NEW q \in Task PROVE PassedOnly(q)'
  BY <1>1 DEF CommitInv, PassedOnly, UsedLate, Before
<1>4. ASSUME NEW q \in Task PROVE PatchOf(q)'
  <2>1. PatchOf(q) /\ LastWrites(q)' = LastWrites(q)
    BY DEF CommitInv, LastWrites
  <2>2. (st[q] \in {"run", "ended", "checked"})' => st[q] \in {"run", "ended", "checked"}
    OBVIOUS
  <2>3. st'[q] = "committed" => st[q] = "committed" /\ mem'[q] = mem[q] /\ write_map'[q] = write_map[q]
    OBVIOUS
  <2> QED
    BY <2>1, <2>2, <2>3 DEF PatchOf, NoMap
<1>5. ASSUME NEW q \in Task PROVE WonRight(q)'
  BY <1>1 DEF CommitInv, WonRight, Waits, Clean, Spoiled, Before, SequentialAfter, Sequential
<1> QED
  BY <1>2, <1>3, <1>4, <1>5 DEF CommitInv

-----------------------------------------------------------------------------
(***************************************************************************)
(* The tables of the private state, step by step.                          *)
(***************************************************************************)
LEMMA AccessTables ==
  ASSUME NEW kind \in AllKinds, NEW n \in 1 .. Len(Steps(kind)), Steps(kind)[n].op = "access"
  PROVE  LET a == Steps(kind)[n].addr
         IN  /\ InRegion(kind, n + 1) = InRegion(kind, n)
             /\ OrderedWrites(kind, n + 1) = IF InRegion(kind, n) = 0 THEN OrderedWrites(kind, n)
                                             ELSE OrderedWrites(kind, n) \cup {a}
             /\ Reads(kind, n + 1) = Reads(kind, n) \cup {a}
             /\ Writes(kind, n + 1) = Writes(kind, n) \cup {a}
             /\ kind = "plain" \/ n # EndAt(kind)
<1>1. CASE kind \in {"ordered", "late"} /\ n = 2
  BY <1>1, AccessSteps DEF InRegion, OrderedWrites, Reads, Writes, EndAt
<1>2. CASE kind = "late" /\ n = 4
  BY <1>2, AccessSteps DEF InRegion, OrderedWrites, Reads, Writes, EndAt
<1>3. CASE kind = "early" /\ n = 1
  BY <1>3, AccessSteps DEF InRegion, OrderedWrites, Reads, Writes, EndAt
<1>4. CASE kind = "early" /\ n = 3
  BY <1>4, AccessSteps DEF InRegion, OrderedWrites, Reads, Writes, EndAt
<1>5. CASE kind = "plain" /\ n = 1
  BY <1>5, AccessSteps DEF InRegion, OrderedWrites, Reads, Writes, EndAt
<1>6. CASE kind = "twice" /\ n = 3
  BY <1>6, AccessSteps DEF InRegion, OrderedWrites, Reads, Writes, EndAt
<1>7. CASE kind = "twice" /\ n = 7
  BY <1>7, AccessSteps DEF InRegion, OrderedWrites, Reads, Writes, EndAt
<1> QED
  BY <1>1, <1>2, <1>3, <1>4, <1>5, <1>6, <1>7, AccessSteps

LEMMA BeginTables ==
  ASSUME NEW kind \in AllKinds, NEW n \in 1 .. Len(Steps(kind)), Steps(kind)[n].op = "begin"
  PROVE  /\ InRegion(kind, n + 1) = IF InRegion(kind, n) = 0 THEN Steps(kind)[n].region ELSE InRegion(kind, n)
         /\ OrderedWrites(kind, n + 1) = OrderedWrites(kind, n)
         /\ Reads(kind, n + 1) = Reads(kind, n)
         /\ Writes(kind, n + 1) = Writes(kind, n)
         /\ n # EndAt(kind)
<1>1. CASE kind \in {"ordered", "late", "empty", "twice"} /\ n = 1
  BY <1>1, BeginSteps DEF InRegion, OrderedWrites, Reads, Writes, EndAt
<1>2. CASE kind = "early" /\ n = 2
  BY <1>2, BeginSteps DEF InRegion, OrderedWrites, Reads, Writes, EndAt
<1>3. CASE kind = "twice" /\ n = 2
  BY <1>3, BeginSteps DEF InRegion, OrderedWrites, Reads, Writes, EndAt
<1>4. CASE kind = "twice" /\ n = 6
  BY <1>4, BeginSteps DEF InRegion, OrderedWrites, Reads, Writes, EndAt
<1> QED
  BY <1>1, <1>2, <1>3, <1>4, BeginSteps

(* An end of a region the task is not in. *)
LEMMA IgnoredEndTables ==
  ASSUME NEW kind \in AllKinds, NEW n \in 1 .. Len(Steps(kind)), Steps(kind)[n].op = "end",
         InRegion(kind, n) # Steps(kind)[n].region
  PROVE  /\ InRegion(kind, n + 1) = InRegion(kind, n)
         /\ OrderedWrites(kind, n + 1) = OrderedWrites(kind, n)
         /\ Reads(kind, n + 1) = Reads(kind, n)
         /\ Writes(kind, n + 1) = Writes(kind, n)
         /\ n # EndAt(kind) /\ kind = "twice" /\ n = 4
<1>1. kind = "twice" /\ n = 4
  BY EndSteps DEF InRegion
<1> QED
  BY <1>1 DEF InRegion, OrderedWrites, Reads, Writes, EndAt

(* An end of the region the task is in: of region 11, or one that posts. *)
LEMMA EndTables ==
  ASSUME NEW kind \in AllKinds, NEW n \in 1 .. Len(Steps(kind)), Steps(kind)[n].op = "end",
         InRegion(kind, n) = Steps(kind)[n].region
  PROVE  /\ InRegion(kind, n + 1) = 0
         /\ OrderedWrites(kind, n + 1) = {}
         /\ Reads(kind, n + 1) = Reads(kind, n)
         /\ \/ /\ kind = "twice" /\ n = 8 /\ Steps(kind)[n].region = 11
               /\ Writes(kind, n + 1) = Writes(kind, n)
            \/ /\ kind \notin {"skip", "plain"} /\ n = EndAt(kind) /\ Steps(kind)[n].region = 1
               /\ OrderedWrites(kind, n) = Writes(kind, n)
               /\ Writes(kind, n) = IF kind = "empty" THEN {} ELSE {"z"}
               /\ Writes(kind, n + 1) = {} /\ n <= 5
<1>1. CASE kind \in {"ordered", "late"} /\ n = 3
  BY <1>1, EndSteps DEF InRegion, OrderedWrites, Reads, Writes, EndAt
<1>2. CASE kind = "early" /\ n = 4
  BY <1>2, EndSteps DEF InRegion, OrderedWrites, Reads, Writes, EndAt
<1>3. CASE kind = "empty" /\ n = 2
  BY <1>3, EndSteps DEF InRegion, OrderedWrites, Reads, Writes, EndAt
<1>4. CASE kind = "twice" /\ n = 5
  BY <1>4, EndSteps DEF InRegion, OrderedWrites, Reads, Writes, EndAt
<1>5. CASE kind = "twice" /\ n = 8
  BY <1>5, EndSteps DEF InRegion, OrderedWrites, Reads, Writes, EndAt
<1>6. ~(kind = "twice" /\ n = 4)
  BY EndSteps DEF InRegion
<1> QED
  BY <1>1, <1>2, <1>3, <1>4, <1>5, <1>6, EndSteps

LEMMA SkipTables ==
  /\ InRegion("skip", 1) = 0 /\ InRegion("skip", 2) = 0
  /\ OrderedWrites("skip", 1) = {} /\ OrderedWrites("skip", 2) = {}
  /\ Reads("skip", 1) = {} /\ Reads("skip", 2) = {}
  /\ Writes("skip", 1) = {} /\ Writes("skip", 2) = {}
BY DEF InRegion, OrderedWrites, Reads, Writes

LEMMA FirstTables ==
  ASSUME NEW kind \in AllKinds
  PROVE  InRegion(kind, 1) = 0 /\ OrderedWrites(kind, 1) = {} /\ Reads(kind, 1) = {} /\ Writes(kind, 1) = {}
BY DEF AllKinds, InRegion, OrderedWrites, Reads, Writes

(* At the end of the region. *)
LEMMA LastTables ==
  ASSUME NEW kind \in AllKinds, NEW n \in Int, n = Len(Steps(kind)) + 1
  PROVE  /\ InRegion(kind, n) = 0
         /\ Reads(kind, n) = Touched(kind)
         /\ Writes(kind, n) = IF kind = "late" THEN {"z"} ELSE Touched(kind) \ {"z"}
<1>1. CASE kind = "ordered"
  <2>1. Len(Steps(kind)) = 3
    BY <1>1, StepsLen
  <2>2. n = 4
    BY <2>1
  <2> QED
    BY <1>1, <2>2 DEF InRegion, Reads, Writes, Touched
<1>2. CASE kind \in {"late", "early"}
  <2>1. Len(Steps(kind)) = 4
    BY <1>2, StepsLen
  <2>2. n = 5
    BY <2>1
  <2> QED
    BY <1>2, <2>2 DEF InRegion, Reads, Writes, Touched
<1>3. CASE kind = "skip"
  <2>1. Len(Steps(kind)) = 1
    BY <1>3, StepsLen
  <2>2. n = 2
    BY <2>1
  <2> QED
    BY <1>3, <2>2 DEF InRegion, Reads, Writes, Touched
<1>4. CASE kind = "plain"
  <2>1. Len(Steps(kind)) = 1
    BY <1>4, StepsLen
  <2>2. n = 2
    BY <2>1
  <2> QED
    BY <1>4, <2>2 DEF InRegion, Reads, Writes, Touched
<1>5. CASE kind = "empty"
  <2>1. Len(Steps(kind)) = 2
    BY <1>5, StepsLen
  <2>2. n = 3
    BY <2>1
  <2> QED
    BY <1>5, <2>2 DEF InRegion, Reads, Writes, Touched
<1>6. CASE kind = "twice"
  <2>1. Len(Steps(kind)) = 8
    BY <1>6, StepsLen
  <2>2. n = 9
    BY <2>1
  <2> QED
    BY <1>6, <2>2 DEF InRegion, Reads, Writes, Touched
<1> QED
  BY <1>1, <1>2, <1>3, <1>4, <1>5, <1>6 DEF AllKinds

-----------------------------------------------------------------------------
(***************************************************************************)
(* Steps of a task in its region.                                          *)
(***************************************************************************)
LEMMA StepFacts ==
  ASSUME PwInv, NEW p \in Task, NEW op, At(p, op)
  PROVE  /\ st[p] = "run" /\ Live(p)
         /\ program[p] \in AllKinds
         /\ pos[p] \in 1 .. Len(Steps(program[p])) /\ pos[p] \in Int /\ Len(Steps(program[p])) \in Nat
         /\ Step(p) = Steps(program[p])[pos[p]] /\ Steps(program[p])[pos[p]].op = op
         /\ Private(p) /\ MemoryOf(p) /\ ReceivedBy(p)
<1>1. PwType /\ Private(p) /\ MemoryOf(p) /\ ReceivedBy(p)
  BY DEF PwInv, TaskInv
<1>2. program[p] \in AllKinds /\ pos[p] \in Int
  BY <1>1, TaskFacts DEF PwType
<1>3. Len(Steps(program[p])) \in Nat
  BY <1>2, StepsLen
<1>4. pos[p] \in 1 .. Len(Steps(program[p]))
  <2>1. pos[p] \in 1 .. Len(Steps(program[p])) + 1 /\ ~(pos[p] > Len(Steps(program[p])))
    BY <1>1 DEF At, Ended, Private
  <2> QED
    BY <1>2, <1>3, <2>1
<1> QED
  BY <1>1, <1>2, <1>3, <1>4 DEF At, Live, Step

LEMMA AdvanceFacts ==
  ASSUME PwType, NEW p \in Task, Advance(p)
  PROVE  /\ pos' \in [Task -> Int] /\ pos'[p] = pos[p] + 1
         /\ \A q \in Task : q # p => pos'[q] = pos[q]
BY DEF PwType, Advance

(* A step that is not the end of ordered region 1 does not post. *)
LEMMA NotPosting ==
  ASSUME PwType, NEW p \in Task, Advance(p), program' = program,
         program[p] \in {"skip", "plain"} \/ pos[p] # EndAt(program[p]), program[p] \in AllKinds
  PROVE  \A q \in Task : HasPosted(q)' = HasPosted(q)
<1>1. pos[p] \in Int /\ EndAt(program[p]) \in Int
  BY DEF PwType, EndAt
<1>2. \A q \in Task : EndAt(program[q])' = EndAt(program[q])
  BY DEF EndAt
<1>3. pos'[p] = pos[p] + 1 /\ \A q \in Task : q # p => pos'[q] = pos[q]
  BY AdvanceFacts
<1> QED
  BY <1>1, <1>2, <1>3 DEF HasPosted

(* The other tasks stay as they are, except that they may be dead. *)
KeepsOthers(p) ==
  \A q \in Task : q # p =>
    /\ pos'[q] = pos[q] /\ mem'[q] = mem[q] /\ read_map'[q] = read_map[q]
    /\ write_map'[q] = write_map[q] /\ ordered_writes'[q] = ordered_writes[q]
    /\ in_ordered'[q] = in_ordered[q] /\ local_ch'[q] = local_ch[q] /\ received'[q] = received[q]
    /\ st'[q] \in {st[q], "dead"}

LEMMA RegionStep ==
  ASSUME PwInv, NEW p \in Task, program' = program, KeepsOthers(p), st[p] = "run",
         st'[p] \in {"run", "ended", "dead"}, PwType', BoardInv',
         Private(p)' /\ MemoryOf(p)' /\ ReceivedBy(p)',
         write_union' = write_union, patches' = patches, received_n_used' = received_n_used
  PROVE  PwInv'
<1>1. ASSUME NEW q \in Task PROVE Private(q)' /\ MemoryOf(q)' /\ ReceivedBy(q)'
  <2>1. CASE q = p
    BY <2>1
  <2>2. CASE q # p
    BY <2>2, TaskKeeps DEF PwInv, TaskInv, KeepsOthers
  <2> QED
    BY <2>1, <2>2
<1>2. TaskInv'
  BY <1>1 DEF TaskInv
<1>3. CommitInv'
  <2>1. \A q \in Task : st'[q] \in {st[q], "dead"} \/ (st[q] = "run" /\ st'[q] = "ended")
    BY DEF KeepsOthers
  <2>2. \A q \in Task : st[q] # "run" => mem'[q] = mem[q] /\ write_map'[q] = write_map[q]
    BY DEF KeepsOthers
  <2> QED
    BY <2>1, <2>2, CommitKeeps DEF PwInv
<1> QED
  BY <1>2, <1>3 DEF PwInv

LEMMA DoAccessKeeps ==
  ASSUME PwInv, NEW p \in Task, DoAccess(p)
  PROVE  PwInv'
<1> DEFINE kind == program[p]
           n == pos[p]
           a == Steps(kind)[n].addr
<1>1. /\ At(p, "access") /\ Advance(p) /\ program' = program /\ st' = st /\ in_ordered' = in_ordered
      /\ local_ch' = local_ch /\ received' = received /\ board' = board
      /\ write_union' = write_union /\ patches' = patches /\ received_n_used' = received_n_used
      /\ partial_size' = partial_size
  BY DEF DoAccess, merge
<1>2. /\ st[p] = "run" /\ Live(p) /\ kind \in AllKinds /\ n \in 1 .. Len(Steps(kind)) /\ n \in Int
      /\ Len(Steps(kind)) \in Nat /\ Step(p) = Steps(kind)[n] /\ Steps(kind)[n].op = "access"
      /\ Private(p) /\ MemoryOf(p) /\ ReceivedBy(p)
  BY <1>1, StepFacts
<1>3. PwType /\ IsMem(mem[p]) /\ pos' \in [Task -> Int] /\ pos'[p] = n + 1
      /\ \A q \in Task : q # p => pos'[q] = pos[q]
  BY <1>1, AdvanceFacts DEF PwInv, PwType
<1>4. /\ mem' = [mem EXCEPT ![p] = Execute(kind, p, n, mem[p])]
      /\ read_map' = [read_map EXCEPT ![p] = read_map[p] \cup {a}]
      /\ write_map' = [write_map EXCEPT ![p] = write_map[p] \cup {a}]
      /\ ordered_writes' = IF in_ordered[p] = 0 THEN ordered_writes
                           ELSE [ordered_writes EXCEPT ![p] = ordered_writes[p] \cup {a}]
  BY <1>2 DEF DoAccess
<1>5. /\ mem'[p] = Execute(kind, p, n, mem[p]) /\ IsMem(mem'[p])
      /\ read_map'[p] = read_map[p] \cup {a} /\ write_map'[p] = write_map[p] \cup {a}
      /\ ordered_writes'[p] = IF in_ordered[p] = 0 THEN ordered_writes[p] ELSE ordered_writes[p] \cup {a}
  BY <1>2, <1>3, <1>4, ExecuteIs DEF PwType
<1>6. KeepsOthers(p)
  BY <1>1, <1>3, <1>4 DEF KeepsOthers, PwType
<1>7. PwType'
  BY <1>1, <1>3, <1>4, <1>5 DEF PwType, IsMem
<1>8. \A b \in Addr : mem'[p][b] = IF a = b THEN Computed(p, n, mem[p][b]) ELSE mem[p][b]
  BY <1>2, <1>3, <1>5, ExecuteIs
<1>9. \A b \in Addr : Sequential(p, n + 1)[b] = IF a = b THEN Computed(p, n, Sequential(p, n)[b])
                                                 ELSE Sequential(p, n)[b]
  BY <1>2, <1>3, SequentialStep DEF PwType
<1>10. /\ InRegion(kind, n + 1) = InRegion(kind, n)
       /\ OrderedWrites(kind, n + 1) = IF InRegion(kind, n) = 0 THEN OrderedWrites(kind, n)
                                       ELSE OrderedWrites(kind, n) \cup {a}
       /\ Reads(kind, n + 1) = Reads(kind, n) \cup {a}
       /\ Writes(kind, n + 1) = Writes(kind, n) \cup {a}
       /\ kind = "plain" \/ n # EndAt(kind)
  BY <1>2, AccessTables
<1>11. \/ kind \in {"ordered", "late"} /\ n = 2 /\ a = "z"
       \/ kind = "late" /\ n = 4 /\ a = "z"
       \/ kind = "early" /\ n \in {1, 3} /\ a = "z"
       \/ kind = "plain" /\ n = 1 /\ a = "y"
       \/ kind = "twice" /\ n = 3 /\ a = "z"
       \/ kind = "twice" /\ n = 7 /\ a = "y"
  BY <1>2, AccessSteps
<1>12. BoardInv'
  <2>1. \A q \in Task : HasPosted(q)' = HasPosted(q)
    BY <1>1, <1>2, <1>3, <1>10, NotPosting
  <2> QED
    BY <1>1, <2>1, BoardKeeps DEF PwInv
<1> HIDE DEF kind, n, a
<1>13. Private(p)'
  <2>1. n + 1 \in 1 .. Len(Steps(kind)) + 1
    BY <1>2
  <2>2. n <= 7
    BY <1>11
  <2> QED
    BY <1>1, <1>2, <1>3, <1>5, <1>10, <2>1, <2>2 DEF Private, kind, n, NoLocal, Ended
<1>14. MemoryOf(p)'
  <2>1. Entered(p)' => Entered(p)
    BY <1>1, <1>2, <1>3, <1>11 DEF Entered, kind, n
  <2>2. Clean(p)' = Clean(p)
    BY <1>1 DEF Clean, Spoiled, Before
  <2>3. (Entered(p) /\ Clean(p) => mem[p]["z"] = Sequential(p, pos[p])["z"])'
    <3>1. (Sequential(p, pos[p])["z"])' = Sequential(p, n + 1)["z"]
      BY <1>1, <1>3 DEF Sequential
    <3>2. Entered(p) /\ Clean(p) => mem[p]["z"] = Sequential(p, n)["z"]
      BY <1>2 DEF MemoryOf, n
    <3> QED
      BY <1>8, <1>9, <2>1, <2>2, <3>1, <3>2 DEF Addr
  <2>4. (program[p] = "late" /\ pos[p] = 3 => mem[p]["z"].by = <<p, 2>>)'
    BY <1>1, <1>2, <1>3, <1>8, <1>11 DEF Addr, Computed, kind
  <2>5. (program[p] = "late" /\ pos[p] = 5 => mem[p]["z"].by = <<p, 4>>)'
    BY <1>1, <1>2, <1>3, <1>8, <1>11 DEF Addr, Computed, kind
  <2>6. (mem[p]["y"] = IF "y" \in Reads(program[p], pos[p])
                       THEN Computed(p, YAt(program[p]), FirstMemory["y"]) ELSE FirstMemory["y"])'
    <3>1. mem[p]["y"] = IF "y" \in Reads(kind, n) THEN Computed(p, YAt(kind), FirstMemory["y"]) ELSE FirstMemory["y"]
      BY <1>2 DEF MemoryOf, kind, n
    <3>2. a = "y" => "y" \notin Reads(kind, n) /\ YAt(kind) = n
      BY <1>11 DEF Reads, YAt
    <3>3. mem'[p]["y"] = IF "y" \in Reads(kind, n + 1) THEN Computed(p, YAt(kind), FirstMemory["y"])
                         ELSE FirstMemory["y"]
      BY <1>8, <1>10, <3>1, <3>2 DEF Addr
    <3> QED
      BY <1>1, <1>3, <3>3 DEF kind
  <2>7. (program[p] = "twice" /\ p # 0 => pos[p] <= 6)'
    BY <1>1, <1>2, <1>3, <1>11 DEF MemoryOf, kind, n
  <2> QED
    BY <2>3, <2>4, <2>5, <2>6, <2>7 DEF MemoryOf
<1>15. ReceivedBy(p)'
  BY <1>1, <1>2, <1>3 DEF ReceivedBy, FromTask
<1> QED
  BY <1>1, <1>2, <1>6, <1>7, <1>12, <1>13, <1>14, <1>15, RegionStep

(* A step that leaves the memory and what was received alone. *)
LEMMA PlainStepMemory ==
  ASSUME PwInv, NEW p \in Task, NEW n \in 1 .. Len(Steps(program[p])), n = pos[p], st[p] = "run",
         Steps(program[p])[n].op # "access", program' = program, pos'[p] = n + 1,
         mem'[p] = mem[p], Entered(p)' => Entered(p),
         Reads(program[p], n + 1) = Reads(program[p], n),
         program[p] = "twice" /\ p # 0 => n <= 5
  PROVE  MemoryOf(p)'
<1>1. PwType /\ MemoryOf(p) /\ Live(p) /\ n \in Int /\ program[p] \in AllKinds
  BY TaskFacts DEF PwInv, TaskInv, PwType, Live
<1>2. Clean(p)' = Clean(p)
  BY DEF Clean, Spoiled, Before
<1>3. (Entered(p) /\ Clean(p) => mem[p]["z"] = Sequential(p, pos[p])["z"])'
  <2>1. (Sequential(p, pos[p])["z"])' = Sequential(p, n + 1)["z"]
    BY DEF Sequential
  <2>2. Entered(p) /\ Clean(p) => mem[p]["z"] = Sequential(p, n)["z"]
    BY <1>1 DEF MemoryOf
  <2>3. Sequential(p, n + 1)["z"] = Sequential(p, n)["z"]
    <3>1. "z" \in Addr
      BY DEF Addr
    <3> QED
      BY <1>1, <3>1, SequentialStep DEF PwType
  <2> QED
    BY <1>2, <2>1, <2>2, <2>3
<1>4. (program[p] = "late" /\ pos[p] = 3 => mem[p]["z"].by = <<p, 2>>)'
  <2>1. ~(program[p] = "late" /\ n = 2)
    BY StepsAre, StepFields
  <2> QED
    BY <1>1, <2>1
<1>5. (program[p] = "late" /\ pos[p] = 5 => mem[p]["z"].by = <<p, 4>>)'
  <2>1. ~(program[p] = "late" /\ n = 4)
    BY StepsAre, StepFields
  <2> QED
    BY <1>1, <2>1
<1>6. (mem[p]["y"] = IF "y" \in Reads(program[p], pos[p])
                     THEN Computed(p, YAt(program[p]), FirstMemory["y"]) ELSE FirstMemory["y"])'
  BY <1>1 DEF MemoryOf
<1>7. (program[p] = "twice" /\ p # 0 => pos[p] <= 6)'
  BY <1>1
<1> QED
  BY <1>3, <1>4, <1>5, <1>6, <1>7 DEF MemoryOf

LEMMA OrderedIgnoredKeeps ==
  ASSUME PwInv, NEW p \in Task, OrderedIgnored(p)
  PROVE  PwInv'
<1> DEFINE kind == program[p]
           n == pos[p]
<1>1. /\ \/ At(p, "begin") /\ in_ordered[p] # 0
         \/ At(p, "end") /\ in_ordered[p] # Step(p).region
      /\ Advance(p) /\ program' = program /\ st' = st /\ mem' = mem
      /\ read_map' = read_map /\ write_map' = write_map /\ ordered_writes' = ordered_writes
      /\ in_ordered' = in_ordered /\ local_ch' = local_ch /\ received' = received /\ board' = board
      /\ write_union' = write_union /\ patches' = patches /\ received_n_used' = received_n_used
      /\ partial_size' = partial_size
  BY DEF OrderedIgnored, merge, private
<1>2. /\ st[p] = "run" /\ Live(p) /\ kind \in AllKinds /\ n \in 1 .. Len(Steps(kind)) /\ n \in Int
      /\ Len(Steps(kind)) \in Nat /\ Step(p) = Steps(kind)[n] /\ Steps(kind)[n].op \in {"begin", "end"}
      /\ Private(p) /\ MemoryOf(p) /\ ReceivedBy(p)
  BY <1>1, StepFacts
<1>3. PwType /\ pos' \in [Task -> Int] /\ pos'[p] = n + 1 /\ \A q \in Task : q # p => pos'[q] = pos[q]
  BY <1>1, AdvanceFacts DEF PwInv
<1>4. /\ InRegion(kind, n + 1) = InRegion(kind, n) /\ OrderedWrites(kind, n + 1) = OrderedWrites(kind, n)
      /\ Reads(kind, n + 1) = Reads(kind, n) /\ Writes(kind, n + 1) = Writes(kind, n)
      /\ n # EndAt(kind) /\ kind = "twice" /\ n \in {2, 4}
  <2>1. CASE At(p, "begin") /\ in_ordered[p] # 0
    <3>1. Steps(kind)[n].op = "begin" /\ InRegion(kind, n) # 0
      BY <1>2, <2>1 DEF At, Private
    <3>2. kind = "twice" /\ n = 2
      BY <1>2, <3>1, BeginSteps DEF InRegion
    <3> QED
      BY <1>2, <3>1, <3>2, BeginTables
  <2>2. CASE At(p, "end") /\ in_ordered[p] # Step(p).region
    <3>1. Steps(kind)[n].op = "end" /\ InRegion(kind, n) # Steps(kind)[n].region
      BY <1>2, <2>2 DEF At, Private
    <3> QED
      BY <1>2, <3>1, IgnoredEndTables
  <2> QED
    BY <1>1, <2>1, <2>2
<1>5. PwType' /\ KeepsOthers(p)
  BY <1>1, <1>3 DEF PwType, KeepsOthers, IsMem
<1>6. BoardInv'
  <2>1. \A q \in Task : HasPosted(q)' = HasPosted(q)
    BY <1>1, <1>2, <1>3, <1>4, NotPosting
  <2> QED
    BY <1>1, <2>1, BoardKeeps DEF PwInv
<1>7. Private(p)'
  <2>1. n + 1 \in 1 .. Len(Steps(kind)) + 1 /\ n <= 7
    BY <1>2, <1>4
  <2> QED
    BY <1>1, <1>2, <1>3, <1>4, <2>1 DEF Private, NoLocal, Ended
<1>8. MemoryOf(p)'
  <2>1. Entered(p)' => Entered(p)
    BY <1>1, <1>2, <1>3, <1>4 DEF Entered
  <2>2. Steps(kind)[n].op # "access" /\ mem'[p] = mem[p]
    BY <1>1, <1>2
  <2>3. kind = "twice" /\ p # 0 => n <= 5
    BY <1>4
  <2> QED
    BY <1>1, <1>2, <1>3, <1>4, <2>1, <2>2, <2>3, PlainStepMemory
<1>9. ReceivedBy(p)'
  BY <1>1, <1>2, <1>3 DEF ReceivedBy, FromTask
<1> QED
  BY <1>1, <1>2, <1>5, <1>6, <1>7, <1>8, <1>9, RegionStep

LEMMA PprEndKeeps ==
  ASSUME PwInv, NEW p \in Task, PprEnd(p)
  PROVE  PwInv'
<1>1. /\ st[p] = "run" /\ Ended(p) /\ st' = [st EXCEPT ![p] = "ended"]
      /\ program' = program /\ pos' = pos /\ mem' = mem
      /\ read_map' = read_map /\ write_map' = write_map /\ ordered_writes' = ordered_writes
      /\ in_ordered' = in_ordered /\ local_ch' = local_ch /\ received' = received /\ board' = board
      /\ write_union' = write_union /\ patches' = patches /\ received_n_used' = received_n_used
      /\ partial_size' = partial_size
  BY DEF PprEnd, merge, private
<1>2. PwType /\ Private(p) /\ MemoryOf(p) /\ ReceivedBy(p) /\ BoardInv
  BY DEF PwInv, TaskInv
<1>3. st' \in [Task -> States] /\ st'[p] = "ended" /\ \A q \in Task : q # p => st'[q] = st[q]
  BY <1>1, <1>2 DEF PwType, States
<1>4. PwType' /\ KeepsOthers(p)
  BY <1>1, <1>2, <1>3 DEF PwType, KeepsOthers, IsMem
<1>5. BoardInv'
  BY <1>1, <1>2, BoardKeeps DEF HasPosted, EndAt
<1>6. Private(p)' /\ MemoryOf(p)' /\ ReceivedBy(p)'
  <2>1. st'[p] \in States /\ (Live(p)' => Live(p))
    BY <1>1, <1>3 DEF Live, States
  <2> QED
    BY <1>1, <1>2, <2>1, TaskKeeps
<1> QED
  BY <1>1, <1>3, <1>4, <1>5, <1>6, RegionStep

(* A cut or a crash on its own. *)
LEMMA OnlyDeaths ==
  ASSUME PwInv, program' = program, pos' = pos, mem' = mem,
         read_map' = read_map, write_map' = write_map, ordered_writes' = ordered_writes,
         in_ordered' = in_ordered, local_ch' = local_ch, received' = received, board' = board,
         write_union' = write_union, patches' = patches, received_n_used' = received_n_used,
         partial_size' \in Int, st' \in [Task -> States], \A q \in Task : st'[q] \in {st[q], "dead"}
  PROVE  PwInv'
<1>1. PwType'
  BY DEF PwInv, PwType, IsMem
<1>2. TaskInv'
  BY TaskKeeps DEF PwInv, TaskInv
<1>3. BoardInv'
  BY BoardKeeps DEF PwInv, HasPosted, EndAt
<1>4. CommitInv'
  BY CommitKeeps DEF PwInv
<1> QED
  BY <1>1, <1>2, <1>3, <1>4 DEF PwInv

LEMMA AbortSpecKeeps ==
  ASSUME PwInv, NEW p \in Task, AbortSpec(p)
  PROVE  PwInv'
<1>1. partial_size' = p /\ st' = [q \in Task |-> IF q >= p THEN "dead" ELSE st[q]]
  BY DEF AbortSpec, Cut
<1>2. st' \in [Task -> States] /\ partial_size' \in Int /\ \A q \in Task : st'[q] \in {st[q], "dead"}
  BY <1>1, TaskFacts DEF PwInv, PwType, States
<1> QED
  BY <1>2, OnlyDeaths DEF AbortSpec, private, merge

LEMMA PwInit == Init => PwInv
<1> SUFFICES ASSUME Init PROVE PwInv
  OBVIOUS
<1> USE TaskFacts
<1>1. PwType
  BY DEF Init, PwType, IsMem, FirstMemory, States
<1>2. ASSUME NEW p \in Task PROVE Private(p) /\ MemoryOf(p) /\ ReceivedBy(p)
  <2>1. program[p] \in AllKinds /\ pos[p] = 1 /\ st[p] = "run" /\ mem[p] = FirstMemory
    BY DEF Init
  <2>2. Len(Steps(program[p])) \in Nat
    BY <2>1, StepsLen
  <2>3. Private(p)
    BY <2>1, <2>2, FirstTables DEF Private, Init
  <2>4. Entered(p) => p = 0
    BY <2>1 DEF Entered
  <2>5. MemoryOf(p)
    BY <1>1, <2>1, <2>4, SequentialSteps, FirstTables DEF MemoryOf, PwType
  <2>6. ReceivedBy(p)
    BY DEF ReceivedBy, Init, NoMap
  <2> QED
    BY <2>3, <2>5, <2>6
<1>3. BoardInv
  <2>1. DOMAIN board = {}
    BY DEF Init, NoMap
  <2>2. \A p \in Task : ~HasPosted(p)
    BY DEF Init, HasPosted, EndAt
  <2> QED
    BY <2>1, <2>2 DEF BoardInv, GoodBoard, OnBoardIn, PostedData
<1>4. CommitInv
  <2>1. DOMAIN write_union = {}
    BY DEF Init, NoMap
  <2>2. \A p \in Task : patches[p] = NoMap /\ DOMAIN patches[p] = {} /\ st[p] = "run"
    BY DEF Init, NoMap
  <2> QED
    BY <2>1, <2>2 DEF CommitInv, UnionInv, PassedOnly, PatchOf, WonRight, Passed
<1> QED
  BY <1>1, <1>2, <1>3, <1>4 DEF PwInv, TaskInv

-----------------------------------------------------------------------------
(***************************************************************************)
(* The check and the commit.                                               *)
(***************************************************************************)
LEMMA LastWritesAre ==
  ASSUME PwType, NEW q \in Task
  PROVE  /\ LastWrites(q) = IF program[q] = "late" THEN {"z"} ELSE Touched(program[q]) \ {"z"}
         /\ program[q] \in AllKinds /\ Touched(program[q]) \subseteq {"y", "z"}
         /\ "z" \in LastWrites(q) <=> program[q] = "late"
         /\ "y" \in LastWrites(q) <=> "y" \in Touched(program[q])
<1>1. program[q] \in AllKinds
  BY TaskFacts DEF PwType
<1>2. PICK n \in Int : n = Len(Steps(program[q])) + 1
  BY <1>1, StepsLen
<1>3. LastWrites(q) = IF program[q] = "late" THEN {"z"} ELSE Touched(program[q]) \ {"z"}
  BY <1>1, <1>2, LastTables DEF LastWrites
<1>4. Touched(program[q]) \subseteq {"y", "z"} /\ (program[q] = "late" => "y" \notin Touched(program[q]))
  BY DEF Touched
<1> QED
  BY <1>1, <1>3, <1>4

LEMMA EndedFacts ==
  ASSUME PwInv, NEW p \in Task, Ended(p)
  PROVE  /\ pos[p] = Len(Steps(program[p])) + 1 /\ pos[p] \in Int /\ program[p] \in AllKinds
         /\ write_map[p] = LastWrites(p)
         /\ read_map[p] = Touched(program[p])
         /\ SequentialAfter(p) = Sequential(p, pos[p])
         /\ in_ordered[p] = 0
<1>1. PwType /\ Private(p)
  BY DEF PwInv, TaskInv
<1>2. program[p] \in AllKinds /\ pos[p] \in Int
  BY <1>1, TaskFacts DEF PwType
<1>3. Len(Steps(program[p])) \in Nat
  BY <1>2, StepsLen
<1>4. pos[p] = Len(Steps(program[p])) + 1
  BY <1>1, <1>2, <1>3 DEF Private, Ended
<1> QED
  BY <1>1, <1>2, <1>4, LastTables DEF Private, LastWrites, SequentialAfter

LEMMA IndexIsOne ==
  ASSUME NEW p \in Task, NEW q \in Task, Index(p) = Index(q)
  PROVE  p = q
BY TaskFacts DEF Index

(* A task that has passed the check of its reads and accesses what a late  *)
(* task has posted used the data posted.                                   *)
LEMMA CheckedUsesLate ==
  ASSUME PwInv, NEW p \in Task, Ended(p), p > 0, Passed(p - 1),
         \A a \in read_map[p] \cap DOMAIN write_union : FromLastWriter(p, a),
         "z" \in Touched(program[p]), Before(p, "late")
  PROVE  /\ "z" \in read_map[p] \cap DOMAIN write_union
         /\ \E s \in Task : program[s] = "late" /\ received[p]["z"].task = Index(s)
                            /\ received[p]["z"].val.by = <<s, 2>>
<1> USE TaskFacts
<1>1. PICK r \in Task : r = p - 1
  OBVIOUS
<1>2. PICK l \in 0 .. p - 1 : program[l] = "late"
  BY DEF Before
<1>3. l \in Task /\ l \in 0 .. r
  BY <1>1, <1>2
<1>4. "z" \in LastWrites(l)
  BY <1>2, <1>3, LastWritesAre DEF PwInv
<1>5. "z" \in DOMAIN write_union
  BY <1>1, <1>3, <1>4 DEF PwInv, CommitInv, UnionInv
<1>6. "z" \in read_map[p]
  BY EndedFacts
<1>7. "z" \in DOMAIN received[p] /\ received[p]["z"].task = write_union["z"]
  BY <1>5, <1>6 DEF FromLastWriter
<1>8. PICK s \in Task : program[s] = "late" /\ write_union["z"] = Index(s)
  BY <1>5 DEF PwInv, CommitInv, UnionInv
<1>9. FromTask(received[p]["z"])
  BY <1>7 DEF PwInv, TaskInv, ReceivedBy
<1>10. PICK t \in Task : received[p]["z"].task = Index(t)
                         /\ (program[t] = "late" => received[p]["z"].val.by = <<t, 2>>)
  BY <1>9 DEF FromTask
<1>11. s = t
  BY <1>7, <1>8, <1>10, IndexIsOne
<1> QED
  BY <1>5, <1>6, <1>8, <1>10, <1>11

(* Nothing but z is received, so nobody who accesses y passes after        *)
(* another that does.                                                      *)
LEMMA CheckedReadsFreshY ==
  ASSUME PwInv, NEW p \in Task, Ended(p), p > 0, Passed(p - 1),
         \A a \in read_map[p] \cap DOMAIN write_union : FromLastWriter(p, a),
         "y" \in Touched(program[p]), NEW q \in 0 .. p - 1
  PROVE  "y" \notin Touched(program[q])
<1> USE TaskFacts
<1> SUFFICES ASSUME "y" \in Touched(program[q]) PROVE FALSE
  OBVIOUS
<1>1. PICK r \in Task : r = p - 1
  OBVIOUS
<1>2. q \in Task /\ q \in 0 .. r
  BY <1>1
<1>3. "y" \in LastWrites(q)
  BY <1>2, LastWritesAre DEF PwInv
<1>4. "y" \in DOMAIN write_union
  BY <1>1, <1>2, <1>3 DEF PwInv, CommitInv, UnionInv
<1>5. "y" \in read_map[p]
  BY EndedFacts
<1>6. "y" \in DOMAIN received[p]
  BY <1>4, <1>5 DEF FromLastWriter
<1> QED
  BY <1>6 DEF PwInv, TaskInv, ReceivedBy

LEMMA PprIsCorrectKeeps ==
  ASSUME PwInv, NEW p \in Task, PprIsCorrect(p)
  PROVE  PwInv'
<1> USE TaskFacts
<1> DEFINE shared == read_map[p] \cap DOMAIN write_union
<1>1. /\ st[p] = "ended" /\ p < partial_size
      /\ p > 0 => st[p - 1] \in {"checked", "committed", "crashed"}
      /\ program' = program /\ pos' = pos /\ mem' = mem
      /\ read_map' = read_map /\ write_map' = write_map /\ ordered_writes' = ordered_writes
      /\ in_ordered' = in_ordered /\ local_ch' = local_ch /\ received' = received /\ board' = board
      /\ patches' = patches
  BY DEF PprIsCorrect, private
<1>2. PwType /\ Private(p) /\ BoardInv /\ CommitInv
  BY DEF PwInv, TaskInv
<1>3. CASE ~\A a \in shared : FromLastWriter(p, a)
  <2>1. /\ received_n_used' = received_n_used /\ write_union' = write_union
        /\ partial_size' = p /\ st' = [q \in Task |-> IF q >= p THEN "dead" ELSE st[q]]
    BY <1>3 DEF PprIsCorrect, Cut
  <2>2. st' \in [Task -> States] /\ partial_size' \in Int /\ \A q \in Task : st'[q] \in {st[q], "dead"}
    BY <1>2, <2>1 DEF PwType, States
  <2> QED
    BY <1>1, <2>1, <2>2, OnlyDeaths
<1>4. CASE \A a \in shared : FromLastWriter(p, a)
  <2>1. /\ received_n_used' = [received_n_used EXCEPT ![p] = [a \in shared |-> received[p][a]]]
        /\ write_union' = Over([a \in write_map[p] |-> Index(p)], write_union)
        /\ st' = [st EXCEPT ![p] = "checked"] /\ partial_size' = partial_size
    BY <1>4 DEF PprIsCorrect
  <2>2. Ended(p) /\ Live(p)
    BY <1>1, <1>2 DEF Private, Live
  <2>3. write_map[p] = LastWrites(p) /\ read_map[p] = Touched(program[p])
    BY <2>2, EndedFacts
  <2>4. st' \in [Task -> States] /\ st'[p] = "checked" /\ \A q \in Task : q # p => st'[q] = st[q]
    BY <1>2, <2>1 DEF PwType, States
  <2>5. PwType'
    BY <1>1, <1>2, <2>1, <2>4 DEF PwType, IsMem
  <2>6. TaskInv'
    <3>1. ASSUME NEW q \in Task PROVE st'[q] \in {st[q], "dead"} \/ (Ended(q) /\ st'[q] \in States /\ (Live(q)' => Live(q)))
      BY <2>2, <2>4 DEF States
    <3> QED
      BY <1>1, <3>1, TaskKeeps DEF PwInv, TaskInv
  <2>7. BoardInv'
    BY <1>1, <1>2, BoardKeeps DEF HasPosted, EndAt
  <2>8. /\ DOMAIN write_union' = write_map[p] \cup DOMAIN write_union
        /\ \A a \in DOMAIN write_union' : write_union'[a] = IF a \in write_map[p] THEN Index(p) ELSE write_union[a]
    BY <2>1 DEF Over
  <2>9. p > 0 => Passed(p - 1) /\ p - 1 \in Task
    BY <1>1 DEF Passed
  <2>10. ASSUME NEW q \in Task PROVE LastWrites(q)' = LastWrites(q)
    BY <1>1 DEF LastWrites
  <2>11. UnionInv'
    <3>1. "z" \in DOMAIN write_union' => \E s \in Task : program'[s] = "late" /\ write_union'["z"] = Index(s)
      <4> SUFFICES ASSUME "z" \in DOMAIN write_union'
                   PROVE  \E s \in Task : program[s] = "late" /\ write_union'["z"] = Index(s)
        BY <1>1
      <4>1. CASE "z" \in write_map[p]
        BY <1>2, <2>3, <2>8, <4>1, LastWritesAre
      <4>2. CASE "z" \notin write_map[p]
        BY <1>2, <2>8, <4>2 DEF CommitInv, UnionInv
      <4> QED
        BY <4>1, <4>2
    <3>2. ASSUME NEW r \in Task, Passed(r)', NEW q \in 0 .. r PROVE LastWrites(q) \subseteq DOMAIN write_union'
      <4>1. q \in Task
        OBVIOUS
      <4>2. CASE r # p
        BY <1>2, <2>4, <2>8, <3>2, <4>2 DEF Passed, CommitInv, UnionInv
      <4>3. CASE r = p /\ q = p
        BY <2>3, <2>8, <4>3
      <4>4. CASE r = p /\ q # p
        <5>1. PICK t \in Task : t = p - 1 /\ p > 0
          BY <4>4
        <5>2. q \in 0 .. t
          BY <4>4, <5>1
        <5> QED
          BY <1>2, <2>8, <2>9, <5>1, <5>2 DEF CommitInv, UnionInv
      <4> QED
        BY <4>2, <4>3, <4>4
    <3>3. \A r \in Task : Passed(r)' => \A q \in 0 .. r : LastWrites(q)' \subseteq DOMAIN write_union'
      BY <2>10, <3>2
    <3> QED
      BY <3>1, <3>3 DEF UnionInv, Index
  <2>12. ASSUME NEW r \in Task PROVE PassedOnly(r)'
    <3>1. CASE r # p
      <4>1. Passed(r)' = Passed(r) /\ Before(r, "late")' = Before(r, "late") /\ st'[r] = st[r]
        BY <1>1, <2>4, <3>1 DEF Passed, Before
      <4>2. UsedLate(r)' = UsedLate(r)
        BY <1>1, <1>2, <2>1, <3>1 DEF UsedLate, PwType, Index
      <4> QED
        BY <1>1, <1>2, <4>1, <4>2 DEF CommitInv, PassedOnly
    <3>2. CASE r = p
      <4>1. ASSUME NEW i \in 0 .. p, NEW j \in 0 .. p, i < j
            PROVE  "y" \notin Touched(program[i]) \/ "y" \notin Touched(program[j])
        <5>1. p > 0 /\ i \in 0 .. p - 1
          BY <4>1
        <5>2. CASE j = p
          BY <1>4, <2>2, <2>9, <5>1, <5>2, CheckedReadsFreshY
        <5>3. CASE j # p
          <6>1. PICK t \in Task : t = p - 1
            BY <5>1
          <6>2. i \in 0 .. t /\ j \in 0 .. t
            BY <4>1, <5>3, <6>1
          <6> QED
            BY <1>2, <2>9, <4>1, <5>1, <6>1, <6>2 DEF CommitInv, PassedOnly
        <5> QED
          BY <5>2, <5>3
      <4>2. ASSUME "z" \in Touched(program[p]), Before(p, "late") PROVE UsedLate(p)'
        <5>1. p > 0
          BY <4>2 DEF Before
        <5>2. "z" \in shared
              /\ \E s \in Task : program[s] = "late" /\ received[p]["z"].task = Index(s)
                                 /\ received[p]["z"].val.by = <<s, 2>>
          BY <1>4, <2>2, <2>9, <4>2, <5>1, CheckedUsesLate
        <5>3. received_n_used'[p] = [a \in shared |-> received[p][a]]
          BY <1>2, <2>1 DEF PwType
        <5>4. "z" \in DOMAIN received_n_used'[p] /\ received_n_used'[p]["z"] = received[p]["z"]
          BY <5>2, <5>3
        <5> QED
          BY <1>1, <5>2, <5>4 DEF UsedLate, Index
      <4>3. Before(p, "late")' = Before(p, "late")
        BY <1>1 DEF Before
      <4>4. program' = program /\ st'[p] = "checked"
        BY <1>1, <2>4
      <4> QED
        BY <3>2, <4>1, <4>2, <4>3, <4>4 DEF PassedOnly
    <3> QED
      BY <3>1, <3>2
  <2>13. ASSUME NEW r \in Task PROVE PatchOf(r)'
    <3>1. PatchOf(r)
      BY <1>2 DEF CommitInv
    <3>2. st'[r] \in {"run", "ended", "checked"} => st[r] \in {"run", "ended", "checked"}
      BY <1>1, <2>4
    <3>3. st'[r] = "committed" => st[r] = "committed"
      BY <1>1, <2>4
    <3> QED
      BY <1>1, <2>10, <3>1, <3>2, <3>3 DEF PatchOf, NoMap
  <2>14. ASSUME NEW r \in Task PROVE WonRight(r)'
    <3>1. st'[r] = "won" => st[r] = "won"
      BY <2>4
    <3> QED
      BY <1>1, <1>2, <3>1 DEF CommitInv, WonRight, Waits, Clean, Spoiled, Before, SequentialAfter, Sequential
  <2> QED
    BY <2>5, <2>6, <2>7, <2>11, <2>12, <2>13, <2>14 DEF PwInv, CommitInv
<1> QED
  BY <1>3, <1>4

(* Data modified after the post is no longer what was posted. *)
LEMMA LateIsModified ==
  ASSUME PwInv, NEW p \in Task, UsedLate(p), MatchFound(p), Unmodified(p)
  PROVE  FALSE
<1>1. PICK s \in Task : /\ program[s] = "late" /\ received_n_used[p]["z"].task = Index(s)
                        /\ received_n_used[p]["z"].val.by = <<s, 2>>
  BY DEF UsedLate
<1>2. "z" \in DOMAIN received_n_used[p] /\ SenderPatch(p, "z") = patches[s]
  <2>1. Index(s) - 1 = s
    BY TaskFacts DEF Index
  <2> QED
    BY <1>1, <2>1 DEF UsedLate, SenderPatch
<1>3. "z" \in DOMAIN patches[s] /\ patches[s]["z"] = received_n_used[p]["z"].val
  BY <1>2 DEF MatchFound, Unmodified
<1>4. patches[s]["z"].by = <<s, 4>>
  BY <1>1, <1>3 DEF PwInv, CommitInv, PatchOf
<1>5. <<s, 2>>[2] # <<s, 4>>[2]
  OBVIOUS
<1> QED
  BY <1>1, <1>3, <1>4, <1>5

LEMMA PprCommitKeeps ==
  ASSUME PwInv, NEW p \in Task, PprCommit(p)
  PROVE  PwInv'
<1> USE TaskFacts
<1>1. /\ st[p] = "checked"
      /\ patches' = [patches EXCEPT ![p] = [a \in write_map[p] |-> mem[p][a]]]
      /\ program' = program /\ pos' = pos /\ mem' = mem
      /\ read_map' = read_map /\ write_map' = write_map /\ ordered_writes' = ordered_writes
      /\ in_ordered' = in_ordered /\ local_ch' = local_ch /\ received' = received /\ board' = board
      /\ received_n_used' = received_n_used /\ write_union' = write_union
  BY DEF PprCommit, private
<1>2. PwType /\ Private(p) /\ MemoryOf(p) /\ BoardInv /\ CommitInv
  BY DEF PwInv, TaskInv
<1>3. Ended(p) /\ Live(p)
  BY <1>1, <1>2 DEF Private, Live
<1>4. write_map[p] = LastWrites(p) /\ pos[p] = Len(Steps(program[p])) + 1 /\ program[p] \in AllKinds
  BY <1>3, EndedFacts
<1>5. /\ st' \in [Task -> States] /\ partial_size' \in Int
      /\ \A q \in Task : q # p => st'[q] \in {st[q], "dead"}
      /\ st'[p] \in {"dead", "crashed"} \/ (st'[p] = "committed" /\ MatchFound(p) /\ Unmodified(p))
  <2>1. CASE ~MatchFound(p)
    BY <1>2, <2>1 DEF PprCommit, Crash, PwType, States
  <2>2. CASE MatchFound(p) /\ ~Unmodified(p)
    BY <1>2, <2>2 DEF PprCommit, Cut, PwType, States
  <2>3. CASE MatchFound(p) /\ Unmodified(p)
    BY <1>2, <2>3 DEF PprCommit, PwType, States
  <2> QED
    BY <2>1, <2>2, <2>3
<1>6. PwType'
  BY <1>1, <1>2, <1>5 DEF PwType, IsMem
<1>7. TaskInv'
  <2>1. ASSUME NEW q \in Task PROVE st'[q] \in {st[q], "dead"} \/ (Ended(q) /\ st'[q] \in States /\ (Live(q)' => Live(q)))
    BY <1>3, <1>5 DEF States
  <2> QED
    BY <1>1, <2>1, TaskKeeps DEF PwInv, TaskInv
<1>8. BoardInv'
  BY <1>1, <1>2, BoardKeeps DEF HasPosted, EndAt
<1>9. ASSUME NEW q \in Task PROVE Passed(q)' => Passed(q)
  BY <1>1, <1>5 DEF Passed
<1>10. ASSUME NEW q \in Task PROVE LastWrites(q)' = LastWrites(q)
  BY <1>1 DEF LastWrites
<1>11. UnionInv'
  <2>1. \A q \in Task : \A r \in 0 .. q : r \in Task
    OBVIOUS
  <2> QED
    BY <1>1, <1>2, <1>9, <1>10, <2>1 DEF CommitInv, UnionInv, Index
<1>12. ASSUME NEW r \in Task PROVE PassedOnly(r)'
  <2>1. PassedOnly(r) /\ Before(r, "late")' = Before(r, "late") /\ UsedLate(r)' = UsedLate(r)
    BY <1>1, <1>2 DEF CommitInv, Before, UsedLate, Index
  <2>2. CASE r # p
    BY <1>1, <1>5, <1>9, <2>1, <2>2 DEF PassedOnly
  <2>3. CASE r = p
    <3>1. "z" \in Touched(program[p]) /\ Before(p, "late") => st'[p] # "committed"
      BY <1>1, <1>5, <2>1, <2>3, LateIsModified DEF PassedOnly
    <3>2. st'[p] # "checked"
      BY <1>5
    <3> QED
      BY <1>1, <1>9, <2>1, <2>3, <3>1, <3>2 DEF PassedOnly
  <2> QED
    BY <2>2, <2>3
<1>13. ASSUME NEW r \in Task PROVE PatchOf(r)'
  <2>1. CASE r # p
    <3>1. PatchOf(r) /\ patches'[r] = patches[r] /\ st'[r] \in {st[r], "dead"}
      BY <1>1, <1>2, <1>5, <2>1 DEF CommitInv, PwType
    <3> QED
      BY <1>1, <1>10, <3>1 DEF PatchOf, NoMap
  <2>2. CASE r = p
    <3>1. patches'[p] = [a \in write_map[p] |-> mem[p][a]]
      BY <1>1, <1>2 DEF PwType
    <3>2. program[p] = "late" => mem[p]["z"].by = <<p, 4>>
      <4> HAVE program[p] = "late"
      <4>1. Len(Steps(program[p])) = 4
        BY <1>4, StepsLen
      <4>2. pos[p] = 4 + 1
        BY <1>4, <4>1, Zenon
      <4>3. pos[p] = 5
        BY <4>2
      <4> QED
        BY <1>2, <1>3, <4>3 DEF MemoryOf
    <3>3. st'[p] \notin {"run", "ended", "checked"}
      BY <1>5
    <3> QED
      BY <1>1, <1>4, <1>10, <2>2, <3>1, <3>2, <3>3 DEF PatchOf
  <2> QED
    BY <2>1, <2>2
<1>14. ASSUME NEW r \in Task PROVE WonRight(r)'
  <2>1. st'[r] = "won" => st[r] = "won"
    BY <1>1, <1>5
  <2> QED
    BY <1>1, <1>2, <2>1 DEF CommitInv, WonRight, Waits, Clean, Spoiled, Before, SequentialAfter, Sequential
<1> QED
  BY <1>6, <1>7, <1>8, <1>11, <1>12, <1>13, <1>14 DEF PwInv, CommitInv

(* What the only task so far that accesses y leaves there. *)
LEMMA FirstY ==
  ASSUME program \in [Task -> Kinds], NEW q \in Task, "y" \in Touched(program[q]),
         \A i \in 0 .. q - 1 : "y" \notin Touched(program[i])
  PROVE  SequentialAfter(q)["y"] = Computed(q, YAt(program[q]), FirstMemory["y"])
<1> DEFINE S(k) == Sequential(q, k)["y"]
           kind == program[q]
<1>1. kind \in AllKinds /\ "y" \in Addr
  BY TaskFacts DEF Addr
<1>2. S(1) = FirstMemory["y"]
  BY <1>1, UntouchedSoFar
<1>3. \A k \in 1 .. Len(Steps(kind)) :
        S(k + 1) = IF Steps(kind)[k].op = "access" /\ Steps(kind)[k].addr = "y" THEN Computed(q, k, S(k)) ELSE S(k)
  BY <1>1, SequentialStep
<1>4. SequentialAfter(q)["y"] = S(Len(Steps(kind)) + 1)
  BY DEF SequentialAfter
<1> HIDE DEF S
<1>5. CASE kind = "plain"
  <2>1. Len(Steps(kind)) = 1
    BY <1>5, StepsLen, <1>1
  <2>2. S(1 + 1) = Computed(q, 1, S(1))
    BY <1>3, <1>5, <2>1, StepsAre, StepFields
  <2> QED
    BY <1>2, <1>4, <1>5, <2>1, <2>2 DEF YAt
<1>6. CASE kind = "twice"
  <2>1. Len(Steps(kind)) = 8
    BY <1>6, StepsLen, <1>1
  <2>2. S(2) = S(1) /\ S(3) = S(2) /\ S(4) = S(3) /\ S(5) = S(4) /\ S(6) = S(5) /\ S(7) = S(6)
    <3>1. \A k \in {1, 2, 3, 4, 5, 6} :
            k \in 1 .. 8 /\ ~(Steps("twice")[k].op = "access" /\ Steps("twice")[k].addr = "y")
      BY StepsAre, StepFields
    <3>2. \A k \in {1, 2, 3, 4, 5, 6} : S(k + 1) = S(k)
      BY <1>3, <1>6, <2>1, <3>1
    <3>3. 1 + 1 = 2 /\ 2 + 1 = 3 /\ 3 + 1 = 4 /\ 4 + 1 = 5 /\ 5 + 1 = 6 /\ 6 + 1 = 7
      OBVIOUS
    <3> QED
      BY <3>2, <3>3
  <2>3. S(7 + 1) = Computed(q, 7, S(7))
    <3>1. 7 \in 1 .. 8 /\ Steps("twice")[7].op = "access" /\ Steps("twice")[7].addr = "y"
      BY StepsAre, StepFields
    <3> QED
      BY <1>3, <1>6, <2>1, <3>1
  <2>4. S(8 + 1) = S(8)
    <3>1. 8 \in 1 .. 8 /\ Steps("twice")[8].op # "access"
      BY StepsAre, StepFields
    <3> QED
      BY <1>3, <1>6, <2>1, <3>1
  <2>5. S(Len(Steps(kind)) + 1) = S(8 + 1)
    BY <2>1
  <2> QED
    BY <1>2, <1>4, <1>6, <2>2, <2>3, <2>4, <2>5 DEF YAt
<1>7. kind \in {"plain", "twice"}
  BY <1>1 DEF Touched
<1> QED
  BY <1>5, <1>6, <1>7

LEMMA MaxOfOne ==
  ASSUME NEW S, NEW k \in Int, S = {k}
  PROVE  Max(S) = k
BY DEF Max

LEMMA WaitingKinds ==
  ASSUME NEW kind \in AllKinds, NEW s \in ToSet(Steps(kind)), s.op = "begin"
  PROVE  kind \in {"ordered", "late", "early", "empty", "twice"}
<1>1. PICK n \in 1 .. Len(Steps(kind)) : Steps(kind)[n] = s
  BY DEF ToSet, Steps, AllKinds
<1> QED
  BY <1>1, BeginSteps

LEMMA GroupCommitIsRight ==
  ASSUME PwInv, NEW p \in Task, PprGroupCommit(p), Waits(p), Clean(p)
  PROVE  mem'[p] = SequentialAfter(p)
<1> USE TaskFacts
<1> DEFINE from(a) == {k \in 0 .. p : a \in DOMAIN patches[k]}
<1>1. PwType /\ Private(p) /\ MemoryOf(p) /\ CommitInv /\ program \in [Task -> Kinds] /\ IsMem(mem[p])
  BY DEF PwInv, TaskInv, PwType
<1>2. p > 0 /\ st[p] \in {"checked", "committed"} /\ \A q \in 0 .. p-1 : st[q] = "committed"
  BY DEF PprGroupCommit
<1>3. Ended(p) /\ Live(p) /\ Passed(p)
  BY <1>1, <1>2 DEF Private, Live, Passed
<1>4. /\ pos[p] = Len(Steps(program[p])) + 1 /\ pos[p] \in Int /\ program[p] \in AllKinds
      /\ write_map[p] = LastWrites(p) /\ SequentialAfter(p) = Sequential(p, pos[p])
  BY <1>3, EndedFacts
<1>5. mem'[p] = [a \in Addr |-> IF from(a) = {} THEN mem[p][a] ELSE patches[Max(from(a))][a]]
  BY <1>1 DEF PprGroupCommit, PwType
<1>6. program[p] \in {"ordered", "late", "empty", "twice"}
  <2>1. program[p] \in {"ordered", "late", "early", "empty", "twice"}
    BY <1>4, WaitingKinds DEF Waits
  <2>2. program[p] # "early"
    BY <1>2 DEF Clean, Spoiled
  <2> QED
    BY <2>1, <2>2
<1>7. Entered(p)
  <2>1. \/ Len(Steps(program[p])) = 3 \/ Len(Steps(program[p])) = 4
        \/ Len(Steps(program[p])) = 2 \/ Len(Steps(program[p])) = 8
    BY <1>4, <1>6, StepsLen
  <2>2. \E n \in {2, 3, 4, 8} : pos[p] = n + 1
    BY <1>4, <2>1, Zenon
  <2>3. pos[p] >= 2
    BY <2>2
  <2> QED
    BY <1>6, <2>3 DEF Entered
<1>8. mem[p]["z"] = SequentialAfter(p)["z"]
  BY <1>1, <1>3, <1>4, <1>7 DEF MemoryOf
<1>9. ASSUME NEW q \in 0 .. p, NEW a \in DOMAIN patches[q] PROVE q \in Task /\ a \in LastWrites(q)
  <2>1. q \in Task
    OBVIOUS
  <2>2. PatchOf(q)
    BY <1>1, <2>1 DEF CommitInv
  <2> QED
    BY <2>1, <2>2 DEF PatchOf
<1>10. mem'[p]["z"] = SequentialAfter(p)["z"]
  <2>1. ASSUME NEW q \in from("z") PROVE q = p /\ st[p] = "committed" /\ patches[p]["z"] = mem[p]["z"]
    <3>1. q \in Task /\ "z" \in LastWrites(q) /\ "z" \in DOMAIN patches[q] /\ q \in 0 .. p
      BY <1>9, <2>1
    <3>2. program[q] = "late"
      BY <1>1, <3>1, LastWritesAre
    <3>3. q = p
      <4>1. q \in 0 .. p - 1 => Before(p, "late")
        BY <3>2 DEF Before
      <4> QED
        BY <3>1, <4>1 DEF Clean
    <3>4. st[p] = "committed"
      <4>1. PatchOf(p)
        BY <1>1 DEF CommitInv
      <4> QED
        BY <1>2, <3>1, <3>3, <4>1 DEF PatchOf, NoMap
    <3>5. patches[p] = [a \in write_map[p] |-> mem[p][a]]
      BY <1>1, <3>4 DEF CommitInv, PatchOf
    <3> QED
      BY <3>1, <3>3, <3>4, <3>5
  <2>2. CASE from("z") = {}
    BY <1>5, <1>8, <2>2 DEF Addr
  <2>3. CASE from("z") # {}
    <3>1. from("z") = {p} /\ patches[p]["z"] = mem[p]["z"]
      BY <2>1, <2>3
    <3>2. Max(from("z")) = p
      <4> HIDE DEF from
      <4> QED
        BY <3>1, MaxOfOne
    <3>3. mem'[p]["z"] = patches[Max(from("z"))]["z"]
      BY <1>5, <2>3 DEF Addr
    <3> QED
      BY <1>8, <3>1, <3>2, <3>3
  <2> QED
    BY <2>2, <2>3
<1>11. "y" \notin Touched(program[p]) /\ mem[p]["y"] = FirstMemory["y"]
  <2>1. program[p] # "twice"
    <3> SUFFICES ASSUME program[p] = "twice" PROVE FALSE
      OBVIOUS
    <3>1. Len(Steps(program[p])) = 8 /\ pos[p] <= 6
      BY <1>1, <1>2, <1>3, <1>4, StepsLen DEF MemoryOf
    <3>2. pos[p] = 8 + 1
      BY <1>4, <3>1, Zenon
    <3> QED
      BY <3>1, <3>2
  <2>2. "y" \notin Touched(program[p])
    BY <1>6, <2>1 DEF Touched
  <2>3. "y" \notin Reads(program[p], pos[p])
    BY <1>4, <2>2, LastTables
  <2> QED
    BY <1>1, <1>3, <2>2, <2>3 DEF MemoryOf
<1>12. mem'[p]["y"] = SequentialAfter(p)["y"]
  <2>1. CASE \E q \in 0 .. p : "y" \in Touched(program[q])
    <3>1. PICK q \in 0 .. p : "y" \in Touched(program[q])
      BY <2>1
    <3>2. q \in Task /\ q \in 0 .. p - 1 /\ q <= p
      BY <1>11, <3>1
    <3>3. ASSUME NEW r \in 0 .. p, r # q PROVE "y" \notin Touched(program[r])
      <4>1. CASE r < q
        BY <1>1, <1>3, <3>1, <3>3, <4>1 DEF CommitInv, PassedOnly
      <4>2. CASE q < r
        BY <1>1, <1>3, <3>1, <3>3, <4>2 DEF CommitInv, PassedOnly
      <4> QED
        BY <3>2, <3>3, <4>1, <4>2
    <3>4. SequentialAfter(q)["y"] = Computed(q, YAt(program[q]), FirstMemory["y"])
      <4>1. \A i \in 0 .. q - 1 : "y" \notin Touched(program[i])
        BY <3>2, <3>3
      <4> QED
        BY <1>1, <3>1, <3>2, <4>1, FirstY
    <3>5. SequentialAfter(p)["y"] = SequentialAfter(q)["y"]
      <4>1. "y" \in Addr /\ \A i \in q + 1 .. p : "y" \notin Touched(program[i])
        BY <3>2, <3>3 DEF Addr
      <4> QED
        BY <1>1, <3>2, <4>1, UntouchedBetween
    <3>6. st[q] = "committed" /\ Ended(q) /\ Live(q)
      BY <1>2, <3>2 DEF PwInv, TaskInv, Private, Live
    <3>7. write_map[q] = LastWrites(q) /\ pos[q] = Len(Steps(program[q])) + 1 /\ pos[q] \in Int
          /\ program[q] \in AllKinds
      BY <3>2, <3>6, EndedFacts
    <3>8. "y" \in write_map[q] /\ "y" \in Reads(program[q], pos[q])
      BY <1>1, <3>1, <3>2, <3>7, LastWritesAre, LastTables
    <3>9. mem[q]["y"] = Computed(q, YAt(program[q]), FirstMemory["y"])
      BY <3>2, <3>6, <3>8 DEF PwInv, TaskInv, MemoryOf
    <3>10. patches[q] = [a \in write_map[q] |-> mem[q][a]]
      BY <1>1, <3>2, <3>6 DEF CommitInv, PatchOf
    <3>11. "y" \in DOMAIN patches[q] /\ patches[q]["y"] = mem[q]["y"]
      BY <3>8, <3>10
    <3>12. from("y") = {q}
      <4>1. ASSUME NEW r \in from("y") PROVE r = q
        <5>1. r \in 0 .. p /\ r \in Task /\ "y" \in LastWrites(r)
          BY <1>9
        <5>2. "y" \in Touched(program[r])
          BY <1>1, <5>1, LastWritesAre
        <5> QED
          BY <3>3, <5>1, <5>2
      <4>2. q \in from("y")
        BY <3>11
      <4> QED
        BY <4>1, <4>2
    <3>13. mem'[p]["y"] = patches[Max(from("y"))]["y"]
      BY <1>5, <3>12 DEF Addr
    <3>14. Max(from("y")) = q
      <4> HIDE DEF from
      <4> QED
        BY <3>2, <3>12, MaxOfOne
    <3> QED
      BY <3>4, <3>5, <3>9, <3>11, <3>13, <3>14
  <2>2. CASE \A q \in 0 .. p : "y" \notin Touched(program[q])
    <3>1. from("y") = {}
      <4> SUFFICES ASSUME NEW r \in from("y") PROVE FALSE
        OBVIOUS
      <4>1. r \in 0 .. p /\ r \in Task /\ "y" \in LastWrites(r)
        BY <1>9
      <4> QED
        BY <1>1, <2>2, <4>1, LastWritesAre
    <3>2. mem'[p]["y"] = FirstMemory["y"]
      BY <1>5, <1>11, <3>1 DEF Addr
    <3>3. SequentialAfter(p)["y"] = Sequential(p, 1)["y"]
      BY <1>1, <1>11, UntouchedRegion DEF Addr
    <3>4. Sequential(p, 1)["y"] = FirstMemory["y"]
      <4>1. "y" \in Addr /\ \A i \in 0 .. p - 1 : "y" \notin Touched(program[i])
        BY <2>2 DEF Addr
      <4> QED
        BY <1>1, <4>1, UntouchedSoFar
    <3> QED
      BY <3>2, <3>3, <3>4
  <2> QED
    BY <2>1, <2>2
<1>13. IsMem(SequentialAfter(p))
  <2>1. Len(Steps(program[p])) \in Nat
    BY <1>4, StepsLen
  <2>2. pos[p] \in 1 .. Len(Steps(program[p])) + 1
    BY <1>4, <2>1
  <2> QED
    BY <1>1, <1>4, <2>2, SequentialMem
<1>14. IsMem(mem'[p])
  BY <1>5 DEF IsMem
<1> QED
  BY <1>10, <1>12, <1>13, <1>14 DEF IsMem, Addr

LEMMA PprGroupCommitKeeps ==
  ASSUME PwInv, NEW p \in Task, PprGroupCommit(p)
  PROVE  PwInv'
<1>1. /\ st[p] \in {"checked", "committed"} /\ st' = [st EXCEPT ![p] = "won"]
      /\ program' = program /\ pos' = pos
      /\ read_map' = read_map /\ write_map' = write_map /\ ordered_writes' = ordered_writes
      /\ in_ordered' = in_ordered /\ local_ch' = local_ch /\ received' = received /\ board' = board
      /\ write_union' = write_union /\ patches' = patches /\ received_n_used' = received_n_used
      /\ partial_size' = partial_size
  BY DEF PprGroupCommit, private, merge
<1>2. PwType /\ Private(p) /\ ReceivedBy(p) /\ BoardInv /\ CommitInv
  BY DEF PwInv, TaskInv
<1>3. /\ st' \in [Task -> States] /\ st'[p] = "won" /\ \A q \in Task : q # p => st'[q] = st[q]
  BY <1>1, <1>2 DEF PwType, States
<1>4. DOMAIN mem' = Task /\ IsMem(mem'[p]) /\ \A q \in Task : q # p => mem'[q] = mem[q]
  BY <1>2 DEF PprGroupCommit, PwType, IsMem
<1>5. PwType'
  BY <1>1, <1>2, <1>3, <1>4 DEF PwType, IsMem
<1>6. ASSUME NEW q \in Task PROVE Private(q)' /\ MemoryOf(q)' /\ ReceivedBy(q)'
  <2>1. CASE q # p
    BY <1>1, <1>3, <1>4, <2>1, TaskKeeps DEF PwInv, TaskInv
  <2>2. CASE q = p
    <3>1. ~Live(p)' /\ Ended(p)
      BY <1>1, <1>2, <1>3 DEF Live, Private
    <3>2. Private(p)' /\ ReceivedBy(p)'
      BY <1>1, <1>2, <1>3, <3>1 DEF Private, ReceivedBy, FromTask, Ended, NoLocal
    <3> QED
      BY <2>2, <3>1, <3>2 DEF MemoryOf
  <2> QED
    BY <2>1, <2>2
<1>7. BoardInv'
  BY <1>1, <1>2, BoardKeeps DEF HasPosted, EndAt
<1>8. \A q \in Task : Passed(q)' => Passed(q)
  BY <1>1, <1>3 DEF Passed
<1>9. UnionInv'
  BY <1>1, <1>2, <1>8 DEF CommitInv, UnionInv, LastWrites, Index
<1>10. ASSUME NEW q \in Task PROVE PassedOnly(q)'
  BY <1>1, <1>2, <1>3, <1>8 DEF CommitInv, PassedOnly, UsedLate, Before, Index
<1>11. ASSUME NEW q \in Task PROVE PatchOf(q)'
  <2>1. PatchOf(q) /\ LastWrites(q)' = LastWrites(q)
    BY <1>1, <1>2 DEF CommitInv, LastWrites
  <2>2. st'[q] = "committed" \/ st'[q] \in {"run", "ended", "checked"} => q # p /\ st'[q] = st[q] /\ mem'[q] = mem[q]
    BY <1>3, <1>4
  <2> QED
    BY <1>1, <2>1, <2>2 DEF PatchOf, NoMap
<1>12. ASSUME NEW q \in Task PROVE WonRight(q)'
  <2>1. Waits(q)' = Waits(q) /\ Clean(q)' = Clean(q) /\ SequentialAfter(q)' = SequentialAfter(q)
    BY <1>1 DEF Waits, Clean, Spoiled, Before, SequentialAfter, Sequential
  <2>2. CASE q # p
    BY <1>2, <1>3, <1>4, <2>1, <2>2 DEF CommitInv, WonRight
  <2>3. CASE q = p
    BY <2>1, <2>3, GroupCommitIsRight DEF WonRight
  <2> QED
    BY <2>2, <2>3
<1> QED
  BY <1>5, <1>6, <1>7, <1>9, <1>10, <1>11, <1>12 DEF PwInv, TaskInv, CommitInv

-----------------------------------------------------------------------------
(***************************************************************************)
(* The switch board.  Region 11 has the places of region 1.                *)
(***************************************************************************)
LEMMA SlotFacts ==
  ASSUME NEW p \in Task
  PROVE  /\ ChannelForRegion(1, p) = Chan(p) /\ Slot(Chan(p)) = Chan(p)
         /\ Chan(p) - 1 = Chan(p - 1) /\ Slot(Chan(p - 1)) = Chan(p - 1)
         /\ Slot(ChannelForRegion(11, p)) = Chan(p)
         /\ Slot(ChannelForRegion(11, p) - 1) = Chan(p - 1)
         /\ ChannelForRegion(11, p) # Chan(p) /\ ChannelForRegion(11, p) - 1 # Chan(p - 1)
         /\ ChannelForRegion(11, p) # 0 /\ Chan(p) # 0
         /\ p \in Place /\ p - 1 \in Place
<1>1. GroupSize \in 2 .. 100 /\ p \in Int /\ 0 <= p /\ p < GroupSize
  BY PostWaitAssumption, TaskFacts
<1>2. ChannelForRegion(1, p) = Chan(p) /\ Chan(p) - 1 = Chan(p - 1)
  BY <1>1 DEF ChannelForRegion, Chan, Index
<1>3. Slot(Chan(p)) = Chan(p) /\ Slot(Chan(p - 1)) = Chan(p - 1)
  BY <1>1 DEF Slot, BoardSize, Chan
<1>4. ChannelForRegion(11, p) = 10 * GroupSize + Chan(p)
  BY <1>1 DEF ChannelForRegion, Chan, Index
<1>5. Slot(ChannelForRegion(11, p)) = Chan(p)
  BY <1>1, <1>4 DEF Slot, BoardSize, Chan
<1>6. Slot(ChannelForRegion(11, p) - 1) = Chan(p - 1)
  BY <1>1, <1>4 DEF Slot, BoardSize, Chan
<1>7. p \in Place /\ p - 1 \in Place
  BY <1>1, TaskFacts DEF Place
<1> QED
  BY <1>1, <1>2, <1>3, <1>4, <1>5, <1>6, <1>7 DEF Chan

LEMMA PlaceFacts ==
  /\ \A p \in Place : p \in Int /\ -1 <= p /\ p < GroupSize /\ Chan(p) \in Int
  /\ \A p, q \in Place : Chan(p) = Chan(q) => p = q
  /\ \A p \in Task : p \in Place
BY TaskFacts DEF Place, Chan

LEMMA OnBoardFacts ==
  ASSUME BoardInv, NEW p \in Place, Chan(p) \in DOMAIN board
  PROVE  /\ board[Chan(p)].id = Chan(p)
         /\ board[Chan(p)].list \in Seq(Int) /\ Chan(p) \in ToSet(board[Chan(p)].list)
         /\ ToSet(board[Chan(p)].list) \subseteq DOMAIN board
         /\ \A c \in ToSet(board[Chan(p)].list) : board[c].list = board[Chan(p)].list
         /\ \A q \in Place : Chan(q) \in ToSet(board[Chan(p)].list) /\ q < p
              => \A i \in q + 1 .. p : program[i] = "skip"
         /\ board[Chan(p)].data # NoMap => HasPosted(p) /\ program[p] # "empty"
         /\ board[Chan(p)].is_posted => \E q \in Task : Chan(q) \in ToSet(board[Chan(p)].list) /\ HasPosted(q)
         /\ \A c \in ToSet(board[Chan(p)].list) : \E q \in Place : c = Chan(q)
<1>1. OnBoardIn(board, Posters, p) /\ \A q \in Posters : q \in Task /\ HasPosted(q)
  BY DEF BoardInv, GoodBoard, Posters
<1>2. board[Chan(p)] = [id |-> Chan(p), data |-> board[Chan(p)].data, sender |-> board[Chan(p)].sender,
                        is_posted |-> board[Chan(p)].is_posted, list |-> board[Chan(p)].list]
  BY <1>1 DEF OnBoardIn
<1>3. board[Chan(p)].id = Chan(p)
  BY <1>2
<1> QED
  BY <1>1, <1>3 DEF OnBoardIn, BoardInv, GoodBoard

(* The task that has posted on a chain is the first of the chain. *)
LEMMA PosterIsFirst ==
  ASSUME BoardInv, NEW p \in Place, Chan(p) \in DOMAIN board,
         NEW q \in Place, Chan(q) \in ToSet(board[Chan(p)].list), HasPosted(q)
  PROVE  q <= p /\ \A i \in q + 1 .. p : program[i] = "skip"
<1> USE PlaceFacts
<1>1. ASSUME q > p PROVE FALSE
  <2>1. Chan(q) \in DOMAIN board /\ board[Chan(q)].list = board[Chan(p)].list
        /\ Chan(p) \in ToSet(board[Chan(p)].list)
    BY OnBoardFacts
  <2>2. \A i \in p + 1 .. q : program[i] = "skip"
    BY <1>1, <2>1, OnBoardFacts
  <2>3. program[q] = "skip"
    BY <1>1, <2>2
  <2> QED
    BY <2>3 DEF HasPosted
<1>2. q < p => \A i \in q + 1 .. p : program[i] = "skip"
  BY OnBoardFacts
<1> QED
  BY <1>1, <1>2

LEMMA OnePoster ==
  ASSUME BoardInv, NEW p \in Place, Chan(p) \in DOMAIN board,
         NEW q \in Place, Chan(q) \in ToSet(board[Chan(p)].list), HasPosted(q),
         NEW r \in Place, Chan(r) \in ToSet(board[Chan(p)].list), HasPosted(r)
  PROVE  q = r
<1>1. /\ Chan(q) \in DOMAIN board /\ board[Chan(q)].list = board[Chan(p)].list
      /\ Chan(r) \in DOMAIN board /\ board[Chan(r)].list = board[Chan(p)].list
  BY OnBoardFacts
<1>2. q <= r /\ r <= q
  BY <1>1, PosterIsFirst
<1> QED
  BY <1>2, PlaceFacts

LEMMA SourceFacts ==
  ASSUME BoardInv, NEW p \in Place, Chan(p) \in DOMAIN board
  PROVE  LET s == Source(Chan(p)) list == board[Chan(p)].list
         IN  /\ s \in ToSet(list)
             /\ \A c \in ToSet(list) : board[c].data # NoMap => board[s].data # NoMap
<1> DEFINE list == board[Chan(p)].list
           full == {i \in 1 .. Len(list) : board[list[i]].data # NoMap}
<1>1. list \in Seq(Int) /\ Chan(p) \in ToSet(list)
  BY OnBoardFacts
<1>2. Len(list) \in Nat /\ DOMAIN list = 1 .. Len(list)
  BY <1>1
<1>3. ToSet(list) = {list[i] : i \in 1 .. Len(list)}
  BY <1>2 DEF ToSet
<1>4. Source(Chan(p)) = IF full = {} THEN Last(list) ELSE list[Min(full)]
  BY DEF Source
<1>5. Last(list) = list[Len(list)] /\ Len(list) \in 1 .. Len(list)
  BY <1>1, <1>2, <1>3 DEF Last
<1>6. ASSUME full # {} PROVE Min(full) \in full
  <2>1. full \subseteq Nat
    BY <1>2
  <2>2. \E m \in full : \A x \in full : m <= x
    <3> HIDE DEF full
    <3> QED
      BY <1>6, <2>1, LeastNatural
  <2> QED
    BY <2>2 DEF Min
<1>7. ASSUME NEW c \in ToSet(list), board[c].data # NoMap PROVE full # {}
  BY <1>3, <1>7
<1>8. CASE full = {}
  BY <1>3, <1>4, <1>5, <1>7, <1>8
<1>9. CASE full # {}
  <2>1. Min(full) \in full /\ Source(Chan(p)) = list[Min(full)]
    BY <1>4, <1>6, <1>9
  <2>2. PICK m \in full : m = Min(full)
    BY <2>1
  <2> QED
    BY <1>3, <2>1, <2>2
<1> QED
  BY <1>8, <1>9

(* What a task gets from a channel: data that a task has posted; and, if   *)
(* the tasks before it use the ordered region as they should, the data of  *)
(* the last task before it that entered the region.                        *)
LEMMA SourceData ==
  ASSUME PwInv, NEW p \in Place, Chan(p) \in DOMAIN board
  PROVE  LET ch == board[Source(Chan(p))]
         IN  /\ DOMAIN ch.data \subseteq {"z"}
             /\ "z" \in DOMAIN ch.data =>
                  \E s \in Task : ch.sender = Index(s) /\ (program[s] = "late" => ch.data["z"].by = <<s, 2>>)
<1> DEFINE list == board[Chan(p)].list
           c == Source(Chan(p))
<1>1. BoardInv
  BY DEF PwInv
<1>2. c \in ToSet(list)
  BY <1>1, SourceFacts
<1> HIDE DEF c
<1>3. PICK q \in Place : c = Chan(q)
  BY <1>1, <1>2, OnBoardFacts
<1>4. Chan(q) \in DOMAIN board
  BY <1>1, <1>2, <1>3, OnBoardFacts
<1>5. CASE board[c].data = NoMap
  BY <1>5 DEF NoMap, c
<1>6. CASE board[c].data # NoMap
  <2>1. HasPosted(q) /\ program[q] # "empty" /\ q \in Task
    BY <1>1, <1>3, <1>4, <1>6, OnBoardFacts DEF HasPosted
  <2>2. PostedData(q)
    BY <1>1, <2>1 DEF BoardInv
  <2> QED
    BY <1>3, <2>1, <2>2 DEF PostedData, c
<1> QED
  BY <1>5, <1>6

LEMMA SourceIsSequential ==
  ASSUME PwInv, NEW p \in Task, p > 0, Chan(p - 1) \in DOMAIN board, board[Chan(p - 1)].is_posted, Clean(p)
  PROVE  LET ch == board[Source(Chan(p - 1))]
         IN  "z" \in DOMAIN ch.data /\ ch.data["z"] = Sequential(p, 1)["z"]
<1> USE TaskFacts, PlaceFacts
<1>1. BoardInv /\ PwType
  BY DEF PwInv
<1>2. PICK o \in Task : o = p - 1
  OBVIOUS
<1> DEFINE list == board[Chan(o)].list
           c == Source(Chan(o))
<1>3. Chan(o) \in DOMAIN board /\ board[Chan(o)].is_posted /\ o \in Place
  BY <1>2
<1>4. PICK q \in Task : Chan(q) \in ToSet(list) /\ HasPosted(q)
  BY <1>1, <1>3, OnBoardFacts
<1>5. q \in Place /\ q <= o /\ \A i \in q + 1 .. o : program[i] = "skip"
  BY <1>1, <1>3, <1>4, PosterIsFirst
<1>6. q < p /\ \A i \in q + 1 .. p - 1 : program[i] = "skip"
  BY <1>2, <1>5
<1>7. program[q] \notin {"empty", "late"} /\ Clean(q)
  BY <1>6 DEF Clean, Spoiled, Before
<1>8. /\ DOMAIN board[Chan(q)].data = {"z"}
      /\ board[Chan(q)].data["z"] = SequentialAfter(q)["z"]
  BY <1>1, <1>4, <1>7 DEF BoardInv, PostedData
<1>9. board[Chan(q)].data # NoMap
  BY <1>8 DEF NoMap
<1>10. c \in ToSet(list) /\ board[c].data # NoMap
  BY <1>1, <1>3, <1>4, <1>9, SourceFacts
<1> HIDE DEF c
<1>11. PICK r \in Place : c = Chan(r)
  <2>1. \A d \in ToSet(list) : \E i \in Place : d = Chan(i)
    BY <1>1, <1>3, OnBoardFacts
  <2> QED
    BY <1>10, <2>1
<1>12. HasPosted(r)
  <2>1. Chan(r) \in DOMAIN board
    BY <1>1, <1>3, <1>10, <1>11, OnBoardFacts
  <2> QED
    BY <1>1, <1>10, <1>11, <2>1, OnBoardFacts
<1>13. r = q
  BY <1>1, <1>3, <1>4, <1>5, <1>10, <1>11, <1>12, OnePoster
<1>14. Sequential(p, 1)["z"] = SequentialAfter(q)["z"]
  BY <1>1, <1>6, SkippedBetween DEF PwType
<1>15. c = Source(Chan(p - 1))
  BY <1>2 DEF c
<1> QED
  BY <1>8, <1>11, <1>13, <1>14, <1>15

(* A task waits in region 1 for the channel of the task before; in region  *)
(* 11 the place it waits for has the id of region 1, and it aborts.        *)
LEMMA OrderedBeginKeeps ==
  ASSUME PwInv, NEW p \in Task, OrderedBegin(p)
  PROVE  PwInv'
<1> USE TaskFacts
<1> DEFINE kind == program[p]
           n == pos[p]
           r == Steps(kind)[n].region
           id == ChannelForRegion(r, p) - 1
           o == Chan(p - 1)
           ch == board[Source(o)]
           got == Receive(p, ch)
<1>1. /\ At(p, "begin") /\ in_ordered[p] = 0 /\ Advance(p) /\ program' = program
      /\ read_map' = read_map /\ write_map' = write_map /\ ordered_writes' = ordered_writes
      /\ local_ch' = local_ch /\ board' = board
      /\ write_union' = write_union /\ patches' = patches /\ received_n_used' = received_n_used
  BY DEF OrderedBegin
<1>2. /\ st[p] = "run" /\ Live(p) /\ kind \in AllKinds /\ n \in 1 .. Len(Steps(kind)) /\ n \in Int
      /\ Len(Steps(kind)) \in Nat /\ Step(p) = Steps(kind)[n] /\ Steps(kind)[n].op = "begin"
      /\ Private(p) /\ MemoryOf(p) /\ ReceivedBy(p)
  BY <1>1, StepFacts
<1>3. PwType /\ BoardInv /\ IsMem(mem[p]) /\ pos' \in [Task -> Int] /\ pos'[p] = n + 1
      /\ \A q \in Task : q # p => pos'[q] = pos[q]
  BY <1>1, AdvanceFacts DEF PwInv, PwType
<1>4. in_ordered' = [in_ordered EXCEPT ![p] = r]
  BY <1>2 DEF OrderedBegin
<1>5. \/ kind \in {"ordered", "late", "empty", "twice"} /\ n = 1 /\ r = 1
      \/ kind = "early" /\ n = 2 /\ r = 1
      \/ kind = "twice" /\ n = 6 /\ r = 11
  <2>1. ~(kind = "twice" /\ n = 2)
    BY <1>1, <1>2 DEF Private, InRegion
  <2> QED
    BY <1>2, <2>1, BeginSteps
<1>6. /\ InRegion(kind, n + 1) = r /\ OrderedWrites(kind, n + 1) = OrderedWrites(kind, n)
      /\ Reads(kind, n + 1) = Reads(kind, n) /\ Writes(kind, n + 1) = Writes(kind, n)
      /\ n # EndAt(kind)
  <2>1. InRegion(kind, n) = 0
    BY <1>1, <1>2 DEF Private
  <2> QED
    BY <1>2, <2>1, BeginTables
<1>7. BoardInv'
  <2>1. \A q \in Task : HasPosted(q)' = HasPosted(q)
    BY <1>1, <1>2, <1>3, <1>6, NotPosting
  <2> QED
    BY <1>1, <2>1, BoardKeeps DEF PwInv
<1>8. in_ordered'[p] = r /\ DOMAIN in_ordered' = Task /\ \A q \in Task : q # p => in_ordered'[q] = in_ordered[q]
  BY <1>3, <1>4 DEF PwType
<1>9. Private(p)' 
  <2>1. n + 1 \in 1 .. Len(Steps(kind)) + 1 /\ n <= 7
    BY <1>2, <1>5
  <2>2. st'[p] \in {"run", "dead"}
    BY <1>2, <1>3 DEF OrderedBegin, ChannelWait, Cut, Crash, PwType
  <2> QED
    BY <1>1, <1>2, <1>3, <1>6, <1>8, <2>1, <2>2 DEF Private, NoLocal, Ended
<1>10. Steps(kind)[n].op # "access" /\ pos'[p] # 1
  BY <1>2, <1>3
(* MAIN *)
<1>11. CASE p = 0
  <2>1. st' = st /\ mem' = mem /\ received' = received /\ partial_size' = partial_size
    BY <1>11 DEF OrderedBegin
  <2>2. PwType' /\ KeepsOthers(p)
    BY <1>1, <1>3, <1>8, <2>1 DEF PwType, KeepsOthers, IsMem
  <2>3. MemoryOf(p)'
    <3>1. Entered(p)' => Entered(p)
      BY <1>11 DEF Entered
    <3> QED
      BY <1>1, <1>2, <1>3, <1>6, <1>10, <1>11, <2>1, <3>1, PlainStepMemory
  <2>4. ReceivedBy(p)'
    BY <1>1, <1>2, <1>10, <2>1 DEF ReceivedBy, FromTask
  <2> QED
    BY <1>1, <1>2, <1>7, <1>9, <2>1, <2>2, <2>3, <2>4, RegionStep
(* The task dies. *)
<1>12. ASSUME st' \in [Task -> States], partial_size' \in Int, \A q \in Task : st'[q] \in {st[q], "dead"},
              st'[p] = "dead", mem' = mem, received' = received
       PROVE  PwInv'
  <2>1. PwType' /\ KeepsOthers(p)
    BY <1>1, <1>3, <1>8, <1>12 DEF PwType, KeepsOthers, IsMem
  <2>2. MemoryOf(p)'
    BY <1>12 DEF MemoryOf, Live
  <2>3. ReceivedBy(p)'
    BY <1>1, <1>2, <1>12, <1>10 DEF ReceivedBy, FromTask
  <2> QED
    BY <1>1, <1>2, <1>7, <1>9, <1>12, <2>1, <2>2, <2>3, RegionStep
(* A SPEC *)
<1>13. CASE p # 0
  <2>1. ChannelWait(p, id) /\ Slot(id) = o /\ (r = 1 => id = o) /\ (r = 11 => id # o) /\ p > 0 /\ p - 1 \in Place
    <3>1. ChannelWait(p, ChannelForRegion(Step(p).region, p) - 1)
      BY <1>13 DEF OrderedBegin
    <3>2. CASE r = 1
      BY <1>2, <1>13, <3>1, <3>2, SlotFacts
    <3>3. CASE r = 11
      BY <1>2, <1>13, <3>1, <3>3, SlotFacts
    <3> QED
      BY <1>5, <3>2, <3>3
  <2> HIDE DEF id, o
  <2>2. o \in DOMAIN board /\ board[o].is_posted /\ board[o].id = o
    <3>1. o \in DOMAIN board /\ board[o].is_posted
      BY <2>1 DEF ChannelWait
    <3> QED
      BY <1>3, <2>1, <3>1, OnBoardFacts DEF o
  <2>3. CASE board[o].id # id
    <3>1. Cut(p) /\ mem' = mem /\ received' = received
      BY <2>1, <2>3 DEF ChannelWait
    <3>2. st' \in [Task -> States] /\ partial_size' \in Int /\ st'[p] = "dead"
          /\ \A q \in Task : st'[q] \in {st[q], "dead"}
      BY <1>3, <3>1 DEF Cut, PwType, States
    <3> QED
      BY <1>12, <3>1, <3>2
  <2>4. CASE board[o].id = id /\ Chained(o) /\ ch.data = NoMap
    <3>1. Crash(p, "dead") /\ mem' = mem /\ received' = received
      BY <2>1, <2>4 DEF ChannelWait
    <3>2. st' \in [Task -> States] /\ partial_size' \in Int /\ st'[p] = "dead"
          /\ \A q \in Task : st'[q] \in {st[q], "dead"}
      BY <1>3, <3>1 DEF Crash, PwType, States
    <3> QED
      BY <1>12, <3>1, <3>2
  <2>5. CASE board[o].id = id /\ ~(Chained(o) /\ ch.data = NoMap)
    <3>1. /\ st' = st /\ partial_size' = partial_size
          /\ IF DOMAIN ch.data \cap (read_map[p] \cup write_map[p]) # {} THEN mem' = mem /\ received' = received
             ELSE /\ received' = [received EXCEPT ![p] = got]
                  /\ mem' = [mem EXCEPT ![p] =
                       [a \in Addr |-> IF a \in DOMAIN ch.data THEN got[a].val ELSE mem[p][a]]]
      BY <2>1, <2>5 DEF ChannelWait
    <3>2. r = 1 /\ ~(kind = "twice" /\ n = 6)
      BY <1>5, <2>1, <2>2, <2>5
    <3>3. /\ DOMAIN ch.data \subseteq {"z"}
          /\ "z" \in DOMAIN ch.data =>
               \E s \in Task : ch.sender = Index(s) /\ (program[s] = "late" => ch.data["z"].by = <<s, 2>>)
      BY <2>1, <2>2, SourceData DEF o
    <3>4. Clean(p) => "z" \in DOMAIN ch.data /\ ch.data["z"] = Sequential(p, 1)["z"]
      BY <2>1, <2>2, SourceIsSequential DEF o
    <3> HIDE DEF ch
    <3>5. /\ DOMAIN got \subseteq {"z"} \cup DOMAIN received[p]
          /\ \A a \in DOMAIN got :
               \/ got[a] = received[p][a] /\ a \in DOMAIN received[p]
               \/ got[a] = [task |-> ch.sender, val |-> ch.data[a]] /\ a \in DOMAIN ch.data
          /\ received[p] = NoMap =>
               /\ DOMAIN got = DOMAIN ch.data
               /\ \A a \in DOMAIN ch.data : got[a] = [task |-> ch.sender, val |-> ch.data[a]]
      BY <3>3 DEF Receive, Over, NoMap
    <3> HIDE DEF got
    <3>6. \A a \in DOMAIN got : a = "z" /\ FromTask(got[a])
      <4> TAKE a \in DOMAIN got
      <4>1. CASE got[a] = received[p][a] /\ a \in DOMAIN received[p]
        BY <1>2, <4>1 DEF ReceivedBy
      <4>2. CASE got[a] = [task |-> ch.sender, val |-> ch.data[a]] /\ a \in DOMAIN ch.data
        <5>1. a = "z" /\ got[a].task = ch.sender /\ got[a].val = ch.data[a]
          BY <3>3, <4>2
        <5> QED
          BY <3>3, <4>2, <5>1 DEF FromTask
      <4> QED
        BY <3>5, <4>1, <4>2
    <3>7. ReceivedBy(p)'
      <4>1. received'[p] = received[p] \/ received'[p] = got
        BY <1>3, <3>1 DEF PwType
      <4>2. \A a \in DOMAIN received'[p] : a = "z" /\ FromTask(received'[p][a])
        BY <1>2, <3>6, <4>1 DEF ReceivedBy
      <4> QED
        BY <1>1, <1>10, <4>2 DEF ReceivedBy, FromTask, Index
    <3>8. DOMAIN mem' = Task /\ IsMem(mem'[p]) /\ mem'[p]["y"] = mem[p]["y"]
          /\ DOMAIN received' = Task
          /\ \A q \in Task : q # p => mem'[q] = mem[q] /\ received'[q] = received[q]
      BY <1>3, <3>1, <3>3 DEF PwType, IsMem, Addr
    <3>9. PwType' /\ KeepsOthers(p)
      BY <1>1, <1>3, <1>8, <3>1, <3>8 DEF PwType, KeepsOthers, IsMem
    <3>10. MemoryOf(p)'
      <4>1. (Entered(p) /\ Clean(p) => mem[p]["z"] = Sequential(p, pos[p])["z"])'
        <5> SUFFICES ASSUME Entered(p)', Clean(p)' PROVE mem'[p]["z"] = (Sequential(p, pos[p])["z"])'
          OBVIOUS
        <5>1. kind \in {"ordered", "late", "empty", "twice"} /\ n = 1
          BY <1>1, <1>5, <1>13, <3>2 DEF Entered
        <5>2. read_map[p] = {} /\ write_map[p] = {} /\ received[p] = NoMap
          BY <1>2, <5>1, FirstTables DEF Private, ReceivedBy
        <5>3. Clean(p)
          BY <1>1 DEF Clean, Spoiled, Before
        <5>4. "z" \in DOMAIN ch.data /\ got["z"].val = Sequential(p, 1)["z"]
          <6>1. "z" \in DOMAIN ch.data /\ ch.data["z"] = Sequential(p, 1)["z"]
            BY <3>4, <5>3
          <6>2. got["z"] = [task |-> ch.sender, val |-> ch.data["z"]]
            BY <3>5, <5>2, <6>1
          <6> QED
            BY <6>1, <6>2
        <5>5. mem'[p]["z"] = Sequential(p, 1)["z"]
          BY <1>3, <3>1, <5>2, <5>4 DEF PwType, Addr
        <5>6. (Sequential(p, pos[p])["z"])' = Sequential(p, n + 1)["z"]
          BY <1>1, <1>3 DEF Sequential
        <5>7. Sequential(p, n + 1)["z"] = Sequential(p, n)["z"]
          BY <1>2, <1>3, SequentialStep DEF PwType, Addr
        <5> QED
          BY <5>1, <5>5, <5>6, <5>7
      <4>2. (program[p] = "late" /\ pos[p] = 3 => mem[p]["z"].by = <<p, 2>>)'
        BY <1>1, <1>2, <1>3, <1>5
      <4>3. (program[p] = "late" /\ pos[p] = 5 => mem[p]["z"].by = <<p, 4>>)'
        BY <1>1, <1>2, <1>3, <1>5
      <4>4. (mem[p]["y"] = IF "y" \in Reads(program[p], pos[p])
                           THEN Computed(p, YAt(program[p]), FirstMemory["y"]) ELSE FirstMemory["y"])'
        BY <1>1, <1>2, <1>3, <1>6, <3>8 DEF MemoryOf
      <4>5. (program[p] = "twice" /\ p # 0 => pos[p] <= 6)'
        BY <1>1, <1>2, <1>3, <1>5, <3>2
      <4> QED
        BY <4>1, <4>2, <4>3, <4>4, <4>5 DEF MemoryOf
    <3> QED
      BY <1>1, <1>2, <1>7, <1>9, <3>1, <3>7, <3>9, <3>10, RegionStep
  <2> QED
    BY <2>3, <2>4, <2>5
<1> QED
  BY <1>11, <1>13

(* What the operations on the switch board preserve. *)
LEMMA ChannelFields ==
  ASSUME NEW i, NEW d, NEW s, NEW f, NEW l, NEW ch,
         ch = [id |-> i, data |-> d, sender |-> s, is_posted |-> f, list |-> l]
  PROVE  ch.id = i /\ ch.data = d /\ ch.sender = s /\ ch.is_posted = f /\ ch.list = l
OBVIOUS

LEMMA GetChannelGood ==
  ASSUME NEW P, NEW bd, GoodBoard(bd, P), NEW p \in Place, Slot(Chan(p)) = Chan(p)
  PROVE  LET new == GetChannel(bd, Chan(p))
         IN  /\ GoodBoard(new, P)
             /\ DOMAIN new = DOMAIN bd \cup {Chan(p)}
             /\ \A i \in DOMAIN bd : new[i] = bd[i]
<1> USE PlaceFacts
<1> DEFINE c == Chan(p)
           new == GetChannel(bd, c)
<1>1. CASE c \in DOMAIN bd
  BY <1>1 DEF GetChannel
<1>2. CASE c \notin DOMAIN bd
  <2>1. new = Over([i \in {c} |-> NewChannel(c)], bd)
    BY <1>2 DEF GetChannel
  <2>2. DOMAIN new = DOMAIN bd \cup {c} /\ new[c] = NewChannel(c) /\ \A i \in DOMAIN bd : new[i] = bd[i]
    BY <1>2, <2>1 DEF Over
  <2> HIDE DEF new
  <2>3. NewChannel(c) = [id |-> c, data |-> NoMap, sender |-> 0, is_posted |-> FALSE, list |-> <<c>>]
    BY DEF NewChannel
  <2>4. <<c>> \in Seq(Int) /\ ToSet(<<c>>) = {c}
    <3> HIDE DEF c
    <3>1. c \in Int
      BY DEF c
    <3> QED
      BY <3>1 DEF ToSet
  <2>5. ASSUME NEW q \in Place PROVE OnBoardIn(new, P, q)
    <3>1. CASE q = p
      <4>1. /\ new[c] = [id |-> c, data |-> NoMap, sender |-> 0, is_posted |-> FALSE, list |-> <<c>>]
            /\ new[c].list = <<c>> /\ new[c].data = NoMap /\ new[c].is_posted = FALSE
            /\ new[c].id = c /\ new[c].sender = 0
        BY <2>2, <2>3
      <4>2. \A i \in Place : Chan(i) \in ToSet(<<c>>) => i = p
        BY <2>4
      <4>3. c \in ToSet(<<c>>) /\ ToSet(<<c>>) \subseteq DOMAIN new
            /\ \A i \in ToSet(<<c>>) : new[i].list = <<c>>
        BY <2>2, <2>4, <4>1
      <4>4. c = Chan(q)
        BY <3>1
      <4> HIDE DEF c
      <4>5. new[c] = [id |-> c, data |-> new[c].data, sender |-> new[c].sender,
                      is_posted |-> new[c].is_posted, list |-> new[c].list]
        BY <4>1
      <4>6. \A i \in Place : ~(Chan(i) \in ToSet(<<c>>) /\ i < q)
        BY <3>1, <4>2
      <4> QED
        BY <2>4, <4>1, <4>3, <4>4, <4>5, <4>6 DEF OnBoardIn
    <3>2. CASE q # p /\ Chan(q) \in DOMAIN bd
      <4>1. OnBoardIn(bd, P, q) /\ new[Chan(q)] = bd[Chan(q)]
        BY <2>2, <3>2 DEF GoodBoard
      <4> QED
        BY <2>2, <3>2, <4>1 DEF OnBoardIn
    <3>3. CASE q # p /\ Chan(q) \notin DOMAIN bd
      BY <2>2, <3>3 DEF OnBoardIn
    <3> QED
      BY <3>1, <3>2, <3>3
  <2>6. \A i \in DOMAIN new : \E q \in Place : i = Chan(q)
    BY <2>2 DEF GoodBoard
  <2> QED
    BY <2>2, <2>5, <2>6 DEF GoodBoard, new
<1> QED
  BY <1>1, <1>2

LEMMA ConcatSet ==
  ASSUME NEW s \in Seq(Int), NEW t \in Seq(Int)
  PROVE  s \o t \in Seq(Int) /\ ToSet(s \o t) = ToSet(s) \cup ToSet(t)
<1>1. /\ Len(s) \in Nat /\ Len(t) \in Nat /\ DOMAIN s = 1 .. Len(s) /\ DOMAIN t = 1 .. Len(t)
      /\ DOMAIN (s \o t) = 1 .. Len(s) + Len(t)
  OBVIOUS
<1>2. s \o t \in Seq(Int)
  OBVIOUS
<1>3. ASSUME NEW x \in ToSet(s \o t) PROVE x \in ToSet(s) \cup ToSet(t)
  <2>1. PICK i \in 1 .. Len(s) + Len(t) : x = (s \o t)[i]
    BY <1>1 DEF ToSet
  <2>2. CASE i <= Len(s)
    BY <1>1, <2>1, <2>2 DEF ToSet
  <2>3. CASE i > Len(s)
    <3>1. i - Len(s) \in 1 .. Len(t) /\ x = t[i - Len(s)]
      BY <1>1, <2>1, <2>3
    <3> QED
      BY <1>1, <3>1 DEF ToSet
  <2> QED
    BY <1>1, <2>2, <2>3
<1>4. ASSUME NEW x \in ToSet(s) PROVE x \in ToSet(s \o t)
  <2>1. PICK i \in 1 .. Len(s) : x = s[i]
    BY <1>1 DEF ToSet
  <2>2. i \in 1 .. Len(s) + Len(t) /\ x = (s \o t)[i]
    BY <1>1, <2>1
  <2> QED
    BY <1>1, <2>2 DEF ToSet
<1>5. ASSUME NEW x \in ToSet(t) PROVE x \in ToSet(s \o t)
  <2>1. PICK i \in 1 .. Len(t) : x = t[i]
    BY <1>1 DEF ToSet
  <2>2. PICK j \in 1 .. Len(s) + Len(t) : j = i + Len(s)
    BY <1>1
  <2>3. x = (s \o t)[j]
    BY <1>1, <2>1, <2>2
  <2> QED
    BY <1>1, <2>3 DEF ToSet
<1> QED
  BY <1>2, <1>3, <1>4, <1>5

(* The same channels with the same data. *)
SameData(new, old) ==
  /\ DOMAIN new = DOMAIN old
  /\ \A i \in DOMAIN old : new[i].data = old[i].data /\ new[i].sender = old[i].sender

(* Two chains that are joined at neighbouring tasks, the later of which    *)
(* skips the region.                                                       *)
LEMMA ConnectGood ==
  ASSUME NEW P, P \subseteq Task, NEW bd, GoodBoard(bd, P), NEW a \in Place, NEW b \in Place,
         Chan(a) \in DOMAIN bd, Chan(b) \in DOMAIN bd,
         (b = a + 1 /\ program[b] = "skip") \/ (a = b + 1 /\ program[a] = "skip"),
         NEW posted, posted => bd[Chan(a)].is_posted \/ bd[Chan(b)].is_posted
  PROVE  LET new == ConnectChain(bd, bd[Chan(a)].list, bd[Chan(b)].list, posted)
         IN  GoodBoard(new, P) /\ SameData(new, bd)
<1> USE PlaceFacts
<1> DEFINE head == bd[Chan(a)].list
           tail == bd[Chan(b)].list
           list == head \o tail
           places == {Last(head)} \cup ToSet(tail)
           new == ConnectChain(bd, head, tail, posted)
<1>1. ASSUME NEW q \in Place, Chan(q) \in DOMAIN bd
      PROVE  /\ bd[Chan(q)] = [id |-> Chan(q), data |-> bd[Chan(q)].data, sender |-> bd[Chan(q)].sender,
                               is_posted |-> bd[Chan(q)].is_posted, list |-> bd[Chan(q)].list]
             /\ bd[Chan(q)].list \in Seq(Int) /\ Chan(q) \in ToSet(bd[Chan(q)].list)
             /\ ToSet(bd[Chan(q)].list) \subseteq DOMAIN bd
             /\ \A c \in ToSet(bd[Chan(q)].list) : bd[c].list = bd[Chan(q)].list
             /\ \A i \in Place : Chan(i) \in ToSet(bd[Chan(q)].list) /\ i < q
                  => \A j \in i + 1 .. q : program[j] = "skip"
             /\ bd[Chan(q)].data # NoMap => q \in P /\ program[q] # "empty"
             /\ bd[Chan(q)].is_posted => \E i \in P : Chan(i) \in ToSet(bd[Chan(q)].list)
  BY <1>1 DEF GoodBoard, OnBoardIn
<1>2. list \in Seq(Int) /\ ToSet(list) = ToSet(head) \cup ToSet(tail)
  <2>1. head \in Seq(Int) /\ tail \in Seq(Int)
    BY <1>1
  <2> QED
    BY <2>1, ConcatSet
<1>3. /\ DOMAIN new = DOMAIN bd
      /\ \A i \in DOMAIN bd : new[i] = [bd[i] EXCEPT !.list = IF i \in ToSet(list) THEN list ELSE @,
                                                     !.is_posted = IF i \in places THEN posted ELSE @]
  BY DEF ConnectChain, SetChain
<1> HIDE DEF new, places, list
<1>4. ASSUME NEW q \in Place, Chan(q) \in DOMAIN bd
      PROVE  LET ch == bd[Chan(q)]
             IN  new[Chan(q)] = [id |-> Chan(q), data |-> ch.data, sender |-> ch.sender,
                                 is_posted |-> IF Chan(q) \in places THEN posted ELSE ch.is_posted,
                                 list |-> IF Chan(q) \in ToSet(list) THEN list ELSE ch.list]
  <2> DEFINE ch == bd[Chan(q)]
             f == IF Chan(q) \in places THEN posted ELSE ch.is_posted
             l == IF Chan(q) \in ToSet(list) THEN list ELSE ch.list
  <2>1. ch = [id |-> Chan(q), data |-> ch.data, sender |-> ch.sender,
              is_posted |-> ch.is_posted, list |-> ch.list]
    BY <1>1, <1>4
  <2>2. new[Chan(q)] = [ch EXCEPT !.list = l, !.is_posted = f]
    BY <1>3, <1>4
  <2> HIDE DEF ch, f, l
  <2>3. new[Chan(q)] = [id |-> Chan(q), data |-> ch.data, sender |-> ch.sender, is_posted |-> f, list |-> l]
    <3> DEFINE x == [ch EXCEPT !.list = l]
    <3>1. x = [id |-> Chan(q), data |-> ch.data, sender |-> ch.sender, is_posted |-> ch.is_posted, list |-> l]
      BY <2>1
    <3>2. new[Chan(q)] = [x EXCEPT !.is_posted = f]
      BY <2>2
    <3> HIDE DEF x
    <3> QED
      BY <3>1, <3>2
  <2> QED
    BY <2>3 DEF ch, f, l
<1>5. ASSUME NEW q \in Place, Chan(q) \in DOMAIN bd
      PROVE  /\ new[Chan(q)].data = bd[Chan(q)].data /\ new[Chan(q)].sender = bd[Chan(q)].sender
             /\ new[Chan(q)].id = Chan(q)
             /\ new[Chan(q)].is_posted = IF Chan(q) \in places THEN posted ELSE bd[Chan(q)].is_posted
             /\ new[Chan(q)].list = IF Chan(q) \in ToSet(list) THEN list ELSE bd[Chan(q)].list
             /\ new[Chan(q)] = [id |-> Chan(q), data |-> new[Chan(q)].data, sender |-> new[Chan(q)].sender,
                                is_posted |-> new[Chan(q)].is_posted, list |-> new[Chan(q)].list]
  <2> DEFINE ch == bd[Chan(q)]
             f == IF Chan(q) \in places THEN posted ELSE ch.is_posted
             l == IF Chan(q) \in ToSet(list) THEN list ELSE ch.list
  <2>1. new[Chan(q)] = [id |-> Chan(q), data |-> ch.data, sender |-> ch.sender, is_posted |-> f, list |-> l]
    BY <1>4, <1>5
  <2> HIDE DEF ch, f, l
  <2>2. /\ new[Chan(q)].data = ch.data /\ new[Chan(q)].sender = ch.sender /\ new[Chan(q)].id = Chan(q)
        /\ new[Chan(q)].is_posted = f /\ new[Chan(q)].list = l
    BY <2>1, ChannelFields
  <2>3. new[Chan(q)] = [id |-> Chan(q), data |-> new[Chan(q)].data, sender |-> new[Chan(q)].sender,
                        is_posted |-> new[Chan(q)].is_posted, list |-> new[Chan(q)].list]
    BY <2>1, <2>2
  <2> QED
    BY <2>2, <2>3 DEF ch, f, l
<1>6. \A c \in DOMAIN bd : \E q \in Place : c = Chan(q)
  BY DEF GoodBoard
<1>7. ToSet(head) \subseteq DOMAIN bd /\ ToSet(tail) \subseteq DOMAIN bd
      /\ (\A c \in ToSet(head) : bd[c].list = head) /\ (\A c \in ToSet(tail) : bd[c].list = tail)
      /\ Chan(a) \in ToSet(head) /\ Chan(b) \in ToSet(tail)
  BY <1>1
<1>8. ASSUME NEW i \in Place, NEW q \in Place, i < q, Chan(i) \in ToSet(list), Chan(q) \in ToSet(list),
             NEW j \in i + 1 .. q
      PROVE  program[j] = "skip"
  <2> DEFINE near(x, y) == y < x => \A k \in y + 1 .. x : program[k] = "skip"
  <2>1. ASSUME NEW x \in Place, NEW y \in Place, Chan(x) \in DOMAIN bd, Chan(y) \in ToSet(bd[Chan(x)].list)
        PROVE  near(x, y)
    BY <1>1, <2>1
  <2>2. ASSUME NEW x \in Place, NEW y \in Place,
               \/ Chan(x) \in ToSet(head) /\ Chan(y) \in ToSet(head)
               \/ Chan(x) \in ToSet(tail) /\ Chan(y) \in ToSet(tail)
        PROVE  near(x, y) /\ near(y, x)
    <3>1. Chan(x) \in DOMAIN bd /\ Chan(y) \in ToSet(bd[Chan(x)].list)
      BY <1>7, <2>2
    <3>2. Chan(y) \in DOMAIN bd /\ Chan(x) \in ToSet(bd[Chan(y)].list)
      BY <1>7, <2>2
    <3> QED
      BY <2>1, <3>1, <3>2
  <2>3. CASE \/ Chan(i) \in ToSet(head) /\ Chan(q) \in ToSet(head)
             \/ Chan(i) \in ToSet(tail) /\ Chan(q) \in ToSet(tail)
    BY <1>8, <2>2, <2>3
  <2>4. CASE Chan(i) \in ToSet(head) /\ Chan(q) \in ToSet(tail)
    <3>1. near(a, i) /\ near(i, a) /\ near(b, q) /\ near(q, b)
      BY <1>7, <2>2, <2>4
    <3> QED
      BY <1>8, <3>1
  <2>5. CASE Chan(i) \in ToSet(tail) /\ Chan(q) \in ToSet(head)
    <3>1. near(b, i) /\ near(i, b) /\ near(a, q) /\ near(q, a)
      BY <1>7, <2>2, <2>5
    <3> QED
      BY <1>8, <3>1
  <2> QED
    BY <1>2, <1>8, <2>3, <2>4, <2>5
<1>9. posted => \E i \in P : Chan(i) \in ToSet(list)
  BY <1>1, <1>2
<1>10. Last(head) \in ToSet(head)
  <2>1. head \in Seq(Int) /\ Chan(a) \in ToSet(head)
    BY <1>1
  <2>2. Len(head) \in Nat /\ DOMAIN head = 1 .. Len(head)
    BY <2>1
  <2>3. Len(head) \in DOMAIN head
    BY <2>1, <2>2 DEF ToSet
  <2> QED
    BY <2>3 DEF Last, ToSet
<1>11. ASSUME NEW q \in Place, Chan(q) \in DOMAIN bd PROVE OnBoardIn(new, P, q)
  <2> DEFINE c == Chan(q)
  <2>1. CASE c \in ToSet(list)
    <3>1. new[c].list = list
      BY <1>5, <1>11, <2>1
    <3>2. ToSet(list) \subseteq DOMAIN new /\ \A d \in ToSet(list) : new[d].list = list
      <4>1. ToSet(list) \subseteq DOMAIN bd
        BY <1>2, <1>7
      <4>2. ASSUME NEW d \in ToSet(list) PROVE new[d].list = list
        <5>1. PICK i \in Place : d = Chan(i)
          BY <1>6, <4>1
        <5>2. Chan(i) \in DOMAIN bd /\ Chan(i) \in ToSet(list)
          BY <4>1, <5>1
        <5>3. new[Chan(i)].list = list
          BY <1>5, <5>2
        <5> QED
          BY <5>1, <5>3
      <4> QED
        BY <1>3, <4>1, <4>2
    <3>3. new[c].is_posted => \E i \in P : Chan(i) \in ToSet(list)
      <4>1. CASE c \in places
        BY <1>5, <1>9, <1>11, <4>1
      <4>2. CASE c \notin places
        <5>1. new[c].is_posted = bd[c].is_posted /\ (bd[c].list = head \/ bd[c].list = tail)
          BY <1>2, <1>5, <1>7, <1>11, <2>1, <4>2
        <5> QED
          BY <1>1, <1>2, <1>11, <5>1
      <4> QED
        BY <4>1, <4>2
    <3>4. new[c].data # NoMap => q \in P /\ program[q] # "empty"
      BY <1>1, <1>5, <1>11
    <3>5. \A i \in Place : Chan(i) \in ToSet(list) /\ i < q => \A j \in i + 1 .. q : program[j] = "skip"
      BY <1>8, <2>1
    <3> QED
      BY <1>2, <1>5, <1>11, <2>1, <3>1, <3>2, <3>3, <3>4, <3>5 DEF OnBoardIn
  <2>2. CASE c \notin ToSet(list)
    <3>1. new[c].list = bd[c].list /\ c \notin places
      BY <1>2, <1>5, <1>10, <1>11, <2>2 DEF places
    <3>2. new[c].is_posted = bd[c].is_posted /\ new[c].data = bd[c].data
      BY <1>5, <1>11, <3>1
    <3>3. ASSUME NEW d \in ToSet(bd[c].list) PROVE d \in DOMAIN bd /\ d \notin ToSet(list)
      <4>1. d \in DOMAIN bd /\ bd[d].list = bd[c].list /\ c \in ToSet(bd[c].list)
        BY <1>1, <1>11
      <4> QED
        BY <1>2, <1>7, <2>2, <4>1
    <3>4. \A d \in ToSet(bd[c].list) : d \in DOMAIN new /\ new[d].list = bd[c].list
      <4> TAKE d \in ToSet(bd[c].list)
      <4>1. d \in DOMAIN bd /\ bd[d].list = bd[c].list /\ d \notin ToSet(list)
        BY <1>1, <1>11, <3>3
      <4>2. PICK i \in Place : d = Chan(i)
        BY <1>6, <4>1
      <4>3. new[Chan(i)].list = bd[Chan(i)].list
        BY <1>5, <4>1, <4>2
      <4> QED
        BY <1>3, <4>1, <4>2, <4>3
    <3>5. /\ bd[c].list \in Seq(Int) /\ c \in ToSet(bd[c].list)
          /\ \A i \in Place : Chan(i) \in ToSet(bd[c].list) /\ i < q => \A j \in i + 1 .. q : program[j] = "skip"
          /\ bd[c].data # NoMap => q \in P /\ program[q] # "empty"
          /\ bd[c].is_posted => \E i \in P : Chan(i) \in ToSet(bd[c].list)
      BY <1>1, <1>11
    <3> QED
      BY <1>5, <1>11, <3>1, <3>2, <3>4, <3>5 DEF OnBoardIn
  <2> QED
    BY <2>1, <2>2
<1>12. GoodBoard(new, P)
  BY <1>3, <1>6, <1>11 DEF GoodBoard, OnBoardIn
<1>13. ASSUME NEW i \in DOMAIN bd PROVE new[i].data = bd[i].data /\ new[i].sender = bd[i].sender
  <2>1. PICK q \in Place : i = Chan(q)
    BY <1>6
  <2>2. Chan(q) \in DOMAIN bd
    BY <2>1
  <2>3. new[Chan(q)].data = bd[Chan(q)].data /\ new[Chan(q)].sender = bd[Chan(q)].sender
    BY <1>5, <2>2
  <2> QED
    BY <2>1, <2>3
<1>14. SameData(new, bd)
  BY <1>3, <1>13 DEF SameData
<1> QED
  BY <1>12, <1>14 DEF new

(* A post to the channel of task p. *)
(* The board bd after task p has posted data. *)
WithPost(bd, p, data) ==
  SetChain([bd EXCEPT ![Chan(p)].data = data, ![Chan(p)].sender = Index(p)],
           bd[Chan(p)].list, ToSet(bd[Chan(p)].list), TRUE)

LEMMA PostGood ==
  ASSUME NEW P, P \subseteq Task, NEW bd, GoodBoard(bd, P), NEW p \in Task, Chan(p) \in DOMAIN bd,
         NEW data, program[p] = "empty" => data = NoMap
  PROVE  LET c == Chan(p)
             new == WithPost(bd, p, data)
         IN  /\ GoodBoard(new, P \cup {p})
             /\ DOMAIN new = DOMAIN bd
             /\ new[c].data = data /\ new[c].sender = Index(p)
             /\ \A i \in DOMAIN bd : i # c => new[i].data = bd[i].data /\ new[i].sender = bd[i].sender
<1> USE PlaceFacts
<1> DEFINE c == Chan(p)
           list == bd[c].list
           part == [bd EXCEPT ![c].data = data]
           filled == [bd EXCEPT ![c].data = data, ![c].sender = Index(p)]
           new == SetChain(filled, list, ToSet(list), TRUE)
<1>1. ASSUME NEW q \in Place, Chan(q) \in DOMAIN bd
      PROVE  /\ bd[Chan(q)] = [id |-> Chan(q), data |-> bd[Chan(q)].data, sender |-> bd[Chan(q)].sender,
                               is_posted |-> bd[Chan(q)].is_posted, list |-> bd[Chan(q)].list]
             /\ bd[Chan(q)].list \in Seq(Int) /\ Chan(q) \in ToSet(bd[Chan(q)].list)
             /\ ToSet(bd[Chan(q)].list) \subseteq DOMAIN bd
             /\ \A d \in ToSet(bd[Chan(q)].list) : bd[d].list = bd[Chan(q)].list
             /\ \A i \in Place : Chan(i) \in ToSet(bd[Chan(q)].list) /\ i < q
                  => \A j \in i + 1 .. q : program[j] = "skip"
             /\ bd[Chan(q)].data # NoMap => q \in P /\ program[q] # "empty"
             /\ bd[Chan(q)].is_posted => \E i \in P : Chan(i) \in ToSet(bd[Chan(q)].list)
  BY <1>1 DEF GoodBoard, OnBoardIn
<1>2. /\ DOMAIN part = DOMAIN bd /\ \A i \in DOMAIN bd : i # c => part[i] = bd[i]
      /\ part[c] = [bd[c] EXCEPT !.data = data]
  OBVIOUS
<1>3. filled = [part EXCEPT ![c].sender = Index(p)]
  OBVIOUS
<1> HIDE DEF part
<1>4. /\ DOMAIN filled = DOMAIN bd /\ \A i \in DOMAIN bd : i # c => filled[i] = bd[i]
      /\ filled[c] = [part[c] EXCEPT !.sender = Index(p)]
  <2> HIDE DEF filled
  <2> QED
    BY <1>2, <1>3
<1>5. filled[c] = [id |-> c, data |-> data, sender |-> Index(p), is_posted |-> bd[c].is_posted, list |-> list]
  <2>1. bd[c] = [id |-> c, data |-> bd[c].data, sender |-> bd[c].sender,
                 is_posted |-> bd[c].is_posted, list |-> list]
    BY <1>1
  <2> DEFINE x == bd[c]
             y == part[c]
             f == x.is_posted
             l == x.list
  <2>2. y = [x EXCEPT !.data = data]
    BY <1>2
  <2>3. x = [id |-> c, data |-> x.data, sender |-> x.sender, is_posted |-> f, list |-> l]
    BY <2>1
  <2> HIDE DEF x, y, f, l, filled, c
  <2>4. y = [id |-> c, data |-> data, sender |-> x.sender, is_posted |-> f, list |-> l]
    BY <2>2, <2>3
  <2>5. filled[c] = [y EXCEPT !.sender = Index(p)]
    BY <1>4 DEF y
  <2>6. filled[c] = [id |-> c, data |-> data, sender |-> Index(p), is_posted |-> f, list |-> l]
    BY <2>4, <2>5
  <2> QED
    BY <2>6 DEF f, l, x
<1> HIDE DEF filled
<1>6. /\ DOMAIN new = DOMAIN bd
      /\ \A i \in DOMAIN bd : new[i] = [filled[i] EXCEPT !.list = IF i \in ToSet(list) THEN list ELSE @,
                                                         !.is_posted = IF i \in ToSet(list) THEN TRUE ELSE @]
  BY <1>4 DEF SetChain
<1> HIDE DEF new
<1>7. ASSUME NEW q \in Place, Chan(q) \in DOMAIN bd
      PROVE  /\ new[Chan(q)].data = IF q = p THEN data ELSE bd[Chan(q)].data
             /\ new[Chan(q)].sender = IF q = p THEN Index(p) ELSE bd[Chan(q)].sender
             /\ new[Chan(q)].id = Chan(q) /\ new[Chan(q)].list = bd[Chan(q)].list
             /\ Chan(q) \notin ToSet(list) => new[Chan(q)].is_posted = bd[Chan(q)].is_posted
             /\ new[Chan(q)] = [id |-> Chan(q), data |-> new[Chan(q)].data, sender |-> new[Chan(q)].sender,
                                is_posted |-> new[Chan(q)].is_posted, list |-> new[Chan(q)].list]
  <2> DEFINE k == Chan(q)
             d == IF q = p THEN data ELSE bd[k].data
             s == IF q = p THEN Index(p) ELSE bd[k].sender
             f0 == bd[k].is_posted
             f == IF k \in ToSet(list) THEN TRUE ELSE f0
             l == bd[k].list
             y == filled[k]
             x == [y EXCEPT !.list = l]
  <2>1. y = [id |-> k, data |-> d, sender |-> s, is_posted |-> f0, list |-> l]
    <3>1. CASE q = p
      BY <1>5, <3>1
    <3>2. CASE q # p
      <4>1. filled[k] = bd[k]
        BY <1>4, <1>7, <3>2
      <4> QED
        BY <1>1, <1>7, <3>2, <4>1
    <3> QED
      BY <3>1, <3>2
  <2>2. l = IF k \in ToSet(list) THEN list ELSE filled[k].list
    <3>1. filled[k].list = l
      <4> HIDE DEF d, s, f0, l
      <4> QED
        BY <2>1, ChannelFields
    <3>2. k \in ToSet(list) => l = list
      BY <1>1
    <3> QED
      BY <3>1, <3>2
  <2>3. y.is_posted = f0
    <3> HIDE DEF d, s, f0, l, y
    <3> QED
      BY <2>1, ChannelFields
  <2>4. new[k] = [filled[k] EXCEPT !.list = IF k \in ToSet(list) THEN list ELSE filled[k].list,
                                   !.is_posted = IF k \in ToSet(list) THEN TRUE ELSE filled[k].is_posted]
    BY <1>6, <1>7
  <2>5. new[k] = [x EXCEPT !.is_posted = f]
    <3>1. f = IF k \in ToSet(list) THEN TRUE ELSE y.is_posted
      BY <2>3
    <3> HIDE DEF l, f
    <3> QED
      BY <2>2, <2>4, <3>1, Zenon DEF x, y
  <2> HIDE DEF d, s, f0, f, l, y, x
  <2>6. x = [id |-> k, data |-> d, sender |-> s, is_posted |-> f0, list |-> l]
    BY <2>1 DEF x
  <2>7. new[k] = [id |-> k, data |-> d, sender |-> s, is_posted |-> f, list |-> l]
    BY <2>5, <2>6
  <2>8. new[k].id = k /\ new[k].data = d /\ new[k].sender = s /\ new[k].is_posted = f /\ new[k].list = l
    BY <2>7, ChannelFields
  <2>9. new[k] = [id |-> k, data |-> new[k].data, sender |-> new[k].sender,
                  is_posted |-> new[k].is_posted, list |-> new[k].list]
    BY <2>7, <2>8
  <2> QED
    BY <2>8, <2>9 DEF d, s, l, f, f0
<1>8. \A i \in DOMAIN bd : \E q \in Place : i = Chan(q)
  BY DEF GoodBoard
<1>9. \A i \in DOMAIN bd : new[i].list = bd[i].list
  <2> TAKE i \in DOMAIN bd
  <2>1. PICK q \in Place : i = Chan(q)
    BY <1>8
  <2>2. new[Chan(q)].list = bd[Chan(q)].list
    BY <1>7, <2>1
  <2> QED
    BY <2>1, <2>2
<1>10. ASSUME NEW q \in Place, Chan(q) \in DOMAIN bd PROVE OnBoardIn(new, P \cup {p}, q)
  <2> DEFINE k == Chan(q)
  <2>1. new[k].list = bd[k].list
    BY <1>7, <1>10
  <2>2. new[k].data # NoMap => q \in P \cup {p} /\ program[q] # "empty"
    BY <1>1, <1>7, <1>10
  <2>3. new[k].is_posted => \E i \in P \cup {p} : Chan(i) \in ToSet(bd[k].list)
    <3>1. CASE k \in ToSet(list)
      BY <1>1, <3>1
    <3>2. CASE k \notin ToSet(list)
      BY <1>1, <1>7, <1>10, <3>2
    <3> QED
      BY <3>1, <3>2
  <2>4. ToSet(bd[k].list) \subseteq DOMAIN new /\ \A d \in ToSet(bd[k].list) : new[d].list = bd[k].list
    BY <1>1, <1>6, <1>9, <1>10
  <2>5. /\ bd[k].list \in Seq(Int) /\ k \in ToSet(bd[k].list)
        /\ \A i \in Place : Chan(i) \in ToSet(bd[k].list) /\ i < q => \A j \in i + 1 .. q : program[j] = "skip"
    BY <1>1, <1>10
  <2> QED
    BY <1>7, <1>10, <2>1, <2>2, <2>3, <2>4, <2>5 DEF OnBoardIn
<1>11. GoodBoard(new, P \cup {p})
  BY <1>6, <1>8, <1>10 DEF GoodBoard, OnBoardIn
<1>12. new[c].data = data /\ new[c].sender = Index(p)
  BY <1>7
<1>13. ASSUME NEW i \in DOMAIN bd, i # c PROVE new[i].data = bd[i].data /\ new[i].sender = bd[i].sender
  <2>1. PICK q \in Place : i = Chan(q)
    BY <1>8
  <2>2. Chan(q) \in DOMAIN bd /\ q # p
    BY <1>13, <2>1
  <2>3. new[Chan(q)].data = bd[Chan(q)].data /\ new[Chan(q)].sender = bd[Chan(q)].sender
    BY <1>7, <2>2
  <2> QED
    BY <2>1, <2>3
<1>14. WithPost(bd, p, data) = new
  BY Zenon DEF WithPost, new, filled, list, c
<1> QED
  BY <1>6, <1>11, <1>12, <1>13, <1>14 DEF c

LEMMA BoardReplaced ==
  ASSUME NEW B, NEW Q, board' = B, Posters' = Q, program' = program, GoodBoard(B, Q)
  PROVE  GoodBoard(board, Posters)'
BY DEF GoodBoard, OnBoardIn

LEMMA PostedKeeps ==
  ASSUME BoardInv, NEW q \in Task, program' = program, HasPosted(q)' = HasPosted(q),
         HasPosted(q) => /\ Chan(q) \in DOMAIN board'
                         /\ board'[Chan(q)].data = board[Chan(q)].data
                         /\ board'[Chan(q)].sender = board[Chan(q)].sender
  PROVE  PostedData(q)'
<1>1. PostedData(q)
  BY DEF BoardInv
<1>2. Clean(q)' = Clean(q) /\ SequentialAfter(q)' = SequentialAfter(q) /\ (program[q])' = program[q]
  BY DEF Clean, Spoiled, Before, SequentialAfter, Sequential
<1> QED
  BY <1>1, <1>2 DEF PostedData, Index

LEMMA FreeFacts ==
  ASSUME BoardInv, NEW p \in Place, Slot(Chan(p)) = Chan(p)
  PROVE  Free(Chan(p))
BY OnBoardFacts DEF Free

(* A channel is on the chain that it names, and all of the chain names it. *)
Chains(bd) ==
  \A i \in DOMAIN bd :
    /\ bd[i].list \in Seq(Int) /\ i \in ToSet(bd[i].list) /\ ToSet(bd[i].list) \subseteq DOMAIN bd
    /\ \A d \in ToSet(bd[i].list) : bd[d].list = bd[i].list
    /\ bd[i] = [id |-> bd[i].id, data |-> bd[i].data, sender |-> bd[i].sender,
                is_posted |-> bd[i].is_posted, list |-> bd[i].list]
Alike(bd) == \A i \in DOMAIN bd : \A d \in ToSet(bd[i].list) : bd[d].is_posted = bd[i].is_posted

LEMMA GoodChains ==
  ASSUME NEW P, NEW bd, GoodBoard(bd, P)
  PROVE  Chains(bd)
<1> SUFFICES ASSUME NEW i \in DOMAIN bd
             PROVE  /\ bd[i].list \in Seq(Int) /\ i \in ToSet(bd[i].list)
                    /\ ToSet(bd[i].list) \subseteq DOMAIN bd
                    /\ \A d \in ToSet(bd[i].list) : bd[d].list = bd[i].list
                    /\ bd[i] = [id |-> bd[i].id, data |-> bd[i].data, sender |-> bd[i].sender,
                                is_posted |-> bd[i].is_posted, list |-> bd[i].list]
  BY DEF Chains
<1>1. PICK p \in Place : i = Chan(p)
  BY DEF GoodBoard
<1>2. OnBoardIn(bd, P, p)
  BY DEF GoodBoard
<1>3. /\ bd[i] = [id |-> i, data |-> bd[i].data, sender |-> bd[i].sender,
                  is_posted |-> bd[i].is_posted, list |-> bd[i].list]
      /\ bd[i].list \in Seq(Int) /\ i \in ToSet(bd[i].list) /\ ToSet(bd[i].list) \subseteq DOMAIN bd
      /\ \A d \in ToSet(bd[i].list) : bd[d].list = bd[i].list
  BY <1>1, <1>2 DEF OnBoardIn
<1>4. bd[i].id = i
  BY <1>3, ChannelFields
<1> QED
  BY <1>3, <1>4

(* A new channel is on no chain. *)
LEMMA NewIsAlike ==
  ASSUME NEW bd, NEW new, NEW c, Chains(bd), Chains(new), Alike(bd),
         DOMAIN new = DOMAIN bd \cup {c}, \A i \in DOMAIN bd : new[i] = bd[i]
  PROVE  Alike(new)
<1> SUFFICES ASSUME NEW i \in DOMAIN new, NEW d \in ToSet(new[i].list)
             PROVE  new[d].is_posted = new[i].is_posted
  BY DEF Alike
<1>1. d \in DOMAIN new /\ new[d].list = new[i].list /\ i \in ToSet(new[d].list)
  BY DEF Chains
<1>2. CASE i \in DOMAIN bd
  <2>1. d \in ToSet(bd[i].list)
    BY <1>2
  <2>2. d \in DOMAIN bd /\ bd[d].is_posted = bd[i].is_posted
    BY <1>2, <2>1 DEF Chains, Alike
  <2> QED
    BY <1>2, <2>2
<1>3. CASE i \notin DOMAIN bd /\ d \in DOMAIN bd
  <2>1. i \in ToSet(bd[d].list)
    BY <1>1, <1>3
  <2>2. i \in DOMAIN bd
    BY <1>3, <2>1 DEF Chains
  <2> QED
    BY <1>3, <2>2
<1>4. CASE i \notin DOMAIN bd /\ d \notin DOMAIN bd
  <2>1. i = d
    BY <1>1, <1>4
  <2> QED
    BY <2>1
<1> QED
  BY <1>2, <1>3, <1>4

(* A skip joins the chains of the task's channel and of the one before,    *)
(* after both have been put on the board.                                  *)
LEMMA SkipBoard ==
  ASSUME PwInv, NEW p \in Task, OrderedSkip(p)
  PROVE  \E bd, f :
           /\ GoodBoard(bd, Posters) /\ DOMAIN bd = DOMAIN board \cup {Chan(p - 1), Chan(p)}
           /\ \A i \in DOMAIN board : bd[i] = board[i]
           /\ Alike(board) => Alike(bd)
           /\ f = (bd[Chan(p - 1)].is_posted \/ bd[Chan(p)].is_posted)
           /\ \/ board' = ConnectChain(bd, bd[Chan(p)].list, bd[Chan(p - 1)].list, f)
              \/ board' = ConnectChain(bd, bd[Chan(p - 1)].list, bd[Chan(p)].list, f)
<1> DEFINE o == Chan(p - 1)
           c == Chan(p)
           mid == GetChannel(board, o)
           bd == GetChannel(mid, c)
           posted == bd[o].is_posted \/ bd[c].is_posted
<1>1. BoardInv /\ Step(p).region = 1
  <2>1. /\ program[p] \in AllKinds /\ pos[p] \in 1 .. Len(Steps(program[p]))
        /\ Step(p) = Steps(program[p])[pos[p]] /\ Steps(program[p])[pos[p]].op = "skip"
    BY StepFacts DEF OrderedSkip
  <2> QED
    BY <2>1, SkipSteps DEF PwInv
<1>2. /\ p \in Place /\ p - 1 \in Place /\ Slot(o) = o /\ Slot(c) = c /\ p = (p - 1) + 1
      /\ ChannelForRegion(1, p) = c /\ c - 1 = o
  BY SlotFacts, TaskFacts
<1>3. board' = ChannelChain(o, c)
  BY <1>1, <1>2 DEF OrderedSkip
<1> HIDE DEF o, c
<1>4. PICK x \in Place : x = p - 1 /\ o = Chan(x) /\ p = x + 1
  BY <1>2 DEF o
<1>5. Free(o) /\ Free(c)
  BY <1>1, <1>2, <1>4, FreeFacts DEF c
<1>6. board' = IF Len(bd[o].list) = 1 /\ Len(bd[c].list) > 1
               THEN ConnectChain(bd, bd[c].list, bd[o].list, posted)
               ELSE ConnectChain(bd, bd[o].list, bd[c].list, posted)
  BY <1>2, <1>3, <1>5 DEF ChannelChain
<1>7. GoodBoard(board, Posters)
  BY <1>1 DEF BoardInv
<1>8. GoodBoard(mid, Posters) /\ DOMAIN mid = DOMAIN board \cup {o} /\ \A i \in DOMAIN board : mid[i] = board[i]
  <2> DEFINE y == GetChannel(board, Chan(x))
  <2>1. Slot(Chan(x)) = Chan(x)
    BY <1>2, <1>4
  <2>2. GoodBoard(y, Posters) /\ DOMAIN y = DOMAIN board \cup {Chan(x)} /\ \A i \in DOMAIN board : y[i] = board[i]
    BY <1>7, <2>1, GetChannelGood
  <2> QED
    BY <1>4, <2>2
<1> HIDE DEF mid
<1>9. GoodBoard(bd, Posters) /\ DOMAIN bd = DOMAIN mid \cup {c} /\ \A i \in DOMAIN mid : bd[i] = mid[i]
  <2> DEFINE y == GetChannel(mid, Chan(p))
  <2>1. Slot(Chan(p)) = Chan(p) /\ p \in Place /\ GoodBoard(mid, Posters)
    BY <1>2, <1>8 DEF c
  <2>2. GoodBoard(y, Posters) /\ DOMAIN y = DOMAIN mid \cup {Chan(p)} /\ \A i \in DOMAIN mid : y[i] = mid[i]
    BY <2>1, GetChannelGood
  <2> QED
    BY <2>2 DEF c
<1> HIDE DEF bd
<1>10. Alike(board) => Alike(bd)
  <2>1. Chains(board) /\ Chains(mid) /\ Chains(bd)
    BY <1>7, <1>8, <1>9, GoodChains
  <2>2. Alike(board) => Alike(mid)
    BY <1>8, <2>1, NewIsAlike
  <2>3. Alike(mid) => Alike(bd)
    BY <1>9, <2>1, NewIsAlike
  <2> QED
    BY <2>2, <2>3
<1>11. DOMAIN bd = DOMAIN board \cup {o, c} /\ \A i \in DOMAIN board : bd[i] = board[i]
  BY <1>8, <1>9
<1>12. \/ board' = ConnectChain(bd, bd[c].list, bd[o].list, posted)
       \/ board' = ConnectChain(bd, bd[o].list, bd[c].list, posted)
  BY <1>6
<1> QED
  BY <1>9, <1>10, <1>11, <1>12 DEF o, c

LEMMA OrderedSkipKeeps ==
  ASSUME PwInv, NEW p \in Task, OrderedSkip(p)
  PROVE  PwInv'
<1> DEFINE n == pos[p]
<1>1. /\ At(p, "skip") /\ Advance(p) /\ program' = program /\ st' = st /\ mem' = mem
      /\ read_map' = read_map /\ write_map' = write_map /\ ordered_writes' = ordered_writes
      /\ in_ordered' = in_ordered /\ local_ch' = local_ch /\ received' = received
      /\ write_union' = write_union /\ patches' = patches /\ received_n_used' = received_n_used
      /\ partial_size' = partial_size
  BY DEF OrderedSkip, private, merge
<1>2. /\ st[p] = "run" /\ Live(p) /\ program[p] \in AllKinds /\ n \in 1 .. Len(Steps(program[p])) /\ n \in Int
      /\ Len(Steps(program[p])) \in Nat /\ Step(p) = Steps(program[p])[n] /\ Steps(program[p])[n].op = "skip"
      /\ Private(p) /\ MemoryOf(p) /\ ReceivedBy(p)
  BY <1>1, StepFacts
<1>3. PwType /\ BoardInv /\ pos' \in [Task -> Int] /\ pos'[p] = n + 1
      /\ \A q \in Task : q # p => pos'[q] = pos[q]
  BY <1>1, AdvanceFacts DEF PwInv
<1>4. program[p] = "skip" /\ n = 1 /\ Step(p).region = 1
  BY <1>2, SkipSteps
<1>5. \A q \in Task : HasPosted(q)' = HasPosted(q)
  BY <1>1, <1>2, <1>3, <1>4, NotPosting
<1>6. PICK x \in Place : x = p - 1 /\ p = x + 1 /\ p \in Place
  BY SlotFacts, TaskFacts
<1>7. PICK bd, f :
        /\ GoodBoard(bd, Posters) /\ DOMAIN bd = DOMAIN board \cup {Chan(p - 1), Chan(p)}
        /\ \A i \in DOMAIN board : bd[i] = board[i]
        /\ Alike(board) => Alike(bd)
        /\ f = (bd[Chan(p - 1)].is_posted \/ bd[Chan(p)].is_posted)
        /\ \/ board' = ConnectChain(bd, bd[Chan(p)].list, bd[Chan(p - 1)].list, f)
           \/ board' = ConnectChain(bd, bd[Chan(p - 1)].list, bd[Chan(p)].list, f)
  BY SkipBoard, Zenon
<1>8. /\ GoodBoard(board', Posters) /\ DOMAIN board' = DOMAIN bd
      /\ \A i \in DOMAIN bd : board'[i].data = bd[i].data /\ board'[i].sender = bd[i].sender
  <2> DEFINE B1 == ConnectChain(bd, bd[Chan(p)].list, bd[Chan(x)].list, f)
             B2 == ConnectChain(bd, bd[Chan(x)].list, bd[Chan(p)].list, f)
  <2>0. Chan(p - 1) = Chan(x)
    BY <1>6
  <2>1. /\ f => bd[Chan(p)].is_posted \/ bd[Chan(x)].is_posted
        /\ Chan(x) \in DOMAIN bd /\ Chan(p) \in DOMAIN bd /\ p \in Place /\ p = x + 1
        /\ program[p] = "skip" /\ GoodBoard(bd, Posters) /\ Posters \subseteq Task
    BY <1>4, <1>6, <1>7, <2>0 DEF Posters
  <2>2. GoodBoard(B1, Posters) /\ SameData(B1, bd)
    BY <2>1, ConnectGood
  <2>3. GoodBoard(B2, Posters) /\ SameData(B2, bd)
    BY <2>1, ConnectGood
  <2>4. board' = B1 \/ board' = B2
    BY <1>7, <2>0
  <2> HIDE DEF B1, B2
  <2> QED
    BY <2>2, <2>3, <2>4 DEF SameData
<1>9. BoardInv'
  <2>1. Posters' = Posters
    BY <1>5 DEF Posters
  <2>2. GoodBoard(board, Posters)'
    BY <1>1, <1>8, <2>1, BoardReplaced
  <2>3. ASSUME NEW q \in Task PROVE PostedData(q)'
    <3>1. HasPosted(q) => Chan(q) \in DOMAIN board
      BY <1>3 DEF BoardInv, PostedData
    <3>2. HasPosted(q) => /\ Chan(q) \in DOMAIN board'
                          /\ board'[Chan(q)].data = board[Chan(q)].data
                          /\ board'[Chan(q)].sender = board[Chan(q)].sender
      BY <1>7, <1>8, <3>1
    <3> QED
      BY <1>1, <1>3, <1>5, <3>2, PostedKeeps
  <2> QED
    BY <2>2, <2>3 DEF BoardInv
<1>10. PwType' /\ KeepsOthers(p)
  BY <1>1, <1>3 DEF PwType, KeepsOthers, IsMem
<1>11. Private(p)'
  <2>1. pos'[p] \in 1 .. Len(Steps(program[p])) + 1 /\ pos'[p] = 2 /\ pos[p] = 1
    BY <1>2, <1>3, <1>4
  <2>2. /\ in_ordered[p] = 0 /\ ordered_writes[p] = {} /\ read_map[p] = {} /\ write_map[p] = {}
        /\ local_ch[p] = NoLocal
    BY <1>2, <1>4, <2>1, SkipTables DEF Private
  <2> QED
    BY <1>1, <1>2, <1>4, <2>1, <2>2, SkipTables DEF Private, NoLocal
<1>12. MemoryOf(p)'
  <2>1. Entered(p)' => Entered(p)
    BY <1>1, <1>4 DEF Entered
  <2>2. Reads(program[p], n + 1) = Reads(program[p], n)
    BY <1>4, SkipTables
  <2> QED
    BY <1>1, <1>2, <1>3, <1>4, <2>1, <2>2, PlainStepMemory
<1>13. ReceivedBy(p)'
  BY <1>1, <1>2, <1>3 DEF ReceivedBy, FromTask
<1> QED
  BY <1>1, <1>2, <1>9, <1>10, <1>11, <1>12, <1>13, RegionStep

(* What a task posts at the end of region 1 is what it leaves there. *)
LEMMA AfterThePost ==
  ASSUME PwType, NEW p \in Task, program[p] \notin {"skip", "plain", "late"},
         NEW n \in 1 .. Len(Steps(program[p])), n = EndAt(program[p])
  PROVE  Sequential(p, n)["z"] = SequentialAfter(p)["z"]
<1> DEFINE S(k) == Sequential(p, k)["z"]
           kind == program[p]
           N == Len(Steps(kind))
<1>1. kind \in AllKinds /\ "z" \in Addr /\ program \in [Task -> Kinds]
  BY TaskFacts DEF Addr, PwType
<1>2. \A k \in 1 .. N :
        S(k + 1) = IF Steps(kind)[k].op = "access" /\ Steps(kind)[k].addr = "z" THEN Computed(p, k, S(k)) ELSE S(k)
  BY <1>1, SequentialStep
<1>3. SequentialAfter(p)["z"] = S(N + 1)
  BY DEF SequentialAfter
<1> HIDE DEF S
<1>4. ASSUME kind = "ordered" \/ kind = "early" \/ kind = "empty"
      PROVE  n = N /\ Steps(kind)[n].op = "end"
  <2>1. CASE kind = "ordered"
    <3>1. N = 3
      BY <1>1, <2>1, StepsLen
    <3>2. n = 3
      BY <2>1 DEF EndAt
    <3>3. Steps("ordered")[3].op = "end"
      BY StepsAre, StepFields
    <3> QED
      BY <2>1, <3>1, <3>2, <3>3
  <2>2. CASE kind = "early"
    <3>1. N = 4
      BY <1>1, <2>2, StepsLen
    <3>2. n = 4
      BY <2>2 DEF EndAt
    <3>3. Steps("early")[4].op = "end"
      BY StepsAre, StepFields
    <3> QED
      BY <2>2, <3>1, <3>2, <3>3
  <2>3. CASE kind = "empty"
    <3>1. N = 2
      BY <1>1, <2>3, StepsLen
    <3>2. n = 2
      BY <2>3 DEF EndAt
    <3>3. Steps("empty")[2].op = "end"
      BY StepsAre, StepFields
    <3> QED
      BY <2>3, <3>1, <3>2, <3>3
  <2> QED
    BY <1>4, <2>1, <2>2, <2>3
<1>5. CASE kind \in {"ordered", "early", "empty"}
  <2>1. n = N /\ Steps(kind)[n].op = "end"
    BY <1>4, <1>5
  <2>2. S(n + 1) = S(n)
    BY <1>2, <2>1
  <2> QED
    BY <1>3, <2>1, <2>2 DEF S
<1>6. CASE kind = "twice"
  <2>1. N = 8 /\ n = 5
    BY <1>1, <1>6, StepsLen DEF EndAt
  <2>2. \A k \in {5, 6, 7, 8} :
          k \in 1 .. 8 /\ ~(Steps("twice")[k].op = "access" /\ Steps("twice")[k].addr = "z")
    BY StepsAre, StepFields
  <2>3. \A k \in {5, 6, 7, 8} : S(k + 1) = S(k)
    BY <1>2, <1>6, <2>1, <2>2
  <2>4. 5 + 1 = 6 /\ 6 + 1 = 7 /\ 7 + 1 = 8 /\ 8 + 1 = 9
    OBVIOUS
  <2>5. S(9) = S(5)
    BY <2>3, <2>4
  <2>6. N + 1 = 9
    BY <2>1
  <2> QED
    BY <1>3, <2>1, <2>5, <2>6 DEF S
<1> QED
  BY <1>1, <1>5, <1>6 DEF AllKinds

(* The end of region 1 posts: no other task of the chain has posted. *)
LEMMA EndFindsFree ==
  ASSUME PwInv, NEW p \in Task, program[p] # "skip", ~HasPosted(p)
  PROVE  Free(Chan(p)) /\ (Chan(p) \in DOMAIN board => ~board[Chan(p)].is_posted)
<1> USE PlaceFacts
<1>1. BoardInv /\ p \in Place /\ Slot(Chan(p)) = Chan(p)
  BY SlotFacts DEF PwInv
<1>2. Free(Chan(p))
  BY <1>1, FreeFacts
<1>3. ASSUME Chan(p) \in DOMAIN board, board[Chan(p)].is_posted PROVE FALSE
  <2>1. PICK q \in Task : Chan(q) \in ToSet(board[Chan(p)].list) /\ HasPosted(q)
    BY <1>1, <1>3, OnBoardFacts
  <2>2. q \in Place /\ q <= p /\ \A i \in q + 1 .. p : program[i] = "skip"
    BY <1>1, <1>3, <2>1, PosterIsFirst
  <2>3. q # p
    BY <2>1
  <2> QED
    BY <2>2, <2>3
<1> QED
  BY <1>2, <1>3

LEMMA OrderedEndKeeps ==
  ASSUME PwInv, NEW p \in Task, OrderedEnd(p)
  PROVE  PwInv'
<1> DEFINE kind == program[p]
           n == pos[p]
           r == Steps(kind)[n].region
           id == ChannelForRegion(r, p)
           local == ChannelFill(p, id)
           data == local.data \cap write_map[p]
           taken == local.id \in {0, id}
           ok == taken /\ Free(id) /\ (Slot(id) \in DOMAIN board => ~board[Slot(id)].is_posted)
<1>1. /\ At(p, "end") /\ Advance(p) /\ program' = program /\ st' = st /\ mem' = mem
      /\ read_map' = read_map /\ received' = received
      /\ write_union' = write_union /\ patches' = patches /\ received_n_used' = received_n_used
      /\ partial_size' = partial_size
      /\ ordered_writes' = [ordered_writes EXCEPT ![p] = {}]
      /\ in_ordered' = [in_ordered EXCEPT ![p] = 0]
  BY DEF OrderedEnd, merge
<1>2. /\ st[p] = "run" /\ Live(p) /\ kind \in AllKinds /\ n \in 1 .. Len(Steps(kind)) /\ n \in Int
      /\ Len(Steps(kind)) \in Nat /\ Step(p) = Steps(kind)[n] /\ Steps(kind)[n].op = "end"
      /\ Private(p) /\ MemoryOf(p) /\ ReceivedBy(p)
  BY <1>1, StepFacts
<1>3. PwType /\ BoardInv /\ pos' \in [Task -> Int] /\ pos'[p] = n + 1
      /\ \A q \in Task : q # p => pos'[q] = pos[q]
  BY <1>1, AdvanceFacts DEF PwInv
<1>4. /\ local_ch' = [local_ch EXCEPT ![p] = IF ok THEN NoLocal
                                             ELSE [local EXCEPT !.data = IF taken THEN data ELSE @]]
      /\ board' = IF ok THEN Posted(id, p, [a \in data |-> mem[p][a]]) ELSE board
      /\ write_map' = IF ok THEN [write_map EXCEPT ![p] = SubtractPosted(p, data)] ELSE write_map
  BY <1>2 DEF OrderedEnd
<1>5. /\ InRegion(kind, n) = r /\ InRegion(kind, n + 1) = 0 /\ OrderedWrites(kind, n + 1) = {}
      /\ Reads(kind, n + 1) = Reads(kind, n)
      /\ \/ kind = "twice" /\ n = 8 /\ r = 11 /\ Writes(kind, n + 1) = Writes(kind, n)
         \/ /\ kind \notin {"skip", "plain"} /\ n = EndAt(kind) /\ r = 1
            /\ OrderedWrites(kind, n) = Writes(kind, n)
            /\ Writes(kind, n) = IF kind = "empty" THEN {} ELSE {"z"}
            /\ Writes(kind, n + 1) = {} /\ n <= 5
  <2>1. InRegion(kind, n) = r
    BY <1>2 DEF OrderedEnd, Private
  <2> QED
    BY <1>2, <2>1, EndTables
<1> HIDE DEF ok, local, data, taken, id, r
<1>6. /\ DOMAIN local_ch' = Task /\ DOMAIN write_map' = Task /\ DOMAIN ordered_writes' = Task
      /\ DOMAIN in_ordered' = Task /\ ordered_writes'[p] = {} /\ in_ordered'[p] = 0
      /\ \A q \in Task : q # p => /\ local_ch'[q] = local_ch[q] /\ write_map'[q] = write_map[q]
                                  /\ ordered_writes'[q] = ordered_writes[q] /\ in_ordered'[q] = in_ordered[q]
  BY <1>1, <1>3, <1>4 DEF PwType
<1>7. PwType' /\ KeepsOthers(p)
  BY <1>1, <1>3, <1>6 DEF PwType, KeepsOthers, IsMem
<1>8. pos'[p] # 1 /\ pos'[p] \in 1 .. Len(Steps(kind)) + 1 /\ Steps(kind)[n].op # "access"
  BY <1>2, <1>3
<1>9. ReceivedBy(p)'
  BY <1>1, <1>2, <1>8 DEF ReceivedBy, FromTask
<1>10. ASSUME write_map'[p] = Writes(kind, n + 1), n + 1 <= 8 => local_ch'[p] = NoLocal, BoardInv',
              kind = "twice" /\ p # 0 => n <= 5, n # 1
       PROVE  PwInv'
  <2>1. Private(p)'
    <3>1. /\ (program[p])' = kind /\ (pos[p])' = n + 1 /\ (in_ordered[p])' = InRegion(kind, n + 1)
          /\ (ordered_writes[p])' = OrderedWrites(kind, n + 1) /\ (read_map[p])' = Reads(kind, n + 1)
          /\ (write_map[p])' = Writes(kind, n + 1) /\ (st[p])' = "run"
      BY <1>1, <1>2, <1>3, <1>5, <1>6, <1>10 DEF Private
    <3> HIDE DEF kind
    <3> QED
      BY <1>8, <1>10, <3>1 DEF Private, NoLocal
  <2>2. MemoryOf(p)'
    <3>1. Entered(p)' => Entered(p)
      BY <1>1, <1>2, <1>3, <1>10 DEF Entered
    <3>2. mem'[p] = mem[p]
      BY <1>1
    <3> QED
      BY <1>1, <1>2, <1>3, <1>5, <1>8, <1>10, <3>1, <3>2, PlainStepMemory
  <2> QED
    BY <1>1, <1>2, <1>7, <1>9, <1>10, <2>1, <2>2, RegionStep
(* Region 11: the place has the id of region 1. *)
<1>11. CASE kind = "twice" /\ n = 8 /\ r = 11 /\ Writes(kind, n + 1) = Writes(kind, n)
  <2>1. p = 0
    BY <1>2, <1>11 DEF MemoryOf
  <2>2. id # Chan(p) /\ Slot(id) = Chan(p) /\ p \in Place
    BY <1>11, SlotFacts DEF id
  <2>3. HasPosted(p)
    BY <1>11 DEF HasPosted, EndAt
  <2>4. Chan(p) \in DOMAIN board
    BY <1>3, <2>3 DEF BoardInv, PostedData
  <2>5. board[Chan(p)].id = Chan(p)
    BY <1>3, <2>2, <2>4, OnBoardFacts
  <2>6. ~ok
    BY <2>2, <2>4, <2>5 DEF ok, Free
  <2>7. board' = board /\ write_map' = write_map
    BY <1>4, <2>6
  <2>8. \A q \in Task : HasPosted(q)' = HasPosted(q)
    <3>1. n # EndAt(kind)
      BY <1>11 DEF EndAt
    <3> QED
      BY <1>1, <1>2, <1>3, <3>1, NotPosting
  <2>9. BoardInv'
    BY <1>1, <1>3, <2>7, <2>8, BoardKeeps
  <2>10. write_map'[p] = Writes(kind, n + 1)
    BY <1>2, <1>11, <2>7 DEF Private
  <2> QED
    BY <1>10, <1>11, <2>1, <2>9, <2>10
(* Region 1 *)
<1>12. CASE /\ kind \notin {"skip", "plain"} /\ n = EndAt(kind) /\ r = 1
            /\ OrderedWrites(kind, n) = Writes(kind, n)
            /\ Writes(kind, n) = IF kind = "empty" THEN {} ELSE {"z"}
            /\ Writes(kind, n + 1) = {} /\ n <= 5
  <2> DEFINE c == Chan(p)
             vals == [a \in data |-> mem[p][a]]
             bd == GetChannel(board, c)
             B == Posted(c, p, vals)
  <2>1. id = c /\ Slot(c) = c /\ p \in Place /\ c # 0
    BY <1>12, SlotFacts DEF id
  <2>2. local_ch[p] = NoLocal /\ ordered_writes[p] = Writes(kind, n) /\ write_map[p] = Writes(kind, n)
    BY <1>2, <1>12 DEF Private
  <2>3. taken /\ data = Writes(kind, n)
    <3>1. CASE Writes(kind, n) = {}
      <4>1. local = NoLocal
        BY <2>2, <3>1 DEF local, ChannelFill
      <4> QED
        BY <2>2, <3>1, <4>1 DEF taken, data, NoLocal
    <3>2. CASE Writes(kind, n) # {}
      <4>1. local = [id |-> id, data |-> {} \cup Writes(kind, n)]
        BY <2>2, <3>2 DEF local, ChannelFill, NoLocal
      <4> QED
        BY <2>2, <4>1 DEF taken, data
    <3> QED
      BY <3>1, <3>2
  <2>4. ~HasPosted(p)
    BY <1>2, <1>12 DEF HasPosted
  <2>5. ok
    BY <1>12, <2>1, <2>3, <2>4, EndFindsFree DEF ok
  <2>6. board' = B /\ write_map' = [write_map EXCEPT ![p] = SubtractPosted(p, data)]
        /\ local_ch' = [local_ch EXCEPT ![p] = NoLocal]
    BY <1>4, <2>1, <2>5
  <2>7. write_map'[p] = Writes(kind, n + 1) /\ local_ch'[p] = NoLocal
    BY <1>3, <1>12, <2>2, <2>3, <2>6 DEF PwType, SubtractPosted
  <2>8. (kind = "empty" => vals = NoMap) /\ (kind # "empty" => DOMAIN vals = {"z"} /\ vals["z"] = mem[p]["z"])
    BY <1>12, <2>3 DEF NoMap
  <2> HIDE DEF vals, c
  <2>9. GoodBoard(board, Posters) /\ Posters \subseteq Task
    BY <1>3 DEF BoardInv, Posters
  <2>10. GoodBoard(bd, Posters) /\ DOMAIN bd = DOMAIN board \cup {c} /\ \A i \in DOMAIN board : bd[i] = board[i]
    BY <2>1, <2>9, GetChannelGood DEF c
  <2>11. B = WithPost(bd, p, vals)
    BY <2>1 DEF Posted, WithPost, c
  <2> HIDE DEF bd, B
  <2>12. /\ GoodBoard(B, Posters \cup {p}) /\ DOMAIN B = DOMAIN bd
         /\ B[c].data = vals /\ B[c].sender = Index(p)
         /\ \A i \in DOMAIN bd : i # c => B[i].data = bd[i].data /\ B[i].sender = bd[i].sender
    <3>1. Chan(p) \in DOMAIN bd /\ (program[p] = "empty" => vals = NoMap)
      BY <2>8, <2>10 DEF c
    <3>2. GoodBoard(bd, Posters) /\ Posters \subseteq Task
      BY <2>9, <2>10
    <3>3. PICK P, old, d : P = Posters /\ old = bd /\ d = vals
      OBVIOUS
    <3>4. /\ P \subseteq Task /\ GoodBoard(old, P) /\ Chan(p) \in DOMAIN old
          /\ program[p] = "empty" => d = NoMap
      BY <3>1, <3>2, <3>3
    <3>5. PICK W : W = WithPost(old, p, d)
      OBVIOUS
    <3>6. /\ GoodBoard(W, P \cup {p}) /\ DOMAIN W = DOMAIN old
          /\ W[Chan(p)].data = d /\ W[Chan(p)].sender = Index(p)
          /\ \A i \in DOMAIN old : i # Chan(p) => W[i].data = old[i].data /\ W[i].sender = old[i].sender
      BY <3>4, <3>5, PostGood
    <3> QED
      BY <2>11, <3>3, <3>5, <3>6 DEF c
  <2>13. /\ HasPosted(p)' /\ \A q \in Task : q # p => HasPosted(q)' = HasPosted(q)
    <3>1. n + 1 > EndAt(kind)
      BY <1>2, <1>12
    <3>2. \A q \in Task : EndAt(program[q])' = EndAt(program[q])
      BY <1>1 DEF EndAt
    <3> QED
      BY <1>1, <1>3, <1>12, <3>1, <3>2 DEF HasPosted
  <2>14. Posters' = Posters \cup {p}
    BY <2>13 DEF Posters
  <2>15. GoodBoard(board, Posters)'
    BY <1>1, <2>6, <2>12, <2>14, BoardReplaced
  <2>16. ASSUME NEW q \in Task, q # p PROVE PostedData(q)'
    <3>1. HasPosted(q) => Chan(q) \in DOMAIN board
      BY <1>3 DEF BoardInv, PostedData
    <3>2. Chan(q) # c
      BY <2>16, PlaceFacts DEF c
    <3>3. HasPosted(q) => /\ Chan(q) \in DOMAIN board'
                          /\ board'[Chan(q)].data = board[Chan(q)].data
                          /\ board'[Chan(q)].sender = board[Chan(q)].sender
      BY <2>6, <2>10, <2>12, <3>1, <3>2
    <3> QED
      BY <1>1, <1>3, <2>13, <2>16, <3>3, PostedKeeps
  <2>17. PostedData(p)'
    <3>1. c \in DOMAIN board' /\ board'[c].data = vals /\ board'[c].sender = Index(p)
      BY <2>6, <2>10, <2>12
    <3>2. kind = "late" => vals["z"].by = <<p, 2>>
      <4> HAVE kind = "late"
      <4>1. n = 3
        BY <1>12 DEF EndAt
      <4> QED
        BY <1>2, <2>8, <4>1 DEF MemoryOf
    <3>3. kind \notin {"late", "empty"} /\ Clean(p) => vals["z"] = SequentialAfter(p)["z"]
      <4> SUFFICES ASSUME kind \notin {"late", "empty"}, Clean(p) PROVE vals["z"] = SequentialAfter(p)["z"]
        OBVIOUS
      <4>1. Entered(p)
        <5>1. kind = "early" => p = 0
          BY TaskFacts DEF Clean, Spoiled
        <5>2. n >= 2 /\ kind \in {"ordered", "twice", "early"}
          BY <1>2, <1>12 DEF EndAt, AllKinds
        <5> QED
          BY <5>1, <5>2 DEF Entered
      <4>2. mem[p]["z"] = Sequential(p, n)["z"]
        BY <1>2, <4>1 DEF MemoryOf
      <4>3. Sequential(p, n)["z"] = SequentialAfter(p)["z"]
        BY <1>2, <1>3, <1>12, AfterThePost
      <4> QED
        BY <2>8, <4>2, <4>3
    <3>4. Clean(p)' = Clean(p) /\ SequentialAfter(p)' = SequentialAfter(p) /\ (program[p])' = kind
      BY <1>1 DEF Clean, Spoiled, Before, SequentialAfter, Sequential
    <3>5. c = Chan(p) /\ Index(p)' = Index(p)
      BY DEF c, Index
    <3> HIDE DEF kind
    <3> QED
      BY <2>8, <3>1, <3>2, <3>3, <3>4, <3>5 DEF PostedData
  <2>18. BoardInv'
    BY <2>15, <2>16, <2>17 DEF BoardInv
  <2>19. n # 1
    BY <1>12 DEF EndAt
  <2> QED
    BY <1>10, <1>12, <2>7, <2>18, <2>19
<1> QED
  BY <1>5, <1>11, <1>12


-----------------------------------------------------------------------------
(***************************************************************************)
(* The invariant is inductive, and what follows from it.                   *)
(***************************************************************************)
LEMMA PwStep ==
  ASSUME PwInv, NEW p \in Task, TaskStep(p)
  PROVE  PwInv'
<1>1. CASE DoAccess(p)
  BY <1>1, DoAccessKeeps
<1>2. CASE OrderedBegin(p)
  BY <1>2, OrderedBeginKeeps
<1>3. CASE OrderedIgnored(p)
  BY <1>3, OrderedIgnoredKeeps
<1>4. CASE OrderedSkip(p)
  BY <1>4, OrderedSkipKeeps
<1>5. CASE OrderedEnd(p)
  BY <1>5, OrderedEndKeeps
<1>6. CASE PprEnd(p)
  BY <1>6, PprEndKeeps
<1>7. CASE PprIsCorrect(p)
  BY <1>7, PprIsCorrectKeeps
<1>8. CASE PprCommit(p)
  BY <1>8, PprCommitKeeps
<1>9. CASE PprGroupCommit(p)
  BY <1>9, PprGroupCommitKeeps
<1>10. CASE AbortSpec(p)
  BY <1>10, AbortSpecKeeps
<1> QED
  BY <1>1, <1>2, <1>3, <1>4, <1>5, <1>6, <1>7, <1>8, <1>9, <1>10 DEF TaskStep

LEMMA PwNext == PwInv /\ [Next]_vars => PwInv'
<1> SUFFICES ASSUME PwInv, [Next]_vars PROVE PwInv'
  OBVIOUS
<1>1. CASE Next
  BY <1>1, PwStep DEF Next
<1>2. CASE UNCHANGED vars
  <2>1. partial_size' \in Int /\ st' \in [Task -> States] /\ \A q \in Task : st'[q] \in {st[q], "dead"}
    BY <1>2 DEF vars, merge, PwInv, PwType
  <2> QED
    BY <1>2, <2>1, OnlyDeaths DEF vars, private, merge
<1> QED
  BY <1>1, <1>2

(* A task that is in an ordered region has entered region 1. *)
LEMMA InsideEntered ==
  ASSUME NEW kind \in AllKinds, NEW n \in Int, InRegion(kind, n) # 0
  PROVE  n >= 2 /\ kind \in {"ordered", "late", "early", "empty", "twice"}
BY DEF InRegion

LEMMA InvOrdered == PwInv => OrderedIsSequential
<1> SUFFICES ASSUME PwInv, NEW p \in Task, in_ordered[p] # 0, st[p] # "dead", ~Spoiled(p), ~Before(p, "late")
             PROVE  mem[p]["z"] = Sequential(p, pos[p])["z"]
  BY DEF OrderedIsSequential
<1>1. PwType /\ Private(p) /\ MemoryOf(p)
  BY DEF PwInv, TaskInv
<1>2. program[p] \in AllKinds /\ pos[p] \in Int /\ st[p] \in States
  BY <1>1, TaskFacts DEF PwType
<1>3. Live(p)
  <2>1. ~Ended(p)
    BY EndedFacts
  <2>2. st[p] = "run"
    BY <1>1, <2>1 DEF Private
  <2> QED
    BY <2>2 DEF Live
<1>4. pos[p] >= 2 /\ program[p] \in {"ordered", "late", "early", "empty", "twice"}
  BY <1>1, <1>2, InsideEntered DEF Private
<1>5. Entered(p)
  <2>1. p = 0 \/ program[p] # "early"
    <3>1. p # 0 => p \in 1 .. p
      BY TaskFacts
    <3> QED
      BY <3>1 DEF Spoiled
  <2> QED
    BY <1>4, <2>1 DEF Entered
<1> QED
  BY <1>1, <1>3, <1>5 DEF MemoryOf, Clean

LEMMA AccessedIsTouched ==
  ASSUME PwType, NEW p \in Task
  PROVE  Accessed(p) \subseteq Touched(program[p]) /\ Touched(program[p]) \subseteq {"y", "z"}
<1>1. program[p] \in AllKinds
  BY TaskFacts DEF PwType
<1>2. ASSUME NEW s \in ToSet(Steps(program[p])), s.op = "access" PROVE s.addr \in Touched(program[p])
  <2>1. PICK n \in 1 .. Len(Steps(program[p])) : Steps(program[p])[n] = s
    BY <1>1 DEF ToSet, Steps, AllKinds
  <2> QED
    BY <1>1, <1>2, <2>1, AccessSteps DEF Touched
<1>3. Touched(program[p]) \subseteq {"y", "z"}
  BY DEF Touched
<1> QED
  BY <1>2, <1>3 DEF Accessed

LEMMA InvCommitted == PwInv => CommittedIsRight
<1> SUFFICES ASSUME PwInv, NEW p \in Task, st[p] = "committed", ~Spoiled(p), NEW a \in Accessed(p)
             PROVE  mem[p][a] = SequentialAfter(p)[a]
  BY DEF CommittedIsRight
<1>1. PwType /\ Private(p) /\ MemoryOf(p) /\ PassedOnly(p)
  BY DEF PwInv, TaskInv, CommitInv
<1>2. Ended(p) /\ Live(p) /\ Passed(p)
  BY <1>1 DEF Private, Live, Passed
<1>3. /\ pos[p] = Len(Steps(program[p])) + 1 /\ pos[p] \in Int /\ program[p] \in AllKinds
      /\ read_map[p] = Touched(program[p]) /\ SequentialAfter(p) = Sequential(p, pos[p])
  BY <1>2, EndedFacts
<1>4. Reads(program[p], pos[p]) = Touched(program[p])
  BY <1>1, <1>3 DEF Private
<1>5. a \in Touched(program[p]) /\ a \in {"y", "z"}
  BY <1>1, AccessedIsTouched
<1>6. CASE a = "z"
  <2>1. ~Before(p, "late")
    BY <1>1, <1>5, <1>6 DEF PassedOnly
  <2>2. Entered(p)
    <3>1. p = 0 \/ program[p] # "early"
      <4>1. p # 0 => p \in 1 .. p
        BY TaskFacts
      <4> QED
        BY <4>1 DEF Spoiled
    <3>2. program[p] \in {"ordered", "late", "early", "twice"}
      BY <1>3, <1>5, <1>6 DEF Touched
    <3>3. pos[p] >= 2
      <4>1. PICK l : l = Len(Steps(program[p]))
        OBVIOUS
      <4>2. l \in {3, 4, 8}
        BY <1>3, <3>2, <4>1, StepsLen
      <4>3. pos[p] = l + 1
        BY <1>3, <4>1
      <4> QED
        BY <4>2, <4>3
    <3> QED
      BY <3>1, <3>2, <3>3 DEF Entered
  <2> QED
    BY <1>1, <1>2, <1>3, <1>6, <2>1, <2>2 DEF MemoryOf, Clean
<1>7. CASE a = "y"
  <2>1. ASSUME NEW i \in 0 .. p - 1 PROVE "y" \notin Touched(program[i])
    <3>1. i \in 0 .. p /\ p \in 0 .. p /\ i < p
      BY TaskFacts
    <3> QED
      BY <1>1, <1>2, <1>5, <1>7, <3>1 DEF PassedOnly
  <2>2. SequentialAfter(p)["y"] = Computed(p, YAt(program[p]), FirstMemory["y"])
    BY <1>1, <1>5, <1>7, <2>1, FirstY DEF PwType
  <2>3. mem[p]["y"] = Computed(p, YAt(program[p]), FirstMemory["y"])
    BY <1>1, <1>2, <1>4, <1>5, <1>7 DEF MemoryOf
  <2> QED
    BY <1>7, <2>2, <2>3
<1> QED
  BY <1>5, <1>6, <1>7

LEMMA InvWon == PwInv => CommitIsSequential
BY DEF PwInv, CommitInv, WonRight, Clean, CommitIsSequential

(* In every execution a task that is inside an ordered region sees there   *)
(* what sequential execution would have left: BOP_ordered_begin waits for  *)
(* the channel of the task before, which is posted only by the last task   *)
(* that entered the region, over any chain of tasks that skipped it.       *)
THEOREM OrderedAlwaysSequential == Spec => []OrderedIsSequential
<1>1. Init => PwInv
  BY PwInit
<1>2. PwInv /\ [Next]_vars => PwInv'
  BY PwNext
<1>3. PwInv => OrderedIsSequential
  BY InvOrdered
<1> QED
  BY <1>1, <1>2, <1>3, PTL DEF Spec

(* In every execution a task that passes ppr_is_correct and the check of   *)
(* data_commit for modifications after a post has computed, at every       *)
(* address that it accesses, what sequential execution would have computed.*)
THEOREM CommittedAlwaysRight == Spec => []CommittedIsRight
<1>1. Init => PwInv
  BY PwInit
<1>2. PwInv /\ [Next]_vars => PwInv'
  BY PwNext
<1>3. PwInv => CommittedIsRight
  BY InvCommitted
<1> QED
  BY <1>1, <1>2, <1>3, PTL DEF Spec

(* In every execution the memory with which the last task of a group goes  *)
(* on, after task_group_commit has applied the patches of the tasks before *)
(* it, is that of sequential execution, if the task itself has waited for  *)
(* what the others posted and none has modified it afterwards.             *)
THEOREM CommitAlwaysSequential == Spec => []CommitIsSequential
<1>1. Init => PwInv
  BY PwInit
<1>2. PwInv /\ [Next]_vars => PwInv'
  BY PwNext
<1>3. PwInv => CommitIsSequential
  BY InvWon
<1> QED
  BY <1>1, <1>2, <1>3, PTL DEF Spec


-----------------------------------------------------------------------------
(***************************************************************************)
(* Whom a post reaches.                                                    *)
(***************************************************************************)
(* A task that skips an ordered region leaves all channels of its chain    *)
(* posted, or none.  connect_chain sees to the last channel of the old     *)
(* chain only.                                                             *)
MarksChain ==
  \A p \in Task : OrderedSkip(p) =>
    \A c \in ToSet(board'[Chan(p)].list) : board'[c].is_posted = board'[Chan(p)].is_posted

(* A post marks the channel of its task, and a task that skips the region  *)
(* is on the chain of the task before it.                                  *)
Marked(q) == HasPosted(q) => board[Chan(q)].is_posted
Linked(q) ==
  program[q] = "skip" /\ pos[q] > 1 =>
    /\ Chan(q) \in DOMAIN board /\ Chan(q - 1) \in DOMAIN board
    /\ board[Chan(q)].list = board[Chan(q - 1)].list
ReachInv == Alike(board) /\ \A q \in Task : Marked(q) /\ Linked(q)

LEMMA SetChainFields ==
  ASSUME NEW bd, Chains(bd), NEW list, NEW places, NEW f
  PROVE  LET new == SetChain(bd, list, places, f)
         IN  /\ DOMAIN new = DOMAIN bd
             /\ \A i \in DOMAIN bd :
                  /\ new[i].list = IF i \in ToSet(list) THEN list ELSE bd[i].list
                  /\ new[i].is_posted = IF i \in places THEN f ELSE bd[i].is_posted
<1> DEFINE new == SetChain(bd, list, places, f)
<1>1. /\ DOMAIN new = DOMAIN bd
      /\ \A i \in DOMAIN bd : new[i] = [bd[i] EXCEPT !.list = IF i \in ToSet(list) THEN list ELSE @,
                                                     !.is_posted = IF i \in places THEN f ELSE @]
  BY DEF SetChain
<1> HIDE DEF new
<1>2. ASSUME NEW i \in DOMAIN bd
      PROVE  /\ new[i].list = IF i \in ToSet(list) THEN list ELSE bd[i].list
             /\ new[i].is_posted = IF i \in places THEN f ELSE bd[i].is_posted
  <2> DEFINE ch == bd[i]
             l == IF i \in ToSet(list) THEN list ELSE ch.list
             g == IF i \in places THEN f ELSE ch.is_posted
             x == [ch EXCEPT !.list = l]
  <2>1. ch = [id |-> ch.id, data |-> ch.data, sender |-> ch.sender, is_posted |-> ch.is_posted, list |-> ch.list]
    BY DEF Chains
  <2>2. new[i] = [ch EXCEPT !.list = l, !.is_posted = g]
    BY <1>1
  <2>3. new[i] = [x EXCEPT !.is_posted = g]
    BY <2>2
  <2> HIDE DEF ch, l, g
  <2>4. x = [id |-> ch.id, data |-> ch.data, sender |-> ch.sender, is_posted |-> ch.is_posted, list |-> l]
    BY <2>1
  <2> HIDE DEF x
  <2>5. new[i] = [id |-> ch.id, data |-> ch.data, sender |-> ch.sender, is_posted |-> g, list |-> l]
    BY <2>3, <2>4
  <2>6. new[i].list = l /\ new[i].is_posted = g
    BY <2>5
  <2> QED
    BY <2>6 DEF l, g, ch
<1> QED
  BY <1>1, <1>2 DEF new


(* What a change of the board leaves of posts and chains. *)
KeepsReach(new, bd) ==
  /\ DOMAIN bd \subseteq DOMAIN new
  /\ \A i \in DOMAIN bd : bd[i].is_posted => new[i].is_posted
  /\ \A i, j \in DOMAIN bd : bd[i].list = bd[j].list => new[i].list = new[j].list

(* All channels on the chain of channel m are posted if m is. *)
ChainLike(bd, m) == \A d \in ToSet(bd[m].list) : bd[d].is_posted = bd[m].is_posted

Joined(new, bd, a, b) ==
  Alike(new) /\ KeepsReach(new, bd) /\ new[a].list = new[b].list /\ DOMAIN new = DOMAIN bd

LEMMA JoinReaches ==
  ASSUME NEW bd, Chains(bd), Alike(bd), NEW a \in DOMAIN bd, NEW b \in DOMAIN bd,
         NEW f, bd[a].is_posted \/ bd[b].is_posted => f = TRUE,
         NEW new, new = ConnectChain(bd, bd[a].list, bd[b].list, f),
         ChainLike(new, a) \/ ChainLike(new, b)
  PROVE  Joined(new, bd, a, b)
<1> DEFINE h == bd[a].list
           t == bd[b].list
           list == h \o t
           places == {Last(h)} \cup ToSet(t)
<1>1. h \in Seq(Int) /\ t \in Seq(Int) /\ a \in ToSet(h) /\ b \in ToSet(t)
      /\ (\A d \in ToSet(h) : bd[d].list = h) /\ (\A d \in ToSet(t) : bd[d].list = t)
      /\ ToSet(h) \subseteq DOMAIN bd /\ ToSet(t) \subseteq DOMAIN bd
  BY DEF Chains
<1>2. ToSet(list) = ToSet(h) \cup ToSet(t)
  BY <1>1, ConcatSet
<1>3. new = SetChain(bd, list, places, f)
  BY DEF ConnectChain
<1> HIDE DEF list, places
<1>4. /\ DOMAIN new = DOMAIN bd
      /\ \A i \in DOMAIN bd : /\ new[i].list = IF i \in ToSet(list) THEN list ELSE bd[i].list
                              /\ new[i].is_posted = IF i \in places THEN f ELSE bd[i].is_posted
  BY <1>3, SetChainFields
<1>5. Last(h) \in ToSet(h)
  <2>1. Len(h) \in Nat /\ DOMAIN h = 1 .. Len(h)
    BY <1>1
  <2>2. Len(h) # 0
    BY <1>1, <2>1 DEF ToSet
  <2> QED
    BY <2>1, <2>2 DEF Last, ToSet
<1>6. places \subseteq ToSet(list)
  BY <1>2, <1>5 DEF places
<1>7. ASSUME NEW i \in DOMAIN bd PROVE i \in ToSet(list) <=> (bd[i].list = h \/ bd[i].list = t)
  <2>1. i \in ToSet(bd[i].list)
    BY DEF Chains
  <2> QED
    BY <1>1, <1>2, <2>1
<1>8. new[a].list = list /\ new[b].list = list
  BY <1>1, <1>2, <1>4
<1>9. Alike(new)
  <2> SUFFICES ASSUME NEW i \in DOMAIN bd, NEW d \in ToSet(new[i].list)
               PROVE  new[d].is_posted = new[i].is_posted
    BY <1>4 DEF Alike
  <2>1. CASE i \in ToSet(list)
    <3>1. d \in ToSet(list)
      BY <1>4, <2>1
    <3> QED
      BY <1>8, <2>1, <3>1 DEF ChainLike
  <2>2. CASE i \notin ToSet(list)
    <3>1. d \in ToSet(bd[i].list)
      BY <1>4, <2>2
    <3>2. d \in DOMAIN bd /\ bd[d].list = bd[i].list /\ bd[d].is_posted = bd[i].is_posted
      BY <3>1 DEF Chains, Alike
    <3>3. d \notin ToSet(list)
      BY <1>7, <2>2, <3>2
    <3> QED
      BY <1>4, <1>6, <2>2, <3>2, <3>3
  <2> QED
    BY <2>1, <2>2
<1>10. ASSUME NEW i \in DOMAIN bd, bd[i].is_posted PROVE new[i].is_posted
  <2>1. CASE i \in places
    <3>1. i \in ToSet(h) \/ i \in ToSet(t)
      BY <1>2, <1>6, <2>1
    <3>2. bd[i].is_posted = bd[a].is_posted \/ bd[i].is_posted = bd[b].is_posted
      BY <3>1 DEF Alike
    <3>3. f
      BY <1>10, <3>2
    <3> QED
      BY <1>4, <2>1, <3>3
  <2>2. CASE i \notin places
    BY <1>4, <1>10, <2>2
  <2> QED
    BY <2>1, <2>2
<1>11. ASSUME NEW i \in DOMAIN bd, NEW j \in DOMAIN bd, bd[i].list = bd[j].list PROVE new[i].list = new[j].list
  BY <1>4, <1>7, <1>11
<1> QED
  BY <1>4, <1>8, <1>9, <1>10, <1>11 DEF KeepsReach, Joined

LEMMA PostReachesChain ==
  ASSUME NEW bd, Chains(bd), Alike(bd), NEW p \in Task, Chan(p) \in DOMAIN bd, NEW data,
         NEW new, new = WithPost(bd, p, data)
  PROVE  Alike(new) /\ KeepsReach(new, bd) /\ new[Chan(p)].is_posted /\ DOMAIN new = DOMAIN bd
<1> DEFINE c == Chan(p)
           list == bd[c].list
           part == [bd EXCEPT ![c].data = data]
           filled == [bd EXCEPT ![c].data = data, ![c].sender = Index(p)]
<1>1. /\ DOMAIN filled = DOMAIN bd /\ Chains(filled)
      /\ \A i \in DOMAIN bd : filled[i].list = bd[i].list /\ filled[i].is_posted = bd[i].is_posted
  <2>1. /\ DOMAIN part = DOMAIN bd /\ part[c] = [bd[c] EXCEPT !.data = data]
        /\ \A i \in DOMAIN bd : i # c => part[i] = bd[i]
    OBVIOUS
  <2> HIDE DEF c
  <2>2. filled = [part EXCEPT ![c].sender = Index(p)]
    OBVIOUS
  <2> HIDE DEF part
  <2>3. /\ DOMAIN filled = DOMAIN bd /\ filled[c] = [part[c] EXCEPT !.sender = Index(p)]
        /\ \A i \in DOMAIN bd : i # c => filled[i] = bd[i]
    BY <2>1, <2>2 DEF c
  <2> HIDE DEF filled
  <2>4. bd[c] = [id |-> bd[c].id, data |-> bd[c].data, sender |-> bd[c].sender,
                 is_posted |-> bd[c].is_posted, list |-> bd[c].list]
    BY DEF Chains, c
  <2>5. part[c] = [id |-> bd[c].id, data |-> data, sender |-> bd[c].sender,
                   is_posted |-> bd[c].is_posted, list |-> bd[c].list]
    BY <2>1, <2>4
  <2>6. filled[c] = [id |-> bd[c].id, data |-> data, sender |-> Index(p),
                     is_posted |-> bd[c].is_posted, list |-> bd[c].list]
    BY <2>3, <2>5
  <2>7. filled[c].list = bd[c].list /\ filled[c].is_posted = bd[c].is_posted
        /\ filled[c] = [id |-> filled[c].id, data |-> filled[c].data, sender |-> filled[c].sender,
                        is_posted |-> filled[c].is_posted, list |-> filled[c].list]
    BY <2>6
  <2>8. Chains(filled)
    <3> SUFFICES ASSUME NEW i \in DOMAIN bd
                 PROVE  /\ filled[i].list \in Seq(Int) /\ i \in ToSet(filled[i].list)
                        /\ ToSet(filled[i].list) \subseteq DOMAIN bd
                        /\ \A d \in ToSet(filled[i].list) : filled[d].list = filled[i].list
                        /\ filled[i] = [id |-> filled[i].id, data |-> filled[i].data, sender |-> filled[i].sender,
                                        is_posted |-> filled[i].is_posted, list |-> filled[i].list]
      BY <2>3 DEF Chains
    <3>1. \A j \in DOMAIN bd : filled[j].list = bd[j].list
      BY <2>3, <2>7
    <3>2. /\ bd[i].list \in Seq(Int) /\ i \in ToSet(bd[i].list) /\ ToSet(bd[i].list) \subseteq DOMAIN bd
          /\ \A d \in ToSet(bd[i].list) : bd[d].list = bd[i].list
      BY DEF Chains
    <3>3. filled[i] = [id |-> filled[i].id, data |-> filled[i].data, sender |-> filled[i].sender,
                       is_posted |-> filled[i].is_posted, list |-> filled[i].list]
      <4>1. CASE i = c
        BY <2>7, <4>1
      <4>2. CASE i # c
        BY <2>3, <4>2 DEF Chains
      <4> QED
        BY <4>1, <4>2
    <3> QED
      BY <3>1, <3>2, <3>3
  <2> QED
    BY <2>3, <2>7, <2>8 DEF filled
<1>2. new = SetChain(filled, list, ToSet(list), TRUE)
  BY Zenon DEF WithPost, filled, list, c
<1> HIDE DEF filled, list
<1>3. /\ DOMAIN new = DOMAIN bd
      /\ \A i \in DOMAIN bd : /\ new[i].list = IF i \in ToSet(list) THEN list ELSE bd[i].list
                              /\ new[i].is_posted = IF i \in ToSet(list) THEN TRUE ELSE bd[i].is_posted
  <2>1. PICK F, f : F = filled /\ f = TRUE
    OBVIOUS
  <2>2. Chains(F) /\ new = SetChain(F, list, ToSet(list), f)
    BY <1>1, <1>2, <2>1
  <2>3. /\ DOMAIN new = DOMAIN F
        /\ \A i \in DOMAIN F : /\ new[i].list = IF i \in ToSet(list) THEN list ELSE F[i].list
                               /\ new[i].is_posted = IF i \in ToSet(list) THEN f ELSE F[i].is_posted
    BY <2>2, SetChainFields
  <2> QED
    BY <1>1, <2>1, <2>3
<1>4. /\ c \in DOMAIN bd /\ c \in ToSet(list) /\ list = bd[c].list
      /\ \A d \in ToSet(list) : bd[d].list = list /\ d \in DOMAIN bd
  BY DEF Chains, list
<1>5. \A i \in DOMAIN bd : i \in ToSet(bd[i].list) /\ ToSet(bd[i].list) \subseteq DOMAIN bd
        /\ \A d \in ToSet(bd[i].list) : bd[d].list = bd[i].list
  BY DEF Chains
<1> HIDE DEF c
<1>6. \A i \in DOMAIN bd : new[i].list = bd[i].list
  BY <1>3, <1>4
<1>7. Alike(new)
  <2> SUFFICES ASSUME NEW i \in DOMAIN bd, NEW d \in ToSet(bd[i].list)
               PROVE  new[d].is_posted = new[i].is_posted
    BY <1>3, <1>6 DEF Alike
  <2>1. d \in DOMAIN bd /\ bd[d].list = bd[i].list /\ bd[d].is_posted = bd[i].is_posted
    BY <1>5 DEF Alike
  <2>2. d \in ToSet(list) <=> i \in ToSet(list)
    BY <1>4, <1>5, <2>1
  <2> QED
    BY <1>3, <2>1, <2>2
<1>8. new[c].is_posted
  BY <1>3, <1>4
<1> QED
  BY <1>3, <1>6, <1>7, <1>8 DEF KeepsReach, c


(* A step that neither posts nor skips. *)
LEMMA ReachKeeps ==
  ASSUME ReachInv, program' = program, board' = board, \A q \in Task : HasPosted(q)' = HasPosted(q),
         \A q \in Task : program[q] = "skip" /\ pos'[q] > 1 => pos[q] > 1
  PROVE  ReachInv'
<1>1. Alike(board)'
  BY DEF ReachInv, Alike
<1>2. ASSUME NEW q \in Task PROVE Marked(q)' /\ Linked(q)'
  BY DEF ReachInv, Marked, Linked
<1> QED
  BY <1>1, <1>2 DEF ReachInv

LEMMA ReachStands ==
  ASSUME ReachInv, program' = program, board' = board, pos' = pos
  PROVE  ReachInv'
BY ReachKeeps DEF HasPosted, EndAt

LEMMA ReachAdvances ==
  ASSUME PwInv, ReachInv, NEW p \in Task, NEW op, At(p, op), op # "skip", Advance(p),
         program' = program, board' = board,
         program[p] = "plain" \/ pos[p] # EndAt(program[p])
  PROVE  ReachInv'
<1>1. /\ PwType /\ program[p] \in AllKinds /\ pos[p] \in 1 .. Len(Steps(program[p]))
      /\ Steps(program[p])[pos[p]].op = op
  BY StepFacts DEF PwInv
<1>2. \A q \in Task : HasPosted(q)' = HasPosted(q)
  BY <1>1, NotPosting
<1>3. program[p] # "skip"
  <2>1. program[p] = "skip" => pos[p] = 1
    BY <1>1, OneOfTheSteps
  <2> QED
    BY <1>1, <2>1, StepsAre, StepFields
<1>4. \A q \in Task : q # p => pos'[q] = pos[q]
  BY <1>1, AdvanceFacts
<1> QED
  BY <1>2, <1>3, <1>4, ReachKeeps

LEMMA SkipReach ==
  ASSUME PwInv, ReachInv, NEW p \in Task, OrderedSkip(p), MarksChain
  PROVE  ReachInv'
<1> DEFINE o == Chan(p - 1)
           c == Chan(p)
<1>1. /\ program' = program /\ program[p] = "skip" /\ PwType
      /\ \A q \in Task : q # p => pos'[q] = pos[q]
      /\ \A q \in Task : HasPosted(q)' = HasPosted(q)
  <2>1. At(p, "skip") /\ Advance(p) /\ program' = program
    BY DEF OrderedSkip
  <2>2. /\ PwType /\ program[p] \in AllKinds /\ pos[p] \in 1 .. Len(Steps(program[p]))
        /\ Steps(program[p])[pos[p]].op = "skip"
    BY <2>1, StepFacts DEF PwInv
  <2>3. program[p] = "skip"
    BY <2>2, SkipSteps
  <2> QED
    BY <2>1, <2>2, <2>3, AdvanceFacts, NotPosting
<1>2. PICK bd, f :
        /\ GoodBoard(bd, Posters) /\ DOMAIN bd = DOMAIN board \cup {o, c}
        /\ \A i \in DOMAIN board : bd[i] = board[i]
        /\ Alike(board) => Alike(bd)
        /\ f = (bd[o].is_posted \/ bd[c].is_posted)
        /\ \/ board' = ConnectChain(bd, bd[c].list, bd[o].list, f)
           \/ board' = ConnectChain(bd, bd[o].list, bd[c].list, f)
  BY SkipBoard, Zenon
<1>3. \A d \in ToSet(board'[c].list) : board'[d].is_posted = board'[c].is_posted
  BY DEF MarksChain
<1> HIDE DEF o, c
<1>4. PICK new : new = board'
  OBVIOUS
<1>5. Alike(new) /\ KeepsReach(new, bd) /\ new[o].list = new[c].list /\ DOMAIN new = DOMAIN bd
  <2>1. PICK a, b : a = o /\ b = c
    OBVIOUS
  <2>2. Chains(bd) /\ Alike(bd) /\ a \in DOMAIN bd /\ b \in DOMAIN bd
    BY <1>2, <2>1, GoodChains DEF ReachInv
  <2>3. (ChainLike(new, a) \/ ChainLike(new, b)) /\ (ChainLike(new, b) \/ ChainLike(new, a))
    BY <1>3, <1>4, <2>1 DEF ChainLike
  <2>4. (bd[a].is_posted \/ bd[b].is_posted => f = TRUE) /\ (bd[b].is_posted \/ bd[a].is_posted => f = TRUE)
    BY <1>2, <2>1
  <2>5. CASE new = ConnectChain(bd, bd[b].list, bd[a].list, f)
    <3>1. Joined(new, bd, b, a)
      BY <2>2, <2>3, <2>4, <2>5, JoinReaches, Zenon
    <3> QED
      BY <2>1, <3>1 DEF Joined
  <2>6. CASE new = ConnectChain(bd, bd[a].list, bd[b].list, f)
    <3>1. Joined(new, bd, a, b)
      BY <2>2, <2>3, <2>4, <2>6, JoinReaches, Zenon
    <3> QED
      BY <2>1, <3>1 DEF Joined
  <2> QED
    BY <1>2, <1>4, <2>1, <2>5, <2>6
<1>6. KeepsReach(board', board)
  BY <1>2, <1>4, <1>5 DEF KeepsReach
<1>7. ASSUME NEW q \in Task PROVE Marked(q)'
  <2>1. HasPosted(q) => Chan(q) \in DOMAIN board
    BY DEF PwInv, BoardInv, PostedData
  <2> QED
    BY <1>1, <1>6, <2>1 DEF ReachInv, Marked, KeepsReach
<1>8. ASSUME NEW q \in Task PROVE Linked(q)'
  <2>1. CASE q = p
    BY <1>2, <1>4, <1>5, <2>1 DEF Linked, o, c
  <2>2. CASE q # p
    <3>1. Linked(q) /\ pos'[q] = pos[q]
      BY <1>1, <2>2 DEF ReachInv
    <3> QED
      BY <1>1, <1>6, <3>1 DEF Linked, KeepsReach
  <2> QED
    BY <2>1, <2>2
<1>9. Alike(board)'
  BY <1>4, <1>5 DEF Alike
<1> QED
  BY <1>7, <1>8, <1>9 DEF ReachInv


(* The end of an ordered region posts, or is that of region 11, which is   *)
(* ignored.                                                                *)
LEMMA EndBoard ==
  ASSUME PwInv, NEW p \in Task, OrderedEnd(p)
  PROVE  /\ program' = program /\ program[p] # "skip" /\ \A q \in Task : q # p => pos'[q] = pos[q]
         /\ \/ board' = board /\ \A q \in Task : HasPosted(q)' = HasPosted(q)
            \/ /\ \E data : board' = WithPost(GetChannel(board, Chan(p)), p, data)
               /\ \A q \in Task : q # p => HasPosted(q)' = HasPosted(q)
<1> DEFINE kind == program[p]
           n == pos[p]
           r == Steps(kind)[n].region
           id == ChannelForRegion(r, p)
           local == ChannelFill(p, id)
           data == local.data \cap write_map[p]
           taken == local.id \in {0, id}
           ok == taken /\ Free(id) /\ (Slot(id) \in DOMAIN board => ~board[Slot(id)].is_posted)
<1>1. At(p, "end") /\ Advance(p) /\ program' = program /\ in_ordered[p] = Step(p).region
  BY DEF OrderedEnd
<1>2. /\ kind \in AllKinds /\ n \in 1 .. Len(Steps(kind)) /\ Step(p) = Steps(kind)[n]
      /\ Steps(kind)[n].op = "end" /\ Private(p) /\ PwType /\ BoardInv
  BY <1>1, StepFacts DEF PwInv
<1>3. board' = IF ok THEN Posted(id, p, [a \in data |-> mem[p][a]]) ELSE board
  BY <1>2 DEF OrderedEnd
<1>4. \A q \in Task : q # p => pos'[q] = pos[q] /\ HasPosted(q)' = HasPosted(q)
  <2>1. \A q \in Task : q # p => pos'[q] = pos[q]
    BY <1>1, <1>2, AdvanceFacts
  <2> QED
    BY <1>1, <2>1 DEF HasPosted, EndAt
<1>5. InRegion(kind, n) = r
  BY <1>1, <1>2 DEF Private
<1> HIDE DEF ok, local, data, taken, id, r
<1>6. CASE kind = "twice" /\ n = 8 /\ r = 11
  <2>1. id # Chan(p) /\ Slot(id) = Chan(p) /\ p \in Place
    BY <1>6, SlotFacts DEF id
  <2>2. HasPosted(p) /\ n # EndAt(kind)
    BY <1>6 DEF HasPosted, EndAt
  <2>3. Chan(p) \in DOMAIN board
    BY <1>2, <2>2 DEF BoardInv, PostedData
  <2>4. board[Chan(p)].id = Chan(p)
    BY <1>2, <2>1, <2>3, OnBoardFacts
  <2>5. ~ok
    BY <2>1, <2>3, <2>4 DEF ok, Free
  <2>6. \A q \in Task : HasPosted(q)' = HasPosted(q)
    BY <1>1, <1>2, <2>2, NotPosting
  <2> QED
    BY <1>1, <1>3, <1>4, <1>6, <2>5, <2>6
<1>7. CASE /\ kind \notin {"skip", "plain"} /\ n = EndAt(kind) /\ r = 1 /\ n <= 5
  <2>1. id = Chan(p) /\ Slot(Chan(p)) = Chan(p)
    BY <1>7, SlotFacts DEF id
  <2>2. taken
    <3>1. local_ch[p] = NoLocal
      BY <1>2, <1>7 DEF Private
    <3>2. local = NoLocal \/ local.id = id
      BY <3>1 DEF local, ChannelFill
    <3> QED
      BY <3>2 DEF taken, NoLocal
  <2>3. ~HasPosted(p)
    BY <1>2, <1>7 DEF HasPosted
  <2>4. ok
    BY <1>7, <2>1, <2>2, <2>3, EndFindsFree DEF ok
  <2>5. board' = WithPost(GetChannel(board, Chan(p)), p, [a \in data |-> mem[p][a]])
    BY <1>3, <2>1, <2>4 DEF Posted, WithPost
  <2> QED
    BY <1>1, <1>4, <1>7, <2>5
<1> QED
  BY <1>2, <1>5, <1>6, <1>7, EndTables DEF r

LEMMA EndReach ==
  ASSUME PwInv, ReachInv, NEW p \in Task, OrderedEnd(p)
  PROVE  ReachInv'
<1>1. program' = program /\ program[p] # "skip" /\ \A q \in Task : q # p => pos'[q] = pos[q]
  BY EndBoard
<1>2. CASE board' = board /\ \A q \in Task : HasPosted(q)' = HasPosted(q)
  BY <1>1, <1>2, ReachKeeps
<1>3. ASSUME NEW data, board' = WithPost(GetChannel(board, Chan(p)), p, data),
             \A q \in Task : q # p => HasPosted(q)' = HasPosted(q)
      PROVE  ReachInv'
  <2>1. PICK bd : bd = GetChannel(board, Chan(p))
    OBVIOUS
  <2>2. /\ GoodBoard(board, Posters) /\ GoodBoard(bd, Posters) /\ DOMAIN bd = DOMAIN board \cup {Chan(p)}
        /\ \A i \in DOMAIN board : bd[i] = board[i]
    <3>1. GoodBoard(board, Posters) /\ p \in Place /\ Slot(Chan(p)) = Chan(p)
      BY SlotFacts DEF PwInv, BoardInv
    <3> QED
      BY <2>1, <3>1, GetChannelGood
  <2>3. Chains(bd) /\ Alike(bd) /\ Chan(p) \in DOMAIN bd
    <3>1. Chains(board) /\ Chains(bd)
      BY <2>2, GoodChains
    <3>2. Alike(bd)
      BY <2>2, <3>1, NewIsAlike DEF ReachInv
    <3> QED
      BY <2>2, <3>1, <3>2
  <2>4. PICK new : new = board'
    OBVIOUS
  <2>5. new = WithPost(bd, p, data)
    BY <1>3, <2>1, <2>4
  <2>6. Alike(new) /\ KeepsReach(new, bd) /\ new[Chan(p)].is_posted /\ DOMAIN new = DOMAIN bd
    BY <2>3, <2>5, PostReachesChain
  <2>7. KeepsReach(board', board)
    BY <2>2, <2>4, <2>6 DEF KeepsReach
  <2>8. ASSUME NEW q \in Task PROVE Marked(q)'
    <3>1. CASE q = p
      BY <2>4, <2>6, <3>1 DEF Marked, Chan
    <3>2. CASE q # p
      <4>1. HasPosted(q) => Chan(q) \in DOMAIN board
        BY DEF PwInv, BoardInv, PostedData
      <4> QED
        BY <1>3, <2>7, <3>2, <4>1 DEF ReachInv, Marked, KeepsReach
    <3> QED
      BY <3>1, <3>2
  <2>9. ASSUME NEW q \in Task PROVE Linked(q)'
    BY <1>1, <2>7 DEF ReachInv, Linked, KeepsReach
  <2>10. Alike(board)'
    BY <2>4, <2>6 DEF Alike
  <2> QED
    BY <2>8, <2>9, <2>10 DEF ReachInv
<1> QED
  BY <1>2, <1>3, EndBoard

LEMMA ReachInit == Init => ReachInv
<1> SUFFICES ASSUME Init PROVE ReachInv
  OBVIOUS
<1>1. Alike(board)
  BY DEF Init, NoMap, Alike
<1>2. ASSUME NEW q \in Task PROVE Marked(q) /\ Linked(q)
  <2>1. pos[q] = 1 /\ EndAt(program[q]) \in {2, 3, 4, 5}
    BY DEF Init, EndAt
  <2> QED
    BY <2>1 DEF Marked, Linked, HasPosted
<1> QED
  BY <1>1, <1>2 DEF ReachInv

LEMMA ReachNext == PwInv /\ ReachInv /\ [Next]_vars /\ [MarksChain]_vars => ReachInv'
<1> SUFFICES ASSUME PwInv, ReachInv, [Next]_vars, [MarksChain]_vars PROVE ReachInv'
  OBVIOUS
<1>1. CASE UNCHANGED vars
  BY <1>1, ReachStands DEF vars
<1>2. ASSUME NEW p \in Task, TaskStep(p), MarksChain PROVE ReachInv'
  <2>1. CASE DoAccess(p)
    <3>1. At(p, "access") /\ Advance(p) /\ program' = program /\ board' = board
      BY <2>1 DEF DoAccess
    <3>2. program[p] = "plain" \/ pos[p] # EndAt(program[p])
      BY <3>1, StepFacts, AccessTables
    <3> QED
      BY <3>1, <3>2, ReachAdvances
  <2>2. CASE OrderedBegin(p)
    <3>1. At(p, "begin") /\ Advance(p) /\ program' = program /\ board' = board
      BY <2>2 DEF OrderedBegin
    <3>2. pos[p] # EndAt(program[p])
      BY <3>1, StepFacts, BeginTables
    <3> QED
      BY <3>1, <3>2, ReachAdvances
  <2>3. CASE OrderedIgnored(p)
    <3>1. Advance(p) /\ program' = program /\ board' = board
      BY <2>3 DEF OrderedIgnored
    <3>2. CASE At(p, "begin")
      <4>1. pos[p] # EndAt(program[p])
        BY <3>2, StepFacts, BeginTables
      <4> QED
        BY <3>1, <3>2, <4>1, ReachAdvances
    <3>3. CASE At(p, "end") /\ in_ordered[p] # Step(p).region
      <4>1. /\ program[p] \in AllKinds /\ pos[p] \in 1 .. Len(Steps(program[p]))
            /\ Steps(program[p])[pos[p]].op = "end" /\ Step(p) = Steps(program[p])[pos[p]] /\ Private(p)
        BY <3>3, StepFacts
      <4>2. InRegion(program[p], pos[p]) # Steps(program[p])[pos[p]].region
        BY <3>3, <4>1 DEF Private
      <4>3. pos[p] # EndAt(program[p])
        BY <4>1, <4>2, IgnoredEndTables
      <4> QED
        BY <3>1, <3>3, <4>3, ReachAdvances
    <3> QED
      BY <2>3, <3>2, <3>3 DEF OrderedIgnored
  <2>4. CASE OrderedSkip(p)
    BY <1>2, <2>4, SkipReach
  <2>5. CASE OrderedEnd(p)
    BY <2>5, EndReach
  <2>6. CASE PprEnd(p) \/ PprIsCorrect(p) \/ PprCommit(p) \/ PprGroupCommit(p) \/ AbortSpec(p)
    BY <2>6, ReachStands DEF PprEnd, PprIsCorrect, PprCommit, PprGroupCommit, AbortSpec
  <2> QED
    BY <1>2, <2>1, <2>2, <2>3, <2>4, <2>5, <2>6 DEF TaskStep
<1> QED
  BY <1>1, <1>2 DEF Next


(* From MAIN's post on, over tasks that skipped and tasks that posted. *)
LEMMA InvReaches == PwInv /\ ReachInv => PostReaches
<1> SUFFICES ASSUME PwInv, ReachInv, Orderly, NEW p \in Task \ {0}, \A q \in 0 .. p - 1 : Ended(q)
             PROVE  LET c == Slot(ChannelForRegion(1, p) - 1)
                    IN  c \in DOMAIN board /\ board[c].is_posted
  BY DEF PostReaches
<1> USE TaskFacts
<1> DEFINE reached(q) == Chan(q) \in DOMAIN board /\ board[Chan(q)].is_posted
           T == {d \in Nat : d <= p - 1 => reached(d)}
<1>1. PwType /\ BoardInv
  BY DEF PwInv
<1>2. ASSUME NEW q \in Task, q <= p - 1, program[q] = "ordered" PROVE reached(q)
  <2>1. q \in 0 .. p - 1
    BY <1>2
  <2>2. Ended(q)
    BY <2>1
  <2>3. "ordered" \in AllKinds /\ Len(Steps("ordered")) = 3
    BY StepsLen DEF AllKinds
  <2>4. pos[q] > 3
    BY <1>2, <2>2, <2>3 DEF Ended
  <2>5. HasPosted(q)
    BY <1>2, <2>4 DEF HasPosted, EndAt
  <2> QED
    BY <1>1, <2>5 DEF BoardInv, PostedData, ReachInv, Marked
<1>3. 0 \in T
  BY <1>2 DEF Orderly
<1>4. ASSUME NEW d \in Nat, d \in T PROVE d + 1 \in T
  <2> SUFFICES ASSUME d + 1 <= p - 1 PROVE reached(d + 1)
    OBVIOUS
  <2>1. PICK q \in Task : q = d + 1 /\ d \in Task /\ q \in 0 .. p - 1 /\ q - 1 = d
    OBVIOUS
  <2>2. reached(d)
    BY <1>4
  <2>3. CASE program[q] = "skip"
    <3>1. "skip" \in AllKinds /\ Len(Steps("skip")) = 1 /\ Ended(q)
      BY <2>1, StepsLen DEF AllKinds
    <3>2. pos[q] > 1
      BY <2>3, <3>1 DEF Ended
    <3>3. /\ Chan(q) \in DOMAIN board /\ Chan(d) \in DOMAIN board
          /\ board[Chan(q)].list = board[Chan(d)].list
      BY <2>1, <2>3, <3>2 DEF ReachInv, Linked
    <3>4. Chan(q) \in ToSet(board[Chan(q)].list)
      <4>1. q \in Place
        BY PlaceFacts
      <4> QED
        BY <1>1, <3>3, <4>1, OnBoardFacts
    <3>5. board[Chan(q)].is_posted = board[Chan(d)].is_posted
      BY <3>3, <3>4 DEF ReachInv, Alike
    <3> QED
      BY <2>1, <2>2, <3>3, <3>5
  <2>4. CASE program[q] = "ordered"
    <3>1. q <= p - 1
      BY <2>1
    <3>2. reached(q)
      BY <1>2, <2>4, <3>1
    <3> QED
      BY <2>1, <3>2
  <2> QED
    BY <2>3, <2>4 DEF Orderly
<1>5. \A d \in Nat : d \in T
  <2> HIDE DEF T
  <2> QED
    BY <1>3, <1>4, NaturalsBySuccessor
<1>6. PICK d \in Nat : d = p - 1
  OBVIOUS
<1>7. reached(d)
  BY <1>5, <1>6
<1>8. Slot(ChannelForRegion(1, p) - 1) = Chan(d)
  BY <1>6, SlotFacts
<1> QED
  BY <1>7, <1>8

(* In every execution in which a skip leaves its whole chain posted, or    *)
(* none of it, the post of a task that leaves the ordered region reaches   *)
(* the next task that enters it, over tasks that skipped it in whatever    *)
(* order.  That connect_chain marks the last channel of a chain only is    *)
(* therefore the only reason why a task can wait forever.                  *)
THEOREM MarkedChainsReach == Spec /\ [][MarksChain]_vars => []PostReaches
<1>1. Init => PwInv /\ ReachInv
  BY PwInit, ReachInit
<1>2. PwInv /\ [Next]_vars => PwInv'
  BY PwNext
<1>3. PwInv /\ ReachInv /\ [Next]_vars /\ [MarksChain]_vars => ReachInv'
  BY ReachNext
<1>4. PwInv /\ ReachInv => PostReaches
  BY InvReaches
<1> QED
  BY <1>1, <1>2, <1>3, <1>4, PTL DEF Spec

=============================================================================
