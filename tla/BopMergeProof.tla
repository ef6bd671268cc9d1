--------------------------- MODULE BopMergeProof ----------------------------
(***************************************************************************)
(* Proofs about the copy-and-merge port for every group size, every set of *)
(* addresses and every program.                                            *)
(***************************************************************************)
EXTENDS BopMerge, SetInduction

-----------------------------------------------------------------------------
(***************************************************************************)
(* Sequential execution.  SequentialFrom is a recursive function; that it  *)
(* satisfies its defining equation is shown by building, for each d, a     *)
(* function that satisfies it on k .. k+d.                                 *)
(***************************************************************************)
Unrolls(k, m, n, f) ==
  f = [i \in k .. n |-> IF i = k THEN m ELSE RunPpr(i, f[i - 1])]

LEMMA UnrollNext ==
  ASSUME NEW k \in Int, NEW m, NEW n \in Int, n >= k, NEW f, Unrolls(k, m, n, f)
  PROVE  \E g : Unrolls(k, m, n + 1, g)
<1> DEFINE g == [i \in k .. n + 1 |-> IF i = n + 1 THEN RunPpr(i, f[n]) ELSE f[i]]
<1>1. ASSUME NEW i \in k .. n + 1
      PROVE  g[i] = IF i = k THEN m ELSE RunPpr(i, g[i - 1])
  <2>1. CASE i = n + 1
    BY <2>1
  <2>2. CASE i # n + 1
    <3>1. i \in k .. n /\ (i # k => i - 1 \in k .. n)
      BY <2>2
    <3>2. f[i] = IF i = k THEN m ELSE RunPpr(i, f[i - 1])
      BY <3>1 DEF Unrolls
    <3> QED
      BY <2>2, <3>1, <3>2
  <2> QED
    BY <2>1, <2>2
<1>2. g = [i \in k .. n + 1 |-> IF i = k THEN m ELSE RunPpr(i, g[i - 1])]
  BY <1>1
<1> QED
  BY <1>2 DEF Unrolls

LEMMA Unrolled ==
  ASSUME NEW k \in Int, NEW m, NEW n \in Int, n >= k
  PROVE  \E f : Unrolls(k, m, n, f)
<1> DEFINE T == {d \in Nat : \E f : Unrolls(k, m, k + d, f)}
<1>1. 0 \in T
  <2> DEFINE f == [i \in k .. k |-> m]
  <2>1. Unrolls(k, m, k, f)
    BY DEF Unrolls
  <2> QED
    BY <2>1
<1>2. ASSUME NEW d \in Nat, d \in T PROVE d + 1 \in T
  <2>1. PICK f : Unrolls(k, m, k + d, f)
    BY <1>2
  <2>2. \E g : Unrolls(k, m, (k + d) + 1, g)
    BY <2>1, UnrollNext
  <2>3. (k + d) + 1 = k + (d + 1)
    OBVIOUS
  <2> QED
    BY <2>2, <2>3
<1>3. \A d \in Nat : d \in T
  <2> HIDE DEF T
  <2> QED
    BY <1>1, <1>2, NaturalsBySuccessor
<1>4. n - k \in T /\ k + (n - k) = n
  BY <1>3
<1> QED
  BY <1>4

(* The memory after n regions is that after n - 1 with region n executed.  *)
LEMMA SequentialUnrolls ==
  ASSUME NEW k \in Int, NEW m, NumRegions \in Int, k <= NumRegions
  PROVE  Unrolls(k, m, NumRegions, SequentialFrom(k, m))
<1>1. \E f : Unrolls(k, m, NumRegions, f)
  BY Unrolled
<1>2. SequentialFrom(k, m) = CHOOSE f : Unrolls(k, m, NumRegions, f)
  BY DEF SequentialFrom, Unrolls
<1> QED
  BY <1>1, <1>2

LEMMA SequentialSteps ==
  /\ Sequential[0] = FirstMemory
  /\ \A n \in 1 .. NumRegions : Sequential[n] = RunPpr(n, Sequential[n - 1])
<1>1. NumRegions \in Nat
  BY MergeAssumption
<1>2. Unrolls(0, FirstMemory, NumRegions, Sequential)
  BY <1>1, SequentialUnrolls DEF Sequential
<1> QED
  BY <1>1, <1>2 DEF Unrolls

(* Code leaves alone what is not in its write set. *)
LEMMA RunPprLeaves ==
  ASSUME NEW n, NEW m, NEW a \in Addr, a \notin program[n].write
  PROVE  RunPpr(n, m)[a] = m[a]
BY DEF RunPpr, Execute

(* An address keeps its value over regions that do not write it. *)
LEMMA Unwritten ==
  ASSUME NEW k \in 0 .. NumRegions, NEW n \in k .. NumRegions, NEW a \in Addr,
         \A i \in k+1 .. n : a \notin program[i].write
  PROVE  Sequential[n][a] = Sequential[k][a]
<1>0. NumRegions \in Nat
  BY MergeAssumption
<1> DEFINE T == {d \in Nat : k + d <= n => Sequential[k + d][a] = Sequential[k][a]}
<1>1. 0 \in T
  BY <1>0
<1>2. ASSUME NEW d \in Nat, d \in T PROVE d + 1 \in T
  <2> SUFFICES ASSUME k + (d + 1) <= n
               PROVE  Sequential[k + (d + 1)][a] = Sequential[k][a]
    OBVIOUS
  <2>1. k + d + 1 \in 1 .. NumRegions /\ k + d + 1 \in k+1 .. n
    BY <1>0
  <2>2. Sequential[k + d + 1] = RunPpr(k + d + 1, Sequential[k + d + 1 - 1])
    BY <2>1, SequentialSteps
  <2>3. k + d + 1 - 1 = k + d /\ k + (d + 1) = k + d + 1
    BY <1>0
  <2>4. RunPpr(k + d + 1, Sequential[k + d])[a] = Sequential[k + d][a]
    BY <2>1, RunPprLeaves
  <2>5. Sequential[k + d][a] = Sequential[k][a]
    BY <1>0, <1>2
  <2> QED
    BY <2>2, <2>3, <2>4, <2>5
<1>3. \A d \in Nat : d \in T
  <2> HIDE DEF T
  <2> QED
    BY <1>1, <1>2, NaturalsBySuccessor
<1>4. n - k \in T /\ k + (n - k) = n
  BY <1>0, <1>3
<1> QED
  BY <1>0, <1>4

(* To execute sequentially from the memory after k regions is to execute   *)
(* sequentially.                                                           *)
LEMMA SequentialResumes ==
  ASSUME NEW k \in 0 .. NumRegions, NEW n \in k .. NumRegions
  PROVE  SequentialFrom(k, Sequential[k])[n] = Sequential[n]
<1>0. NumRegions \in Nat /\ k \in Int /\ k <= NumRegions
  BY MergeAssumption
<1> DEFINE F == SequentialFrom(k, Sequential[k])
           T == {d \in Nat : k + d <= NumRegions => F[k + d] = Sequential[k + d]}
<1>1. Unrolls(k, Sequential[k], NumRegions, F)
  BY <1>0, SequentialUnrolls
<1>2. \A i \in k .. NumRegions : F[i] = IF i = k THEN Sequential[k] ELSE RunPpr(i, F[i - 1])
  BY <1>1 DEF Unrolls
<1> HIDE DEF F
<1>3. 0 \in T
  BY <1>0, <1>2
<1>4. ASSUME NEW d \in Nat, d \in T PROVE d + 1 \in T
  <2> SUFFICES ASSUME k + (d + 1) <= NumRegions
               PROVE  F[k + (d + 1)] = Sequential[k + (d + 1)]
    OBVIOUS
  <2> DEFINE i == k + (d + 1)
  <2>1. i \in 1 .. NumRegions /\ i \in k .. NumRegions /\ i # k /\ i - 1 = k + d
    BY <1>0
  <2>2. F[i] = RunPpr(i, F[i - 1]) /\ Sequential[i] = RunPpr(i, Sequential[i - 1])
    BY <1>2, <2>1, SequentialSteps
  <2>3. F[k + d] = Sequential[k + d]
    BY <1>0, <1>4
  <2> QED
    BY <2>1, <2>2, <2>3
<1>5. \A d \in Nat : d \in T
  <2> HIDE DEF T
  <2> QED
    BY <1>3, <1>4, NaturalsBySuccessor
<1>6. n - k \in T /\ k + (n - k) = n
  BY <1>0, <1>5
<1>7. F[n] = Sequential[n]
  BY <1>0, <1>6
<1> QED
  BY <1>7 DEF F

(* The program does not change, and neither does its sequential execution. *)
LEMMA SequentialFixed ==
  ASSUME UNCHANGED program
  PROVE  Sequential' = Sequential
BY DEF Sequential, SequentialFrom, RunPpr, FirstMemory

-----------------------------------------------------------------------------
(***************************************************************************)
(* The shape of a group: its tasks start in order and pass their checks in *)
(* order, a task's maps hold what its region accesses, and the write union *)
(* holds what the tasks that have passed wrote.                            *)
(***************************************************************************)
Started(p) == st[p] \in {"ran", "checked", "committed"}
Passed(p) == st[p] \in {"checked", "committed"}
RegionOf(p) == now + p + 1

MergeType ==
  /\ program \in Programs
  /\ now \in 0 .. NumRegions
  /\ st \in [Task -> TaskState]
  /\ partial_size \in 0 .. GroupSize
  /\ mem = [p \in Task |-> mem[p]]
  /\ read_map = [p \in Task |-> read_map[p]]
  /\ write_map = [p \in Task |-> write_map[p]]
  /\ patches = [p \in Task |-> patches[p]]

StartsInOrder ==
  \A p, q \in Task : p < q /\ st[p] \in {"none", "begin"} => st[q] = "none"
PassesInOrder == \A p, q \in Task : p < q /\ Passed(q) => Passed(p)
MapsExact ==
  \A p \in Task : Started(p) => /\ RegionOf(p) \in 1 .. NumRegions
                                /\ read_map[p] = program[RegionOf(p)].read
                                /\ write_map[p] = program[RegionOf(p)].write
UnionOfPassed ==
  /\ \A p \in Task : Passed(p) => write_map[p] \subseteq write_union
  /\ st[0] # "none" => \A a \in write_union : \E q \in Task : Passed(q) /\ a \in write_map[q]
PassedDisjoint ==
  \A p, q \in Task : q < p /\ Passed(p) => read_map[p] \cap write_map[q] = {}

ShapeInv == /\ MergeType /\ StartsInOrder /\ PassesInOrder
            /\ MapsExact /\ UnionOfPassed /\ PassedDisjoint

LEMMA TaskFacts ==
  /\ GroupSize \in Int /\ GroupSize >= 2 /\ NumRegions \in Nat
  /\ 0 \in Task
  /\ \A p \in Task : p \in Int /\ 0 <= p /\ p < GroupSize
  /\ \A p \in Int : 0 <= p /\ p < GroupSize => p \in Task
BY MergeAssumption DEF Task

(* MAIN is the first to pass, so nobody has passed while it has not. *)
LEMMA ShapeMainPasses == ShapeInv => MainPasses
<1> SUFFICES ASSUME ShapeInv, st[0] = "ran", NEW a \in write_union PROVE FALSE
  BY DEF MainPasses, Overlap
<1>1. PICK q \in Task : Passed(q)
  BY DEF ShapeInv, UnionOfPassed
<1>2. ~Passed(0)
  BY DEF Passed
<1> QED
  BY <1>1, <1>2, TaskFacts DEF ShapeInv, PassesInOrder

LEMMA InitShape == Init => ShapeInv
<1> SUFFICES ASSUME Init PROVE ShapeInv
  OBVIOUS
<1>1. \A p \in Task : st[p] = "none"
  BY DEF Init
<1>2. MergeType
  BY TaskFacts DEF Init, MergeType, TaskState
<1>3. StartsInOrder /\ PassesInOrder /\ MapsExact /\ UnionOfPassed /\ PassedDisjoint
  BY <1>1, TaskFacts DEF StartsInOrder, PassesInOrder, MapsExact, UnionOfPassed,
     PassedDisjoint, Started, Passed
<1> QED
  BY <1>2, <1>3 DEF ShapeInv

LEMMA ShapeStart ==
  ASSUME ShapeInv, BopMergeInit
  PROVE  ShapeInv'
<1> USE TaskFacts
<1>1. st'[0] = "begin" /\ \A q \in Task : q # 0 => st'[q] = "none"
  BY DEF BopMergeInit, Seq, ShapeInv, MergeType
<1>2. MergeType'
  <2>1. st' \in [Task -> TaskState] /\ partial_size' \in 0 .. GroupSize
    BY DEF BopMergeInit, ShapeInv, MergeType, TaskState
  <2> QED
    BY <2>1 DEF BopMergeInit, ShapeInv, MergeType
<1>3. StartsInOrder' /\ PassesInOrder' /\ MapsExact' /\ UnionOfPassed' /\ PassedDisjoint'
  BY <1>1 DEF BopMergeInit, StartsInOrder, PassesInOrder, MapsExact, UnionOfPassed,
     PassedDisjoint, Started, Passed
<1> QED
  BY <1>2, <1>3 DEF ShapeInv

LEMMA ShapeRun ==
  ASSUME ShapeInv, NEW p \in Task, RunTask(p)
  PROVE  ShapeInv'
<1> USE TaskFacts
<1>0. MergeType /\ st[p] = "begin" /\ RegionOf(p) \in 1 .. NumRegions
      /\ UNCHANGED <<program, now, partial_size, write_union, patches>>
  BY DEF RunTask, ShapeInv, MergeType, RegionOf
<1>1. /\ st'[p] = "ran"
      /\ \A q \in Task : q < p => st'[q] = st[q]
      /\ \A q \in Task : q > p => st[q] = "none" /\ st'[q] \in {"none", "begin"}
      /\ \A q \in Task : q > p + 1 => st'[q] = "none"
  <2>1. \A q \in Task : q > p => st[q] = "none"
    BY <1>0 DEF ShapeInv, StartsInOrder
  <2> QED
    BY <1>0, <2>1 DEF RunTask, MergeType
<1>2. /\ read_map'[p] = program[RegionOf(p)].read
      /\ write_map'[p] = program[RegionOf(p)].write
      /\ \A q \in Task : q # p => read_map'[q] = read_map[q] /\ write_map'[q] = write_map[q]
  BY <1>0 DEF RunTask, MergeType, RegionOf
<1>3. MergeType'
  <2>1. st' \in [Task -> TaskState]
    BY <1>0 DEF RunTask, MergeType, TaskState
  <2>2. mem' = [q \in Task |-> mem'[q]]
    BY DEF RunTask
  <2>3. read_map' = [q \in Task |-> read_map'[q]] /\ write_map' = [q \in Task |-> write_map'[q]]
    BY <1>0 DEF RunTask, MergeType
  <2> QED
    BY <1>0, <2>1, <2>2, <2>3 DEF MergeType
<1>4. StartsInOrder'
  BY <1>0, <1>1 DEF ShapeInv, StartsInOrder
<1>5. \A q \in Task : Passed(q)' <=> Passed(q)
  BY <1>0, <1>1 DEF Passed
<1>6. PassesInOrder'
  BY <1>5 DEF ShapeInv, PassesInOrder
<1>7. MapsExact'
  <2> SUFFICES ASSUME NEW q \in Task, Started(q)'
               PROVE  /\ RegionOf(q)' \in 1 .. NumRegions
                      /\ read_map'[q] = program'[RegionOf(q)'].read
                      /\ write_map'[q] = program'[RegionOf(q)'].write
    BY DEF MapsExact
  <2>1. RegionOf(q)' = RegionOf(q) /\ program' = program
    BY <1>0 DEF RegionOf
  <2>2. CASE q = p
    BY <1>0, <1>2, <2>1, <2>2
  <2>3. CASE q # p
    <3>1. Started(q)
      BY <1>1, <2>3 DEF Started
    <3> QED
      BY <1>2, <2>1, <2>3, <3>1 DEF ShapeInv, MapsExact
  <2> QED
    BY <2>2, <2>3
<1>8. \A q \in Task : Passed(q) => write_map'[q] = write_map[q] /\ read_map'[q] = read_map[q]
  BY <1>0, <1>2 DEF Passed
<1>9. UnionOfPassed'
  <2>1. st'[0] # "none" => st[0] # "none"
    BY <1>0, <1>1
  <2> QED
    BY <1>0, <1>5, <1>8, <2>1 DEF ShapeInv, UnionOfPassed
<1>10. PassedDisjoint'
  BY <1>5, <1>6, <1>8 DEF ShapeInv, PassedDisjoint, PassesInOrder
<1> QED
  BY <1>3, <1>4, <1>6, <1>7, <1>9, <1>10 DEF ShapeInv

(* A cut takes only tasks that have not passed, and never MAIN. *)
LEMMA ShapeCut ==
  ASSUME ShapeInv, NEW p \in Task, p > 0, Cut(p), ~Passed(p),
         UNCHANGED <<program, now, mem, read_map, write_map, write_union, patches>>
  PROVE  ShapeInv' /\ \A q \in Task : Passed(q)' <=> Passed(q)
<1> USE TaskFacts
<1>1. \A q \in Task : st'[q] = IF q >= p THEN "none" ELSE st[q]
  BY DEF Cut
<1>2. \A q \in Task : Passed(q) => q < p
  BY DEF ShapeInv, PassesInOrder
<1>3. \A q \in Task : Passed(q)' <=> Passed(q)
  BY <1>1, <1>2 DEF Passed
<1>4. MergeType'
  <2>1. st' \in [Task -> TaskState] /\ partial_size' \in 0 .. GroupSize
    BY DEF Cut, ShapeInv, MergeType, TaskState
  <2> QED
    BY <2>1 DEF ShapeInv, MergeType
<1>5. StartsInOrder'
  BY <1>1 DEF ShapeInv, StartsInOrder
<1>6. PassesInOrder' /\ PassedDisjoint'
  BY <1>3 DEF ShapeInv, PassesInOrder, PassedDisjoint
<1>7. MapsExact'
  BY <1>1 DEF ShapeInv, MapsExact, Started, RegionOf
<1>8. UnionOfPassed'
  <2>1. st'[0] = st[0]
    BY <1>1
  <2> QED
    BY <1>3, <2>1 DEF ShapeInv, UnionOfPassed
<1> QED
  BY <1>3, <1>4, <1>5, <1>6, <1>7, <1>8 DEF ShapeInv

LEMMA ShapeCheck ==
  ASSUME ShapeInv, NEW p \in Task, PprIsCorrect(p)
  PROVE  ShapeInv'
<1> USE TaskFacts
<1>0. /\ st[p] = "ran" /\ MergeType
      /\ p > 0 => Passed(p - 1)
      /\ UNCHANGED <<program, now, mem, read_map, write_map, patches>>
  BY DEF PprIsCorrect, ShapeInv, Passed
<1>1. CASE Overlap(read_map[p]) # {}
  <2>1. Cut(p) /\ UNCHANGED write_union
    BY <1>1 DEF PprIsCorrect
  <2>2. p # 0
    BY <1>0, <1>1, ShapeMainPasses DEF MainPasses
  <2> QED
    BY <1>0, <2>1, <2>2, ShapeCut DEF Passed
<1>2. CASE Overlap(read_map[p]) = {}
  <2>1. /\ write_union' = write_union \cup write_map[p]
        /\ st' = [st EXCEPT ![p] = "checked"]
        /\ UNCHANGED partial_size
    BY <1>2 DEF PprIsCorrect
  <2>2. st'[p] = "checked" /\ \A q \in Task : q # p => st'[q] = st[q]
    BY <1>0, <2>1 DEF MergeType
  <2>3. Passed(p)' /\ \A q \in Task : q # p => (Passed(q)' <=> Passed(q))
    BY <2>2 DEF Passed
  <2>4. \A q \in Task : q < p => Passed(q)
    <3> SUFFICES ASSUME NEW q \in Task, q < p PROVE Passed(q)
      OBVIOUS
    <3>1. p - 1 \in Task /\ Passed(p - 1) /\ (q = p - 1 \/ q < p - 1)
      BY <1>0
    <3> QED
      BY <3>1 DEF ShapeInv, PassesInOrder
  <2>5. MergeType'
    <3>1. st' \in [Task -> TaskState]
      BY <1>0, <2>1 DEF MergeType, TaskState
    <3> QED
      BY <1>0, <2>1, <3>1 DEF MergeType
  <2>6. StartsInOrder'
    BY <1>0, <2>2 DEF ShapeInv, StartsInOrder
  <2>7. PassesInOrder'
    BY <2>3, <2>4 DEF ShapeInv, PassesInOrder
  <2>8. MapsExact'
    BY <1>0, <2>2 DEF ShapeInv, MapsExact, Started, RegionOf
  <2>9. UnionOfPassed'
    <3>1. st[0] # "none"
      BY <1>0 DEF ShapeInv, StartsInOrder
    <3> QED
      BY <1>0, <2>1, <2>3, <3>1 DEF ShapeInv, UnionOfPassed
  <2>10. PassedDisjoint'
    <3>1. \A q \in Task : q < p => read_map[p] \cap write_map[q] = {}
      BY <1>2, <2>4 DEF ShapeInv, UnionOfPassed, Overlap
    <3> QED
      BY <1>0, <2>3, <3>1 DEF ShapeInv, PassedDisjoint
  <2> QED
    BY <2>5, <2>6, <2>7, <2>8, <2>9, <2>10 DEF ShapeInv
<1> QED
  BY <1>1, <1>2

LEMMA ShapeCommit ==
  ASSUME ShapeInv, NEW p \in Task, PprCommit(p)
  PROVE  ShapeInv'
<1> USE TaskFacts
<1>0. /\ st[p] = "checked" /\ MergeType
      /\ st' = [st EXCEPT ![p] = "committed"]
      /\ patches' = [patches EXCEPT ![p] = CreatePatch(p)]
      /\ UNCHANGED <<program, now, partial_size, mem, read_map, write_map, write_union>>
  BY DEF PprCommit, ShapeInv
<1>1. st'[p] = "committed" /\ \A q \in Task : q # p => st'[q] = st[q]
  BY <1>0 DEF MergeType
<1>2. \A q \in Task : (Passed(q)' <=> Passed(q)) /\ (Started(q)' <=> Started(q))
  BY <1>0, <1>1 DEF Passed, Started
<1>3. MergeType'
  <2>1. st' \in [Task -> TaskState]
    BY <1>0 DEF MergeType, TaskState
  <2>2. patches' = [q \in Task |-> patches'[q]]
    BY <1>0 DEF MergeType
  <2> QED
    BY <1>0, <2>1, <2>2 DEF MergeType
<1>4. StartsInOrder'
  BY <1>0, <1>1 DEF ShapeInv, StartsInOrder
<1>5. PassesInOrder' /\ PassedDisjoint' /\ MapsExact'
  BY <1>0, <1>2 DEF ShapeInv, PassesInOrder, PassedDisjoint, MapsExact, RegionOf
<1>6. UnionOfPassed'
  <2>1. st'[0] # "none" => st[0] # "none"
    BY <1>0, <1>1
  <2> QED
    BY <1>0, <1>2, <2>1 DEF ShapeInv, UnionOfPassed
<1> QED
  BY <1>3, <1>4, <1>5, <1>6 DEF ShapeInv

(* The end of a group. *)
LEMMA ShapeContinue ==
  ASSUME ShapeInv, NEW n \in 0 .. NumRegions, NEW m, Continue(n, m),
         UNCHANGED <<program, partial_size, read_map, write_map, write_union>>,
         patches' = [p \in Task |-> patches'[p]]
  PROVE  ShapeInv'
<1> USE TaskFacts
<1>1. \A p \in Task : st'[p] = "none"
  BY DEF Continue
<1>2. MergeType'
  BY DEF Continue, ShapeInv, MergeType, TaskState
<1> QED
  BY <1>1, <1>2 DEF ShapeInv, StartsInOrder, PassesInOrder, MapsExact, UnionOfPassed,
     PassedDisjoint, Started, Passed

(* The region up to which the understudy runs. *)
LEMMA UndyFinish ==
  ASSUME ShapeInv, UndyWins
  PROVE  \E n \in now + 1 .. NumRegions :
           Continue(n, SequentialFrom(now + 1, mem[0])[n])
<1> USE TaskFacts
<1>1. Started(0)
  BY DEF UndyWins, ShapeInv, MergeType, TaskState, Started
<1>2. now + 1 \in 1 .. NumRegions /\ now \in Int /\ partial_size \in Int
  BY <1>1 DEF ShapeInv, MapsExact, MergeType, RegionOf
<1> DEFINE m == Max({1, partial_size - 1})
           finish == now + 1 + m
<1>3. m \in Int /\ m >= 1
  BY <1>2 DEF Max
<1> HIDE DEF m
<1>4. finish \in Int /\ finish > now + 1
  BY <1>2, <1>3
<1> HIDE DEF finish
<1>5. Min({finish, NumRegions}) \in now + 1 .. NumRegions
  BY <1>2, <1>4 DEF Min
<1> QED
  BY <1>5 DEF UndyWins, m, finish

LEMMA ShapeStep == ShapeInv /\ [Next]_vars => ShapeInv'
<1> SUFFICES ASSUME ShapeInv, [Next]_vars PROVE ShapeInv'
  OBVIOUS
<1> USE TaskFacts
<1>1. CASE BopMergeInit
  BY <1>1, ShapeStart
<1>2. ASSUME NEW p \in Task, RunTask(p) PROVE ShapeInv'
  BY <1>2, ShapeRun
<1>3. ASSUME NEW p \in Task, AbortSpec(p) PROVE ShapeInv'
  BY <1>3, ShapeCut DEF AbortSpec, Passed
<1>4. ASSUME NEW p \in Task, PprIsCorrect(p) PROVE ShapeInv'
  BY <1>4, ShapeCheck
<1>5. ASSUME NEW p \in Task, PprCommit(p) PROVE ShapeInv'
  BY <1>5, ShapeCommit
<1>6. ASSUME NEW p \in Task, PprGroupCommit(p) PROVE ShapeInv'
  <2>1. now + p + 1 \in 0 .. NumRegions
    BY <1>6 DEF PprGroupCommit, ShapeInv, MapsExact, Started, RegionOf
  <2>2. /\ Continue(now + p + 1, ApplyPatches(p))
        /\ UNCHANGED <<program, partial_size, read_map, write_map, write_union>>
        /\ patches' = [q \in Task |-> patches'[q]]
    BY <1>6 DEF PprGroupCommit
  <2> QED
    BY <2>1, <2>2, ShapeContinue
<1>7. CASE UndyWins
  <2>1. PICK n \in now + 1 .. NumRegions : Continue(n, SequentialFrom(now + 1, mem[0])[n])
    BY <1>7, UndyFinish
  <2>2. n \in 0 .. NumRegions
    BY DEF ShapeInv, MergeType
  <2>3. /\ UNCHANGED <<program, partial_size, read_map, write_map, write_union>>
        /\ patches' = [q \in Task |-> patches'[q]]
    BY <1>7 DEF UndyWins, ShapeInv, MergeType
  <2> QED
    BY <2>1, <2>2, <2>3, ShapeContinue
<1>8. CASE UNCHANGED vars
  BY <1>8 DEF vars, group, ShapeInv, MergeType, StartsInOrder, PassesInOrder, MapsExact,
     UnionOfPassed, PassedDisjoint, Started, Passed, RegionOf
<1> QED
  BY <1>1, <1>2, <1>3, <1>4, <1>5, <1>6, <1>7, <1>8 DEF Next

(* MAIN passes its check in every group of every program: the write union  *)
(* of the group before has been cleared, and no later task has been        *)
(* checked ahead of it.                                                    *)
THEOREM MainAlwaysPasses == Spec => []MainPasses
BY InitShape, ShapeStep, ShapeMainPasses, PTL DEF Spec

-----------------------------------------------------------------------------
(***************************************************************************)
(* The memories.  A task starts from the memory the group started from:    *)
(* it is forked before its parent runs.  A task that has committed has its *)
(* patch in the commit space, and there is no other patch.                 *)
(***************************************************************************)
MemExact ==
  /\ Seq => mem[0] = Sequential[now]
  /\ \A p \in Task : st[p] = "begin" => mem[p] = Sequential[now]
  /\ \A p \in Task : Started(p) => mem[p] = RunPpr(RegionOf(p), Sequential[now])
PatchesExact ==
  ~Seq => \A p \in Task :
            patches[p] = IF st[p] = "committed" THEN CreatePatch(p) ELSE NoPatch
MemInv == MemExact /\ PatchesExact

(* A group starts with no patch of an earlier group. *)
StartsClean == Seq /\ ~Seq' => \A p \in Task : patches[p] = NoPatch

LEMMA InitMem == Init => MemInv
<1> SUFFICES ASSUME Init PROVE MemInv
  OBVIOUS
<1>1. Seq /\ \A p \in Task : st[p] = "none"
  BY DEF Init, Seq
<1>2. mem[0] = Sequential[now]
  BY SequentialSteps, TaskFacts DEF Init
<1> QED
  BY <1>1, <1>2 DEF MemInv, MemExact, PatchesExact, Started

(* In a group MAIN has started. *)
LEMMA SeqMain == ShapeInv => (Seq <=> st[0] = "none")
BY TaskFacts DEF ShapeInv, StartsInOrder, Seq

(* The memory of a task that has passed is right where the task wrote:     *)
(* what it read has not been written since the start of the group.         *)
LEMMA PassedRight ==
  ASSUME ShapeInv, MemInv, NEW p \in Task, Passed(p), NEW a \in write_map[p], a \in Addr
  PROVE  mem[p][a] = Sequential[RegionOf(p)][a]
<1> USE TaskFacts
<1> DEFINE n == RegionOf(p)
           c == program[n]
<1>1. Started(p)
  BY DEF Passed, Started
<1>2. /\ n \in 1 .. NumRegions /\ read_map[p] = c.read /\ write_map[p] = c.write
      /\ n - 1 = now + p /\ now \in Int /\ p \in Int /\ now >= 0
  BY <1>1 DEF ShapeInv, MapsExact, RegionOf, MergeType
<1>3. c.read \subseteq Addr
  BY <1>2 DEF ShapeInv, MergeType, Programs, RegionCode, Code
<1>4. ASSUME NEW b \in c.read PROVE Sequential[n - 1][b] = Sequential[now][b]
  <2>1. ASSUME NEW i \in now + 1 .. n - 1 PROVE b \notin program[i].write
    <3> DEFINE q == i - now - 1
    <3>1. q \in Task /\ q < p /\ RegionOf(q) = i
      BY <1>2 DEF RegionOf
    <3> HIDE DEF q
    <3>2. Passed(q)
      BY <3>1 DEF ShapeInv, PassesInOrder
    <3>3. write_map[q] = program[i].write
      BY <3>1, <3>2 DEF ShapeInv, MapsExact, Passed, Started
    <3>4. read_map[p] \cap write_map[q] = {}
      BY <3>1 DEF ShapeInv, PassedDisjoint
    <3> QED
      BY <1>2, <1>4, <3>3, <3>4
  <2>2. now \in 0 .. NumRegions /\ n - 1 \in now .. NumRegions /\ b \in Addr
    BY <1>2, <1>3, <1>4
  <2> HIDE DEF n
  <2> QED
    BY <2>1, <2>2, Unwritten
<1>5. mem[p] = RunPpr(n, Sequential[now])
  BY <1>1 DEF MemInv, MemExact
<1>6. Sequential[n] = RunPpr(n, Sequential[n - 1])
  BY <1>2, SequentialSteps
<1>7. ASSUME NEW m PROVE RunPpr(n, m)[a] = [by |-> n, saw |-> [b \in c.read |-> m[b]]]
  BY <1>2 DEF RunPpr, Execute
<1>8. mem[p][a] = [by |-> n, saw |-> [b \in c.read |-> Sequential[now][b]]]
  BY <1>5, <1>7
<1>9. Sequential[n][a] = [by |-> n, saw |-> [b \in c.read |-> Sequential[n - 1][b]]]
  BY <1>6, <1>7
<1>10. [b \in c.read |-> Sequential[now][b]] = [b \in c.read |-> Sequential[n - 1][b]]
  BY <1>4
<1> QED
  BY <1>8, <1>9, <1>10

LEMMA MemCheckedIsRight == ShapeInv /\ MemInv => CheckedIsRight
<1> SUFFICES ASSUME ShapeInv, MemInv, NEW p \in Task, Passed(p), NEW a \in write_map[p]
             PROVE  mem[p][a] = Sequential[now + p + 1][a]
  BY DEF CheckedIsRight, Passed
<1>1. a \in Addr
  BY DEF ShapeInv, MapsExact, MergeType, Programs, RegionCode, Code, Passed, Started
<1> QED
  BY <1>1, PassedRight DEF RegionOf

(* Greatest element of a nonempty set of task numbers. *)
LEMMA MaxTask ==
  ASSUME NEW S \in SUBSET Task, S # {}
  PROVE  Max(S) \in S /\ \A k \in S : k <= Max(S)
<1>0. S \in SUBSET Int /\ GroupSize \in Int /\ \A x \in S : x <= GroupSize
  BY TaskFacts
<1>1. PICK x \in S : \A y \in S : y <= x
  BY <1>0, GreatestInteger
<1>2. x \in S /\ \A y \in S : x >= y
  BY <1>1, TaskFacts
<1> QED
  BY <1>2, TaskFacts DEF Max

(* The patches that the last task applies complete its own memory to the   *)
(* sequential one.  The last task has no patch of its own among them, so   *)
(* that a patch of an earlier task may cover its writes: it does not,      *)
(* because a region has read what it writes.                               *)
LEMMA AppliedRight ==
  ASSUME ~BlindWrites, ShapeInv, MemInv, NEW p \in Task, PprGroupCommit(p)
  PROVE  ApplyPatches(p) = Sequential[RegionOf(p)]
<1> USE TaskFacts
<1> DEFINE n == RegionOf(p)
<1>1. Passed(p) /\ \A q \in Task : q < p => st[q] = "committed"
  BY DEF PprGroupCommit, Passed
<1>2. \A q \in Task : q <= p => Passed(q) /\ Started(q)
  BY <1>1 DEF Passed, Started
<1>3. /\ now \in 0 .. NumRegions /\ n = now + p + 1 /\ n \in 1 .. NumRegions
  BY <1>2 DEF ShapeInv, MergeType, MapsExact, RegionOf
<1>4. \A q \in Task : q <= p => /\ write_map[q] = program[RegionOf(q)].write
                                /\ write_map[q] \subseteq Addr
                                /\ RegionOf(q) \in 1 .. NumRegions
  BY <1>2 DEF ShapeInv, MapsExact, MergeType, Programs, RegionCode, Code
<1>5. ~Seq
  BY <1>1 DEF Seq, Passed
<1>6. \A q \in Task : patches[q] = IF st[q] = "committed" THEN CreatePatch(q) ELSE NoPatch
  BY <1>5 DEF MemInv, PatchesExact
<1>7. \A q \in Task : DOMAIN patches[q] = IF st[q] = "committed" THEN write_map[q] ELSE {}
  BY <1>6 DEF CreatePatch, NoPatch
<1>8. ASSUME NEW k \in now .. n, NEW a \in Addr,
             \A q \in Task : RegionOf(q) > k /\ q <= p => a \notin write_map[q]
      PROVE  Sequential[n][a] = Sequential[k][a]
  <2>1. ASSUME NEW i \in k + 1 .. n PROVE a \notin program[i].write
    <3> DEFINE q == i - now - 1
    <3>1. q \in Task /\ q <= p /\ RegionOf(q) = i
      BY <1>3 DEF RegionOf
    <3> HIDE DEF q
    <3>2. RegionOf(q) > k
      BY <1>3, <3>1
    <3> QED
      BY <1>4, <1>8, <3>1, <3>2
  <2>2. k \in 0 .. NumRegions /\ n \in k .. NumRegions
    BY <1>3
  <2> HIDE DEF n
  <2> QED
    BY <2>1, <2>2, Unwritten
<1>9. ASSUME NEW a \in Addr PROVE ApplyPatches(p)[a] = Sequential[n][a]
  <2> DEFINE from == {k \in 0 .. p : a \in DOMAIN patches[k]}
  <2>1. ApplyPatches(p)[a] = IF from = {} THEN mem[p][a] ELSE patches[Max(from)][a]
    BY DEF ApplyPatches
  <2>2. from \in SUBSET Task /\ \A q \in Task : q <= p /\ a \in DOMAIN patches[q] => q \in from
    OBVIOUS
  <2>3. CASE from = {}
    <3>1. CASE a \in write_map[p]
      BY <1>2, <2>1, <2>3, <3>1, PassedRight
    <3>2. CASE a \notin write_map[p]
      <4>1. \A q \in Task : q <= p => a \notin write_map[q]
        BY <1>1, <1>7, <2>2, <2>3, <3>2
      <4>2. Sequential[n][a] = Sequential[now][a]
        BY <1>3, <1>8, <4>1
      <4>3. mem[p][a] = Sequential[now][a]
        BY <1>2, <1>4, <3>2, RunPprLeaves DEF MemInv, MemExact
      <4> QED
        BY <2>1, <2>3, <4>2, <4>3
    <3> QED
      BY <3>1, <3>2
  <2>4. CASE from # {}
    <3> DEFINE k == Max(from)
    <3>1. k \in from /\ \A j \in from : j <= k
      BY <2>2, <2>4, MaxTask
    <3>2. k \in Task /\ k <= p /\ a \in DOMAIN patches[k]
      BY <2>2, <3>1
    <3>3. ApplyPatches(p)[a] = patches[k][a]
      BY <2>1, <2>4
    <3>4. \A q \in Task : q <= p /\ a \in DOMAIN patches[q] => q <= k
      BY <2>2, <3>1
    <3> HIDE DEF k, from
    <3>5. st[k] = "committed" /\ a \in write_map[k] /\ patches[k] = CreatePatch(k)
      BY <1>6, <1>7, <3>2
    <3>6. patches[k][a] = mem[k][a]
      BY <3>5 DEF CreatePatch
    <3>7. mem[k][a] = Sequential[RegionOf(k)][a]
      BY <1>2, <3>2, <3>5, PassedRight
    <3>8. ASSUME NEW q \in Task, RegionOf(q) > RegionOf(k), q <= p PROVE a \notin write_map[q]
      <4>1. q > k
        BY <1>3, <3>2, <3>8 DEF RegionOf
      <4>2. CASE st[q] = "committed"
        BY <1>7, <3>2, <3>4, <3>8, <4>1, <4>2
      <4>3. CASE st[q] # "committed"
        <5>1. q = p
          BY <1>1, <3>8, <4>3
        <5>2. read_map[p] \cap write_map[k] = {}
          BY <1>1, <3>2, <4>1, <5>1 DEF ShapeInv, PassedDisjoint
        <5>3. write_map[p] \subseteq read_map[p]
          BY <1>2 DEF ShapeInv, MapsExact, MergeType, Programs, RegionCode
        <5> QED
          BY <3>5, <5>1, <5>2, <5>3
      <4> QED
        BY <4>2, <4>3
    <3>9. RegionOf(k) \in now .. n
      BY <1>3, <3>2 DEF RegionOf
    <3>10. Sequential[n][a] = Sequential[RegionOf(k)][a]
      BY <1>8, <3>8, <3>9
    <3> QED
      BY <3>3, <3>6, <3>7, <3>10
  <2> QED
    BY <2>3, <2>4
<1>10. Sequential[n] = [a \in Addr |-> Sequential[n][a]]
  <2>1. Sequential[n] = RunPpr(n, Sequential[n - 1])
    BY <1>3, SequentialSteps
  <2> QED
    BY <2>1 DEF RunPpr, Execute
<1>11. ApplyPatches(p) = [a \in Addr |-> ApplyPatches(p)[a]]
  BY DEF ApplyPatches
<1> QED
  BY <1>9, <1>10, <1>11

(* The steps. *)
LEMMA MemStart ==
  ASSUME ShapeInv, MemInv, BopMergeInit, StartsClean
  PROVE  MemInv'
<1> USE TaskFacts
<1>1. st'[0] = "begin" /\ \A q \in Task : q # 0 => st'[q] = "none"
  BY DEF BopMergeInit, Seq, ShapeInv, MergeType
<1>2. Seq /\ ~Seq' /\ UNCHANGED <<program, now, mem, patches>>
  BY <1>1 DEF BopMergeInit, Seq
<1>3. Sequential' = Sequential
  BY <1>2, SequentialFixed
<1>4. MemExact'
  BY <1>1, <1>2, <1>3 DEF MemInv, MemExact, Started
<1>5. PatchesExact'
  BY <1>1, <1>2 DEF PatchesExact, StartsClean
<1> QED
  BY <1>4, <1>5 DEF MemInv

LEMMA MemRun ==
  ASSUME ShapeInv, MemInv, NEW p \in Task, RunTask(p)
  PROVE  MemInv'
<1> USE TaskFacts
<1> DEFINE n == RegionOf(p)
           next == IF p < partial_size - 1 THEN {p + 1} ELSE {}
<1>1. /\ st[p] = "begin" /\ UNCHANGED <<program, now, patches>>
      /\ \A q \in Task : q > p => st[q] = "none"
  BY DEF RunTask, ShapeInv, StartsInOrder
<1>2. \A q \in Task :
        /\ st'[q] = IF q = p THEN "ran" ELSE IF q \in next THEN "begin" ELSE st[q]
        /\ mem'[q] = IF q = p THEN RunPpr(n, mem[p]) ELSE IF q \in next THEN mem[p] ELSE mem[q]
        /\ q # p => write_map'[q] = write_map[q]
  BY DEF RunTask, RegionOf, ShapeInv, MergeType
<1>3. mem[p] = Sequential[now] /\ Sequential' = Sequential
  BY <1>1, SequentialFixed DEF MemInv, MemExact
<1>4. ~Seq /\ ~Seq'
  BY <1>1, <1>2 DEF Seq
<1>5. \A q \in next : q \in Int /\ q > p
  BY DEF ShapeInv, MergeType
<1>6. \A q \in Task : RegionOf(q)' = RegionOf(q) /\ \A m : RunPpr(q, m)' = RunPpr(q, m)
  BY <1>1 DEF RegionOf, RunPpr
<1>7. MemExact'
  <2>1. ASSUME NEW q \in Task, st'[q] = "begin" PROVE mem'[q] = Sequential[now]
    BY <1>2, <1>3, <2>1 DEF MemInv, MemExact
  <2>2. ASSUME NEW q \in Task, Started(q)' PROVE mem'[q] = RunPpr(RegionOf(q), Sequential[now])
    BY <1>1, <1>2, <1>3, <1>5, <2>2 DEF MemInv, MemExact, Started
  <2>3. \A i : RunPpr(i, Sequential[now])' = RunPpr(i, Sequential[now])
    BY <1>1, <1>3 DEF RunPpr
  <2> QED
    BY <1>1, <1>3, <1>4, <1>6, <2>1, <2>2, <2>3 DEF MemExact
<1>8. PatchesExact'
  <2> SUFFICES ASSUME NEW q \in Task
               PROVE  patches'[q] = IF st'[q] = "committed" THEN CreatePatch(q)' ELSE NoPatch
    BY DEF PatchesExact, NoPatch
  <2>1. patches[q] = IF st[q] = "committed" THEN CreatePatch(q) ELSE NoPatch
    BY <1>4 DEF MemInv, PatchesExact
  <2>2. st'[q] = "committed" <=> st[q] = "committed"
    BY <1>1, <1>2, <1>5
  <2>3. st[q] = "committed" => mem'[q] = mem[q] /\ write_map'[q] = write_map[q]
    BY <1>1, <1>2, <1>5
  <2> QED
    BY <1>1, <2>1, <2>2, <2>3 DEF CreatePatch
<1> QED
  BY <1>7, <1>8 DEF MemInv

(* A step that runs nothing, moves a task only between states with the     *)
(* same memory, and leaves the patches in step with the states.            *)
LEMMA MemKept ==
  ASSUME ShapeInv, MemInv, ~Seq, ~Seq', UNCHANGED <<program, now, mem, read_map, write_map>>,
         \A q \in Task : st'[q] = "begin" => st[q] = "begin",
         \A q \in Task : Started(q)' => Started(q),
         \A q \in Task : IF st'[q] = "committed" THEN patches'[q] = CreatePatch(q)
                         ELSE patches'[q] = NoPatch
  PROVE  MemInv'
<1>1. Sequential' = Sequential
  BY SequentialFixed
<1>2. \A q \in Task : RegionOf(q)' = RegionOf(q) /\ CreatePatch(q)' = CreatePatch(q)
  BY DEF RegionOf, CreatePatch
<1>3. \A i : RunPpr(i, Sequential[now])' = RunPpr(i, Sequential[now])
  BY <1>1 DEF RunPpr
<1>4. MemExact'
  BY <1>1, <1>2, <1>3 DEF MemInv, MemExact
<1>5. PatchesExact'
  BY <1>2 DEF PatchesExact, NoPatch
<1> QED
  BY <1>4, <1>5 DEF MemInv

LEMMA MemCut ==
  ASSUME ShapeInv, MemInv, NEW p \in Task, p > 0, st[p] \in {"begin", "ran"}, Cut(p),
         UNCHANGED <<program, now, mem, read_map, write_map, patches>>
  PROVE  MemInv'
<1> USE TaskFacts
<1>1. \A q \in Task : st'[q] = IF q >= p THEN "none" ELSE st[q]
  BY DEF Cut
<1>2. \A q \in Task : Passed(q) => q < p
  BY DEF ShapeInv, PassesInOrder, Passed
<1>3. ~Seq /\ ~Seq'
  BY <1>1, SeqMain DEF Seq
<1>4. \A q \in Task : st'[q] = "committed" <=> st[q] = "committed"
  BY <1>1, <1>2 DEF Passed
<1>5. \A q \in Task : patches[q] = IF st[q] = "committed" THEN CreatePatch(q) ELSE NoPatch
  BY <1>3 DEF MemInv, PatchesExact
<1>6. \A q \in Task : (st'[q] = "begin" => st[q] = "begin") /\ (Started(q)' => Started(q))
  BY <1>1 DEF Started
<1> QED
  BY <1>3, <1>4, <1>5, <1>6, MemKept

LEMMA MemCheck ==
  ASSUME ShapeInv, MemInv, NEW p \in Task, PprIsCorrect(p)
  PROVE  MemInv'
<1> USE TaskFacts
<1>0. /\ st[p] = "ran" /\ UNCHANGED <<program, now, mem, read_map, write_map, patches>>
  BY DEF PprIsCorrect
<1>1. CASE Overlap(read_map[p]) # {}
  <2>1. Cut(p)
    BY <1>1 DEF PprIsCorrect
  <2>2. p # 0
    BY <1>0, <1>1, ShapeMainPasses DEF MainPasses
  <2> QED
    BY <1>0, <2>1, <2>2, MemCut
<1>2. CASE Overlap(read_map[p]) = {}
  <2>1. st' = [st EXCEPT ![p] = "checked"]
    BY <1>2 DEF PprIsCorrect
  <2>2. st'[p] = "checked" /\ \A q \in Task : q # p => st'[q] = st[q]
    BY <2>1 DEF ShapeInv, MergeType
  <2>3. ~Seq /\ ~Seq'
    BY <1>0, <2>2 DEF Seq
  <2>4. \A q \in Task : patches[q] = IF st[q] = "committed" THEN CreatePatch(q) ELSE NoPatch
    BY <2>3 DEF MemInv, PatchesExact
  <2>5. \A q \in Task : (st'[q] = "begin" => st[q] = "begin") /\ (Started(q)' => Started(q))
    BY <1>0, <2>2 DEF Started
  <2>6. \A q \in Task : st'[q] = "committed" <=> st[q] = "committed"
    BY <1>0, <2>2
  <2> QED
    BY <1>0, <2>3, <2>4, <2>5, <2>6, MemKept
<1> QED
  BY <1>1, <1>2

LEMMA MemCommit ==
  ASSUME ShapeInv, MemInv, NEW p \in Task, PprCommit(p)
  PROVE  MemInv'
<1>1. /\ st[p] = "checked" /\ st' = [st EXCEPT ![p] = "committed"]
      /\ patches' = [patches EXCEPT ![p] = CreatePatch(p)]
      /\ UNCHANGED <<program, now, mem, read_map, write_map>>
  BY DEF PprCommit
<1>2. /\ st'[p] = "committed" /\ patches'[p] = CreatePatch(p)
      /\ \A q \in Task : q # p => st'[q] = st[q] /\ patches'[q] = patches[q]
  BY <1>1 DEF ShapeInv, MergeType
<1>3. ~Seq /\ ~Seq'
  BY <1>1, <1>2 DEF Seq
<1>4. \A q \in Task : patches[q] = IF st[q] = "committed" THEN CreatePatch(q) ELSE NoPatch
  BY <1>3 DEF MemInv, PatchesExact
<1>5. \A q \in Task : (st'[q] = "begin" => st[q] = "begin") /\ (Started(q)' => Started(q))
  BY <1>1, <1>2 DEF Started
<1> QED
  BY <1>1, <1>2, <1>3, <1>4, <1>5, MemKept

LEMMA MemContinue ==
  ASSUME ShapeInv, NEW n, Continue(n, Sequential[n]), UNCHANGED program
  PROVE  MemInv'
<1>1. Seq' /\ \A p \in Task : st'[p] = "none"
  BY DEF Continue, Seq
<1>2. now' = n /\ mem'[0] = Sequential[n]
  BY TaskFacts DEF Continue, ShapeInv, MergeType
<1>3. Sequential' = Sequential
  BY SequentialFixed
<1> QED
  BY <1>1, <1>2, <1>3 DEF MemInv, MemExact, PatchesExact, Started

LEMMA MemUndy ==
  ASSUME ShapeInv, MemInv, UndyWins
  PROVE  MemInv'
<1> USE TaskFacts
<1>1. PICK n \in now + 1 .. NumRegions : Continue(n, SequentialFrom(now + 1, mem[0])[n])
  BY UndyFinish
<1>2. Started(0)
  BY DEF UndyWins, ShapeInv, MergeType, TaskState, Started
<1>3. now + 1 \in 1 .. NumRegions /\ RegionOf(0) = now + 1 /\ now \in Int
  BY <1>2 DEF ShapeInv, MapsExact, MergeType, RegionOf
<1>4. mem[0] = Sequential[now + 1]
  <2>1. mem[0] = RunPpr(now + 1, Sequential[now])
    BY <1>2, <1>3 DEF MemInv, MemExact
  <2>2. Sequential[now + 1] = RunPpr(now + 1, Sequential[now + 1 - 1])
    BY <1>3, SequentialSteps
  <2> QED
    BY <1>3, <2>1, <2>2
<1>5. SequentialFrom(now + 1, mem[0])[n] = Sequential[n]
  BY <1>3, <1>4, SequentialResumes
<1> QED
  BY <1>1, <1>5, MemContinue DEF UndyWins

LEMMA MemStep ==
  ASSUME ~BlindWrites, ShapeInv, MemInv, [Next]_vars, [StartsClean]_vars
  PROVE  MemInv'
<1>1. CASE UNCHANGED vars
  <2>1. Sequential' = Sequential
    BY <1>1, SequentialFixed DEF vars
  <2> QED
    BY <1>1, <2>1 DEF vars, group, MemInv, MemExact, PatchesExact, Seq, Started, RegionOf,
       RunPpr, CreatePatch, NoPatch
<1>2. CASE BopMergeInit
  <2>1. StartsClean \/ UNCHANGED vars
    OBVIOUS
  <2> QED
    BY <1>1, <1>2, <2>1, MemStart
<1>3. ASSUME NEW p \in Task, RunTask(p) PROVE MemInv'
  BY <1>3, MemRun
<1>4. ASSUME NEW p \in Task, AbortSpec(p) PROVE MemInv'
  BY <1>4, MemCut DEF AbortSpec
<1>5. ASSUME NEW p \in Task, PprIsCorrect(p) PROVE MemInv'
  BY <1>5, MemCheck
<1>6. ASSUME NEW p \in Task, PprCommit(p) PROVE MemInv'
  BY <1>6, MemCommit
<1>7. ASSUME NEW p \in Task, PprGroupCommit(p) PROVE MemInv'
  BY <1>7, AppliedRight, MemContinue DEF PprGroupCommit, RegionOf
<1>8. CASE UndyWins
  BY <1>8, MemUndy
<1> QED
  BY <1>1, <1>2, <1>3, <1>4, <1>5, <1>6, <1>7, <1>8 DEF Next

LEMMA MemSequential == MemInv => SequentialMemory
BY DEF MemInv, MemExact, SequentialMemory

(* If regions read what they write and every group starts without patches  *)
(* of an earlier one, speculation is sequentially consistent: whoever      *)
(* continues after a group has the memory of a sequential execution, for   *)
(* any number of tasks, any addresses and any program.                     *)
THEOREM MergeIsSequential ==
  ~BlindWrites => (Spec /\ [][StartsClean]_vars => []SequentialMemory)
<1> SUFFICES ASSUME ~BlindWrites PROVE Spec /\ [][StartsClean]_vars => []SequentialMemory
  OBVIOUS
<1>1. ShapeInv /\ MemInv /\ [Next]_vars /\ [StartsClean]_vars => MemInv'
  BY MemStep
<1> QED
  BY <1>1, InitShape, ShapeStep, InitMem, MemSequential, PTL DEF Spec

(* Under the same conditions the check of ppr_is_correct is sufficient:    *)
(* a task that has passed it has written what sequential execution would   *)
(* have written.                                                           *)
THEOREM CheckIsSufficient ==
  ~BlindWrites => (Spec /\ [][StartsClean]_vars => []CheckedIsRight)
<1> SUFFICES ASSUME ~BlindWrites PROVE Spec /\ [][StartsClean]_vars => []CheckedIsRight
  OBVIOUS
<1>1. ShapeInv /\ MemInv /\ [Next]_vars /\ [StartsClean]_vars => MemInv'
  BY MemStep
<1> QED
  BY <1>1, InitShape, ShapeStep, InitMem, MemCheckedIsRight, PTL DEF Spec

=============================================================================
