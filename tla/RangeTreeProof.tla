--------------------------- MODULE RangeTreeProof ---------------------------
(***************************************************************************)
(* The range trees stay search trees, and their operations mean what the   *)
(* access maps take them to mean, for every number of addresses and every  *)
(* size of the ranges.                                                     *)
(***************************************************************************)
EXTENDS RangeTree, SequenceTheorems, SetInduction

-----------------------------------------------------------------------------
(***************************************************************************)
(* The recursive definitions.  Each lemma ...Eq says that a function the   *)
(* module defines by recursion exists, so that its equation holds.         *)
(***************************************************************************)
LEMMA DepthNat == MaxDepth \in Nat /\ MaxDepth >= 2 /\ MaxAddr \in Nat
BY RangeAssumption DEF MaxDepth

LEMMA TreeUpToEq ==
  \A n \in 0 .. MaxDepth :
    TreeUpTo[n] = IF n = 0 THEN {Nil}
                  ELSE {Nil} \cup [lc : TreeUpTo[n - 1], r : Segment, rc : TreeUpTo[n - 1]]
<1> DEFINE D == 0 .. MaxDepth
           Level(f, n) == IF n = 0 THEN {Nil}
                          ELSE {Nil} \cup [lc : f[n - 1], r : Segment, rc : f[n - 1]]
           Fits(f, k) == f = [n \in D |-> f[n]] /\ \A n \in D : n <= k => f[n] = Level(f, n)
           T == {k \in Nat : \E f : Fits(f, k)}
<1>1. 0 \in T
  <2> DEFINE f == [n \in D |-> {Nil}]
  <2>1. Fits(f, 0)
    OBVIOUS
  <2> QED
    BY <2>1
<1>2. ASSUME NEW k \in Nat, k \in T PROVE k + 1 \in T
  <2>1. PICK f : Fits(f, k)
    BY <1>2
  <2> DEFINE g == [n \in D |-> IF n = k + 1 THEN Level(f, n) ELSE f[n]]
  <2>2. ASSUME NEW n \in D, n <= k + 1 PROVE g[n] = Level(g, n)
    <3>1. n # 0 => n - 1 \in D /\ n - 1 # k + 1 /\ g[n - 1] = f[n - 1]
      BY <2>2, DepthNat
    <3>2. Level(g, n) = Level(f, n)
      BY <3>1
    <3>3. n <= k \/ n = k + 1
      BY <2>2, DepthNat
    <3>4. g[n] = Level(f, n)
      <4> HIDE DEF Level, D
      <4> QED
        BY <2>1, <2>2, <3>3
    <3> QED
      BY <3>2, <3>4
  <2>3. Fits(g, k + 1)
    <3> HIDE DEF Level, D
    <3> QED
      BY <2>2
  <2> QED
    <3> HIDE DEF Fits, g
    <3> QED
      BY <2>3
<1>3. MaxDepth \in T
  <2> HIDE DEF T
  <2> QED
    BY <1>1, <1>2, NaturalsBySuccessor, DepthNat
<1>4. PICK f : Fits(f, MaxDepth)
  BY <1>3
<1>5. f = [n \in D |-> Level(f, n)]
  <2>1. \A n \in D : n <= MaxDepth
    BY DepthNat
  <2> HIDE DEF Level, D
  <2> QED
    BY <1>4, <2>1
<1>6. TreeUpTo = [n \in D |-> Level(TreeUpTo, n)]
  BY <1>5 DEF TreeUpTo
<1> QED
  BY <1>6

LEMMA NodeIsNotNil == \A l, r, x : Node(l, r, x) # Nil
<1> SUFFICES ASSUME NEW l, NEW r, NEW x, Node(l, r, x) = Nil PROVE FALSE
  OBVIOUS
<1>1. DOMAIN Node(l, r, x) = {"lc", "r", "rc"} /\ DOMAIN Nil = {"nil"}
  BY DEF Node, Nil
<1> QED
  BY <1>1

(* The subtrees of a tree have one level less. *)
LEMMA Subtrees ==
  ASSUME NEW n \in 0 .. MaxDepth - 1, NEW t \in TreeUpTo[n + 1], t # Nil
  PROVE  /\ t.lc \in TreeUpTo[n] /\ t.rc \in TreeUpTo[n] /\ t.r \in Segment
         /\ t = Node(t.lc, t.r, t.rc)
<1>1. n + 1 \in 0 .. MaxDepth /\ n + 1 # 0 /\ (n + 1) - 1 = n
  BY DepthNat
<1>2. TreeUpTo[n + 1] = {Nil} \cup [lc : TreeUpTo[n], r : Segment, rc : TreeUpTo[n]]
  BY <1>1, TreeUpToEq
<1> QED
  BY <1>2 DEF Node

LEMMA NodeLevel ==
  ASSUME NEW n \in 0 .. MaxDepth - 1, NEW l \in TreeUpTo[n], NEW x \in TreeUpTo[n],
         NEW r \in Segment
  PROVE  Node(l, r, x) \in TreeUpTo[n + 1]
<1>1. n + 1 \in 0 .. MaxDepth /\ n + 1 # 0 /\ (n + 1) - 1 = n
  BY DepthNat
<1>2. TreeUpTo[n + 1] = {Nil} \cup [lc : TreeUpTo[n], r : Segment, rc : TreeUpTo[n]]
  BY <1>1, TreeUpToEq
<1> QED
  BY <1>2 DEF Node

LEMMA NilLevel == \A n \in 0 .. MaxDepth : Nil \in TreeUpTo[n]
BY TreeUpToEq

LEMMA LevelZero == TreeUpTo[0] = {Nil} /\ Nil \in TreeUpTo[1]
<1>1. 0 \in 0 .. MaxDepth /\ 1 \in 0 .. MaxDepth
  BY DepthNat
<1> QED
  BY <1>1, NilLevel, TreeUpToEq

LEMMA LevelNext == \A n \in Nat : n < MaxDepth => TreeUpTo[n] \subseteq TreeUpTo[n + 1]
<1> DEFINE T == {n \in Nat : n < MaxDepth => TreeUpTo[n] \subseteq TreeUpTo[n + 1]}
<1>1. 0 \in T
  BY LevelZero
<1>2. ASSUME NEW n \in Nat, n \in T PROVE n + 1 \in T
  <2> SUFFICES ASSUME n + 1 < MaxDepth, NEW t \in TreeUpTo[n + 1]
               PROVE  t \in TreeUpTo[(n + 1) + 1]
    OBVIOUS
  <2>1. n \in 0 .. MaxDepth - 1 /\ n + 1 \in 0 .. MaxDepth - 1 /\ (n + 1) + 1 \in 0 .. MaxDepth
    BY DepthNat
  <2>2. TreeUpTo[n] \subseteq TreeUpTo[n + 1]
    <3>1. n < MaxDepth
      BY <2>1, DepthNat
    <3> QED
      BY <1>2, <3>1
  <2>3. CASE t = Nil
    BY <2>1, <2>3, NilLevel
  <2>4. CASE t # Nil
    <3>1. /\ t.lc \in TreeUpTo[n + 1] /\ t.rc \in TreeUpTo[n + 1] /\ t.r \in Segment
          /\ t = Node(t.lc, t.r, t.rc)
      BY <2>1, <2>2, <2>4, Subtrees
    <3> QED
      BY <2>1, <3>1, NodeLevel
  <2> QED
    BY <2>3, <2>4
<1> HIDE DEF T
<1>3. \A n \in Nat : n \in T
  BY <1>1, <1>2, NaturalsBySuccessor
<1> QED
  BY <1>3 DEF T

LEMMA LevelGrows ==
  ASSUME NEW n \in 0 .. MaxDepth, NEW m \in 0 .. MaxDepth, n <= m
  PROVE  TreeUpTo[n] \subseteq TreeUpTo[m]
<1> DEFINE T == {d \in Nat : n + d <= MaxDepth => TreeUpTo[n] \subseteq TreeUpTo[n + d]}
<1>1. 0 \in T
  BY DepthNat
<1>2. ASSUME NEW d \in Nat, d \in T PROVE d + 1 \in T
  <2> SUFFICES ASSUME n + (d + 1) <= MaxDepth PROVE TreeUpTo[n] \subseteq TreeUpTo[n + (d + 1)]
    OBVIOUS
  <2>1. n + d \in Nat /\ n + d < MaxDepth /\ n + (d + 1) = (n + d) + 1
    BY DepthNat
  <2>2. TreeUpTo[n] \subseteq TreeUpTo[n + d]
    <3>1. n + d <= MaxDepth
      BY <2>1, DepthNat
    <3> QED
      BY <1>2, <3>1
  <2>3. TreeUpTo[n + d] \subseteq TreeUpTo[(n + d) + 1]
    BY <2>1, LevelNext
  <2> QED
    BY <2>1, <2>2, <2>3
<1>3. \A d \in Nat : d \in T
  <2> HIDE DEF T
  <2> QED
    BY <1>1, <1>2, NaturalsBySuccessor
<1>4. m - n \in T /\ n + (m - n) = m
  BY <1>3, DepthNat
<1> QED
  BY <1>4

LEMMA InTree ==
  /\ \A n \in 0 .. MaxDepth : TreeUpTo[n] \subseteq Tree
  /\ Nil \in Tree
  /\ \A t \in Tree : t # Nil =>
       /\ t.lc \in Tree /\ t.rc \in Tree /\ t.r \in Segment
       /\ t = Node(t.lc, t.r, t.rc)
<1>1. \A n \in 0 .. MaxDepth : TreeUpTo[n] \subseteq Tree
  BY LevelGrows, DepthNat DEF Tree
<1>2. Nil \in Tree
  BY NilLevel, DepthNat DEF Tree
<1>3. ASSUME NEW t \in Tree, t # Nil
      PROVE  /\ t.lc \in Tree /\ t.rc \in Tree /\ t.r \in Segment
             /\ t = Node(t.lc, t.r, t.rc)
  <2> DEFINE n == MaxDepth - 1
  <2>1. n \in 0 .. MaxDepth - 1 /\ n \in 0 .. MaxDepth /\ n + 1 = MaxDepth
    BY DepthNat
  <2> HIDE DEF n
  <2>2. t \in TreeUpTo[n + 1]
    BY <2>1 DEF Tree
  <2> QED
    BY <1>1, <1>3, <2>1, <2>2, Subtrees
<1> QED
  BY <1>1, <1>2, <1>3

(* The fields of a node. *)
LEMMA NodeFields ==
  \A l, r, x : Node(l, r, x).lc = l /\ Node(l, r, x).r = r /\ Node(l, r, x).rc = x
BY DEF Node

LEMMA InOrderEq ==
  \A t \in Tree :
    InOrder[t] = IF t = Nil THEN <<>> ELSE InOrder[t.lc] \o <<t.r>> \o InOrder[t.rc]
<1> DEFINE B(f, t) == IF t = Nil THEN <<>> ELSE f[t.lc] \o <<t.r>> \o f[t.rc]
           Fits(f, k) == f = [t \in Tree |-> f[t]] /\ \A t \in TreeUpTo[k] : f[t] = B(f, t)
           T == {k \in Nat : k <= MaxDepth => \E f : Fits(f, k)}
<1>1. ASSUME NEW k \in 0 .. MaxDepth - 1, NEW f, NEW g, \A s \in TreeUpTo[k] : f[s] = g[s],
             NEW t \in TreeUpTo[k + 1]
      PROVE  B(f, t) = B(g, t)
  BY <1>1, Subtrees
<1>2. \A f, g : B(f, Nil) = B(g, Nil)
  OBVIOUS
<1>3. (\E f : f = [t \in Tree |-> B(f, t)]) => InOrder = [t \in Tree |-> B(InOrder, t)]
  BY DEF InOrder
<1> HIDE DEF B
<1>4. 0 \in T
  <2> DEFINE f == [t \in Tree |-> B([s \in Tree |-> Nil], Nil)]
  <2>1. TreeUpTo[0] = {Nil}
    BY LevelZero
  <2>2. Fits(f, 0)
    BY <1>2, <2>1, InTree
  <2> QED
    <3> HIDE DEF Fits, f
    <3> QED
      BY <2>2
<1>5. ASSUME NEW k \in Nat, k \in T PROVE k + 1 \in T
  <2> SUFFICES ASSUME k + 1 <= MaxDepth PROVE \E f : Fits(f, k + 1)
    OBVIOUS
  <2>1. k \in 0 .. MaxDepth - 1 /\ k \in 0 .. MaxDepth /\ k + 1 \in 0 .. MaxDepth
    BY DepthNat
  <2>2. PICK f : Fits(f, k)
    BY <1>5, <2>1
  <2> DEFINE g == [t \in Tree |-> B(f, t)]
  <2>3. \A s \in TreeUpTo[k] : f[s] = g[s]
    BY <2>1, <2>2, InTree
  <2>4. \A t \in TreeUpTo[k + 1] : g[t] = B(g, t)
    <3>1. \A t \in TreeUpTo[k + 1] : g[t] = B(f, t)
      BY <2>1, InTree
    <3> HIDE DEF g
    <3> QED
      BY <1>1, <2>1, <2>3, <3>1
  <2>5. Fits(g, k + 1)
    BY <2>4
  <2> QED
    <3> HIDE DEF Fits, g
    <3> QED
      BY <2>5
<1>6. MaxDepth \in T
  <2> HIDE DEF T
  <2> QED
    BY <1>4, <1>5, NaturalsBySuccessor, DepthNat
<1>7. PICK f : Fits(f, MaxDepth)
  BY <1>6, DepthNat
<1>8. f = [t \in Tree |-> B(f, t)]
  BY <1>7 DEF Tree
<1>9. InOrder = [t \in Tree |-> B(InOrder, t)]
  BY <1>3, <1>8
<1> QED
  BY <1>9 DEF B

LEMMA AbsorbLeftEq ==
  \A t \in Tree :
    AbsorbLeft[t] = [r \in Segment |->
      IF t = Nil THEN [t |-> Nil, r |-> r, freed |-> 0]
      ELSE IF r.base > End(t.r)
      THEN LET x == AbsorbLeft[t.rc][r]
           IN  [t |-> Node(t.lc, t.r, x.t), r |-> x.r, freed |-> x.freed]
      ELSE LET lo == IF t.r.base < r.base THEN t.r.base ELSE r.base
               x == AbsorbLeft[t.lc][MemRange(lo, End(r) - lo)]
           IN  [t |-> x.t, r |-> x.r, freed |-> x.freed + 1 + Count(t.rc)]]
<1> DEFINE B(f, t) == [r \in Segment |->
            IF t = Nil THEN [t |-> Nil, r |-> r, freed |-> 0]
            ELSE IF r.base > End(t.r)
            THEN LET x == f[t.rc][r]
                 IN  [t |-> Node(t.lc, t.r, x.t), r |-> x.r, freed |-> x.freed]
            ELSE LET lo == IF t.r.base < r.base THEN t.r.base ELSE r.base
                     x == f[t.lc][MemRange(lo, End(r) - lo)]
                 IN  [t |-> x.t, r |-> x.r, freed |-> x.freed + 1 + Count(t.rc)]]
           Fits(f, k) == f = [t \in Tree |-> f[t]] /\ \A t \in TreeUpTo[k] : f[t] = B(f, t)
           T == {k \in Nat : k <= MaxDepth => \E f : Fits(f, k)}
<1>1. ASSUME NEW k \in 0 .. MaxDepth - 1, NEW f, NEW g, \A s \in TreeUpTo[k] : f[s] = g[s],
             NEW t \in TreeUpTo[k + 1]
      PROVE  B(f, t) = B(g, t)
  <2> DEFINE C(h, r) == IF t = Nil THEN [t |-> Nil, r |-> r, freed |-> 0]
                      ELSE IF r.base > End(t.r)
                      THEN LET x == h[t.rc][r]
                           IN  [t |-> Node(t.lc, t.r, x.t), r |-> x.r, freed |-> x.freed]
                      ELSE LET lo == IF t.r.base < r.base THEN t.r.base ELSE r.base
                               x == h[t.lc][MemRange(lo, End(r) - lo)]
                           IN  [t |-> x.t, r |-> x.r, freed |-> x.freed + 1 + Count(t.rc)]
  <2>1. ASSUME NEW r \in Segment PROVE C(f, r) = C(g, r)
    <3>1. t # Nil => t.lc \in TreeUpTo[k] /\ t.rc \in TreeUpTo[k]
      BY Subtrees
    <3>2. t # Nil => f[t.lc] = g[t.lc] /\ f[t.rc] = g[t.rc]
      BY <1>1, <3>1
    <3> QED
      BY <3>2
  <2> HIDE DEF C
  <2>2. [r \in Segment |-> C(f, r)] = [r \in Segment |-> C(g, r)]
    BY <2>1
  <2> QED
    BY <2>2 DEF C
<1>2. \A f, g : B(f, Nil) = B(g, Nil)
  OBVIOUS
<1>3. (\E f : f = [t \in Tree |-> B(f, t)]) => AbsorbLeft = [t \in Tree |-> B(AbsorbLeft, t)]
  BY DEF AbsorbLeft
<1> HIDE DEF B
<1>4. 0 \in T
  <2> DEFINE f == [t \in Tree |-> B([s \in Tree |-> Nil], Nil)]
  <2>1. TreeUpTo[0] = {Nil}
    BY LevelZero
  <2>2. Fits(f, 0)
    BY <1>2, <2>1, InTree
  <2> QED
    <3> HIDE DEF Fits, f
    <3> QED
      BY <2>2
<1>5. ASSUME NEW k \in Nat, k \in T PROVE k + 1 \in T
  <2> SUFFICES ASSUME k + 1 <= MaxDepth PROVE \E f : Fits(f, k + 1)
    OBVIOUS
  <2>1. k \in 0 .. MaxDepth - 1 /\ k \in 0 .. MaxDepth /\ k + 1 \in 0 .. MaxDepth
    BY DepthNat
  <2>2. PICK f : Fits(f, k)
    BY <1>5, <2>1
  <2> DEFINE g == [t \in Tree |-> B(f, t)]
  <2>3. \A s \in TreeUpTo[k] : f[s] = g[s]
    BY <2>1, <2>2, InTree
  <2>4. \A t \in TreeUpTo[k + 1] : g[t] = B(g, t)
    <3>1. \A t \in TreeUpTo[k + 1] : g[t] = B(f, t)
      BY <2>1, InTree
    <3> HIDE DEF g
    <3> QED
      BY <1>1, <2>1, <2>3, <3>1
  <2>5. Fits(g, k + 1)
    BY <2>4
  <2> QED
    <3> HIDE DEF Fits, g
    <3> QED
      BY <2>5
<1>6. MaxDepth \in T
  <2> HIDE DEF T
  <2> QED
    BY <1>4, <1>5, NaturalsBySuccessor, DepthNat
<1>7. PICK f : Fits(f, MaxDepth)
  BY <1>6, DepthNat
<1>8. f = [t \in Tree |-> B(f, t)]
  BY <1>7 DEF Tree
<1>9. AbsorbLeft = [t \in Tree |-> B(AbsorbLeft, t)]
  BY <1>3, <1>8
<1> QED
  BY <1>9 DEF B

LEMMA AbsorbRightEq ==
  \A t \in Tree :
    AbsorbRight[t] = [r \in Segment |->
      IF t = Nil THEN [t |-> Nil, r |-> r, freed |-> 0]
      ELSE IF End(r) < t.r.base
      THEN LET x == AbsorbRight[t.lc][r]
           IN  [t |-> Node(x.t, t.r, t.rc), r |-> x.r, freed |-> x.freed]
      ELSE LET hi == IF End(r) < End(t.r) THEN End(t.r) ELSE End(r)
               x == AbsorbRight[t.rc][MemRange(r.base, hi - r.base)]
           IN  [t |-> x.t, r |-> x.r, freed |-> x.freed + 1 + Count(t.lc)]]
<1> DEFINE B(f, t) == [r \in Segment |->
            IF t = Nil THEN [t |-> Nil, r |-> r, freed |-> 0]
            ELSE IF End(r) < t.r.base
            THEN LET x == f[t.lc][r]
                 IN  [t |-> Node(x.t, t.r, t.rc), r |-> x.r, freed |-> x.freed]
            ELSE LET hi == IF End(r) < End(t.r) THEN End(t.r) ELSE End(r)
                     x == f[t.rc][MemRange(r.base, hi - r.base)]
                 IN  [t |-> x.t, r |-> x.r, freed |-> x.freed + 1 + Count(t.lc)]]
           Fits(f, k) == f = [t \in Tree |-> f[t]] /\ \A t \in TreeUpTo[k] : f[t] = B(f, t)
           T == {k \in Nat : k <= MaxDepth => \E f : Fits(f, k)}
<1>1. ASSUME NEW k \in 0 .. MaxDepth - 1, NEW f, NEW g, \A s \in TreeUpTo[k] : f[s] = g[s],
             NEW t \in TreeUpTo[k + 1]
      PROVE  B(f, t) = B(g, t)
  <2> DEFINE C(h, r) == IF t = Nil THEN [t |-> Nil, r |-> r, freed |-> 0]
                      ELSE IF End(r) < t.r.base
                      THEN LET x == h[t.lc][r]
                           IN  [t |-> Node(x.t, t.r, t.rc), r |-> x.r, freed |-> x.freed]
                      ELSE LET hi == IF End(r) < End(t.r) THEN End(t.r) ELSE End(r)
                               x == h[t.rc][MemRange(r.base, hi - r.base)]
                           IN  [t |-> x.t, r |-> x.r, freed |-> x.freed + 1 + Count(t.lc)]
  <2>1. ASSUME NEW r \in Segment PROVE C(f, r) = C(g, r)
    <3>1. t # Nil => t.lc \in TreeUpTo[k] /\ t.rc \in TreeUpTo[k]
      BY Subtrees
    <3>2. t # Nil => f[t.lc] = g[t.lc] /\ f[t.rc] = g[t.rc]
      BY <1>1, <3>1
    <3> QED
      BY <3>2
  <2> HIDE DEF C
  <2>2. [r \in Segment |-> C(f, r)] = [r \in Segment |-> C(g, r)]
    BY <2>1
  <2> QED
    BY <2>2 DEF C
<1>2. \A f, g : B(f, Nil) = B(g, Nil)
  OBVIOUS
<1>3. (\E f : f = [t \in Tree |-> B(f, t)]) => AbsorbRight = [t \in Tree |-> B(AbsorbRight, t)]
  BY DEF AbsorbRight
<1> HIDE DEF B
<1>4. 0 \in T
  <2> DEFINE f == [t \in Tree |-> B([s \in Tree |-> Nil], Nil)]
  <2>1. TreeUpTo[0] = {Nil}
    BY LevelZero
  <2>2. Fits(f, 0)
    BY <1>2, <2>1, InTree
  <2> QED
    <3> HIDE DEF Fits, f
    <3> QED
      BY <2>2
<1>5. ASSUME NEW k \in Nat, k \in T PROVE k + 1 \in T
  <2> SUFFICES ASSUME k + 1 <= MaxDepth PROVE \E f : Fits(f, k + 1)
    OBVIOUS
  <2>1. k \in 0 .. MaxDepth - 1 /\ k \in 0 .. MaxDepth /\ k + 1 \in 0 .. MaxDepth
    BY DepthNat
  <2>2. PICK f : Fits(f, k)
    BY <1>5, <2>1
  <2> DEFINE g == [t \in Tree |-> B(f, t)]
  <2>3. \A s \in TreeUpTo[k] : f[s] = g[s]
    BY <2>1, <2>2, InTree
  <2>4. \A t \in TreeUpTo[k + 1] : g[t] = B(g, t)
    <3>1. \A t \in TreeUpTo[k + 1] : g[t] = B(f, t)
      BY <2>1, InTree
    <3> HIDE DEF g
    <3> QED
      BY <1>1, <2>1, <2>3, <3>1
  <2>5. Fits(g, k + 1)
    BY <2>4
  <2> QED
    <3> HIDE DEF Fits, g
    <3> QED
      BY <2>5
<1>6. MaxDepth \in T
  <2> HIDE DEF T
  <2> QED
    BY <1>4, <1>5, NaturalsBySuccessor, DepthNat
<1>7. PICK f : Fits(f, MaxDepth)
  BY <1>6, DepthNat
<1>8. f = [t \in Tree |-> B(f, t)]
  BY <1>7 DEF Tree
<1>9. AbsorbRight = [t \in Tree |-> B(AbsorbRight, t)]
  BY <1>3, <1>8
<1> QED
  BY <1>9 DEF B

LEMMA SubtreeOverlapsEq ==
  \A t \in Tree :
    SubtreeOverlaps[t] = [r \in Segment |->
      IF t = Nil THEN None
      ELSE IF End(t.r) <= r.base THEN SubtreeOverlaps[t.rc][r]
      ELSE IF t.r.base > End(r) THEN SubtreeOverlaps[t.lc][r]
      ELSE LET head == IF t.r.base > r.base
                       THEN SubtreeOverlaps[t.lc][MemRange(r.base, t.r.base - r.base)]
                       ELSE None
           IN  IF head # None THEN head ELSE Overlap(t.r, r)]
<1> DEFINE B(f, t) == [r \in Segment |->
            IF t = Nil THEN None
            ELSE IF End(t.r) <= r.base THEN f[t.rc][r]
            ELSE IF t.r.base > End(r) THEN f[t.lc][r]
            ELSE LET head == IF t.r.base > r.base
                             THEN f[t.lc][MemRange(r.base, t.r.base - r.base)]
                             ELSE None
                 IN  IF head # None THEN head ELSE Overlap(t.r, r)]
           Fits(f, k) == f = [t \in Tree |-> f[t]] /\ \A t \in TreeUpTo[k] : f[t] = B(f, t)
           T == {k \in Nat : k <= MaxDepth => \E f : Fits(f, k)}
<1>1. ASSUME NEW k \in 0 .. MaxDepth - 1, NEW f, NEW g, \A s \in TreeUpTo[k] : f[s] = g[s],
             NEW t \in TreeUpTo[k + 1]
      PROVE  B(f, t) = B(g, t)
  <2> DEFINE C(h, r) == IF t = Nil THEN None
                      ELSE IF End(t.r) <= r.base THEN h[t.rc][r]
                      ELSE IF t.r.base > End(r) THEN h[t.lc][r]
                      ELSE LET head == IF t.r.base > r.base
                                       THEN h[t.lc][MemRange(r.base, t.r.base - r.base)]
                                       ELSE None
                           IN  IF head # None THEN head ELSE Overlap(t.r, r)
  <2>1. ASSUME NEW r \in Segment PROVE C(f, r) = C(g, r)
    <3>1. t # Nil => t.lc \in TreeUpTo[k] /\ t.rc \in TreeUpTo[k]
      BY Subtrees
    <3>2. t # Nil => f[t.lc] = g[t.lc] /\ f[t.rc] = g[t.rc]
      BY <1>1, <3>1
    <3> QED
      BY <3>2
  <2> HIDE DEF C
  <2>2. [r \in Segment |-> C(f, r)] = [r \in Segment |-> C(g, r)]
    BY <2>1
  <2> QED
    BY <2>2 DEF C
<1>2. \A f, g : B(f, Nil) = B(g, Nil)
  OBVIOUS
<1>3. (\E f : f = [t \in Tree |-> B(f, t)]) => SubtreeOverlaps = [t \in Tree |-> B(SubtreeOverlaps, t)]
  BY DEF SubtreeOverlaps
<1> HIDE DEF B
<1>4. 0 \in T
  <2> DEFINE f == [t \in Tree |-> B([s \in Tree |-> Nil], Nil)]
  <2>1. TreeUpTo[0] = {Nil}
    BY LevelZero
  <2>2. Fits(f, 0)
    BY <1>2, <2>1, InTree
  <2> QED
    <3> HIDE DEF Fits, f
    <3> QED
      BY <2>2
<1>5. ASSUME NEW k \in Nat, k \in T PROVE k + 1 \in T
  <2> SUFFICES ASSUME k + 1 <= MaxDepth PROVE \E f : Fits(f, k + 1)
    OBVIOUS
  <2>1. k \in 0 .. MaxDepth - 1 /\ k \in 0 .. MaxDepth /\ k + 1 \in 0 .. MaxDepth
    BY DepthNat
  <2>2. PICK f : Fits(f, k)
    BY <1>5, <2>1
  <2> DEFINE g == [t \in Tree |-> B(f, t)]
  <2>3. \A s \in TreeUpTo[k] : f[s] = g[s]
    BY <2>1, <2>2, InTree
  <2>4. \A t \in TreeUpTo[k + 1] : g[t] = B(g, t)
    <3>1. \A t \in TreeUpTo[k + 1] : g[t] = B(f, t)
      BY <2>1, InTree
    <3> HIDE DEF g
    <3> QED
      BY <1>1, <2>1, <2>3, <3>1
  <2>5. Fits(g, k + 1)
    BY <2>4
  <2> QED
    <3> HIDE DEF Fits, g
    <3> QED
      BY <2>5
<1>6. MaxDepth \in T
  <2> HIDE DEF T
  <2> QED
    BY <1>4, <1>5, NaturalsBySuccessor, DepthNat
<1>7. PICK f : Fits(f, MaxDepth)
  BY <1>6, DepthNat
<1>8. f = [t \in Tree |-> B(f, t)]
  BY <1>7 DEF Tree
<1>9. SubtreeOverlaps = [t \in Tree |-> B(SubtreeOverlaps, t)]
  BY <1>3, <1>8
<1> QED
  BY <1>9 DEF B

(* The subtrees splay goes on with. *)
LEMMA Passed ==
  ASSUME NEW n \in 0 .. MaxDepth - 1, NEW t \in TreeUpTo[n + 1], t # Nil
  PROVE  /\ t.lc \in TreeUpTo[n] /\ (t.lc # Nil => RotateRight(t).lc \in TreeUpTo[n])
         /\ t.rc \in TreeUpTo[n] /\ (t.rc # Nil => RotateLeft(t).rc \in TreeUpTo[n])
<1>1. /\ t.lc \in TreeUpTo[n] /\ t.rc \in TreeUpTo[n] /\ t.r \in Segment
      /\ t = Node(t.lc, t.r, t.rc)
  BY Subtrees
<1>2. ASSUME NEW s \in TreeUpTo[n], s # Nil
      PROVE  s = Node(s.lc, s.r, s.rc) /\ s.lc \in TreeUpTo[n] /\ s.rc \in TreeUpTo[n]
  <2>1. n # 0
    BY <1>2, LevelZero
  <2> DEFINE k == n - 1
  <2>2. k \in 0 .. MaxDepth - 1 /\ k + 1 = n /\ k \in 0 .. MaxDepth /\ n \in 0 .. MaxDepth
    BY <2>1, DepthNat
  <2>3. k \in Nat /\ k <= n
    BY <2>2
  <2> HIDE DEF k
  <2>4. s = Node(s.lc, s.r, s.rc) /\ s.lc \in TreeUpTo[k] /\ s.rc \in TreeUpTo[k]
    BY <1>2, <2>2, Subtrees
  <2>5. TreeUpTo[k] \subseteq TreeUpTo[n]
    BY <2>2, <2>3, LevelGrows
  <2> QED
    BY <2>4, <2>5
<1>3. ASSUME t.lc # Nil PROVE RotateRight(t).lc = t.lc.lc
  BY NodeFields DEF RotateRight
<1>4. ASSUME t.rc # Nil PROVE RotateLeft(t).rc = t.rc.rc
  BY NodeFields DEF RotateLeft
<1> QED
  BY <1>1, <1>2, <1>3, <1>4

LEMMA SplayEq ==
  \A t \in Tree :
    Splay[t] = [r \in Addr |->
      IF t = Nil THEN Nil
      ELSE IF r < t.r.base
      THEN LET u == IF t.lc # Nil /\ r < t.lc.r.base THEN RotateRight(t) ELSE t
               top == Splay[u.lc][r]
           IN  IF u.lc = Nil THEN u ELSE Node(top.lc, top.r, Node(top.rc, u.r, u.rc))
      ELSE IF r > t.r.base
      THEN LET u == IF t.rc # Nil /\ r > t.rc.r.base THEN RotateLeft(t) ELSE t
               top == Splay[u.rc][r]
           IN  IF u.rc = Nil THEN u ELSE Node(Node(u.lc, u.r, top.lc), top.r, top.rc)
      ELSE t]
<1> DEFINE B(f, t) == [r \in Addr |->
            IF t = Nil THEN Nil
            ELSE IF r < t.r.base
            THEN LET u == IF t.lc # Nil /\ r < t.lc.r.base THEN RotateRight(t) ELSE t
                     top == f[u.lc][r]
                 IN  IF u.lc = Nil THEN u ELSE Node(top.lc, top.r, Node(top.rc, u.r, u.rc))
            ELSE IF r > t.r.base
            THEN LET u == IF t.rc # Nil /\ r > t.rc.r.base THEN RotateLeft(t) ELSE t
                     top == f[u.rc][r]
                 IN  IF u.rc = Nil THEN u ELSE Node(Node(u.lc, u.r, top.lc), top.r, top.rc)
            ELSE t]
           Fits(f, k) == f = [t \in Tree |-> f[t]] /\ \A t \in TreeUpTo[k] : f[t] = B(f, t)
           T == {k \in Nat : k <= MaxDepth => \E f : Fits(f, k)}
<1>1. ASSUME NEW k \in 0 .. MaxDepth - 1, NEW f, NEW g, \A s \in TreeUpTo[k] : f[s] = g[s],
             NEW t \in TreeUpTo[k + 1]
      PROVE  B(f, t) = B(g, t)
  <2> DEFINE C(h, r) == IF t = Nil THEN Nil
                      ELSE IF r < t.r.base
                      THEN LET u == IF t.lc # Nil /\ r < t.lc.r.base THEN RotateRight(t) ELSE t
                               top == h[u.lc][r]
                           IN  IF u.lc = Nil THEN u ELSE Node(top.lc, top.r, Node(top.rc, u.r, u.rc))
                      ELSE IF r > t.r.base
                      THEN LET u == IF t.rc # Nil /\ r > t.rc.r.base THEN RotateLeft(t) ELSE t
                               top == h[u.rc][r]
                           IN  IF u.rc = Nil THEN u ELSE Node(Node(u.lc, u.r, top.lc), top.r, top.rc)
                      ELSE t
  <2>1. ASSUME NEW r \in Addr PROVE C(f, r) = C(g, r)
    <3> DEFINE right == IF t.lc # Nil /\ r < t.lc.r.base THEN RotateRight(t) ELSE t
               left == IF t.rc # Nil /\ r > t.rc.r.base THEN RotateLeft(t) ELSE t
    <3>1. t # Nil => right.lc \in TreeUpTo[k] /\ left.rc \in TreeUpTo[k]
      BY <1>1, Passed
    <3> HIDE DEF right, left
    <3>2. t # Nil => f[right.lc] = g[right.lc] /\ f[left.rc] = g[left.rc]
      BY <1>1, <3>1
    <3> QED
      BY <3>2 DEF right, left
  <2> HIDE DEF C
  <2>2. [r \in Addr |-> C(f, r)] = [r \in Addr |-> C(g, r)]
    BY <2>1
  <2> QED
    BY <2>2 DEF C
<1>2. \A f, g : B(f, Nil) = B(g, Nil)
  OBVIOUS
<1>3. (\E f : f = [t \in Tree |-> B(f, t)]) => Splay = [t \in Tree |-> B(Splay, t)]
  BY DEF Splay
<1> HIDE DEF B
<1>4. 0 \in T
  <2> DEFINE f == [t \in Tree |-> B([s \in Tree |-> Nil], Nil)]
  <2>1. TreeUpTo[0] = {Nil}
    BY LevelZero
  <2>2. Fits(f, 0)
    BY <1>2, <2>1, InTree
  <2> QED
    <3> HIDE DEF Fits, f
    <3> QED
      BY <2>2
<1>5. ASSUME NEW k \in Nat, k \in T PROVE k + 1 \in T
  <2> SUFFICES ASSUME k + 1 <= MaxDepth PROVE \E f : Fits(f, k + 1)
    OBVIOUS
  <2>1. k \in 0 .. MaxDepth - 1 /\ k \in 0 .. MaxDepth /\ k + 1 \in 0 .. MaxDepth
    BY DepthNat
  <2>2. PICK f : Fits(f, k)
    BY <1>5, <2>1
  <2> DEFINE g == [t \in Tree |-> B(f, t)]
  <2>3. \A s \in TreeUpTo[k] : f[s] = g[s]
    BY <2>1, <2>2, InTree
  <2>4. \A t \in TreeUpTo[k + 1] : g[t] = B(g, t)
    <3>1. \A t \in TreeUpTo[k + 1] : g[t] = B(f, t)
      BY <2>1, InTree
    <3> HIDE DEF g
    <3> QED
      BY <1>1, <2>1, <2>3, <3>1
  <2>5. Fits(g, k + 1)
    BY <2>4
  <2> QED
    <3> HIDE DEF Fits, g
    <3> QED
      BY <2>5
<1>6. MaxDepth \in T
  <2> HIDE DEF T
  <2> QED
    BY <1>4, <1>5, NaturalsBySuccessor, DepthNat
<1>7. PICK f : Fits(f, MaxDepth)
  BY <1>6, DepthNat
<1>8. f = [t \in Tree |-> B(f, t)]
  BY <1>7 DEF Tree
<1>9. Splay = [t \in Tree |-> B(Splay, t)]
  BY <1>3, <1>8
<1> QED
  BY <1>9 DEF B

LEMMA RightmostEq ==
  \A t \in Tree :
    Rightmost[t] = IF t = Nil THEN None ELSE IF t.rc = Nil THEN t.r ELSE Rightmost[t.rc]
<1> DEFINE B(f, t) == IF t = Nil THEN None ELSE IF t.rc = Nil THEN t.r ELSE f[t.rc]
           Fits(f, k) == f = [t \in Tree |-> f[t]] /\ \A t \in TreeUpTo[k] : f[t] = B(f, t)
           T == {k \in Nat : k <= MaxDepth => \E f : Fits(f, k)}
<1>1. ASSUME NEW k \in 0 .. MaxDepth - 1, NEW f, NEW g, \A s \in TreeUpTo[k] : f[s] = g[s],
             NEW t \in TreeUpTo[k + 1]
      PROVE  B(f, t) = B(g, t)
  BY <1>1, Subtrees
<1>2. \A f, g : B(f, Nil) = B(g, Nil)
  OBVIOUS
<1>3. (\E f : f = [t \in Tree |-> B(f, t)]) => Rightmost = [t \in Tree |-> B(Rightmost, t)]
  BY DEF Rightmost
<1> HIDE DEF B
<1>4. 0 \in T
  <2> DEFINE f == [t \in Tree |-> B([s \in Tree |-> Nil], Nil)]
  <2>1. TreeUpTo[0] = {Nil}
    BY LevelZero
  <2>2. Fits(f, 0)
    BY <1>2, <2>1, InTree
  <2> QED
    <3> HIDE DEF Fits, f
    <3> QED
      BY <2>2
<1>5. ASSUME NEW k \in Nat, k \in T PROVE k + 1 \in T
  <2> SUFFICES ASSUME k + 1 <= MaxDepth PROVE \E f : Fits(f, k + 1)
    OBVIOUS
  <2>1. k \in 0 .. MaxDepth - 1 /\ k \in 0 .. MaxDepth /\ k + 1 \in 0 .. MaxDepth
    BY DepthNat
  <2>2. PICK f : Fits(f, k)
    BY <1>5, <2>1
  <2> DEFINE g == [t \in Tree |-> B(f, t)]
  <2>3. \A s \in TreeUpTo[k] : f[s] = g[s]
    BY <2>1, <2>2, InTree
  <2>4. \A t \in TreeUpTo[k + 1] : g[t] = B(g, t)
    <3>1. \A t \in TreeUpTo[k + 1] : g[t] = B(f, t)
      BY <2>1, InTree
    <3> HIDE DEF g
    <3> QED
      BY <1>1, <2>1, <2>3, <3>1
  <2>5. Fits(g, k + 1)
    BY <2>4
  <2> QED
    <3> HIDE DEF Fits, g
    <3> QED
      BY <2>5
<1>6. MaxDepth \in T
  <2> HIDE DEF T
  <2> QED
    BY <1>4, <1>5, NaturalsBySuccessor, DepthNat
<1>7. PICK f : Fits(f, MaxDepth)
  BY <1>6, DepthNat
<1>8. f = [t \in Tree |-> B(f, t)]
  BY <1>7 DEF Tree
<1>9. Rightmost = [t \in Tree |-> B(Rightmost, t)]
  BY <1>3, <1>8
<1> QED
  BY <1>9 DEF B

-----------------------------------------------------------------------------
(***************************************************************************)
(* Search trees.                                                           *)
(***************************************************************************)
(* The ranges of a sequence lie one behind the other and do not touch. *)
Sep(s) == \A i, j \in 1 .. Len(s) : i < j => End(s[i]) < s[j].base
Els(t) == ToSet(InOrder[t])
BST(t) == t \in Tree /\ Sep(InOrder[t])
Before(S, r) == \A e \in S : End(e) < r.base
Behind(S, r) == \A e \in S : End(r) < e.base

LEMMA SegmentFacts ==
  \A r \in Segment : /\ r.base \in Nat /\ r.size \in Nat /\ r.base <= MaxAddr /\ r.size >= 1
                     /\ End(r) \in Nat /\ r.base < End(r) /\ End(r) <= MaxAddr + 1
                     /\ r = MemRange(r.base, End(r) - r.base)
BY DepthNat DEF Segment, Addr, End, MemRange

LEMMA SegmentOf ==
  ASSUME NEW lo \in Int, NEW hi \in Int, 0 <= lo, lo < hi, hi <= MaxAddr + 1
  PROVE  /\ MemRange(lo, hi - lo) \in Segment
         /\ MemRange(lo, hi - lo).base = lo /\ End(MemRange(lo, hi - lo)) = hi
BY DepthNat DEF Segment, Addr, End, MemRange

LEMMA InOrderType == \A t \in Tree : InOrder[t] \in Seq(Segment)
<1> DEFINE T == {n \in Nat : n <= MaxDepth => \A t \in TreeUpTo[n] : InOrder[t] \in Seq(Segment)}
<1>0. InOrder[Nil] \in Seq(Segment)
  <2>1. InOrder[Nil] = <<>>
    BY InOrderEq, InTree
  <2>2. <<>> \in Seq(Segment)
    OBVIOUS
  <2> QED
    BY <2>1, <2>2, Zenon
<1>1. 0 \in T
  BY <1>0, LevelZero
<1>2. ASSUME NEW n \in Nat, n \in T PROVE n + 1 \in T
  <2> SUFFICES ASSUME n + 1 <= MaxDepth, NEW t \in TreeUpTo[n + 1]
               PROVE  InOrder[t] \in Seq(Segment)
    OBVIOUS
  <2>1. n \in 0 .. MaxDepth - 1 /\ n + 1 \in 0 .. MaxDepth /\ n <= MaxDepth
    BY DepthNat
  <2>2. t \in Tree
    BY <2>1, InTree
  <2>3. CASE t = Nil
    BY <1>0, <2>3
  <2>4. CASE t # Nil
    <3>1. t.lc \in TreeUpTo[n] /\ t.rc \in TreeUpTo[n] /\ t.r \in Segment
      BY <2>1, <2>4, Subtrees
    <3>2. InOrder[t.lc] \in Seq(Segment) /\ InOrder[t.rc] \in Seq(Segment)
      BY <1>2, <2>1, <3>1
    <3>3. InOrder[t] = InOrder[t.lc] \o <<t.r>> \o InOrder[t.rc]
      BY <2>2, <2>4, InOrderEq
    <3> QED
      BY <3>1, <3>2, <3>3
  <2> QED
    BY <2>3, <2>4
<1>3. MaxDepth \in T
  <2> HIDE DEF T
  <2> QED
    BY <1>1, <1>2, NaturalsBySuccessor, DepthNat
<1> QED
  BY <1>3, DepthNat DEF Tree

LEMMA ConcatSep ==
  ASSUME NEW s \in Seq(Segment), NEW u \in Seq(Segment), NEW r \in Segment
  PROVE  LET w == s \o <<r>> \o u IN
         /\ w \in Seq(Segment)
         /\ Len(w) = Len(s) + 1 + Len(u)
         /\ ToSet(w) = ToSet(s) \cup {r} \cup ToSet(u)
         /\ Sep(w) <=> Sep(s) /\ Sep(u) /\ Before(ToSet(s), r) /\ Behind(ToSet(u), r)
<1> DEFINE w == s \o <<r>> \o u
<1>1. w \in Seq(Segment) /\ Len(w) = Len(s) + 1 + Len(u)
  OBVIOUS
<1>2. /\ \A i \in 1 .. Len(s) : w[i] = s[i]
      /\ w[Len(s) + 1] = r
      /\ \A i \in 1 .. Len(u) : w[Len(s) + 1 + i] = u[i]
  OBVIOUS
<1>3. /\ DOMAIN s = 1 .. Len(s) /\ DOMAIN u = 1 .. Len(u) /\ DOMAIN w = 1 .. Len(w)
      /\ Len(s) \in Nat /\ Len(u) \in Nat
      /\ \A i \in 1 .. Len(s) : s[i] \in Segment
      /\ \A i \in 1 .. Len(u) : u[i] \in Segment
  BY <1>1
<1> HIDE DEF w
<1>4. \A k \in 1 .. Len(w) : \/ k \in 1 .. Len(s)
                             \/ k = Len(s) + 1
                             \/ k - (Len(s) + 1) \in 1 .. Len(u) /\ k = Len(s) + 1 + (k - (Len(s) + 1))
  BY <1>1, <1>3
<1>5. ToSet(w) = ToSet(s) \cup {r} \cup ToSet(u)
  <2>1. \A i \in 1 .. Len(s) : i \in 1 .. Len(w)
    BY <1>1, <1>3
  <2>2. \A i \in 1 .. Len(u) : Len(s) + 1 + i \in 1 .. Len(w)
    BY <1>1, <1>3
  <2>3. Len(s) + 1 \in 1 .. Len(w)
    BY <1>1, <1>3
  <2>4. ToSet(w) \subseteq ToSet(s) \cup {r} \cup ToSet(u)
    <3> SUFFICES ASSUME NEW k \in 1 .. Len(w)
                 PROVE  w[k] \in ToSet(s) \cup {r} \cup ToSet(u)
      BY <1>3 DEF ToSet
    <3>1. CASE k \in 1 .. Len(s)
      BY <1>2, <1>3, <3>1 DEF ToSet
    <3>2. CASE k = Len(s) + 1
      BY <1>2, <3>2
    <3>3. CASE k - (Len(s) + 1) \in 1 .. Len(u) /\ k = Len(s) + 1 + (k - (Len(s) + 1))
      <4> DEFINE m == k - (Len(s) + 1)
      <4>1. m \in 1 .. Len(u) /\ w[k] = u[m]
        BY <1>2, <3>3
      <4> HIDE DEF m
      <4> QED
        BY <1>3, <4>1 DEF ToSet
    <3> QED
      BY <1>4, <3>1, <3>2, <3>3
  <2>5. ToSet(s) \subseteq ToSet(w)
    BY <1>2, <1>3, <2>1 DEF ToSet
  <2>6. ToSet(u) \subseteq ToSet(w)
    BY <1>2, <1>3, <2>2 DEF ToSet
  <2>7. r \in ToSet(w)
    BY <1>2, <1>3, <2>3 DEF ToSet
  <2> QED
    BY <2>4, <2>5, <2>6, <2>7
<1>6. ASSUME Sep(w) PROVE Sep(s) /\ Sep(u) /\ Before(ToSet(s), r) /\ Behind(ToSet(u), r)
  <2>1. Sep(s)
    BY <1>1, <1>2, <1>3, <1>6 DEF Sep
  <2>2. Sep(u)
    <3> SUFFICES ASSUME NEW i \in 1 .. Len(u), NEW j \in 1 .. Len(u), i < j
                 PROVE  End(u[i]) < u[j].base
      BY DEF Sep
    <3>1. /\ Len(s) + 1 + i \in 1 .. Len(w) /\ Len(s) + 1 + j \in 1 .. Len(w)
          /\ Len(s) + 1 + i < Len(s) + 1 + j
      BY <1>1, <1>3
    <3>2. End(w[Len(s) + 1 + i]) < w[Len(s) + 1 + j].base
      BY <3>1, <1>6 DEF Sep
    <3> QED
      BY <1>2, <3>2
  <2>3. Before(ToSet(s), r)
    <3> SUFFICES ASSUME NEW i \in 1 .. Len(s) PROVE End(s[i]) < r.base
      BY <1>3 DEF Before, ToSet
    <3>1. i \in 1 .. Len(w) /\ Len(s) + 1 \in 1 .. Len(w) /\ i < Len(s) + 1
      BY <1>1, <1>3
    <3> QED
      BY <1>2, <1>6, <3>1 DEF Sep
  <2>4. Behind(ToSet(u), r)
    <3> SUFFICES ASSUME NEW i \in 1 .. Len(u) PROVE End(r) < u[i].base
      BY <1>3 DEF Behind, ToSet
    <3>1. /\ Len(s) + 1 + i \in 1 .. Len(w) /\ Len(s) + 1 \in 1 .. Len(w)
          /\ Len(s) + 1 < Len(s) + 1 + i
      BY <1>1, <1>3
    <3> QED
      BY <1>2, <1>6, <3>1 DEF Sep
  <2> QED
    BY <2>1, <2>2, <2>3, <2>4
<1>7. ASSUME Sep(s), Sep(u), Before(ToSet(s), r), Behind(ToSet(u), r) PROVE Sep(w)
  <2> SUFFICES ASSUME NEW i \in 1 .. Len(w), NEW j \in 1 .. Len(w), i < j
               PROVE  End(w[i]) < w[j].base
    BY DEF Sep
  <2>1. \A k \in 1 .. Len(s) : End(s[k]) < r.base
    BY <1>3, <1>7 DEF Before, ToSet
  <2>2. \A k \in 1 .. Len(u) : End(r) < u[k].base
    BY <1>3, <1>7 DEF Behind, ToSet
  <2>3. r.base \in Nat /\ End(r) \in Nat /\ r.base < End(r)
    BY SegmentFacts
  <2>4. /\ \A k \in 1 .. Len(s) : s[k].base \in Nat /\ End(s[k]) \in Nat
        /\ \A k \in 1 .. Len(u) : u[k].base \in Nat /\ End(u[k]) \in Nat
    BY <1>3, SegmentFacts
  <2>5. CASE i \in 1 .. Len(s) /\ j \in 1 .. Len(s)
    BY <1>2, <1>7, <2>5 DEF Sep
  <2>6. CASE i \in 1 .. Len(s) /\ j = Len(s) + 1
    BY <1>2, <2>1, <2>6
  <2>7. CASE i \in 1 .. Len(s) /\ j - (Len(s) + 1) \in 1 .. Len(u)
    <3> DEFINE k == j - (Len(s) + 1)
    <3>1. j = Len(s) + 1 + k /\ k \in 1 .. Len(u)
      BY <1>3, <2>7
    <3> HIDE DEF k
    <3>2. w[i] = s[i] /\ w[j] = u[k]
      BY <1>2, <2>7, <3>1
    <3>3. End(s[i]) < r.base /\ End(r) < u[k].base
      BY <2>1, <2>2, <2>7, <3>1
    <3> QED
      BY <2>3, <2>4, <2>7, <3>1, <3>2, <3>3
  <2>8. CASE i = Len(s) + 1 /\ j - (Len(s) + 1) \in 1 .. Len(u)
    <3> DEFINE k == j - (Len(s) + 1)
    <3>1. j = Len(s) + 1 + k /\ k \in 1 .. Len(u)
      BY <1>3, <2>8
    <3> HIDE DEF k
    <3> QED
      BY <1>2, <2>2, <2>8, <3>1
  <2>9. CASE i - (Len(s) + 1) \in 1 .. Len(u) /\ j - (Len(s) + 1) \in 1 .. Len(u)
    <3> DEFINE k == i - (Len(s) + 1)
               m == j - (Len(s) + 1)
    <3>1. i = Len(s) + 1 + k /\ k \in 1 .. Len(u) /\ j = Len(s) + 1 + m /\ m \in 1 .. Len(u) /\ k < m
      BY <1>3, <2>9, SMTT(30)
    <3> HIDE DEF k, m
    <3> QED
      BY <1>2, <1>7, <3>1 DEF Sep
  <2> QED
    BY <1>3, <1>4, <2>5, <2>6, <2>7, <2>8, <2>9
<1> QED
  BY <1>1, <1>5, <1>6, <1>7 DEF w

(* Ranges that are apart are at most as many as the addresses. *)
LEMMA SepBound ==
  ASSUME NEW s \in Seq(Segment), Sep(s)
  PROVE  Len(s) <= MaxAddr + 1
<1> DEFINE T == {i \in Nat : i + 1 <= Len(s) => i <= s[i + 1].base}
<1>0. /\ Len(s) \in Nat
      /\ \A i \in 1 .. Len(s) : s[i] \in Segment
  OBVIOUS
<1>1. 0 \in T
  BY <1>0, SegmentFacts
<1>2. ASSUME NEW i \in Nat, i \in T PROVE i + 1 \in T
  <2> SUFFICES ASSUME (i + 1) + 1 <= Len(s) PROVE i + 1 <= s[(i + 1) + 1].base
    OBVIOUS
  <2>1. i + 1 \in 1 .. Len(s) /\ (i + 1) + 1 \in 1 .. Len(s) /\ i + 1 < (i + 1) + 1 /\ i + 1 <= Len(s)
    BY <1>0
  <2>2. i <= s[i + 1].base
    BY <1>2, <2>1
  <2>3. End(s[i + 1]) < s[(i + 1) + 1].base
    BY <2>1 DEF Sep
  <2>4. s[i + 1].base \in Nat /\ s[i + 1].base < End(s[i + 1]) /\ End(s[i + 1]) \in Nat
        /\ s[(i + 1) + 1].base \in Nat
    BY <1>0, <2>1, SegmentFacts
  <2> QED
    BY <2>2, <2>3, <2>4
<1>3. \A i \in Nat : i \in T
  <2> HIDE DEF T
  <2> QED
    BY <1>1, <1>2, NaturalsBySuccessor
<1>4. CASE Len(s) = 0
  BY <1>4, DepthNat
<1>5. CASE Len(s) # 0
  <2> DEFINE i == Len(s) - 1
  <2>1. i \in Nat /\ i + 1 \in 1 .. Len(s) /\ i + 1 <= Len(s) /\ Len(s) = i + 1
    BY <1>0, <1>5
  <2> HIDE DEF i
  <2>2. i <= s[i + 1].base
    BY <1>3, <2>1
  <2>3. s[i + 1].base \in Nat /\ s[i + 1].base <= MaxAddr
    BY <1>0, <2>1, SegmentFacts
  <2> QED
    BY <2>1, <2>2, <2>3, DepthNat
<1> QED
  BY <1>4, <1>5

LEMMA NilFacts ==
  InOrder[Nil] = <<>> /\ Count(Nil) = 0 /\ Els(Nil) = {} /\ BST(Nil)
<1>1. InOrder[Nil] = <<>>
  BY InOrderEq, InTree
<1>2. Len(<<>>) = 0 /\ ToSet(<<>>) = {} /\ Sep(<<>>)
  BY DEF ToSet, Sep
<1> QED
  BY <1>1, <1>2, InTree DEF Count, Els, BST

LEMMA TreeFacts ==
  ASSUME NEW t \in Tree
  PROVE  /\ InOrder[t] \in Seq(Segment) /\ Count(t) \in Nat
         /\ Els(t) \subseteq Segment
         /\ t # Nil => /\ t.lc \in Tree /\ t.rc \in Tree /\ t.r \in Segment
                       /\ t = Node(t.lc, t.r, t.rc)
                       /\ InOrder[t] = InOrder[t.lc] \o <<t.r>> \o InOrder[t.rc]
                       /\ Count(t) = Count(t.lc) + 1 + Count(t.rc)
                       /\ Els(t) = Els(t.lc) \cup {t.r} \cup Els(t.rc)
<1>1. InOrder[t] \in Seq(Segment)
  BY InOrderType
<1>2. Count(t) \in Nat /\ Els(t) \subseteq Segment
  BY <1>1 DEF Count, Els, ToSet
<1>3. ASSUME t # Nil
      PROVE  /\ t.lc \in Tree /\ t.rc \in Tree /\ t.r \in Segment
             /\ t = Node(t.lc, t.r, t.rc)
             /\ InOrder[t] = InOrder[t.lc] \o <<t.r>> \o InOrder[t.rc]
  BY <1>3, InTree, InOrderEq
<1>4. ASSUME t # Nil
      PROVE  /\ Count(t) = Count(t.lc) + 1 + Count(t.rc)
             /\ Els(t) = Els(t.lc) \cup {t.r} \cup Els(t.rc)
  <2>1. InOrder[t.lc] \in Seq(Segment) /\ InOrder[t.rc] \in Seq(Segment)
    BY <1>3, <1>4, InOrderType
  <2> DEFINE w == InOrder[t.lc] \o <<t.r>> \o InOrder[t.rc]
  <2>2. /\ Len(w) = Len(InOrder[t.lc]) + 1 + Len(InOrder[t.rc])
        /\ ToSet(w) = ToSet(InOrder[t.lc]) \cup {t.r} \cup ToSet(InOrder[t.rc])
    BY <1>3, <1>4, <2>1, ConcatSep
  <2>3. InOrder[t] = w
    BY <1>3, <1>4
  <2> HIDE DEF w
  <2> QED
    BY <2>2, <2>3 DEF Count, Els
<1> QED
  BY <1>1, <1>2, <1>3, <1>4

(* A tree is no deeper than it has nodes. *)
LEMMA DepthByCount ==
  ASSUME NEW t \in Tree, NEW n \in 0 .. MaxDepth, Count(t) <= n
  PROVE  t \in TreeUpTo[n]
<1> DEFINE T == {k \in Nat : k <= MaxDepth => \A s \in Tree : Count(s) <= k => s \in TreeUpTo[k]}
<1>1. 0 \in T
  <2> SUFFICES ASSUME NEW s \in Tree, Count(s) <= 0 PROVE s \in TreeUpTo[0]
    OBVIOUS
  <2>1. s # Nil => Count(s) = Count(s.lc) + 1 + Count(s.rc) /\ Count(s.lc) \in Nat /\ Count(s.rc) \in Nat
    BY TreeFacts
  <2>2. s = Nil
    BY <2>1
  <2> QED
    BY <2>2, LevelZero
<1>2. ASSUME NEW k \in Nat, k \in T PROVE k + 1 \in T
  <2> SUFFICES ASSUME k + 1 <= MaxDepth, NEW s \in Tree, Count(s) <= k + 1 PROVE s \in TreeUpTo[k + 1]
    OBVIOUS
  <2>1. k \in 0 .. MaxDepth - 1 /\ k + 1 \in 0 .. MaxDepth /\ k <= MaxDepth
    BY DepthNat
  <2>2. CASE s = Nil
    BY <2>1, <2>2, NilLevel
  <2>3. CASE s # Nil
    <3>1. /\ s.lc \in Tree /\ s.rc \in Tree /\ s.r \in Segment /\ s = Node(s.lc, s.r, s.rc)
          /\ Count(s) = Count(s.lc) + 1 + Count(s.rc)
      BY <2>3, TreeFacts
    <3>2. Count(s.lc) \in Nat /\ Count(s.rc) \in Nat
      BY <3>1, TreeFacts
    <3>3. Count(s.lc) <= k /\ Count(s.rc) <= k
      BY <3>1, <3>2
    <3>4. s.lc \in TreeUpTo[k] /\ s.rc \in TreeUpTo[k]
      BY <1>2, <2>1, <3>1, <3>3
    <3> QED
      BY <2>1, <3>1, <3>4, NodeLevel
  <2> QED
    BY <2>2, <2>3
<1>3. n \in T
  <2> HIDE DEF T
  <2> QED
    BY <1>1, <1>2, NaturalsBySuccessor
<1> QED
  BY <1>3

LEMMA NodeSplit ==
  ASSUME NEW t, BST(t), t # Nil
  PROVE  /\ t \in Tree /\ BST(t.lc) /\ BST(t.rc) /\ t.r \in Segment
         /\ t = Node(t.lc, t.r, t.rc)
         /\ Before(Els(t.lc), t.r) /\ Behind(Els(t.rc), t.r)
         /\ InOrder[t] = InOrder[t.lc] \o <<t.r>> \o InOrder[t.rc]
         /\ Count(t) = Count(t.lc) + 1 + Count(t.rc)
         /\ Els(t) = Els(t.lc) \cup {t.r} \cup Els(t.rc)
<1>1. t \in Tree
  BY DEF BST
<1>2. /\ t.lc \in Tree /\ t.rc \in Tree /\ t.r \in Segment
      /\ t = Node(t.lc, t.r, t.rc)
      /\ InOrder[t] = InOrder[t.lc] \o <<t.r>> \o InOrder[t.rc]
      /\ Count(t) = Count(t.lc) + 1 + Count(t.rc)
      /\ Els(t) = Els(t.lc) \cup {t.r} \cup Els(t.rc)
  BY <1>1, TreeFacts
<1>3. InOrder[t.lc] \in Seq(Segment) /\ InOrder[t.rc] \in Seq(Segment)
  BY <1>2, TreeFacts
<1>4. Sep(InOrder[t.lc] \o <<t.r>> \o InOrder[t.rc])
  BY <1>2 DEF BST
<1>5. /\ Sep(InOrder[t.lc]) /\ Sep(InOrder[t.rc])
      /\ Before(ToSet(InOrder[t.lc]), t.r) /\ Behind(ToSet(InOrder[t.rc]), t.r)
  BY <1>2, <1>3, <1>4, ConcatSep
<1> QED
  BY <1>1, <1>2, <1>5 DEF BST, Els

(* t is a search tree with the root r and the subtrees l and x. *)
Joined(t, l, r, x) ==
  /\ BST(t) /\ t # Nil /\ t.lc = l /\ t.r = r /\ t.rc = x
  /\ InOrder[t] = InOrder[l] \o <<r>> \o InOrder[x]
  /\ Count(t) = Count(l) + 1 + Count(x)
  /\ Els(t) = Els(l) \cup {r} \cup Els(x)

LEMMA NodeJoin ==
  ASSUME NEW l, NEW x, BST(l), BST(x), NEW r \in Segment, Before(Els(l), r), Behind(Els(x), r)
  PROVE  Joined(Node(l, r, x), l, r, x)
<1> DEFINE w == InOrder[l] \o <<r>> \o InOrder[x]
           t == Node(l, r, x)
<1>1. l \in Tree /\ x \in Tree
  BY DEF BST
<1>2. /\ InOrder[l] \in Seq(Segment) /\ InOrder[x] \in Seq(Segment)
      /\ Count(l) \in Nat /\ Count(x) \in Nat
  BY <1>1, TreeFacts
<1>3. w \in Seq(Segment) /\ Len(w) = Count(l) + 1 + Count(x) /\ Sep(w)
  BY <1>2, ConcatSep DEF BST, Els, Count
<1>4. Len(w) <= MaxAddr + 1
  <2> HIDE DEF w
  <2> QED
    BY <1>3, SepBound
<1> DEFINE n == MaxDepth - 1
<1>5. n \in 0 .. MaxDepth - 1 /\ n \in 0 .. MaxDepth /\ n + 1 = MaxDepth
  BY DepthNat
<1>6. Count(l) <= n /\ Count(x) <= n
  <2> HIDE DEF w
  <2> QED
    BY <1>2, <1>3, <1>4, RangeAssumption DEF MaxDepth
<1>7. t \in Tree
  <2> HIDE DEF n
  <2>1. l \in TreeUpTo[n] /\ x \in TreeUpTo[n]
    BY <1>1, <1>5, <1>6, DepthByCount
  <2>2. t \in TreeUpTo[n + 1]
    BY <1>5, <2>1, NodeLevel
  <2> QED
    BY <1>5, <2>2 DEF Tree
<1>8. t # Nil /\ t.lc = l /\ t.r = r /\ t.rc = x
  BY NodeFields, NodeIsNotNil
<1> HIDE DEF t
<1>9. /\ InOrder[t] = w
      /\ Count(t) = Count(l) + 1 + Count(x)
      /\ Els(t) = Els(l) \cup {r} \cup Els(x)
  BY <1>7, <1>8, TreeFacts
<1> QED
  BY <1>3, <1>7, <1>8, <1>9 DEF BST, Joined, t

-----------------------------------------------------------------------------
(***************************************************************************)
(* Splaying.                                                               *)
(***************************************************************************)
Around(p, r, q) == p \o <<r>> \o q

LEMMA Regroup ==
  ASSUME NEW p \in Seq(Segment), NEW q \in Seq(Segment), NEW s \in Seq(Segment),
         NEW r \in Segment, NEW x \in Segment
  PROVE  Around(Around(p, r, q), x, s) = Around(p, r, Around(q, x, s))
<1>1. <<r>> \in Seq(Segment) /\ <<x>> \in Seq(Segment)
  OBVIOUS
<1>2. p \o <<r>> \in Seq(Segment) /\ q \o <<x>> \in Seq(Segment)
  OBVIOUS
<1>3. (p \o <<r>> \o q) \o <<x>> = p \o <<r>> \o (q \o <<x>>)
  BY <1>1, <1>2, ConcatAssociative
<1>4. (p \o <<r>> \o (q \o <<x>>)) \o s = (p \o <<r>>) \o ((q \o <<x>>) \o s)
  BY <1>1, <1>2, ConcatAssociative
<1> QED
  BY <1>3, <1>4 DEF Around

(* A range found to the left of the root becomes the root, and the root    *)
(* goes to its right: the rotation, and one step of the assembly of splay. *)
RaisedLeft(s, u, top) ==
  /\ BST(s) /\ s # Nil /\ InOrder[s] = InOrder[u]
  /\ s.lc = top.lc /\ s.r = top.r
  /\ Els(s.rc) = Els(top.rc) \cup {u.r} \cup Els(u.rc)
RaisedRight(s, u, top) ==
  /\ BST(s) /\ s # Nil /\ InOrder[s] = InOrder[u]
  /\ s.rc = top.rc /\ s.r = top.r
  /\ Els(s.lc) = Els(u.lc) \cup {u.r} \cup Els(top.lc)

LEMMA RaiseLeft ==
  ASSUME NEW u, BST(u), u # Nil, NEW top, BST(top), top # Nil, InOrder[top] = InOrder[u.lc]
  PROVE  RaisedLeft(Node(top.lc, top.r, Node(top.rc, u.r, u.rc)), u, top)
<1> DEFINE y == Node(top.rc, u.r, u.rc)
           s == Node(top.lc, top.r, y)
<1>1. Els(top) = Els(u.lc)
  BY DEF Els
<1>2. /\ BST(top.lc) /\ BST(top.rc) /\ top.r \in Segment
      /\ Before(Els(top.lc), top.r) /\ Behind(Els(top.rc), top.r)
      /\ InOrder[top] = InOrder[top.lc] \o <<top.r>> \o InOrder[top.rc]
      /\ Els(top) = Els(top.lc) \cup {top.r} \cup Els(top.rc)
  BY NodeSplit
<1>3. /\ BST(u.lc) /\ BST(u.rc) /\ u.r \in Segment
      /\ Before(Els(u.lc), u.r) /\ Behind(Els(u.rc), u.r)
      /\ InOrder[u] = InOrder[u.lc] \o <<u.r>> \o InOrder[u.rc]
  BY NodeSplit
<1>4. Before(Els(top.rc), u.r)
  BY <1>1, <1>2, <1>3 DEF Before
<1>5. /\ BST(y) /\ y # Nil /\ InOrder[y] = InOrder[top.rc] \o <<u.r>> \o InOrder[u.rc]
      /\ Els(y) = Els(top.rc) \cup {u.r} \cup Els(u.rc)
  <2>1. Joined(y, top.rc, u.r, u.rc)
    BY <1>2, <1>3, <1>4, NodeJoin
  <2> HIDE DEF y
  <2> QED
    BY <2>1 DEF Joined
<1> HIDE DEF y
<1>6. Behind(Els(y), top.r)
  <2>1. End(top.r) < u.r.base
    BY <1>1, <1>2, <1>3 DEF Before
  <2>2. u.r.base \in Nat /\ End(u.r) \in Nat /\ u.r.base < End(u.r) /\ End(top.r) \in Nat
    BY <1>2, <1>3, SegmentFacts
  <2>3. Els(u.rc) \subseteq Segment
    BY <1>3, TreeFacts DEF BST
  <2>4. \A e \in Els(u.rc) : End(top.r) < e.base
    BY <1>3, <2>1, <2>2, <2>3, SegmentFacts DEF Behind
  <2> QED
    BY <1>2, <1>5, <2>1, <2>4 DEF Behind
<1>7. /\ BST(s) /\ s # Nil /\ s.lc = top.lc /\ s.r = top.r /\ s.rc = y
      /\ InOrder[s] = InOrder[top.lc] \o <<top.r>> \o InOrder[y]
  <2>1. Joined(s, top.lc, top.r, y)
    BY <1>2, <1>5, <1>6, NodeJoin
  <2> HIDE DEF s
  <2> QED
    BY <2>1 DEF Joined
<1>8. InOrder[s] = InOrder[u]
  <2>1. /\ InOrder[top.lc] \in Seq(Segment) /\ InOrder[top.rc] \in Seq(Segment)
        /\ InOrder[u.rc] \in Seq(Segment)
    BY <1>2, <1>3, TreeFacts DEF BST
  <2>2. InOrder[u] = Around(Around(InOrder[top.lc], top.r, InOrder[top.rc]), u.r, InOrder[u.rc])
    BY <1>2, <1>3, Zenon DEF Around
  <2>3. InOrder[s] = Around(InOrder[top.lc], top.r, Around(InOrder[top.rc], u.r, InOrder[u.rc]))
    BY <1>5, <1>7, Zenon DEF Around
  <2> HIDE DEF s
  <2>4. top.r \in Segment /\ u.r \in Segment
    BY <1>2, <1>3
  <2>5. Around(Around(InOrder[top.lc], top.r, InOrder[top.rc]), u.r, InOrder[u.rc])
        = Around(InOrder[top.lc], top.r, Around(InOrder[top.rc], u.r, InOrder[u.rc]))
    BY <2>1, <2>4, Regroup
  <2> QED
    BY <2>2, <2>3, <2>5, Zenon
<1> QED
  <2> HIDE DEF s
  <2>1. RaisedLeft(s, u, top)
    BY <1>5, <1>7, <1>8 DEF RaisedLeft
  <2> QED
    BY <2>1 DEF s, y

LEMMA RaiseRight ==
  ASSUME NEW u, BST(u), u # Nil, NEW top, BST(top), top # Nil, InOrder[top] = InOrder[u.rc]
  PROVE  RaisedRight(Node(Node(u.lc, u.r, top.lc), top.r, top.rc), u, top)
<1> DEFINE y == Node(u.lc, u.r, top.lc)
           s == Node(y, top.r, top.rc)
<1>1. Els(top) = Els(u.rc)
  BY DEF Els
<1>2. /\ BST(top.lc) /\ BST(top.rc) /\ top.r \in Segment
      /\ Before(Els(top.lc), top.r) /\ Behind(Els(top.rc), top.r)
      /\ InOrder[top] = InOrder[top.lc] \o <<top.r>> \o InOrder[top.rc]
      /\ Els(top) = Els(top.lc) \cup {top.r} \cup Els(top.rc)
  BY NodeSplit
<1>3. /\ BST(u.lc) /\ BST(u.rc) /\ u.r \in Segment
      /\ Before(Els(u.lc), u.r) /\ Behind(Els(u.rc), u.r)
      /\ InOrder[u] = InOrder[u.lc] \o <<u.r>> \o InOrder[u.rc]
  BY NodeSplit
<1>4. Behind(Els(top.lc), u.r)
  BY <1>1, <1>2, <1>3 DEF Behind
<1>5. /\ BST(y) /\ y # Nil /\ InOrder[y] = InOrder[u.lc] \o <<u.r>> \o InOrder[top.lc]
      /\ Els(y) = Els(u.lc) \cup {u.r} \cup Els(top.lc)
  <2>1. Joined(y, u.lc, u.r, top.lc)
    BY <1>2, <1>3, <1>4, NodeJoin
  <2> HIDE DEF y
  <2> QED
    BY <2>1 DEF Joined
<1> HIDE DEF y
<1>6. Before(Els(y), top.r)
  <2>1. End(u.r) < top.r.base
    BY <1>1, <1>2, <1>3 DEF Behind
  <2>2. u.r.base \in Nat /\ End(u.r) \in Nat /\ u.r.base < End(u.r) /\ top.r.base \in Nat
    BY <1>2, <1>3, SegmentFacts
  <2>3. Els(u.lc) \subseteq Segment
    BY <1>3, TreeFacts DEF BST
  <2>4. \A e \in Els(u.lc) : End(e) < top.r.base
    BY <1>3, <2>1, <2>2, <2>3, SegmentFacts DEF Before
  <2> QED
    BY <1>2, <1>5, <2>1, <2>4 DEF Before
<1>7. /\ BST(s) /\ s # Nil /\ s.lc = y /\ s.r = top.r /\ s.rc = top.rc
      /\ InOrder[s] = InOrder[y] \o <<top.r>> \o InOrder[top.rc]
  <2>1. Joined(s, y, top.r, top.rc)
    BY <1>2, <1>5, <1>6, NodeJoin
  <2> HIDE DEF s
  <2> QED
    BY <2>1 DEF Joined
<1>8. InOrder[s] = InOrder[u]
  <2>1. /\ InOrder[top.lc] \in Seq(Segment) /\ InOrder[top.rc] \in Seq(Segment)
        /\ InOrder[u.lc] \in Seq(Segment)
    BY <1>2, <1>3, TreeFacts DEF BST
  <2>2. InOrder[u] = Around(InOrder[u.lc], u.r, Around(InOrder[top.lc], top.r, InOrder[top.rc]))
    BY <1>2, <1>3, Zenon DEF Around
  <2>3. InOrder[s] = Around(Around(InOrder[u.lc], u.r, InOrder[top.lc]), top.r, InOrder[top.rc])
    BY <1>5, <1>7, Zenon DEF Around
  <2> HIDE DEF s
  <2>4. top.r \in Segment /\ u.r \in Segment
    BY <1>2, <1>3
  <2>5. Around(Around(InOrder[u.lc], u.r, InOrder[top.lc]), top.r, InOrder[top.rc])
        = Around(InOrder[u.lc], u.r, Around(InOrder[top.lc], top.r, InOrder[top.rc]))
    BY <2>1, <2>4, Regroup
  <2> QED
    BY <2>2, <2>3, <2>5, Zenon
<1> QED
  <2> HIDE DEF s
  <2>1. RaisedRight(s, u, top)
    BY <1>5, <1>7, <1>8 DEF RaisedRight
  <2> QED
    BY <2>1 DEF s, y

(* The root is the range nearest to the key on one of its sides. *)
Near(t, key) ==
  /\ key < t.r.base => \A e \in Els(t.lc) : e.base < key
  /\ key > t.r.base => \A e \in Els(t.rc) : e.base > key

(* splay keeps the ranges and their order and brings the nearest one up. *)
LEMMA SplayFacts ==
  ASSUME NEW t, BST(t), t # Nil, NEW key \in Addr
  PROVE  LET s == Splay[t][key] IN
         BST(s) /\ s # Nil /\ InOrder[s] = InOrder[t] /\ Near(s, key)
<1> DEFINE Good(u) == LET s == Splay[u][key] IN
                      BST(s) /\ s # Nil /\ InOrder[s] = InOrder[u] /\ Near(s, key)
           T == {n \in Nat : \A u \in Tree : BST(u) /\ u # Nil /\ Count(u) <= n => Good(u)}
<1>0. key \in Nat
  BY RangeAssumption DEF Addr
<1>1. 0 \in T
  <2> SUFFICES ASSUME NEW u \in Tree, BST(u), u # Nil, Count(u) <= 0 PROVE FALSE
    OBVIOUS
  <2>1. Count(u) = Count(u.lc) + 1 + Count(u.rc) /\ u.lc \in Tree /\ u.rc \in Tree
    BY TreeFacts
  <2>2. Count(u.lc) \in Nat /\ Count(u.rc) \in Nat
    BY <2>1, TreeFacts
  <2> QED
    BY <2>1, <2>2
<1>2. ASSUME NEW n \in Nat, n \in T PROVE n + 1 \in T
  <2> SUFFICES ASSUME NEW v \in Tree, BST(v), v # Nil, Count(v) <= n + 1 PROVE Good(v)
    OBVIOUS
  <2>1. /\ BST(v.lc) /\ BST(v.rc) /\ v.r \in Segment /\ v = Node(v.lc, v.r, v.rc)
        /\ Behind(Els(v.rc), v.r) /\ Before(Els(v.lc), v.r)
        /\ Count(v) = Count(v.lc) + 1 + Count(v.rc)
    BY NodeSplit
  <2>2. v.lc \in Tree /\ v.rc \in Tree /\ Count(v.lc) \in Nat /\ Count(v.rc) \in Nat
    BY <2>1, TreeFacts DEF BST
  <2>3. Count(v.lc) <= n /\ Count(v.rc) <= n
    BY <2>1, <2>2
  <2>4. v.r.base \in Nat
    BY <2>1, SegmentFacts
  <2>5. CASE key < v.r.base
    <3> DEFINE u == IF v.lc # Nil /\ key < v.lc.r.base THEN RotateRight(v) ELSE v
               top == Splay[u.lc][key]
               s == Node(top.lc, top.r, Node(top.rc, u.r, u.rc))
    <3>1. Splay[v][key] = IF u.lc = Nil THEN u ELSE s
      BY <2>5, SplayEq
    <3>2. /\ BST(u) /\ u # Nil /\ InOrder[u] = InOrder[v] /\ key < u.r.base
          /\ u.lc \in Tree /\ Count(u.lc) <= n
      <4>1. CASE v.lc # Nil /\ key < v.lc.r.base
        <5>1. /\ BST(u) /\ u # Nil /\ InOrder[u] = InOrder[v] /\ u.lc = v.lc.lc /\ u.r = v.lc.r
          <6>1. RaisedLeft(u, v, v.lc)
            BY <2>1, <4>1, RaiseLeft DEF RotateRight
          <6> HIDE DEF u
          <6> QED
            BY <6>1 DEF RaisedLeft
        <5>2. /\ v.lc.lc \in Tree /\ v.lc.rc \in Tree
              /\ Count(v.lc) = Count(v.lc.lc) + 1 + Count(v.lc.rc)
          BY <2>2, <4>1, TreeFacts
        <5>3. Count(v.lc.lc) \in Nat /\ Count(v.lc.rc) \in Nat
          BY <5>2, TreeFacts
        <5>4. Count(v.lc.lc) <= n
          BY <2>2, <2>3, <5>2, <5>3
        <5> QED
          BY <4>1, <5>1, <5>2, <5>4
      <4>2. CASE ~ (v.lc # Nil /\ key < v.lc.r.base)
        BY <2>2, <2>3, <2>5, <4>2
      <4> QED
        BY <4>1, <4>2
    <3> HIDE DEF u
    <3>3. CASE u.lc = Nil
      <4>1. Near(u, key)
        <5>1. u.r.base \in Nat
          BY <3>2, NodeSplit, SegmentFacts
        <5>2. ~ (key > u.r.base) /\ Els(u.lc) = {}
          BY <1>0, <3>2, <3>3, <5>1, NilFacts
        <5> QED
          BY <5>2 DEF Near
      <4> QED
        BY <3>1, <3>2, <3>3, <4>1
    <3>4. CASE u.lc # Nil
      <4>1. BST(u.lc) /\ u.r \in Segment /\ BST(u.rc) /\ Behind(Els(u.rc), u.r)
        BY <3>2, NodeSplit
      <4>2. BST(top) /\ top # Nil /\ InOrder[top] = InOrder[u.lc] /\ Near(top, key)
        BY <1>2, <3>2, <3>4, <4>1
      <4> HIDE DEF top
      <4>3. /\ BST(s) /\ s # Nil /\ InOrder[s] = InOrder[v]
            /\ s.lc = top.lc /\ s.r = top.r
            /\ Els(s.rc) = Els(top.rc) \cup {u.r} \cup Els(u.rc)
        <5>1. RaisedLeft(s, u, top)
          BY <3>2, <4>2, RaiseLeft
        <5> HIDE DEF s
        <5> QED
          BY <3>2, <5>1 DEF RaisedLeft
      <4> HIDE DEF s
      <4>4. Near(s, key)
        <5>1. \A e \in Els(u.rc) : e.base > key
          <6>1. Els(u.rc) \subseteq Segment
            BY <4>1, TreeFacts DEF BST
          <6> QED
            BY <1>0, <3>2, <4>1, <6>1, SegmentFacts DEF Behind
        <5> QED
          BY <3>2, <4>2, <4>3, <5>1, <1>0, <4>1, SegmentFacts DEF Near
      <4> QED
        BY <3>1, <3>4, <4>3, <4>4
    <3> QED
      BY <3>3, <3>4
  <2>6. CASE key > v.r.base
    <3> DEFINE u == IF v.rc # Nil /\ key > v.rc.r.base THEN RotateLeft(v) ELSE v
               top == Splay[u.rc][key]
               s == Node(Node(u.lc, u.r, top.lc), top.r, top.rc)
    <3>1. Splay[v][key] = IF u.rc = Nil THEN u ELSE s
      <4>1. ~ (key < v.r.base)
        BY <1>0, <2>4, <2>6
      <4> QED
        BY <2>6, <4>1, SplayEq
    <3>2. /\ BST(u) /\ u # Nil /\ InOrder[u] = InOrder[v] /\ key > u.r.base
          /\ u.rc \in Tree /\ Count(u.rc) <= n
      <4>1. CASE v.rc # Nil /\ key > v.rc.r.base
        <5>1. /\ BST(u) /\ u # Nil /\ InOrder[u] = InOrder[v] /\ u.rc = v.rc.rc /\ u.r = v.rc.r
          <6>1. RaisedRight(u, v, v.rc)
            BY <2>1, <4>1, RaiseRight DEF RotateLeft
          <6> HIDE DEF u
          <6> QED
            BY <6>1 DEF RaisedRight
        <5>2. /\ v.rc.lc \in Tree /\ v.rc.rc \in Tree
              /\ Count(v.rc) = Count(v.rc.lc) + 1 + Count(v.rc.rc)
          BY <2>2, <4>1, TreeFacts
        <5>3. Count(v.rc.lc) \in Nat /\ Count(v.rc.rc) \in Nat
          BY <5>2, TreeFacts
        <5>4. Count(v.rc.rc) <= n
          BY <2>2, <2>3, <5>2, <5>3
        <5> QED
          BY <4>1, <5>1, <5>2, <5>4
      <4>2. CASE ~ (v.rc # Nil /\ key > v.rc.r.base)
        BY <2>2, <2>3, <2>6, <4>2
      <4> QED
        BY <4>1, <4>2
    <3> HIDE DEF u
    <3>3. CASE u.rc = Nil
      <4>1. Near(u, key)
        <5>1. u.r.base \in Nat
          BY <3>2, NodeSplit, SegmentFacts
        <5>2. ~ (key < u.r.base) /\ Els(u.rc) = {}
          BY <1>0, <3>2, <3>3, <5>1, NilFacts
        <5> QED
          BY <5>2 DEF Near
      <4> QED
        BY <3>1, <3>2, <3>3, <4>1
    <3>4. CASE u.rc # Nil
      <4>1. BST(u.rc) /\ u.r \in Segment /\ BST(u.lc) /\ Before(Els(u.lc), u.r)
        BY <3>2, NodeSplit
      <4>2. BST(top) /\ top # Nil /\ InOrder[top] = InOrder[u.rc] /\ Near(top, key)
        BY <1>2, <3>2, <3>4, <4>1
      <4> HIDE DEF top
      <4>3. /\ BST(s) /\ s # Nil /\ InOrder[s] = InOrder[v]
            /\ s.rc = top.rc /\ s.r = top.r
            /\ Els(s.lc) = Els(u.lc) \cup {u.r} \cup Els(top.lc)
        <5>1. RaisedRight(s, u, top)
          BY <3>2, <4>2, RaiseRight
        <5> HIDE DEF s
        <5> QED
          BY <3>2, <5>1 DEF RaisedRight
      <4> HIDE DEF s
      <4>4. Near(s, key)
        <5>1. \A e \in Els(u.lc) : e.base < key
          <6>1. Els(u.lc) \subseteq Segment
            BY <4>1, TreeFacts DEF BST
          <6> QED
            BY <1>0, <3>2, <4>1, <6>1, SegmentFacts DEF Before
        <5> QED
          BY <3>2, <4>2, <4>3, <5>1, <1>0, <4>1, SegmentFacts DEF Near
      <4> QED
        BY <3>1, <3>4, <4>3, <4>4
    <3> QED
      BY <3>3, <3>4
  <2>7. CASE key = v.r.base
    <3>1. Splay[v][key] = v
      <4>1. ~ (key < v.r.base) /\ ~ (key > v.r.base)
        BY <1>0, <2>4, <2>7
      <4> QED
        BY <4>1, SplayEq
    <3> QED
      BY <1>0, <2>7, <3>1 DEF Near
  <2> QED
    BY <1>0, <2>4, <2>5, <2>6, <2>7
<1>3. \A n \in Nat : n \in T
  <2> HIDE DEF T
  <2> QED
    BY <1>1, <1>2, NaturalsBySuccessor
<1>4. t \in Tree /\ Count(t) \in Nat
  BY TreeFacts DEF BST
<1>5. Count(t) \in T /\ Count(t) <= Count(t)
  BY <1>3, <1>4
<1> HIDE DEF Good
<1>6. Good(t)
  BY <1>4, <1>5
<1> QED
  BY <1>6 DEF Good

-----------------------------------------------------------------------------
(***************************************************************************)
(* Adding a range.                                                         *)
(***************************************************************************)
Cover(t) == UNION {Cells(e) : e \in Els(t)}

LEMMA CellsAre ==
  ASSUME NEW r \in Segment, NEW c
  PROVE  c \in Cells(r) <=> c \in Int /\ r.base <= c /\ c < End(r)
BY SegmentFacts DEF Cells

LEMMA CoverIs == \A t, c : c \in Cover(t) <=> \E e \in Els(t) : c \in Cells(e)
BY DEF Cover

(* What absorb_left and absorb_right leave of the tree t and make of the   *)
(* range r: the rest of the tree lies apart from the grown range, the      *)
(* range has grown by addresses of the tree only, and the addresses lost   *)
(* lie on the far side of the range.                                       *)
AbsorbedLeft(x, t, r) ==
  /\ BST(x.t) /\ Els(x.t) \subseteq Els(t) /\ x.r \in Segment /\ Before(Els(x.t), x.r)
  /\ End(x.r) = End(r) /\ x.r.base <= r.base
  /\ x.r.base = r.base \/ \E e \in Els(t) : x.r.base = e.base
  /\ x.freed \in Nat /\ Count(x.t) + x.freed = Count(t)
  /\ Cells(x.r) \subseteq Cells(r) \cup Cover(t)
  /\ \A c \in Cover(t) : c \in Cover(x.t) \cup Cells(x.r) \/ End(r) <= c

AbsorbedRight(x, t, r) ==
  /\ BST(x.t) /\ Els(x.t) \subseteq Els(t) /\ x.r \in Segment /\ Behind(Els(x.t), x.r)
  /\ x.r.base = r.base /\ End(r) <= End(x.r)
  /\ End(x.r) = End(r) \/ \E e \in Els(t) : End(x.r) = End(e)
  /\ x.freed \in Nat /\ Count(x.t) + x.freed = Count(t)
  /\ Cells(x.r) \subseteq Cells(r) \cup Cover(t)
  /\ \A c \in Cover(t) : c \in Cover(x.t) \cup Cells(x.r) \/ c < r.base

(* A subtree covers less, and a search tree is empty without nodes. *)
LEMMA SubtreeCover ==
  ASSUME NEW t, BST(t), t # Nil
  PROVE  /\ Cover(t.lc) \subseteq Cover(t) /\ Cover(t.rc) \subseteq Cover(t)
         /\ Cells(t.r) \subseteq Cover(t)
         /\ Cover(t) = Cover(t.lc) \cup Cells(t.r) \cup Cover(t.rc)
<1>1. Els(t) = Els(t.lc) \cup {t.r} \cup Els(t.rc)
  BY NodeSplit
<1> QED
  BY <1>1 DEF Cover

LEMMA NoNodes == ASSUME NEW t \in Tree, Count(t) <= 0 PROVE t = Nil
<1>1. t # Nil => /\ t.lc \in Tree /\ t.rc \in Tree
                 /\ Count(t) = Count(t.lc) + 1 + Count(t.rc)
  BY TreeFacts
<1>2. t # Nil => Count(t.lc) \in Nat /\ Count(t.rc) \in Nat
  BY <1>1, TreeFacts
<1> QED
  BY <1>1, <1>2

LEMMA JoinedCover ==
  ASSUME NEW t, NEW l, NEW r, NEW x, Joined(t, l, r, x)
  PROVE  Cover(t) = Cover(l) \cup Cells(r) \cup Cover(x)
BY DEF Joined, Cover

LEMMA AbsorbLeftFacts ==
  ASSUME NEW t, BST(t), NEW r \in Segment
  PROVE  AbsorbedLeft(AbsorbLeft[t][r], t, r)
<1> DEFINE T == {n \in Nat : \A u \in Tree : BST(u) /\ Count(u) <= n =>
                   \A q \in Segment : AbsorbedLeft(AbsorbLeft[u][q], u, q)}
<1>0. ASSUME NEW q \in Segment PROVE AbsorbedLeft(AbsorbLeft[Nil][q], Nil, q)
  <2> DEFINE x == AbsorbLeft[Nil][q]
  <2>1. x = [t |-> Nil, r |-> q, freed |-> 0]
    BY AbsorbLeftEq, InTree, ZenonT(40)
  <2>2. x.t = Nil /\ x.r = q /\ x.freed = 0
    BY <2>1
  <2>3. q.base <= q.base
    BY SegmentFacts
  <2> HIDE DEF x
  <2>3a. Cover(Nil) = {}
    BY NilFacts DEF Cover
  <2>4. AbsorbedLeft(x, Nil, q)
    BY <2>2, <2>3, <2>3a, NilFacts DEF AbsorbedLeft, Before
  <2> QED
    BY <2>4 DEF x
<1>1. 0 \in T
  BY <1>0, NoNodes
<1>2. ASSUME NEW n \in Nat, n \in T PROVE n + 1 \in T
  <2> SUFFICES ASSUME NEW v \in Tree, BST(v), Count(v) <= n + 1, NEW q \in Segment
               PROVE  AbsorbedLeft(AbsorbLeft[v][q], v, q)
    OBVIOUS
  <2>1. CASE v = Nil
    BY <1>0, <2>1
  <2>2. CASE v # Nil
    <3>1. /\ BST(v.lc) /\ BST(v.rc) /\ v.r \in Segment /\ v = Node(v.lc, v.r, v.rc)
          /\ Before(Els(v.lc), v.r) /\ Behind(Els(v.rc), v.r)
          /\ Count(v) = Count(v.lc) + 1 + Count(v.rc)
          /\ Els(v) = Els(v.lc) \cup {v.r} \cup Els(v.rc)
      BY <2>2, NodeSplit
    <3>2. /\ v.lc \in Tree /\ v.rc \in Tree /\ Count(v.lc) \in Nat /\ Count(v.rc) \in Nat
          /\ Els(v.lc) \subseteq Segment /\ Els(v.rc) \subseteq Segment
      BY <3>1, TreeFacts DEF BST
    <3>3. Count(v.lc) <= n /\ Count(v.rc) <= n
      BY <3>1, <3>2
    <3>4. /\ v.r.base \in Nat /\ End(v.r) \in Nat /\ v.r.base < End(v.r)
          /\ q.base \in Nat /\ End(q) \in Nat /\ q.base < End(q) /\ End(q) <= MaxAddr + 1
      BY <3>1, SegmentFacts
    <3>5. CASE q.base > End(v.r)
      <4> DEFINE x == AbsorbLeft[v.rc][q]
                 y == AbsorbLeft[v][q]
                 w == Node(v.lc, v.r, x.t)
      <4>1. y = [t |-> w, r |-> x.r, freed |-> x.freed]
        BY <2>2, <3>5, AbsorbLeftEq
      <4>2. AbsorbedLeft(x, v.rc, q)
        BY <1>2, <3>1, <3>2, <3>3
      <4> HIDE DEF x, y
      <4>3. /\ BST(x.t) /\ Els(x.t) \subseteq Els(v.rc) /\ x.r \in Segment /\ Before(Els(x.t), x.r)
            /\ End(x.r) = End(q) /\ x.r.base <= q.base
            /\ x.r.base = q.base \/ \E e \in Els(v.rc) : x.r.base = e.base
            /\ x.freed \in Nat /\ Count(x.t) + x.freed = Count(v.rc)
            /\ Cells(x.r) \subseteq Cells(q) \cup Cover(v.rc)
            /\ \A c \in Cover(v.rc) : c \in Cover(x.t) \cup Cells(x.r) \/ End(q) <= c
        BY <4>2 DEF AbsorbedLeft
      <4>4. Joined(w, v.lc, v.r, x.t)
        <5>1. Behind(Els(x.t), v.r)
          BY <3>1, <4>3 DEF Behind
        <5> QED
          BY <3>1, <4>3, <5>1, NodeJoin
      <4> HIDE DEF w
      <4>5. /\ BST(w) /\ Count(w) = Count(v.lc) + 1 + Count(x.t)
            /\ Els(w) = Els(v.lc) \cup {v.r} \cup Els(x.t)
        BY <4>4 DEF Joined
      <4>6. End(v.r) < x.r.base /\ x.r.base \in Nat
        BY <3>1, <3>5, <4>3, SegmentFacts DEF Behind
      <4>7. Before(Els(w), x.r)
        <5>1. \A e \in Els(v.lc) : End(e) < x.r.base
          BY <3>1, <3>2, <3>4, <4>6, SegmentFacts DEF Before
        <5> QED
          BY <4>3, <4>5, <4>6, <5>1 DEF Before
      <4>8. Count(w) + x.freed = Count(v)
        <5>1. Count(x.t) \in Nat
          BY <4>3, TreeFacts DEF BST
        <5> QED
          BY <3>1, <3>2, <4>3, <4>5, <5>1
      <4>9. Els(w) \subseteq Els(v) /\ Cells(x.r) \subseteq Cells(q) \cup Cover(v)
        BY <2>2, <3>1, <4>3, <4>5, SubtreeCover
      <4>10. y.t = w /\ y.r = x.r /\ y.freed = x.freed
        BY <4>1
      <4>11. \A c \in Cover(v) : c \in Cover(w) \cup Cells(x.r) \/ End(q) <= c
        <5>1. Cover(w) = Cover(v.lc) \cup Cells(v.r) \cup Cover(x.t)
          BY <4>4, JoinedCover
        <5>2. Cover(v) = Cover(v.lc) \cup Cells(v.r) \cup Cover(v.rc)
          BY <2>2, SubtreeCover
        <5> QED
          BY <4>3, <5>1, <5>2
      <4>12. AbsorbedLeft(y, v, q)
        BY <3>1, <4>3, <4>5, <4>7, <4>8, <4>9, <4>10, <4>11 DEF AbsorbedLeft
      <4> QED
        BY <4>12 DEF y
    <3>6. CASE ~ (q.base > End(v.r))
      <4> DEFINE lo == IF v.r.base < q.base THEN v.r.base ELSE q.base
                 q2 == MemRange(lo, End(q) - lo)
                 x == AbsorbLeft[v.lc][q2]
                 y == AbsorbLeft[v][q]
      <4>1. y = [t |-> x.t, r |-> x.r, freed |-> x.freed + 1 + Count(v.rc)]
        BY <2>2, <3>6, AbsorbLeftEq, ZenonT(40)
      <4>2. /\ lo \in Nat /\ lo <= q.base /\ lo < End(q)
            /\ lo = q.base \/ lo = v.r.base
        BY <3>4
      <4>2a. \A c \in Int : lo <= c /\ c < q.base => v.r.base <= c /\ c < End(v.r)
        BY <3>4, <3>6
      <4>2b. lo <= v.r.base
        BY <3>4
      <4> HIDE DEF lo
      <4>3. q2 \in Segment /\ q2.base = lo /\ End(q2) = End(q)
        BY <3>4, <4>2, SegmentOf
      <4> HIDE DEF q2
      <4>4. AbsorbedLeft(x, v.lc, q2)
        BY <1>2, <3>1, <3>2, <3>3, <4>3
      <4> HIDE DEF x, y
      <4>5. /\ BST(x.t) /\ Els(x.t) \subseteq Els(v.lc) /\ x.r \in Segment /\ Before(Els(x.t), x.r)
            /\ End(x.r) = End(q) /\ x.r.base <= lo
            /\ x.r.base = lo \/ \E e \in Els(v.lc) : x.r.base = e.base
            /\ x.freed \in Nat /\ Count(x.t) + x.freed = Count(v.lc)
            /\ Cells(x.r) \subseteq Cells(q2) \cup Cover(v.lc)
            /\ \A c \in Cover(v.lc) : c \in Cover(x.t) \cup Cells(x.r) \/ End(q) <= c
        BY <4>3, <4>4 DEF AbsorbedLeft
      <4>6. y.t = x.t /\ y.r = x.r /\ y.freed = x.freed + 1 + Count(v.rc)
        BY <4>1
      <4>7. y.freed \in Nat /\ Count(y.t) + y.freed = Count(v)
        <5>1. Count(x.t) \in Nat
          BY <4>5, TreeFacts DEF BST
        <5> QED
          BY <3>1, <3>2, <4>5, <4>6, <5>1
      <4>8. Cells(q2) \subseteq Cells(q) \cup Cells(v.r)
        BY <3>1, <3>4, <4>2, <4>2a, <4>3, CellsAre
      <4>9. Cells(x.r) \subseteq Cells(q) \cup Cover(v) /\ Els(x.t) \subseteq Els(v)
        BY <2>2, <3>1, <4>5, <4>8, SubtreeCover
      <4>10. x.r.base <= q.base /\ (x.r.base = q.base \/ \E e \in Els(v) : x.r.base = e.base)
        <5>1. x.r.base \in Nat
          BY <4>5, SegmentFacts
        <5> QED
          BY <3>1, <3>4, <4>2, <4>5, <5>1
      <4>11. \A c \in Cover(v) : c \in Cover(x.t) \cup Cells(x.r) \/ End(q) <= c
        <5>1. ASSUME NEW c \in Cells(v.r) \cup Cover(v.rc) PROVE c \in Int /\ v.r.base <= c
          BY <3>1, <3>2, <3>4, CellsAre, CoverIs, SegmentFacts DEF Behind
        <5>2. x.r.base \in Nat /\ lo <= v.r.base
          BY <3>4, <4>2b, <4>5, SegmentFacts
        <5>3. ASSUME NEW c \in Cells(v.r) \cup Cover(v.rc), c < End(q) PROVE c \in Cells(x.r)
          BY <3>4, <4>2, <4>5, <5>1, <5>2, <5>3, CellsAre
        <5>4. \A c \in Cells(v.r) \cup Cover(v.rc) : c \in Cells(x.r) \/ End(q) <= c
          BY <3>4, <5>1, <5>3
        <5>5. Cover(v) = Cover(v.lc) \cup Cells(v.r) \cup Cover(v.rc)
          BY <2>2, SubtreeCover
        <5> QED
          BY <4>5, <5>4, <5>5
      <4>12. AbsorbedLeft(y, v, q)
        BY <4>5, <4>6, <4>7, <4>9, <4>10, <4>11 DEF AbsorbedLeft
      <4> QED
        BY <4>12 DEF y
    <3> QED
      BY <3>5, <3>6
  <2> QED
    BY <2>1, <2>2
<1>3. \A n \in Nat : n \in T
  <2> HIDE DEF T
  <2> QED
    BY <1>1, <1>2, NaturalsBySuccessor
<1>4. t \in Tree /\ Count(t) \in Nat
  BY TreeFacts DEF BST
<1>5. Count(t) \in T /\ Count(t) <= Count(t)
  BY <1>3, <1>4
<1> QED
  BY <1>4, <1>5

LEMMA AbsorbRightFacts ==
  ASSUME NEW t, BST(t), NEW r \in Segment
  PROVE  AbsorbedRight(AbsorbRight[t][r], t, r)
<1> DEFINE T == {n \in Nat : \A u \in Tree : BST(u) /\ Count(u) <= n =>
                   \A q \in Segment : AbsorbedRight(AbsorbRight[u][q], u, q)}
<1>0. ASSUME NEW q \in Segment PROVE AbsorbedRight(AbsorbRight[Nil][q], Nil, q)
  <2> DEFINE x == AbsorbRight[Nil][q]
  <2>1. x = [t |-> Nil, r |-> q, freed |-> 0]
    BY AbsorbRightEq, InTree, ZenonT(40)
  <2>2. x.t = Nil /\ x.r = q /\ x.freed = 0
    BY <2>1
  <2>3. End(q) <= End(q)
    BY SegmentFacts
  <2> HIDE DEF x
  <2>3a. Cover(Nil) = {}
    BY NilFacts DEF Cover
  <2>4. AbsorbedRight(x, Nil, q)
    BY <2>2, <2>3, <2>3a, NilFacts DEF AbsorbedRight, Behind
  <2> QED
    BY <2>4 DEF x
<1>1. 0 \in T
  BY <1>0, NoNodes
<1>2. ASSUME NEW n \in Nat, n \in T PROVE n + 1 \in T
  <2> SUFFICES ASSUME NEW v \in Tree, BST(v), Count(v) <= n + 1, NEW q \in Segment
               PROVE  AbsorbedRight(AbsorbRight[v][q], v, q)
    OBVIOUS
  <2>1. CASE v = Nil
    BY <1>0, <2>1
  <2>2. CASE v # Nil
    <3>1. /\ BST(v.rc) /\ BST(v.lc) /\ v.r \in Segment /\ v = Node(v.lc, v.r, v.rc)
          /\ Behind(Els(v.rc), v.r) /\ Before(Els(v.lc), v.r)
          /\ Count(v) = Count(v.lc) + 1 + Count(v.rc)
          /\ Els(v) = Els(v.lc) \cup {v.r} \cup Els(v.rc)
      BY <2>2, NodeSplit
    <3>2. /\ v.rc \in Tree /\ v.lc \in Tree /\ Count(v.rc) \in Nat /\ Count(v.lc) \in Nat
          /\ Els(v.rc) \subseteq Segment /\ Els(v.lc) \subseteq Segment
      BY <3>1, TreeFacts DEF BST
    <3>3. Count(v.rc) <= n /\ Count(v.lc) <= n
      BY <3>1, <3>2
    <3>4. /\ v.r.base \in Nat /\ End(v.r) \in Nat /\ v.r.base < End(v.r)
          /\ q.base \in Nat /\ End(q) \in Nat /\ q.base < End(q) /\ End(q) <= MaxAddr + 1
      BY <3>1, SegmentFacts
    <3>5. CASE End(q) < v.r.base
      <4> DEFINE x == AbsorbRight[v.lc][q]
                 y == AbsorbRight[v][q]
                 w == Node(x.t, v.r, v.rc)
      <4>1. y = [t |-> w, r |-> x.r, freed |-> x.freed]
        BY <2>2, <3>5, AbsorbRightEq
      <4>2. AbsorbedRight(x, v.lc, q)
        BY <1>2, <3>1, <3>2, <3>3
      <4> HIDE DEF x, y
      <4>3. /\ BST(x.t) /\ Els(x.t) \subseteq Els(v.lc) /\ x.r \in Segment /\ Behind(Els(x.t), x.r)
            /\ x.r.base = q.base /\ End(q) <= End(x.r)
            /\ End(x.r) = End(q) \/ \E e \in Els(v.lc) : End(x.r) = End(e)
            /\ x.freed \in Nat /\ Count(x.t) + x.freed = Count(v.lc)
            /\ Cells(x.r) \subseteq Cells(q) \cup Cover(v.lc)
            /\ \A c \in Cover(v.lc) : c \in Cover(x.t) \cup Cells(x.r) \/ c < q.base
        BY <4>2 DEF AbsorbedRight
      <4>4. Joined(w, x.t, v.r, v.rc)
        <5>1. Before(Els(x.t), v.r)
          BY <3>1, <4>3 DEF Before
        <5> QED
          BY <3>1, <4>3, <5>1, NodeJoin
      <4> HIDE DEF w
      <4>5. /\ BST(w) /\ Count(w) = Count(x.t) + 1 + Count(v.rc)
            /\ Els(w) = Els(x.t) \cup {v.r} \cup Els(v.rc)
        BY <4>4 DEF Joined
      <4>6. End(x.r) < v.r.base /\ End(x.r) \in Nat
        BY <3>1, <3>5, <4>3, SegmentFacts DEF Before
      <4>7. Behind(Els(w), x.r)
        <5>1. \A e \in Els(v.rc) : End(x.r) < e.base
          BY <3>1, <3>2, <3>4, <4>6, SegmentFacts DEF Behind
        <5> QED
          BY <4>3, <4>5, <4>6, <5>1 DEF Behind
      <4>8. Count(w) + x.freed = Count(v)
        <5>1. Count(x.t) \in Nat
          BY <4>3, TreeFacts DEF BST
        <5> QED
          BY <3>1, <3>2, <4>3, <4>5, <5>1
      <4>9. Els(w) \subseteq Els(v) /\ Cells(x.r) \subseteq Cells(q) \cup Cover(v)
        BY <2>2, <3>1, <4>3, <4>5, SubtreeCover
      <4>10. y.t = w /\ y.r = x.r /\ y.freed = x.freed
        BY <4>1
      <4>11. \A c \in Cover(v) : c \in Cover(w) \cup Cells(x.r) \/ c < q.base
        <5>1. Cover(w) = Cover(x.t) \cup Cells(v.r) \cup Cover(v.rc)
          BY <4>4, JoinedCover
        <5>2. Cover(v) = Cover(v.lc) \cup Cells(v.r) \cup Cover(v.rc)
          BY <2>2, SubtreeCover
        <5> QED
          BY <4>3, <5>1, <5>2
      <4>12. AbsorbedRight(y, v, q)
        BY <3>1, <4>3, <4>5, <4>7, <4>8, <4>9, <4>10, <4>11 DEF AbsorbedRight
      <4> QED
        BY <4>12 DEF y
    <3>6. CASE ~ (End(q) < v.r.base)
      <4> DEFINE hi == IF End(q) < End(v.r) THEN End(v.r) ELSE End(q)
                 q2 == MemRange(q.base, hi - q.base)
                 x == AbsorbRight[v.rc][q2]
                 y == AbsorbRight[v][q]
      <4>1. y = [t |-> x.t, r |-> x.r, freed |-> x.freed + 1 + Count(v.lc)]
        BY <2>2, <3>6, AbsorbRightEq, ZenonT(40)
      <4>2. /\ hi \in Nat /\ End(q) <= hi /\ q.base < hi /\ hi <= MaxAddr + 1
            /\ hi = End(q) \/ hi = End(v.r)
        BY <3>1, <3>4, SegmentFacts
      <4>2a. \A c \in Int : End(q) <= c /\ c < hi => v.r.base <= c /\ c < End(v.r)
        BY <3>4, <3>6
      <4>2b. End(v.r) <= hi
        BY <3>4
      <4> HIDE DEF hi
      <4>3. q2 \in Segment /\ q2.base = q.base /\ End(q2) = hi
        BY <3>4, <4>2, SegmentOf
      <4> HIDE DEF q2
      <4>4. AbsorbedRight(x, v.rc, q2)
        BY <1>2, <3>1, <3>2, <3>3, <4>3
      <4> HIDE DEF x, y
      <4>5. /\ BST(x.t) /\ Els(x.t) \subseteq Els(v.rc) /\ x.r \in Segment /\ Behind(Els(x.t), x.r)
            /\ x.r.base = q.base /\ hi <= End(x.r)
            /\ End(x.r) = hi \/ \E e \in Els(v.rc) : End(x.r) = End(e)
            /\ x.freed \in Nat /\ Count(x.t) + x.freed = Count(v.rc)
            /\ Cells(x.r) \subseteq Cells(q2) \cup Cover(v.rc)
            /\ \A c \in Cover(v.rc) : c \in Cover(x.t) \cup Cells(x.r) \/ c < q.base
        BY <4>3, <4>4 DEF AbsorbedRight
      <4>6. y.t = x.t /\ y.r = x.r /\ y.freed = x.freed + 1 + Count(v.lc)
        BY <4>1
      <4>7. y.freed \in Nat /\ Count(y.t) + y.freed = Count(v)
        <5>1. Count(x.t) \in Nat
          BY <4>5, TreeFacts DEF BST
        <5> QED
          BY <3>1, <3>2, <4>5, <4>6, <5>1
      <4>8. Cells(q2) \subseteq Cells(q) \cup Cells(v.r)
        BY <3>1, <3>4, <4>2, <4>2a, <4>3, CellsAre
      <4>9. Cells(x.r) \subseteq Cells(q) \cup Cover(v) /\ Els(x.t) \subseteq Els(v)
        BY <2>2, <3>1, <4>5, <4>8, SubtreeCover
      <4>10. End(q) <= End(x.r) /\ (End(x.r) = End(q) \/ \E e \in Els(v) : End(x.r) = End(e))
        <5>1. End(x.r) \in Nat
          BY <4>5, SegmentFacts
        <5> QED
          BY <3>1, <3>4, <4>2, <4>5, <5>1
      <4>11. \A c \in Cover(v) : c \in Cover(x.t) \cup Cells(x.r) \/ c < q.base
        <5>1. ASSUME NEW c \in Cells(v.r) \cup Cover(v.lc) PROVE c \in Int /\ c < End(v.r)
          BY <3>1, <3>2, <3>4, CellsAre, CoverIs, SegmentFacts DEF Before
        <5>2. End(x.r) \in Nat /\ End(v.r) <= hi
          BY <3>4, <4>2b, <4>5, SegmentFacts
        <5>3. ASSUME NEW c \in Cells(v.r) \cup Cover(v.lc), q.base <= c PROVE c \in Cells(x.r)
          BY <3>4, <4>2, <4>5, <5>1, <5>2, <5>3, CellsAre
        <5>4. \A c \in Cells(v.r) \cup Cover(v.lc) : c \in Cells(x.r) \/ c < q.base
          BY <3>4, <5>1, <5>3
        <5>5. Cover(v) = Cover(v.lc) \cup Cells(v.r) \cup Cover(v.rc)
          BY <2>2, SubtreeCover
        <5> QED
          BY <4>5, <5>4, <5>5
      <4>12. AbsorbedRight(y, v, q)
        BY <4>5, <4>6, <4>7, <4>9, <4>10, <4>11 DEF AbsorbedRight
      <4> QED
        BY <4>12 DEF y
    <3> QED
      BY <3>5, <3>6
  <2> QED
    BY <2>1, <2>2
<1>3. \A n \in Nat : n \in T
  <2> HIDE DEF T
  <2> QED
    BY <1>1, <1>2, NaturalsBySuccessor
<1>4. t \in Tree /\ Count(t) \in Nat
  BY TreeFacts DEF BST
<1>5. Count(t) \in T /\ Count(t) <= Count(t)
  BY <1>3, <1>4
<1> QED
  BY <1>4, <1>5

LEMMA NoneIsNoSegment == None \notin Segment
<1>1. \A r \in Segment : DOMAIN r = {"base", "size"}
  BY DEF Segment
<1>2. DOMAIN None = {"none"}
  BY DEF None
<1> QED
  BY <1>1, <1>2

LEMMA OverlapFacts ==
  ASSUME NEW x \in Segment, NEW y \in Segment
  PROVE  LET lo == IF x.base <= y.base THEN y.base ELSE x.base
             hi == IF End(x) <= End(y) THEN End(x) ELSE End(y)
         IN  /\ lo \in Nat /\ hi \in Nat
             /\ lo < hi => /\ Overlap(x, y) \in Segment /\ Overlap(x, y) # None
                           /\ Overlap(x, y).base = lo /\ End(Overlap(x, y)) = hi
             /\ ~ (lo < hi) => Overlap(x, y) = None
<1> DEFINE lo == IF x.base <= y.base THEN y.base ELSE x.base
           hi == IF End(x) <= End(y) THEN End(x) ELSE End(y)
<1>1. Overlap(x, y) = IF lo < hi THEN MemRange(lo, hi - lo) ELSE None
  BY DEF Overlap
<1>2. lo \in Nat /\ hi \in Nat /\ hi <= MaxAddr + 1
  BY SegmentFacts
<1> HIDE DEF lo, hi
<1>3. lo < hi => /\ Overlap(x, y) \in Segment
                 /\ Overlap(x, y).base = lo /\ End(Overlap(x, y)) = hi
  BY <1>1, <1>2, SegmentOf
<1>4. /\ lo \in Nat /\ hi \in Nat
      /\ lo < hi => /\ Overlap(x, y) \in Segment /\ Overlap(x, y) # None
                    /\ Overlap(x, y).base = lo /\ End(Overlap(x, y)) = hi
      /\ ~ (lo < hi) => Overlap(x, y) = None
  BY <1>1, <1>2, <1>3, NoneIsNoSegment
<1> QED
  BY <1>4 DEF lo, hi

(* Two ranges overlap or border on each other. *)
Touch(n, p) == n.base <= End(p) /\ p.base <= End(n)

LEMMA TouchFacts ==
  ASSUME NEW n \in Segment, NEW p \in Segment
  PROVE  (Overlap(n, p) # None \/ Bordering(n, p)) <=> Touch(n, p)
<1> DEFINE lo == IF n.base <= p.base THEN p.base ELSE n.base
           hi == IF End(n) <= End(p) THEN End(n) ELSE End(p)
<1>1. (Overlap(n, p) # None) <=> lo < hi
  BY OverlapFacts
<1>2. /\ n.base \in Nat /\ End(n) \in Nat /\ n.base < End(n)
      /\ p.base \in Nat /\ End(p) \in Nat /\ p.base < End(p)
  BY SegmentFacts
<1>3. (lo < hi \/ Bordering(n, p)) <=> Touch(n, p)
  BY <1>2 DEF Bordering, Touch
<1> QED
  BY <1>1, <1>3

LEMMA UnionFacts ==
  ASSUME NEW n \in Segment, NEW p \in Segment, Touch(n, p)
  PROVE  LET u == UnionRanges(n, p) IN
         /\ u \in Segment /\ u.base <= p.base /\ End(p) <= End(u)
         /\ Cells(n) \subseteq Cells(u) /\ Cells(u) \subseteq Cells(n) \cup Cells(p)
<1> DEFINE lo == IF n.base < p.base THEN n.base ELSE p.base
           hi == IF End(n) < End(p) THEN End(p) ELSE End(n)
           u == UnionRanges(n, p)
<1>1. /\ n.base \in Nat /\ End(n) \in Nat /\ n.base < End(n) /\ End(n) <= MaxAddr + 1
      /\ p.base \in Nat /\ End(p) \in Nat /\ p.base < End(p) /\ End(p) <= MaxAddr + 1
  BY SegmentFacts
<1>2. u = MemRange(lo, hi - lo)
  BY DEF UnionRanges
<1>3. /\ lo \in Nat /\ hi \in Nat /\ lo < hi /\ hi <= MaxAddr + 1
      /\ lo <= n.base /\ lo <= p.base /\ End(n) <= hi /\ End(p) <= hi
      /\ \A c \in Int : lo <= c /\ c < hi =>
           (n.base <= c /\ c < End(n)) \/ (p.base <= c /\ c < End(p))
  BY <1>1, DepthNat DEF Touch
<1> HIDE DEF lo, hi
<1>4. u \in Segment /\ u.base = lo /\ End(u) = hi
  BY <1>2, <1>3, SegmentOf
<1> HIDE DEF u
<1>5. Cells(n) \subseteq Cells(u)
  BY <1>1, <1>3, <1>4, CellsAre
<1>6. Cells(u) \subseteq Cells(n) \cup Cells(p)
  BY <1>3, <1>4, CellsAre
<1>7. /\ u \in Segment /\ u.base <= p.base /\ End(p) <= End(u)
      /\ Cells(n) \subseteq Cells(u) /\ Cells(u) \subseteq Cells(n) \cup Cells(p)
  BY <1>3, <1>4, <1>5, <1>6
<1> QED
  BY <1>7 DEF u

LEMMA CoverMonotone ==
  ASSUME NEW t, NEW u, Els(t) \subseteq Els(u)
  PROVE  Cover(t) \subseteq Cover(u)
BY DEF Cover

(* A map whose tree is a search tree with size nodes. *)
MapOK(m) == m \in [root : Tree, size : Nat] /\ BST(m.root) /\ m.size = Count(m.root)

(* n lies inside e and ends before it does: the case in which absorb_left  *)
(* cuts e short.                                                           *)
Inner(n, e) == e.base < n.base /\ End(n) < End(e)

Added(m2, m, n) ==
  /\ MapOK(m2)
  /\ Cells(n) \subseteq Cover(m2.root)
  /\ Cover(m2.root) \subseteq Cover(m.root) \cup Cells(n)
  /\ (\A e \in Els(m.root) : ~ Inner(n, e)) => Cover(m.root) \subseteq Cover(m2.root)

LEMMA MapOf ==
  ASSUME NEW t, BST(t), NEW k, k = Count(t)
  PROVE  MapOK([root |-> t, size |-> k])
<1>1. t \in Tree /\ Count(t) \in Nat
  BY TreeFacts DEF BST
<1> QED
  BY <1>1 DEF MapOK

LEMMA AddRangeFacts ==
  ASSUME NEW m, MapOK(m), NEW n \in Segment
  PROVE  Added(AddRange(m, n), m, n)
<1> DEFINE m2 == AddRange(m, n)
<1>1. m.root \in Tree /\ BST(m.root) /\ m.size = Count(m.root)
  BY DEF MapOK
<1>2. CASE m.root = Nil
  <2> DEFINE w == Node(Nil, n, Nil)
  <2>1. m2 = [root |-> w, size |-> 1]
    BY <1>2 DEF AddRange
  <2>2. Joined(w, Nil, n, Nil)
    BY NilFacts, NodeJoin DEF Before, Behind
  <2>3. Cover(w) = Cover(Nil) \cup Cells(n) \cup Cover(Nil)
    BY <2>2, JoinedCover
  <2> HIDE DEF w, m2
  <2>4. BST(w) /\ 1 = Count(w)
    BY <2>2, NilFacts DEF Joined
  <2>5. MapOK(m2) /\ m2.root = w
    BY <2>1, <2>4, MapOf
  <2>6. Added(m2, m, n)
    BY <1>2, <2>3, <2>5, NilFacts DEF Added, Cover
  <2> QED
    BY <2>6 DEF m2
<1>3. CASE m.root # Nil
  <2> DEFINE top == Splay[m.root][n.base]
  <2>1. n.base \in Addr
    BY DEF Segment
  <2>2. BST(top) /\ top # Nil /\ InOrder[top] = InOrder[m.root] /\ Near(top, n.base)
    BY <1>1, <1>3, <2>1, SplayFacts
  <2> HIDE DEF top
  <2>3. /\ BST(top.lc) /\ BST(top.rc) /\ top.r \in Segment
        /\ Before(Els(top.lc), top.r) /\ Behind(Els(top.rc), top.r)
        /\ Count(top) = Count(top.lc) + 1 + Count(top.rc)
    BY <2>2, NodeSplit
  <2>4. Cover(top) = Cover(m.root) /\ Count(top) = m.size /\ Els(top) = Els(m.root)
    BY <1>1, <2>2 DEF Cover, Els, Count
  <2>4a. /\ Els(top) = Els(top.lc) \cup {top.r} \cup Els(top.rc)
         /\ Els(top.lc) \subseteq Segment /\ Els(top.rc) \subseteq Segment
    BY <2>2, <2>3, NodeSplit, TreeFacts DEF BST
  <2>5. Cover(top) = Cover(top.lc) \cup Cells(top.r) \cup Cover(top.rc)
    BY <2>2, SubtreeCover
  <2>6. /\ n.base \in Nat /\ End(n) \in Nat /\ n.base < End(n)
        /\ top.r.base \in Nat /\ End(top.r) \in Nat /\ top.r.base < End(top.r)
    BY <2>3, SegmentFacts
  <2>7. Count(top.lc) \in Nat /\ Count(top.rc) \in Nat
    BY <2>3, TreeFacts DEF BST
  <2>8. CASE Touch(n, top.r)
    <3> DEFINE u == UnionRanges(n, top.r)
               left == AbsorbLeft[top.lc][u]
               right == AbsorbRight[top.rc][left.r]
               w == Node(left.t, right.r, right.t)
               k == m.size - left.freed - right.freed
    <3>1. m2 = [root |-> w, size |-> k]
      BY <1>3, <2>3, <2>8, TouchFacts DEF AddRange, top
    <3>2. /\ u \in Segment /\ u.base <= top.r.base /\ End(top.r) <= End(u)
          /\ Cells(n) \subseteq Cells(u) /\ Cells(u) \subseteq Cells(n) \cup Cells(top.r)
      BY <2>3, <2>8, UnionFacts
    <3> HIDE DEF u
    <3>3. AbsorbedLeft(left, top.lc, u)
      BY <2>3, <3>2, AbsorbLeftFacts
    <3> HIDE DEF left
    <3>4. /\ BST(left.t) /\ Els(left.t) \subseteq Els(top.lc) /\ left.r \in Segment
          /\ Before(Els(left.t), left.r) /\ End(left.r) = End(u) /\ left.r.base <= u.base
          /\ left.freed \in Nat /\ Count(left.t) + left.freed = Count(top.lc)
          /\ Cells(left.r) \subseteq Cells(u) \cup Cover(top.lc)
          /\ \A c \in Cover(top.lc) : c \in Cover(left.t) \cup Cells(left.r) \/ End(u) <= c
      BY <3>3 DEF AbsorbedLeft
    <3>5. AbsorbedRight(right, top.rc, left.r)
      BY <2>3, <3>4, AbsorbRightFacts
    <3> HIDE DEF right
    <3>6. /\ BST(right.t) /\ Els(right.t) \subseteq Els(top.rc) /\ right.r \in Segment
          /\ Behind(Els(right.t), right.r) /\ right.r.base = left.r.base
          /\ End(left.r) <= End(right.r)
          /\ right.freed \in Nat /\ Count(right.t) + right.freed = Count(top.rc)
          /\ Cells(right.r) \subseteq Cells(left.r) \cup Cover(top.rc)
          /\ \A c \in Cover(top.rc) : c \in Cover(right.t) \cup Cells(right.r) \/ c < left.r.base
      BY <3>5 DEF AbsorbedRight
    <3>7. Joined(w, left.t, right.r, right.t)
      <4>1. Before(Els(left.t), right.r)
        BY <3>4, <3>6 DEF Before
      <4> QED
        BY <3>4, <3>6, <4>1, NodeJoin
    <3> HIDE DEF w
    <3>8. BST(w) /\ Count(w) = Count(left.t) + 1 + Count(right.t)
      BY <3>7 DEF Joined
    <3>9. Cover(w) = Cover(left.t) \cup Cells(right.r) \cup Cover(right.t)
      BY <3>7, JoinedCover
    <3>10. Cover(left.t) \subseteq Cover(top.lc) /\ Cover(right.t) \subseteq Cover(top.rc)
      BY <3>4, <3>6, CoverMonotone
    <3>11. k = Count(w)
      <4>1. Count(left.t) \in Nat /\ Count(right.t) \in Nat
        BY <3>4, <3>6, TreeFacts DEF BST
      <4> QED
        BY <2>3, <2>4, <2>7, <3>4, <3>6, <3>8, <4>1
    <3> HIDE DEF k, m2
    <3>12. MapOK(m2) /\ m2.root = w
      BY <3>1, <3>8, <3>11, MapOf
    <3>13. Cells(u) \subseteq Cells(right.r)
      <4>1. /\ u.base \in Nat /\ End(u) \in Nat /\ left.r.base \in Nat /\ End(left.r) \in Nat
            /\ right.r.base \in Nat /\ End(right.r) \in Nat
        BY <3>2, <3>4, <3>6, SegmentFacts
      <4> QED
        BY <3>2, <3>4, <3>6, <4>1, CellsAre
    <3>14. Cover(m.root) \subseteq Cover(w)
      <4>1. /\ u.base \in Nat /\ End(u) \in Nat /\ left.r.base \in Nat /\ End(left.r) \in Nat
            /\ right.r.base \in Nat /\ End(right.r) \in Nat
        BY <3>2, <3>4, <3>6, SegmentFacts
      <4>2. Cells(left.r) \subseteq Cells(right.r)
        BY <3>4, <3>6, <4>1, CellsAre
      <4>3. Cells(top.r) \subseteq Cells(right.r)
        BY <2>3, <2>6, <3>2, <3>4, <3>6, <4>1, CellsAre
      <4>4. ASSUME NEW c \in Cover(top.lc) PROVE c \in Cover(left.t) \cup Cells(left.r)
        <5>1. PICK e \in Els(top.lc) : c \in Cells(e)
          BY CoverIs
        <5>2. c \in Int /\ c < End(e) /\ End(e) < top.r.base /\ End(e) \in Nat
          BY <2>3, <2>4a, <5>1, CellsAre, SegmentFacts DEF Before
        <5>3. ~ (End(u) <= c)
          BY <2>6, <3>2, <4>1, <5>2
        <5> QED
          BY <3>4, <5>3
      <4>5. ASSUME NEW c \in Cover(top.rc) PROVE c \in Cover(right.t) \cup Cells(right.r)
        <5>1. PICK e \in Els(top.rc) : c \in Cells(e)
          BY CoverIs
        <5>2. c \in Int /\ e.base <= c /\ End(top.r) < e.base /\ e.base \in Nat
          BY <2>3, <2>4a, <5>1, CellsAre, SegmentFacts DEF Behind
        <5>3. ~ (c < left.r.base)
          BY <2>6, <3>2, <3>4, <4>1, <5>2
        <5> QED
          BY <3>6, <5>3
      <4> QED
        BY <2>4, <2>5, <3>9, <4>2, <4>3, <4>4, <4>5
    <3>15. Added(m2, m, n)
      BY <2>4, <2>5, <3>2, <3>4, <3>6, <3>9, <3>10, <3>12, <3>13, <3>14 DEF Added
    <3> QED
      BY <3>15 DEF m2
  <2>9. CASE ~ Touch(n, top.r) /\ n.base < top.r.base
    <3> DEFINE left == AbsorbLeft[top.lc][n]
               y == Node(Nil, top.r, top.rc)
               w == Node(left.t, left.r, y)
               k == m.size + 1 - left.freed
    <3>1. m2 = [root |-> w, size |-> k]
      BY <1>3, <2>3, <2>9, TouchFacts DEF AddRange, top
    <3>2. End(n) < top.r.base
      BY <2>6, <2>9 DEF Touch
    <3>3. AbsorbedLeft(left, top.lc, n)
      BY <2>3, AbsorbLeftFacts
    <3> HIDE DEF left
    <3>4. /\ BST(left.t) /\ Els(left.t) \subseteq Els(top.lc) /\ left.r \in Segment
          /\ Before(Els(left.t), left.r) /\ End(left.r) = End(n) /\ left.r.base <= n.base
          /\ left.freed \in Nat /\ Count(left.t) + left.freed = Count(top.lc)
          /\ Cells(left.r) \subseteq Cells(n) \cup Cover(top.lc)
          /\ \A c \in Cover(top.lc) : c \in Cover(left.t) \cup Cells(left.r) \/ End(n) <= c
      BY <3>3 DEF AbsorbedLeft
    <3>5. Joined(y, Nil, top.r, top.rc)
      BY <2>3, NilFacts, NodeJoin DEF Before
    <3> HIDE DEF y
    <3>6. /\ BST(y) /\ Count(y) = Count(Nil) + 1 + Count(top.rc)
          /\ Els(y) = Els(Nil) \cup {top.r} \cup Els(top.rc)
      BY <3>5 DEF Joined
    <3>7. Behind(Els(y), left.r)
      <4>1. \A e \in Els(top.rc) : End(n) < e.base
        <5>1. Els(top.rc) \subseteq Segment
          BY <2>3, TreeFacts DEF BST
        <5> QED
          BY <2>3, <2>6, <3>2, <5>1, SegmentFacts DEF Behind
      <4> QED
        BY <3>2, <3>4, <3>6, <4>1, NilFacts DEF Behind
    <3>8. Joined(w, left.t, left.r, y)
      BY <3>4, <3>6, <3>7, NodeJoin
    <3> HIDE DEF w
    <3>9. BST(w) /\ Count(w) = Count(left.t) + 1 + Count(y)
      BY <3>8 DEF Joined
    <3>10. /\ Cover(w) = Cover(left.t) \cup Cells(left.r) \cup Cover(y)
           /\ Cover(y) = Cover(Nil) \cup Cells(top.r) \cup Cover(top.rc)
      BY <3>5, <3>8, JoinedCover
    <3>11. Cover(left.t) \subseteq Cover(top.lc) /\ Cover(Nil) = {}
      BY <3>4, CoverMonotone, NilFacts DEF Cover
    <3>12. k = Count(w)
      <4>1. Count(left.t) \in Nat
        BY <3>4, TreeFacts DEF BST
      <4>2. Count(y) = 1 + Count(top.rc)
        BY <2>7, <3>6, NilFacts
      <4>3. /\ m.size = Count(top.lc) + 1 + Count(top.rc)
            /\ left.freed \in Nat /\ Count(left.t) + left.freed = Count(top.lc)
        BY <2>3, <2>4, <3>4
      <4> QED
        BY <2>7, <3>9, <4>1, <4>2, <4>3
    <3> HIDE DEF k, m2
    <3>13. MapOK(m2) /\ m2.root = w
      BY <3>1, <3>9, <3>12, MapOf
    <3>14. Cells(n) \subseteq Cells(left.r)
      BY <2>6, <3>4, CellsAre, SegmentFacts
    <3>15. ASSUME \A e \in Els(m.root) : ~ Inner(n, e)
           PROVE  Cover(m.root) \subseteq Cover(w)
      <4>1. ASSUME NEW c \in Cover(top.lc) PROVE c \in Cover(left.t) \cup Cells(left.r)
        <5>1. PICK e \in Els(top.lc) : c \in Cells(e)
          BY CoverIs
        <5>2. c \in Int /\ c < End(e) /\ End(e) \in Nat /\ e.base < n.base
          BY <2>2, <2>4a, <2>9, <5>1, CellsAre, SegmentFacts DEF Near
        <5>3. ~ (End(n) < End(e))
          BY <2>4, <2>4a, <3>15, <5>2 DEF Inner
        <5>4. ~ (End(n) <= c)
          BY <2>6, <5>2, <5>3
        <5> QED
          BY <3>4, <5>4
      <4> QED
        BY <2>4, <2>5, <3>10, <4>1
    <3>16. Added(m2, m, n)
      BY <2>4, <2>5, <3>4, <3>10, <3>11, <3>13, <3>14, <3>15 DEF Added
    <3> QED
      BY <3>16 DEF m2
  <2>10. CASE ~ Touch(n, top.r) /\ ~ (n.base < top.r.base)
    <3> DEFINE right == AbsorbRight[top.rc][n]
               y == Node(top.lc, top.r, Nil)
               w == Node(y, right.r, right.t)
               k == m.size + 1 - right.freed
    <3>1. m2 = [root |-> w, size |-> k]
      BY <1>3, <2>3, <2>10, TouchFacts DEF AddRange, top
    <3>2. End(top.r) < n.base
      BY <2>6, <2>10 DEF Touch
    <3>3. AbsorbedRight(right, top.rc, n)
      BY <2>3, AbsorbRightFacts
    <3> HIDE DEF right
    <3>4. /\ BST(right.t) /\ Els(right.t) \subseteq Els(top.rc) /\ right.r \in Segment
          /\ Behind(Els(right.t), right.r) /\ right.r.base = n.base /\ End(n) <= End(right.r)
          /\ right.freed \in Nat /\ Count(right.t) + right.freed = Count(top.rc)
          /\ Cells(right.r) \subseteq Cells(n) \cup Cover(top.rc)
          /\ \A c \in Cover(top.rc) : c \in Cover(right.t) \cup Cells(right.r) \/ c < n.base
      BY <3>3 DEF AbsorbedRight
    <3>5. Joined(y, top.lc, top.r, Nil)
      BY <2>3, NilFacts, NodeJoin DEF Behind
    <3> HIDE DEF y
    <3>6. /\ BST(y) /\ Count(y) = Count(top.lc) + 1 + Count(Nil)
          /\ Els(y) = Els(top.lc) \cup {top.r} \cup Els(Nil)
      BY <3>5 DEF Joined
    <3>7. Before(Els(y), right.r)
      <4>1. \A e \in Els(top.lc) : End(e) < n.base
        <5>1. Els(top.lc) \subseteq Segment
          BY <2>3, TreeFacts DEF BST
        <5> QED
          BY <2>3, <2>6, <3>2, <5>1, SegmentFacts DEF Before
      <4> QED
        BY <3>2, <3>4, <3>6, <4>1, NilFacts DEF Before
    <3>8. Joined(w, y, right.r, right.t)
      BY <3>4, <3>6, <3>7, NodeJoin
    <3> HIDE DEF w
    <3>9. BST(w) /\ Count(w) = Count(y) + 1 + Count(right.t)
      BY <3>8 DEF Joined
    <3>10. /\ Cover(w) = Cover(y) \cup Cells(right.r) \cup Cover(right.t)
           /\ Cover(y) = Cover(top.lc) \cup Cells(top.r) \cup Cover(Nil)
      BY <3>5, <3>8, JoinedCover
    <3>11. Cover(right.t) \subseteq Cover(top.rc) /\ Cover(Nil) = {}
      BY <3>4, CoverMonotone, NilFacts DEF Cover
    <3>12. k = Count(w)
      <4>1. Count(right.t) \in Nat
        BY <3>4, TreeFacts DEF BST
      <4>2. Count(y) = 1 + Count(top.lc)
        BY <2>7, <3>6, NilFacts
      <4>3. /\ m.size = Count(top.lc) + 1 + Count(top.rc)
            /\ right.freed \in Nat /\ Count(right.t) + right.freed = Count(top.rc)
        BY <2>3, <2>4, <3>4
      <4> QED
        BY <2>7, <3>9, <4>1, <4>2, <4>3
    <3> HIDE DEF k, m2
    <3>13. MapOK(m2) /\ m2.root = w
      BY <3>1, <3>9, <3>12, MapOf
    <3>14. Cells(n) \subseteq Cells(right.r)
      BY <2>6, <3>4, CellsAre, SegmentFacts
    <3>15. Cover(m.root) \subseteq Cover(w)
      <4>1. ASSUME NEW c \in Cover(top.rc) PROVE c \in Cover(right.t) \cup Cells(right.r)
        <5>1. PICK e \in Els(top.rc) : c \in Cells(e)
          BY CoverIs
        <5>2. n.base > top.r.base
          BY <2>6, <3>2
        <5>3. c \in Int /\ e.base <= c /\ e.base \in Nat /\ e.base > n.base
          BY <2>2, <2>4a, <5>1, <5>2, CellsAre, SegmentFacts DEF Near
        <5>4. ~ (c < n.base)
          BY <2>6, <5>3
        <5> QED
          BY <3>4, <5>4
      <4> QED
        BY <2>4, <2>5, <3>10, <4>1
    <3>16. Added(m2, m, n)
      BY <2>4, <2>5, <3>4, <3>10, <3>11, <3>13, <3>14, <3>15 DEF Added
    <3> QED
      BY <3>16 DEF m2
  <2> QED
    BY <2>8, <2>9, <2>10
<1> QED
  BY <1>2, <1>3

LEMMA EmptyTree == ASSUME NEW t, BST(t), Els(t) = {} PROVE t = Nil
BY NodeSplit

LEMMA ConcatFacts ==
  ASSUME NEW s \in Seq(Segment), NEW u \in Seq(Segment)
  PROVE  /\ s \o u \in Seq(Segment) /\ Len(s \o u) = Len(s) + Len(u)
         /\ ToSet(s \o u) = ToSet(s) \cup ToSet(u)
         /\ Sep(s \o u) <=> /\ Sep(s) /\ Sep(u)
                            /\ \A e \in ToSet(s), f \in ToSet(u) : End(e) < f.base
         /\ s \o <<>> = s /\ <<>> \o s = s
<1> DEFINE w == s \o u
<1>1. w \in Seq(Segment) /\ Len(w) = Len(s) + Len(u)
  OBVIOUS
<1>2. /\ \A i \in 1 .. Len(s) : w[i] = s[i]
      /\ \A i \in 1 .. Len(u) : w[Len(s) + i] = u[i]
  OBVIOUS
<1>3. /\ DOMAIN s = 1 .. Len(s) /\ DOMAIN u = 1 .. Len(u) /\ DOMAIN w = 1 .. Len(w)
      /\ Len(s) \in Nat /\ Len(u) \in Nat
  BY <1>1
<1>0. s \o <<>> = s /\ <<>> \o s = s
  BY ConcatEmptySeq
<1> HIDE DEF w
<1>4. ASSUME NEW k \in 1 .. Len(w)
      PROVE  k \in 1 .. Len(s) \/ \E i \in 1 .. Len(u) : k = Len(s) + i
  <2>1. k \in 1 .. Len(s) \/ (k - Len(s) \in 1 .. Len(u) /\ k = Len(s) + (k - Len(s)))
    BY <1>1, <1>3
  <2> QED
    BY <2>1
<1>5. /\ \A i \in 1 .. Len(s) : i \in 1 .. Len(w)
      /\ \A i \in 1 .. Len(u) : Len(s) + i \in 1 .. Len(w)
  BY <1>1, <1>3
<1>6. ToSet(w) = ToSet(s) \cup ToSet(u)
  <2>1. ToSet(w) \subseteq ToSet(s) \cup ToSet(u)
    <3> SUFFICES ASSUME NEW k \in 1 .. Len(w) PROVE w[k] \in ToSet(s) \cup ToSet(u)
      BY <1>3 DEF ToSet
    <3>1. CASE k \in 1 .. Len(s)
      BY <1>2, <1>3, <3>1 DEF ToSet
    <3>2. ASSUME NEW i \in 1 .. Len(u), k = Len(s) + i PROVE w[k] \in ToSet(u)
      BY <1>2, <1>3, <3>2 DEF ToSet
    <3> QED
      BY <1>4, <3>1, <3>2
  <2>2. ToSet(s) \subseteq ToSet(w)
    BY <1>2, <1>3, <1>5 DEF ToSet
  <2>3. ToSet(u) \subseteq ToSet(w)
    BY <1>2, <1>3, <1>5 DEF ToSet
  <2> QED
    BY <2>1, <2>2, <2>3
<1>7. ASSUME Sep(w)
      PROVE  Sep(s) /\ Sep(u) /\ \A e \in ToSet(s), f \in ToSet(u) : End(e) < f.base
  <2>1. Sep(s)
    BY <1>2, <1>5, <1>7 DEF Sep
  <2>2. Sep(u)
    <3> SUFFICES ASSUME NEW i \in 1 .. Len(u), NEW j \in 1 .. Len(u), i < j
                 PROVE  End(u[i]) < u[j].base
      BY DEF Sep
    <3>1. Len(s) + i < Len(s) + j /\ Len(s) + i \in 1 .. Len(w) /\ Len(s) + j \in 1 .. Len(w)
      BY <1>3, <1>5
    <3>2. End(w[Len(s) + i]) < w[Len(s) + j].base
      BY <1>7, <3>1 DEF Sep
    <3> QED
      BY <1>2, <3>2
  <2>3. ASSUME NEW i \in 1 .. Len(s), NEW j \in 1 .. Len(u) PROVE End(s[i]) < u[j].base
    <3>1. i < Len(s) + j /\ i \in 1 .. Len(w) /\ Len(s) + j \in 1 .. Len(w)
      BY <1>3, <1>5
    <3>2. End(w[i]) < w[Len(s) + j].base
      BY <1>7, <3>1 DEF Sep
    <3> QED
      BY <1>2, <3>2
  <2> QED
    BY <1>3, <2>1, <2>2, <2>3 DEF ToSet
<1>8. ASSUME Sep(s), Sep(u), \A e \in ToSet(s), f \in ToSet(u) : End(e) < f.base
      PROVE  Sep(w)
  <2> SUFFICES ASSUME NEW i \in 1 .. Len(w), NEW j \in 1 .. Len(w), i < j
               PROVE  End(w[i]) < w[j].base
    BY DEF Sep
  <2>1. \A k \in 1 .. Len(s), l \in 1 .. Len(u) : End(s[k]) < u[l].base
    BY <1>3, <1>8 DEF ToSet
  <2>2. CASE i \in 1 .. Len(s) /\ j \in 1 .. Len(s)
    BY <1>2, <1>8, <2>2 DEF Sep
  <2>3. ASSUME i \in 1 .. Len(s), NEW l \in 1 .. Len(u), j = Len(s) + l
        PROVE  End(w[i]) < w[j].base
    BY <1>2, <2>1, <2>3
  <2>4. ASSUME NEW k \in 1 .. Len(u), i = Len(s) + k, NEW l \in 1 .. Len(u), j = Len(s) + l
        PROVE  End(w[i]) < w[j].base
    <3>1. k < l
      BY <1>3, <2>4
    <3> QED
      BY <1>2, <1>8, <2>4, <3>1 DEF Sep
  <2>5. ASSUME NEW k \in 1 .. Len(u), i = Len(s) + k, j \in 1 .. Len(s) PROVE FALSE
    BY <1>3, <2>5
  <2> QED
    BY <1>4, <2>2, <2>3, <2>4, <2>5
<1> QED
  BY <1>0, <1>1, <1>6, <1>7, <1>8 DEF w

LEMMA OneRange ==
  ASSUME NEW r \in Segment
  PROVE  <<r>> \in Seq(Segment) /\ ToSet(<<r>>) = {r} /\ Sep(<<r>>)
BY DEF ToSet, Sep

LEMMA NoRange == <<>> \in Seq(Segment) /\ ToSet(<<>>) = {} /\ Sep(<<>>)
BY DEF ToSet, Sep

(* A range behind all others is appended. *)
LEMMA AddLast ==
  ASSUME NEW m, MapOK(m), NEW n \in Segment, Before(Els(m.root), n)
  PROVE  ToArray(AddRange(m, n)) = ToArray(m) \o <<n>>
<1> DEFINE m2 == AddRange(m, n)
<1>1. m.root \in Tree /\ BST(m.root)
  BY DEF MapOK
<1>2. <<n>> \in Seq(Segment)
  OBVIOUS
<1>3. CASE m.root = Nil
  <2> DEFINE w == Node(Nil, n, Nil)
  <2>1. m2.root = w
    BY <1>3 DEF AddRange
  <2>2. Joined(w, Nil, n, Nil)
    BY NilFacts, NodeJoin DEF Before, Behind
  <2> HIDE DEF w, m2
  <2>3. InOrder[w] = <<>> \o <<n>> \o <<>>
    BY <2>2, NilFacts DEF Joined
  <2>4. InOrder[w] = <<>> \o <<n>>
    BY <1>2, <2>3, ConcatFacts
  <2>5. ToArray(m2) = ToArray(m) \o <<n>>
    BY <1>3, <2>1, <2>4, NilFacts DEF ToArray
  <2> QED
    BY <2>5 DEF m2
<1>4. CASE m.root # Nil
  <2> DEFINE top == Splay[m.root][n.base]
  <2>1. n.base \in Addr
    BY DEF Segment
  <2>2. BST(top) /\ top # Nil /\ InOrder[top] = InOrder[m.root] /\ Near(top, n.base)
    BY <1>1, <1>4, <2>1, SplayFacts
  <2> HIDE DEF top
  <2>3. /\ BST(top.lc) /\ BST(top.rc) /\ top.r \in Segment
        /\ Before(Els(top.lc), top.r)
        /\ InOrder[top] = InOrder[top.lc] \o <<top.r>> \o InOrder[top.rc]
        /\ Els(top) = Els(top.lc) \cup {top.r} \cup Els(top.rc)
    BY <2>2, NodeSplit
  <2>4. Els(top) = Els(m.root)
    BY <2>2 DEF Els
  <2>5. /\ n.base \in Nat /\ End(n) \in Nat /\ n.base < End(n)
        /\ top.r.base \in Nat /\ End(top.r) \in Nat /\ top.r.base < End(top.r)
    BY <2>3, SegmentFacts
  <2>6. End(top.r) < n.base
    BY <2>3, <2>4 DEF Before
  <2>7. ~ Touch(n, top.r) /\ ~ (n.base < top.r.base) /\ n.base > top.r.base
    BY <2>5, <2>6 DEF Touch
  <2>8. top.rc = Nil
    <3>1. \A e \in Els(top.rc) : e.base > n.base /\ End(e) < n.base
      BY <2>2, <2>3, <2>4, <2>7 DEF Near, Before
    <3>2. Els(top.rc) \subseteq Segment
      BY <2>3, TreeFacts DEF BST
    <3>3. Els(top.rc) = {}
      BY <2>5, <3>1, <3>2, SegmentFacts
    <3> QED
      BY <2>3, <3>3, EmptyTree
  <2> DEFINE right == AbsorbRight[top.rc][n]
             y == Node(top.lc, top.r, Nil)
             w == Node(y, right.r, right.t)
  <2>9. m2.root = w
    BY <1>4, <2>3, <2>7, TouchFacts DEF AddRange, top
  <2>10. right.t = Nil /\ right.r = n
    <3>1. right = [t |-> Nil, r |-> n, freed |-> 0]
      BY <2>8, AbsorbRightEq, InTree
    <3> QED
      BY <3>1
  <2> HIDE DEF right, m2
  <2>11. Joined(y, top.lc, top.r, Nil)
    BY <2>3, NilFacts, NodeJoin DEF Behind
  <2> HIDE DEF y
  <2>12. /\ BST(y) /\ InOrder[y] = InOrder[top.lc] \o <<top.r>> \o InOrder[Nil]
         /\ Els(y) = Els(top.lc) \cup {top.r} \cup Els(Nil)
    BY <2>11 DEF Joined
  <2>13. InOrder[y] = InOrder[top]
    BY <2>3, <2>8, <2>12
  <2>14. Before(Els(y), n)
    BY <2>3, <2>4, <2>12, NilFacts DEF Before
  <2>15. Joined(w, y, n, Nil)
    BY <2>10, <2>12, <2>14, NilFacts, NodeJoin DEF Behind
  <2> HIDE DEF w
  <2>16. InOrder[w] = InOrder[y] \o <<n>> \o <<>>
    BY <2>15, NilFacts DEF Joined
  <2>17. InOrder[y] \o <<n>> \in Seq(Segment)
    BY <1>2, <2>12, ConcatFacts, TreeFacts DEF BST
  <2>18. InOrder[w] = InOrder[y] \o <<n>>
    BY <2>16, <2>17, ConcatFacts
  <2>19. ToArray(m2) = ToArray(m) \o <<n>>
    BY <2>2, <2>9, <2>13, <2>18 DEF ToArray
  <2> QED
    BY <2>19 DEF m2
<1> QED
  BY <1>3, <1>4

(* A recursion over 0 .. N whose steps stay in a set has a solution. *)
Iterated(f, N, S, s0, St) ==
  /\ f \in [0 .. N -> S] /\ f[0] = s0
  /\ \A i \in 1 .. N : f[i] = St[i][f[i - 1]]

LEMMA Iterates ==
  ASSUME NEW N \in Nat, NEW S, NEW s0 \in S, NEW St \in [1 .. N -> [S -> S]]
  PROVE  \E f : Iterated(f, N, S, s0, St)
<1> DEFINE Fits(f, k) == f[0] = s0 /\ \A i \in 1 .. k : f[i] = St[i][f[i - 1]]
           T == {k \in Nat : k <= N => \E f \in [0 .. k -> S] : Fits(f, k)}
<1>1. 0 \in T
  <2> DEFINE f == [i \in 0 .. 0 |-> s0]
  <2>1. f \in [0 .. 0 -> S] /\ Fits(f, 0)
    OBVIOUS
  <2> QED
    BY <2>1
<1>2. ASSUME NEW k \in Nat, k \in T PROVE k + 1 \in T
  <2> SUFFICES ASSUME k + 1 <= N PROVE \E f \in [0 .. k + 1 -> S] : Fits(f, k + 1)
    OBVIOUS
  <2>1. k <= N
    OBVIOUS
  <2>2. PICK f \in [0 .. k -> S] : Fits(f, k)
    BY <1>2, <2>1
  <2> DEFINE g == [i \in 0 .. k + 1 |-> IF i = k + 1 THEN St[k + 1][f[k]] ELSE f[i]]
  <2>3. St[k + 1][f[k]] \in S
    OBVIOUS
  <2>4. g \in [0 .. k + 1 -> S]
    BY <2>3
  <2>5. g[0] = s0
    BY <2>2
  <2>6. ASSUME NEW i \in 1 .. k + 1 PROVE g[i] = St[i][g[i - 1]]
    <3>1. i - 1 \in 0 .. k + 1 /\ i - 1 # k + 1 /\ i \in 0 .. k + 1
      OBVIOUS
    <3>2. g[i - 1] = f[i - 1]
      BY <3>1
    <3>3. CASE i = k + 1
      BY <3>2, <3>3
    <3>4. CASE i # k + 1
      <4>1. i \in 1 .. k
        BY <3>4
      <4> QED
        BY <2>2, <3>1, <3>2, <3>4, <4>1
    <3> QED
      BY <3>3, <3>4
  <2> QED
    <3> HIDE DEF g
    <3> QED
      BY <2>4, <2>5, <2>6
<1>3. N \in T
  <2> HIDE DEF T
  <2> QED
    BY <1>1, <1>2, NaturalsBySuccessor
<1>4. PICK f \in [0 .. N -> S] : Fits(f, N)
  BY <1>3
<1> QED
  BY <1>4 DEF Iterated

Maps == {m \in [root : Tree, size : Nat] : MapOK(m)}

LEMMA MapsAre == \A m : m \in Maps <=> MapOK(m)
BY DEF Maps, MapOK

(* The loop that adds one range after the other. *)
AddSteps(f, m, rs) ==
  f = [i \in 0 .. Len(rs) |-> IF i = 0 THEN m ELSE AddRange(f[i - 1], rs[i])]

LEMMA AddAllEq ==
  ASSUME NEW m, MapOK(m), NEW rs \in Seq(Segment)
  PROVE  \E f : AddSteps(f, m, rs) /\ AddAll(m, rs) = f[Len(rs)]
<1> DEFINE N == Len(rs)
           St == [i \in 1 .. N |-> [x \in Maps |-> AddRange(x, rs[i])]]
<1>1. N \in Nat
  OBVIOUS
<1>2. ASSUME NEW i \in 1 .. N, NEW x \in Maps PROVE AddRange(x, rs[i]) \in Maps
  <2>1. rs[i] \in Segment
    OBVIOUS
  <2> QED
    BY <2>1, AddRangeFacts, MapsAre DEF Added
<1>3. St \in [1 .. N -> [Maps -> Maps]]
  BY <1>2
<1>4. m \in Maps
  BY MapsAre
<1>4a. PICK f : Iterated(f, N, Maps, m, St)
  <2> HIDE DEF St, N
  <2> QED
    BY <1>1, <1>3, <1>4, Iterates
<1>5. /\ f \in [0 .. N -> Maps] /\ f[0] = m
      /\ \A i \in 1 .. N : f[i] = St[i][f[i - 1]]
  <2> HIDE DEF St, N
  <2> QED
    BY <1>4a DEF Iterated
<1>6. AddSteps(f, m, rs)
  <2>1. ASSUME NEW i \in 0 .. N PROVE f[i] = IF i = 0 THEN m ELSE AddRange(f[i - 1], rs[i])
    <3>1. CASE i = 0
      BY <1>5, <3>1
    <3>2. CASE i # 0
      <4>1. i \in 1 .. N /\ i - 1 \in 0 .. N
        BY <1>1, <3>2
      <4>2. f[i - 1] \in Maps
        BY <1>5, <4>1
      <4> QED
        BY <1>5, <3>2, <4>1, <4>2
    <3> QED
      BY <3>1, <3>2
  <2> QED
    <3> HIDE DEF St
    <3> QED
      BY <1>5, <2>1 DEF AddSteps
<1>7. AddAll(m, rs) = (CHOOSE g : AddSteps(g, m, rs))[N]
  BY DEF AddAll, AddSteps
<1> QED
  BY <1>6, <1>7

LEMMA AddAllFacts ==
  ASSUME NEW m, MapOK(m), NEW rs \in Seq(Segment)
  PROVE  /\ MapOK(AddAll(m, rs))
         /\ Sep(ToArray(m) \o rs) => ToArray(AddAll(m, rs)) = ToArray(m) \o rs
<1> DEFINE N == Len(rs)
           L == Len(ToArray(m))
           W == ToArray(m) \o rs
           Same(x, i) == /\ Len(ToArray(x)) = L + i
                         /\ \A j \in 1 .. L + i : ToArray(x)[j] = W[j]
<1>1. PICK f : AddSteps(f, m, rs) /\ AddAll(m, rs) = f[N]
  BY AddAllEq
<1>2. /\ N \in Nat /\ L \in Nat /\ W \in Seq(Segment) /\ Len(W) = L + N
      /\ \A i \in 1 .. N : rs[i] \in Segment
      /\ ToArray(m) \in Seq(Segment)
      /\ \A j \in 1 .. L : W[j] = ToArray(m)[j]
      /\ \A i \in 1 .. N : W[L + i] = rs[i]
  <2>1. ToArray(m) \in Seq(Segment)
    BY TreeFacts DEF MapOK, BST, ToArray
  <2> QED
    BY <2>1
<1> HIDE DEF L, W
<1>3. /\ f[0] = m
      /\ \A i \in 1 .. N : f[i] = AddRange(f[i - 1], rs[i])
  <2>1. f = [i \in 0 .. N |-> IF i = 0 THEN m ELSE AddRange(f[i - 1], rs[i])]
    BY <1>1, ZenonT(30) DEF AddSteps
  <2>2. N \in Nat
    OBVIOUS
  <2> HIDE DEF N
  <2>3. 0 \in 0 .. N /\ \A i \in 1 .. N : i \in 0 .. N /\ i # 0
    BY <2>2
  <2>4. f[0] = m
    BY <2>1, <2>3, ZenonT(30)
  <2>5. ASSUME NEW i \in 1 .. N PROVE f[i] = AddRange(f[i - 1], rs[i])
    BY <2>1, <2>3, ZenonT(30)
  <2> QED
    BY <2>4, <2>5
<1> DEFINE T == {i \in Nat : i <= N => MapOK(f[i]) /\ (Sep(W) => Same(f[i], i))}
<1>4. 0 \in T
  <2>1. Len(ToArray(m)) = L /\ L + 0 = L
    BY <1>2 DEF L
  <2>2. Same(m, 0)
    BY <1>2, <2>1
  <2> HIDE DEF Same
  <2> QED
    BY <1>3, <2>2
<1>5. ASSUME NEW k \in Nat, k \in T PROVE k + 1 \in T
  <2> SUFFICES ASSUME k + 1 <= N
               PROVE  MapOK(f[k + 1]) /\ (Sep(W) => Same(f[k + 1], k + 1))
    OBVIOUS
  <2>1. k + 1 \in 1 .. N /\ (k + 1) - 1 = k /\ k <= N
    BY <1>2
  <2>2. MapOK(f[k]) /\ (Sep(W) => Same(f[k], k))
    BY <1>5, <2>1
  <2>3. rs[k + 1] \in Segment /\ f[k + 1] = AddRange(f[k], rs[k + 1])
    BY <1>2, <1>3, <2>1
  <2>4. MapOK(f[k + 1])
    BY <2>2, <2>3, AddRangeFacts DEF Added
  <2>5. ASSUME Sep(W) PROVE Same(f[k + 1], k + 1)
    <3> DEFINE A == ToArray(f[k])
               n == rs[k + 1]
    <3>1. A \in Seq(Segment) /\ Els(f[k].root) = ToSet(A) /\ DOMAIN A = 1 .. Len(A)
      <4>1. f[k].root \in Tree
        BY <2>2 DEF MapOK
      <4>2. A \in Seq(Segment) /\ Els(f[k].root) = ToSet(A)
        BY <4>1, TreeFacts DEF ToArray, Els
      <4> HIDE DEF A
      <4> QED
        BY <4>2
    <3>2. Len(A) = L + k /\ \A j \in 1 .. L + k : A[j] = W[j]
      BY <2>2, <2>5
    <3>3. n = W[L + (k + 1)] /\ L + (k + 1) \in 1 .. Len(W)
      BY <1>2, <2>1
    <3> HIDE DEF A, n
    <3>4. ASSUME NEW j \in 1 .. L + k PROVE End(A[j]) < n.base
      <4>1. j \in 1 .. Len(W) /\ j < L + (k + 1)
        BY <1>2, <2>1
      <4>2. End(W[j]) < W[L + (k + 1)].base
        BY <2>5, <3>3, <4>1 DEF Sep
      <4> QED
        BY <3>2, <3>3, <4>2
    <3>5. Before(Els(f[k].root), n)
      BY <3>1, <3>2, <3>4 DEF Before, ToSet
    <3>6. ToArray(f[k + 1]) = A \o <<n>>
      BY <2>2, <2>3, <3>5, AddLast DEF A, n
    <3>7. n \in Segment
      BY <2>3 DEF n
    <3>8. Len(A \o <<n>>) = L + (k + 1)
      BY <1>2, <3>1, <3>2, <3>7
    <3>9. ASSUME NEW j \in 1 .. L + (k + 1) PROVE (A \o <<n>>)[j] = W[j]
      <4>1. j \in 1 .. L + k \/ j = L + (k + 1)
        BY <1>2
      <4>2. CASE j \in 1 .. L + k
        BY <1>2, <3>1, <3>2, <3>7, <4>2
      <4>3. CASE j = L + (k + 1)
        <5>1. (A \o <<n>>)[Len(A) + 1] = n
          BY <3>1, <3>7
        <5>2. Len(A) + 1 = L + (k + 1)
          BY <1>2, <3>2
        <5> QED
          BY <3>3, <4>3, <5>1, <5>2
      <4> QED
        BY <4>1, <4>2, <4>3
    <3> QED
      BY <3>6, <3>8, <3>9
  <2> QED
    BY <2>4, <2>5
<1>6. N \in T
  <2> HIDE DEF T
  <2> QED
    BY <1>2, <1>4, <1>5, NaturalsBySuccessor
<1>7. MapOK(f[N]) /\ (Sep(W) => Same(f[N], N))
  BY <1>2, <1>6
<1>8. ASSUME Sep(W) PROVE ToArray(f[N]) = W
  <2>1. ToArray(f[N]) \in Seq(Segment)
    BY <1>7, TreeFacts DEF MapOK, BST, ToArray
  <2>2. Len(ToArray(f[N])) = Len(W) /\ \A j \in 1 .. Len(W) : ToArray(f[N])[j] = W[j]
    BY <1>2, <1>7, <1>8
  <2> QED
    BY <1>2, <2>1, <2>2, SeqEqual
<1> QED
  BY <1>1, <1>7, <1>8 DEF W

-----------------------------------------------------------------------------
(***************************************************************************)
(* Looking up.                                                             *)
(***************************************************************************)
(* Every range of S ends before q or begins behind it. *)
Apart(S, q) == \A f \in S : End(f) <= q.base \/ End(q) <= f.base

(* e is the first range of S that overlaps q, and o the overlap. *)
FirstIs(o, e, S, q) ==
  /\ e \in S /\ End(e) > q.base /\ e.base < End(q)
  /\ o = Overlap(e, q)
  /\ \A f \in S : f.base < e.base => End(f) <= q.base

Found(o, S, q) == IF o = None THEN Apart(S, q) ELSE \E e : FirstIs(o, e, S, q)

LEMMA SubtreeOverlapsFacts ==
  ASSUME NEW t, BST(t), NEW r \in Segment
  PROVE  Found(SubtreeOverlaps[t][r], Els(t), r)
<1> DEFINE T == {n \in Nat : \A u \in Tree : BST(u) /\ Count(u) <= n =>
                   \A q \in Segment : Found(SubtreeOverlaps[u][q], Els(u), q)}
<1>0. ASSUME NEW q \in Segment PROVE Found(SubtreeOverlaps[Nil][q], Els(Nil), q)
  <2>1. SubtreeOverlaps[Nil][q] = None
    BY SubtreeOverlapsEq, InTree
  <2> QED
    BY <2>1, NilFacts DEF Found, Apart
<1>1. 0 \in T
  BY <1>0, NoNodes
<1>2. ASSUME NEW n \in Nat, n \in T PROVE n + 1 \in T
  <2> SUFFICES ASSUME NEW v \in Tree, BST(v), Count(v) <= n + 1, NEW q \in Segment
               PROVE  Found(SubtreeOverlaps[v][q], Els(v), q)
    OBVIOUS
  <2>1. CASE v = Nil
    BY <1>0, <2>1
  <2>2. CASE v # Nil
    <3>1. /\ BST(v.lc) /\ BST(v.rc) /\ v.r \in Segment
          /\ Before(Els(v.lc), v.r) /\ Behind(Els(v.rc), v.r)
          /\ Count(v) = Count(v.lc) + 1 + Count(v.rc)
          /\ Els(v) = Els(v.lc) \cup {v.r} \cup Els(v.rc)
      BY <2>2, NodeSplit
    <3>2. /\ v.lc \in Tree /\ v.rc \in Tree /\ Count(v.lc) \in Nat /\ Count(v.rc) \in Nat
          /\ Els(v.lc) \subseteq Segment /\ Els(v.rc) \subseteq Segment
      BY <3>1, TreeFacts DEF BST
    <3>3. Count(v.lc) <= n /\ Count(v.rc) <= n
      BY <3>1, <3>2
    <3>4. \A p \in Segment : Found(SubtreeOverlaps[v.lc][p], Els(v.lc), p)
      BY <1>2, <3>1, <3>2, <3>3
    <3>5. \A p \in Segment : Found(SubtreeOverlaps[v.rc][p], Els(v.rc), p)
      BY <1>2, <3>1, <3>2, <3>3
    <3>6. /\ v.r.base \in Nat /\ End(v.r) \in Nat /\ v.r.base < End(v.r)
          /\ q.base \in Nat /\ End(q) \in Nat /\ q.base < End(q) /\ End(q) <= MaxAddr + 1
      BY <3>1, SegmentFacts
    <3>7. \A f \in Els(v.lc) : /\ f.base \in Nat /\ End(f) \in Nat /\ f.base < End(f)
                               /\ End(f) < v.r.base
      BY <3>1, <3>2, SegmentFacts DEF Before
    <3>8. \A f \in Els(v.rc) : /\ f.base \in Nat /\ End(f) \in Nat /\ f.base < End(f)
                               /\ End(v.r) < f.base
      BY <3>1, <3>2, SegmentFacts DEF Behind
    <3> DEFINE o == SubtreeOverlaps[v][q]
    <3>9. CASE End(v.r) <= q.base
      <4>1. o = SubtreeOverlaps[v.rc][q]
        BY <2>2, <3>9, SubtreeOverlapsEq
      <4>2. Found(o, Els(v.rc), q)
        BY <3>5, <4>1
      <4> HIDE DEF o
      <4>3. CASE o = None
        <5>1. Apart(Els(v.rc), q)
          BY <4>2, <4>3 DEF Found
        <5>2. Apart(Els(v), q)
          BY <3>1, <3>6, <3>7, <3>9, <5>1 DEF Apart
        <5> QED
          BY <4>3, <5>2 DEF Found, o
      <4>4. CASE o # None
        <5>1. PICK e : FirstIs(o, e, Els(v.rc), q)
          BY <4>2, <4>4 DEF Found
        <5>2. FirstIs(o, e, Els(v), q)
          BY <3>1, <3>6, <3>7, <3>8, <3>9, <5>1 DEF FirstIs
        <5> QED
          BY <4>4, <5>2 DEF Found, o
      <4> QED
        BY <4>3, <4>4
    <3>10. CASE ~ (End(v.r) <= q.base) /\ v.r.base > End(q)
      <4>1. o = SubtreeOverlaps[v.lc][q]
        BY <2>2, <3>10, SubtreeOverlapsEq
      <4>2. Found(o, Els(v.lc), q)
        BY <3>4, <4>1
      <4> HIDE DEF o
      <4>3. CASE o = None
        <5>1. Apart(Els(v.lc), q)
          BY <4>2, <4>3 DEF Found
        <5>2. Apart(Els(v), q)
          BY <3>1, <3>6, <3>8, <3>10, <5>1 DEF Apart
        <5> QED
          BY <4>3, <5>2 DEF Found, o
      <4>4. CASE o # None
        <5>1. PICK e : FirstIs(o, e, Els(v.lc), q)
          BY <4>2, <4>4 DEF Found
        <5>2. FirstIs(o, e, Els(v), q)
          BY <3>1, <3>6, <3>7, <3>8, <3>10, <5>1 DEF FirstIs
        <5> QED
          BY <4>4, <5>2 DEF Found, o
      <4> QED
        BY <4>3, <4>4
    <3>11. CASE ~ (End(v.r) <= q.base) /\ ~ (v.r.base > End(q))
      <4> DEFINE q2 == MemRange(q.base, v.r.base - q.base)
                 head == IF v.r.base > q.base THEN SubtreeOverlaps[v.lc][q2] ELSE None
      <4>1. o = IF head # None THEN head ELSE Overlap(v.r, q)
        BY <2>2, <3>11, SubtreeOverlapsEq
      <4>2. v.r.base > q.base => q2 \in Segment /\ q2.base = q.base /\ End(q2) = v.r.base
        <5> SUFFICES ASSUME v.r.base > q.base
                     PROVE  q2 \in Segment /\ q2.base = q.base /\ End(q2) = v.r.base
          OBVIOUS
        <5>1. /\ q.base \in Int /\ v.r.base \in Int /\ 0 <= q.base /\ q.base < v.r.base
              /\ v.r.base <= MaxAddr + 1
          BY <3>6, <3>11, DepthNat
        <5> QED
          BY <5>1, SegmentOf
      <4> HIDE DEF q2
      <4>3. v.r.base > q.base => Found(head, Els(v.lc), q2)
        BY <3>4, <4>2
      <4>4. head # None => v.r.base > q.base
        OBVIOUS
      <4> HIDE DEF head, o
      <4>5. CASE head # None
        <5>1. PICK e : FirstIs(head, e, Els(v.lc), q2)
          BY <4>3, <4>4, <4>5 DEF Found
        <5>2. /\ e \in Els(v.lc) /\ End(e) > q.base /\ e.base < v.r.base
              /\ head = Overlap(e, q2)
              /\ \A f \in Els(v.lc) : f.base < e.base => End(f) <= q.base
          BY <4>2, <4>4, <4>5, <5>1 DEF FirstIs
        <5>3. Overlap(e, q2) = Overlap(e, q)
          <6>1. /\ e.base \in Nat /\ End(e) \in Nat /\ End(e) < v.r.base /\ v.r.base <= End(q)
            BY <3>6, <3>7, <3>11, <5>2
          <6>2. q2.base = q.base /\ End(q2) = v.r.base
            BY <4>2, <4>4, <4>5
          <6> QED
            BY <3>6, <6>1, <6>2 DEF Overlap
        <5>4. FirstIs(o, e, Els(v), q)
          <6>1. e.base < End(q) /\ e \in Els(v)
            BY <3>1, <3>6, <3>7, <3>11, <5>2
          <6>2. ASSUME NEW f \in Els(v), f.base < e.base PROVE End(f) <= q.base
            BY <3>1, <3>6, <3>7, <3>8, <5>2, <6>2
          <6> QED
            BY <4>1, <4>5, <5>2, <5>3, <6>1, <6>2 DEF FirstIs
        <5>5. o # None
          BY <4>1, <4>5
        <5> QED
          BY <5>4, <5>5 DEF Found, o
      <4>6. CASE head = None
        <5>1. \A f \in Els(v.lc) : End(f) <= q.base
          <6>1. CASE v.r.base > q.base
            <7>1. Apart(Els(v.lc), q2)
              BY <4>3, <4>6, <6>1 DEF Found
            <7>2. \A f \in Els(v.lc) : End(f) <= q.base \/ v.r.base <= f.base
              BY <4>2, <6>1, <7>1 DEF Apart
            <7> QED
              BY <3>6, <3>7, <7>2
          <6>2. CASE ~ (v.r.base > q.base)
            BY <3>6, <3>7, <6>2
          <6> QED
            BY <6>1, <6>2
        <5>2. o = Overlap(v.r, q)
          BY <4>1, <4>6
        <5>3. CASE v.r.base < End(q)
          <6>1. Overlap(v.r, q) # None
            BY <3>1, <3>6, <3>11, <5>3, OverlapFacts
          <6>2. FirstIs(o, v.r, Els(v), q)
            BY <3>1, <3>6, <3>8, <3>11, <5>1, <5>2, <5>3 DEF FirstIs
          <6> QED
            BY <5>2, <6>1, <6>2 DEF Found, o
        <5>4. CASE ~ (v.r.base < End(q))
          <6>1. Overlap(v.r, q) = None
            BY <3>1, <3>6, <3>11, <5>4, OverlapFacts
          <6>2. Apart(Els(v), q)
            BY <3>1, <3>6, <3>8, <5>1, <5>4 DEF Apart
          <6> QED
            BY <5>2, <6>1, <6>2 DEF Found, o
        <5> QED
          BY <5>3, <5>4
      <4> QED
        BY <4>5, <4>6
    <3> QED
      BY <3>9, <3>10, <3>11
  <2> QED
    BY <2>1, <2>2
<1>3. \A n \in Nat : n \in T
  <2> HIDE DEF T
  <2> QED
    BY <1>1, <1>2, NaturalsBySuccessor
<1>4. t \in Tree /\ Count(t) \in Nat
  BY TreeFacts DEF BST
<1>5. Count(t) \in T /\ Count(t) <= Count(t)
  BY <1>3, <1>4
<1> QED
  BY <1>4, <1>5

LEMMA ElsApart ==
  ASSUME NEW t, BST(t), NEW e \in Els(t), NEW f \in Els(t)
  PROVE  e = f \/ End(e) < f.base \/ End(f) < e.base
<1> DEFINE s == InOrder[t]
<1>1. s \in Seq(Segment) /\ Sep(s)
  BY TreeFacts DEF BST
<1>2. e \in ToSet(s) /\ f \in ToSet(s)
  BY DEF Els
<1> HIDE DEF s
<1>3. PICK i \in 1 .. Len(s) : e = s[i]
  BY <1>1, <1>2 DEF ToSet
<1>4. PICK j \in 1 .. Len(s) : f = s[j]
  BY <1>1, <1>2 DEF ToSet
<1>5. i = j \/ i < j \/ j < i
  BY <1>1
<1> QED
  BY <1>1, <1>3, <1>4, <1>5 DEF Sep

(* What map_overlaps returns for a range q, in terms of addresses. *)
Hit(o, t, q) ==
  IF o = None THEN Cells(q) \cap Cover(t) = {}
  ELSE /\ o \in Segment /\ q.base <= o.base /\ End(o) <= End(q)
       /\ Cells(o) \subseteq Cells(q) \cap Cover(t)
       /\ \A c \in Cells(q) \cap Cover(t) : o.base <= c
       /\ End(o) = End(q) \/ End(o) \notin Cover(t)

LEMMA OverlapHits ==
  ASSUME NEW t, BST(t), NEW q \in Segment
  PROVE  Hit(SubtreeOverlaps[t][q], t, q)
<1> DEFINE o == SubtreeOverlaps[t][q]
<1>1. Found(o, Els(t), q)
  BY SubtreeOverlapsFacts
<1>2. /\ q.base \in Nat /\ End(q) \in Nat /\ q.base < End(q)
  BY SegmentFacts
<1>3. \A f \in Els(t) : f \in Segment /\ f.base \in Nat /\ End(f) \in Nat /\ f.base < End(f)
  BY TreeFacts, SegmentFacts DEF BST
<1> HIDE DEF o
<1>4. CASE o = None
  <2>1. Apart(Els(t), q)
    BY <1>1, <1>4 DEF Found
  <2>2. ASSUME NEW c \in Cells(q) \cap Cover(t) PROVE FALSE
    <3>1. PICK f \in Els(t) : c \in Cells(f)
      BY CoverIs
    <3>2. c \in Int /\ q.base <= c /\ c < End(q) /\ f.base <= c /\ c < End(f)
      BY <1>3, <3>1, CellsAre
    <3> QED
      BY <1>2, <1>3, <2>1, <3>2 DEF Apart
  <2> QED
    BY <1>4, <2>2 DEF Hit, o
<1>5. CASE o # None
  <2>1. PICK e : FirstIs(o, e, Els(t), q)
    BY <1>1, <1>5 DEF Found
  <2>2. /\ e \in Els(t) /\ End(e) > q.base /\ e.base < End(q) /\ o = Overlap(e, q)
        /\ \A f \in Els(t) : f.base < e.base => End(f) <= q.base
    BY <2>1 DEF FirstIs
  <2>3. e \in Segment /\ e.base \in Nat /\ End(e) \in Nat /\ e.base < End(e)
    BY <1>3, <2>2
  <2>4. /\ o \in Segment
        /\ o.base = IF e.base <= q.base THEN q.base ELSE e.base
        /\ End(o) = IF End(e) <= End(q) THEN End(e) ELSE End(q)
    BY <1>5, <2>2, <2>3, OverlapFacts
  <2>5. q.base <= o.base /\ End(o) <= End(q) /\ e.base <= o.base /\ End(o) <= End(e)
        /\ o.base \in Nat /\ End(o) \in Nat
    BY <1>2, <2>3, <2>4
  <2>6. Cells(o) \subseteq Cells(q) \cap Cover(t)
    <3>1. \A c \in Cells(o) : c \in Cells(q) /\ c \in Cells(e)
      BY <1>2, <2>3, <2>4, <2>5, CellsAre
    <3> QED
      BY <2>2, <3>1, CoverIs
  <2>7. ASSUME NEW c \in Cells(q) \cap Cover(t) PROVE o.base <= c
    <3>1. PICK f \in Els(t) : c \in Cells(f)
      BY CoverIs
    <3>2. c \in Int /\ q.base <= c /\ c < End(q) /\ f.base <= c /\ c < End(f)
      BY <1>3, <3>1, CellsAre
    <3>3. ~ (f.base < e.base)
      BY <1>2, <1>3, <2>2, <3>1, <3>2
    <3> QED
      BY <1>2, <1>3, <2>3, <2>4, <3>1, <3>2, <3>3
  <2>8. ASSUME End(o) # End(q), End(o) \in Cover(t) PROVE FALSE
    <3>1. End(o) = End(e)
      BY <2>4, <2>8
    <3>2. PICK f \in Els(t) : End(e) \in Cells(f)
      BY <2>8, <3>1, CoverIs
    <3>3. f.base <= End(e) /\ End(e) < End(f)
      BY <1>3, <3>2, CellsAre
    <3> QED
      BY <1>3, <2>2, <2>3, <3>3, ElsApart
  <2>9. Hit(o, t, q)
    BY <1>5, <2>4, <2>5, <2>6, <2>7, <2>8 DEF Hit
  <2> QED
    BY <2>9 DEF o
<1> QED
  BY <1>4, <1>5

LEMMA RightmostFacts ==
  ASSUME NEW t, BST(t), t # Nil
  PROVE  /\ Rightmost[t] \in Els(t)
         /\ \A e \in Els(t) : e = Rightmost[t] \/ End(e) < Rightmost[t].base
<1> DEFINE Good(u) == /\ Rightmost[u] \in Els(u)
                      /\ \A e \in Els(u) : e = Rightmost[u] \/ End(e) < Rightmost[u].base
           T == {n \in Nat : \A u \in Tree : BST(u) /\ u # Nil /\ Count(u) <= n => Good(u)}
<1>1. 0 \in T
  BY NoNodes
<1>2. ASSUME NEW n \in Nat, n \in T PROVE n + 1 \in T
  <2> SUFFICES ASSUME NEW v \in Tree, BST(v), v # Nil, Count(v) <= n + 1 PROVE Good(v)
    OBVIOUS
  <2>1. /\ BST(v.lc) /\ BST(v.rc) /\ v.r \in Segment
        /\ Before(Els(v.lc), v.r) /\ Behind(Els(v.rc), v.r)
        /\ Count(v) = Count(v.lc) + 1 + Count(v.rc)
        /\ Els(v) = Els(v.lc) \cup {v.r} \cup Els(v.rc)
    BY NodeSplit
  <2>2. /\ v.lc \in Tree /\ v.rc \in Tree /\ Count(v.lc) \in Nat /\ Count(v.rc) \in Nat
        /\ Els(v.lc) \subseteq Segment /\ Els(v.rc) \subseteq Segment
    BY <2>1, TreeFacts DEF BST
  <2>3. CASE v.rc = Nil
    <3>1. Rightmost[v] = v.r
      BY <2>3, RightmostEq
    <3> QED
      BY <2>1, <2>3, <3>1, NilFacts DEF Before
  <2>4. CASE v.rc # Nil
    <3>1. Rightmost[v] = Rightmost[v.rc]
      BY <2>4, RightmostEq
    <3>2. Count(v.rc) <= n
      BY <2>1, <2>2
    <3> DEFINE m == Rightmost[v.rc]
    <3>3. m \in Els(v.rc) /\ \A e \in Els(v.rc) : e = m \/ End(e) < m.base
      BY <1>2, <2>1, <2>2, <2>4, <3>2
    <3> HIDE DEF m
    <3>4. End(v.r) < m.base /\ m.base \in Nat
      BY <2>1, <2>2, <3>3, SegmentFacts DEF Behind
    <3>5. \A e \in Els(v.lc) : End(e) < m.base
      BY <2>1, <2>2, <3>4, SegmentFacts DEF Before
    <3> QED
      BY <2>1, <3>1, <3>3, <3>4, <3>5 DEF m
  <2> QED
    BY <2>3, <2>4
<1>3. \A n \in Nat : n \in T
  <2> HIDE DEF T
  <2> QED
    BY <1>1, <1>2, NaturalsBySuccessor
<1>4. t \in Tree /\ Count(t) \in Nat
  BY TreeFacts DEF BST
<1>5. Count(t) \in T /\ Count(t) <= Count(t)
  BY <1>3, <1>4
<1> QED
  BY <1>4, <1>5

(* map_contains returns the range that holds the address. *)
LEMMA MapContainsFacts ==
  ASSUME NEW m, MapOK(m), NEW x \in Addr
  PROVE  LET r == MapContains(m, x) IN
         IF x \in Cover(m.root) THEN r \in Els(m.root) /\ x \in Cells(r) ELSE r = None
<1> DEFINE top == Splay[m.root][x]
           r == IF x < top.r.base THEN Rightmost[top.lc] ELSE top.r
           c == MapContains(m, x)
<1>1. m.root \in Tree /\ BST(m.root)
  BY DEF MapOK
<1>2. c = IF m.root = Nil \/ r = None THEN None ELSE IF End(r) > x THEN r ELSE None
  BY DEF MapContains
<1>0. x \in Nat
  BY RangeAssumption DEF Addr
<1>3. CASE m.root = Nil
  <2>1. c = None
    BY <1>2, <1>3
  <2>2. Cover(m.root) = {}
    BY <1>3, NilFacts DEF Cover
  <2> QED
    BY <2>1, <2>2
<1>4. CASE m.root # Nil
  <2>1. BST(top) /\ top # Nil /\ InOrder[top] = InOrder[m.root] /\ Near(top, x)
    BY <1>1, <1>4, SplayFacts
  <2> HIDE DEF top
  <2>2. Els(m.root) = Els(top)
    BY <2>1 DEF Els
  <2>3. /\ BST(top.lc) /\ BST(top.rc) /\ top.r \in Segment
        /\ Before(Els(top.lc), top.r) /\ Behind(Els(top.rc), top.r)
        /\ Els(top) = Els(top.lc) \cup {top.r} \cup Els(top.rc)
    BY <2>1, NodeSplit
  <2>4. \A f \in Els(top) : f \in Segment /\ f.base \in Nat /\ End(f) \in Nat /\ f.base < End(f)
    BY <2>1, TreeFacts, SegmentFacts DEF BST
  <2>5. \A f \in Els(top) : x \in Cells(f) <=> f.base <= x /\ x < End(f)
    BY <1>0, <2>4, CellsAre
  <2> HIDE DEF c
  <2>6. CASE x < top.r.base
    <3>1. \A e \in Els(top.lc) : e.base < x
      BY <2>1, <2>6 DEF Near
    <3>2. \A e \in Els(top) : x \in Cells(e) => e \in Els(top.lc)
      BY <1>0, <2>3, <2>4, <2>5, <2>6 DEF Behind
    <3>3. CASE top.lc = Nil
      <4>1. r = None
        BY <2>6, <3>3, RightmostEq, InTree
      <4>2. x \notin Cover(m.root)
        BY <2>2, <3>2, <3>3, NilFacts, CoverIs
      <4>3. c = None
        BY <1>2, <4>1
      <4> QED
        BY <4>2, <4>3 DEF c
    <3>4. CASE top.lc # Nil
      <4>1. r = Rightmost[top.lc]
        BY <2>6
      <4> HIDE DEF r
      <4>2. r \in Els(top.lc) /\ \A e \in Els(top.lc) : e = r \/ End(e) < r.base
        BY <2>3, <3>4, <4>1, RightmostFacts
      <4>3. r \in Els(top) /\ r # None /\ r.base < x
        BY <2>3, <2>4, <3>1, <4>2, NoneIsNoSegment
      <4>4. c = IF End(r) > x THEN r ELSE None
        BY <1>2, <1>4, <4>3
      <4>5. CASE End(r) > x
        <5>1. x \in Cells(r)
          BY <1>0, <2>4, <2>5, <4>3, <4>5
        <5>2. x \in Cover(m.root)
          BY <2>2, <4>3, <5>1, CoverIs
        <5> QED
          BY <2>2, <4>3, <4>4, <4>5, <5>1, <5>2 DEF c
      <4>6. CASE ~ (End(r) > x)
        <5>1. x \notin Cover(m.root)
          <6> SUFFICES ASSUME NEW e \in Els(top), x \in Cells(e) PROVE FALSE
            BY <2>2, CoverIs
          <6>1. e \in Els(top.lc)
            BY <3>2
          <6>2. e = r \/ End(e) < r.base
            BY <4>2, <6>1
          <6>3. x < End(e)
            BY <2>5
          <6> QED
            BY <1>0, <2>4, <4>3, <4>6, <6>2, <6>3
        <5>2. c = None
          BY <4>4, <4>6
        <5> QED
          BY <5>1, <5>2 DEF c
      <4> QED
        BY <4>5, <4>6
    <3> QED
      BY <3>3, <3>4
  <2>7. CASE ~ (x < top.r.base)
    <3>1. r = top.r
      BY <2>7
    <3>2. top.r \in Els(top) /\ top.r # None
      BY <2>3, NoneIsNoSegment
    <3>3. c = IF End(top.r) > x THEN top.r ELSE None
      BY <1>2, <1>4, <3>1, <3>2
    <3>4. CASE End(top.r) > x
      <4>1. x \in Cells(top.r)
        BY <1>0, <2>4, <2>5, <2>7, <3>2, <3>4
      <4>2. x \in Cover(m.root)
        BY <2>2, <3>2, <4>1, CoverIs
      <4> QED
        BY <2>2, <3>2, <3>3, <3>4, <4>1, <4>2 DEF c
    <3>5. CASE ~ (End(top.r) > x)
      <4>1. x \notin Cover(m.root)
        <5> SUFFICES ASSUME NEW e \in Els(top), x \in Cells(e) PROVE FALSE
          BY <2>2, CoverIs
        <5>1. e.base <= x /\ x < End(e)
          BY <2>5
        <5>2. CASE e \in Els(top.lc)
          BY <1>0, <2>3, <2>4, <2>7, <3>2, <5>1, <5>2 DEF Before
        <5>3. CASE e = top.r
          BY <1>0, <2>4, <3>5, <5>1, <5>3
        <5>4. CASE e \in Els(top.rc)
          <6>1. x > top.r.base
            BY <1>0, <2>4, <3>2, <3>5
          <6>2. e.base > x
            BY <2>1, <5>4, <6>1 DEF Near
          <6> QED
            BY <1>0, <2>4, <5>1, <6>2
        <5> QED
          BY <2>3, <5>2, <5>3, <5>4
      <4>2. c = None
        BY <3>3, <3>5
      <4> QED
        BY <4>1, <4>2 DEF c
    <3> QED
      BY <3>4, <3>5
  <2> QED
    BY <2>6, <2>7
<1> QED
  BY <1>3, <1>4

(* map_remove_node takes the range at the address out, and no other. *)
LEMMA RemoveNodeFacts ==
  ASSUME NEW m, MapOK(m), NEW r \in Els(m.root)
  PROVE  MapOK(RemoveNode(m, r.base)) /\ Els(RemoveNode(m, r.base).root) = Els(m.root) \ {r}
<1> DEFINE x == r.base
           rt == Splay[m.root][x]
           left == Splay[rt.lc][x]
           w == IF rt.lc = Nil THEN rt.rc ELSE Node(left.lc, left.r, rt.rc)
           m2 == RemoveNode(m, x)
<1>1. m.root \in Tree /\ BST(m.root) /\ m.size = Count(m.root)
  BY DEF MapOK
<1>2. m.root # Nil /\ r \in Segment
  BY <1>1, NilFacts, TreeFacts
<1>3. x \in Addr /\ x \in Nat
  BY <1>2, SegmentFacts DEF Segment
<1>4. m2 = [root |-> w, size |-> m.size - 1]
  BY DEF RemoveNode
<1> HIDE DEF x
<1>5. BST(rt) /\ rt # Nil /\ InOrder[rt] = InOrder[m.root] /\ Near(rt, x)
  BY <1>1, <1>2, <1>3, SplayFacts
<1> HIDE DEF rt, m2
<1>6. Els(rt) = Els(m.root) /\ Count(rt) = m.size
  BY <1>1, <1>5 DEF Els, Count
<1>7. /\ BST(rt.lc) /\ BST(rt.rc) /\ rt.r \in Segment
      /\ Before(Els(rt.lc), rt.r) /\ Behind(Els(rt.rc), rt.r)
      /\ Count(rt) = Count(rt.lc) + 1 + Count(rt.rc)
      /\ Els(rt) = Els(rt.lc) \cup {rt.r} \cup Els(rt.rc)
  BY <1>5, NodeSplit
<1>8. \A f \in Els(rt) : f \in Segment /\ f.base \in Nat /\ End(f) \in Nat /\ f.base < End(f)
  BY <1>5, TreeFacts, SegmentFacts DEF BST
<1>9. r \in Els(rt) /\ r.base = x
  BY <1>6 DEF x
<1>10. rt.r = r
  <2>1. CASE r \in Els(rt.lc)
    <3>1. r.base < rt.r.base
      BY <1>7, <1>8, <1>9, <2>1 DEF Before
    <3>2. r.base < x
      BY <1>5, <1>9, <2>1, <3>1 DEF Near
    <3> QED
      BY <1>3, <1>9, <3>2
  <2>2. CASE r \in Els(rt.rc)
    <3>1. x > rt.r.base
      BY <1>7, <1>8, <1>9, <2>2 DEF Behind
    <3>2. r.base > x
      BY <1>5, <2>2, <3>1 DEF Near
    <3> QED
      BY <1>3, <1>9, <3>2
  <2> QED
    BY <1>7, <1>9, <2>1, <2>2
<1>11. Count(rt.lc) \in Nat /\ Count(rt.rc) \in Nat
  BY <1>7, TreeFacts DEF BST
<1>12. Els(rt) \ {r} = Els(rt.lc) \cup Els(rt.rc)
  <2>1. r \notin Els(rt.lc)
    BY <1>7, <1>8, <1>9, <1>10 DEF Before
  <2>2. r \notin Els(rt.rc)
    BY <1>7, <1>8, <1>9, <1>10 DEF Behind
  <2> QED
    BY <1>7, <1>10, <2>1, <2>2
<1>13. BST(w) /\ Count(w) = m.size - 1 /\ Els(w) = Els(rt) \ {r}
  <2>1. CASE rt.lc = Nil
    BY <1>6, <1>7, <1>11, <1>12, <2>1, NilFacts
  <2>2. CASE rt.lc # Nil
    <3>1. BST(left) /\ left # Nil /\ InOrder[left] = InOrder[rt.lc] /\ Near(left, x)
      BY <1>3, <1>7, <2>2, SplayFacts
    <3> DEFINE y == Node(left.lc, left.r, rt.rc)
    <3>2. w = y
      BY <2>2
    <3> HIDE DEF left, w
    <3>3. Els(left) = Els(rt.lc) /\ Count(left) = Count(rt.lc)
      BY <3>1 DEF Els, Count
    <3>4. /\ BST(left.lc) /\ BST(left.rc) /\ left.r \in Segment
          /\ Before(Els(left.lc), left.r)
          /\ Count(left) = Count(left.lc) + 1 + Count(left.rc)
          /\ Els(left) = Els(left.lc) \cup {left.r} \cup Els(left.rc)
      BY <3>1, NodeSplit
    <3>5. \A e \in Els(left) : End(e) < x /\ e.base < x
      <4>1. \A e \in Els(left) : End(e) < x
        BY <1>7, <1>9, <1>10, <3>3 DEF Before
      <4> QED
        BY <1>3, <1>7, <1>8, <3>3, <4>1
    <3>6. left.rc = Nil
      <4>1. x > left.r.base /\ left.r.base \in Nat
        BY <1>3, <3>4, <3>5, SegmentFacts
      <4>2. \A e \in Els(left.rc) : e.base > x
        BY <3>1, <4>1 DEF Near
      <4>3. \A e \in Els(left.rc) : e.base < x /\ e.base \in Nat
        BY <1>7, <1>8, <3>3, <3>4, <3>5
      <4>4. Els(left.rc) = {}
        BY <1>3, <4>2, <4>3
      <4> QED
        BY <3>4, <4>4, EmptyTree
    <3>7. Behind(Els(rt.rc), left.r)
      <4>1. End(left.r) < x /\ End(left.r) \in Nat
        BY <3>4, <3>5, SegmentFacts
      <4>2. \A e \in Els(rt.rc) : e.base > x /\ e.base \in Nat
        BY <1>3, <1>7, <1>8, <1>9, <1>10 DEF Behind
      <4> QED
        BY <1>3, <4>1, <4>2 DEF Behind
    <3>8. Joined(y, left.lc, left.r, rt.rc)
      BY <1>7, <3>4, <3>7, NodeJoin
    <3> HIDE DEF y
    <3>9. /\ BST(y) /\ Count(y) = Count(left.lc) + 1 + Count(rt.rc)
          /\ Els(y) = Els(left.lc) \cup {left.r} \cup Els(rt.rc)
      BY <3>8 DEF Joined
    <3>10. Els(y) = Els(rt) \ {r}
      BY <1>12, <3>3, <3>4, <3>6, <3>9, NilFacts
    <3>11. Count(left.lc) \in Nat /\ Count(left.rc) = 0
      BY <3>4, <3>6, NilFacts, TreeFacts DEF BST
    <3>12. Count(y) = m.size - 1
      BY <1>6, <1>7, <1>11, <3>3, <3>4, <3>9, <3>11
    <3> QED
      BY <3>2, <3>9, <3>10, <3>12
  <2> QED
    BY <2>1, <2>2
<1> HIDE DEF w
<1>14. MapOK(m2) /\ m2.root = w
  <2>1. m.size - 1 = Count(w)
    BY <1>13
  <2> QED
    BY <1>4, <1>13, <2>1, MapOf
<1>15. MapOK(m2) /\ Els(m2.root) = Els(m.root) \ {r}
  BY <1>6, <1>13, <1>14
<1> QED
  BY <1>15 DEF m2, x

-----------------------------------------------------------------------------
(***************************************************************************)
(* The set operations.                                                     *)
(***************************************************************************)
(* A recursion that goes up from lo to hi has a solution. *)
Chained(f, lo, hi, D, nx, pre, last) ==
  f = [x \in lo .. hi |-> IF x \in D THEN pre[x] \o f[nx[x]] ELSE last[x]]

LEMMA ChainExists ==
  ASSUME NEW lo \in Nat, NEW hi \in Nat, lo <= hi, NEW D, NEW nx, NEW pre, NEW last,
         \A x \in D \cap (lo .. hi) : nx[x] \in lo .. hi /\ x < nx[x]
  PROVE  \E f : Chained(f, lo, hi, D, nx, pre, last)
<1> DEFINE B(f, x) == IF x \in D THEN pre[x] \o f[nx[x]] ELSE last[x]
           Fits(f, k) == /\ f = [x \in lo .. hi |-> f[x]]
                         /\ \A x \in lo .. hi : hi - x < k => f[x] = B(f, x)
           T == {k \in Nat : \E f : Fits(f, k)}
<1>1. 0 \in T
  <2> DEFINE f == [x \in lo .. hi |-> <<>>]
  <2>1. \A x \in lo .. hi : ~ (hi - x < 0)
    OBVIOUS
  <2>2. Fits(f, 0)
    <3> HIDE DEF B
    <3> QED
      BY <2>1
  <2> QED
    <3> HIDE DEF Fits, f
    <3> QED
      BY <2>2
<1>2. ASSUME NEW k \in Nat, k \in T PROVE k + 1 \in T
  <2>1. PICK f : Fits(f, k)
    BY <1>2
  <2> DEFINE g == [x \in lo .. hi |-> B(f, x)]
  <2>2. \A x \in lo .. hi : hi - x < k => g[x] = f[x]
    <3> HIDE DEF B
    <3> QED
      BY <2>1
  <2>3. ASSUME NEW x \in lo .. hi, hi - x < k + 1 PROVE g[x] = B(g, x)
    <3>1. CASE x \in D
      <4>1. nx[x] \in lo .. hi /\ hi - nx[x] < k
        BY <2>3, <3>1
      <4>2. g[nx[x]] = f[nx[x]]
        BY <2>2, <4>1
      <4> QED
        BY <3>1, <4>2
    <3>2. CASE x \notin D
      BY <3>2
    <3> QED
      BY <3>1, <3>2
  <2>4. Fits(g, k + 1)
    <3> HIDE DEF B
    <3> QED
      BY <2>3
  <2> QED
    <3> HIDE DEF Fits, g
    <3> QED
      BY <2>4
<1>3. (hi - lo) + 1 \in T
  <2>1. (hi - lo) + 1 \in Nat
    OBVIOUS
  <2> HIDE DEF T
  <2> QED
    BY <1>1, <1>2, <2>1, NaturalsBySuccessor
<1>4. PICK f : Fits(f, (hi - lo) + 1)
  BY <1>3
<1>5. f = [x \in lo .. hi |-> B(f, x)]
  <2>1. \A x \in lo .. hi : hi - x < (hi - lo) + 1
    OBVIOUS
  <2> HIDE DEF B
  <2> QED
    BY <1>4, <2>1
<1> QED
  BY <1>5 DEF Chained

(* The next overlap of a range r with the map m, from the address x on. *)
NextIs(o, m, r, x) ==
  IF o = None THEN \A c \in Cover(m.root) : ~ (x <= c /\ c < End(r))
  ELSE /\ o \in Segment /\ x <= o.base /\ End(o) <= End(r)
       /\ Cells(o) \subseteq Cover(m.root)
       /\ \A c \in Cover(m.root) : x <= c /\ c < End(r) => o.base <= c
       /\ End(o) = End(r) \/ End(o) \notin Cover(m.root)

LEMMA CoverNat == ASSUME NEW t, BST(t) PROVE Cover(t) \subseteq Nat
<1>1. Els(t) \subseteq Segment
  BY TreeFacts DEF BST
<1>2. ASSUME NEW e \in Segment, NEW c \in Cells(e) PROVE c \in Nat
  <2>1. c \in Int /\ e.base <= c /\ e.base \in Nat
    BY CellsAre, SegmentFacts
  <2> QED
    BY <2>1
<1> QED
  BY <1>1, <1>2, CoverIs

LEMMA NextFacts ==
  ASSUME NEW m, BST(m.root), NEW r \in Segment, NEW x \in r.base .. End(r)
  PROVE  NextIs(NextOverlap(m, r, x), m, r, x)
<1> DEFINE o == NextOverlap(m, r, x)
           q == MemRange(x, End(r) - x)
<1>1. /\ r.base \in Nat /\ End(r) \in Nat /\ r.base < End(r) /\ End(r) <= MaxAddr + 1
      /\ x \in Nat /\ r.base <= x /\ x <= End(r)
  BY SegmentFacts
<1>2. Cover(m.root) \subseteq Nat
  BY CoverNat
<1>3. CASE x = End(r)
  <2>1. o = None
    BY <1>3 DEF NextOverlap
  <2> QED
    BY <1>1, <1>2, <1>3, <2>1 DEF NextIs
<1>4. CASE x # End(r)
  <2>1. o = SubtreeOverlaps[m.root][q]
    BY <1>4 DEF NextOverlap, MapOverlaps
  <2>2. x \in Int /\ End(r) \in Int /\ 0 <= x /\ x < End(r)
    BY <1>1, <1>4
  <2>3. q \in Segment /\ q.base = x /\ End(q) = End(r)
    BY <1>1, <2>2, SegmentOf
  <2> HIDE DEF q
  <2>4. Hit(o, m.root, q)
    BY <2>1, <2>3, OverlapHits
  <2> HIDE DEF o
  <2>5. \A c \in Cover(m.root) : c \in Cells(q) <=> x <= c /\ c < End(r)
    BY <1>2, <2>3, CellsAre
  <2>6. CASE o = None
    <3>1. Cells(q) \cap Cover(m.root) = {}
      BY <2>4, <2>6 DEF Hit
    <3> QED
      BY <2>5, <2>6, <3>1 DEF NextIs, o
  <2>7. CASE o # None
    <3>1. /\ o \in Segment /\ q.base <= o.base /\ End(o) <= End(q)
          /\ Cells(o) \subseteq Cells(q) \cap Cover(m.root)
          /\ \A c \in Cells(q) \cap Cover(m.root) : o.base <= c
          /\ End(o) = End(q) \/ End(o) \notin Cover(m.root)
      BY <2>4, <2>7 DEF Hit
    <3> QED
      BY <2>3, <2>5, <2>7, <3>1 DEF NextIs, o
  <2> QED
    BY <2>6, <2>7
<1> QED
  BY <1>3, <1>4

LEMMA NextGrows ==
  ASSUME NEW m, BST(m.root), NEW r \in Segment, NEW x \in r.base .. End(r),
         NextOverlap(m, r, x) # None
  PROVE  End(NextOverlap(m, r, x)) \in r.base .. End(r) /\ x < End(NextOverlap(m, r, x))
<1> DEFINE o == NextOverlap(m, r, x)
<1>1. NextIs(o, m, r, x)
  BY NextFacts
<1> HIDE DEF o
<1>2. o # None
  BY DEF o
<1>3. o \in Segment /\ x <= o.base /\ End(o) <= End(r)
  BY <1>1, <1>2 DEF NextIs
<1>4. /\ r.base \in Nat /\ End(r) \in Nat
      /\ o.base \in Nat /\ End(o) \in Nat /\ o.base < End(o)
  BY <1>3, SegmentFacts
<1>5. End(o) \in r.base .. End(r) /\ x < End(o)
  BY <1>3, <1>4
<1> QED
  BY <1>5 DEF o

InsideSteps(f, m, r) ==
  f = [x \in r.base .. End(r) |->
        LET o == NextOverlap(m, r, x) IN IF o = None THEN <<>> ELSE <<o>> \o f[End(o)]]
OutsideSteps(f, m, r) ==
  f = [x \in r.base .. End(r) |->
        LET o == NextOverlap(m, r, x)
        IN  IF o = None THEN Part(x, End(r)) ELSE Part(x, o.base) \o f[End(o)]]

LEMMA InsideEq ==
  ASSUME NEW m, BST(m.root), NEW r \in Segment
  PROVE  \E f : InsideSteps(f, m, r) /\ Inside(m, r) = f[r.base]
<1> DEFINE lo == r.base
           hi == End(r)
           O(x) == NextOverlap(m, r, x)
           D == {x \in lo .. hi : O(x) # None}
           nx == [x \in lo .. hi |-> End(O(x))]
           pre == [x \in lo .. hi |-> <<O(x)>>]
           last == [x \in lo .. hi |-> <<>>]
<1>1. lo \in Nat /\ hi \in Nat /\ lo <= hi
  BY SegmentFacts
<1>2. \A x \in D \cap (lo .. hi) : nx[x] \in lo .. hi /\ x < nx[x]
  BY NextGrows
<1>3. PICK f : Chained(f, lo, hi, D, nx, pre, last)
  <2> HIDE DEF lo, hi, D, nx, pre, last
  <2> QED
    BY <1>1, <1>2, ChainExists
<1>4. InsideSteps(f, m, r)
  <2> HIDE DEF O
  <2>1. f = [x \in lo .. hi |-> IF O(x) = None THEN <<>> ELSE <<O(x)>> \o f[End(O(x))]]
    BY <1>3 DEF Chained
  <2> QED
    BY <2>1 DEF InsideSteps, O
<1>5. Inside(m, r) = (CHOOSE g : InsideSteps(g, m, r))[r.base]
  BY DEF Inside, InsideSteps
<1> QED
  BY <1>4, <1>5

LEMMA OutsideEq ==
  ASSUME NEW m, BST(m.root), NEW r \in Segment
  PROVE  \E f : OutsideSteps(f, m, r) /\ Outside(m, r) = f[r.base]
<1> DEFINE lo == r.base
           hi == End(r)
           O(x) == NextOverlap(m, r, x)
           D == {x \in lo .. hi : O(x) # None}
           nx == [x \in lo .. hi |-> End(O(x))]
           pre == [x \in lo .. hi |-> Part(x, O(x).base)]
           last == [x \in lo .. hi |-> Part(x, hi)]
<1>1. lo \in Nat /\ hi \in Nat /\ lo <= hi
  BY SegmentFacts
<1>2. \A x \in D \cap (lo .. hi) : nx[x] \in lo .. hi /\ x < nx[x]
  BY NextGrows
<1>3. PICK f : Chained(f, lo, hi, D, nx, pre, last)
  <2> HIDE DEF lo, hi, D, nx, pre, last
  <2> QED
    BY <1>1, <1>2, ChainExists
<1>4. OutsideSteps(f, m, r)
  <2> HIDE DEF O
  <2>1. f = [x \in lo .. hi |-> IF O(x) = None THEN Part(x, hi)
                                ELSE Part(x, O(x).base) \o f[End(O(x))]]
    BY <1>3 DEF Chained
  <2> QED
    BY <2>1 DEF OutsideSteps, O
<1>5. Outside(m, r) = (CHOOSE g : OutsideSteps(g, m, r))[r.base]
  BY DEF Outside, OutsideSteps
<1> QED
  BY <1>4, <1>5

SeqCover(s) == UNION {Cells(e) : e \in ToSet(s)}

LEMMA SeqCoverIs == \A s, c : c \in SeqCover(s) <=> \E e \in ToSet(s) : c \in Cells(e)
BY DEF SeqCover

(* s cuts the addresses of C between x and h into ranges, in order. *)
Pieces(s, x, h, C) ==
  /\ s \in Seq(Segment) /\ Sep(s)
  /\ \A e \in ToSet(s) : x <= e.base /\ End(e) <= h
  /\ \A c : c \in SeqCover(s) <=> c \in Nat /\ x <= c /\ c < h /\ c \in C

LEMMA NoPiece ==
  ASSUME NEW x \in Nat, NEW h \in Nat, NEW C, \A c \in Nat : x <= c /\ c < h => c \notin C
  PROVE  Pieces(<<>>, x, h, C)
BY NoRange, SeqCoverIs DEF Pieces

(* Ranges from x to y and pieces from y on. *)
LEMMA JoinPieces ==
  ASSUME NEW s, NEW u, NEW x \in Nat, NEW y \in Nat, NEW z \in Nat, NEW h \in Nat, NEW C,
         x <= y, y <= z, z <= h, Pieces(s, x, y, C), Pieces(u, z, h, C),
         \A c \in Nat : y <= c /\ c < z => c \notin C,
         \A e \in ToSet(s), f \in ToSet(u) : End(e) < f.base
  PROVE  Pieces(s \o u, x, h, C)
<1>1. /\ s \in Seq(Segment) /\ Sep(s)
      /\ \A e \in ToSet(s) : x <= e.base /\ End(e) <= y
      /\ \A c : c \in SeqCover(s) <=> c \in Nat /\ x <= c /\ c < y /\ c \in C
  BY DEF Pieces
<1>2. /\ u \in Seq(Segment) /\ Sep(u)
      /\ \A e \in ToSet(u) : z <= e.base /\ End(e) <= h
      /\ \A c : c \in SeqCover(u) <=> c \in Nat /\ z <= c /\ c < h /\ c \in C
  BY DEF Pieces
<1> DEFINE w == s \o u
<1>3. w \in Seq(Segment) /\ ToSet(w) = ToSet(s) \cup ToSet(u) /\ Sep(w)
  BY <1>1, <1>2, ConcatFacts
<1> HIDE DEF w
<1>4. \A e \in ToSet(s) \cup ToSet(u) : e.base \in Nat /\ End(e) \in Nat
  <2>1. ToSet(s) \subseteq Segment /\ ToSet(u) \subseteq Segment
    BY <1>1, <1>2 DEF ToSet
  <2> QED
    BY <2>1, SegmentFacts
<1>5. \A e \in ToSet(w) : x <= e.base /\ End(e) <= h
  BY <1>1, <1>2, <1>3, <1>4
<1>6. \A c : c \in SeqCover(w) <=> c \in SeqCover(s) \/ c \in SeqCover(u)
  BY <1>3, SeqCoverIs
<1>7. \A c : c \in SeqCover(w) <=> c \in Nat /\ x <= c /\ c < h /\ c \in C
  BY <1>1, <1>2, <1>6
<1>8. Pieces(w, x, h, C)
  BY <1>3, <1>5, <1>7 DEF Pieces
<1> QED
  BY <1>8 DEF w

LEMMA OnePiece ==
  ASSUME NEW o \in Segment, NEW x \in Nat, NEW C, x <= o.base,
         \A c \in Nat : x <= c /\ c < o.base => c \notin C,
         \A c \in Cells(o) : c \in C
  PROVE  Pieces(<<o>>, x, End(o), C)
<1>1. <<o>> \in Seq(Segment) /\ ToSet(<<o>>) = {o} /\ Sep(<<o>>)
  BY OneRange
<1>2. o.base \in Nat /\ End(o) \in Nat
  BY SegmentFacts
<1> DEFINE s == <<o>>
<1> HIDE DEF s
<1>3. \A c : c \in SeqCover(s) <=> c \in Cells(o)
  BY <1>1, SeqCoverIs DEF s
<1>4. \A c : c \in Cells(o) <=> c \in Nat /\ x <= c /\ c < End(o) /\ c \in C
  BY <1>2, CellsAre
<1>5. Pieces(s, x, End(o), C)
  BY <1>1, <1>2, <1>3, <1>4 DEF Pieces, s
<1> QED
  BY <1>5 DEF s

(* The parts of a range inside a map. *)
LEMMA InsideFacts ==
  ASSUME NEW m, BST(m.root), NEW r \in Segment
  PROVE  Pieces(Inside(m, r), r.base, End(r), Cover(m.root))
<1> DEFINE lo == r.base
           hi == End(r)
           C == Cover(m.root)
<1>1. lo \in Nat /\ hi \in Nat /\ lo <= hi
  BY SegmentFacts
<1>2. PICK f : InsideSteps(f, m, r) /\ Inside(m, r) = f[lo]
  BY InsideEq
<1> DEFINE T == {k \in Nat : \A x \in lo .. hi : hi - x < k => Pieces(f[x], x, hi, C)}
<1>3. 0 \in T
  BY <1>1
<1>4. ASSUME NEW k \in Nat, k \in T PROVE k + 1 \in T
  <2> SUFFICES ASSUME NEW x \in lo .. hi, hi - x < k + 1 PROVE Pieces(f[x], x, hi, C)
    OBVIOUS
  <2> DEFINE o == NextOverlap(m, r, x)
  <2>1. f[x] = IF o = None THEN <<>> ELSE <<o>> \o f[End(o)]
    BY <1>2 DEF InsideSteps
  <2>2. NextIs(o, m, r, x)
    BY NextFacts
  <2>3. x \in Nat /\ lo <= x /\ x <= hi
    BY <1>1
  <2> HIDE DEF o, lo, hi, C
  <2>4. CASE o = None
    <3>1. \A c \in Nat : x <= c /\ c < hi => c \notin C
      BY <2>2, <2>4 DEF NextIs, hi, C
    <3> QED
      BY <1>1, <2>1, <2>3, <2>4, <3>1, NoPiece
  <2>5. CASE o # None
    <3>1. /\ o \in Segment /\ x <= o.base /\ End(o) <= hi
          /\ Cells(o) \subseteq C
          /\ \A c \in C : x <= c /\ c < hi => o.base <= c
          /\ End(o) = hi \/ End(o) \notin C
      BY <2>2, <2>5 DEF NextIs, hi, C
    <3>2. o.base \in Nat /\ End(o) \in Nat /\ o.base < End(o)
      BY <3>1, SegmentFacts
    <3> DEFINE y == End(o)
               s == f[y]
    <3>3. Pieces(s, y, hi, C)
      <4>1. y \in lo .. hi /\ hi - y < k
        BY <1>1, <2>3, <3>1, <3>2
      <4> QED
        BY <1>4, <4>1
    <3>4. Pieces(<<o>>, x, y, C)
      <4>1. \A c \in Nat : x <= c /\ c < o.base => c \notin C
        BY <1>1, <3>1, <3>2
      <4> QED
        BY <2>3, <3>1, <4>1, OnePiece
    <3> HIDE DEF s
    <3>5. ASSUME NEW e \in ToSet(s) PROVE End(o) < e.base
      <4>1. /\ s \in Seq(Segment)
            /\ y <= e.base /\ End(e) <= hi
            /\ \A c : c \in SeqCover(s) => c \in C
        BY <3>3, <3>5 DEF Pieces
      <4>2. e \in Segment
        BY <3>5, <4>1 DEF ToSet
      <4>3. e.base \in Nat /\ End(e) \in Nat /\ e.base < End(e)
        BY <4>2, SegmentFacts
      <4>4. e.base \in Cells(e)
        BY <4>2, <4>3, CellsAre
      <4>5. e.base \in C
        BY <3>5, <4>1, <4>4, SeqCoverIs
      <4> QED
        BY <1>1, <3>1, <3>2, <4>1, <4>3, <4>5
    <3>6. \A e \in ToSet(<<o>>), g \in ToSet(s) : End(e) < g.base
      BY <3>1, <3>5, OneRange
    <3>7. Pieces(<<o>> \o s, x, hi, C)
      <4>1. /\ y \in Nat /\ x <= y /\ y <= y /\ y <= hi
            /\ \A c \in Nat : y <= c /\ c < y => c \notin C
        BY <2>3, <3>1, <3>2
      <4> HIDE DEF y
      <4> QED
        BY <1>1, <2>3, <3>3, <3>4, <3>6, <4>1, JoinPieces
    <3> QED
      BY <2>1, <2>5, <3>7 DEF s
  <2> QED
    BY <2>4, <2>5
<1>5. (hi - lo) + 1 \in T
  <2>1. (hi - lo) + 1 \in Nat
    BY <1>1
  <2> HIDE DEF T
  <2> QED
    BY <1>3, <1>4, <2>1, NaturalsBySuccessor
<1>6. lo \in lo .. hi /\ hi - lo < (hi - lo) + 1
  BY <1>1
<1> QED
  BY <1>2, <1>5, <1>6

LEMMA PartFacts ==
  ASSUME NEW x \in Nat, NEW y \in Nat, x <= y, y <= MaxAddr + 1, NEW C,
         \A c \in Nat : x <= c /\ c < y => c \in C
  PROVE  Pieces(Part(x, y), x, y, C)
<1>1. CASE x < y
  <2> DEFINE o == MemRange(x, y - x)
  <2>1. Part(x, y) = <<o>>
    BY <1>1 DEF Part
  <2>2. o \in Segment /\ o.base = x /\ End(o) = y
    BY <1>1, SegmentOf
  <2> HIDE DEF o
  <2>3. \A c \in Cells(o) : c \in C
    BY <2>2, CellsAre
  <2>4. \A c \in Nat : x <= c /\ c < o.base => c \notin C
    BY <2>2
  <2>5. x <= o.base
    BY <2>2
  <2> QED
    BY <2>1, <2>2, <2>3, <2>4, <2>5, OnePiece
<1>2. CASE ~ (x < y)
  <2>1. Part(x, y) = <<>>
    BY <1>2 DEF Part
  <2>2. \A c \in Nat : x <= c /\ c < y => c \notin C
    BY <1>2
  <2> QED
    BY <2>1, <2>2, NoPiece
<1> QED
  BY <1>1, <1>2

(* The parts of a range outside a map. *)
LEMMA OutsideFacts ==
  ASSUME NEW m, BST(m.root), NEW r \in Segment
  PROVE  Pieces(Outside(m, r), r.base, End(r), Nat \ Cover(m.root))
<1> DEFINE lo == r.base
           hi == End(r)
           C == Nat \ Cover(m.root)
<1>1. lo \in Nat /\ hi \in Nat /\ lo <= hi /\ hi <= MaxAddr + 1
  BY SegmentFacts
<1>2. PICK f : OutsideSteps(f, m, r) /\ Outside(m, r) = f[lo]
  BY OutsideEq
<1> DEFINE T == {k \in Nat : \A x \in lo .. hi : hi - x < k => Pieces(f[x], x, hi, C)}
<1>3. 0 \in T
  BY <1>1
<1>4. ASSUME NEW k \in Nat, k \in T PROVE k + 1 \in T
  <2> SUFFICES ASSUME NEW x \in lo .. hi, hi - x < k + 1 PROVE Pieces(f[x], x, hi, C)
    OBVIOUS
  <2> DEFINE o == NextOverlap(m, r, x)
  <2>1. f[x] = IF o = None THEN Part(x, hi) ELSE Part(x, o.base) \o f[End(o)]
    BY <1>2 DEF OutsideSteps
  <2>2. NextIs(o, m, r, x)
    BY NextFacts
  <2>3. x \in Nat /\ lo <= x /\ x <= hi
    BY <1>1
  <2> HIDE DEF o, lo, hi, C
  <2>4. CASE o = None
    <3>1. \A c \in Nat : x <= c /\ c < hi => c \in C
      BY <2>2, <2>4 DEF NextIs, hi, C
    <3> QED
      BY <1>1, <2>1, <2>3, <2>4, <3>1, PartFacts
  <2>5. CASE o # None
    <3>1. /\ o \in Segment /\ x <= o.base /\ End(o) <= hi
          /\ \A c \in Cells(o) : c \notin C
          /\ \A c \in Nat : x <= c /\ c < hi /\ c \notin C => o.base <= c
      BY <2>2, <2>5 DEF NextIs, hi, C
    <3>2. o.base \in Nat /\ End(o) \in Nat /\ o.base < End(o)
      BY <3>1, SegmentFacts
    <3> DEFINE y == o.base
               z == End(o)
               p == Part(x, y)
               s == f[z]
    <3>3. Pieces(s, z, hi, C)
      <4>1. z \in lo .. hi /\ hi - z < k
        BY <1>1, <2>3, <3>1, <3>2
      <4> QED
        BY <1>4, <4>1
    <3>4. Pieces(p, x, y, C)
      <4>1. \A c \in Nat : x <= c /\ c < y => c \in C
        BY <1>1, <3>1, <3>2
      <4>2. y \in Nat /\ x <= y /\ y <= MaxAddr + 1
        BY <3>1, <3>2, SegmentFacts, DepthNat
      <4> HIDE DEF y
      <4> QED
        BY <2>3, <4>1, <4>2, PartFacts
    <3>5. \A c \in Nat : y <= c /\ c < z => c \notin C
      BY <3>1, <3>2, CellsAre
    <3> HIDE DEF s, p
    <3>6. ASSUME NEW e \in ToSet(p), NEW g \in ToSet(s) PROVE End(e) < g.base
      <4>1. /\ p \in Seq(Segment) /\ End(e) <= y
            /\ s \in Seq(Segment) /\ z <= g.base
        BY <3>3, <3>4 DEF Pieces
      <4>2. e \in Segment /\ g \in Segment
        BY <4>1 DEF ToSet
      <4>3. End(e) \in Nat /\ g.base \in Nat
        BY <4>2, SegmentFacts
      <4> QED
        BY <3>2, <4>1, <4>3
    <3>7. Pieces(p \o s, x, hi, C)
      <4>1. y \in Nat /\ z \in Nat /\ x <= y /\ y <= z /\ z <= hi
        BY <3>1, <3>2
      <4> HIDE DEF y, z
      <4> QED
        BY <1>1, <2>3, <3>3, <3>4, <3>5, <3>6, <4>1, JoinPieces
    <3> QED
      BY <2>1, <2>5, <3>7 DEF p, s
  <2> QED
    BY <2>4, <2>5
<1>5. (hi - lo) + 1 \in T
  <2>1. (hi - lo) + 1 \in Nat
    BY <1>1
  <2> HIDE DEF T
  <2> QED
    BY <1>3, <1>4, <2>1, NaturalsBySuccessor
<1>6. lo \in lo .. hi /\ hi - lo < (hi - lo) + 1
  BY <1>1
<1> QED
  BY <1>2, <1>5, <1>6

LEMMA EmptyFacts == MapOK(Empty) /\ Cover(Empty.root) = {} /\ ToArray(Empty) = <<>> /\ Els(Empty.root) = {}
<1>1. Empty.root = Nil /\ Empty.size = 0 /\ Empty \in [root : Tree, size : Nat]
  BY InTree DEF Empty
<1> QED
  BY <1>1, NilFacts DEF MapOK, Cover, ToArray

LEMMA MapFacts ==
  ASSUME NEW m, MapOK(m)
  PROVE  /\ ToArray(m) \in Seq(Segment) /\ Sep(ToArray(m)) /\ Len(ToArray(m)) = m.size
         /\ ToSet(ToArray(m)) = Els(m.root) /\ Covered(m) = Cover(m.root)
         /\ SeqCover(ToArray(m)) = Cover(m.root) /\ BST(m.root)
BY TreeFacts DEF MapOK, BST, ToArray, Count, Els, Covered, Cover, SeqCover

(* The loops of map_intersect and map_subtract over the ranges of a map:   *)
(* P[i] are the parts of the i-th range that are added to the result.      *)
GatherSteps(f, N, P) == f = [i \in 0 .. N |-> IF i = 0 THEN Empty ELSE AddAll(f[i - 1], P[i])]

LEMMA GatherExists ==
  ASSUME NEW N \in Nat, NEW P, \A i \in 1 .. N : P[i] \in Seq(Segment)
  PROVE  \E f : GatherSteps(f, N, P)
<1> DEFINE St == [i \in 1 .. N |-> [x \in Maps |-> AddAll(x, P[i])]]
<1>1. ASSUME NEW i \in 1 .. N, NEW x \in Maps PROVE AddAll(x, P[i]) \in Maps
  BY AddAllFacts, MapsAre
<1>2. St \in [1 .. N -> [Maps -> Maps]]
  BY <1>1
<1>3. Empty \in Maps
  BY EmptyFacts, MapsAre
<1>4. PICK f : Iterated(f, N, Maps, Empty, St)
  <2> HIDE DEF St
  <2> QED
    BY <1>2, <1>3, Iterates
<1>5. /\ f \in [0 .. N -> Maps] /\ f[0] = Empty
      /\ \A i \in 1 .. N : f[i] = St[i][f[i - 1]]
  <2> HIDE DEF St
  <2> QED
    BY <1>4 DEF Iterated
<1>6. ASSUME NEW i \in 0 .. N PROVE f[i] = IF i = 0 THEN Empty ELSE AddAll(f[i - 1], P[i])
  <2>1. CASE i = 0
    BY <1>5, <2>1
  <2>2. CASE i # 0
    <3>1. i \in 1 .. N /\ i - 1 \in 0 .. N
      BY <2>2
    <3>2. f[i - 1] \in Maps
      BY <1>5, <3>1
    <3> QED
      BY <1>5, <2>2, <3>1, <3>2
  <2> QED
    BY <2>1, <2>2
<1> HIDE DEF St
<1> QED
  BY <1>5, <1>6 DEF GatherSteps

LEMMA GatherFacts ==
  ASSUME NEW A \in Seq(Segment), Sep(A), NEW P, NEW C,
         \A i \in 1 .. Len(A) : Pieces(P[i], A[i].base, End(A[i]), C),
         NEW f, GatherSteps(f, Len(A), P)
  PROVE  MapOK(f[Len(A)]) /\ Cover(f[Len(A)].root) = SeqCover(A) \cap C
<1> DEFINE N == Len(A)
           Ok(m, i) == /\ MapOK(m)
                       /\ \A e \in Els(m.root) : \E j \in 1 .. i : End(e) <= End(A[j])
                       /\ \A c : c \in Cover(m.root) <=> c \in C /\ \E j \in 1 .. i : c \in Cells(A[j])
           T == {i \in Nat : i <= N => Ok(f[i], i)}
<1>1. N \in Nat /\ \A i \in 1 .. N : A[i] \in Segment
  OBVIOUS
<1>2. /\ f[0] = Empty
      /\ \A i \in 1 .. N : f[i] = AddAll(f[i - 1], P[i])
  BY <1>1 DEF GatherSteps
<1>3. 0 \in T
  BY <1>2, EmptyFacts
<1>4. ASSUME NEW k \in Nat, k \in T PROVE k + 1 \in T
  <2> SUFFICES ASSUME k + 1 <= N PROVE Ok(f[k + 1], k + 1)
    OBVIOUS
  <2> DEFINE m == f[k]
             s == P[k + 1]
             r == A[k + 1]
             m2 == f[k + 1]
  <2>1. k + 1 \in 1 .. N /\ (k + 1) - 1 = k /\ k <= N
    BY <1>1
  <2>2. /\ MapOK(m)
        /\ \A e \in Els(m.root) : \E j \in 1 .. k : End(e) <= End(A[j])
        /\ \A c : c \in Cover(m.root) <=> c \in C /\ \E j \in 1 .. k : c \in Cells(A[j])
    BY <1>4, <2>1
  <2>3. m2 = AddAll(m, s)
    BY <1>2, <2>1
  <2>4. Pieces(s, r.base, End(r), C) /\ r \in Segment
    BY <1>1, <2>1
  <2>5. \A j \in 1 .. k : End(A[j]) < r.base /\ End(A[j]) \in Nat
    BY <1>1, <2>1, SegmentFacts DEF Sep
  <2>6. \A j \in 1 .. k + 1 : j \in 1 .. k \/ j = k + 1
    OBVIOUS
  <2> HIDE DEF m, s, m2
  <2>7. /\ s \in Seq(Segment) /\ Sep(s)
        /\ \A e \in ToSet(s) : r.base <= e.base /\ End(e) <= End(r)
        /\ \A c : c \in SeqCover(s) <=> c \in Nat /\ r.base <= c /\ c < End(r) /\ c \in C
    BY <2>4 DEF Pieces
  <2>8. /\ ToArray(m) \in Seq(Segment) /\ Sep(ToArray(m)) /\ ToSet(ToArray(m)) = Els(m.root)
    BY <2>2, MapFacts
  <2>9. ASSUME NEW e \in Els(m.root), NEW g \in ToSet(s) PROVE End(e) < g.base
    <3>1. e \in Segment /\ g \in Segment
      BY <2>7, <2>8 DEF ToSet
    <3>2. PICK j \in 1 .. k : End(e) <= End(A[j])
      BY <2>2
    <3>3. /\ End(e) \in Nat /\ g.base \in Nat /\ r.base \in Nat
          /\ End(A[j]) \in Nat /\ End(A[j]) < r.base /\ r.base <= g.base
      BY <2>4, <2>5, <2>7, <3>1, SegmentFacts
    <3> QED
      BY <3>2, <3>3
  <2>10. Sep(ToArray(m) \o s) /\ ToSet(ToArray(m) \o s) = Els(m.root) \cup ToSet(s)
    BY <2>7, <2>8, <2>9, ConcatFacts
  <2>11. MapOK(m2) /\ ToArray(m2) = ToArray(m) \o s
    BY <2>2, <2>3, <2>7, <2>10, AddAllFacts
  <2>12. Els(m2.root) = Els(m.root) \cup ToSet(s)
    BY <2>10, <2>11, MapFacts
  <2>13. \A e \in Els(m2.root) : \E j \in 1 .. k + 1 : End(e) <= End(A[j])
    <3> SUFFICES ASSUME NEW e \in Els(m2.root) PROVE \E j \in 1 .. k + 1 : End(e) <= End(A[j])
      OBVIOUS
    <3>1. CASE e \in Els(m.root)
      <4>1. PICK j \in 1 .. k : End(e) <= End(A[j])
        BY <2>2, <3>1
      <4>2. j \in 1 .. k + 1
        OBVIOUS
      <4> QED
        BY <4>1, <4>2
    <3>2. CASE e \in ToSet(s)
      <4>1. End(e) <= End(A[k + 1]) /\ k + 1 \in 1 .. k + 1
        BY <2>7, <3>2
      <4> QED
        BY <4>1
    <3> QED
      BY <2>12, <3>1, <3>2
  <2>14. \A c : c \in SeqCover(s) <=> c \in C /\ c \in Cells(A[k + 1])
    <3>1. r.base \in Nat /\ End(r) \in Nat
      BY <2>4, SegmentFacts
    <3> QED
      BY <2>4, <2>7, <3>1, CellsAre
  <2>15. \A c : c \in Cover(m2.root) <=> c \in Cover(m.root) \/ c \in SeqCover(s)
    BY <2>12, CoverIs, SeqCoverIs
  <2>16. ASSUME NEW c PROVE (\E j \in 1 .. k + 1 : c \in Cells(A[j])) <=>
                            (\E j \in 1 .. k : c \in Cells(A[j])) \/ c \in Cells(A[k + 1])
    <3>1. \A j \in 1 .. k : j \in 1 .. k + 1
      OBVIOUS
    <3>2. k + 1 \in 1 .. k + 1
      OBVIOUS
    <3> HIDE DEF r
    <3> QED
      BY <2>6, <3>1, <3>2, Zenon
  <2>17. \A c : c \in Cover(m2.root) <=> c \in C /\ \E j \in 1 .. k + 1 : c \in Cells(A[j])
    BY <2>2, <2>14, <2>15, <2>16, Zenon
  <2> QED
    BY <2>11, <2>13, <2>17 DEF m2
<1>5. N \in T
  <2> HIDE DEF T
  <2> QED
    BY <1>1, <1>3, <1>4, NaturalsBySuccessor
<1>6. Ok(f[N], N)
  BY <1>1, <1>5
<1>7. \A c : c \in SeqCover(A) <=> \E j \in 1 .. N : c \in Cells(A[j])
  <2>1. ToSet(A) = {A[j] : j \in 1 .. N}
    BY DEF ToSet
  <2> QED
    BY <2>1 DEF SeqCover
<1> QED
  BY <1>6, <1>7

LEMMA UnionFactsOfMaps ==
  ASSUME NEW m, MapOK(m), NEW ref, MapOK(ref)
  PROVE  MapOK(MapUnion(m, ref))
BY MapFacts, AddAllFacts DEF MapUnion

LEMMA CloneFacts ==
  ASSUME NEW m, MapOK(m)
  PROVE  MapOK(MapClone(m)) /\ ToArray(MapClone(m)) = ToArray(m)
<1> DEFINE s == ToArray(m)
<1>1. s \in Seq(Segment) /\ Sep(s)
  BY MapFacts
<1>2. MapClone(m) = AddAll(Empty, s)
  BY DEF MapClone, MapUnion
<1> HIDE DEF s
<1>3. ToArray(Empty) \o s = s
  BY <1>1, EmptyFacts, ConcatFacts
<1>4. MapOK(AddAll(Empty, s)) /\ ToArray(AddAll(Empty, s)) = s
  BY <1>1, <1>3, EmptyFacts, AddAllFacts
<1> QED
  BY <1>2, <1>4 DEF s

IntersectSteps(f, m, ref) ==
  f = [i \in 0 .. m.size |->
        IF i = 0 THEN Empty ELSE AddAll(f[i - 1], Inside(ref, ToArray(m)[i]))]
SubtractSteps(f, m, copy) ==
  f = [i \in 0 .. m.size |->
        IF i = 0 THEN Empty ELSE AddAll(f[i - 1], Outside(copy, ToArray(m)[i]))]

LEMMA IntersectFacts ==
  ASSUME NEW m, MapOK(m), NEW ref, MapOK(ref)
  PROVE  /\ MapOK(MapIntersect(m, ref))
         /\ Cover(MapIntersect(m, ref).root) = Cover(m.root) \cap Cover(ref.root)
<1> DEFINE A == ToArray(m)
           C == Cover(ref.root)
           P == [i \in 1 .. m.size |-> Inside(ref, A[i])]
<1>1. /\ A \in Seq(Segment) /\ Sep(A) /\ Len(A) = m.size /\ SeqCover(A) = Cover(m.root)
      /\ m.size \in Nat /\ BST(ref.root)
  BY MapFacts DEF MapOK
<1>2. \A i \in 1 .. m.size : A[i] \in Segment
  BY <1>1
<1>3. \A i \in 1 .. m.size : Pieces(P[i], A[i].base, End(A[i]), C)
  <2> HIDE DEF A, C
  <2> QED
    BY <1>1, <1>2, InsideFacts DEF C
<1>4. \A f : IntersectSteps(f, m, ref) <=> GatherSteps(f, m.size, P)
  <2> SUFFICES ASSUME NEW f PROVE IntersectSteps(f, m, ref) <=> GatherSteps(f, m.size, P)
    OBVIOUS
  <2> DEFINE G(i) == IF i = 0 THEN Empty ELSE AddAll(f[i - 1], Inside(ref, A[i]))
             H(i) == IF i = 0 THEN Empty ELSE AddAll(f[i - 1], P[i])
  <2>1. \A i \in 0 .. m.size : i = 0 \/ P[i] = Inside(ref, A[i])
    BY <1>1
  <2> HIDE DEF P
  <2>2. \A i \in 0 .. m.size : G(i) = H(i)
    BY <2>1
  <2>3. IntersectSteps(f, m, ref) <=> f = [i \in 0 .. m.size |-> G(i)]
    BY DEF IntersectSteps
  <2>4. GatherSteps(f, m.size, P) <=> f = [i \in 0 .. m.size |-> H(i)]
    BY DEF GatherSteps
  <2> HIDE DEF G, H
  <2>5. [i \in 0 .. m.size |-> G(i)] = [i \in 0 .. m.size |-> H(i)]
    BY <2>2
  <2> QED
    BY <2>3, <2>4, <2>5
<1> HIDE DEF A, C, P
<1>5. \E f : GatherSteps(f, m.size, P)
  BY <1>1, <1>3, GatherExists DEF Pieces
<1> DEFINE out == CHOOSE f : IntersectSteps(f, m, ref)
<1>6. MapIntersect(m, ref) = out[m.size]
  BY DEF MapIntersect, IntersectSteps
<1>7. GatherSteps(out, m.size, P)
  BY <1>4, <1>5
<1> HIDE DEF out
<1>8. MapOK(out[m.size]) /\ Cover(out[m.size].root) = SeqCover(A) \cap C
  <2>1. A \in Seq(Segment) /\ Sep(A) /\ Len(A) = m.size
    BY <1>1
  <2>2. \A i \in 1 .. Len(A) : Pieces(P[i], A[i].base, End(A[i]), C)
    BY <1>3, <2>1
  <2>3. GatherSteps(out, Len(A), P)
    BY <1>7, <2>1
  <2>4. MapOK(out[Len(A)]) /\ Cover(out[Len(A)].root) = SeqCover(A) \cap C
    BY <2>1, <2>2, <2>3, GatherFacts
  <2> QED
    BY <2>1, <2>4
<1> QED
  BY <1>1, <1>6, <1>8 DEF C

LEMMA SubtractFacts ==
  ASSUME NEW m, MapOK(m), NEW ref, MapOK(ref)
  PROVE  /\ MapOK(MapSubtract(m, ref))
         /\ Cover(MapSubtract(m, ref).root) = Cover(m.root) \ Cover(ref.root)
<1> DEFINE A == ToArray(m)
           copy == MapIntersect(MapClone(m), ref)
           C == Nat \ Cover(copy.root)
           P == [i \in 1 .. m.size |-> Outside(copy, A[i])]
<1>1. /\ A \in Seq(Segment) /\ Sep(A) /\ Len(A) = m.size /\ SeqCover(A) = Cover(m.root)
      /\ m.size \in Nat /\ BST(m.root)
  BY MapFacts DEF MapOK
<1>2. \A i \in 1 .. m.size : A[i] \in Segment
  BY <1>1
<1>3. MapOK(copy) /\ Cover(copy.root) = Cover(m.root) \cap Cover(ref.root)
  <2>1. MapOK(MapClone(m)) /\ ToArray(MapClone(m)) = ToArray(m)
    BY CloneFacts
  <2>2. Cover(MapClone(m).root) = Cover(m.root)
    BY <2>1, MapFacts
  <2> QED
    BY <2>1, <2>2, IntersectFacts
<1> HIDE DEF copy
<1>4. \A i \in 1 .. m.size : Pieces(P[i], A[i].base, End(A[i]), C)
  <2>1. BST(copy.root)
    BY <1>3 DEF MapOK
  <2> HIDE DEF A, C
  <2> QED
    BY <1>2, <2>1, OutsideFacts DEF C
<1>5. \A f : SubtractSteps(f, m, copy) <=> GatherSteps(f, m.size, P)
  <2> SUFFICES ASSUME NEW f PROVE SubtractSteps(f, m, copy) <=> GatherSteps(f, m.size, P)
    OBVIOUS
  <2> DEFINE G(i) == IF i = 0 THEN Empty ELSE AddAll(f[i - 1], Outside(copy, A[i]))
             H(i) == IF i = 0 THEN Empty ELSE AddAll(f[i - 1], P[i])
  <2>1. \A i \in 0 .. m.size : i = 0 \/ P[i] = Outside(copy, A[i])
    BY <1>1
  <2> HIDE DEF P
  <2>2. \A i \in 0 .. m.size : G(i) = H(i)
    BY <2>1
  <2>3. SubtractSteps(f, m, copy) <=> f = [i \in 0 .. m.size |-> G(i)]
    BY DEF SubtractSteps
  <2>4. GatherSteps(f, m.size, P) <=> f = [i \in 0 .. m.size |-> H(i)]
    BY DEF GatherSteps
  <2> HIDE DEF G, H
  <2>5. [i \in 0 .. m.size |-> G(i)] = [i \in 0 .. m.size |-> H(i)]
    BY <2>2
  <2> QED
    BY <2>3, <2>4, <2>5
<1> HIDE DEF A, C, P
<1>6. \E f : GatherSteps(f, m.size, P)
  BY <1>1, <1>4, GatherExists DEF Pieces
<1> DEFINE out == CHOOSE f : SubtractSteps(f, m, copy)
<1>7. MapSubtract(m, ref) = IF ref.root = Nil THEN m ELSE out[m.size]
  BY DEF MapSubtract, SubtractSteps, copy
<1>8. GatherSteps(out, m.size, P)
  BY <1>5, <1>6
<1> HIDE DEF out
<1>9. MapOK(out[m.size]) /\ Cover(out[m.size].root) = SeqCover(A) \cap C
  <2>1. A \in Seq(Segment) /\ Sep(A) /\ Len(A) = m.size
    BY <1>1
  <2>2. \A i \in 1 .. Len(A) : Pieces(P[i], A[i].base, End(A[i]), C)
    BY <1>4, <2>1
  <2>3. GatherSteps(out, Len(A), P)
    BY <1>8, <2>1
  <2>4. MapOK(out[Len(A)]) /\ Cover(out[Len(A)].root) = SeqCover(A) \cap C
    BY <2>1, <2>2, <2>3, GatherFacts
  <2> QED
    BY <2>1, <2>4
<1>10. SeqCover(A) \cap C = Cover(m.root) \ Cover(ref.root)
  <2>1. Cover(m.root) \subseteq Nat
    BY <1>1, CoverNat
  <2> QED
    BY <1>1, <1>3, <2>1 DEF C
<1>11. CASE ref.root = Nil
  <2>1. Cover(ref.root) = {}
    BY <1>11, NilFacts DEF Cover
  <2> QED
    BY <1>7, <1>11, <2>1
<1>12. CASE ref.root # Nil
  BY <1>7, <1>9, <1>10, <1>12
<1> QED
  BY <1>11, <1>12

-----------------------------------------------------------------------------
(***************************************************************************)
(* The two maps.                                                           *)
(***************************************************************************)
MapsOK == MapOK(a) /\ MapOK(b)

LEMMA SearchFacts ==
  ASSUME NEW m, MapOK(m), NEW x \in Addr
  PROVE  /\ InOrder[Splay[m.root][x]] = ToArray(m)
         /\ m.root # Nil => MapOK([m EXCEPT !.root = Splay[m.root][x]])
<1> DEFINE s == Splay[m.root][x]
<1>1. m \in [root : Tree, size : Nat] /\ BST(m.root) /\ m.size = Count(m.root) /\ m.root \in Tree
  BY DEF MapOK
<1>2. CASE m.root = Nil
  <2>1. s = Nil
    BY <1>2, SplayEq, InTree, ZenonT(40)
  <2> QED
    BY <1>2, <2>1 DEF ToArray
<1>3. CASE m.root # Nil
  <2>1. BST(s) /\ InOrder[s] = InOrder[m.root]
    BY <1>1, <1>3, SplayFacts
  <2> HIDE DEF s
  <2> DEFINE m2 == [m EXCEPT !.root = s]
  <2>2. m2.root = s /\ m2.size = m.size /\ s \in Tree /\ m2 \in [root : Tree, size : Nat]
    BY <1>1, <2>1 DEF BST
  <2> HIDE DEF m2
  <2>3. MapOK(m2)
    BY <1>1, <2>1, <2>2 DEF MapOK, Count
  <2> QED
    BY <2>1, <2>3 DEF m2, s, ToArray
<1> QED
  BY <1>2, <1>3

LEMMA RangesAreSegments == Ranges \subseteq Segment
BY DEF Ranges

LEMMA MapsOKInitially == Init => MapsOK
BY EmptyFacts DEF Init, MapsOK

LEMMA MapsOKPreserved == MapsOK /\ [Next]_vars => MapsOK'
<1> SUFFICES ASSUME MapsOK, [Next]_vars PROVE MapsOK'
  OBVIOUS
<1> USE DEF MapsOK
<1>1. ASSUME NEW r \in Ranges, Add(r) PROVE MapsOK'
  BY <1>1, AddRangeFacts, RangesAreSegments DEF Add, Added
<1>2. ASSUME NEW r \in Ranges, AddToOther(r) PROVE MapsOK'
  BY <1>2, AddRangeFacts, RangesAreSegments DEF AddToOther, Added
<1>3. ASSUME NEW x \in Addr, Search(x) PROVE MapsOK'
  BY <1>3, SearchFacts DEF Search
<1>4. ASSUME NEW x \in Addr, Unlink(x) PROVE MapsOK'
  <2>1. PICK r \in ToSet(ToArray(a)) : r.base = x
    BY <1>4 DEF Unlink
  <2>2. r \in Els(a.root)
    BY MapFacts
  <2>3. MapOK(RemoveNode(a, x))
    BY <2>1, <2>2, RemoveNodeFacts
  <2> QED
    BY <1>4, <2>3 DEF Unlink
<1>5. CASE Union
  BY <1>5, UnionFactsOfMaps DEF Union
<1>6. CASE Intersect
  BY <1>6, IntersectFacts DEF Intersect
<1>7. CASE Subtract
  BY <1>7, SubtractFacts DEF Subtract
<1>8. CASE Clear
  BY <1>8, EmptyFacts DEF Clear
<1>9. CASE ClearOther
  BY <1>9, EmptyFacts DEF ClearOther
<1>10. CASE UNCHANGED vars
  BY <1>10 DEF vars
<1> QED
  BY <1>1, <1>2, <1>3, <1>4, <1>5, <1>6, <1>7, <1>8, <1>9, <1>10 DEF Next

LEMMA MapsStayOK == Spec => []MapsOK
BY MapsOKInitially, MapsOKPreserved, PTL DEF Spec

(* However the operations of dtree.c are called, the trees stay search     *)
(* trees of ranges that neither overlap nor touch, and size counts their   *)
(* nodes.                                                                  *)
THEOREM TreesStayOrdered == Spec => []TreeOK
<1>1. MapsOK => TreeOK
  <2>1. ASSUME NEW m, MapOK(m) PROVE Ordered(m)
    BY <2>1, MapFacts DEF Ordered, Sep
  <2> QED
    BY <2>1 DEF MapsOK, TreeOK
<1> QED
  BY <1>1, MapsStayOK, PTL

(* map_add_range covers the range it is given, and no address that neither *)
(* the range nor the map held.                                             *)
THEOREM AddingIsSound == Spec => []AddSound
<1>1. MapsOK => AddSound
  <2> SUFFICES ASSUME MapOK(a), NEW r \in Ranges
               PROVE  /\ Cells(r) \subseteq Covered(AddRange(a, r))
                      /\ Covered(AddRange(a, r)) \subseteq Covered(a) \cup Cells(r)
    BY DEF MapsOK, AddSound
  <2>1. Added(AddRange(a, r), a, r)
    BY AddRangeFacts, RangesAreSegments
  <2>2. Covered(AddRange(a, r)) = Cover(AddRange(a, r).root) /\ Covered(a) = Cover(a.root)
    BY <2>1, MapFacts DEF Added
  <2> QED
    BY <2>1, <2>2 DEF Added
<1> QED
  BY <1>1, MapsStayOK, PTL

(* The only way map_add_range loses addresses is a range of the map that   *)
(* begins before the added range and ends behind it.                       *)
THEOREM AddingLosesOnlyInside == Spec => []AddExactUnlessInside
<1>1. MapsOK => AddExactUnlessInside
  <2> SUFFICES ASSUME MapOK(a), NEW r \in Ranges,
                      ~ \E e \in ToSet(ToArray(a)) : e.base < r.base /\ End(r) < End(e)
               PROVE  Covered(AddRange(a, r)) = Covered(a) \cup Cells(r)
    BY DEF MapsOK, AddExactUnlessInside
  <2>1. Added(AddRange(a, r), a, r)
    BY AddRangeFacts, RangesAreSegments
  <2>2. /\ Covered(AddRange(a, r)) = Cover(AddRange(a, r).root)
        /\ Covered(a) = Cover(a.root) /\ ToSet(ToArray(a)) = Els(a.root)
    BY <2>1, MapFacts DEF Added
  <2>3. \A e \in Els(a.root) : ~ Inner(r, e)
    BY <2>2 DEF Inner
  <2> QED
    BY <2>1, <2>2, <2>3 DEF Added
<1> QED
  BY <1>1, MapsStayOK, PTL

(* map_overlaps returns the first overlap and map_contains the range of an *)
(* address, whatever the shape of the tree.                                *)
THEOREM LookupsAreExact == Spec => []LookupExact
<1>1. MapsOK => LookupExact
  <2> SUFFICES ASSUME MapOK(a) PROVE LookupExact
    BY DEF MapsOK
  <2>1. Covered(a) = Cover(a.root) /\ BST(a.root) /\ ToSet(ToArray(a)) = Els(a.root)
    BY MapFacts
  <2>2. ASSUME NEW r \in Ranges
        PROVE  LET hit == Cells(r) \cap Covered(a)
                   o == MapOverlaps(a, r)
               IN  IF hit = {} THEN o = None
                   ELSE /\ o # None /\ Cells(o) \subseteq hit
                        /\ \A x \in hit : o.base <= x
                        /\ End(o) \notin hit
    <3> DEFINE o == MapOverlaps(a, r)
               hit == Cells(r) \cap Covered(a)
    <3>1. r \in Segment
      BY RangesAreSegments
    <3>2. Hit(o, a.root, r)
      BY <2>1, <3>1, OverlapHits DEF MapOverlaps
    <3> HIDE DEF o
    <3>3. CASE o = None
      BY <2>1, <3>2, <3>3 DEF Hit, o
    <3>4. CASE o # None
      <4>1. /\ o \in Segment /\ r.base <= o.base /\ End(o) <= End(r)
            /\ Cells(o) \subseteq hit
            /\ \A c \in hit : o.base <= c
            /\ End(o) = End(r) \/ End(o) \notin hit
        BY <2>1, <3>2, <3>4 DEF Hit
      <4>2. End(r) \notin Cells(r)
        BY <3>1, CellsAre, SegmentFacts
      <4>3. o.base \in Cells(o)
        BY <4>1, CellsAre, SegmentFacts
      <4>4. End(o) \notin hit /\ hit # {}
        BY <4>1, <4>2, <4>3
      <4> QED
        BY <3>4, <4>1, <4>4 DEF o
    <3> QED
      BY <3>3, <3>4
  <2>3. ASSUME NEW x \in Addr
        PROVE  LET r == MapContains(a, x)
               IN  IF x \in Covered(a) THEN r \in ToSet(ToArray(a)) /\ x \in Cells(r)
                   ELSE r = None
    BY <2>1, MapContainsFacts
  <2> QED
    BY <2>2, <2>3 DEF LookupExact
<1> QED
  BY <1>1, MapsStayOK, PTL

(* map_intersect and map_subtract are exact, a clone has the ranges of the *)
(* original in their order, splaying keeps all ranges, and map_remove_node *)
(* removes one.                                                            *)
THEOREM SetOperationsAreExact == Spec => []SetOpsExact
<1>1. MapsOK => SetOpsExact
  <2> SUFFICES ASSUME MapOK(a), MapOK(b) PROVE SetOpsExact
    BY DEF MapsOK
  <2>1. /\ Covered(a) = Cover(a.root) /\ Covered(b) = Cover(b.root)
        /\ ToSet(ToArray(a)) = Els(a.root)
    BY MapFacts
  <2>2. Covered(MapIntersect(a, b)) = Covered(a) \cap Covered(b)
    BY <2>1, IntersectFacts, MapFacts
  <2>3. Covered(MapSubtract(a, b)) = Covered(a) \ Covered(b)
    <3>1. /\ MapOK(MapSubtract(a, b))
          /\ Cover(MapSubtract(a, b).root) = Cover(a.root) \ Cover(b.root)
      BY SubtractFacts
    <3>2. Covered(MapSubtract(a, b)) = Cover(MapSubtract(a, b).root)
      BY <3>1, MapFacts
    <3> QED
      BY <2>1, <3>1, <3>2
  <2>4. ToArray(MapClone(a)) = ToArray(a)
    BY CloneFacts
  <2>5. \A x \in Addr : InOrder[Splay[a.root][x]] = ToArray(a)
    BY SearchFacts
  <2>6. ASSUME NEW r \in ToSet(ToArray(a))
        PROVE  ToSet(ToArray(RemoveNode(a, r.base))) = ToSet(ToArray(a)) \ {r}
    <3>1. /\ MapOK(RemoveNode(a, r.base))
          /\ Els(RemoveNode(a, r.base).root) = Els(a.root) \ {r}
      BY <2>1, RemoveNodeFacts
    <3>2. ToSet(ToArray(RemoveNode(a, r.base))) = Els(RemoveNode(a, r.base).root)
      BY <3>1, MapFacts
    <3> QED
      BY <2>1, <3>1, <3>2
  <2> QED
    BY <2>2, <2>3, <2>4, <2>5, <2>6 DEF SetOpsExact
<1> QED
  BY <1>1, MapsStayOK, PTL

=============================================================================
