----------------------------- MODULE RangeTree ------------------------------
(***************************************************************************)
(* The maps of address ranges of range_tree/dtree.c: splay trees whose     *)
(* nodes are ranges, on which the access maps, the write union, the        *)
(* patches and the post-wait channels are built.  The algorithms are       *)
(* operators on trees; two maps, a and b, undergo the operations of the    *)
(* interface in any order, and every result is compared with what it means *)
(* for the set of addresses the map stands for.  The data records and task *)
(* numbers that ranges carry are left out.                                 *)
(***************************************************************************)
EXTENDS Integers, Sequences, SequencesExt

CONSTANTS MaxAddr,  \* addresses are 0 .. MaxAddr
          MaxSize   \* of a range given to an operation

ASSUME RangeAssumption == MaxAddr \in Nat /\ MaxSize \in Nat

VARIABLES a, b   \* two maps: [root, size]

vars == <<a, b>>

(* mem_range_t; the ranges of a map, and those given to an operation.      *)
MemRange(base, size) == [base |-> base, size |-> size]
End(r) == r.base + r.size
Cells(r) == r.base .. End(r)-1
Addr == 0 .. MaxAddr
Segment == {r \in [base : Addr, size : 1 .. MaxAddr + 1] : End(r) <= MaxAddr + 1}
Ranges == {r \in Segment : r.size <= MaxSize}
None == [none |-> TRUE]

(* range_node_t: Nil, or a node of two subtrees and a range.  Recursion is *)
(* over trees of bounded depth; a map has at most one node per address,    *)
(* and one more while it is built.                                         *)
Nil == [nil |-> TRUE]
Node(lc, r, rc) == [lc |-> lc, r |-> r, rc |-> rc]
MaxDepth == MaxAddr + 2
TreeUpTo[n \in 0 .. MaxDepth] ==
  IF n = 0 THEN {Nil}
  ELSE LET sub == TreeUpTo[n - 1] IN {Nil} \cup [lc : sub, r : Segment, rc : sub]
Tree == TreeUpTo[MaxDepth]

Empty == [root |-> Nil, size |-> 0]

(* subtree_inject: the ranges in order. *)
InOrder[t \in Tree] ==
  IF t = Nil THEN <<>> ELSE InOrder[t.lc] \o <<t.r>> \o InOrder[t.rc]
Count(t) == Len(InOrder[t])
ToArray(m) == InOrder[m.root]

(* The addresses a map stands for. *)
Covered(m) == UNION {Cells(r) : r \in ToSet(ToArray(m))}

-----------------------------------------------------------------------------
RotateRight(t) == Node(t.lc.lc, t.lc.r, Node(t.lc.rc, t.r, t.rc))
RotateLeft(t) == Node(Node(t.lc, t.r, t.rc.lc), t.rc.r, t.rc.rc)

(* splay, top down.  A node passed on the way down goes to the right of    *)
(* the root found below it, or to the left, and keeps what lies between.   *)
Splay[t \in Tree] == [key \in Addr |->
  IF t = Nil THEN Nil
  ELSE IF key < t.r.base
  THEN LET u == IF t.lc # Nil /\ key < t.lc.r.base THEN RotateRight(t) ELSE t
           top == Splay[u.lc][key]
       IN  IF u.lc = Nil THEN u ELSE Node(top.lc, top.r, Node(top.rc, u.r, u.rc))
  ELSE IF key > t.r.base
  THEN LET u == IF t.rc # Nil /\ key > t.rc.r.base THEN RotateLeft(t) ELSE t
           top == Splay[u.rc][key]
       IN  IF u.rc = Nil THEN u ELSE Node(Node(u.lc, u.r, top.lc), top.r, top.rc)
  ELSE t]

(* overlap of two ranges *)
Overlap(x, y) ==
  LET lo == IF x.base <= y.base THEN y.base ELSE x.base
      hi == IF End(x) <= End(y) THEN End(x) ELSE End(y)
  IN  IF lo < hi THEN MemRange(lo, hi - lo) ELSE None

(* Slip: the union ends where the old range ended. *)
UnionRangesShort(x, y) ==
  LET lo == IF x.base < y.base THEN x.base ELSE y.base
  IN  MemRange(lo, End(y) - lo)

(* union_ranges *)
UnionRanges(x, y) ==
  LET lo == IF x.base < y.base THEN x.base ELSE y.base
      hi == IF End(x) < End(y) THEN End(y) ELSE End(x)
  IN  MemRange(lo, hi - lo)

(* absorb_left, absorb_right: merge the nodes a grown range reaches into   *)
(* it.  The result is the rest of the tree, the range, and the number of   *)
(* nodes freed.                                                            *)
AbsorbLeft[t \in Tree] == [r \in Segment |->
  IF t = Nil THEN [t |-> Nil, r |-> r, freed |-> 0]
  ELSE IF r.base > End(t.r)
  THEN LET x == AbsorbLeft[t.rc][r]
       IN  [t |-> Node(t.lc, t.r, x.t), r |-> x.r, freed |-> x.freed]
  ELSE LET lo == IF t.r.base < r.base THEN t.r.base ELSE r.base
           x == AbsorbLeft[t.lc][MemRange(lo, End(r) - lo)]
       IN  [t |-> x.t, r |-> x.r, freed |-> x.freed + 1 + Count(t.rc)]]

AbsorbRight[t \in Tree] == [r \in Segment |->
  IF t = Nil THEN [t |-> Nil, r |-> r, freed |-> 0]
  ELSE IF End(r) < t.r.base
  THEN LET x == AbsorbRight[t.lc][r]
       IN  [t |-> Node(x.t, t.r, t.rc), r |-> x.r, freed |-> x.freed]
  ELSE LET hi == IF End(r) < End(t.r) THEN End(t.r) ELSE End(r)
           x == AbsorbRight[t.rc][MemRange(r.base, hi - r.base)]
       IN  [t |-> x.t, r |-> x.r, freed |-> x.freed + 1 + Count(t.lc)]]

(* Slip: only a range that ends where the root begins is bordering. *)
BorderingLeft(n, top) == End(n) = top.base

(* map_add_range *)
Bordering(n, top) == IF n.base < top.base THEN End(n) = top.base ELSE End(top) = n.base

AddRange(m, n) ==
  IF m.root = Nil THEN [root |-> Node(Nil, n, Nil), size |-> 1]
  ELSE LET top == Splay[m.root][n.base] IN
    IF Overlap(n, top.r) # None \/ Bordering(n, top.r)
    THEN LET left == AbsorbLeft[top.lc][UnionRanges(n, top.r)]
             right == AbsorbRight[top.rc][left.r]
         IN  [root |-> Node(left.t, right.r, right.t),
              size |-> m.size - left.freed - right.freed]
    ELSE IF n.base < top.r.base
    THEN LET left == AbsorbLeft[top.lc][n]
         IN  [root |-> Node(left.t, left.r, Node(Nil, top.r, top.rc)),
              size |-> m.size + 1 - left.freed]
    ELSE LET right == AbsorbRight[top.rc][n]
         IN  [root |-> Node(Node(top.lc, top.r, Nil), right.r, right.t),
              size |-> m.size + 1 - right.freed]

(* One call of map_add_range after the other. *)
AddAll(m, rs) ==
  LET sum[i \in 0 .. Len(rs)] == IF i = 0 THEN m ELSE AddRange(sum[i - 1], rs[i])
  IN  sum[Len(rs)]

-----------------------------------------------------------------------------
(* subtree_overlaps, map_overlaps: the first overlap with a range.         *)
SubtreeOverlaps[t \in Tree] == [r \in Segment |->
  IF t = Nil THEN None
  ELSE IF End(t.r) <= r.base THEN SubtreeOverlaps[t.rc][r]
  ELSE IF t.r.base > End(r) THEN SubtreeOverlaps[t.lc][r]
  ELSE LET head == IF t.r.base > r.base
                   THEN SubtreeOverlaps[t.lc][MemRange(r.base, t.r.base - r.base)]
                   ELSE None
       IN  IF head # None THEN head ELSE Overlap(t.r, r)]

(* Slip: the part before the node is not searched. *)
SubtreeOverlapsNoHead[t \in Tree] == [r \in Segment |->
  IF t = Nil THEN None
  ELSE IF End(t.r) <= r.base THEN SubtreeOverlapsNoHead[t.rc][r]
  ELSE IF t.r.base > End(r) THEN SubtreeOverlapsNoHead[t.lc][r]
  ELSE Overlap(t.r, r)]
MapOverlapsNoHead(m, r) == SubtreeOverlapsNoHead[m.root][r]

MapOverlaps(m, r) == SubtreeOverlaps[m.root][r]

(* The loops of map_intersect and map_subtract over one range, from the    *)
(* address x on: its parts inside the map m, and its parts outside.        *)
NextOverlap(m, r, x) ==
  IF x = End(r) THEN None ELSE MapOverlaps(m, MemRange(x, End(r) - x))

Inside(m, r) ==
  LET from[x \in r.base .. End(r)] ==
        LET o == NextOverlap(m, r, x)
        IN  IF o = None THEN <<>> ELSE <<o>> \o from[End(o)]
  IN  from[r.base]

Part(lo, hi) == IF lo < hi THEN <<MemRange(lo, hi - lo)>> ELSE <<>>
Outside(m, r) ==
  LET from[x \in r.base .. End(r)] ==
        LET o == NextOverlap(m, r, x)
        IN  IF o = None THEN Part(x, End(r)) ELSE Part(x, o.base) \o from[End(o)]
  IN  from[r.base]

MapUnion(m, ref) == AddAll(m, ToArray(ref))
MapClone(m) == MapUnion(Empty, m)
MapIntersect(m, ref) ==
  LET out[i \in 0 .. m.size] ==
        IF i = 0 THEN Empty ELSE AddAll(out[i - 1], Inside(ref, ToArray(m)[i]))
  IN  out[m.size]

(* Slip: what is subtracted is not cut out of the range. *)
MapSubtractWhole(m, ref) ==
  AddAll(Empty, SelectSeq(ToArray(m), LAMBDA r : MapOverlaps(ref, r) = None))

(* map_subtract subtracts the intersection of the two maps. *)
MapSubtract(m, ref) ==
  LET copy == MapIntersect(MapClone(m), ref)
      out[i \in 0 .. m.size] ==
        IF i = 0 THEN Empty ELSE AddAll(out[i - 1], Outside(copy, ToArray(m)[i]))
  IN  IF ref.root = Nil THEN m ELSE out[m.size]

(* map_contains splays the map and returns the range that holds addr. *)
Rightmost[t \in Tree] ==
  IF t = Nil THEN None ELSE IF t.rc = Nil THEN t.r ELSE Rightmost[t.rc]

MapContains(m, addr) ==
  LET top == Splay[m.root][addr]
      r == IF addr < top.r.base THEN Rightmost[top.lc] ELSE top.r
  IN  IF m.root = Nil \/ r = None THEN None
      ELSE IF End(r) > addr THEN r ELSE None

(* map_remove_node *)
RemoveNode(m, base) ==
  LET rt == Splay[m.root][base]
      left == Splay[rt.lc][base]
      root == IF rt.lc = Nil THEN rt.rc ELSE Node(left.lc, left.r, rt.rc)
  IN  [root |-> root, size |-> m.size - 1]

-----------------------------------------------------------------------------
Init == a = Empty /\ b = Empty

Add(r) == a' = AddRange(a, r) /\ UNCHANGED b
Search(addr) ==
  a.root # Nil /\ a' = [a EXCEPT !.root = Splay[@][addr]] /\ UNCHANGED b
Unlink(base) ==
  /\ \E r \in ToSet(ToArray(a)) : r.base = base
  /\ a' = RemoveNode(a, base)
  /\ UNCHANGED b
Union == a' = MapUnion(a, b) /\ UNCHANGED b
Intersect == a' = MapIntersect(a, b) /\ UNCHANGED b
Subtract == a' = MapSubtract(a, b) /\ UNCHANGED b
Clear == a' = Empty /\ UNCHANGED b
AddToOther(r) == b' = AddRange(b, r) /\ UNCHANGED a
ClearOther == b' = Empty /\ UNCHANGED a

Next ==
  \/ \E r \in Ranges : Add(r) \/ AddToOther(r)
  \/ \E x \in Addr : Search(x) \/ Unlink(x)
  \/ Union \/ Intersect \/ Subtract \/ Clear \/ ClearOther

Spec == Init /\ [][Next]_vars

-----------------------------------------------------------------------------
(* The tree is a search tree of ranges that neither overlap nor touch, on  *)
(* which splay, map_overlaps and map_contains rely, and size counts its    *)
(* nodes: map_to_array allocates size elements and writes one per node.    *)
Ordered(m) ==
  LET rs == ToArray(m)
  IN  /\ m.size = Len(rs)
      /\ \A i, j \in 1 .. Len(rs) : i < j => End(rs[i]) < rs[j].base
TreeOK == Ordered(a) /\ Ordered(b)

(* map_add_range covers the new range and nothing that was not asked for.  *)
AddSound ==
  \A r \in Ranges : LET sum == Covered(AddRange(a, r))
                    IN  Cells(r) \subseteq sum /\ sum \subseteq Covered(a) \cup Cells(r)

(* map_add_range loses nothing: the map stands for the union. *)
AddExact ==
  \A r \in Ranges : Covered(AddRange(a, r)) = Covered(a) \cup Cells(r)

(* The range map_add_range cuts short is one that begins before the new    *)
(* range and ends behind it: every other range is added exactly.           *)
AddExactUnlessInside ==
  \A r \in Ranges :
    \/ \E e \in ToSet(ToArray(a)) : e.base < r.base /\ End(r) < End(e)
    \/ Covered(AddRange(a, r)) = Covered(a) \cup Cells(r)

(* map_intersect, map_subtract and map_clone are exact, and splaying and   *)
(* removing a node leave all other ranges alone, whatever the shape of the *)
(* trees.                                                                  *)
SetOpsExact ==
  /\ Covered(MapIntersect(a, b)) = Covered(a) \cap Covered(b)
  /\ Covered(MapSubtract(a, b)) = Covered(a) \ Covered(b)
  /\ ToArray(MapClone(a)) = ToArray(a)
  /\ \A x \in Addr : InOrder[Splay[a.root][x]] = ToArray(a)
  /\ \A r \in ToSet(ToArray(a)) :
       ToSet(ToArray(RemoveNode(a, r.base))) = ToSet(ToArray(a)) \ {r}

(* map_overlaps finds the first overlap ("return the smallest overlap"),   *)
(* and map_contains the range of an address, in every tree.                *)
LookupExact ==
  /\ \A r \in Ranges :
       LET hit == Cells(r) \cap Covered(a)
           o == MapOverlaps(a, r)
       IN  IF hit = {} THEN o = None
           ELSE /\ o # None /\ Cells(o) \subseteq hit
                /\ \A x \in hit : o.base <= x
                /\ End(o) \notin hit
  /\ \A x \in Addr :
       LET r == MapContains(a, x)
       IN  IF x \in Covered(a) THEN r \in ToSet(ToArray(a)) /\ x \in Cells(r)
           ELSE r = None
=============================================================================
