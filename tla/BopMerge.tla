------------------------------ MODULE BopMerge ------------------------------
(***************************************************************************)
(* The copy-and-merge port, bop_merge.c: how the memory of the process     *)
(* that continues after a group is put together from the access maps and   *)
(* the patches of the tasks, over several groups in sequence.              *)
(*                                                                         *)
(* The order in which a group calls the hooks of the port is the one       *)
(* BopPpr allows: checks in task order, data_commit by every task but the  *)
(* last, task_group_commit by the last task after all the others.  Its     *)
(* races are the subject of BopPpr and are left out here: a task that      *)
(* fails or aborts takes all later tasks with it at once.                  *)
(*                                                                         *)
(* Addresses are the ranges that the maps tell apart.  A value is the      *)
(* term that computed it: which piece of code wrote it and what that code  *)
(* had read.  Two memories are equal only if every location was computed   *)
(* by the same code from the same inputs.  The sets a piece of code        *)
(* accesses are fixed: a SPEC that reads something stale has it in its     *)
(* read map, whatever it accesses afterwards.  Nobody waits for a post, so *)
(* the map received is empty.  The code between two regions accesses none  *)
(* of Addr: the record functions do nothing there (ppr_pos is GAP).        *)
(***************************************************************************)
EXTENDS Integers, FiniteSetsExt

CONSTANTS Addr, GroupSize, NumRegions,
          BlindWrites   \* regions may write what they have not read

ASSUME MergeAssumption ==
  /\ GroupSize \in 2..100 /\ NumRegions \in Nat
  /\ BlindWrites \in BOOLEAN

Task == 0 .. GroupSize-1

(* A region's accesses, and the program: its regions in sequence. *)
Code == [read : SUBSET Addr, write : SUBSET Addr]
RegionCode == {c \in Code : BlindWrites \/ c.write \subseteq c.read}
Programs == [1 .. NumRegions -> RegionCode]

VARIABLES
  program,
  now,           \* the regions completed before the current group
  st,            \* the state of each task of the group
  mem,           \* its copy-on-write memory; between groups mem[0] is SEQ's
  read_map, write_map,                  \* its access maps
  partial_size,
  write_union,   \* what the tasks checked so far have written, shared
  patches        \* shared and kept from group to group

group == <<st, partial_size>>
vars == <<program, now, group, mem, read_map, write_map, write_union, patches>>

TaskState == {"none", "begin", "ran", "checked", "committed"}
Seq == \A p \in Task : st[p] = "none"

-----------------------------------------------------------------------------
(* What code does to memory. *)
Execute(c, id, m) ==
  [a \in Addr |-> IF a \in c.write
                  THEN [by |-> id, saw |-> [b \in c.read |-> m[b]]]
                  ELSE m[a]]
RunPpr(n, m) == Execute(program[n], n, m)
FirstMemory == [a \in Addr |-> [by |-> 0, saw |-> <<>>]]

(* The memory after n regions of sequential execution. *)
SequentialFrom(k, m) ==
  LET run[n \in k .. NumRegions] ==
        IF n = k THEN m ELSE RunPpr(n, run[n - 1])
  IN  run
Sequential == SequentialFrom(0, FirstMemory)

NoPatch == [a \in {} |-> a]

Init ==
  /\ program \in Programs
  /\ now = 0
  /\ st = [p \in Task |-> "none"]
  /\ mem = [p \in Task |-> FirstMemory]
  /\ read_map = [p \in Task |-> {}]
  /\ write_map = [p \in Task |-> {}]
  /\ partial_size = GroupSize
  /\ write_union = {}
  /\ patches = [p \in Task |-> NoPatch]

(* Slip: the write union of the last group is kept. *)
BopMergeInitKeepsUnion ==
  /\ Seq /\ now < NumRegions
  /\ st' = [st EXCEPT ![0] = "begin"]
  /\ partial_size' = GroupSize
  /\ UNCHANGED <<program, now, mem, read_map, write_map, write_union, patches>>

(* bop_merge_init, at the begin of the first region of a group: the write  *)
(* union is cleared, the patches are not.                                  *)
BopMergeInit ==
  /\ Seq /\ now < NumRegions
  /\ st' = [st EXCEPT ![0] = "begin"]
  /\ partial_size' = GroupSize
  /\ write_union' = {}
  /\ UNCHANGED <<program, now, mem, read_map, write_map, patches>>

(* A task runs its region.  At the begin it forks the next task, which     *)
(* gets its memory; ppr_reset clears the maps; BOP_record_read and         *)
(* BOP_record_write add to them in the region.                             *)
RunTask(p) ==
  LET n == now + p + 1
      next == IF p < partial_size - 1 THEN {p + 1} ELSE {}
  IN  /\ st[p] = "begin" /\ n <= NumRegions
      /\ st' = [q \in Task |-> IF q = p THEN "ran" ELSE IF q \in next THEN "begin" ELSE st[q]]
      /\ mem' = [q \in Task |-> IF q = p THEN RunPpr(n, mem[p])
                                ELSE IF q \in next THEN mem[p] ELSE mem[q]]
      /\ read_map' = [read_map EXCEPT ![p] = program[n].read]
      /\ write_map' = [write_map EXCEPT ![p] = program[n].write]
      /\ UNCHANGED <<program, now, partial_size, write_union, patches>>

(* The group is cut before task p. *)
Cut(p) ==
  /\ partial_size' = p
  /\ st' = [q \in Task |-> IF q >= p THEN "none" ELSE st[q]]

(* A SPEC calls BOP_abort_spec, or comes to the end of the program. *)
AbortSpec(p) ==
  /\ p > 0 /\ st[p] \in {"begin", "ran"}
  /\ Cut(p)
  /\ UNCHANGED <<program, now, mem, read_map, write_map, write_union, patches>>

(* check_for_overlap without received data: the base of a conflict. *)
Overlap(my_access) == my_access \cap write_union

(* Slip: the union forgets the tasks before. *)
PprIsCorrectForgets(p) ==
  /\ st[p] = "ran" /\ p < partial_size
  /\ p > 0 => st[p - 1] \in {"checked", "committed"}
  /\ IF Overlap(read_map[p]) = {}
     THEN /\ write_union' = write_map[p]
          /\ st' = [st EXCEPT ![p] = "checked"]
          /\ UNCHANGED partial_size
     ELSE Cut(p) /\ UNCHANGED write_union
  /\ UNCHANGED <<program, now, mem, read_map, write_map, patches>>

(* ppr_is_correct: on success the writes go to the union. *)
PprIsCorrect(p) ==
  /\ st[p] = "ran" /\ p < partial_size
  /\ p > 0 => st[p - 1] \in {"checked", "committed"}
  /\ IF Overlap(read_map[p]) = {}
     THEN /\ write_union' = write_union \cup write_map[p]
          /\ st' = [st EXCEPT ![p] = "checked"]
          /\ UNCHANGED partial_size
     ELSE Cut(p) /\ UNCHANGED write_union
  /\ UNCHANGED <<program, now, mem, read_map, write_map, patches>>

(* create_patch: the current contents of what the task has written. *)
CreatePatch(p) == [a \in write_map[p] |-> mem[p][a]]

(* ppr_commit, the data_commit hook, of a task that is not the last. *)
PprCommit(p) ==
  /\ st[p] = "checked" /\ p < partial_size - 1
  /\ patches' = [patches EXCEPT ![p] = CreatePatch(p)]
  /\ st' = [st EXCEPT ![p] = "committed"]
  /\ UNCHANGED <<program, now, partial_size, mem, read_map, write_map, write_union>>

(* apply_patch for the patches 0 .. p in this order. *)
ApplyPatches(p) ==
  [a \in Addr |->
     LET from == {k \in 0 .. p : a \in DOMAIN patches[k]}
     IN  IF from = {} THEN mem[p][a] ELSE patches[Max(from)][a]]

(* A process with memory m continues sequentially after n regions. *)
Continue(n, m) ==
  /\ now' = n
  /\ mem' = [mem EXCEPT ![0] = m]
  /\ st' = [p \in Task |-> "none"]

(* Slip: the patches are not applied. *)
PprGroupCommitAlone(p) ==
  /\ p > 0 /\ p = partial_size - 1 /\ st[p] \in {"checked", "committed"}
  /\ \A q \in 0 .. p-1 : st[q] = "committed"
  /\ Continue(now + p + 1, mem[p])
  /\ UNCHANGED <<program, partial_size, read_map, write_map, write_union, patches>>

(* ppr_group_commit, the task_group_commit hook, in the last SPEC, which   *)
(* then continues the program: apply the patches, then clear them.         *)
PprGroupCommit(p) ==
  /\ p > 0 /\ p = partial_size - 1 /\ st[p] \in {"checked", "committed"}
  /\ \A q \in 0 .. p-1 : st[q] = "committed"
  /\ Continue(now + p + 1, ApplyPatches(p))
  /\ patches' = [q \in Task |-> IF q <= p THEN NoPatch ELSE patches[q]]
  /\ UNCHANGED <<program, partial_size, read_map, write_map, write_union>>

(* The understudy wins: it is a copy of MAIN after MAIN's region and has   *)
(* executed the regions up to the finish line of post_ppr_undy, at least   *)
(* one, or has come to the end of the program.  It touches no map.         *)
UndyWins ==
  LET finish == now + 1 + Max({1, partial_size - 1})
      n == Min({finish, NumRegions})
  IN  /\ st[0] \notin {"none", "begin"}
      /\ Continue(n, SequentialFrom(now + 1, mem[0])[n])
      /\ UNCHANGED <<program, partial_size, read_map, write_map, write_union, patches>>

Next ==
  \/ BopMergeInit
  \/ \E p \in Task : \/ RunTask(p) \/ AbortSpec(p) \/ PprIsCorrect(p)
                     \/ PprCommit(p) \/ PprGroupCommit(p)
  \/ UndyWins

Spec == Init /\ [][Next]_vars

-----------------------------------------------------------------------------
(* Sequential consistency: whoever continues after a group, a SPEC with    *)
(* the patches it has applied or the understudy, has the memory that a     *)
(* sequential execution of the program would have.                         *)
SequentialMemory == Seq => mem[0] = Sequential[now]

(* The check of ppr_is_correct is sufficient: what a task that has passed  *)
(* it wrote is what sequential execution would have written, although the  *)
(* task may have started from a memory that lacks all the earlier tasks'   *)
(* results.                                                                *)
CheckedIsRight ==
  \A p \in Task : st[p] \in {"checked", "committed"} =>
    \A a \in write_map[p] : mem[p][a] = Sequential[now + p + 1][a]

(* The assertion of _ppr_check_correctness: MAIN passes its check. *)
MainPasses == st[0] = "ran" => Overlap(read_map[0]) = {}
=============================================================================
