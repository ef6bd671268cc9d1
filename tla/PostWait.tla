------------------------------ MODULE PostWait ------------------------------
(***************************************************************************)
(* Post-wait (postwait.c) and ordered regions (bop_ordered.c) in one group *)
(* of tasks, with the parts of the copy-and-merge port that look at data   *)
(* received from another task.                                             *)
(*                                                                         *)
(* A channel is a record of the shared switch board.  A task that leaves   *)
(* an ordered region posts what it has written there to its own channel;   *)
(* the next task waits for that channel before it enters.  A task that     *)
(* skips the region chains its channel to the one before it.               *)
(*                                                                         *)
(* A task's region is a sequence of steps.  Accesses between two calls of  *)
(* the library touch private memory only and are one step.  A value is the *)
(* term that computed it, as in BopMerge.  Each step under the lock of the *)
(* switch board is one action; a waiting task reads a channel only after   *)
(* is_posted, which the code sets last.  As in BopMerge a task that aborts *)
(* takes the later ones with it, and the understudy is left out: what it   *)
(* computes does not depend on channels.                                   *)
(***************************************************************************)
EXTENDS Integers, Sequences, SequencesExt, FiniteSets, FiniteSetsExt

CONSTANTS GroupSize,
          Kinds       \* the kinds of regions a program is made of

AllKinds == {"ordered", "late", "early", "empty", "skip", "plain", "twice"}

ASSUME PostWaitAssumption == GroupSize \in 2..100 /\ Kinds \subseteq AllKinds

Task == 0 .. GroupSize-1
Addr == {"y", "z"}    \* z is for ordered regions

-----------------------------------------------------------------------------
(* Steps of a region. *)
Access(a) == [op |-> "access", addr |-> a]
Begin(r) == [op |-> "begin", region |-> r]
End(r) == [op |-> "end", region |-> r]
Skip(r) == [op |-> "skip", region |-> r]

(* "late" goes on to modify what it has posted, "early" accesses it before *)
(* it waits.  "twice" has a region 2 inside region 1, which is ignored,    *)
(* and then region 11, whose channels have the same places on the switch   *)
(* board as those of region 1.                                             *)
Steps(kind) ==
  CASE kind = "ordered" -> <<Begin(1), Access("z"), End(1)>>
    [] kind = "late"    -> <<Begin(1), Access("z"), End(1), Access("z")>>
    [] kind = "early"   -> <<Access("z"), Begin(1), Access("z"), End(1)>>
    [] kind = "skip"    -> <<Skip(1)>>
    [] kind = "plain"   -> <<Access("y")>>
    [] kind = "empty"   -> <<Begin(1), End(1)>>
    [] kind = "twice"   -> <<Begin(1), Begin(2), Access("z"), End(2), End(1),
                             Begin(11), Access("y"), End(11)>>

VARIABLES
  program,        \* the kind of each task's region
  pos,            \* the next step of each task
  st,             \* "run", "ended", "checked", "committed", "crashed", "won", "dead"
  mem,            \* copy-on-write memory
  read_map, write_map, ordered_writes,
  in_ordered,     \* the ordered region the task is in, 0 if none
  local_ch,       \* local_ch_id and local_ch_data
  received,       \* what was received: address -> task and value
  received_n_used,
  board,          \* the channels in use, by their index
  partial_size, write_union, patches

private == <<read_map, write_map, ordered_writes, in_ordered, local_ch, received>>
merge == <<received_n_used, partial_size, write_union, patches>>
vars == <<program, pos, st, mem, private, board, merge>>

Step(p) == Steps(program[p])[pos[p]]
Ended(p) == pos[p] > Len(Steps(program[p]))

(* An access reads a location and writes a value computed from it. *)
Execute(kind, p, k, m) ==
  LET s == Steps(kind)[k]
  IN  IF s.op = "access"
      THEN [m EXCEPT ![s.addr] = [by |-> <<p, k>>, saw |-> @]]
      ELSE m

FirstMemory == [a \in Addr |-> <<>>]

(* Sequential execution of each program: the memory before each step of    *)
(* each task's region, the end being the step after the last.              *)
RegionRun(kind, p, m) ==
  LET run[k \in 1 .. Len(Steps(kind)) + 1] ==
        IF k = 1 THEN m ELSE Execute(kind, p, k - 1, run[k - 1])
  IN  run
ProgramRun(prog) ==
  LET runs[p \in Task] ==
        RegionRun(prog[p], p, IF p = 0 THEN FirstMemory
                              ELSE runs[p - 1][Len(Steps(prog[p - 1])) + 1])
  IN  runs
SequentialRun == [prog \in [Task -> Kinds] |-> ProgramRun(prog)]
Sequential(p, k) == SequentialRun[program][p][k]
SequentialAfter(p) == Sequential(p, Len(Steps(program[p])) + 1)

NoMap == [a \in {} |-> a]

(* Map f, and g where f is not defined. *)
Over(f, g) == [x \in DOMAIN f \cup DOMAIN g |-> IF x \in DOMAIN f THEN f[x] ELSE g[x]]

NoLocal == [id |-> 0, data |-> {}]

(* ppr_group_init and ppr_task_init of the group's first region; tasks     *)
(* start with the memory MAIN had there.                                   *)
Init ==
  /\ program \in [Task -> Kinds]
  /\ pos = [p \in Task |-> 1]
  /\ st = [p \in Task |-> "run"]
  /\ mem = [p \in Task |-> FirstMemory]
  /\ read_map = [p \in Task |-> {}]
  /\ write_map = [p \in Task |-> {}]
  /\ ordered_writes = [p \in Task |-> {}]
  /\ in_ordered = [p \in Task |-> 0]
  /\ local_ch = [p \in Task |-> NoLocal]
  /\ received = [p \in Task |-> NoMap]
  /\ received_n_used = [p \in Task |-> NoMap]
  /\ board = NoMap
  /\ partial_size = GroupSize
  /\ write_union = NoMap
  /\ patches = [p \in Task |-> NoMap]

-----------------------------------------------------------------------------
(* The switch board.  Operators map a board to a board. *)
Index(p) == p + 1                               \* BOP_ppr_index
ChannelForRegion(r, p) == r * GroupSize + Index(p)
BoardSize == 10 * GroupSize
Slot(id) == id % BoardSize

(* A channel; list stands for its cc_first and cc_next: the places of all  *)
(* channels on its chain, in order.                                        *)
NewChannel(id) == [id |-> id, data |-> NoMap, sender |-> 0, is_posted |-> FALSE,
                   list |-> <<Slot(id)>>]
Free(id) == Slot(id) \notin DOMAIN board \/ board[Slot(id)].id = id
Chained(c) == Len(board[c].list) > 1

(* get_channel, for a place that is free or has this id. *)
GetChannel(bd, id) ==
  IF Slot(id) \in DOMAIN bd THEN bd ELSE Over([c \in {Slot(id)} |-> NewChannel(id)], bd)

SetChain(bd, list, places, posted) ==
  [i \in DOMAIN bd |->
     [bd[i] EXCEPT !.list = IF i \in ToSet(list) THEN list ELSE @,
                   !.is_posted = IF i \in places THEN posted ELSE @]]

(* Slip: the channels that join are not marked as posted. *)
ConnectChainUnposted(bd, head, new, posted) ==
  SetChain(bd, head \o new, {Last(head)}, posted)

(* connect_chain: the chain new is appended to the chain head.  Of head    *)
(* only the last channel gets the new is_posted.                           *)
ConnectChain(bd, head, new, posted) ==
  SetChain(bd, head \o new, {Last(head)} \cup ToSet(new), posted)

(* channel_chain: the channel that is on a chain already is the head, the  *)
(* first one if both or none are.                                          *)
ChannelChain(id1, id2) ==
  LET bd == GetChannel(GetChannel(board, id1), id2)
      l1 == bd[Slot(id1)].list
      l2 == bd[Slot(id2)].list
      posted == bd[Slot(id1)].is_posted \/ bd[Slot(id2)].is_posted
  IN  IF ~Free(id1) \/ ~Free(id2) THEN bd
      ELSE IF Len(l1) = 1 /\ Len(l2) > 1 THEN ConnectChain(bd, l2, l1, posted)
      ELSE ConnectChain(bd, l1, l2, posted)

(* The board after data was posted to channel id by task p: every channel  *)
(* of its chain is posted.                                                 *)
Posted(id, p, data) ==
  LET bd == GetChannel(board, id)
      c == Slot(id)
      filled == [bd EXCEPT ![c].data = data, ![c].sender = Index(p)]
  IN  SetChain(filled, bd[c].list, ToSet(bd[c].list), TRUE)

(* The channel whose data a task waiting for channel c gets: the first one *)
(* of the chain that has data, else the last.                              *)
Source(c) ==
  LET list == board[c].list
      full == {i \in 1 .. Len(list) : board[list[i]].data # NoMap}
  IN  IF full = {} THEN Last(list) ELSE list[Min(full)]

-----------------------------------------------------------------------------
(* The group is cut before task p. *)
Cut(p) ==
  /\ partial_size' = p
  /\ st' = [q \in Task |-> IF q >= p THEN "dead" ELSE st[q]]

Advance(p) == pos' = [pos EXCEPT ![p] = @ + 1]

(* An assertion fails: the process dies, the others are not told.  One     *)
(* that has "crashed" had released the next task's check before.           *)
Crash(p, how) == st' = [st EXCEPT ![p] = how] /\ UNCHANGED partial_size

At(p, op) == st[p] = "run" /\ ~Ended(p) /\ Step(p).op = op

(* BOP_record_read, the read, BOP_record_write, the write. *)
DoAccess(p) ==
  /\ At(p, "access")
  /\ Advance(p)
  /\ mem' = [mem EXCEPT ![p] = Execute(program[p], p, pos[p], @)]
  /\ read_map' = [read_map EXCEPT ![p] = @ \cup {Step(p).addr}]
  /\ write_map' = [write_map EXCEPT ![p] = @ \cup {Step(p).addr}]
  /\ ordered_writes' = IF in_ordered[p] = 0 THEN ordered_writes
                       ELSE [ordered_writes EXCEPT ![p] = @ \cup {Step(p).addr}]
  /\ UNCHANGED <<program, st, in_ordered, local_ch, received, board, merge>>

(* receive_range for all ranges of a channel: what a later task has sent   *)
(* earlier stays.                                                          *)
Receive(p, ch) ==
  LET fresh == {a \in DOMAIN ch.data :
                  a \in DOMAIN received[p] => received[p][a].task <= ch.sender}
  IN  Over([a \in fresh |-> [task |-> ch.sender, val |-> ch.data[a]]], received[p])

(* channel_wait in a SPEC, when the place of the channel is posted.        *)
ChannelWait(p, id) ==
  LET c == Slot(id)
      ch == board[Source(c)]
      got == Receive(p, ch)
      abandoned == DOMAIN ch.data \cap (read_map[p] \cup write_map[p]) # {}
  IN  /\ c \in DOMAIN board /\ board[c].is_posted
      /\ IF board[c].id # id
         THEN Cut(p) /\ UNCHANGED <<mem, received>>
         ELSE IF Chained(c) /\ ch.data = NoMap
         THEN Crash(p, "dead") /\ UNCHANGED <<mem, received>>
         ELSE /\ UNCHANGED <<st, partial_size>>
              /\ IF abandoned THEN UNCHANGED <<mem, received>>
                 ELSE /\ received' = [received EXCEPT ![p] = got]
                      /\ mem' = [mem EXCEPT ![p] =
                           [a \in Addr |-> IF a \in DOMAIN ch.data THEN got[a].val ELSE @[a]]]

(* Slip: a SPEC does not wait. *)
OrderedBeginAtOnce(p) ==
  /\ At(p, "begin") /\ in_ordered[p] = 0
  /\ Advance(p)
  /\ in_ordered' = [in_ordered EXCEPT ![p] = Step(p).region]
  /\ UNCHANGED <<program, st, mem, received, partial_size, read_map, write_map, ordered_writes,
                 local_ch, board, received_n_used, write_union, patches>>

(* BOP_ordered_begin: MAIN enters, a SPEC waits for the task before. *)
OrderedBegin(p) ==
  /\ At(p, "begin") /\ in_ordered[p] = 0
  /\ Advance(p)
  /\ in_ordered' = [in_ordered EXCEPT ![p] = Step(p).region]
  /\ IF p = 0 THEN UNCHANGED <<st, mem, received, partial_size>>
     ELSE ChannelWait(p, ChannelForRegion(Step(p).region, p) - 1)
  /\ UNCHANGED <<program, read_map, write_map, ordered_writes, local_ch, board,
                 received_n_used, write_union, patches>>

(* BOP_ordered_begin inside a region, and BOP_ordered_end of a region the  *)
(* task is not in, are ignored.                                            *)
OrderedIgnored(p) ==
  /\ \/ At(p, "begin") /\ in_ordered[p] # 0
     \/ At(p, "end") /\ in_ordered[p] # Step(p).region
  /\ Advance(p)
  /\ UNCHANGED <<program, st, mem, private, board, merge>>

(* BOP_ordered_skip *)
OrderedSkip(p) ==
  /\ At(p, "skip")
  /\ Advance(p)
  /\ LET mine == ChannelForRegion(Step(p).region, p)
     IN  board' = ChannelChain(mine - 1, mine)
  /\ UNCHANGED <<program, st, mem, private, merge>>

(* channel_fill for all of the ordered writes. *)
ChannelFill(p, id) ==
  IF ordered_writes[p] = {} \/ local_ch[p].id \notin {0, id} THEN local_ch[p]
  ELSE [id |-> id, data |-> local_ch[p].data \cup ordered_writes[p]]

(* Slip: posted data stays in the write map. *)
SubtractNothing(p, data) == write_map[p]

(* map_subtract: posted data leaves the write map. *)
SubtractPosted(p, data) == write_map[p] \ data

(* BOP_ordered_end: channel_fill, channel_post.  A post to a place that    *)
(* another channel has, or to a posted channel, is ignored and leaves the  *)
(* local channel as it is.                                                 *)
OrderedEnd(p) ==
  LET id == ChannelForRegion(Step(p).region, p)
      local == ChannelFill(p, id)
      data == local.data \cap write_map[p]
      taken == local.id \in {0, id}
      ok == taken /\ Free(id) /\ (Slot(id) \in DOMAIN board => ~board[Slot(id)].is_posted)
  IN  /\ At(p, "end") /\ in_ordered[p] = Step(p).region
      /\ Advance(p)
      /\ local_ch' = [local_ch EXCEPT ![p] = IF ok THEN NoLocal
                                             ELSE [local EXCEPT !.data = IF taken THEN data ELSE @]]
      /\ board' = IF ok THEN Posted(id, p, [a \in data |-> mem[p][a]]) ELSE board
      /\ write_map' = IF ok THEN [write_map EXCEPT ![p] = SubtractPosted(p, data)] ELSE write_map
      /\ ordered_writes' = [ordered_writes EXCEPT ![p] = {}]
      /\ in_ordered' = [in_ordered EXCEPT ![p] = 0]
      /\ UNCHANGED <<program, st, mem, read_map, received, merge>>

(* _BOP_ppr_end *)
PprEnd(p) ==
  /\ st[p] = "run" /\ Ended(p)
  /\ st' = [st EXCEPT ![p] = "ended"]
  /\ UNCHANGED <<program, pos, mem, private, board, merge>>

(* A SPEC calls BOP_abort_spec. *)
AbortSpec(p) ==
  /\ p > 0 /\ st[p] \in {"run", "ended"}
  /\ Cut(p)
  /\ UNCHANGED <<program, pos, mem, private, board, received_n_used, write_union, patches>>

-----------------------------------------------------------------------------
(* check_for_overlap: what was read and is in the write union is no        *)
(* conflict if it was received from the task that wrote it last.           *)
FromLastWriter(p, a) ==
  a \in DOMAIN received[p] /\ received[p][a].task = write_union[a]

(* ppr_is_correct *)
PprIsCorrect(p) ==
  LET shared == read_map[p] \cap DOMAIN write_union
  IN  /\ st[p] = "ended" /\ p < partial_size
      /\ p > 0 => st[p - 1] \in {"checked", "committed", "crashed"}
      /\ IF \A a \in shared : FromLastWriter(p, a)
         THEN /\ received_n_used' = [received_n_used EXCEPT ![p] =
                                       [a \in shared |-> received[p][a]]]
              /\ write_union' = Over([a \in write_map[p] |-> Index(p)], write_union)
              /\ st' = [st EXCEPT ![p] = "checked"]
              /\ UNCHANGED partial_size
         ELSE Cut(p) /\ UNCHANGED <<received_n_used, write_union>>
      /\ UNCHANGED <<program, pos, mem, private, board, patches>>

(* mdfy_aftr_pst_chk: the patch of the sender must have the range, and     *)
(* hold there what was received.                                           *)
SenderPatch(p, a) == patches[received_n_used[p][a].task - 1]
MatchFound(p) == \A a \in DOMAIN received_n_used[p] : a \in DOMAIN SenderPatch(p, a)

(* Slip: modifications after the post are not looked for. *)
UnmodifiedAlways(p) == TRUE

Unmodified(p) ==
  \A a \in DOMAIN received_n_used[p] : SenderPatch(p, a)[a] = received_n_used[p][a].val

(* data_commit of a task that is not the last: ppr_commit of the merge     *)
(* port, then ppr_commit of the post-wait port.                            *)
PprCommit(p) ==
  /\ st[p] = "checked" /\ p < partial_size - 1
  /\ patches' = [patches EXCEPT ![p] = [a \in write_map[p] |-> mem[p][a]]]
  /\ IF ~MatchFound(p) THEN Crash(p, "crashed")
     ELSE IF ~Unmodified(p) THEN Cut(p)
     ELSE st' = [st EXCEPT ![p] = "committed"] /\ UNCHANGED partial_size
  /\ UNCHANGED <<program, pos, mem, private, board, received_n_used, write_union>>

(* task_group_commit of the last SPEC. *)
PprGroupCommit(p) ==
  /\ p > 0 /\ p = partial_size - 1 /\ st[p] \in {"checked", "committed"}
  /\ \A q \in 0 .. p-1 : st[q] = "committed"
  /\ st' = [st EXCEPT ![p] = "won"]
  /\ mem' = [mem EXCEPT ![p] =
       [a \in Addr |-> LET from == {k \in 0 .. p : a \in DOMAIN patches[k]}
                       IN  IF from = {} THEN @[a] ELSE patches[Max(from)][a]]]
  /\ UNCHANGED <<program, pos, private, board, merge>>

TaskStep(p) ==
  \/ DoAccess(p) \/ OrderedBegin(p) \/ OrderedIgnored(p) \/ OrderedSkip(p)
  \/ OrderedEnd(p) \/ PprEnd(p)
  \/ PprIsCorrect(p) \/ PprCommit(p) \/ PprGroupCommit(p) \/ AbortSpec(p)

Next == \E p \in Task : TaskStep(p)

Spec == Init /\ [][Next]_vars

-----------------------------------------------------------------------------
(* Uses of ordered regions that the code lets through without a check and  *)
(* that spoil the data task p receives: an ordered region that writes      *)
(* nothing, an access before the wait.                                     *)
Before(p, kind) == \E q \in 0 .. p-1 : program[q] = kind
Spoiled(p) == Before(p, "empty") \/ \E q \in 1 .. p : program[q] = "early"

(* Inside an ordered region a task sees what the tasks before it have left *)
(* there, although it runs at the same time, unless one of them goes on to *)
(* modify what it has posted.                                              *)
OrderedIsSequential ==
  \A p \in Task :
    in_ordered[p] # 0 /\ st[p] # "dead" /\ ~Spoiled(p) /\ ~Before(p, "late")
      => mem[p]["z"] = Sequential(p, pos[p])["z"]

(* A task that has passed the check of reads and the check for             *)
(* modifications after a post has computed sequential results: both checks *)
(* together make up for the data it received early.                        *)
Accessed(p) == {s.addr : s \in {t \in ToSet(Steps(program[p])) : t.op = "access"}}
CommittedIsRight ==
  \A p \in Task : st[p] = "committed" /\ ~Spoiled(p) =>
    \A a \in Accessed(p) : mem[p][a] = SequentialAfter(p)[a]

(* The last task has no check for modifications and gets posted data only  *)
(* by waiting for it.  Where neither matters the memory it continues with  *)
(* is the sequential one.                                                  *)
Waits(p) == \E s \in ToSet(Steps(program[p])) : s.op = "begin"
CommitIsSequential ==
  \A p \in Task :
    st[p] = "won" /\ Waits(p) /\ ~Spoiled(p) /\ ~Before(p, "late")
      => mem[p] = SequentialAfter(p)

(* MAIN enters the ordered region, every other task enters or skips it. *)
Orderly ==
  program[0] = "ordered" /\ \A p \in Task : program[p] \in {"ordered", "skip"}

(* "pass over, leave out, disregard" (bop_ordered.c:39, BOP_ordered_skip): *)
(* when all tasks before p have left the ordered region or skipped it, in  *)
(* whatever order, the channel that p waits for is posted.                 *)
PostReaches ==
  Orderly => \A p \in Task \ {0} :
    program[p] = "ordered" /\ (\A q \in 0 .. p-1 : Ended(q) /\ st[q] # "dead")
      => LET c == Slot(ChannelForRegion(1, p) - 1)
         IN  c \in DOMAIN board /\ board[c].is_posted
=============================================================================
