# A verification project for CBop

CBop runs marked regions of a sequential C program ("possibly parallel
regions", PPRs) speculatively in forked processes, checks afterwards whether the
speculation was equivalent to sequential execution, and throws it away when it
was not. This directory holds TLA+ models of the library, the TLC runs that
check them on small instances, and proofs, checked by TLAPS, of theorems that
hold for every group size, every program and every number of groups.

## 1. The system

### Processes

A *group* is a sequence of up to `BOP_GroupSize` regions that run at the same
time. `_BOP_ppr_begin` turns the sequential process (`SEQ`) into `MAIN`, which
runs the first region for real, and forks a `SPEC` that jumps over the region
and runs the next one; that one forks the next, and so on. At the end of its
region MAIN forks the understudy (`UNDY`), which runs the regions after MAIN's
again, one after the other, without speculation. The speculation and the
understudy race. If the last SPEC gets through the checks of all tasks first, it
applies the other tasks' patches, makes the understudy concede with SIGUSR1 and
continues the program. If the understudy gets to the end of the regions first,
it kills the speculation with SIGUSR2 and continues the program. A monitor
process, the original one, waits for the whole process group.

### Components

| component | state | operations | talks to others by |
|---|---|---|---|
| PPR task control, `bop_ppr.c` | per process: `task_status`, `ppr_pos`, `spec_order`, `ppr_static_id`, `undy_ppr_count`, pending signals | `_BOP_ppr_begin`, `_BOP_ppr_end`, `BOP_abort_spec`, `BOP_abort_next_spec`, `BOP_malloc_rescue`, `_BOP_group_over`, `spawn_undy`, `post_ppr_undy`, `ppr_task_commit`, `_task_group_commit`, handlers of SIGUSR1, SIGUSR2, SIGCHLD | fork, signals to the process group, the shared record below, hooks of the ports |
| group synchronisation, `bop_ppr_sync.c` | shared: `partial_size`, `spec_checked[]`, `spec_correct[]`, `data_committed[]`, `undy_created`, `undy_conceded` | set and get the partial size, signal and wait for a check, a commit, the understudy | spin locks in shared memory |
| monitor and lifecycle, `bop_ppr.c` | `is_monitoring`, `errored` | `BOP_init`, `BOP_fini`, `wait_process`, `ErrorKillAll` | SIGUSR1, SIGUSR2 and SIGKILL, waitpid |
| copy-and-merge port, `bop_merge.c` | private `read_map`, `write_map`; shared `write_union`, `patches[]` | record accesses, check, create and apply patches | called by task control through the port registry |
| range tree, `range_tree/dtree.c` | splay-like tree of address ranges | add, remove, overlap, union, intersect, subtract | called by the merge and the post-wait ports |
| post-wait port, `postwait.c` | shared channels; private `received`, `received_n_used` | fill, chain, post, wait, receive, modify-after-post check | channel locks; reads the patches of the merge port |
| ordered regions, `bop_ordered.c` | `in_ordered_region`, `ordered_writes` | enter, exit, skip | one post-wait channel per task |
| port registry, `bop_ports.c` | list of ports | calls each hook in registration order | function pointers |
| I/O port, `bop_io.c` | shared output buffers, understudy buffer | `BOP_printf`, flush at commit | port hooks |
| key-value checks, `key_value_checks.c` | per-task lists of keys | record and compare | not registered as a port |
| array bitmap, `ary_bitmap.c` | bit vector | set, test, union | pure |
| utilities, libc wrappers, allocator, IPA hooks | — | I/O, vendored or external code | — |

### What is hard

* Two sides decide the race by different means: one by locks and SIGUSR1, the
  other by a counter and SIGUSR2. Neither sees the other's decision at once.
* `partial_size` can be lowered at any time by any task, is tested outside its
  lock, and is read again by every process at several later points.
* A failed check is announced to the next task before the group is cut.
* Signals can be pending, blocked around fork, lost to a new child, or interrupt
  a blocking waitpid. MAIN's SIGCHLD handler blocks.
* SPEC tasks run user code on stale data: they can loop, exit or run out of memory.
* fork may fail at three places with three different fallbacks.

`PROJECT.json` lists these hazards at their lines, each with the properties that
would notice it going wrong.

### What makes each component correct

* Task control: one process at most continues the program; it is a SPEC only
  behind an unbroken sequence of checks, all passed, with all patches applied;
  one process at least continues; losers leave.
* Group synchronisation: the partial size only shrinks, waits end, the arrays are
  never indexed outside the group.
* Merge and range tree: the memory after the group commit equals the memory after
  sequential execution; maps denote the union of the ranges added.
* Post-wait and ordered regions: a receiver sees what the poster wrote last, or
  the check fails; ordered regions run in task order.
* I/O: output appears once, in sequential order, and none of a loser's.
* Monitor: the program's exit status is reported and no process is left.

## 2. Modules

### `TaskGroup`: what a group promises

Two variables: `checked`, the tasks validated so far, and `winners`, the process
chosen to continue. Tasks are validated in order, at most one process is ever
chosen, a SPEC `p` only when `0..p` are validated, MAIN only when nothing is.

### `BopPpr`: one group in PARALLEL mode

Starts after `_ppr_group_init` of the program's first group, so MAIN is the
leader of the process group, to which the understudy's extra
`kill(-monitor_group, SIGUSR1)` goes.

| model | code |
|---|---|
| `pc[p]` | `task_status`, `ppr_pos` and the place in the library where process `p` is; tasks are named by their `spec_order`, the understudy by -1 |
| `partial_size` … `undy_conceded` | the fields of `sync_data`; a lock is TRUE while it is held |
| `undy_ppr_count`, `gi` | the static counter; the loop index of `wait_group_commit_done` |
| `sig[p]`, `chld` | pending signals; MAIN is blocked inside `child_handler` |
| `patched` | the tasks whose `data_commit` has created a patch |
| `checked`, `missed`, `sent`, `main_aborted` | history, read by properties only |
| `PprBegin…`, `TaskInit` | `_BOP_ppr_begin`, `_ppr_task_init` |
| `AbortSpecMain`, `AbortSpec`, `AbortTest/Cap/Signal`, `AbortNextSpec`, `PartialGroupSetSize` | `BOP_abort_spec`, `BOP_abort_next_spec`, with the unlocked test and the locked assignment of `partial_group_set_size` as separate steps |
| `MallocRescue`, `SilentExit` | `BOP_malloc_rescue`, `_BOP_group_over`, the `_exit(0)` of `BOP_printf` |
| `PprEndMain`, `SpawnUndyFails`, `PprEndSpec`, `ReapExit` | `_BOP_ppr_end`, `spawn_undy`, first test of `ppr_task_commit` and its `exit(cleanup_children())` |
| `WaitPriorCheckDone`, `CheckCorrectness`, `DataCommit`, `LastTask`, `SignalCommitDone`, `WaitNextCommitDone`, `Recheck` | the rest of `ppr_task_commit` |
| `WaitGroupCommitDone` … `WaitUndyConceded` | `_task_group_commit` |
| `UndyStart` … `UndySuccFini` | the child's half of `spawn_undy`, `post_ppr_undy`, `BOP_fini` of the understudy |
| `SigUsr1Undy`, `SigUsr1`, `SigUsr2`, `ChildHandler…` | the signal handlers |

`Events` says what the user program and the operating system may do to the
group, so that a run can ask about one kind of trouble at a time. The operators
marked *Slip* are plausible mistakes, each placed before the definition it is a
mistake in; no specification uses them.

Abstractions, and why they lose nothing the properties tell apart:

* The outcome of a check is a free choice for a SPEC (the maps are data); MAIN
  passes, because `write_union` is empty when it checks.
* The lock inside `partial_group_set_size` is merged with the assignment it
  protects; the test before it is a step of its own. Acquire and release of the
  same lock in `wait_next_commit_done` are one step.
* A process that signals its own group runs its own handlers before `kill`
  returns (POSIX), so `KillUsr1` and `KillUsr2` include them.
* A task's SIGCHLD handler finds its only child dead and returns at once; only
  MAIN has two children, so only MAIN's handler is modelled.
* Child exit statuses are 0: the exit codes belong to the lifecycle.
* Patches are the set of tasks that have one.

Not in this module: SERIAL mode, nested regions (ignored by the code), a second
group, `exit()` called by MAIN inside its region, crashes by a fatal signal.

### `BopMerge`: the copy-and-merge port over several groups

Which memory does the process that continues after a group have? `BopMerge`
follows a program, a sequence of regions, through any number of groups and
compares the memory with `Sequential`, the memory of an execution without
speculation.

| model | code |
|---|---|
| `mem[p]` | the copy-on-write memory of task `p`; between groups `mem[0]` is the memory of SEQ |
| `read_map`, `write_map` | the maps of `bop_merge.c`, as sets of addresses |
| `write_union`, `patches` | the shared map and the shared array of patches, kept from group to group |
| `BopMergeInit` | `bop_merge_init`, at the first region of a group |
| `RunTask` | the region of a task, the fork of the next one, `ppr_reset`, `BOP_record_read`, `BOP_record_write` |
| `PprIsCorrect`, `Overlap` | `ppr_is_correct`, `check_for_overlap` |
| `PprCommit`, `CreatePatch` | `ppr_commit`, `create_patch` |
| `PprGroupCommit`, `ApplyPatches` | `ppr_group_commit`, `apply_patch`, `clear_patch` |
| `AbortSpec`, `Cut`, `UndyWins` | what task control does to the port: a cut group, a group the understudy wins |

Abstractions:

* The order of the hooks is the one `BopPpr` allows. Its races are not repeated:
  a task that fails takes all later ones with it at once. The abort after
  `data_commit` (`postwait.c`) is not included.
* A value is the term that computed it: the piece of code, and the values it had
  read. Two memories are equal only if each location was computed by the same
  code from the same inputs, so nothing depends on a choice of operations.
* The addresses a piece of code accesses are fixed by `program`. A region whose
  accesses depend on data has the datum in its read map, so a stale one fails
  the check in either case.
* Nobody waits for a post, so the map `received` is empty; `PostWait` is about
  what happens otherwise.
* The understudy runs the regions up to its finish line, or to the end of the
  program, in one step; it records nothing.

* The code between two regions accesses none of the modelled addresses. The
  record functions do nothing there (`ppr_pos == GAP`, `bop_merge.c:36`), although
  a SPEC runs that code ahead of the region before it, so a program that does
  access shared memory there gets no protection, marked or not. `README.md:8` does
  not mention the restriction.

`BlindWrites` lets regions write what they have not read.

### `PostWait`: channels and ordered regions in one group

Tasks run at the same time but hand data on, in task order, through channels on a
shared switch board. A program gives each task one of the `Kinds` of regions:
an ordered region, a skipped one, none; and the wrong uses the code lets through:
`late` modifies data after it has posted it, `early` accesses data before it
waits for it, `empty` writes nothing in its ordered region, `twice` nests
regions and then enters one whose channels have the same places on the board.

| model | code |
|---|---|
| `board` | `switch_board.channels` in use; `list` stands for `cc_first` and `cc_next` |
| `local_ch`, `ordered_writes`, `in_ordered` | `local_ch_id` and `local_ch_data`, `ordered_writes`, `in_ordered_region` with `ordered_region_id` |
| `received`, `received_n_used` | the maps of `postwait.c`, with value and sender |
| `write_union` | address to the `task` field of its range |
| `OrderedBegin`, `ChannelWait`, `Source`, `Receive` | `BOP_ordered_begin`, `channel_wait`, `receive_range`, `map_add_range_from_task` |
| `OrderedEnd`, `ChannelFill`, `Posted`, `SubtractPosted` | `BOP_ordered_end`, `channel_fill`, `channel_post` |
| `OrderedSkip`, `ChannelChain`, `ConnectChain` | `BOP_ordered_skip`, `channel_chain`, `connect_chain`, `set_chain` |
| `OrderedIgnored` | a begin inside a region, an end of a region the task is not in |
| `PprIsCorrect`, `FromLastWriter` | `ppr_is_correct`, `check_for_overlap` |
| `PprCommit`, `MatchFound`, `Unmodified` | `data_commit` of both ports, `mdfy_aftr_pst_chk` |

Abstractions: a range is one address, so the case of partly overlapping ranges,
in which the code aborts, does not occur. What happens under the board's lock is
one step; a waiting task reads a channel after `is_posted`, which is set last.
A failed assertion kills the task and tells nobody (`Crash`); one that fails in
`data_commit` has released the next task's check before (`crashed`), one that fails
while it waits for a channel has not. A task that aborts takes the later
ones with it and the understudy is absent, as in `BopMerge`: channels do nothing
in UNDY and SEQ.

### `Monitor`: from `BOP_init` to `BOP_fini`

The process the user starts forks the first worker and watches it. With every
group another process may continue the program (`front`), MAINs stay behind as
parents that hand their children's exit codes upwards, and an understudy that wins
kills its parent and becomes an orphan.

| model | code |
|---|---|
| `st[p]`, `parent`, `code` | the worker's status, the tree of processes, how each ended |
| `pending`, `monitor_pending` | SIGUSR2 and SIGINT of workers, SIGUSR1 and SIGUSR2 of the monitor |
| `mon`, `is_monitoring`, `errored`, `my_exit` | the two loops and the variables of `wait_process` |
| `final`, `flushed`, `undy_won`, `trouble` | history, read by properties |
| `spec_checked`, `in_handler` | the lock MAIN's check frees; the MAINs inside `child_handler` |
| `PprBegin`, `SpawnUndy`, `CheckDone` | a group of two: the fork of its SPEC, the fork of its understudy, MAIN's check |
| `SpecWins`, `SpecAborts`, `UndyWins` | the race, decided in one step; a SPEC wins only behind MAIN's check and over an understudy that is there to concede |
| `MainEnds`, `CleanDone`, `ReportChildren` | `end_clean`, `cleanup_children`, `report_child` |
| `ChildHandler`, `HandlerDone` | `child_handler`: MAIN is interrupted by the first child that ends and blocked until all have |
| `Exit`, `FiniDone`, `Flush` | `exit`, `BOP_fini`, the rest of `exit` |
| `SigUsr1`, `SigUsr2`, `ReportChild`, `Leave`, `MonitorEnd` | the monitor |
| `ErrorKillAll`, `Abort`, `ExitInRegion`, `MonitorInteruptFwd` | troubles: SIGSEGV, SIGABRT, `exit()` in MAIN, ^C |

Abstractions: a trouble happens at most once. Exit values are 0 and 1, all the
code tells apart. A fault is a fault of the program, so it strikes the process
that runs it for real; a SPEC that faults on stale data runs the same handler,
which ends the whole program in error (`bop_ppr.c:459` does not look at
`task_status`). A SPEC that waits for MAIN's check, or for an understudy that is
dead to concede, has no step but `SpecAborts`, which stands for the end a SPEC's
user code may come to and which is never promised.

### `BopIO`: output

Which text reaches the program's output, over groups of two in sequence? The
understudy's buffer is modelled cell by cell with `alloc`, `used` and the zero at
its end, since what `BOP_printf` gets right or wrong depends on them; a cell
holds a character that names its region, item and position. `io` is what the C
library keeps in a process: nothing if the output is a terminal, and copied by
fork. A failed fork and a failed assertion are part of the model. A process whose
assertion fails is not replaced: a SPEC waits for its understudy to concede.

| model | code |
|---|---|
| `undy_buffer` | `undy_buffer` |
| `MainPrints`, `SpecPrints`, `UndyPrints`, `Store`, `TooLong`, `Grow` | `BOP_printf` by task status |
| `SpecWrites`, `OthersWrite` | `BOP_fprintf` with its `BOP_abort_spec` |
| `IoGroupInit`, `IoGroupSucc`, `IoUndySucc`, `FreeAllBuffers` | the port's hooks |

In `BOP_printf` the case SPEC has no `break` and falls through to `_exit(0)`, so a
SPEC that prints ends and no SPEC's buffer is ever filled; they are left out. So are
the two error returns of `BOP_printf` (`bop_io.c:63-67`, a failure of `vsnprintf`, and
`bop_io.c:83-86`, a buffer that cannot grow).

### `RangeTree`: the maps of address ranges

The functions of `range_tree/dtree.c` as functions on trees: `Splay` (top-down
splay: a node passed on the way down is linked to the side of the root that is
found below it, as the left and right lists of the code are at the end),
`AddRange` with `AbsorbLeft` and `AbsorbRight`, `RemoveNode`, `MapOverlaps`,
`MapContains`, `MapUnion`, `MapIntersect`, `MapSubtract`, `MapClone`, `ToArray`.
Two maps undergo the operations of the interface in any order; every tree shape
the code can build within the bounds is reached, and in each state the result of
every further operation is compared with its meaning for the set of addresses the
map stands for. Data records and task numbers carried by ranges are left out.
Recursion over a tree is a recursive function on `Tree`, the trees of depth at most
`MaxAddr + 2`: ranges that are apart number at most one per address, and a tree
under construction has one more. TLC only tests membership in that set, it never
enumerates it; the proofs show that no operation leaves it.

### Proof modules

`BopPprProof`, `BopPprCommitProof`, `BopMergeProof`, `PostWaitProof`,
`MonitorProof`, `BopIOProof` and `RangeTreeProof` extend the modules they are about; `SetInduction`
holds induction over the natural numbers in the form they use. See section 4.

## 3. Runs

Group size 2 is the library's default. With 3 tasks there is one in the middle:
one that has a task before it and one after it, that can fail after the next one
has gone on. Deadlock is not checked where a group or a program really ends:
every process is dead, SEQ or gone.

| run | bounds | what it shows |
|---|---|---|
| `group2` | 2 tasks, every event | all safety properties hold, the race settles (or the two kills have crossed), and once it is won the losers leave, SPECs that loop included |
| `group3` | 3 tasks, every event | one winner, only complete and correct groups commit, refinement of `TaskGroup`; a task escapes the understudy's signal only through a late fork |
| `group3_race` | 3 tasks, no failing check, no abort after `data_commit` | the understudy concedes only to a SPEC that finishes; the race settles |
| `group3_conflict` | violation | a failed check lets the next task make the understudy concede and then kills it |
| `merge3` | 3 tasks, 3 regions, 2 addresses, every program whose regions read what they write | whoever continues after a group, cut short or not, has the sequential memory; a checked task has computed sequential results; MAIN passes its check |
| `merge3_stale` | violation, 3 tasks, 4 regions, 1 address | a patch of a group the understudy won is applied by a later one |
| `tree` | 7 addresses, ranges of at most 3, two maps | trees stay ordered; lookups, intersection, subtraction, splaying, removal are exact; adding covers the new range and nothing unasked, and loses addresses only when an old range encloses the new one |
| `tree_add` | violation, 6 addresses | adding a nested range loses the tail of the range it is nested in |
| `postwait` | 4 tasks, all programs of 7 kinds of regions | inside an ordered region a task sees sequential data; the two checks let no wrong result pass; a post reaches the task behind up to two that skip |
| `postwait_chain` | violation, 5 tasks, ordered or skipped | three tasks skip in reverse order, and the fourth waits forever |
| `monitor` | 2 groups, 4 troubles | the program's status and its output get out; the monitor ends, with the three exceptions of item 15; nobody is left |
| `io` | 3 regions, 2 items each, texts of 1 to 3 characters or a file | output and files are those of a sequential execution, with the exceptions the properties name |

`merge3` has three tasks, so that a check depends on the writes of two earlier
ones, and three regions, so that a group cut to two is followed by another that
meets what it left behind. One region more and the memory goes wrong, which is
`merge3_stale`: a task that is not the last leaves a patch, the understudy wins
two regions, and in the next two the task with the same number is the last.
Seven addresses give trees of four separate ranges, enough for every rotation and
for the lists of splay to have two members. Four tasks let a post go through a
chain of two skips, put together in either order, and let one task receive data
from another than the last writer; the chain that goes wrong needs three skips.
Two groups let every kind of process, a SPEC and an understudy that have won
included, be the parent of the next group. Three regions are a group of two and
one after it that meets the buffers it left; texts of up to 3 characters fill
buffers of 1, 2, 4 and 8 cells exactly, short of it and beyond.

### Properties

Of a group: `AtMostOneWinner` (never two continuations), `ConcededToHeir` (the
understudy gives up only to a SPEC that will finish), `CommitChecked` (a committer
has all earlier checks behind it), `CommitOnlyCorrect` (and all of them passed),
`NothingMissed` (no patch is missing when it applies them), `AbortSticks` (a
speculation MAIN aborted does not win), `EscapeByForkOnly` (no step but a
late fork leaves a task untold of the understudy's victory), `RaceSettles`,
`LosersLeave` (liveness), `ImplementsTaskGroup`.

Of the merge: `SequentialMemory` (the continuing process has the memory of a
sequential execution), `CheckedIsRight` (passing the check is sufficient for
having computed sequential results), `MainPasses` (the assertion in
`_ppr_check_correctness`).

Of the tree: `TreeOK` (ordered, ranges apart, `size` exact), `LookupExact`,
`SetOpsExact`, `AddSound` (an insertion covers the new range and nothing unasked),
`AddExact` (it is the union), which fails, and `AddExactUnlessInside`, which says
that it fails in one case only: an old range begins before the new one and ends
behind it.

Of post-wait: `OrderedIsSequential` (data inside an ordered region),
`CommittedIsRight` (what the check of reads and the check for modifications after
a post let through was computed from sequential data), `CommitIsSequential` (the
memory the last task continues with), `PostReaches` (nobody waits for a post that
has been made or skipped). They except the uses the code does not check: `empty`
and `early` regions, and for the last task `late` ones.

Of the lifecycle: `StatusReported`, `OutputFlushed` (safety), `MonitorEnds`,
`NoSurvivors` (liveness). An understudy that has won has no parent to report to,
which both safety properties except. `MonitorEnds` excepts `exit()` in a region,
SIGABRT of a worker that is not the leader, and behaviours that end in `Bereft`: an
understudy has died of a fault and its SPEC goes on forever.

Of output: `BufferHoldsText`, `OutputIsSequential`, `FileIsSequential`,
`AssertionsHold`.

### Fairness

`FairSpec` of `BopPpr` gives weak fairness to the steps of the library in every
process and to the delivery of signals: the scheduler runs every process, and a
wait is a spin on a lock that succeeds once the lock stays free. MAIN's and the
understudy's user code is fair, and the understudy's program terminates
(`UndyExit`): they run the program on the data a sequential execution would
have. Nothing is assumed of a SPEC's user code.

`Spec` of `Monitor` gives weak fairness to the monitor and to each worker: every
process is scheduled and the program ends. That a SPEC aborts, and every trouble,
is possible and never promised; nor is any worker's choice between the
continuations it has. A SPEC waiting for something that will not come therefore
waits forever in some behaviour; it is for these that `MonitorEnds` has the
exception `Bereft`.

### What the runs found

These are `findings` with their source lines in `PROJECT.json`.

1. *A failed check is announced too early* (`bop_ppr.c:309`, `group3_conflict`).
   `signal_check_done` frees the next task before `BOP_abort_spec` cuts the group,
   and nobody reads `spec_correct`. The next task may enter `_task_group_commit`,
   signal the group, make the understudy concede, and die in its own SIGUSR1
   handler because the size has changed meanwhile: nobody continues the program.
2. *Stale patches* (`bop_merge.c:252`, `merge3_stale`). Only a committing SPEC
   clears patches; after the understudy has won, a later group can apply old ones.
3. *Nested ranges* (`range_tree/dtree.c:162`, `tree_add`). `absorb_left` takes the
   end of the new range for the end of the union. The theorem
   `AddingLosesOnlyInside` shows that insertion loses nothing in any other case.
4. *Chains* (`postwait.c:188`, `postwait_chain`). When a posted channel joins a
   chain that has more than one unposted one, only the last of them is marked.

TLC shows the following with the constants given; no run is kept for them.

5. *Test outside the lock* (`bop_ppr_sync.c:40`). A larger cap can overwrite a
   smaller one, and a group with a task whose check failed commits:
   `CommitOnlyCorrect` with `GroupSize = 4`, `Events = {"conflict", "abort_next"}`.
   In the same way `BOP_abort_next_spec` of task 1 can undo MAIN's abort, so
   `AbortSticks` is checked for groups of two only, and with `GroupSize = 4`,
   `Events = {"conflict", "abort"}` the patch of a task is missing when the group
   is committed: `NothingMissed`. The theorems of `BopPprCommitProof` show that the
   three properties have no other way to fail.
6. *Crossing kills* (`bop_ppr.c:254`). The comment at the finish line speaks of
   blocking the signal; the code blocks nothing, and the SIGUSR1 of the last SPEC
   and the SIGUSR2 of the understudy can kill both sides. `ConcededToHeir` and
   `RaceSettles` except this case, by the operator `Crossed`; without it `group2`
   fails.
7. *Fork with a blocked signal pending* (`bop_ppr.c:124`). The child never gets the
   signal: `~Escaped(p)` of every task `p` as an invariant, with `GroupSize = 3`,
   `Events = {}`. There is no other way to escape: `EscapeByForkOnly` in `group3`,
   and `ForksEscapeOnly` for every group size.
8. *The last task has no patch* (`bop_merge.c:252`). Patches of earlier tasks are
   applied over the last task's memory and overwrite what it wrote itself without
   reading it: `SequentialMemory` with `BlindWrites = TRUE`, two tasks, two regions,
   one address. The unit test of this case calls `data_commit` for every task,
   which task control does not.
9. *The last task does not look for modifications* (`postwait.c:411`). It runs no
   `data_commit`: `CommitIsSequential` without the exception for `late`. Without
   `Waits(p)` it shows that posted data is lost to a last task that does not wait.
10. *Unchecked uses of ordered regions* (`postwait.c:385`). A wait that finds the
    data already accessed is abandoned, not aborted; a region that writes nothing
    breaks the sequence: `CommittedIsRight` without `Spoiled`.
11. *An exact fit* (`bop_io.c:70`). A text that fills the understudy's buffer
    exactly loses its last character and hides what follows: `BufferHoldsText`
    without `truncated`.
12. *Buffers after a failed fork* (`bop_io.c:139`). The next group's
    `io_group_init` fails its assertion: `AssertionsHold` without `unforked`.
13. *Lost output of MAIN* (`bop_io.c:41`). If the output is not a terminal, what
    MAIN has printed is in its process, which ends with `_exit` when its SPEC wins:
    `OutputIsSequential` without `dropped`.
14. *An understudy that wins is an orphan* (`bop_ppr.c:254`). The monitor can end
    with value 0 and kill the group before the understudy's program has written
    its output: `StatusReported` and `OutputFlushed` without `undy_won`.
15. *`exit()` in a region* (`bop_ppr.c:813`) and *SIGABRT of a worker that is not
    the leader* (`bop_ppr.c:572`): the monitor never ends, `MonitorEnds` without
    its exceptions. The same happens after *a fault of the understudy while its SPEC
    runs* (`bop_ppr.c:631`): SIGCHLD takes MAIN into `child_handler`, where it waits
    for the SPEC as well, unless it does so in `end_clean`. The SPEC may loop, wait
    for the check MAIN has not made yet (`bop_ppr.c:304`), or spin in
    `wait_undy_conceded` (`bop_ppr.c:338`), as nobody is left to concede; and the
    monitor, which has got SIGUSR2 and left its loop, waits for MAIN at
    `bop_ppr.c:582` before it kills anybody. The comment at `bop_ppr.c:435-436` says
    that it "immediately kills all running processes using SIGKILL, and exits in
    error". `MonitorEnds` without `Bereft` fails with `NumGroups = 1`,
    `Troubles = {"segv"}`, once with MAIN interrupted before its check and once
    after it.

Known without a model: after a failed fork of the understudy (`bop_ppr.c:275`)
MAIN continues alone and tells nobody, so a SPEC that has ended its region spins
in `wait_prior_check_done` forever; `LosersLeave` is therefore about a race that
the understudy or a SPEC has won. Accesses between regions are not recorded
(section 2, `BopMerge`). A task that skips the same ordered region twice closes
its chain to a ring, on which `connect_chain` loops under the lock; `PostWait` has
no such program. `mdfy_aftr_pst_chk` asserts a match in the sender's patch, which
need not exist yet (`postwait.c:400`).

The comment at `bop_ppr.c:423-439` has the two signals swapped: the understudy
sends SIGUSR2, the succeeding SPEC SIGUSR1, as the comments at the handlers say.

## 4. Proofs

Assumptions on constants are the ones in the modules: a group size in 2..100 (the
range of `BOP_GroupSize`, `bop_ppr.c:673`, without SERIAL mode) and natural numbers
of regions, groups and operations.
Every theorem rests on one inductive invariant, which TLC has checked on the
instances of section 3 before it was proved; the proof that a step preserves it
has one lemma or one case per action.

### One group: `BopPprProof`

For every group size and every set of events.

* `TypeCorrect`: `Spec => []TypeOK`, from `TypeInv`, which adds that the
  understudy's count stays below the number of regions as long as it runs.
* `OneWinner`: `Spec => []AtMostOneWinner`. The strengthening `RaceInv` says: the
  understudy exists only when MAIN cannot turn SEQ any more (`MainOut`); the lock
  `undy_created` is released by the understudy only (`CreatedByUndy`) and acquired
  by one SPEC only, so that one at most is between the acquire and the end
  (`OneCommitter`); and `undy_conceded` is free, or has been consumed by a SPEC,
  only when the understudy is dead (`ConcededDead`). The one winner then follows
  by cases.
* `ChecksPrecedeCommit`: `Spec => []CommitChecked`. `CheckInv` follows the checks
  through the locks: a freed `spec_checked[i]` means `i` is in `checked`, and
  `checked` is a prefix of the tasks; a task past its wait has all earlier tasks
  checked; a task past its check has passed it.
* `Refinement`: `Spec => Group!Spec`. Every step either changes neither
  `checked` nor the winner, or validates the next task, or chooses one process
  while there is none.

### What a group commits: `BopPprCommitProof`

`CommitOnlyCorrect`, `NothingMissed` and `AbortSticks` are false of large groups:
`partial_group_set_size` tests `partial_size` before it takes the lock, and of two
tasks that cut the group the later assignment can raise the size again (item 5
above). The theorems say that this is the only reason:

    Spec /\ [][Shrinks]_vars => []CommitOnlyCorrect      ShrinkingCommitsCorrect
    Spec /\ [][Shrinks]_vars => []NothingMissed          ShrinkingMissesNothing
    Spec /\ [][Shrinks]_vars => []AbortSticks            ShrinkingAbortSticks

`Shrinks` is `partial_size' <= partial_size`. It restricts no action otherwise:
every behaviour in which no two caps overlap satisfies it, and it is what the code
would guarantee if the test were repeated under the lock. `CommitInv` follows the
locks `data_committed`: a free one means that its task's check has passed and its
patch is written, or that the group has been cut to end at that task. A task that
has gone through all of them and is still the last of the group therefore has only
committed tasks before it. `AbortInv` says which tasks can still survive an abort
by MAIN, and that the size stays 1.

`ConcededToHeir` holds for groups of two and fails for three (item 1), and from three
tasks on a task can escape SIGUSR2 (item 7). Again the theorems name the window in
the code that is the only reason:

    Spec /\ [][KilledByLast]_vars => []ConcededToHeir    ConcededToLast
    Spec => EscapeByForkOnly                             ForksEscapeOnly

`KilledByLast`: a SPEC that executes `kill( 0, SIGUSR1 )` (`bop_ppr.c:337`) is still
the last of the group; the code has tested this some steps before and the group may
have been cut since; TLC has checked the implication with three tasks and every event
first. `EscapeByForkOnly` has no condition: a step after which a task goes on untold
is the fork that creates it (`bop_ppr.c:124`), after the understudy's
`kill( 0, SIGUSR2 )`. `SignalInv` relates the signals
pending at each process to the kills executed: only a kill makes a signal pending
(`SignalSent`), a dead understudy has been signalled (`DeadSignalled`), a SPEC
waiting for the concession has no SIGUSR1 of its own pending (`SurvivorQuiet`), and
SIGUSR2 is sent by an understudy that exists (`VictorBorn`). The heir is then the
sender: nothing can end it but the other kill.

### The merge: `BopMergeProof`

For every group size, set of addresses and program.

* `MainAlwaysPasses`: `Spec => []MainPasses`. `ShapeInv` says which tasks have
  started, ended and passed, and that the write union is the union of the writes of
  those that passed.
* `MergeIsSequential` and `CheckIsSufficient`:
  `~BlindWrites => (Spec /\ [][StartsClean]_vars => []SequentialMemory)`, and the
  same for `CheckedIsRight`. Both conditions name a defect of the code that a run
  or item 2 or 8 above shows: `StartsClean` says that a group begins without
  patches of an earlier one, `~BlindWrites` that regions read what they write.
  `MemInv` says that every task has run its region on the memory the group started
  from, the sequential one, and that the patches are exactly those of the tasks that
  have committed. That the region of a task that passed has then read and written
  what it would have in sequence follows from `PassedDisjoint`: no region between has
  written what it read (`Unwritten`, by induction over those regions). The last
  writer of an address then gives the memory put together from the patches.

### Ordered regions: `PostWaitProof`

For every group size and every program made of the seven kinds of regions:
`OrderedAlwaysSequential`, `CommittedAlwaysRight` and `CommitAlwaysSequential`, each
`Spec => []P` for the property of the run `postwait`. The inductive invariant
`PwInv` has four parts:

* `Private`: the maps, the local channel and `in_ordered` of a task are determined by
  the kind of its region and the steps it has made; the tables `InRegion`,
  `OrderedWrites`, `Reads` and `Writes` say how.
* `BoardInv`: every channel on the board is that of a task in region 1, since the ids
  of region 11, which has the same places, come too late. The tasks on one chain are
  neighbours and all but the first of them skip the region, so one at most has posted
  (`OnBoardIn`, `OnePoster`), and a task that finds its place posted gets the data of
  the last task that entered the region (`SourceIsSequential`). That data is what
  the task leaves in sequence (`PostedData`), unless it goes on to modify it.
* `MemoryOf`, `ReceivedBy`: what a task has in memory and from whom.
* `CommitInv`: which addresses are in the write union, that of the tasks that have
  passed one at most accesses `y`, and that none commits whose data was modified
  after the post: the posted value is the sender's second step, its patch holds the
  fourth (`LateIsModified`).

`PostReaches` is false for more than four tasks (item 4 above). The theorem says that
this is the only reason:

    Spec /\ [][MarksChain]_vars => []PostReaches          MarkedChainsReach

`MarksChain` says that a skip leaves the whole chain posted or none of it, which is
what the code would guarantee if `connect_chain` marked the old chain from its
first channel on; it restricts no other step, and no behaviour in which tasks skip
in their order. `ReachInv` adds to `PwInv` that channels of one chain are
posted together and that a task that has skipped is on the chain of the task before
it; a post then travels from MAIN to the waiting task by induction over the tasks
between them.

### The monitor: `MonitorProof`

For every number of groups and every set of troubles, `ExitStatusReported`
(`Spec => []StatusReported`) and `NoOutputLost` (`Spec => []OutputFlushed`).
`MonitorInv` describes the tree of processes while the monitor runs. The processes
that have been the front form a chain, the first worker and then the winning SPEC of
each group, each the child of the one before; those behind the front are about to
check, wait or clean up, and losers have ended with value 0 (`Tree`). No process of the chain ends before
the front does, and each ends with 0 exactly if the program did (`Outcome`); a front
that has ended without a fault has written its output (`Finals`); the monitor's own
value is that of the first worker (`Report`). Nothing is claimed once an understudy
has won or the user has interrupted the program, which the properties except.

### Output: `BopIOProof`

For every number of regions, of operations and of characters: `BufferKeepsText`,
`OutputAlwaysSequential`, `FileAlwaysSequential`, `AssertionsAlwaysHold`, each
`Spec => []P` for the property of the run `io`. Three layers:

* `FlattenNext` and the lemmas after it say what one more operation adds to the
  sequential output.
* `Holds(b, text, exact)` relates a buffer to a text: the first zero of the buffer
  ends a front part of the text, and if `exact` all of it. `StoreHolds` shows
  that `BOP_printf`, with the failed first attempt, the doubling and the second
  attempt, appends to what the buffer holds, and keeps `exact` unless the text ends
  at the last cell. `CStringIs` says what is printed of such a buffer.
* `IoInv` says of each task what it has printed so far, in its process or to the
  terminal, compared to `TextAt(n, k)`, the sequential output up to operation `k`
  after `n` regions; where the file stands; and that a SPEC still running has met
  no output operation, so that one that wins has an empty region.

### Range trees: `RangeTreeProof`

For every address space (`MaxAddr`), every bound on the ranges given to an
operation (`MaxSize`), and every sequence of operations on the two maps:

* `TreesStayOrdered`: `Spec => []TreeOK`.
* `LookupsAreExact`: `Spec => []LookupExact`.
* `AddingIsSound`: `Spec => []AddSound`.
* `AddingLosesOnlyInside`: `Spec => []AddExactUnlessInside`. `AddExact` itself is
  false (item 3); this is the exact boundary of the defect on the side of the
  caller: whoever never adds a range enclosed by an old one loses nothing.
* `SetOperationsAreExact`: `Spec => []SetOpsExact`. That intersection, difference
  and copy are exact although insertion is not needs an argument of its own: they
  insert ranges in increasing order into an empty map, where every new range lies
  behind all old ones (`AddLast`, `AddAllFacts`).

The inductive invariant `MapsOK` says of both maps that the tree is a search tree
whose ranges neither overlap nor touch (`BST`: the in-order sequence is separated)
and that `size` counts its nodes. Its weight is in the lemmas about the operators,
one per function of `dtree.c`, each by induction on the number of nodes:

* `DepthByCount`: a tree of `n` separated ranges has depth at most `n`, and there
  are at most `MaxAddr + 1` of them, so that every tree an operation builds is in
  `Tree`, where the recursive functions are defined.
* `SplayFacts`: splay keeps the in-order sequence, and the new root is next to the
  key (`Near`): if the key lies before it, all ranges of the left subtree begin
  before the key, and the other way round.
* `AbsorbLeftFacts`, `AbsorbRightFacts`: what is left of the subtree lies apart
  from the grown range, the range grows by addresses of the subtree only, the nodes
  freed are counted, and an address that is lost lies on the far side of the range.
* `AddRangeFacts` puts them together in the three branches of `map_add_range`; the
  last fact with `Near` leaves one case in which an address is lost.
* `OverlapHits`, `MapContainsFacts`, `RemoveNodeFacts`: the lookups and the removal
  on any search tree. `InsideFacts` and `OutsideFacts`: the loops of
  `map_intersect` and `map_subtract` cut a range into pieces in increasing order.

### Induction over data

The induction theorems of the library take a predicate as a parameter, which the
installed provers cannot instantiate. `SetInduction` states induction for a set
instead: a set of natural numbers that holds 0 and, with a number, the next one,
holds them all. A predicate is then written as the set of numbers that satisfy it.
This is enough for what recursive functions compute (`FlattenSeq`, the doubling in
`Grow`, sequential execution in `BopMerge` and `PostWait`), for the existence of a least element
and for the last writer of an address. `RangeTreeProof` first proves, by induction on
the depth, that each recursive function on trees satisfies its defining equation
(the lemmas whose names end in `Eq`), and then argues from the equation.

### What stays with TLC

* Liveness: `RaceSettles`, `LosersLeave`, `MonitorEnds`, `NoSurvivors`.
* The unconditional forms of the four properties of `BopPpr` that are proved under
  a condition: TLC shows them on the instances of section 3 in which they hold.
* The violations: `tree_add`, `merge3_stale`, `group3_conflict`, `postwait_chain`.

## 5. Plan

The modules of the first plan are written, and every invariant a passing run checks
is stated by a theorem. What is left: two groups of `BopPpr` in sequence, with `ppr_sync_data_reset`,
`ppr_group_set_size` and a survivor of the first group.

Not modelled:

* SERIAL mode (`BOP_GroupSize=1`): one process, no speculation.
* `key_value_checks.c` and `ary_bitmap.c`: nothing calls them, no port registers
  them.
* Terminal control, messages, environment variables, libc wrappers: pure I/O.
* The vendored allocator and the hooks of a submodule that is not in the
  repository.
