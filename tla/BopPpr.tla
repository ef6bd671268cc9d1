------------------------------- MODULE BopPpr -------------------------------
(***************************************************************************)
(* One group of possibly parallel regions (PPRs) executed in PARALLEL      *)
(* mode: the processes that bop_ppr.c forks, the shared synchronisation    *)
(* record of bop_ppr_sync.c, and the signals with which the speculation    *)
(* and the understudy race for the right to continue the program.          *)
(*                                                                         *)
(* The processes are the tasks 0 .. GroupSize-1, named by their            *)
(* spec_order, and the understudy.  Task 0 is MAIN, which runs the first   *)
(* region for real; task p+1 is forked by task p at the start of p's       *)
(* region and runs the next one speculatively (SPEC).  At the end of its   *)
(* region MAIN forks the understudy (UNDY), which runs the same regions    *)
(* again one after the other.  The module starts just after                *)
(* _ppr_group_init and ends when a process has become SEQ, or has left the *)
(* program, and the others are gone.                                       *)
(***************************************************************************)
EXTENDS Integers, FiniteSets

CONSTANTS GroupSize,  \* BOP_GroupSize
          Events      \* what the user program and the OS may do to the group

(* BOP_init reads BOP_GroupSize as a number in 1 .. 100 and runs a group   *)
(* in PARALLEL mode when it is at least 2.                                 *)
ASSUME GroupSizeAssumption == GroupSize \in 2..100

(***************************************************************************)
(* "conflict"    a SPEC's correctness check may fail                       *)
(* "late_abort"  a port may abort a SPEC inside data_commit (postwait)     *)
(* "abort"       BOP_abort_spec in a region or a gap: called by the user,  *)
(*               by a port, or by BOP_fini when a SPEC calls exit()        *)
(* "abort_next"  BOP_abort_next_spec                                       *)
(* "silent_exit" _exit(0) of a SPEC in user code: BOP_group_over,          *)
(*               BOP_malloc_rescue, BOP_printf                             *)
(* "malloc"      BOP_malloc_rescue in MAIN                                 *)
(* "fork_fail"   fork() may return -1                                      *)
(* "other_region" the program's regions have different ids                 *)
(***************************************************************************)
EventName == {"conflict", "late_abort", "abort", "abort_next",
              "silent_exit", "malloc", "fork_fail", "other_region"}

ASSUME EventsAssumption == Events \subseteq EventName

Undy == -1                      \* the spec_order of the understudy
Task == 0 .. GroupSize-1
SpecTask == 1 .. GroupSize-1
Proc == Task \cup {Undy}

VARIABLES
  pc,              \* where each process is
  partial_size,    \* the fields of sync_data, shared by all processes; a
  spec_checked,    \* lock is TRUE while it is held
  spec_correct,
  data_committed,
  undy_created,
  undy_conceded,
  undy_ppr_count,  \* regions the understudy has finished
  gi,              \* the loop index of wait_group_commit_done, per task
  sig,             \* the signals pending at each process
  chld,            \* MAIN is inside its SIGCHLD handler
  patched,         \* tasks whose patch is in the shared commit space
  checked,         \* history: tasks that have signalled their check
  missed,          \* history: tasks that applied an incomplete set of patches
  sent,            \* history: "USR1", "USR2" sent to the whole process group
  main_aborted     \* history: MAIN has asked to abort the speculation

sync == <<partial_size, spec_checked, spec_correct, data_committed,
          undy_created, undy_conceded>>
history == <<checked, missed, sent, main_aborted>>
vars == <<pc, sync, undy_ppr_count, gi, sig, chld, patched, history>>

(***************************************************************************)
(* Locations.  "newborn" is a forked task that has not yet counted up its  *)
(* spec_order.  A "_cap" location lies between the test and the locked     *)
(* assignment of partial_group_set_size: the test is made without the      *)
(* lock.  The lock itself needs no location, since nobody stops while      *)
(* holding it other than by dying together with the group.                 *)
(***************************************************************************)
UserLoc == {"gap", "ppr"}
CapLoc == {"gap_cap", "ppr_cap"}
TaskLoc == {"none", "newborn", "begin", "fail", "abort_cap", "abort_sig",
            "reap_exit", "wait_prior", "check", "decide", "sig_commit",
            "wait_next", "recheck", "gwait", "apply", "wait_created", "kill",
            "wait_conc", "seq", "reap", "dead"} \cup UserLoc \cup CapLoc
UndyLoc == {"none", "undy_new", "finish", "fini", "seq", "exit_kill",
            "exit_fini", "exited", "dead"} \cup UserLoc

Signal == {"USR1", "USR2", "CHLD"}

(* A process that still takes part in the group. *)
Alive(p) == pc[p] \notin {"none", "dead", "seq", "exited"}

(* A process that continues the program after the group, or has ended it.  *)
Winner(p) == pc[p] \in {"seq", "exited"}

(* The processes p has forked, and whether waitpid has nothing left to     *)
(* wait for.  A task whose child has become SEQ keeps waiting for it.      *)
ChildrenOf(p) == ({p + 1} \cap Task) \cup (IF p = 0 THEN {Undy} ELSE {})
ChildrenGone(p) == \A q \in ChildrenOf(p) : pc[q] \in {"none", "dead", "exited"}

Goto(p, loc) == pc' = [pc EXCEPT ![p] = loc]

(* MAIN does not run while its SIGCHLD handler waits for its children.     *)
At(p, loc) == pc[p] = loc /\ (p = 0 => ~chld)

(* Pending signals after kill(0, s), and after the death of p, which only  *)
(* MAIN can have two children to be told of.                               *)
Sent(s) == [q \in Proc |-> IF Alive(q) THEN sig[q] \cup {s} ELSE sig[q]]
Buried(sg, p) ==
  [q \in Proc |-> CASE q = p -> {}
                    [] q = 0 /\ p \in ChildrenOf(0) /\ Alive(0) -> sg[q] \cup {"CHLD"}
                    [] OTHER -> sg[q]]

Die(p) == Goto(p, "dead") /\ sig' = Buried(sig, p)
BecomeSeq(p) == Goto(p, "seq") /\ sig' = [sig EXCEPT ![p] = {}]

-----------------------------------------------------------------------------
(* _ppr_group_init: ppr_sync_data_reset leaves every lock but              *)
(* sync_data->lock held; the SEQ process becomes MAIN, inside              *)
(* _BOP_ppr_begin.                                                         *)
Init ==
  /\ pc = [p \in Proc |-> IF p = 0 THEN "begin" ELSE "none"]
  /\ partial_size = GroupSize
  /\ spec_checked = [p \in Task |-> TRUE]
  /\ spec_correct = [p \in Task |-> FALSE]
  /\ data_committed = [p \in Task |-> TRUE]
  /\ undy_created = TRUE
  /\ undy_conceded = TRUE
  /\ undy_ppr_count = 0
  /\ gi = [p \in Task |-> 0]
  /\ sig = [p \in Proc |-> {}]
  /\ chld = FALSE
  /\ patched = {}
  /\ checked = {}
  /\ missed = {}
  /\ sent = {}
  /\ main_aborted = FALSE

-----------------------------------------------------------------------------
(* The start of a region.                                                  *)

(* _BOP_ppr_begin, the cases MAIN (just initialised) and SPEC (from a gap). *)
PprBeginFork(p) ==
  /\ \/ p = 0 /\ At(p, "begin")
     \/ p > 0 /\ At(p, "gap")
  /\ p < partial_size - 1
  /\ pc' = [pc EXCEPT ![p] = "ppr", ![p + 1] = "newborn"]
  /\ UNCHANGED <<sync, undy_ppr_count, gi, sig, chld, patched, history>>

PprBeginNoFork(p) ==
  /\ At(p, "gap")
  /\ p >= partial_size - 1
  /\ Goto(p, "ppr")
  /\ UNCHANGED <<sync, undy_ppr_count, gi, sig, chld, patched, history>>

(* MAIN turns SEQ; a SPEC calls partial_group_set_size( spec_order + 1 ).  *)
PprBeginForkFails(p) ==
  /\ "fork_fail" \in Events
  /\ p < partial_size - 1
  /\ \/ p = 0 /\ At(p, "begin") /\ BecomeSeq(p)
     \/ p > 0 /\ At(p, "gap") /\ Goto(p, "ppr_cap") /\ UNCHANGED sig
  /\ UNCHANGED <<sync, undy_ppr_count, gi, chld, patched, history>>

(* _ppr_task_init in the forked task: spec_order += 1. *)
TaskInit(p) ==
  /\ At(p, "newborn")
  /\ Goto(p, "gap")
  /\ UNCHANGED <<sync, undy_ppr_count, gi, sig, chld, patched, history>>

-----------------------------------------------------------------------------
(* What the user program, or a port on its behalf, may call.               *)

(* Slip: MAIN forgets to shrink the group. *)
AbortSpecMainKeepsSize ==
  /\ "abort" \in Events
  /\ At(0, "ppr")
  /\ main_aborted' = TRUE
  /\ UNCHANGED <<pc, sync, undy_ppr_count, gi, sig, chld, patched,
                 checked, missed, sent>>

(* BOP_abort_spec in MAIN: cap the group at MAIN itself and go on. *)
AbortSpecMain ==
  /\ "abort" \in Events
  /\ At(0, "ppr")
  /\ main_aborted' = TRUE
  /\ IF partial_size > 1 THEN Goto(0, "ppr_cap") ELSE UNCHANGED pc
  /\ UNCHANGED <<sync, undy_ppr_count, gi, sig, chld, patched,
                 checked, missed, sent>>

(* BOP_abort_spec in a SPEC: the steps from "fail" on. *)
AbortSpec(p) ==
  /\ "abort" \in Events
  /\ pc[p] \in UserLoc
  /\ Goto(p, "fail")
  /\ UNCHANGED <<sync, undy_ppr_count, gi, sig, chld, patched, history>>

(* BOP_abort_next_spec: MAIN caps at 1, which is its spec_order + 1 too. *)
AbortNextSpec(p) ==
  /\ "abort_next" \in Events
  /\ partial_size > p + 1
  /\ \/ At(p, "gap") /\ Goto(p, "gap_cap")
     \/ At(p, "ppr") /\ Goto(p, "ppr_cap")
  /\ main_aborted' = (main_aborted \/ p = 0)
  /\ UNCHANGED <<sync, undy_ppr_count, gi, sig, chld, patched,
                 checked, missed, sent>>

(* The assignment of partial_group_set_size( spec_order + 1 ). *)
PartialGroupSetSize(p) ==
  /\ \/ At(p, "gap_cap") /\ Goto(p, "gap")
     \/ At(p, "ppr_cap") /\ Goto(p, "ppr")
  /\ partial_size' = p + 1
  /\ UNCHANGED <<spec_checked, spec_correct, data_committed, undy_created,
                 undy_conceded, undy_ppr_count, gi, sig, chld, patched, history>>

(* The ways a SPEC calls _exit(0) without telling the group. *)
SilentExit(p) ==
  /\ "silent_exit" \in Events
  /\ pc[p] \in UserLoc
  /\ Die(p)
  /\ UNCHANGED <<sync, undy_ppr_count, gi, chld, patched, history>>

(* BOP_malloc_rescue in MAIN: the understudy takes over, MAIN _exits. *)
MallocRescue ==
  /\ "malloc" \in Events
  /\ At(0, "ppr")
  /\ pc' = [pc EXCEPT ![0] = "dead", ![Undy] = "undy_new"]
  /\ sig' = Buried(sig, 0)
  /\ UNCHANGED <<sync, undy_ppr_count, gi, chld, patched, history>>

-----------------------------------------------------------------------------
(* BOP_abort_spec in a SPEC: partial_group_set_size( spec_order ),         *)
(* signal_commit_done, end_clean.                                          *)

AbortTest(p) ==
  /\ pc[p] = "fail"
  /\ Goto(p, IF partial_size > p THEN "abort_cap" ELSE "abort_sig")
  /\ UNCHANGED <<sync, undy_ppr_count, gi, sig, chld, patched, history>>

(* Slip: the group is cut one task too short. *)
AbortCapTooShort(p) ==
  /\ pc[p] = "abort_cap"
  /\ partial_size' = p - 1
  /\ Goto(p, "abort_sig")
  /\ UNCHANGED <<spec_checked, spec_correct, data_committed, undy_created,
                 undy_conceded, undy_ppr_count, gi, sig, chld, patched, history>>

AbortCap(p) ==
  /\ pc[p] = "abort_cap"
  /\ partial_size' = p
  /\ Goto(p, "abort_sig")
  /\ UNCHANGED <<spec_checked, spec_correct, data_committed, undy_created,
                 undy_conceded, undy_ppr_count, gi, sig, chld, patched, history>>

AbortSignal(p) ==
  /\ pc[p] = "abort_sig"
  /\ data_committed' = [data_committed EXCEPT ![p] = FALSE]
  /\ Goto(p, "reap")
  /\ UNCHANGED <<partial_size, spec_checked, spec_correct, undy_created,
                 undy_conceded, undy_ppr_count, gi, sig, chld, patched, history>>

(* end_clean: cleanup_children, then _exit. *)
EndClean(p) ==
  /\ pc[p] = "reap"
  /\ ChildrenGone(p)
  /\ Die(p)
  /\ UNCHANGED <<sync, undy_ppr_count, gi, chld, patched, history>>

-----------------------------------------------------------------------------
(* The end of a region.                                                    *)

(* MAIN: spawn_undy, then ppr_task_commit, whose first test MAIN passes    *)
(* because partial_size is at least 1.  MAIN does not wait for a check.    *)
PprEndMain ==
  /\ At(0, "ppr")
  /\ pc' = [pc EXCEPT ![0] = "check", ![Undy] = "undy_new"]
  /\ UNCHANGED <<sync, undy_ppr_count, gi, sig, chld, patched, history>>

(* spawn_undy when fork fails, at the end of the region or in              *)
(* BOP_malloc_rescue: MAIN turns SEQ and commits nothing.                  *)
SpawnUndyFails ==
  /\ "fork_fail" \in Events
  /\ At(0, "ppr")
  /\ BecomeSeq(0)
  /\ UNCHANGED <<sync, undy_ppr_count, gi, chld, patched, history>>

(* SPEC: the first test of ppr_task_commit. *)
PprEndSpec(p) ==
  /\ pc[p] = "ppr"
  /\ Goto(p, IF p >= partial_size THEN "reap_exit" ELSE "wait_prior")
  /\ UNCHANGED <<sync, undy_ppr_count, gi, sig, chld, patched, history>>

(* exit(cleanup_children()) outside the group: BOP_fini aborts the SPEC. *)
ReapExit(p) ==
  /\ pc[p] = "reap_exit"
  /\ ChildrenGone(p)
  /\ Goto(p, "fail")
  /\ UNCHANGED <<sync, undy_ppr_count, gi, sig, chld, patched, history>>

(* Slip: the check does not wait for the one before it. *)
CheckWithoutWaiting(p) ==
  /\ pc[p] = "wait_prior"
  /\ Goto(p, "check")
  /\ UNCHANGED <<sync, undy_ppr_count, gi, sig, chld, patched, history>>

WaitPriorCheckDone(p) ==
  /\ pc[p] = "wait_prior"
  /\ ~spec_checked[p - 1]
  /\ spec_checked' = [spec_checked EXCEPT ![p - 1] = TRUE]
  /\ Goto(p, "check")
  /\ UNCHANGED <<partial_size, spec_correct, data_committed, undy_created,
                 undy_conceded, undy_ppr_count, gi, sig, chld, patched, history>>

(* ppr_check_correctness and signal_check_done.  MAIN reads nothing that   *)
(* an earlier task has written, so it passes.                              *)
Verdict(p) == IF p > 0 /\ "conflict" \in Events THEN BOOLEAN ELSE {TRUE}

(* Slip: a failed check is recorded and otherwise ignored. *)
CheckIgnored(p) ==
  /\ At(p, "check")
  /\ \E passed \in Verdict(p) : spec_correct' = [spec_correct EXCEPT ![p] = passed]
  /\ Goto(p, "decide")
  /\ spec_checked' = [spec_checked EXCEPT ![p] = FALSE]
  /\ checked' = checked \cup {p}
  /\ UNCHANGED <<partial_size, data_committed, undy_created, undy_conceded,
                 undy_ppr_count, gi, sig, chld, patched,
                 missed, sent, main_aborted>>

CheckCorrectness(p) ==
  /\ At(p, "check")
  /\ \E passed \in Verdict(p) :
       /\ spec_correct' = [spec_correct EXCEPT ![p] = passed]
       /\ Goto(p, IF passed THEN "decide" ELSE "fail")
  /\ spec_checked' = [spec_checked EXCEPT ![p] = FALSE]
  /\ checked' = checked \cup {p}
  /\ UNCHANGED <<partial_size, data_committed, undy_created, undy_conceded,
                 undy_ppr_count, gi, sig, chld, patched,
                 missed, sent, main_aborted>>

(* Not the last task: data_commit, whose ports run in the order they were  *)
(* registered, so that the patch exists before postwait can abort.         *)
DataCommit(p) ==
  /\ At(p, "decide")
  /\ p < partial_size - 1
  /\ patched' = patched \cup {p}
  /\ \/ Goto(p, "sig_commit")
     \/ p > 0 /\ "late_abort" \in Events /\ Goto(p, "fail")
  /\ UNCHANGED <<sync, undy_ppr_count, gi, sig, chld, history>>

LastTask(p) ==
  /\ At(p, "decide")
  /\ p >= partial_size - 1
  /\ Goto(p, "recheck")
  /\ UNCHANGED <<sync, undy_ppr_count, gi, sig, chld, patched, history>>

SignalCommitDone(p) ==
  /\ At(p, "sig_commit")
  /\ data_committed' = [data_committed EXCEPT ![p] = FALSE]
  /\ Goto(p, "wait_next")
  /\ UNCHANGED <<partial_size, spec_checked, spec_correct, undy_created,
                 undy_conceded, undy_ppr_count, gi, sig, chld, patched, history>>

(* The lock of the next task is acquired and released again. *)
WaitNextCommitDone(p) ==
  /\ At(p, "wait_next")
  /\ ~data_committed[p + 1]
  /\ Goto(p, "recheck")
  /\ UNCHANGED <<sync, undy_ppr_count, gi, sig, chld, patched, history>>

(* Slip: a task that is not the last one commits the group. *)
RecheckWithoutTest(p) ==
  /\ At(p, "recheck")
  /\ Goto(p, IF p > 0 THEN "gwait" ELSE "reap")
  /\ UNCHANGED <<sync, undy_ppr_count, gi, sig, chld, patched, history>>

(* "check again in case the next ppr fails after my last check".  MAIN     *)
(* ends in _task_group_commit as well: the understudy has run ahead.       *)
Recheck(p) ==
  /\ At(p, "recheck")
  /\ Goto(p, IF p > 0 /\ p = partial_size - 1 THEN "gwait" ELSE "reap")
  /\ UNCHANGED <<sync, undy_ppr_count, gi, sig, chld, patched, history>>

-----------------------------------------------------------------------------
(* _task_group_commit by the last SPEC.                                    *)

(* wait_group_commit_done keeps every lock it acquires and reads           *)
(* partial_size again in each round.                                       *)
WaitGroupCommitDone(p) ==
  /\ pc[p] = "gwait"
  /\ gi[p] < partial_size - 1
  /\ ~data_committed[gi[p]]
  /\ data_committed' = [data_committed EXCEPT ![gi[p]] = TRUE]
  /\ gi' = [gi EXCEPT ![p] = @ + 1]
  /\ UNCHANGED <<pc, partial_size, spec_checked, spec_correct, undy_created,
                 undy_conceded, undy_ppr_count, sig, chld, patched, history>>

(* Slip: the loop ends one task early. *)
GroupCommitDoneEarly(p) ==
  /\ pc[p] = "gwait"
  /\ gi[p] >= partial_size - 2
  /\ Goto(p, "apply")
  /\ UNCHANGED <<sync, undy_ppr_count, gi, sig, chld, patched, history>>

GroupCommitDone(p) ==
  /\ pc[p] = "gwait"
  /\ gi[p] >= partial_size - 1
  /\ Goto(p, "apply")
  /\ UNCHANGED <<sync, undy_ppr_count, gi, sig, chld, patched, history>>

(* task_group_commit applies the patches 0 .. p it finds;                  *)
(* signal_commit_done.                                                     *)
TaskGroupCommit(p) ==
  /\ pc[p] = "apply"
  /\ missed' = IF 0 .. p-1 \subseteq patched THEN missed ELSE missed \cup {p}
  /\ data_committed' = [data_committed EXCEPT ![p] = FALSE]
  /\ Goto(p, "wait_created")
  /\ UNCHANGED <<partial_size, spec_checked, spec_correct, undy_created,
                 undy_conceded, undy_ppr_count, gi, sig, chld, patched,
                 checked, sent, main_aborted>>

WaitUndyCreated(p) ==
  /\ pc[p] = "wait_created"
  /\ ~undy_created
  /\ undy_created' = TRUE
  /\ Goto(p, "kill")
  /\ UNCHANGED <<partial_size, spec_checked, spec_correct, data_committed,
                 undy_conceded, undy_ppr_count, gi, sig, chld, patched, history>>

(* Slips: the sender does not look at the group size in its own handler,   *)
(* and either always survives its signal or never does.                    *)
KillUsr1To(p, loc) ==
  /\ pc[p] = "kill"
  /\ sent' = sent \cup {"USR1"}
  /\ Goto(p, loc)
  /\ sig' = [Sent("USR1") EXCEPT ![p] = @ \ {"USR1"}]
  /\ UNCHANGED <<sync, undy_ppr_count, gi, chld, patched,
                 checked, missed, main_aborted>>
KillUsr1Survives(p) == KillUsr1To(p, "wait_conc")
KillUsr1Suicide(p) == KillUsr1To(p, "reap")

(* kill( 0, SIGUSR1 ) signals the sender too, and the sender's handlers    *)
(* run before kill returns.                                                *)
KillUsr1(p) ==
  /\ pc[p] = "kill"
  /\ sent' = sent \cup {"USR1"}
  /\ LET own == [Sent("USR1") EXCEPT ![p] = @ \ {"USR1"}]
     IN  IF "USR2" \in sig[p]
         THEN Goto(p, "dead") /\ sig' = Buried(own, p)
         ELSE /\ Goto(p, IF p = partial_size - 1 THEN "wait_conc" ELSE "reap")
              /\ sig' = own
  /\ UNCHANGED <<sync, undy_ppr_count, gi, chld, patched,
                 checked, missed, main_aborted>>

WaitUndyConceded(p) ==
  /\ pc[p] = "wait_conc"
  /\ ~undy_conceded
  /\ undy_conceded' = TRUE
  /\ BecomeSeq(p)
  /\ UNCHANGED <<partial_size, spec_checked, spec_correct, data_committed,
                 undy_created, undy_ppr_count, gi, chld, patched, history>>

-----------------------------------------------------------------------------
(* The understudy.                                                         *)

(* The child's half of spawn_undy. *)
UndyStart ==
  /\ pc[Undy] = "undy_new"
  /\ undy_created' = FALSE
  /\ undy_ppr_count' = 0
  /\ Goto(Undy, "gap")
  /\ UNCHANGED <<partial_size, spec_checked, spec_correct, data_committed,
                 undy_conceded, gi, sig, chld, patched, history>>

UndyBegin ==
  /\ pc[Undy] = "gap"
  /\ Goto(Undy, "ppr")
  /\ UNCHANGED <<sync, undy_ppr_count, gi, sig, chld, patched, history>>

(* post_ppr_undy up to the finish line. *)
PostPprUndy ==
  /\ pc[Undy] = "ppr"
  /\ undy_ppr_count' = undy_ppr_count + 1
  /\ Goto(Undy, IF undy_ppr_count' < partial_size - 1 THEN "gap" ELSE "finish")
  /\ UNCHANGED <<sync, gi, sig, chld, patched, history>>

(* _BOP_ppr_begin does not set ppr_static_id in UNDY, so the end of a      *)
(* region with an id other than MAIN's is taken for unmatched and ignored. *)
UndyUnmatchedEnd ==
  /\ "other_region" \in Events
  /\ pc[Undy] = "ppr"
  /\ Goto(Undy, "gap")
  /\ UNCHANGED <<sync, undy_ppr_count, gi, sig, chld, patched, history>>

(* The program ends in the understudy: BOP_fini. *)
UndyExit ==
  /\ pc[Undy] \in UserLoc
  /\ Goto(Undy, "exit_kill")
  /\ UNCHANGED <<sync, undy_ppr_count, gi, sig, chld, patched, history>>

(* Slip: the understudy signals MAIN alone. *)
KillUsr2MainOnly ==
  /\ pc[Undy] \in {"finish", "exit_kill"}
  /\ sent' = sent \cup {"USR2"}
  /\ Goto(Undy, IF pc[Undy] = "finish" THEN "fini" ELSE "exit_fini")
  /\ sig' = [sig EXCEPT ![0] = IF Alive(0) THEN @ \cup {"USR1", "USR2"} ELSE @]
  /\ UNCHANGED <<sync, undy_ppr_count, gi, chld, patched,
                 checked, missed, main_aborted>>

(* kill( 0, SIGUSR2 ), which UNDY itself ignores, and SIGUSR1 to MAIN.  A  *)
(* SIGUSR1 that is already pending is handled before kill returns.         *)
KillUsr2 ==
  /\ pc[Undy] \in {"finish", "exit_kill"}
  /\ sent' = sent \cup {"USR2"}
  /\ LET all == [Sent("USR2") EXCEPT ![Undy] = sig[Undy],
                                     ![0] = IF Alive(0) THEN @ \cup {"USR1"} ELSE @]
     IN  IF "USR1" \in sig[Undy]
         THEN /\ Goto(Undy, "dead") /\ sig' = Buried(all, Undy)
              /\ undy_conceded' = FALSE
         ELSE /\ Goto(Undy, IF pc[Undy] = "finish" THEN "fini" ELSE "exit_fini")
              /\ sig' = all
              /\ UNCHANGED undy_conceded
  /\ UNCHANGED <<partial_size, spec_checked, spec_correct, data_committed,
                 undy_created, undy_ppr_count, gi, chld, patched,
                 checked, missed, main_aborted>>

(* undy_succ_fini; then task_status = SEQ, or the rest of BOP_fini. *)
UndySuccFini ==
  /\ \/ pc[Undy] = "fini" /\ BecomeSeq(Undy)
     \/ /\ pc[Undy] = "exit_fini"
        /\ Goto(Undy, "exited")
        /\ sig' = Buried(sig, Undy)
  /\ UNCHANGED <<sync, undy_ppr_count, gi, chld, patched, history>>

-----------------------------------------------------------------------------
(* Signal handlers.  A signal is handled at any time after it was sent; a  *)
(* SEQ process has none that does anything.                                *)

(* The spec_order the handler sees: a newborn has still its parent's.      *)
SpecOrder(p) == IF pc[p] = "newborn" THEN p - 1 ELSE p

(* Slips: the understudy concedes and goes on, or exits without a word. *)
SigUsr1UndyGoesOn ==
  /\ "USR1" \in sig[Undy]
  /\ Alive(Undy)
  /\ undy_conceded' = FALSE
  /\ sig' = [sig EXCEPT ![Undy] = {}]
  /\ UNCHANGED <<pc, partial_size, spec_checked, spec_correct, data_committed,
                 undy_created, undy_ppr_count, gi, chld, patched, history>>
SigUsr1UndySilent ==
  /\ "USR1" \in sig[Undy]
  /\ Alive(Undy)
  /\ Die(Undy)
  /\ UNCHANGED <<sync, undy_ppr_count, gi, chld, patched, history>>

(* SigUsr1 in the understudy concedes the race. *)
SigUsr1Undy ==
  /\ "USR1" \in sig[Undy]
  /\ Alive(Undy)
  /\ undy_conceded' = FALSE
  /\ Die(Undy)
  /\ UNCHANGED <<partial_size, spec_checked, spec_correct, data_committed,
                 undy_created, undy_ppr_count, gi, chld, patched, history>>

(* SigUsr1 in a task: the last one ignores it, but the handler is          *)
(* installed without SA_RESTART, so that a waitpid it interrupts returns   *)
(* -1 and cleanup_children ends early.                                     *)
SigUsr1(p) ==
  /\ "USR1" \in sig[p]
  /\ Alive(p)
  /\ chld' = (chld /\ p # 0)
  /\ IF SpecOrder(p) # partial_size - 1
     THEN Goto(p, "reap") /\ sig' = [sig EXCEPT ![p] = @ \ {"USR1"}]
     ELSE CASE pc[p] = "reap" -> Die(p)
            [] pc[p] = "reap_exit" ->
                 Goto(p, "fail") /\ sig' = [sig EXCEPT ![p] = @ \ {"USR1"}]
            [] OTHER -> UNCHANGED pc /\ sig' = [sig EXCEPT ![p] = @ \ {"USR1"}]
  /\ UNCHANGED <<sync, undy_ppr_count, gi, patched, history>>

(* SigUsr2 in a task. *)
SigUsr2(p) ==
  /\ "USR2" \in sig[p]
  /\ Alive(p)
  /\ Die(p)
  /\ chld' = (chld /\ p # 0)
  /\ UNCHANGED <<sync, undy_ppr_count, gi, patched, history>>

(* child_handler: waits, by a blocking waitpid, for all the children.  A   *)
(* SPEC has one child, the one that has just died; MAIN may have another.  *)
ChildHandler ==
  /\ "CHLD" \in sig[0]
  /\ Alive(0)
  /\ sig' = [sig EXCEPT ![0] = @ \ {"CHLD"}]
  /\ chld' = (pc[0] # "reap" /\ ~ChildrenGone(0))
  /\ UNCHANGED <<pc, sync, undy_ppr_count, gi, patched, history>>

ChildHandlerReturns ==
  /\ chld
  /\ ChildrenGone(0)
  /\ chld' = FALSE
  /\ UNCHANGED <<pc, sync, undy_ppr_count, gi, sig, patched, history>>

-----------------------------------------------------------------------------
(* The steps of the library in task p: they need no user code to return.   *)
LibraryStep(p) ==
  \/ p = 0 /\ (PprBeginFork(p) \/ PprBeginForkFails(p))
  \/ CheckCorrectness(p) \/ DataCommit(p) \/ LastTask(p)
  \/ SignalCommitDone(p) \/ WaitNextCommitDone(p) \/ Recheck(p)
  \/ PartialGroupSetSize(p) \/ EndClean(p)

SpecLibraryStep(p) ==
  \/ TaskInit(p) \/ AbortTest(p) \/ AbortCap(p) \/ AbortSignal(p)
  \/ ReapExit(p) \/ WaitPriorCheckDone(p)
  \/ WaitGroupCommitDone(p) \/ GroupCommitDone(p) \/ TaskGroupCommit(p)
  \/ WaitUndyCreated(p) \/ KillUsr1(p) \/ WaitUndyConceded(p)

(* The steps user code takes: into the library, or out of the program.     *)
MainUserStep ==
  \/ AbortSpecMain \/ AbortNextSpec(0) \/ MallocRescue
  \/ PprEndMain \/ SpawnUndyFails

SpecUserStep(p) ==
  \/ PprBeginFork(p) \/ PprBeginNoFork(p) \/ PprBeginForkFails(p)
  \/ AbortSpec(p) \/ AbortNextSpec(p) \/ SilentExit(p) \/ PprEndSpec(p)

UndyStep ==
  \/ UndyStart \/ UndyBegin \/ PostPprUndy \/ UndyUnmatchedEnd \/ UndyExit
  \/ KillUsr2 \/ UndySuccFini

SignalStep ==
  \/ SigUsr1Undy
  \/ \E p \in Task : SigUsr1(p) \/ SigUsr2(p)
  \/ ChildHandler \/ ChildHandlerReturns

Next ==
  \/ \E p \in Task : LibraryStep(p)
  \/ \E p \in SpecTask : SpecLibraryStep(p) \/ SpecUserStep(p)
  \/ MainUserStep
  \/ UndyStep
  \/ SignalStep

Spec == Init /\ [][Next]_vars

(***************************************************************************)
(* Fairness.  The operating system schedules every process and delivers    *)
(* every signal, so the library's own steps are weakly fair; a wait is a   *)
(* spin on a lock that succeeds once the lock stays free.  MAIN and the    *)
(* understudy run the program on correct data: they reach the end of their *)
(* regions, and the program itself ends.  A SPEC may be running on stale   *)
(* data: nothing is assumed of its user code, which may loop forever.      *)
(***************************************************************************)
Fairness ==
  /\ \A p \in Task : /\ WF_vars(LibraryStep(p))
                     /\ WF_vars(SigUsr1(p) \/ SigUsr2(p))
  /\ \A p \in SpecTask : WF_vars(SpecLibraryStep(p))
  /\ WF_vars(MainUserStep)
  /\ WF_vars(UndyStep) /\ WF_vars(UndyExit)
  /\ WF_vars(SigUsr1Undy)
  /\ WF_vars(ChildHandler \/ ChildHandlerReturns)

FairSpec == Spec /\ Fairness

-----------------------------------------------------------------------------
(* Every variable stays in its range; in particular partial_size stays     *)
(* between 1 and the group size, which the array indices of                *)
(* bop_ppr_sync.c and the assertion of partial_group_set_size rely on.     *)
TypeOK ==
  /\ pc \in [Proc -> TaskLoc \cup UndyLoc]
  /\ \A p \in Task : pc[p] \in TaskLoc
  /\ pc[Undy] \in UndyLoc
  /\ partial_size \in 1 .. GroupSize
  /\ spec_checked \in [Task -> BOOLEAN]
  /\ spec_correct \in [Task -> BOOLEAN]
  /\ data_committed \in [Task -> BOOLEAN]
  /\ undy_created \in BOOLEAN
  /\ undy_conceded \in BOOLEAN
  /\ undy_ppr_count \in 0 .. GroupSize-1
  /\ gi \in [Task -> 0 .. GroupSize-1]
  /\ sig \in [Proc -> SUBSET Signal]
  /\ chld \in BOOLEAN
  /\ patched \subseteq Task
  /\ checked \subseteq Task
  /\ missed \subseteq Task
  /\ sent \subseteq {"USR1", "USR2"}
  /\ main_aborted \in BOOLEAN

(* The parallel-sequential race has at most one winner: the understudy     *)
(* crosses the finish line of post_ppr_undy, a SPEC returns from           *)
(* _task_group_commit, or MAIN turns SEQ when fork fails, but never two of *)
(* them, although each decides by locks and signals of its own.            *)
AtMostOneWinner == \A p, q \in Proc : Winner(p) /\ Winner(q) => p = q

(* The two kills of the race have crossed: the understudy and a SPEC have  *)
(* each signalled the whole group. *)
Crossed == sent = {"USR1", "USR2"}

(* An understudy that has conceded (SigUsr1) has done so to a SPEC that    *)
(* goes on to finish the group, unless the two kills have crossed.         *)
ConcededToHeir ==
  pc[Undy] = "dead" /\ ~Crossed
    => \E p \in SpecTask : pc[p] \in {"wait_conc", "seq"}

(* A SPEC that has won has every earlier task's check before its own, in   *)
(* order, and its own check has passed.                                    *)
GroupLoc == {"gwait", "apply", "wait_created", "kill", "wait_conc", "seq"}
CommitChecked ==
  \A p \in SpecTask : pc[p] \in GroupLoc => 0 .. p \subseteq checked /\ spec_correct[p]

(* The group a SPEC commits holds only tasks whose check has passed.       *)
CommitOnlyCorrect ==
  \A p \in SpecTask : Winner(p) => \A i \in 0 .. p : spec_correct[i]

(* A SPEC that has won has applied the patch of every earlier task.        *)
NothingMissed == \A p \in SpecTask : Winner(p) => p \notin missed

(* Once MAIN has aborted the speculation no SPEC wins the race. *)
AbortSticks == main_aborted => \A p \in SpecTask : ~Winner(p)

(* The understudy has signalled its victory and p goes on untold. *)
Escaped(p) == "USR2" \in sent /\ Alive(p) /\ "USR2" \notin sig[p]

(* The understudy's kill( 0, SIGUSR2 ) reaches every task, and none loses  *)
(* it again before it exits.  The one task that escapes is the child of a  *)
(* fork in _BOP_ppr_begin for which the signal comes too early: it is      *)
(* pending in the parent, and a child has no pending signals.              *)
EscapeByForkOnly ==
  [][\A p \in Task : ~Escaped(p) /\ Escaped(p)'
       => "USR2" \in sent /\ p # 0 /\ PprBeginFork(p - 1)]_vars

(* The group implements TaskGroup: whatever the forks, locks and signals   *)
(* do, one process at most is chosen to continue, and a SPEC is chosen     *)
(* only behind an unbroken sequence of checks.                             *)
Group == INSTANCE TaskGroup WITH winners <- {p \in Proc : Winner(p)}
ImplementsTaskGroup == Group!Spec

(* The race is decided, or its two kills have crossed. *)
RaceSettles == <>(Crossed \/ \E p \in Proc : Winner(p))

(* Once the understudy or a SPEC has won the race the losers are gone, or  *)
(* wait for their children, a SPEC that loops in user code included.       *)
LosersLeave ==
  (\E p \in Proc \ {0} : Winner(p))
    ~> (\A p \in Proc : Winner(p) \/ pc[p] \in {"none", "dead", "reap"})
=============================================================================
