------------------------------ MODULE Monitor ------------------------------
(***************************************************************************)
(* Processes from BOP_init to BOP_fini (bop_ppr.c): the monitor, which is  *)
(* the process the user has started, and the workers it watches.           *)
(*                                                                         *)
(* The first worker leads the process group that all workers are in.  The  *)
(* one that continues the program, the front, changes with every group of  *)
(* tasks, and with it the tree of processes: MAIN is the parent of its     *)
(* SPEC and of its understudy.  Groups have one SPEC, and their race is    *)
(* decided in one step; how it is decided is the subject of BopPpr.        *)
(*                                                                         *)
(* A dead process is a zombie until its parent waits for it.  SIGUSR2 and  *)
(* SIGINT stay pending until the receiver handles them.  SIGUSR1 has no    *)
(* pending state of its own in a worker: it hastens an end that comes      *)
(* anyway.                                                                 *)
(***************************************************************************)
EXTENDS Integers, FiniteSets

CONSTANTS NumGroups,
          Troubles     \* what may go wrong, once in a behaviour

AllTroubles == {"segv", "int", "abort", "exit"}

ASSUME MonitorAssumption == NumGroups \in Nat /\ Troubles \subseteq AllTroubles

Leader == 1
SpecOf(g) == 2 * g
UndyOf(g) == 2 * g + 1
Worker == 1 .. 1 + 2 * NumGroups

NotYet == -1
TheMonitor == 0
TheSystem == -1       \* adopts orphans, and waits for them at once

VARIABLES
  st,            \* what each worker does
  parent,
  code,          \* how a worker ended: "ok", "err" or "sig"
  pending,       \* signals each worker has still to handle
  in_handler,    \* MAINs that child_handler has interrupted
  spec_checked,  \* MAIN of the group has signalled its check
  front,         \* the worker that continues the program
  groups,        \* groups begun
  mon,           \* the monitor: "loop", "drain" or "done"
  is_monitoring, errored, my_exit,
  monitor_pending,
  final,         \* the value the program calls exit with, once it has
  flushed,       \* its output has left the process
  undy_won,      \* an understudy has won
  trouble        \* what has gone wrong, "none" at first

sync == <<in_handler, spec_checked>>
workers == <<st, parent, code, pending, sync, front, groups>>
monitor == <<mon, is_monitoring, errored, my_exit, monitor_pending>>
history == <<final, flushed, undy_won, trouble>>
vars == <<workers, monitor, history>>

Gone == {"none", "zombie", "gone"}
Alive(p) == st[p] \notin Gone
Children(p) == {c \in Worker : parent[c] = p /\ st[c] \notin {"none", "gone"}}
AllEnded(p) == \A c \in Children(p) : st[c] = "zombie"

(* BOP_init: the child the monitor has forked continues as SEQ. *)
Init ==
  /\ st = [p \in Worker |-> IF p = Leader THEN "seq" ELSE "none"]
  /\ parent = [p \in Worker |-> TheMonitor]
  /\ code = [p \in Worker |-> "ok"]
  /\ pending = [p \in Worker |-> {}]
  /\ in_handler = {} /\ spec_checked = FALSE
  /\ front = Leader /\ groups = 0
  /\ mon = "loop" /\ is_monitoring = TRUE /\ errored = FALSE /\ my_exit = 0
  /\ monitor_pending = {}
  /\ final = NotYet /\ flushed = FALSE /\ undy_won = FALSE /\ trouble = "none"

-----------------------------------------------------------------------------
(* Process p ends with code c; its children become orphans. *)
Die(p, c) ==
  LET waited(q) == IF q = TheMonitor THEN mon # "done" ELSE q # TheSystem /\ Alive(q)
  IN  /\ st' = [q \in Worker |->
                  IF q = p THEN (IF waited(parent[p]) THEN "zombie" ELSE "gone")
                  ELSE IF q \in Children(p) /\ st[q] = "zombie" THEN "gone" ELSE st[q]]
      /\ parent' = [q \in Worker |-> IF q \in Children(p) THEN TheSystem ELSE parent[q]]
      /\ code' = [code EXCEPT ![p] = c]

(* Slip: the ends of the children are not passed on. *)
ReportNone(p) == "ok"

(* cleanup_children and report_child, when all children have ended: was    *)
(* any end not a normal one with value 0?  A worker killed with SIGKILL    *)
(* has no one left to wait for it.                                         *)
ReportChildren(p) == IF \A c \in Children(p) : code[c] = "ok" THEN "ok" ELSE "err"

-----------------------------------------------------------------------------
(* Workers. *)

(* _BOP_ppr_begin of SEQ: it becomes MAIN, resets the locks and forks a    *)
(* SPEC.  A process handles the signals it has before it forks.            *)
PprBegin(p) ==
  LET s == SpecOf(groups + 1)
  IN  /\ st[p] = "seq" /\ groups < NumGroups /\ pending[p] = {}
      /\ st' = [st EXCEPT ![p] = "main", ![s] = "spec"]
      /\ parent' = [parent EXCEPT ![s] = p]
      /\ spec_checked' = FALSE
      /\ groups' = groups + 1
      /\ UNCHANGED <<code, pending, in_handler, front, monitor, history>>

(* _BOP_ppr_end of MAIN: spawn_undy, then its check.  Either waits for the *)
(* end of a handler.                                                       *)
SpawnUndy(p) ==
  LET u == UndyOf(groups)
  IN  /\ st[p] = "main" /\ p \notin in_handler /\ pending[p] = {}
      /\ st' = [st EXCEPT ![p] = "spawned", ![u] = "undy"]
      /\ parent' = [parent EXCEPT ![u] = p]
      /\ front' = u
      /\ UNCHANGED <<code, pending, sync, groups, monitor, history>>
CheckDone(p) ==
  /\ st[p] = "spawned" /\ p \notin in_handler
  /\ st' = [st EXCEPT ![p] = "waiting"]
  /\ spec_checked' = TRUE
  /\ UNCHANGED <<parent, code, pending, in_handler, front, groups, monitor, history>>

(* wait_prior_check_done and _task_group_commit: SIGUSR1, the understudy   *)
(* concedes, the SPEC is SEQ.                                              *)
SpecWins(p) ==
  LET u == UndyOf(groups)
  IN  /\ st[p] = "spec" /\ spec_checked /\ st[u] = "undy" /\ p = SpecOf(groups)
      /\ st' = [st EXCEPT ![p] = "seq", ![u] = "zombie"]
      /\ front' = p
      /\ UNCHANGED <<parent, code, pending, sync, groups, monitor, history>>

(* A SPEC aborts, or reaches an exit: BOP_abort_spec.  It may never do so: *)
(* it runs on stale data, and it waits for MAIN's check and for the        *)
(* understudy to concede.                                                  *)
SpecAborts(p) ==
  /\ st[p] = "spec"
  /\ Die(p, "ok")
  /\ UNCHANGED <<pending, sync, front, groups, monitor, history>>

(* end_clean of MAIN, when SIGUSR1 comes or the next task is done. *)
MainEnds(p) ==
  /\ st[p] = "waiting" /\ p \notin in_handler /\ \A c \in Children(p) : st[c] # "spec"
  /\ st' = [st EXCEPT ![p] = "clean"]
  /\ UNCHANGED <<parent, code, pending, sync, front, groups, monitor, history>>
CleanDone(p) ==
  /\ st[p] = "clean" /\ AllEnded(p)
  /\ Die(p, ReportChildren(p))
  /\ UNCHANGED <<pending, sync, front, groups, monitor, history>>

(* child_handler in MAIN: the first child that ends interrupts it, and the *)
(* handler returns, or ends the process, when all of them have ended.      *)
Interrupted == {"main", "spawned", "waiting"}
ChildHandler(p) ==
  /\ st[p] \in Interrupted /\ p \notin in_handler
  /\ \E c \in Children(p) : st[c] = "zombie"
  /\ in_handler' = in_handler \cup {p}
  /\ UNCHANGED <<st, parent, code, pending, spec_checked, front, groups, monitor, history>>
HandlerDone(p) ==
  /\ st[p] \in Interrupted /\ p \in in_handler /\ AllEnded(p)
  /\ in_handler' = in_handler \ {p}
  /\ IF ReportChildren(p) = "err" THEN Die(p, "err")
     ELSE /\ st' = [c \in Worker |-> IF c \in Children(p) THEN "gone" ELSE st[c]]
          /\ UNCHANGED <<parent, code>>
  /\ UNCHANGED <<pending, spec_checked, front, groups, monitor, history>>

(* SIGUSR2 to the whole group: kill(0, SIGUSR2). *)
KillOthers(p) == pending' = [q \in Worker |-> IF q # p /\ Alive(q) THEN pending[q] \cup {"USR2"}
                                              ELSE pending[q]]

(* post_ppr_undy at the finish line. *)
UndyWins(p) ==
  /\ st[p] = "undy"
  /\ KillOthers(p)
  /\ st' = [st EXCEPT ![p] = "seq"]
  /\ undy_won' = TRUE
  /\ UNCHANGED <<parent, code, sync, front, groups, monitor, final, flushed, trouble>>

(* SigUsr2 and SigBopExit in a worker. *)
HandleUsr2(p) ==
  /\ Alive(p) /\ "USR2" \in pending[p]
  /\ pending' = [pending EXCEPT ![p] = @ \ {"USR2"}]
  /\ IF st[p] \in {"main", "spawned", "waiting", "clean", "spec"} THEN Die(p, "ok")
     ELSE UNCHANGED <<st, parent, code>>
  /\ UNCHANGED <<sync, front, groups, monitor, history>>
HandleInt(p) ==
  /\ Alive(p) /\ "INT" \in pending[p]
  /\ pending' = [pending EXCEPT ![p] = @ \ {"INT"}]
  /\ Die(p, "ok")
  /\ UNCHANGED <<sync, front, groups, monitor, history>>

(* The program calls exit, or main returns, in SEQ; exit calls BOP_fini.   *)
(* In the understudy BOP_fini decides the race first.                      *)
Exit(p, v) ==
  /\ st[p] = "seq" \/ st[p] = "undy"
  /\ st' = [st EXCEPT ![p] = "fini"]
  /\ final' = v
  /\ IF st[p] = "undy" THEN KillOthers(p) /\ undy_won' = TRUE
     ELSE UNCHANGED <<pending, undy_won>>
  /\ UNCHANGED <<parent, code, sync, front, groups, monitor, flushed, trouble>>

(* Slip: the signal goes to the leader of the group. *)
ShutdownToLeader == monitor_pending

(* kill(monitor_process_id, SIGUSR1) *)
ShutdownSignal == monitor_pending \cup {"USR1"}

(* The end of BOP_fini: wait for the children, send SIGUSR1 to the         *)
(* monitor; end at once if a child has failed.                             *)
FiniDone(p) ==
  /\ st[p] = "fini" /\ AllEnded(p)
  /\ monitor_pending' = ShutdownSignal
  /\ IF ReportChildren(p) = "err" THEN Die(p, "err")
     ELSE /\ st' = [q \in Worker |-> IF q = p THEN "flush"
                                     ELSE IF q \in Children(p) THEN "gone" ELSE st[q]]
          /\ UNCHANGED <<parent, code>>
  /\ UNCHANGED <<pending, sync, front, groups, mon, is_monitoring, errored, my_exit, history>>

(* The rest of exit: the C library writes its buffers. *)
Flush(p) ==
  /\ st[p] = "flush"
  /\ Die(p, IF final = 0 THEN "ok" ELSE "err")
  /\ flushed' = TRUE
  /\ UNCHANGED <<pending, sync, front, groups, monitor, final, undy_won, trouble>>

WorkerStep(p) ==
  \/ PprBegin(p) \/ SpawnUndy(p) \/ CheckDone(p) \/ SpecWins(p) \/ MainEnds(p) \/ CleanDone(p)
  \/ ChildHandler(p) \/ HandlerDone(p) \/ UndyWins(p) \/ HandleUsr2(p) \/ HandleInt(p)
  \/ \E v \in {0, 1} : Exit(p, v)
  \/ FiniDone(p) \/ Flush(p)

-----------------------------------------------------------------------------
(* wait_process. *)

(* SigUsr1 and SigUsr2 in the monitor. *)
SigUsr1 ==
  /\ mon = "loop" /\ "USR1" \in monitor_pending
  /\ monitor_pending' = monitor_pending \ {"USR1"}
  /\ is_monitoring' = FALSE
  /\ UNCHANGED <<workers, mon, errored, my_exit, history>>
SigUsr2 ==
  /\ mon = "loop" /\ "USR2" \in monitor_pending
  /\ monitor_pending' = monitor_pending \ {"USR2"}
  /\ is_monitoring' = FALSE
  /\ errored' = TRUE
  /\ UNCHANGED <<workers, mon, my_exit, history>>

(* waitpid has a child: only the leader is one. *)
ReportChild ==
  /\ mon \in {"loop", "drain"} /\ st[Leader] = "zombie"
  /\ st' = [st EXCEPT ![Leader] = "gone"]
  /\ my_exit' = IF code[Leader] = "ok" THEN my_exit ELSE 1
  /\ is_monitoring' = (is_monitoring /\ code[Leader] # "sig")
  /\ UNCHANGED <<parent, code, pending, sync, front, groups, mon, errored, monitor_pending, history>>

Leave ==
  /\ mon = "loop" /\ ~is_monitoring
  /\ mon' = "drain"
  /\ UNCHANGED <<workers, is_monitoring, errored, my_exit, monitor_pending, history>>

(* Slip: the monitor does not wait for the leader. *)
DrainedAtOnce == TRUE

(* waitpid blocks until there is no child. *)
Drained == st[Leader] = "gone"

(* Slip: the workers are left alone. *)
LeaveWorkers == st

(* SIGKILL to the group. *)
KillWorkers == [p \in Worker |-> IF Alive(p) THEN "gone" ELSE st[p]]

(* Signals were blocked while it waited and are handled now. *)
MonitorEnd ==
  /\ mon = "drain" /\ Drained
  /\ mon' = "done"
  /\ errored' = (errored \/ "USR2" \in monitor_pending)
  /\ my_exit' = IF errored' THEN 1 ELSE my_exit
  /\ monitor_pending' = {}
  /\ st' = KillWorkers
  /\ UNCHANGED <<parent, code, pending, sync, front, groups, is_monitoring, history>>

MonitorStep == SigUsr1 \/ SigUsr2 \/ ReportChild \/ Leave \/ MonitorEnd

-----------------------------------------------------------------------------
(* Troubles. *)
Strike(t) == t \in Troubles /\ trouble = "none" /\ trouble' = t

(* SIGSEGV in code of the program that a sequential execution would run    *)
(* too: ErrorKillAll sends SIGUSR2 to the monitor and lets the signal end  *)
(* the process.                                                            *)
ErrorKillAll(p) ==
  /\ Strike("segv")
  /\ p = front /\ st[p] \in {"seq", "main", "undy"} /\ p \notin in_handler
  /\ monitor_pending' = monitor_pending \cup {"USR2"}
  /\ Die(p, "sig")
  /\ UNCHANGED <<pending, sync, front, groups, mon, is_monitoring, errored, my_exit, final, flushed, undy_won>>

(* SIGABRT, from a failed assertion or abort(): there is no handler. *)
Abort(p) ==
  /\ Strike("abort")
  /\ p = front /\ st[p] = "seq"
  /\ Die(p, "sig")
  /\ UNCHANGED <<pending, sync, front, groups, monitor, final, flushed, undy_won>>

(* The program calls exit in a region, in MAIN. *)
ExitInRegion(p) ==
  /\ Strike("exit")
  /\ st[p] = "main" /\ p \notin in_handler
  /\ st' = [st EXCEPT ![p] = "fini"]
  /\ final' = 0
  /\ UNCHANGED <<parent, code, pending, sync, front, groups, monitor, flushed, undy_won>>

(* MonitorInteruptFwd: the user presses ^C. *)
MonitorInteruptFwd ==
  /\ mon # "done" /\ Strike("int")
  /\ mon' = "done"
  /\ pending' = [p \in Worker |-> IF Alive(p) THEN pending[p] \cup {"INT"} ELSE pending[p]]
  /\ st' = [st EXCEPT ![Leader] = IF @ = "zombie" THEN "gone" ELSE @]
  /\ parent' = [p \in Worker |-> IF parent[p] = TheMonitor THEN TheSystem ELSE parent[p]]
  /\ UNCHANGED <<code, sync, front, groups, is_monitoring, errored, my_exit, monitor_pending,
                 final, flushed, undy_won>>

Trouble ==
  \/ \E p \in Worker : ErrorKillAll(p) \/ Abort(p) \/ ExitInRegion(p)
  \/ MonitorInteruptFwd

Next == MonitorStep \/ Trouble \/ \E p \in Worker : WorkerStep(p) \/ SpecAborts(p)

(* Every process is scheduled, and the code of the program ends.  Nothing  *)
(* makes a SPEC abort.                                                     *)
Spec ==
  /\ Init /\ [][Next]_vars
  /\ WF_vars(MonitorStep)
  /\ \A p \in Worker : WF_vars(WorkerStep(p))

-----------------------------------------------------------------------------
(* The process the user has started ends with the value of the program, or *)
(* in error after a fault, although other processes have executed the      *)
(* program: every MAIN hands on how its child ended.  An understudy that   *)
(* wins has lost its parent, and with it the way to hand this on.          *)
StatusReported ==
  mon = "done" /\ trouble # "int" /\ ~undy_won
    => my_exit = IF final = 0 THEN 0 ELSE 1

(* The monitor does not end, and kill the workers, before the program's    *)
(* output is written, although it leaves its loop on a signal that the     *)
(* front sends before that.  Again with the exception of an understudy.    *)
OutputFlushed ==
  mon = "done" /\ trouble \in {"none", "exit"} /\ ~undy_won => flushed

(* An understudy has died of a fault, and the SPEC that would have to      *)
(* defeat it is left.                                                      *)
Bereft == \E g \in 1 .. NumGroups : st[SpecOf(g)] = "spec" /\ code[UndyOf(g)] = "sig"

(* The process the user has started ends, unless MAIN has called exit in a *)
(* region, a front that is not the leader has died of SIGABRT, or a SPEC   *)
(* never aborts after the fault of its understudy: MAIN waits for it then, *)
(* in child_handler or end_clean, and the monitor for MAIN.                *)
MonitorEnds ==
  \/ <>(mon = "done" \/ trouble = "exit" \/ (trouble = "abort" /\ code[Leader] # "sig"))
  \/ <>[]Bereft

(* No process of the program outlives the monitor for long. *)
NoSurvivors == (mon = "done") ~> \A p \in Worker : ~Alive(p)
=============================================================================
