------------------------- MODULE BopPprCommitProof --------------------------
(***************************************************************************)
(* What a winning SPEC commits, for every group size and every set of      *)
(* events.  partial_group_set_size tests partial_size before it takes the  *)
(* lock, so that of two tasks that cut the group at the same time the      *)
(* later assignment may raise the size again (bop_ppr_sync.c:40).  In a    *)
(* large group this is enough to commit a task that has failed.  The       *)
(* theorems of this module show that nothing else is: in every behaviour   *)
(* in which partial_size never grows, whatever the other races of forks,   *)
(* locks, aborts and signals do, the group that a SPEC commits is right.   *)
(***************************************************************************)
EXTENDS BopPprProof

(* A step does not raise the size of the group: what the assignment in     *)
(* partial_group_set_size would guarantee if the test were repeated under  *)
(* the lock.                                                               *)
Shrinks == partial_size' <= partial_size

-----------------------------------------------------------------------------
(***************************************************************************)
(* The inductive invariant.  A task is committed when its check has passed *)
(* and its patch is in the commit space.  The lock data_committed[i] is    *)
(* freed by a task i that is committed, by one that has aborted, and by    *)
(* one that commits the group; in the last two cases the group has been    *)
(* cut to at most i + 1 tasks, and stays cut.  So a task that has gone     *)
(* through the locks of all earlier tasks and still is the last one has    *)
(* only committed tasks before it.                                         *)
(***************************************************************************)
Committed(i) == spec_correct[i] /\ i \in patched
Behind(p) == \A i \in Task : i < p => Committed(i)
DecidedLoc == {"decide", "sig_commit", "wait_next", "recheck"}
CommitLoc == {"gwait", "apply", "wait_created", "kill"}
AppliedLoc == {"wait_created", "kill"}
GoneLoc == {"reap", "dead"}

DecidedCorrect(p) == pc[p] \in DecidedLoc => spec_correct[p]
CorrectChecked(p) == spec_correct[p] => p \in checked
PatchWritten(p) == pc[p] \in {"sig_commit", "wait_next"} => p \in patched
AbortedOut(p) == pc[p] = "abort_sig" => partial_size <= p
FreedCommitted(p) == ~data_committed[p] => Committed(p) \/ partial_size <= p + 1
LastOfGroup(p) == pc[p] \in CommitLoc => partial_size <= p + 1
LoopStarts(p) == gi[p] # 0 => p \in checked /\ pc[p] \in GroupLoc \cup GoneLoc
LoopCommitted(p) ==
  pc[p] = "gwait" =>
    \A i \in Task : i < gi[p] => Committed(i) \/ partial_size <= i + 1
AllCommitted(p) ==
  /\ pc[p] \in {"apply"} \cup AppliedLoc => partial_size <= p \/ Behind(p)
  /\ pc[p] \in {"wait_conc", "seq"} /\ p # 0 => Behind(p)
MissedOut(p) ==
  p \in missed => /\ p \in checked /\ pc[p] \in AppliedLoc \cup GoneLoc
                  /\ pc[p] \in AppliedLoc => partial_size <= p

TaskInv(p) ==
  /\ DecidedCorrect(p) /\ CorrectChecked(p) /\ PatchWritten(p)
  /\ AbortedOut(p) /\ FreedCommitted(p) /\ LastOfGroup(p)
  /\ LoopStarts(p) /\ LoopCommitted(p) /\ AllCommitted(p) /\ MissedOut(p)

CommitInv == \A p \in Task : TaskInv(p)

LEMMA InitCommit == Init => CommitInv
<1> SUFFICES ASSUME Init, NEW p \in Task PROVE TaskInv(p)
  BY DEF CommitInv
<1>1. /\ pc[p] \in {"begin", "none"} /\ ~spec_correct[p] /\ data_committed[p]
      /\ gi[p] = 0 /\ p \notin missed
  BY ProcFacts DEF Init
<1> QED
  BY <1>1 DEF TaskInv, DecidedCorrect, CorrectChecked, PatchWritten, AbortedOut,
     FreedCommitted, LastOfGroup, LoopStarts, LoopCommitted, AllCommitted,
     MissedOut, DecidedLoc, CommitLoc, AppliedLoc

(* No step takes back a check that has passed or a patch, or raises the    *)
(* size of the group.                                                      *)
Grows == /\ partial_size' \in Int /\ partial_size' <= partial_size
         /\ \A i \in Task : spec_correct[i] => spec_correct'[i]
         /\ patched \subseteq patched' /\ checked \subseteq checked'

LEMMA GrowsCommitted ==
  ASSUME Grows, NEW i \in Task, Committed(i)
  PROVE  Committed(i)'
BY DEF Grows, Committed

LEMMA GrowsBehind ==
  ASSUME Grows, NEW p \in Task, Behind(p)
  PROVE  Behind(p)'
BY GrowsCommitted DEF Behind

(* A task that does not move keeps its part of the invariant. *)
LEMMA OtherTask ==
  ASSUME TypeInv, Grows, NEW q \in Task, TaskInv(q), pc'[q] = pc[q], gi'[q] = gi[q],
         ~data_committed'[q] => ~data_committed[q],
         spec_correct'[q] => spec_correct[q],
         q \in missed' => q \in missed
  PROVE  TaskInv(q)'
<1> USE ProcFacts DEF Grows, TaskInv
<1>1. partial_size \in Int /\ gi[q] \in Int
  BY DEF TypeInv, TypeOK
<1>2. DecidedCorrect(q)' /\ CorrectChecked(q)' /\ PatchWritten(q)' /\ AbortedOut(q)'
      /\ LastOfGroup(q)' /\ LoopStarts(q)'
  BY <1>1 DEF DecidedCorrect, CorrectChecked, PatchWritten, AbortedOut, LastOfGroup, LoopStarts
<1>3. FreedCommitted(q)'
  BY <1>1, GrowsCommitted DEF FreedCommitted
<1>4. LoopCommitted(q)'
  BY <1>1, GrowsCommitted DEF LoopCommitted
<1>5. AllCommitted(q)' /\ MissedOut(q)'
  BY <1>1, GrowsBehind DEF AllCommitted, MissedOut
<1> QED
  BY <1>2, <1>3, <1>4, <1>5

(* A step of task p. *)
LEMMA OneTask ==
  ASSUME TypeInv, Grows, CommitInv, NEW p \in Task, NEW loc, Goto(p, loc),
         \A q \in Task : q # p =>
           /\ gi'[q] = gi[q]
           /\ ~data_committed'[q] => ~data_committed[q]
           /\ spec_correct'[q] = spec_correct[q]
           /\ q \in missed' => q \in missed,
         pc'[p] = loc => TaskInv(p)'
  PROVE  CommitInv'
<1>1. pc'[p] = loc /\ \A q \in Task : q # p => pc'[q] = pc[q]
  BY ProcFacts DEF TypeInv, TypeOK, Goto
<1> QED
  BY <1>1, OtherTask DEF CommitInv

(* A task may move to a location from which it commits nothing. *)
QuietLoc == TaskLoc \ (DecidedLoc \cup GroupLoc \cup {"abort_sig"})

LEMMA QuietTask ==
  ASSUME TypeInv, Grows, CommitInv, NEW p \in Task, NEW loc \in QuietLoc, Goto(p, loc),
         pc[p] \in GroupLoc \cup GoneLoc => loc \in GoneLoc,
         UNCHANGED <<gi, data_committed, spec_correct, missed>>
  PROVE  CommitInv'
<1>1. partial_size \in Int /\ p \in Int /\ TaskInv(p)
  BY ProcFacts DEF TypeInv, TypeOK, CommitInv
<1>2. ASSUME pc'[p] = loc PROVE TaskInv(p)'
  <2> USE <1>1, <1>2 DEF TaskInv, QuietLoc, Grows
  <2>1. DecidedCorrect(p)' /\ CorrectChecked(p)' /\ PatchWritten(p)' /\ AbortedOut(p)'
    BY DEF DecidedCorrect, CorrectChecked, PatchWritten, AbortedOut, DecidedLoc
  <2>2. FreedCommitted(p)'
    BY GrowsCommitted DEF FreedCommitted
  <2>3. LastOfGroup(p)' /\ LoopCommitted(p)' /\ AllCommitted(p)'
    BY DEF LastOfGroup, LoopCommitted, AllCommitted, CommitLoc, AppliedLoc, GroupLoc
  <2>4. LoopStarts(p)'
    BY DEF LoopStarts
  <2>5. MissedOut(p)'
    BY DEF MissedOut, GroupLoc, AppliedLoc, GoneLoc
  <2> QED
    BY <2>1, <2>2, <2>3, <2>4, <2>5
<1> QED
  BY <1>2, OneTask

(* A step that moves no task. *)
LEMMA StillTasks ==
  ASSUME TypeInv, Grows, CommitInv, \A q \in Task : pc'[q] = pc[q],
         UNCHANGED <<gi, data_committed, spec_correct, missed>>
  PROVE  CommitInv'
BY OtherTask DEF CommitInv

(* The actions that change what the invariant speaks of, one by one. *)
LEMMA ForkCommit ==
  ASSUME TypeInv, CheckInv, CommitInv, Grows, NEW p \in Task, PprBeginFork(p)
  PROVE  CommitInv'
<1> USE ProcFacts, ForkMoves DEF TypeInv
<1>1. p \notin checked
  BY DEF CheckInv, MainChecked, SpecChecked, CheckedLoc, PassedLoc, GroupLoc,
     PostEnd, Task, SpecTask
<1>2. p + 1 \notin checked
  BY <1>1 DEF CheckInv, PrefixChecked
<1>3. UNCHANGED <<gi, data_committed, spec_correct, missed, checked>>
  BY DEF PprBeginFork, sync, history
<1>4. ASSUME NEW q \in Task, q \in {p, p + 1} PROVE TaskInv(q)'
  <2>1. TaskInv(q) /\ q \notin checked /\ pc'[q] \in {"ppr", "newborn"}
    BY <1>1, <1>2, <1>4 DEF CommitInv
  <2>2. FreedCommitted(q)'
    BY <1>3, <2>1, GrowsCommitted DEF TaskInv, FreedCommitted, Grows, TypeInv, TypeOK
  <2> QED
    BY <1>3, <2>1, <2>2 DEF TaskInv, DecidedCorrect, CorrectChecked, PatchWritten,
       AbortedOut, LastOfGroup, LoopStarts, LoopCommitted, AllCommitted, MissedOut,
       DecidedLoc, CommitLoc, AppliedLoc
<1>5. ASSUME NEW q \in Task, q \notin {p, p + 1} PROVE TaskInv(q)'
  BY <1>3, <1>5, OtherTask DEF CommitInv
<1> QED
  BY <1>4, <1>5 DEF CommitInv

(* No check is taken back: a SPEC is checked once, and MAIN's check passes. *)
LEMMA CheckGrows ==
  ASSUME TypeInv, CheckInv, CommitInv, Shrinks, TypeInv', NEW p \in Task, CheckCorrectness(p)
  PROVE  Grows
<1>1. PICK passed \in Verdict(p) : spec_correct' = [spec_correct EXCEPT ![p] = passed]
  BY DEF CheckCorrectness
<1>2. spec_correct[p] => passed
  <2>1. CASE p = 0
    BY <2>1 DEF Verdict
  <2>2. CASE p # 0
    <3>1. p \in SpecTask /\ pc[p] = "check"
      BY <2>2, ProcFacts DEF CheckCorrectness, At, Task, SpecTask
    <3>2. p \notin checked
      BY <3>1 DEF CheckInv, SpecChecked, CheckedLoc, PassedLoc, GroupLoc
    <3> QED
      BY <3>2 DEF CommitInv, TaskInv, CorrectChecked
  <2> QED
    BY <2>1, <2>2
<1>3. \A i \in Task : spec_correct[i] => spec_correct'[i]
  BY <1>1, <1>2 DEF TypeInv, TypeOK
<1> QED
  BY <1>3 DEF Grows, Shrinks, CheckCorrectness, TypeInv, TypeOK

LEMMA CheckCommitted ==
  ASSUME TypeInv, CheckInv, CommitInv, Grows, NEW p \in Task, CheckCorrectness(p)
  PROVE  CommitInv'
<1> USE ProcFacts
<1>1. PICK passed \in Verdict(p) :
        /\ spec_correct' = [spec_correct EXCEPT ![p] = passed]
        /\ Goto(p, IF passed THEN "decide" ELSE "fail")
  BY DEF CheckCorrectness
<1>2. /\ pc[p] = "check" /\ p \in checked'
      /\ UNCHANGED <<gi, data_committed, missed, partial_size, patched>>
  BY DEF CheckCorrectness, At
<1>3. spec_correct'[p] = passed /\ \A q \in Task : q # p => spec_correct'[q] = spec_correct[q]
  BY <1>1 DEF TypeInv, TypeOK
<1>4. TaskInv(p)
  BY DEF CommitInv
<1>5. ASSUME pc'[p] = IF passed THEN "decide" ELSE "fail" PROVE TaskInv(p)'
  <2>1. FreedCommitted(p)'
    BY <1>2, <1>4, GrowsCommitted DEF TaskInv, FreedCommitted
  <2> QED
    BY <1>2, <1>3, <1>4, <1>5, <2>1 DEF TaskInv, DecidedCorrect, CorrectChecked,
       PatchWritten, AbortedOut, LastOfGroup, LoopStarts, LoopCommitted, AllCommitted,
       MissedOut, DecidedLoc, CommitLoc, AppliedLoc, GroupLoc, GoneLoc
<1> QED
  BY <1>1, <1>2, <1>3, <1>5, OneTask

(* A task that stays among the tasks that have decided, or aborts, or      *)
(* commits the group: its part of the invariant, with its location read    *)
(* off.                                                                    *)
LEMMA MovedTask ==
  ASSUME TypeInv, Grows, NEW p \in Task, TaskInv(p), NEW loc, pc'[p] = loc,
         UNCHANGED <<gi, spec_correct, missed>>,
         FreedCommitted(p)',
         loc \in DecidedLoc => spec_correct[p],
         loc \in {"sig_commit", "wait_next"} => p \in patched',
         loc = "abort_sig" => partial_size' <= p,
         loc \in CommitLoc => partial_size <= p + 1,
         pc[p] \in GroupLoc \cup GoneLoc => loc \in GroupLoc \cup GoneLoc,
         loc # "gwait" \/ gi[p] = 0,
         loc \in {"apply"} \cup AppliedLoc => partial_size <= p \/ Behind(p),
         loc \in {"wait_conc", "seq"} /\ p # 0 => Behind(p),
         p \in missed => /\ loc \in AppliedLoc \cup GoneLoc
                         /\ loc \in AppliedLoc => partial_size <= p
  PROVE  TaskInv(p)'
<1> USE ProcFacts DEF Grows, TaskInv
<1>1. partial_size \in Int /\ gi[p] \in Nat /\ p \in Int
  BY DEF TypeInv, TypeOK
<1>2. DecidedCorrect(p)' /\ CorrectChecked(p)' /\ PatchWritten(p)' /\ AbortedOut(p)'
  BY <1>1 DEF DecidedCorrect, CorrectChecked, PatchWritten, AbortedOut
<1>3. LastOfGroup(p)' /\ LoopStarts(p)' /\ MissedOut(p)'
  BY <1>1 DEF LastOfGroup, LoopStarts, MissedOut
<1>4. LoopCommitted(p)'
  BY <1>1 DEF LoopCommitted
<1>5. AllCommitted(p)'
  BY <1>1, GrowsBehind DEF AllCommitted
<1> QED
  BY <1>2, <1>3, <1>4, <1>5

(* A step of p that leaves the history of data_committed alone. *)
LEMMA MovesOn ==
  ASSUME TypeInv, Grows, CommitInv, NEW p \in Task, NEW loc, Goto(p, loc),
         UNCHANGED <<gi, data_committed, spec_correct, missed>>,
         loc \in DecidedLoc => spec_correct[p],
         loc \in {"sig_commit", "wait_next"} => p \in patched',
         loc = "abort_sig" => partial_size' <= p,
         loc \in CommitLoc => partial_size <= p + 1,
         pc[p] \in GroupLoc \cup GoneLoc => loc \in GroupLoc \cup GoneLoc,
         loc # "gwait" \/ gi[p] = 0,
         loc \in {"apply"} \cup AppliedLoc => partial_size <= p \/ Behind(p),
         loc \in {"wait_conc", "seq"} /\ p # 0 => Behind(p),
         p \in missed => /\ loc \in AppliedLoc \cup GoneLoc
                         /\ loc \in AppliedLoc => partial_size <= p
  PROVE  CommitInv'
<1>1. TaskInv(p)
  BY DEF CommitInv
<1>2. FreedCommitted(p)'
  BY <1>1, GrowsCommitted, ProcFacts DEF TaskInv, FreedCommitted, Grows, TypeInv, TypeOK
<1>3. pc'[p] = loc => TaskInv(p)'
  BY <1>1, <1>2, MovedTask
<1> QED
  BY <1>3, OneTask

LEMMA CommitLibrary ==
  ASSUME TypeInv, TypeInv', RaceInv, CheckInv, CommitInv, Shrinks, NEW p \in Task, LibraryStep(p)
  PROVE  CommitInv'
<1> USE ProcFacts
<1> DEFINE Kept == UNCHANGED <<gi, data_committed, spec_correct, missed, checked>>
<1>1. TaskInv(p) /\ p \in Int /\ partial_size \in Int /\ partial_size' \in Int
  BY DEF CommitInv, TypeInv, TypeOK
<1>2. ASSUME patched \subseteq patched', UNCHANGED <<spec_correct, checked>> PROVE Grows
  BY <1>1, <1>2 DEF Grows, Shrinks
<1>3. CASE p = 0 /\ PprBeginFork(p)
  <2>1. Grows
    BY <1>2, <1>3 DEF PprBeginFork, sync, history
  <2> QED
    BY <1>3, <2>1, ForkCommit
<1>4. CASE p = 0 /\ PprBeginForkFails(p)
  <2>1. Kept /\ Grows /\ Goto(p, "seq") /\ pc[p] = "begin"
    BY <1>2, <1>4 DEF PprBeginForkFails, BecomeSeq, At, sync, history
  <2>2. p \notin missed
    BY <1>1, <2>1 DEF TaskInv, MissedOut, AppliedLoc, GoneLoc
  <2> QED
    BY <1>4, <2>1, <2>2, MovesOn DEF DecidedLoc, CommitLoc, AppliedLoc, GroupLoc, GoneLoc
<1>5. CASE CheckCorrectness(p)
  BY <1>5, CheckGrows, CheckCommitted
<1>6. ASSUME NEW loc \in {"sig_commit", "wait_next", "recheck", "fail"},
             pc[p] \in DecidedLoc, Goto(p, loc), Kept, patched \subseteq patched',
             loc \in {"sig_commit", "wait_next"} => p \in patched'
      PROVE  CommitInv'
  <2>1. Grows
    BY <1>2, <1>6
  <2>2. p \notin missed /\ spec_correct[p]
    BY <1>1, <1>6 DEF TaskInv, MissedOut, DecidedCorrect, DecidedLoc, AppliedLoc, GoneLoc
  <2> QED
    BY <1>6, <2>1, <2>2, MovesOn DEF DecidedLoc, CommitLoc, AppliedLoc, GroupLoc, GoneLoc
<1>7. CASE DataCommit(p)
  BY <1>6, <1>7 DEF DataCommit, At, sync, history, DecidedLoc
<1>8. CASE LastTask(p)
  BY <1>6, <1>8 DEF LastTask, At, sync, history, DecidedLoc
<1>9. CASE SignalCommitDone(p)
  <2>1. /\ pc[p] = "sig_commit" /\ Goto(p, "wait_next")
        /\ data_committed' = [data_committed EXCEPT ![p] = FALSE]
        /\ UNCHANGED <<gi, spec_correct, missed, checked, patched>>
    BY <1>9 DEF SignalCommitDone, At, history
  <2>2. Grows
    BY <1>2, <2>1
  <2>3. spec_correct[p] /\ p \in patched /\ p \notin missed
    BY <1>1, <2>1 DEF TaskInv, DecidedCorrect, PatchWritten, MissedOut, DecidedLoc,
       AppliedLoc, GoneLoc
  <2>4. FreedCommitted(p)'
    BY <2>1, <2>3 DEF FreedCommitted, Committed
  <2>5. pc'[p] = "wait_next" => TaskInv(p)'
    BY <1>1, <2>1, <2>2, <2>3, <2>4, MovedTask
    DEF DecidedLoc, CommitLoc, AppliedLoc, GroupLoc, GoneLoc
  <2>6. \A q \in Task : q # p => data_committed'[q] = data_committed[q]
    BY <2>1 DEF TypeInv, TypeOK
  <2> QED
    BY <2>1, <2>2, <2>5, <2>6, OneTask
<1>10. CASE WaitNextCommitDone(p)
  BY <1>6, <1>10 DEF WaitNextCommitDone, At, sync, history, DecidedLoc
<1>11. CASE Recheck(p)
  <2>1. Kept /\ Grows /\ pc[p] = "recheck"
    BY <1>2, <1>11 DEF Recheck, At, sync, history
  <2>2. p \notin missed /\ gi[p] = 0
    BY <1>1, <2>1 DEF TaskInv, MissedOut, LoopStarts, AppliedLoc, GroupLoc, GoneLoc
  <2>3. CASE p > 0 /\ p = partial_size - 1
    <3>1. Goto(p, "gwait")
      BY <1>11, <2>3 DEF Recheck
    <3> QED
      BY <1>1, <2>1, <2>2, <2>3, <3>1, MovesOn
      DEF DecidedLoc, CommitLoc, AppliedLoc, GroupLoc, GoneLoc
  <2>4. CASE ~(p > 0 /\ p = partial_size - 1)
    <3>1. Goto(p, "reap")
      BY <1>11, <2>4 DEF Recheck
    <3> QED
      BY <2>1, <2>2, <3>1, MovesOn DEF DecidedLoc, CommitLoc, AppliedLoc, GroupLoc, GoneLoc
  <2> QED
    BY <2>3, <2>4
<1>12. CASE PartialGroupSetSize(p)
  <2>1. Kept /\ Grows /\ pc[p] \in CapLoc
    BY <1>2, <1>12 DEF PartialGroupSetSize, At, history, CapLoc
  <2>2. PICK loc \in UserLoc : Goto(p, loc)
    BY <1>12 DEF PartialGroupSetSize, UserLoc
  <2>3. loc \in QuietLoc /\ pc[p] \notin GroupLoc \cup GoneLoc
    BY <2>1 DEF QuietLoc, TaskLoc, UserLoc, CapLoc, DecidedLoc, GroupLoc, GoneLoc
  <2> QED
    BY <2>1, <2>2, <2>3, QuietTask
<1>13. CASE EndClean(p)
  <2>1. Kept /\ Grows /\ Goto(p, "dead")
    BY <1>2, <1>13 DEF EndClean, Die, sync, history
  <2> QED
    BY <2>1, QuietTask DEF QuietLoc, TaskLoc, DecidedLoc, GroupLoc, GoneLoc
<1> QED
  BY <1>3, <1>4, <1>5, <1>7, <1>8, <1>9, <1>10, <1>11, <1>12, <1>13 DEF LibraryStep

LEMMA CommitSpecLibrary ==
  ASSUME TypeInv, TypeInv', CheckInv, CommitInv, Shrinks, NEW p \in SpecTask, SpecLibraryStep(p)
  PROVE  CommitInv'
<1> USE ProcFacts
<1> DEFINE Kept == UNCHANGED <<gi, data_committed, spec_correct, missed, checked>>
<1>1. TaskInv(p) /\ p \in Int /\ partial_size \in Int /\ partial_size' \in Int
  BY DEF CommitInv, TypeInv, TypeOK
<1>2. ASSUME patched \subseteq patched', UNCHANGED <<spec_correct, checked>> PROVE Grows
  BY <1>1, <1>2 DEF Grows, Shrinks
<1>3. ASSUME NEW loc \in {"gap", "fail", "check", "abort_cap"}, Goto(p, loc), Kept,
             UNCHANGED patched, pc[p] \notin GroupLoc \cup GoneLoc
      PROVE  CommitInv'
  <2>1. loc \in QuietLoc
    BY DEF QuietLoc, TaskLoc, UserLoc, DecidedLoc, GroupLoc
  <2> QED
    BY <1>2, <1>3, <2>1, QuietTask
<1> USE DEF GroupLoc, GoneLoc
<1>4. CASE TaskInit(p)
  BY <1>3, <1>4 DEF TaskInit, At, sync, history
<1>5. CASE ReapExit(p)
  BY <1>3, <1>5 DEF ReapExit, sync, history
<1>6. CASE WaitPriorCheckDone(p)
  BY <1>3, <1>6 DEF WaitPriorCheckDone, history
<1>7. CASE AbortTest(p)
  <2>1. Kept /\ Grows /\ pc[p] = "fail"
    BY <1>2, <1>7 DEF AbortTest, sync, history
  <2>2. CASE partial_size > p
    BY <1>3, <1>7, <2>1, <2>2 DEF AbortTest
  <2>3. CASE ~(partial_size > p)
    <3>1. Goto(p, "abort_sig") /\ partial_size' <= p /\ p \notin missed
      BY <1>1, <1>7, <2>1, <2>3
      DEF AbortTest, sync, TaskInv, MissedOut, AppliedLoc
    <3> QED
      BY <2>1, <3>1, MovesOn DEF DecidedLoc, CommitLoc, AppliedLoc
  <2> QED
    BY <2>2, <2>3
<1>8. CASE AbortCap(p)
  <2>1. Kept /\ Grows /\ pc[p] = "abort_cap" /\ Goto(p, "abort_sig") /\ partial_size' = p
    BY <1>2, <1>8 DEF AbortCap, history
  <2>2. p \notin missed
    BY <1>1, <2>1 DEF TaskInv, MissedOut, AppliedLoc
  <2> QED
    BY <1>1, <2>1, <2>2, MovesOn DEF DecidedLoc, CommitLoc, AppliedLoc
<1>9. ASSUME NEW loc, pc[p] \in {"abort_sig", "apply"}, Goto(p, loc),
             data_committed' = [data_committed EXCEPT ![p] = FALSE],
             UNCHANGED <<gi, spec_correct, checked, patched>>,
             \A q \in Task : q # p => (q \in missed' => q \in missed),
             Grows => FreedCommitted(p)',
             Grows /\ FreedCommitted(p)' /\ pc'[p] = loc => TaskInv(p)'
      PROVE  CommitInv'
  <2>1. \A q \in Task : q # p => data_committed'[q] = data_committed[q]
    BY <1>9 DEF TypeInv, TypeOK
  <2> QED
    BY <1>2, <1>9, <2>1, OneTask
<1>10. CASE AbortSignal(p)
  <2>1. /\ pc[p] = "abort_sig" /\ Goto(p, "reap")
        /\ data_committed' = [data_committed EXCEPT ![p] = FALSE]
        /\ UNCHANGED <<gi, spec_correct, checked, patched, missed>>
    BY <1>10 DEF AbortSignal, history
  <2>2. Grows => FreedCommitted(p)'
    BY <1>1, <2>1 DEF Grows, FreedCommitted, TaskInv, AbortedOut
  <2>3. ASSUME Grows, FreedCommitted(p)', pc'[p] = "reap" PROVE TaskInv(p)'
    BY <1>1, <2>1, <2>3, MovedTask DEF DecidedLoc, CommitLoc, AppliedLoc
  <2> QED
    BY <1>9, <2>1, <2>2, <2>3
<1>11. CASE TaskGroupCommit(p)
  <2>1. /\ pc[p] = "apply" /\ Goto(p, "wait_created")
        /\ data_committed' = [data_committed EXCEPT ![p] = FALSE]
        /\ missed' = IF 0 .. p-1 \subseteq patched THEN missed ELSE missed \cup {p}
        /\ UNCHANGED <<gi, spec_correct, checked, patched, partial_size>>
    BY <1>11 DEF TaskGroupCommit
  <2>2. /\ partial_size <= p \/ Behind(p)
        /\ partial_size <= p + 1 /\ p \notin missed
    BY <1>1, <2>1 DEF TaskInv, AllCommitted, LastOfGroup, MissedOut, AppliedLoc, CommitLoc
  <2>3. Grows => FreedCommitted(p)'
    BY <1>1, <2>2 DEF Grows, FreedCommitted
  <2>4. p \in missed' => partial_size <= p
    <3>1. \A i \in 0 .. p-1 : i \in Task /\ i < p
      BY <1>1
    <3>2. Behind(p) => 0 .. p-1 \subseteq patched
      BY <3>1 DEF Behind, Committed
    <3> QED
      BY <2>1, <2>2, <3>2
  <2>5. p \in checked
    BY <2>1 DEF CheckInv, PassedChecked, PassedLoc
  <2>6. ASSUME Grows, FreedCommitted(p)', pc'[p] = "wait_created" PROVE TaskInv(p)'
    <3> USE <2>1, <2>6 DEF TaskInv, Grows
    <3>1. DecidedCorrect(p)' /\ CorrectChecked(p)' /\ PatchWritten(p)' /\ AbortedOut(p)'
      BY <1>1 DEF DecidedCorrect, CorrectChecked, PatchWritten, AbortedOut, DecidedLoc
    <3>2. LastOfGroup(p)' /\ LoopStarts(p)' /\ LoopCommitted(p)'
      BY <1>1, <2>2 DEF LastOfGroup, LoopStarts, LoopCommitted, CommitLoc
    <3>3. AllCommitted(p)'
      BY <2>2, GrowsBehind DEF AllCommitted, AppliedLoc
    <3>4. MissedOut(p)'
      BY <2>4, <2>5 DEF MissedOut, AppliedLoc
    <3> QED
      BY <3>1, <3>2, <3>3, <3>4
  <2> QED
    BY <1>9, <2>1, <2>3, <2>6
<1>12. CASE WaitGroupCommitDone(p)
  <2>1. /\ pc[p] = "gwait" /\ gi[p] < partial_size - 1 /\ ~data_committed[gi[p]]
        /\ data_committed' = [data_committed EXCEPT ![gi[p]] = TRUE]
        /\ gi' = [gi EXCEPT ![p] = @ + 1]
        /\ UNCHANGED <<pc, spec_correct, checked, patched, missed, partial_size>>
    BY <1>12 DEF WaitGroupCommitDone, history
  <2>2. Grows
    BY <1>2, <2>1
  <2>3. gi[p] \in Task /\ gi'[p] = gi[p] + 1 /\ gi[p] \in Nat
    BY <1>1, <2>1 DEF TypeInv, TypeOK
  <2>4. Committed(gi[p]) \/ partial_size <= gi[p] + 1
    BY <2>1, <2>3 DEF CommitInv, TaskInv, FreedCommitted
  <2>5. \A q \in Task : ~data_committed'[q] => ~data_committed[q]
    BY <2>1 DEF TypeInv, TypeOK
  <2>6. \A q \in Task : q # p => gi'[q] = gi[q]
    BY <2>1 DEF TypeInv, TypeOK
  <2>7. ASSUME NEW q \in Task, q # p PROVE TaskInv(q)'
    BY <2>1, <2>2, <2>5, <2>6, <2>7, OtherTask DEF CommitInv
  <2>8. TaskInv(p)'
    <3> USE <1>1, <2>1 DEF TaskInv
    <3>1. LoopStarts(p)'
      BY DEF LoopStarts, CheckInv, PassedChecked, PassedLoc
    <3>2. LoopCommitted(p)'
      <4> SUFFICES ASSUME NEW i \in Task, i < gi'[p]
                   PROVE  Committed(i)' \/ partial_size' <= i + 1
        BY DEF LoopCommitted
      <4>1. CASE i = gi[p]
        BY <2>2, <2>4, <4>1, GrowsCommitted
      <4>2. CASE i < gi[p]
        BY <2>2, <4>2, GrowsCommitted DEF LoopCommitted
      <4> QED
        BY <2>3, <4>1, <4>2
    <3>3. FreedCommitted(p)'
      BY <2>2, <2>5, GrowsCommitted DEF FreedCommitted
    <3>4. DecidedCorrect(p)' /\ CorrectChecked(p)' /\ PatchWritten(p)' /\ AbortedOut(p)'
          /\ LastOfGroup(p)' /\ MissedOut(p)'
      BY DEF DecidedCorrect, CorrectChecked, PatchWritten, AbortedOut, LastOfGroup, MissedOut
    <3>5. AllCommitted(p)'
      BY DEF AllCommitted, AppliedLoc
    <3> QED
      BY <3>1, <3>2, <3>3, <3>4, <3>5
  <2> QED
    BY <2>7, <2>8 DEF CommitInv
<1>13. CASE GroupCommitDone(p)
  <2>1. Kept /\ Grows /\ pc[p] = "gwait" /\ gi[p] >= partial_size - 1 /\ Goto(p, "apply")
    BY <1>2, <1>13 DEF GroupCommitDone, sync, history
  <2>2. gi[p] \in Nat /\ p \notin missed /\ partial_size <= p + 1
    BY <1>1, <2>1 DEF TypeInv, TypeOK, TaskInv, MissedOut, LastOfGroup, AppliedLoc, CommitLoc
  <2>3. partial_size <= p \/ Behind(p)
    <3> SUFFICES ASSUME partial_size > p, NEW i \in Task, i < p PROVE Committed(i)
      BY <1>1 DEF Behind
    <3>1. i < gi[p] /\ ~(partial_size <= i + 1)
      BY <1>1, <2>1, <2>2
    <3> QED
      BY <1>1, <2>1, <3>1 DEF TaskInv, LoopCommitted
  <2> QED
    BY <2>1, <2>2, <2>3, MovesOn DEF DecidedLoc, CommitLoc, AppliedLoc
<1>14. CASE WaitUndyCreated(p)
  <2>1. Kept /\ Grows /\ pc[p] = "wait_created" /\ Goto(p, "kill")
    BY <1>2, <1>14 DEF WaitUndyCreated, history
  <2>2. /\ partial_size <= p \/ Behind(p)
        /\ partial_size <= p + 1
        /\ p \in missed => partial_size <= p
    BY <1>1, <2>1 DEF TaskInv, AllCommitted, LastOfGroup, MissedOut, AppliedLoc, CommitLoc
  <2> QED
    BY <2>1, <2>2, MovesOn DEF DecidedLoc, CommitLoc, AppliedLoc
<1>15. CASE KillUsr1(p)
  <2>1. Kept /\ Grows /\ pc[p] = "kill"
    BY <1>2, <1>15 DEF KillUsr1, sync
  <2>2. CASE pc' = [pc EXCEPT ![p] = "wait_conc"] /\ p = partial_size - 1
    <3>1. Behind(p) /\ p \notin missed
      BY <1>1, <2>1, <2>2 DEF TaskInv, AllCommitted, MissedOut, AppliedLoc
    <3>2. Goto(p, "wait_conc")
      BY <2>2 DEF Goto
    <3> QED
      BY <2>1, <3>1, <3>2, MovesOn DEF DecidedLoc, CommitLoc, AppliedLoc
  <2>3. CASE \E loc \in GoneLoc : Goto(p, loc)
    BY <2>1, <2>3, QuietTask DEF QuietLoc, TaskLoc, DecidedLoc
  <2> QED
    BY <1>15, <2>2, <2>3 DEF KillUsr1, Goto
<1>16. CASE WaitUndyConceded(p)
  <2>1. Kept /\ Grows /\ pc[p] = "wait_conc" /\ Goto(p, "seq")
    BY <1>2, <1>16 DEF WaitUndyConceded, BecomeSeq, history
  <2>2. Behind(p) /\ p \notin missed
    BY <1>1, <2>1 DEF TaskInv, AllCommitted, MissedOut, AppliedLoc
  <2> QED
    BY <2>1, <2>2, MovesOn DEF DecidedLoc, CommitLoc, AppliedLoc
<1> QED
  BY <1>4, <1>5, <1>6, <1>7, <1>8, <1>10, <1>11, <1>12, <1>13, <1>14, <1>15, <1>16
  DEF SpecLibraryStep

(* The steps of user code, of the understudy and of the signal handlers    *)
(* commit nothing.                                                         *)
QuietStep(p) ==
  /\ UNCHANGED <<gi, data_committed, spec_correct, missed, checked, patched>>
  /\ \/ \A q \in Task : pc'[q] = pc[q]
     \/ \E loc \in QuietLoc : /\ Goto(p, loc)
                              /\ pc[p] \in GroupLoc \cup GoneLoc => loc \in GoneLoc

LEMMA QuietCommit ==
  ASSUME TypeInv, TypeInv', CommitInv, Shrinks, NEW p \in Task, QuietStep(p)
  PROVE  CommitInv'
<1>1. Grows
  BY DEF Grows, Shrinks, QuietStep, TypeInv, TypeOK
<1> QED
  BY <1>1, QuietTask, StillTasks DEF QuietStep

LEMMA CommitSpecUser ==
  ASSUME TypeInv, TypeInv', CheckInv, CommitInv, Shrinks, NEW p \in SpecTask, SpecUserStep(p)
  PROVE  CommitInv'
<1> USE ProcFacts
    DEF At, sync, history, QuietLoc, TaskLoc, UserLoc, CapLoc, DecidedLoc, GroupLoc, GoneLoc
<1>1. CASE PprBeginFork(p)
  <2>1. Grows
    BY <1>1 DEF PprBeginFork, Grows, Shrinks, TypeInv, TypeOK
  <2> QED
    BY <1>1, <2>1, ForkCommit
<1>2. CASE PprBeginNoFork(p)
  BY <1>2, QuietCommit DEF PprBeginNoFork, QuietStep
<1>3. CASE PprBeginForkFails(p)
  BY <1>3, QuietCommit DEF PprBeginForkFails, QuietStep
<1>4. CASE AbortSpec(p)
  BY <1>4, QuietCommit DEF AbortSpec, QuietStep
<1>5. CASE AbortNextSpec(p)
  BY <1>5, QuietCommit DEF AbortNextSpec, QuietStep
<1>6. CASE SilentExit(p)
  BY <1>6, QuietCommit DEF SilentExit, Die, QuietStep
<1>7. CASE PprEndSpec(p)
  BY <1>7, QuietCommit DEF PprEndSpec, QuietStep
<1> QED
  BY <1>1, <1>2, <1>3, <1>4, <1>5, <1>6, <1>7 DEF SpecUserStep

LEMMA CommitMainUser ==
  ASSUME TypeInv, TypeInv', CommitInv, Shrinks, MainUserStep
  PROVE  CommitInv'
<1> USE ProcFacts
    DEF At, sync, history, QuietLoc, TaskLoc, UserLoc, CapLoc, DecidedLoc, GroupLoc, GoneLoc
<1>1. CASE AbortSpecMain
  BY <1>1, QuietCommit DEF AbortSpecMain, QuietStep
<1>2. CASE AbortNextSpec(0)
  BY <1>2, QuietCommit DEF AbortNextSpec, QuietStep
<1>3. ASSUME pc[0] = "ppr", NEW loc \in {"dead", "check"},
             pc' = [pc EXCEPT ![0] = loc, ![Undy] = "undy_new"],
             UNCHANGED <<gi, data_committed, spec_correct, missed, checked, patched>>
      PROVE  CommitInv'
  <2>1. Grows
    BY <1>3 DEF Grows, Shrinks, TypeInv, TypeOK
  <2>2. pc'[0] = loc /\ \A q \in Task : q # 0 => pc'[q] = pc[q]
    BY <1>3 DEF TypeInv, TypeOK
  <2>3. TaskInv(0)
    BY DEF CommitInv
  <2>4. FreedCommitted(0)'
    BY <1>3, <2>1, <2>3, GrowsCommitted DEF TaskInv, FreedCommitted, Grows, TypeInv, TypeOK
  <2>5. 0 \notin missed
    BY <1>3, <2>3 DEF TaskInv, MissedOut, AppliedLoc
  <2>6. TaskInv(0)'
    BY <1>3, <2>1, <2>2, <2>3, <2>4, <2>5, MovedTask DEF CommitLoc, AppliedLoc
  <2>7. ASSUME NEW q \in Task, q # 0 PROVE TaskInv(q)'
    BY <1>3, <2>1, <2>2, <2>7, OtherTask DEF CommitInv
  <2> QED
    BY <2>6, <2>7 DEF CommitInv
<1>4. CASE MallocRescue
  BY <1>3, <1>4 DEF MallocRescue
<1>5. CASE PprEndMain
  BY <1>3, <1>5 DEF PprEndMain
<1>6. CASE SpawnUndyFails
  <2>1. Grows /\ Goto(0, "seq") /\ pc[0] = "ppr"
        /\ UNCHANGED <<gi, data_committed, spec_correct, missed>>
    BY <1>6 DEF SpawnUndyFails, BecomeSeq, Grows, Shrinks, TypeInv, TypeOK
  <2>2. 0 \notin missed
    BY <2>1 DEF CommitInv, TaskInv, MissedOut, AppliedLoc
  <2> QED
    BY <2>1, <2>2, MovesOn DEF CommitLoc, AppliedLoc
<1> QED
  BY <1>1, <1>2, <1>4, <1>5, <1>6 DEF MainUserStep

LEMMA CommitUndy ==
  ASSUME TypeInv, TypeInv', CommitInv, Shrinks, UndyStep
  PROVE  CommitInv'
<1>1. UNCHANGED <<gi, data_committed, spec_correct, missed, checked, patched>>
  BY DEF UndyStep, UndyStart, UndyBegin, PostPprUndy, UndyUnmatchedEnd, UndyExit,
     KillUsr2, UndySuccFini, sync, history
<1>2. \E loc : Goto(Undy, loc)
  BY DEF UndyStep, UndyStart, UndyBegin, PostPprUndy, UndyUnmatchedEnd, UndyExit,
     KillUsr2, UndySuccFini, BecomeSeq
<1>3. \A q \in Task : pc'[q] = pc[q]
  BY <1>2, ProcFacts DEF Goto, TypeInv, TypeOK
<1> QED
  BY <1>1, <1>3, QuietCommit, ProcFacts DEF QuietStep

LEMMA CommitSignal ==
  ASSUME TypeInv, TypeInv', CommitInv, Shrinks, SignalStep
  PROVE  CommitInv'
<1> USE ProcFacts
    DEF sync, history, QuietLoc, TaskLoc, UserLoc, CapLoc, DecidedLoc, GroupLoc, GoneLoc
<1>1. CASE SigUsr1Undy
  <2>1. \A q \in Task : pc'[q] = pc[q]
    BY <1>1 DEF SigUsr1Undy, Die, Goto, TypeInv, TypeOK
  <2> QED
    BY <1>1, <2>1, QuietCommit DEF SigUsr1Undy, QuietStep
<1>2. ASSUME NEW p \in Task, SigUsr1(p) PROVE CommitInv'
  <2>1. \/ UNCHANGED pc
        \/ Goto(p, "reap")
        \/ Goto(p, "dead")
        \/ pc[p] = "reap_exit" /\ Goto(p, "fail")
    BY <1>2 DEF SigUsr1, Die
  <2>2. QuietStep(p)
    BY <1>2, <2>1 DEF SigUsr1, QuietStep
  <2> QED
    BY <2>2, QuietCommit
<1>3. ASSUME NEW p \in Task, SigUsr2(p) PROVE CommitInv'
  BY <1>3, QuietCommit DEF SigUsr2, Die, QuietStep
<1>4. CASE ChildHandler
  BY <1>4, QuietCommit DEF ChildHandler, QuietStep
<1>5. CASE ChildHandlerReturns
  BY <1>5, QuietCommit DEF ChildHandlerReturns, QuietStep
<1> QED
  BY <1>1, <1>2, <1>3, <1>4, <1>5 DEF SignalStep

LEMMA CommitStep ==
  ASSUME TypeInv, TypeInv', RaceInv, CheckInv, CommitInv, [Next]_vars, [Shrinks]_vars
  PROVE  CommitInv'
<1>1. Shrinks
  BY DEF Shrinks, vars, sync, TypeInv, TypeOK
<1>2. CASE UNCHANGED vars
  <2>1. QuietStep(0)
    BY <1>2 DEF QuietStep, vars, sync, history
  <2> QED
    BY <1>1, <2>1, QuietCommit, ProcFacts
<1> QED
  BY <1>1, <1>2, CommitLibrary, CommitSpecLibrary, CommitSpecUser, CommitMainUser,
     CommitUndy, CommitSignal DEF Next

LEMMA CommitSafe ==
  TypeInv /\ CheckInv /\ CommitInv => CommitOnlyCorrect /\ NothingMissed
<1> SUFFICES ASSUME TypeInv, CheckInv, CommitInv, NEW p \in SpecTask, Winner(p)
             PROVE  p \notin missed /\ \A i \in 0 .. p : spec_correct[i]
  BY DEF CommitOnlyCorrect, NothingMissed
<1>1. pc[p] = "seq" /\ p \in Task /\ p # 0
  BY ProcFacts DEF Winner, TypeInv, TypeOK, TaskLoc, UserLoc, CapLoc
<1>2. Behind(p) /\ p \notin missed
  BY <1>1 DEF CommitInv, TaskInv, AllCommitted, MissedOut, AppliedLoc, GoneLoc
<1>3. spec_correct[p]
  BY <1>1 DEF CheckInv, PassedChecked, PassedLoc, GroupLoc
<1>4. \A i \in 0 .. p : i \in Task /\ (i = p \/ i < p)
  BY ProcFacts DEF SpecTask, Task
<1> QED
  BY <1>2, <1>3, <1>4 DEF Behind, Committed

LEMMA CommitAlways ==
  Spec /\ [][Shrinks]_vars => [](TypeInv /\ RaceInv /\ CheckInv /\ CommitInv)
BY InitType, InitRace, InitCheck, InitCommit, TypeStep, RaceStep, CheckStep,
   CommitStep, PTL DEF Spec

(* If partial_size never grows, the group that a SPEC commits holds only   *)
(* tasks whose check has passed, in a group of any size and with any       *)
(* conflicts, aborts, exits and failed forks.                              *)
THEOREM ShrinkingCommitsCorrect == Spec /\ [][Shrinks]_vars => []CommitOnlyCorrect
BY CommitAlways, CommitSafe, PTL

(* If partial_size never grows, a SPEC that has won has applied the patch  *)
(* of every earlier task: the locks data_committed that an aborting task   *)
(* or another committer frees never let it go on too early.                *)
THEOREM ShrinkingMissesNothing == Spec /\ [][Shrinks]_vars => []NothingMissed
BY CommitAlways, CommitSafe, PTL

-----------------------------------------------------------------------------
(***************************************************************************)
(* MAIN's abort.  When MAIN has asked to abort, the size is 1 or MAIN is   *)
(* about to set it.  No signal can take MAIN away before it has: signals   *)
(* are sent only when the understudy has started, and then MAIN has left   *)
(* its region.  A SPEC that survives its own kill( 0, SIGUSR1 ) has found  *)
(* itself to be the last of more than one.                                 *)
(***************************************************************************)
Kills == {"USR1", "USR2"}
SurvivorLoc == {"wait_conc", "seq"}

AbortHolds == main_aborted => partial_size = 1 \/ pc[0] = "ppr_cap"
SignalledLate == sig[0] \cap Kills # {} => UndyBorn
SurvivorUnaborted == \A p \in SpecTask : pc[p] \in SurvivorLoc => ~main_aborted

AbortInv == AbortHolds /\ SignalledLate /\ SurvivorUnaborted

(* What a step may do to the parts of this invariant. *)
BornStays == UndyBorn => UndyBorn'
KillsWhenBorn == UndyBorn \/ sig'[0] \cap Kills \subseteq sig[0] \cap Kills
CapKept == pc[0] = "ppr_cap" => pc'[0] = "ppr_cap" \/ partial_size' = 1
AbortCaps ==
  main_aborted' => \/ main_aborted
                   \/ pc[0] = "ppr" /\ (partial_size <= 1 \/ pc'[0] = "ppr_cap")
SurvivorLast ==
  \A p \in SpecTask : pc'[p] \in SurvivorLoc =>
    pc[p] \in SurvivorLoc \/ (pc[p] = "kill" /\ p = partial_size - 1)
AbortKind == BornStays /\ KillsWhenBorn /\ CapKept /\ AbortCaps /\ SurvivorLast

LEMMA InitAbort == Init => AbortInv
BY ProcFacts DEF Init, AbortInv, AbortHolds, SignalledLate, SurvivorUnaborted,
   SurvivorLoc, Kills

(* The death of a process sends MAIN no signal but SIGCHLD. *)
LEMMA BuriedKills ==
  ASSUME NEW sg \in [Proc -> SUBSET Signal], NEW p \in Proc
  PROVE  Buried(sg, p)[0] \cap Kills \subseteq sg[0] \cap Kills
BY ProcFacts DEF Buried, Kills, Signal

(* A step of one task that sends no signal and asks for no abort. *)
LEMMA QuietAbort ==
  ASSUME TypeInv, NEW p \in Task, NEW loc, Goto(p, loc), KillsWhenBorn,
         UNCHANGED main_aborted,
         p = 0 /\ pc[p] = "ppr_cap" => partial_size' = 1,
         loc \in SurvivorLoc => p = 0 \/ pc[p] \in SurvivorLoc
  PROVE  AbortKind
<1>1. /\ pc'[p] = loc /\ pc'[Undy] = pc[Undy]
      /\ \A q \in Task : q # p => pc'[q] = pc[q]
  BY ProcFacts DEF TypeInv, TypeOK, Goto
<1> QED
  BY <1>1, ProcFacts DEF AbortKind, BornStays, UndyBorn, CapKept, AbortCaps, SurvivorLast

(* A step of the understudy after its birth. *)
LEMMA UndyAbort ==
  ASSUME TypeInv, NEW loc, loc \notin {"none", "undy_new"}, Goto(Undy, loc), KillsWhenBorn,
         UNCHANGED main_aborted
  PROVE  AbortKind
<1>1. pc'[Undy] = loc /\ \A q \in Task : pc'[q] = pc[q]
  BY ProcFacts DEF TypeInv, TypeOK, Goto
<1> QED
  BY <1>1, ProcFacts DEF AbortKind, BornStays, UndyBorn, CapKept, AbortCaps, SurvivorLast

LEMMA ForkAbort ==
  ASSUME TypeInv, NEW p \in Task, PprBeginFork(p)
  PROVE  AbortKind
<1> USE ProcFacts, ForkMoves DEF TypeInv
<1>1. UNCHANGED <<sig, main_aborted>>
  BY DEF PprBeginFork, history
<1>2. pc'[Undy] = pc[Undy] /\ \A q \in Task : pc'[q] = pc[q] \/ pc'[q] \in {"ppr", "newborn"}
  OBVIOUS
<1>3. pc[0] = "ppr_cap" => pc'[0] = "ppr_cap"
  BY DEF SpecTask
<1> QED
  BY <1>1, <1>2, <1>3 DEF AbortKind, BornStays, UndyBorn, KillsWhenBorn, CapKept,
     AbortCaps, SurvivorLast, SurvivorLoc

LEMMA AbortLibrary ==
  ASSUME TypeInv, NEW p \in Task, LibraryStep(p)
  PROVE  AbortKind
<1> USE QuietAbort, ProcFacts DEF At, history, KillsWhenBorn, SurvivorLoc, UserLoc
<1>1. CASE p = 0 /\ PprBeginFork(p)
  BY <1>1, ForkAbort
<1>2. CASE p = 0 /\ PprBeginForkFails(p)
  <2>1. sig' = [sig EXCEPT ![0] = {}] /\ Goto(p, "seq") /\ UNCHANGED main_aborted
        /\ pc[p] = "begin"
    BY <1>2 DEF PprBeginForkFails, BecomeSeq
  <2>2. sig'[0] = {}
    BY <2>1 DEF TypeInv, TypeOK
  <2> QED
    BY <1>2, <2>1, <2>2
<1>3. CASE CheckCorrectness(p)
  <2>1. PICK passed \in Verdict(p) : Goto(p, IF passed THEN "decide" ELSE "fail")
    BY <1>3 DEF CheckCorrectness
  <2> QED
    BY <1>3, <2>1 DEF CheckCorrectness
<1>4. CASE DataCommit(p)
  BY <1>4 DEF DataCommit
<1>5. CASE LastTask(p)
  BY <1>5 DEF LastTask
<1>6. CASE SignalCommitDone(p)
  BY <1>6 DEF SignalCommitDone
<1>7. CASE WaitNextCommitDone(p)
  BY <1>7 DEF WaitNextCommitDone
<1>8. CASE Recheck(p)
  BY <1>8 DEF Recheck
<1>9. CASE PartialGroupSetSize(p)
  BY <1>9 DEF PartialGroupSetSize
<1>10. CASE EndClean(p)
  <2>1. Buried(sig, p)[0] \cap Kills \subseteq sig[0] \cap Kills
    BY BuriedKills DEF TypeInv, TypeOK
  <2> QED
    BY <1>10, <2>1 DEF EndClean, Die
<1> QED
  BY <1>1, <1>2, <1>3, <1>4, <1>5, <1>6, <1>7, <1>8, <1>9, <1>10 DEF LibraryStep

LEMMA AbortSpecLibrary ==
  ASSUME TypeInv, RaceInv, NEW p \in SpecTask, SpecLibraryStep(p)
  PROVE  AbortKind
<1> USE QuietAbort, ProcFacts DEF At, history, KillsWhenBorn, SurvivorLoc, UserLoc
<1>1. CASE TaskInit(p)
  BY <1>1 DEF TaskInit
<1>2. CASE AbortTest(p)
  BY <1>2 DEF AbortTest
<1>3. CASE AbortCap(p)
  BY <1>3 DEF AbortCap
<1>4. CASE AbortSignal(p)
  BY <1>4 DEF AbortSignal
<1>5. CASE ReapExit(p)
  BY <1>5 DEF ReapExit
<1>6. CASE WaitPriorCheckDone(p)
  BY <1>6 DEF WaitPriorCheckDone
<1>7. CASE WaitGroupCommitDone(p)
  BY <1>7 DEF WaitGroupCommitDone, AbortKind, BornStays, UndyBorn, CapKept,
     AbortCaps, SurvivorLast
<1>8. CASE GroupCommitDone(p)
  BY <1>8 DEF GroupCommitDone
<1>9. CASE TaskGroupCommit(p)
  BY <1>9 DEF TaskGroupCommit
<1>10. CASE WaitUndyCreated(p)
  BY <1>10 DEF WaitUndyCreated
<1>11. CASE KillUsr1(p)
  <2>1. PICK loc \in {"dead", "wait_conc", "reap"} :
          Goto(p, loc) /\ (loc = "wait_conc" => p = partial_size - 1)
    BY <1>11 DEF KillUsr1
  <2>2. /\ pc'[p] = loc /\ pc'[Undy] = pc[Undy] /\ pc'[0] = pc[0]
        /\ \A q \in SpecTask : q # p => pc'[q] = pc[q]
    BY <2>1 DEF Goto, TypeInv, TypeOK
  <2>3. pc[p] = "kill" /\ UNCHANGED main_aborted
    BY <1>11 DEF KillUsr1
  <2>4. UndyBorn
    BY <2>3 DEF RaceInv, OneCommitter, Committing
  <2> QED
    BY <2>1, <2>2, <2>3, <2>4 DEF AbortKind, BornStays, UndyBorn, CapKept, AbortCaps,
       SurvivorLast
<1>12. CASE WaitUndyConceded(p)
  <2>1. sig' = [sig EXCEPT ![p] = {}] /\ Goto(p, "seq") /\ UNCHANGED main_aborted
        /\ pc[p] = "wait_conc"
    BY <1>12 DEF WaitUndyConceded, BecomeSeq
  <2>2. sig'[0] = sig[0]
    BY <2>1 DEF TypeInv, TypeOK
  <2> QED
    BY <2>1, <2>2
<1> QED
  BY <1>1, <1>2, <1>3, <1>4, <1>5, <1>6, <1>7, <1>8, <1>9, <1>10, <1>11, <1>12
  DEF SpecLibraryStep

LEMMA AbortSpecUser ==
  ASSUME TypeInv, NEW p \in SpecTask, SpecUserStep(p)
  PROVE  AbortKind
<1> USE QuietAbort, ProcFacts DEF At, history, KillsWhenBorn, SurvivorLoc, UserLoc
<1>1. CASE PprBeginFork(p)
  BY <1>1, ForkAbort
<1>2. CASE PprBeginNoFork(p)
  BY <1>2 DEF PprBeginNoFork
<1>3. CASE PprBeginForkFails(p)
  BY <1>3 DEF PprBeginForkFails
<1>4. CASE AbortSpec(p)
  BY <1>4 DEF AbortSpec
<1>5. CASE AbortNextSpec(p)
  <2>1. UNCHANGED main_aborted
    BY <1>5 DEF AbortNextSpec, TypeInv, TypeOK
  <2> QED
    BY <1>5, <2>1 DEF AbortNextSpec
<1>6. CASE SilentExit(p)
  <2>1. Buried(sig, p)[0] \cap Kills \subseteq sig[0] \cap Kills
    BY BuriedKills DEF TypeInv, TypeOK
  <2> QED
    BY <1>6, <2>1 DEF SilentExit, Die
<1>7. CASE PprEndSpec(p)
  BY <1>7 DEF PprEndSpec
<1> QED
  BY <1>1, <1>2, <1>3, <1>4, <1>5, <1>6, <1>7 DEF SpecUserStep

LEMMA AbortMainUser ==
  ASSUME TypeInv, RaceInv, MainUserStep
  PROVE  AbortKind
<1> USE QuietAbort, ProcFacts DEF At, history, KillsWhenBorn, SurvivorLoc, UserLoc
<1>1. CASE AbortSpecMain
  <2>1. pc[0] = "ppr" /\ UNCHANGED sig /\ (partial_size <= 1 \/ pc'[0] = "ppr_cap")
        /\ \A q \in Proc : q # 0 => pc'[q] = pc[q]
    BY <1>1 DEF AbortSpecMain, Goto, TypeInv, TypeOK
  <2> QED
    BY <2>1 DEF AbortKind, BornStays, UndyBorn, CapKept, AbortCaps, SurvivorLast
<1>2. CASE AbortNextSpec(0)
  <2>1. pc[0] # "gap"
    BY DEF RaceInv, MainOut, PreEnd, PostEnd
  <2>2. pc[0] = "ppr" /\ UNCHANGED sig /\ pc'[0] = "ppr_cap"
        /\ \A q \in Proc : q # 0 => pc'[q] = pc[q]
    BY <1>2, <2>1 DEF AbortNextSpec, Goto, TypeInv, TypeOK
  <2> QED
    BY <2>2 DEF AbortKind, BornStays, UndyBorn, CapKept, AbortCaps, SurvivorLast
<1>3. ASSUME pc[0] = "ppr", NEW loc,
             pc' = [pc EXCEPT ![0] = loc, ![Undy] = "undy_new"],
             sig'[0] \cap Kills \subseteq sig[0] \cap Kills, UNCHANGED main_aborted
      PROVE  AbortKind
  <2>1. pc[Undy] = "none"
    BY <1>3 DEF RaceInv, MainOut, PostEnd
  <2>2. \A q \in SpecTask : pc'[q] = pc[q]
    BY <1>3 DEF TypeInv, TypeOK
  <2> QED
    BY <1>3, <2>1, <2>2 DEF AbortKind, BornStays, UndyBorn, CapKept, AbortCaps, SurvivorLast
<1>4. CASE MallocRescue
  <2>1. Buried(sig, 0)[0] \cap Kills \subseteq sig[0] \cap Kills
    BY BuriedKills DEF TypeInv, TypeOK
  <2> QED
    BY <1>3, <1>4, <2>1 DEF MallocRescue
<1>5. CASE PprEndMain
  BY <1>3, <1>5 DEF PprEndMain
<1>6. CASE SpawnUndyFails
  <2>1. sig' = [sig EXCEPT ![0] = {}] /\ Goto(0, "seq") /\ UNCHANGED main_aborted
        /\ pc[0] = "ppr"
    BY <1>6 DEF SpawnUndyFails, BecomeSeq
  <2>2. sig'[0] = {}
    BY <2>1 DEF TypeInv, TypeOK
  <2> QED
    BY <2>1, <2>2
<1> QED
  BY <1>1, <1>2, <1>4, <1>5, <1>6 DEF MainUserStep

LEMMA AbortUndy ==
  ASSUME TypeInv, UndyStep
  PROVE  AbortKind
<1> USE UndyAbort, ProcFacts DEF history, KillsWhenBorn, UserLoc
<1>1. CASE UndyStart
  BY <1>1 DEF UndyStart
<1>2. CASE UndyBegin
  BY <1>2 DEF UndyBegin
<1>3. CASE PostPprUndy
  BY <1>3 DEF PostPprUndy
<1>4. CASE UndyExit
  BY <1>4 DEF UndyExit
<1>5. CASE KillUsr2
  <2>1. PICK loc \in {"dead", "fini", "exit_fini"} : Goto(Undy, loc)
    BY <1>5 DEF KillUsr2
  <2>2. UndyBorn /\ UNCHANGED main_aborted
    BY <1>5 DEF KillUsr2, UndyBorn
  <2> QED
    BY <2>1, <2>2
<1>6. CASE UndySuccFini
  <2>1. UndyBorn
    BY <1>6 DEF UndySuccFini, UndyBorn
  <2> QED
    BY <1>6, <2>1 DEF UndySuccFini, BecomeSeq
<1>7. CASE UndyUnmatchedEnd
  BY <1>7 DEF UndyUnmatchedEnd
<1> QED
  BY <1>1, <1>2, <1>3, <1>4, <1>5, <1>6, <1>7 DEF UndyStep

LEMMA AbortSignals ==
  ASSUME TypeInv, RaceInv, AbortInv, SignalStep
  PROVE  AbortKind
<1> USE ProcFacts DEF history, KillsWhenBorn, SurvivorLoc
<1>1. CASE SigUsr1Undy
  <2>1. Buried(sig, Undy)[0] \cap Kills \subseteq sig[0] \cap Kills
    BY BuriedKills DEF TypeInv, TypeOK
  <2> QED
    BY <1>1, <2>1, UndyAbort DEF SigUsr1Undy, Die
<1>2. ASSUME NEW p \in Task, sig[p] \cap Kills # {} PROVE p = 0 => pc[p] # "ppr_cap"
  BY <1>2 DEF AbortInv, SignalledLate, UndyBorn, RaceInv, MainOut, PostEnd
<1>3. ASSUME NEW p \in Task, SigUsr1(p) PROVE AbortKind
  <2>1. UNCHANGED pc \/ \E loc \in {"reap", "dead", "fail"} : Goto(p, loc)
    BY <1>3 DEF SigUsr1, Die
  <2>2. "USR1" \in sig[p] /\ UNCHANGED main_aborted
    BY <1>3 DEF SigUsr1
  <2>3. \/ sig' = Buried(sig, p)
        \/ sig' = [sig EXCEPT ![p] = @ \ {"USR1"}]
    BY <1>3 DEF SigUsr1, Die
  <2>4. Buried(sig, p)[0] \cap Kills \subseteq sig[0] \cap Kills
    BY BuriedKills DEF TypeInv, TypeOK
  <2>5. sig'[0] \cap Kills \subseteq sig[0] \cap Kills
    BY <2>3, <2>4 DEF TypeInv, TypeOK
  <2>6. CASE UNCHANGED pc
    BY <2>2, <2>5, <2>6 DEF AbortKind, BornStays, UndyBorn, CapKept, AbortCaps, SurvivorLast
  <2>7. CASE \E loc \in {"reap", "dead", "fail"} : Goto(p, loc)
    BY <1>2, <2>2, <2>5, <2>7, QuietAbort DEF Kills
  <2> QED
    BY <2>1, <2>6, <2>7
<1>4. ASSUME NEW p \in Task, SigUsr2(p) PROVE AbortKind
  <2>1. Buried(sig, p)[0] \cap Kills \subseteq sig[0] \cap Kills
    BY BuriedKills DEF TypeInv, TypeOK
  <2>2. p = 0 => pc[p] # "ppr_cap"
    BY <1>2, <1>4 DEF SigUsr2, Kills
  <2> QED
    BY <1>4, <2>1, <2>2, QuietAbort DEF SigUsr2, Die
<1>5. CASE ChildHandler
  <2>1. sig'[0] \subseteq sig[0]
    BY <1>5 DEF ChildHandler, TypeInv, TypeOK
  <2> QED
    BY <1>5, <2>1 DEF ChildHandler, AbortKind, BornStays, UndyBorn, CapKept, AbortCaps, SurvivorLast
<1>6. CASE ChildHandlerReturns
  BY <1>6 DEF ChildHandlerReturns, AbortKind, BornStays, UndyBorn, CapKept, AbortCaps,
     SurvivorLast
<1> QED
  BY <1>1, <1>3, <1>4, <1>5, <1>6 DEF SignalStep

LEMMA AbortKinds ==
  TypeInv /\ RaceInv /\ AbortInv /\ [Next]_vars => AbortKind
<1>1. UNCHANGED vars => AbortKind
  BY DEF vars, history, AbortKind, BornStays, UndyBorn, KillsWhenBorn, CapKept,
     AbortCaps, SurvivorLast
<1> QED
  BY <1>1, AbortLibrary, AbortSpecLibrary, AbortSpecUser, AbortMainUser, AbortUndy,
     AbortSignals DEF Next

LEMMA AbortStep ==
  ASSUME TypeInv, TypeInv', RaceInv, AbortInv, [Next]_vars, [Shrinks]_vars
  PROVE  AbortInv'
<1>1. AbortKind /\ partial_size' <= partial_size
  BY AbortKinds DEF Shrinks, vars, sync, TypeInv, TypeOK
<1>2. partial_size \in Int /\ partial_size >= 1 /\ partial_size' \in Int /\ partial_size' >= 1
  BY DEF TypeInv, TypeOK
<1>3. UndyBorn => pc[0] \notin {"ppr", "ppr_cap"}
  BY DEF UndyBorn, RaceInv, MainOut, PostEnd
<1>4. AbortHolds'
  BY <1>1, <1>2 DEF AbortInv, AbortHolds, AbortKind, CapKept, AbortCaps
<1>5. SignalledLate'
  BY <1>1 DEF AbortInv, SignalledLate, AbortKind, BornStays, KillsWhenBorn
<1>6. SurvivorUnaborted'
  <2> SUFFICES ASSUME NEW p \in SpecTask, pc'[p] \in SurvivorLoc PROVE ~main_aborted'
    BY DEF SurvivorUnaborted
  <2>1. pc[p] \in SurvivorLoc \/ (pc[p] = "kill" /\ p = partial_size - 1)
    BY <1>1 DEF AbortKind, SurvivorLast
  <2>2. UndyBorn
    BY <2>1 DEF RaceInv, OneCommitter, Committing, SurvivorLoc
  <2>3. ~main_aborted
    BY <1>2, <1>3, <2>1, <2>2, ProcFacts DEF AbortInv, AbortHolds, SurvivorUnaborted
  <2> QED
    BY <1>1, <1>3, <2>2, <2>3 DEF AbortKind, AbortCaps
<1> QED
  BY <1>4, <1>5, <1>6 DEF AbortInv

LEMMA AbortSafe == TypeInv /\ AbortInv => AbortSticks
<1>1. ASSUME TypeInv, NEW p \in SpecTask, Winner(p) PROVE pc[p] \in SurvivorLoc
  BY <1>1, ProcFacts DEF Winner, TypeInv, TypeOK, TaskLoc, UserLoc, CapLoc, SurvivorLoc
<1> QED
  BY <1>1 DEF AbortInv, SurvivorUnaborted, AbortSticks

(* If partial_size never grows, no SPEC wins the race once MAIN has        *)
(* aborted the speculation, although the SPECs go on until they look at    *)
(* the group size again.                                                   *)
THEOREM ShrinkingAbortSticks == Spec /\ [][Shrinks]_vars => []AbortSticks
<1>1. Spec /\ [][Shrinks]_vars => [](TypeInv /\ RaceInv /\ AbortInv)
  BY InitType, InitRace, InitAbort, TypeStep, RaceStep, AbortStep, PTL DEF Spec
<1> QED
  BY <1>1, AbortSafe, PTL

-----------------------------------------------------------------------------
(***************************************************************************)
(* Signals and the losers.  Two promises of the race fail in large groups. *)
(* The group may be cut between a SPEC's last look at its size and its     *)
(* kill( 0, SIGUSR1 ); then the understudy concedes to a SPEC that exits.  *)
(* And a SPEC that forks after kill( 0, SIGUSR2 ), before its own signal   *)
(* is handled, leaves a child that nobody has signalled.  The theorems     *)
(* below show that these two windows are the only ones.                    *)
(***************************************************************************)

(* A SPEC that executes kill( 0, SIGUSR1 ) is still the last of the group. *)
KilledByLast == \A p \in SpecTask : KillUsr1(p) => p = partial_size - 1

(* Only a kill makes a signal pending; kill( 0, SIGUSR2 ) goes with a      *)
(* SIGUSR1 for MAIN alone.  A dead understudy has been signalled, and, as  *)
(* long as the kills have not crossed, its signal has a surviving sender,  *)
(* which has none pending.                                                 *)
SignalSent(q) == /\ "USR2" \in sig[q] => "USR2" \in sent
                 /\ "USR1" \in sig[q] /\ q # 0 => "USR1" \in sent
DeadSignalled == pc[Undy] = "dead" => "USR1" \in sent
HasHeir == sent = {"USR1"} => \E p \in SpecTask : pc[p] \in SurvivorLoc
SurvivorQuiet == \A p \in SpecTask : pc[p] = "wait_conc" => "USR1" \notin sig[p]
VictorBorn == "USR2" \in sent => UndyBorn

SignalInv == /\ \A q \in Proc : SignalSent(q)
             /\ DeadSignalled /\ SurvivorQuiet /\ VictorBorn

(* What a step may do to these. *)
SignalsFromKill ==
  \A q \in Proc : /\ "USR2" \in sig'[q] => "USR2" \in sig[q] \cup sent'
                  /\ "USR1" \in sig'[q] /\ q # 0 => "USR1" \in sig[q] \cup sent'
SentStays == sent \subseteq sent'
UndyKilled == pc'[Undy] = "dead" => pc[Undy] = "dead" \/ "USR1" \in sig[Undy]
SurvivorStays ==
  \A p \in SpecTask :
    pc[p] \in SurvivorLoc =>
      \/ pc'[p] \in SurvivorLoc
      \/ "USR2" \in sig[p]
      \/ pc[p] = "wait_conc" /\ "USR1" \in sig[p]
SurvivorNotTold ==
  \A p \in SpecTask :
    pc'[p] = "wait_conc" /\ "USR1" \in sig'[p] => pc[p] = "wait_conc" /\ "USR1" \in sig[p]
KillerSurvives ==
  "USR1" \in sent' \ sent =>
    \E p \in SpecTask :
      /\ KillUsr1(p)
      /\ \/ "USR2" \in sig[p]
         \/ pc'[p] = IF p = partial_size - 1 THEN "wait_conc" ELSE "reap"
ToldByVictor ==
  "USR2" \in sent' \ sent =>
    UndyBorn /\ \A p \in Task : Alive(p)' => Alive(p) /\ "USR2" \in sig'[p]
ToldStays ==
  \A p \in Task : Alive(p)' =>
    \/ Alive(p) /\ ("USR2" \in sig[p] => "USR2" \in sig'[p])
    \/ \E q \in Task : PprBeginFork(q)
SignalKind == /\ SignalsFromKill /\ SentStays /\ UndyKilled /\ SurvivorStays
              /\ SurvivorNotTold /\ KillerSurvives /\ ToldByVictor /\ ToldStays
              /\ BornStays

LEMMA InitSignal == Init => SignalInv /\ HasHeir
BY ProcFacts DEF Init, SignalInv, SignalSent, DeadSignalled, SurvivorQuiet, VictorBorn,
   HasHeir

(* A step changes the kill signals pending at p only, and takes them away. *)
Milder(p) == \A q \in Proc : /\ sig'[q] \cap Kills \subseteq sig[q]
                             /\ q # p => sig[q] \cap Kills \subseteq sig'[q]

LEMMA SameMilder == ASSUME NEW p \in Proc, UNCHANGED sig PROVE Milder(p)
BY DEF Milder

LEMMA BuriedMilder ==
  ASSUME TypeInv, NEW p \in Proc, sig' = Buried(sig, p)
  PROVE  Milder(p)
BY DEF Milder, Buried, TypeInv, TypeOK, Kills, Signal

LEMMA TakenMilder ==
  ASSUME TypeInv, NEW p \in Proc, NEW S \in SUBSET sig[p], sig' = [sig EXCEPT ![p] = S]
  PROVE  Milder(p)
BY DEF Milder, TypeInv, TypeOK

(* A step of one task that sends nothing. *)
LEMMA QuietSignal ==
  ASSUME TypeInv, NEW p \in Task, NEW loc, Goto(p, loc), Milder(p), UNCHANGED sent,
         Alive(p), loc \in {"dead", "seq"} \/ UNCHANGED sig \/ ("USR2" \in sig[p] => "USR2" \in sig'[p]),
         p # 0 /\ pc[p] \in SurvivorLoc =>
           loc \in SurvivorLoc \/ "USR2" \in sig[p] \/ "USR1" \in sig[p],
         p # 0 => loc # "wait_conc"
  PROVE  SignalKind
<1>1. /\ pc'[p] = loc /\ pc'[Undy] = pc[Undy]
      /\ \A q \in Task : q # p => pc'[q] = pc[q]
  BY ProcFacts DEF TypeInv, TypeOK, Goto
<1>2. SignalsFromKill /\ SentStays /\ UndyKilled /\ KillerSurvives /\ ToldByVictor /\ BornStays
  BY <1>1 DEF SignalsFromKill, SentStays, UndyKilled, KillerSurvives, ToldByVictor, BornStays,
     UndyBorn, Milder, Kills
<1>3. SurvivorStays
  BY <1>1, ProcFacts DEF SurvivorStays, SurvivorLoc, Alive
<1>4. SurvivorNotTold
  BY <1>1, ProcFacts DEF SurvivorNotTold, Milder, Kills
<1>5. ToldStays
  <2> SUFFICES ASSUME NEW q \in Task, Alive(q)'
               PROVE  Alive(q) /\ ("USR2" \in sig[q] => "USR2" \in sig'[q])
    BY DEF ToldStays
  <2>1. CASE q = p
    BY <1>1, <2>1 DEF Alive
  <2>2. CASE q # p
    BY <1>1, <2>2, ProcFacts DEF Alive, Milder, Kills
  <2> QED
    BY <2>1, <2>2
<1> QED
  BY <1>2, <1>3, <1>4, <1>5 DEF SignalKind

LEMMA ForkSignal ==
  ASSUME TypeInv, CheckInv, NEW p \in Task, PprBeginFork(p)
  PROVE  SignalKind
<1> USE ProcFacts, ForkMoves DEF TypeInv
<1>1. UNCHANGED <<sig, sent>>
  BY DEF PprBeginFork, history
<1>2. /\ pc'[Undy] = pc[Undy]
      /\ \A q \in Task : pc'[q] = pc[q] \/ pc'[q] \in {"ppr", "newborn"}
  OBVIOUS
<1>3. p \notin checked
  BY DEF CheckInv, MainChecked, SpecChecked, CheckedLoc, PassedLoc, GroupLoc,
     PostEnd, Task, SpecTask
<1>4. p + 1 \notin checked
  BY <1>3 DEF CheckInv, PrefixChecked
<1>5. pc[p + 1] \notin SurvivorLoc /\ pc[p] \notin SurvivorLoc
  BY <1>4 DEF CheckInv, PassedChecked, PassedLoc, GroupLoc, SurvivorLoc
<1>6. SurvivorStays
  BY <1>5 DEF SurvivorStays
<1> QED
  BY <1>1, <1>2, <1>6 DEF SignalKind, SignalsFromKill, SentStays, UndyKilled,
     SurvivorNotTold, KillerSurvives, ToldByVictor, ToldStays, BornStays, UndyBorn

LEMMA SignalLibrary ==
  ASSUME TypeInv, CheckInv, NEW p \in Task, LibraryStep(p)
  PROVE  SignalKind
<1> USE QuietSignal, SameMilder, ProcFacts DEF At, Alive, history, SurvivorLoc, UserLoc
<1>1. CASE p = 0 /\ PprBeginFork(p)
  BY <1>1, ForkSignal
<1>2. CASE p = 0 /\ PprBeginForkFails(p)
  <2>1. sig' = [sig EXCEPT ![p] = {}] /\ Goto(p, "seq") /\ UNCHANGED sent /\ pc[p] = "begin"
    BY <1>2 DEF PprBeginForkFails, BecomeSeq
  <2>2. Milder(p)
    BY <2>1, TakenMilder
  <2> QED
    BY <1>2, <2>1, <2>2
<1>3. CASE CheckCorrectness(p)
  <2>1. PICK passed \in Verdict(p) : Goto(p, IF passed THEN "decide" ELSE "fail")
    BY <1>3 DEF CheckCorrectness
  <2> QED
    BY <1>3, <2>1 DEF CheckCorrectness
<1>4. CASE DataCommit(p)
  BY <1>4 DEF DataCommit
<1>5. CASE LastTask(p)
  BY <1>5 DEF LastTask
<1>6. CASE SignalCommitDone(p)
  BY <1>6 DEF SignalCommitDone
<1>7. CASE WaitNextCommitDone(p)
  BY <1>7 DEF WaitNextCommitDone
<1>8. CASE Recheck(p)
  BY <1>8 DEF Recheck
<1>9. CASE PartialGroupSetSize(p)
  BY <1>9 DEF PartialGroupSetSize
<1>10. CASE EndClean(p)
  <2>1. Milder(p)
    BY <1>10, BuriedMilder DEF EndClean, Die
  <2> QED
    BY <1>10, <2>1 DEF EndClean, Die
<1> QED
  BY <1>1, <1>2, <1>3, <1>4, <1>5, <1>6, <1>7, <1>8, <1>9, <1>10 DEF LibraryStep

(* The commit of a SPEC signals the other processes, and the SPEC itself   *)
(* survives its own signal only as the last of the group.                  *)
LEMMA KillUsr1Signal ==
  ASSUME TypeInv, RaceInv, NEW p \in SpecTask, KillUsr1(p)
  PROVE  SignalKind
<1> USE ProcFacts
<1> DEFINE own == [Sent("USR1") EXCEPT ![p] = @ \ {"USR1"}]
<1>1. PICK loc : /\ Goto(p, loc)
                 /\ \/ "USR2" \in sig[p] /\ loc = "dead" /\ sig' = Buried(own, p)
                    \/ /\ "USR2" \notin sig[p] /\ sig' = own
                       /\ loc = IF p = partial_size - 1 THEN "wait_conc" ELSE "reap"
  BY DEF KillUsr1
<1>2. pc[p] = "kill" /\ sent' = sent \cup {"USR1"}
  BY DEF KillUsr1
<1>3. /\ pc'[p] = loc /\ pc'[Undy] = pc[Undy]
      /\ \A q \in Task : q # p => pc'[q] = pc[q]
  BY <1>1 DEF TypeInv, TypeOK, Goto
<1>4. /\ own \in [Proc -> SUBSET Signal] /\ "USR1" \notin own[p]
      /\ \A q \in Proc : /\ own[q] \subseteq sig[q] \cup {"USR1"}
                         /\ "USR2" \in own[q] <=> "USR2" \in sig[q]
  BY DEF Sent, TypeInv, TypeOK, Signal
<1>5. \A q \in Proc : /\ Buried(own, p)[q] \subseteq sig[q] \cup {"USR1", "CHLD"}
                      /\ q # p /\ "USR2" \in sig[q] => "USR2" \in Buried(own, p)[q]
  <2> HIDE DEF own
  <2> QED
    BY <1>4, SMT DEF Buried
<1>6. \A q \in Proc : /\ sig'[q] \subseteq sig[q] \cup {"USR1", "CHLD"}
                      /\ q # p \/ loc # "dead" => ("USR2" \in sig[q] => "USR2" \in sig'[q])
  BY <1>1, <1>4, <1>5
<1>7. \A q \in SpecTask : q # p => pc[q] # "wait_conc"
  BY <1>2 DEF RaceInv, OneCommitter, Committing
<1>8. loc = "wait_conc" => "USR1" \notin sig'[p]
  BY <1>1, <1>4
<1>9. SignalsFromKill
  BY <1>2, <1>6 DEF SignalsFromKill
<1>10. SentStays /\ UndyKilled /\ BornStays /\ ToldByVictor
  BY <1>2, <1>3 DEF SentStays, UndyKilled, BornStays, UndyBorn, ToldByVictor
<1>11. SurvivorStays
  BY <1>2, <1>3 DEF SurvivorStays, SurvivorLoc
<1>12. SurvivorNotTold
  BY <1>3, <1>7, <1>8 DEF SurvivorNotTold
<1>13. KillerSurvives
  BY <1>1, <1>3 DEF KillerSurvives
<1>14. ToldStays
  BY <1>2, <1>3, <1>6 DEF ToldStays, Alive
<1> QED
  BY <1>9, <1>10, <1>11, <1>12, <1>13, <1>14 DEF SignalKind

LEMMA SignalSpecLibrary ==
  ASSUME TypeInv, RaceInv, NEW p \in SpecTask, SpecLibraryStep(p)
  PROVE  SignalKind
<1> USE QuietSignal, SameMilder, ProcFacts DEF At, Alive, history, SurvivorLoc, UserLoc
<1>1. CASE TaskInit(p)
  BY <1>1 DEF TaskInit
<1>2. CASE AbortTest(p)
  BY <1>2 DEF AbortTest
<1>3. CASE AbortCap(p)
  BY <1>3 DEF AbortCap
<1>4. CASE AbortSignal(p)
  BY <1>4 DEF AbortSignal
<1>5. CASE ReapExit(p)
  BY <1>5 DEF ReapExit
<1>6. CASE WaitPriorCheckDone(p)
  BY <1>6 DEF WaitPriorCheckDone
<1>7. CASE WaitGroupCommitDone(p)
  <2>1. Goto(p, "gwait")
    BY <1>7 DEF WaitGroupCommitDone, Goto, TypeInv, TypeOK
  <2> QED
    BY <1>7, <2>1 DEF WaitGroupCommitDone
<1>8. CASE GroupCommitDone(p)
  BY <1>8 DEF GroupCommitDone
<1>9. CASE TaskGroupCommit(p)
  BY <1>9 DEF TaskGroupCommit
<1>10. CASE WaitUndyCreated(p)
  BY <1>10 DEF WaitUndyCreated
<1>11. CASE KillUsr1(p)
  BY <1>11, KillUsr1Signal
<1>12. CASE WaitUndyConceded(p)
  <2>1. sig' = [sig EXCEPT ![p] = {}] /\ Goto(p, "seq") /\ UNCHANGED sent
        /\ pc[p] = "wait_conc"
    BY <1>12 DEF WaitUndyConceded, BecomeSeq
  <2>2. Milder(p)
    BY <2>1, TakenMilder
  <2> QED
    BY <2>1, <2>2
<1> QED
  BY <1>1, <1>2, <1>3, <1>4, <1>5, <1>6, <1>7, <1>8, <1>9, <1>10, <1>11, <1>12
  DEF SpecLibraryStep

LEMMA SignalSpecUser ==
  ASSUME TypeInv, CheckInv, NEW p \in SpecTask, SpecUserStep(p)
  PROVE  SignalKind
<1> USE QuietSignal, SameMilder, ProcFacts DEF At, Alive, history, SurvivorLoc, UserLoc
<1>1. CASE PprBeginFork(p)
  BY <1>1, ForkSignal
<1>2. CASE PprBeginNoFork(p)
  BY <1>2 DEF PprBeginNoFork
<1>3. CASE PprBeginForkFails(p)
  BY <1>3 DEF PprBeginForkFails
<1>4. CASE AbortSpec(p)
  BY <1>4 DEF AbortSpec
<1>5. CASE AbortNextSpec(p)
  BY <1>5 DEF AbortNextSpec
<1>6. CASE SilentExit(p)
  <2>1. Milder(p)
    BY <1>6, BuriedMilder DEF SilentExit, Die
  <2> QED
    BY <1>6, <2>1 DEF SilentExit, Die
<1>7. CASE PprEndSpec(p)
  BY <1>7 DEF PprEndSpec
<1> QED
  BY <1>1, <1>2, <1>3, <1>4, <1>5, <1>6, <1>7 DEF SpecUserStep

LEMMA SignalMainUser ==
  ASSUME TypeInv, RaceInv, MainUserStep
  PROVE  SignalKind
<1> USE QuietSignal, SameMilder, ProcFacts DEF At, Alive, history, SurvivorLoc, UserLoc
<1>1. CASE AbortSpecMain
  <2>1. pc[0] = "ppr" /\ UNCHANGED <<sig, sent>>
    BY <1>1 DEF AbortSpecMain
  <2>2. Goto(0, "ppr_cap") \/ Goto(0, "ppr")
    BY <1>1, <2>1 DEF AbortSpecMain, Goto, TypeInv, TypeOK
  <2> QED
    BY <2>1, <2>2
<1>2. CASE AbortNextSpec(0)
  BY <1>2 DEF AbortNextSpec
<1>3. ASSUME pc[0] = "ppr", NEW loc, loc \in {"dead", "check"},
             pc' = [pc EXCEPT ![0] = loc, ![Undy] = "undy_new"],
             Milder(0), loc = "check" => UNCHANGED sig, UNCHANGED sent
      PROVE  SignalKind
  <2>1. pc[Undy] = "none"
    BY <1>3 DEF RaceInv, MainOut, PostEnd
  <2>2. pc'[0] = loc /\ pc'[Undy] = "undy_new" /\ \A q \in SpecTask : pc'[q] = pc[q]
    BY <1>3 DEF TypeInv, TypeOK
  <2>3. \A q \in Proc : "USR2" \in sig'[q] => "USR2" \in sig[q]
    BY <1>3 DEF Milder, Kills
  <2>4. \A q \in Proc : "USR1" \in sig'[q] => "USR1" \in sig[q]
    BY <1>3 DEF Milder, Kills
  <2>5. \A q \in SpecTask : "USR2" \in sig[q] => "USR2" \in sig'[q]
    BY <1>3 DEF Milder, Kills
  <2>6. \A q \in Task : q = 0 \/ q \in SpecTask
    BY DEF Task, SpecTask
  <2>7. ToldStays
    BY <1>3, <2>2, <2>5, <2>6 DEF ToldStays
  <2> QED
    BY <1>3, <2>1, <2>2, <2>3, <2>4, <2>7 DEF SignalKind, SignalsFromKill, SentStays, UndyKilled,
       SurvivorStays, SurvivorNotTold, KillerSurvives, ToldByVictor, BornStays, UndyBorn
<1>4. CASE MallocRescue
  <2>1. Milder(0)
    BY <1>4, BuriedMilder DEF MallocRescue
  <2> QED
    BY <1>3, <1>4, <2>1 DEF MallocRescue
<1>5. CASE PprEndMain
  BY <1>3, <1>5 DEF PprEndMain
<1>6. CASE SpawnUndyFails
  <2>1. sig' = [sig EXCEPT ![0] = {}] /\ Goto(0, "seq") /\ UNCHANGED sent /\ pc[0] = "ppr"
    BY <1>6 DEF SpawnUndyFails, BecomeSeq
  <2>2. Milder(0)
    BY <2>1, TakenMilder
  <2> QED
    BY <2>1, <2>2
<1> QED
  BY <1>1, <1>2, <1>4, <1>5, <1>6 DEF MainUserStep

(* A step of the understudy that sends nothing. *)
LEMMA UndySignal ==
  ASSUME TypeInv, NEW loc, loc \notin {"none", "undy_new"}, Goto(Undy, loc), Milder(Undy),
         UNCHANGED sent, loc = "dead" => "USR1" \in sig[Undy]
  PROVE  SignalKind
<1>1. pc'[Undy] = loc /\ \A q \in Task : pc'[q] = pc[q]
  BY ProcFacts DEF TypeInv, TypeOK, Goto
<1>2. \A q \in Proc : \A s \in Kills : s \in sig'[q] => s \in sig[q]
  BY DEF Milder
<1>3. \A q \in Task : \A s \in Kills : s \in sig[q] => s \in sig'[q]
  BY ProcFacts DEF Milder
<1> QED
  BY <1>1, <1>2, <1>3, ProcFacts DEF SignalKind, SignalsFromKill, SentStays, UndyKilled,
     SurvivorStays, SurvivorNotTold, KillerSurvives, ToldByVictor, ToldStays, BornStays,
     UndyBorn, Alive, Kills

(* The understudy's kill reaches every task that is alive. *)
LEMMA KillUsr2Signal ==
  ASSUME TypeInv, KillUsr2
  PROVE  SignalKind
<1> USE ProcFacts
<1> DEFINE all == [Sent("USR2") EXCEPT ![Undy] = sig[Undy],
                                       ![0] = IF Alive(0) THEN @ \cup {"USR1"} ELSE @]
<1>1. PICK loc \in {"dead", "fini", "exit_fini"} :
        /\ Goto(Undy, loc)
        /\ \/ "USR1" \in sig[Undy] /\ loc = "dead" /\ sig' = Buried(all, Undy)
           \/ loc # "dead" /\ sig' = all
  BY DEF KillUsr2
<1>2. sent' = sent \cup {"USR2"} /\ pc[Undy] \in {"finish", "exit_kill"}
  BY DEF KillUsr2
<1>3. pc'[Undy] = loc /\ \A q \in Task : pc'[q] = pc[q]
  BY <1>1 DEF TypeInv, TypeOK, Goto
<1>4. /\ all \in [Proc -> SUBSET Signal]
      /\ \A q \in Proc : q # 0 => all[q] \subseteq sig[q] \cup {"USR2"}
      /\ \A q \in Task : /\ sig[q] \subseteq all[q]
                         /\ Alive(q) => "USR2" \in all[q]
  BY DEF Sent, TypeInv, TypeOK, Signal
<1>5. \A q \in Proc : q # Undy => /\ Buried(all, Undy)[q] \cap Kills = all[q] \cap Kills
                                  /\ q # 0 => Buried(all, Undy)[q] = all[q]
  <2> HIDE DEF all
  <2> QED
    BY <1>4, SMT DEF Buried, Kills
<1>6. Buried(all, Undy)[Undy] = {}
  BY DEF Buried
<1>7. \A q \in Task : /\ Alive(q) => "USR2" \in sig'[q]
                      /\ q # 0 /\ "USR1" \in sig'[q] => "USR1" \in sig[q]
  <2> HIDE DEF all
  <2>1. ASSUME NEW q \in Task
        PROVE  /\ "USR2" \in all[q] => "USR2" \in sig'[q]
               /\ q # 0 => sig'[q] = all[q]
    BY <1>1, <1>5 DEF Kills
  <2> QED
    BY <1>4, <2>1
<1>8. "USR1" \in sig'[Undy] => "USR1" \in sig[Undy]
  BY <1>1, <1>4, <1>6
<1>9. SignalsFromKill /\ SurvivorNotTold
  BY <1>2, <1>3, <1>7, <1>8 DEF SignalsFromKill, SurvivorNotTold
<1>10. ToldByVictor /\ ToldStays
  BY <1>2, <1>3, <1>7 DEF ToldByVictor, ToldStays, Alive, UndyBorn
<1>11. SentStays /\ UndyKilled /\ SurvivorStays /\ KillerSurvives /\ BornStays
  BY <1>1, <1>2, <1>3 DEF SentStays, UndyKilled, SurvivorStays, KillerSurvives, BornStays, UndyBorn
<1> QED
  BY <1>9, <1>10, <1>11 DEF SignalKind

LEMMA SignalUndy ==
  ASSUME TypeInv, UndyStep
  PROVE  SignalKind
<1> USE UndySignal, SameMilder, ProcFacts DEF history, UserLoc
<1>1. CASE UndyStart
  BY <1>1 DEF UndyStart
<1>2. CASE UndyBegin
  BY <1>2 DEF UndyBegin
<1>3. CASE PostPprUndy
  BY <1>3 DEF PostPprUndy
<1>4. CASE UndyExit
  BY <1>4 DEF UndyExit
<1>5. CASE KillUsr2
  BY <1>5, KillUsr2Signal
<1>6. CASE UndySuccFini
  <2>1. PICK loc \in {"seq", "exited"} :
          Goto(Undy, loc) /\ (sig' = [sig EXCEPT ![Undy] = {}] \/ sig' = Buried(sig, Undy))
    BY <1>6 DEF UndySuccFini, BecomeSeq
  <2>2. Milder(Undy) /\ UNCHANGED sent
    BY <1>6, <2>1, TakenMilder, BuriedMilder DEF UndySuccFini
  <2> QED
    BY <2>1, <2>2
<1>7. CASE UndyUnmatchedEnd
  BY <1>7 DEF UndyUnmatchedEnd
<1> QED
  BY <1>1, <1>2, <1>3, <1>4, <1>5, <1>6, <1>7 DEF UndyStep

LEMMA SignalSignals ==
  ASSUME TypeInv, SignalStep
  PROVE  SignalKind
<1> USE ProcFacts DEF history
<1>1. CASE SigUsr1Undy
  <2>1. Milder(Undy)
    BY <1>1, BuriedMilder DEF SigUsr1Undy, Die
  <2> QED
    BY <1>1, <2>1, UndySignal DEF SigUsr1Undy, Die
<1>2. ASSUME NEW p \in Task, SigUsr1(p) PROVE SignalKind
  <2>1. "USR1" \in sig[p] /\ UNCHANGED sent /\ Alive(p)
    BY <1>2 DEF SigUsr1
  <2>2. PICK loc \in {pc[p], "reap", "dead", "fail"} :
          /\ Goto(p, loc)
          /\ \/ loc = "dead" /\ sig' = Buried(sig, p)
             \/ sig' = [sig EXCEPT ![p] = sig[p] \ {"USR1"}]
    <3>1. UNCHANGED pc => Goto(p, pc[p])
      BY DEF Goto, TypeInv, TypeOK
    <3> QED
      BY <1>2, <3>1 DEF SigUsr1, Die
  <2>3. Milder(p)
    BY <2>2, BuriedMilder, TakenMilder
  <2>4. loc = "dead" \/ ("USR2" \in sig[p] => "USR2" \in sig'[p])
    BY <2>2 DEF TypeInv, TypeOK
  <2>5. CASE loc # "wait_conc"
    BY <2>1, <2>2, <2>3, <2>4, <2>5, QuietSignal
  <2>6. CASE loc = "wait_conc"
    <3>1. pc' = pc /\ pc[p] = "wait_conc"
      BY <2>2, <2>6 DEF Goto, TypeInv, TypeOK
    <3>2. \A q \in Proc : \A s \in Kills : s \in sig'[q] => s \in sig[q]
      BY <2>3 DEF Milder
    <3>3. \A q \in Task : "USR2" \in sig[q] => "USR2" \in sig'[q]
      BY <2>3, <2>4, <2>6 DEF Milder, Kills
    <3> QED
      BY <2>1, <3>1, <3>2, <3>3 DEF SignalKind, SignalsFromKill, SentStays, UndyKilled,
         SurvivorStays, SurvivorNotTold, KillerSurvives, ToldByVictor, ToldStays, BornStays,
         UndyBorn, Alive, Kills
  <2> QED
    BY <2>5, <2>6
<1>3. ASSUME NEW p \in Task, SigUsr2(p) PROVE SignalKind
  <2>1. Milder(p)
    BY <1>3, BuriedMilder DEF SigUsr2, Die
  <2> QED
    BY <1>3, <2>1, QuietSignal DEF SigUsr2, Die
<1>4. ASSUME UNCHANGED <<pc, sent>>, Milder(0), "USR2" \in sig[0] => "USR2" \in sig'[0]
      PROVE  SignalKind
  <2>1. \A q \in Proc : \A s \in Kills : s \in sig'[q] => s \in sig[q]
    BY <1>4 DEF Milder
  <2>2. \A q \in Task : "USR2" \in sig[q] => "USR2" \in sig'[q]
    BY <1>4 DEF Milder, Kills
  <2> QED
    BY <1>4, <2>1, <2>2 DEF SignalKind, SignalsFromKill, SentStays, UndyKilled,
       SurvivorStays, SurvivorNotTold, KillerSurvives, ToldByVictor, ToldStays, BornStays,
       UndyBorn, Alive, Kills
<1>5. CASE ChildHandler
  <2>1. sig' = [sig EXCEPT ![0] = sig[0] \ {"CHLD"}] /\ UNCHANGED <<pc, sent>>
    BY <1>5 DEF ChildHandler
  <2>2. Milder(0) /\ ("USR2" \in sig[0] => "USR2" \in sig'[0])
    BY <2>1, TakenMilder DEF TypeInv, TypeOK
  <2> QED
    BY <1>4, <2>1, <2>2
<1>6. CASE ChildHandlerReturns
  BY <1>4, <1>6, SameMilder DEF ChildHandlerReturns
<1> QED
  BY <1>1, <1>2, <1>3, <1>5, <1>6 DEF SignalStep

LEMMA SignalKinds ==
  TypeInv /\ RaceInv /\ CheckInv /\ [Next]_vars => SignalKind
<1>1. UNCHANGED vars => SignalKind
  BY DEF vars, history, SignalKind, SignalsFromKill, SentStays, UndyKilled,
     SurvivorStays, SurvivorNotTold, KillerSurvives, ToldByVictor, ToldStays, BornStays,
     UndyBorn, Alive
<1> QED
  BY <1>1, SignalLibrary, SignalSpecLibrary, SignalSpecUser, SignalMainUser, SignalUndy,
     SignalSignals DEF Next

LEMMA SignalInvStep ==
  ASSUME TypeInv, RaceInv, CheckInv, SignalInv, [Next]_vars
  PROVE  SignalInv'
<1>1. SignalKind
  BY SignalKinds
<1>2. \A q \in Proc : SignalSent(q)'
  BY <1>1 DEF SignalInv, SignalSent, SignalKind, SignalsFromKill, SentStays
<1>3. DeadSignalled'
  BY <1>1, ProcFacts DEF SignalInv, SignalSent, DeadSignalled, SignalKind, UndyKilled, SentStays
<1>4. SurvivorQuiet'
  BY <1>1 DEF SignalInv, SurvivorQuiet, SignalKind, SurvivorNotTold
<1>5. VictorBorn'
  BY <1>1 DEF SignalInv, VictorBorn, SignalKind, ToldByVictor, BornStays
<1> QED
  BY <1>2, <1>3, <1>4, <1>5 DEF SignalInv

LEMMA HeirStep ==
  ASSUME TypeInv, TypeInv', RaceInv, CheckInv, SignalInv, HasHeir, [Next]_vars, [KilledByLast]_vars
  PROVE  HasHeir'
<1> SUFFICES ASSUME sent' = {"USR1"}
             PROVE  \E p \in SpecTask : pc'[p] \in SurvivorLoc
  BY DEF HasHeir
<1>1. SignalKind
  BY SignalKinds
<1>2. "USR2" \notin sent /\ sent \subseteq {"USR1"}
  BY <1>1 DEF SignalKind, SentStays
<1>3. \A p \in SpecTask : "USR2" \notin sig[p]
  BY <1>2, ProcFacts DEF SignalInv, SignalSent
<1>4. CASE "USR1" \in sent
  <2>1. PICK p \in SpecTask : pc[p] \in SurvivorLoc
    BY <1>2, <1>4 DEF HasHeir
  <2>2. ~(pc[p] = "wait_conc" /\ "USR1" \in sig[p])
    BY DEF SignalInv, SurvivorQuiet
  <2> QED
    BY <1>1, <1>3, <2>1, <2>2 DEF SignalKind, SurvivorStays
<1>5. CASE "USR1" \notin sent
  <2>1. PICK p \in SpecTask : /\ KillUsr1(p)
                              /\ pc'[p] = IF p = partial_size - 1 THEN "wait_conc" ELSE "reap"
    BY <1>1, <1>3, <1>5 DEF SignalKind, KillerSurvives
  <2>2. KilledByLast
    BY <1>5 DEF vars, history
  <2> QED
    BY <2>1, <2>2 DEF KilledByLast, SurvivorLoc
<1> QED
  BY <1>4, <1>5

LEMMA EscapeStep ==
  ASSUME TypeInv, RaceInv, CheckInv, [Next]_vars, NEW p \in Task, ~Escaped(p), Escaped(p)'
  PROVE  "USR2" \in sent /\ p # 0 /\ PprBeginFork(p - 1)
<1>1. ToldByVictor /\ ToldStays
  BY SignalKinds DEF SignalKind
<1>2. "USR2" \in sent
  BY <1>1 DEF ToldByVictor, Escaped
<1>3. PICK q \in Task : PprBeginFork(q)
  BY <1>1, <1>2 DEF ToldStays, Escaped
<1>4. /\ At(q, "begin") \/ At(q, "gap")
      /\ pc' = [pc EXCEPT ![q] = "ppr", ![q + 1] = "newborn"]
      /\ UNCHANGED <<sig, sent>>
  BY <1>3 DEF PprBeginFork, history
<1>5. p = q + 1
  <2> SUFFICES ASSUME p # q + 1 PROVE FALSE
    OBVIOUS
  <2>1. CASE p = q
    BY <1>2, <1>4, <2>1 DEF Escaped, Alive, At
  <2>2. CASE p # q
    <3>1. pc'[p] = pc[p]
      BY <1>4, <2>2, ProcFacts DEF TypeInv, TypeOK
    <3> QED
      BY <1>4, <3>1 DEF Escaped, Alive
  <2> QED
    BY <2>1, <2>2
<1>6. p # 0 /\ p - 1 = q
  BY <1>5 DEF Task
<1> QED
  BY <1>2, <1>3, <1>6

(* If whoever executes kill( 0, SIGUSR1 ) is still the last task of the    *)
(* group, an understudy that has conceded has done so to a SPEC that       *)
(* finishes the group, unless the two kills have crossed: conflicts,       *)
(* aborts and failed forks make a concession void only through the window  *)
(* between the last test of partial_size and the kill (bop_ppr.c:337).     *)
THEOREM ConcededToLast == Spec /\ [][KilledByLast]_vars => []ConcededToHeir
<1>1. Spec /\ [][KilledByLast]_vars
        => [](TypeInv /\ RaceInv /\ CheckInv /\ SignalInv /\ HasHeir)
  BY InitType, InitRace, InitCheck, InitSignal, TypeStep, RaceStep, CheckStep,
     SignalInvStep, HeirStep, PTL DEF Spec
<1>2. TypeInv /\ SignalInv /\ HasHeir => ConcededToHeir
  <2>1. TypeInv => sent \subseteq {"USR1", "USR2"}
    BY DEF TypeInv, TypeOK
  <2> QED
    BY <2>1 DEF SignalInv, DeadSignalled, HasHeir, ConcededToHeir, Crossed, SurvivorLoc
<1> QED
  BY <1>1, <1>2, PTL

(* Whatever happens to the group, a task survives the understudy's victory *)
(* only as the child of a fork (bop_ppr.c:124) that comes after            *)
(* kill( 0, SIGUSR2 ): no handler, abort or wait loses the signal.         *)
THEOREM ForksEscapeOnly == Spec => EscapeByForkOnly
<1>1. Spec => [](TypeInv /\ RaceInv /\ CheckInv)
  BY InitType, InitRace, InitCheck, TypeStep, RaceStep, CheckStep, PTL DEF Spec
<1>2. TypeInv /\ RaceInv /\ CheckInv /\ [Next]_vars
        => [\A p \in Task : ~Escaped(p) /\ Escaped(p)'
              => "USR2" \in sent /\ p # 0 /\ PprBeginFork(p - 1)]_vars
  BY EscapeStep
<1> QED
  BY <1>1, <1>2, PTL DEF Spec, EscapeByForkOnly

=============================================================================
