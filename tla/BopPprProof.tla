---------------------------- MODULE BopPprProof -----------------------------
(***************************************************************************)
(* Proofs, for every group size and every set of events, of the safety     *)
(* properties of BopPpr that do not depend on the size of the group.       *)
(***************************************************************************)
EXTENDS BopPpr, TLAPS

-----------------------------------------------------------------------------
(* The understudy counts a region only while it is short of the finish     *)
(* line, which bounds its counter.                                         *)
UndyBound == pc[Undy] \in UserLoc => undy_ppr_count < GroupSize - 1

TypeInv == TypeOK /\ UndyBound

(* Facts about the index sets. *)
LEMMA ProcFacts ==
  /\ GroupSize \in Int /\ GroupSize >= 2
  /\ 0 \in Task /\ 0 \in Proc /\ Undy \in Proc /\ Undy \notin Task
  /\ \A p \in Task : p \in Proc /\ p \in Int /\ 0 <= p /\ p < GroupSize /\ p # Undy
  /\ \A p \in SpecTask : p \in Task /\ p >= 1 /\ p - 1 \in Task /\ p # 0 /\ p # Undy
  /\ \A p \in Int : 0 <= p /\ p < GroupSize => p \in Task
  /\ \A p \in Proc : p \in Task \/ p = Undy
BY GroupSizeAssumption DEF Task, SpecTask, Proc, Undy

(* Sending a signal and burying a process keep sig a function to sets of   *)
(* signals.                                                                *)
LEMMA SentType ==
  ASSUME sig \in [Proc -> SUBSET Signal], NEW s \in Signal
  PROVE  Sent(s) \in [Proc -> SUBSET Signal]
BY DEF Sent

LEMMA BuriedType ==
  ASSUME NEW sg \in [Proc -> SUBSET Signal], NEW p \in Proc
  PROVE  Buried(sg, p) \in [Proc -> SUBSET Signal]
BY DEF Buried, Signal

PcType ==
  /\ pc \in [Proc -> TaskLoc \cup UndyLoc]
  /\ \A p \in Task : pc[p] \in TaskLoc
  /\ pc[Undy] \in UndyLoc

(* Moving one process to another of its locations. *)
LEMMA GotoTask ==
  ASSUME PcType, NEW p \in Task, NEW loc \in TaskLoc, Goto(p, loc)
  PROVE  PcType' /\ pc'[Undy] = pc[Undy]
BY ProcFacts DEF PcType, Goto

LEMMA GotoUndy ==
  ASSUME PcType, NEW loc \in UndyLoc, Goto(Undy, loc)
  PROVE  PcType' /\ pc'[Undy] = loc
BY ProcFacts DEF PcType, Goto

(* The fork of the next task moves p and creates p + 1. *)
LEMMA ForkMoves ==
  ASSUME TypeOK, NEW p \in Task, PprBeginFork(p)
  PROVE  /\ p + 1 \in SpecTask
         /\ pc[p] = IF p = 0 THEN "begin" ELSE "gap"
         /\ pc'[p] = "ppr" /\ pc'[p + 1] = "newborn"
         /\ \A q \in Proc : q \notin {p, p + 1} => pc'[q] = pc[q]
         /\ UNCHANGED <<sync, history>>
         /\ UNCHANGED <<spec_checked, spec_correct, checked>>
<1>1. p + 1 \in SpecTask
  BY ProcFacts DEF PprBeginFork, TypeOK, SpecTask
<1> QED
  BY <1>1, ProcFacts DEF PprBeginFork, TypeOK, At, sync, history

-----------------------------------------------------------------------------
(* The type invariant.                                                     *)

LEMMA InitType == Init => TypeInv
<1> SUFFICES ASSUME Init PROVE TypeInv
  OBVIOUS
<1>1. pc \in [Proc -> TaskLoc \cup UndyLoc] /\ pc[Undy] = "none"
      /\ \A p \in Task : pc[p] \in TaskLoc
  BY ProcFacts DEF Init, TaskLoc, UndyLoc
<1>2. partial_size \in 1 .. GroupSize /\ undy_ppr_count \in 0 .. GroupSize-1
  BY ProcFacts DEF Init
<1>3. gi \in [Task -> 0 .. GroupSize-1] /\ sig \in [Proc -> SUBSET Signal]
  BY ProcFacts DEF Init
<1> QED
  BY <1>1, <1>2, <1>3 DEF Init, TypeInv, TypeOK, UndyBound, UndyLoc, UserLoc

LEMMA ForkHasHeir ==
  ASSUME TypeInv, NEW p \in Task, PprBeginFork(p)
  PROVE  p + 1 \in Task
<1>1. partial_size \in 1 .. GroupSize /\ p < partial_size - 1
  BY DEF TypeInv, TypeOK, PprBeginFork
<1> QED
  BY <1>1, ProcFacts DEF Task

LEMMA TypeLibrary ==
  ASSUME TypeInv, NEW p \in Task, LibraryStep(p)
  PROVE  TypeInv'
<1> USE ProcFacts, GotoTask, GotoUndy, SentType, BuriedType
    DEF TypeInv, TypeOK, UndyBound, PcType, At, Signal, sync, history,
        TaskLoc, UndyLoc, UserLoc, CapLoc
<1>1. CASE p = 0 /\ PprBeginFork(p)
  <2>1. p + 1 \in Task
    BY <1>1, ForkHasHeir
  <2>2. PcType' /\ pc'[Undy] = pc[Undy]
    BY <1>1, <2>1, ZenonT(30) DEF PprBeginFork
  <2> QED
    BY <1>1, <2>2 DEF PprBeginFork
<1>2. CASE p = 0 /\ PprBeginForkFails(p)
  BY <1>2, ZenonT(30) DEF PprBeginForkFails, BecomeSeq
<1>3. CASE CheckCorrectness(p)
  <2>1. PICK passed \in BOOLEAN :
          /\ spec_correct' = [spec_correct EXCEPT ![p] = passed]
          /\ Goto(p, IF passed THEN "decide" ELSE "fail")
    BY <1>3 DEF CheckCorrectness, Verdict
  <2>2. PcType' /\ pc'[Undy] = pc[Undy]
    BY <2>1
  <2>3. spec_correct' \in [Task -> BOOLEAN] /\ spec_checked' \in [Task -> BOOLEAN]
    BY <1>3, <2>1 DEF CheckCorrectness
  <2> QED
    BY <1>3, <2>2, <2>3 DEF CheckCorrectness
<1>4. CASE DataCommit(p)
  BY <1>4 DEF DataCommit
<1>5. CASE LastTask(p)
  BY <1>5 DEF LastTask
<1>6. CASE SignalCommitDone(p)
  BY <1>6 DEF SignalCommitDone
<1>7. CASE WaitNextCommitDone(p)
  BY <1>7 DEF WaitNextCommitDone
<1>8. CASE Recheck(p)
  BY <1>8 DEF Recheck
<1>9. CASE PartialGroupSetSize(p)
  BY <1>9 DEF PartialGroupSetSize
<1>10. CASE EndClean(p)
  BY <1>10 DEF EndClean, Die
<1> QED
  BY <1>1, <1>2, <1>3, <1>4, <1>5, <1>6, <1>7, <1>8, <1>9, <1>10 DEF LibraryStep

LEMMA TypeSpecLibrary ==
  ASSUME TypeInv, NEW p \in SpecTask, SpecLibraryStep(p)
  PROVE  TypeInv'
<1> USE ProcFacts, GotoTask, GotoUndy, SentType, BuriedType
    DEF TypeInv, TypeOK, UndyBound, PcType, At, Signal, sync, history,
        TaskLoc, UndyLoc, UserLoc, CapLoc
<1>1. CASE TaskInit(p)
  BY <1>1 DEF TaskInit
<1>2. CASE AbortTest(p)
  BY <1>2 DEF AbortTest
<1>3. CASE AbortCap(p)
  BY <1>3 DEF AbortCap
<1>4. CASE AbortSignal(p)
  BY <1>4 DEF AbortSignal
<1>5. CASE ReapExit(p)
  BY <1>5 DEF ReapExit
<1>6. CASE WaitPriorCheckDone(p)
  BY <1>6 DEF WaitPriorCheckDone
<1>7. CASE WaitGroupCommitDone(p)
  BY <1>7 DEF WaitGroupCommitDone
<1>8. CASE GroupCommitDone(p)
  BY <1>8 DEF GroupCommitDone
<1>9. CASE TaskGroupCommit(p)
  BY <1>9 DEF TaskGroupCommit
<1>10. CASE WaitUndyCreated(p)
  BY <1>10 DEF WaitUndyCreated
<1>11. CASE KillUsr1(p)
  <2> DEFINE own == [Sent("USR1") EXCEPT ![p] = @ \ {"USR1"}]
  <2>1. own \in [Proc -> SUBSET Signal]
    BY SentType
  <2>2. sig' \in [Proc -> SUBSET Signal]
    <3>1. Buried(own, p) \in [Proc -> SUBSET Signal]
      BY <2>1, BuriedType
    <3>2. sig' = own \/ sig' = Buried(own, p)
      BY <1>11 DEF KillUsr1
    <3> QED
      BY <2>1, <3>1, <3>2
  <2>3. PcType' /\ pc'[Undy] = pc[Undy]
    BY <1>11 DEF KillUsr1
  <2> QED
    BY <1>11, <2>2, <2>3 DEF KillUsr1
<1>12. CASE WaitUndyConceded(p)
  BY <1>12 DEF WaitUndyConceded, BecomeSeq
<1> QED
  BY <1>1, <1>2, <1>3, <1>4, <1>5, <1>6, <1>7, <1>8, <1>9, <1>10, <1>11, <1>12
  DEF SpecLibraryStep

LEMMA TypeSpecUser ==
  ASSUME TypeInv, NEW p \in SpecTask, SpecUserStep(p)
  PROVE  TypeInv'
<1> USE ProcFacts, GotoTask, GotoUndy, SentType, BuriedType
    DEF TypeInv, TypeOK, UndyBound, PcType, At, Signal, sync, history,
        TaskLoc, UndyLoc, UserLoc, CapLoc
<1>1. CASE PprBeginFork(p)
  <2>1. p + 1 \in Task
    BY <1>1, ForkHasHeir
  <2>2. PcType' /\ pc'[Undy] = pc[Undy]
    BY <1>1, <2>1, ZenonT(30) DEF PprBeginFork
  <2> QED
    BY <1>1, <2>2 DEF PprBeginFork
<1>2. CASE PprBeginNoFork(p)
  BY <1>2 DEF PprBeginNoFork
<1>3. CASE PprBeginForkFails(p)
  BY <1>3 DEF PprBeginForkFails, BecomeSeq
<1>4. CASE AbortSpec(p)
  BY <1>4 DEF AbortSpec
<1>5. CASE AbortNextSpec(p)
  BY <1>5 DEF AbortNextSpec
<1>6. CASE SilentExit(p)
  BY <1>6 DEF SilentExit, Die
<1>7. CASE PprEndSpec(p)
  BY <1>7 DEF PprEndSpec
<1> QED
  BY <1>1, <1>2, <1>3, <1>4, <1>5, <1>6, <1>7 DEF SpecUserStep

LEMMA TypeMainUser ==
  ASSUME TypeInv, MainUserStep
  PROVE  TypeInv'
<1> USE ProcFacts, GotoTask, GotoUndy, SentType, BuriedType
    DEF TypeInv, TypeOK, UndyBound, PcType, At, Signal, sync, history,
        TaskLoc, UndyLoc, UserLoc, CapLoc
<1>1. CASE AbortSpecMain
  BY <1>1 DEF AbortSpecMain
<1>2. CASE AbortNextSpec(0)
  BY <1>2 DEF AbortNextSpec
<1>3. CASE MallocRescue
  BY <1>3 DEF MallocRescue
<1>4. CASE PprEndMain
  BY <1>4 DEF PprEndMain
<1>5. CASE SpawnUndyFails
  BY <1>5 DEF SpawnUndyFails, BecomeSeq
<1> QED
  BY <1>1, <1>2, <1>3, <1>4, <1>5 DEF MainUserStep

LEMMA TypeUndy ==
  ASSUME TypeInv, UndyStep
  PROVE  TypeInv'
<1> USE ProcFacts, GotoTask, GotoUndy, SentType, BuriedType
    DEF TypeInv, TypeOK, UndyBound, PcType, At, Signal, sync, history,
        TaskLoc, UndyLoc, UserLoc, CapLoc
<1>1. CASE UndyStart
  <2>1. PcType'
    BY <1>1 DEF UndyStart
  <2>2. undy_ppr_count' \in 0 .. GroupSize-1 /\ undy_ppr_count' < GroupSize - 1
    BY <1>1 DEF UndyStart
  <2>3. TypeOK'
    BY <1>1, <2>1, <2>2 DEF UndyStart
  <2> QED
    BY <2>2, <2>3
<1>2. CASE UndyBegin
  BY <1>2 DEF UndyBegin
<1>3. CASE PostPprUndy
  BY <1>3 DEF PostPprUndy
<1>4. CASE UndyExit
  BY <1>4 DEF UndyExit
<1>5. CASE KillUsr2
  <2> DEFINE all == [Sent("USR2") EXCEPT ![Undy] = sig[Undy],
                                        ![0] = IF Alive(0) THEN @ \cup {"USR1"} ELSE @]
  <2>1. all \in [Proc -> SUBSET Signal]
    BY SentType
  <2>2. sig' \in [Proc -> SUBSET Signal]
    <3>1. Buried(all, Undy) \in [Proc -> SUBSET Signal]
      BY <2>1, BuriedType
    <3>2. sig' = all \/ sig' = Buried(all, Undy)
      BY <1>5 DEF KillUsr2
    <3> HIDE DEF all
    <3> QED
      BY <2>1, <3>1, <3>2
  <2>3. PcType' /\ pc'[Undy] \notin UserLoc
    BY <1>5 DEF KillUsr2
  <2>4. undy_conceded' \in BOOLEAN
    BY <1>5 DEF KillUsr2
  <2> QED
    BY <1>5, <2>2, <2>3, <2>4 DEF KillUsr2
<1>6. CASE UndySuccFini
  <2>1. PcType' /\ pc'[Undy] \notin UserLoc
    BY <1>6 DEF UndySuccFini, BecomeSeq
  <2>2. sig' \in [Proc -> SUBSET Signal]
    <3>1. Buried(sig, Undy) \in [Proc -> SUBSET Signal]
      BY BuriedType
    <3> QED
      BY <1>6, <3>1 DEF UndySuccFini, BecomeSeq
  <2> QED
    BY <1>6, <2>1, <2>2 DEF UndySuccFini
<1>7. CASE UndyUnmatchedEnd
  BY <1>7 DEF UndyUnmatchedEnd
<1> QED
  BY <1>1, <1>2, <1>3, <1>4, <1>5, <1>6, <1>7 DEF UndyStep

LEMMA TypeSignal ==
  ASSUME TypeInv, SignalStep
  PROVE  TypeInv'
<1> USE ProcFacts, GotoTask, GotoUndy, SentType, BuriedType
    DEF TypeInv, TypeOK, UndyBound, PcType, At, Signal, sync, history,
        TaskLoc, UndyLoc, UserLoc, CapLoc
<1>1. CASE SigUsr1Undy
  <2>1. PcType' /\ pc'[Undy] \notin UserLoc
    BY <1>1 DEF SigUsr1Undy, Die
  <2>2. sig' \in [Proc -> SUBSET Signal]
    BY <1>1 DEF SigUsr1Undy, Die
  <2> QED
    BY <1>1, <2>1, <2>2 DEF SigUsr1Undy
<1>2. ASSUME NEW p \in Task, SigUsr1(p) PROVE TypeInv'
  <2>1. PcType' /\ pc'[Undy] = pc[Undy]
    BY <1>2 DEF SigUsr1, Die
  <2>2. Buried(sig, p) \in [Proc -> SUBSET Signal]
    BY BuriedType
  <2>3. \/ sig' = Buried(sig, p)
        \/ sig' = [sig EXCEPT ![p] = @ \ {"USR1"}]
    BY <1>2 DEF SigUsr1, Die
  <2>4. sig' \in [Proc -> SUBSET Signal]
    BY <2>2, <2>3
  <2> QED
    BY <1>2, <2>1, <2>4 DEF SigUsr1
<1>3. ASSUME NEW p \in Task, SigUsr2(p) PROVE TypeInv'
  BY <1>3 DEF SigUsr2, Die
<1>4. CASE ChildHandler
  BY <1>4 DEF ChildHandler
<1>5. CASE ChildHandlerReturns
  BY <1>5 DEF ChildHandlerReturns
<1> QED
  BY <1>1, <1>2, <1>3, <1>4, <1>5 DEF SignalStep

LEMMA TypeStep == TypeInv /\ [Next]_vars => TypeInv'
<1>1. ASSUME TypeInv, UNCHANGED vars PROVE TypeInv'
  BY <1>1 DEF TypeInv, TypeOK, UndyBound, vars, sync, history
<1> QED
  BY <1>1, TypeLibrary, TypeSpecLibrary, TypeSpecUser, TypeMainUser, TypeUndy,
     TypeSignal DEF Next

(* Every variable stays in its range in every group; in particular         *)
(* partial_size stays in 1 .. GroupSize whatever tasks abort.              *)
THEOREM TypeCorrect == Spec => []TypeOK
<1>1. TypeInv => TypeOK
  BY DEF TypeInv
<1> QED
  BY InitType, TypeStep, <1>1, PTL DEF Spec

-----------------------------------------------------------------------------
(***************************************************************************)
(* The race.  That two processes never both continue the program rests on  *)
(* four facts: MAIN has left the race for good once the understudy exists; *)
(* the understudy itself frees undy_created; a SPEC that has taken         *)
(* undy_created keeps it, so there is one such SPEC at most; and           *)
(* undy_conceded is freed by an understudy that dies.                      *)
(***************************************************************************)
PreEnd == {"begin", "ppr", "ppr_cap", "seq"}
PostEnd == {"check", "decide", "sig_commit", "wait_next", "recheck", "reap", "dead"}
Committing == {"kill", "wait_conc", "seq"}
UndyBorn == pc[Undy] \notin {"none", "undy_new"}

MainOut == /\ pc[0] \in PreEnd \cup PostEnd
           /\ pc[Undy] # "none" => pc[0] \in PostEnd
CreatedByUndy == ~undy_created => UndyBorn
OneCommitter ==
  /\ \A p \in SpecTask : pc[p] \in Committing => undy_created /\ UndyBorn
  /\ \A p, q \in SpecTask : pc[p] \in Committing /\ pc[q] \in Committing => p = q
ConcededDead ==
  /\ ~undy_conceded => pc[Undy] = "dead"
  /\ \A p \in SpecTask : pc[p] = "seq" => pc[Undy] = "dead"

RaceInv == MainOut /\ CreatedByUndy /\ OneCommitter /\ ConcededDead

LEMMA InitRace == Init => RaceInv
<1> SUFFICES ASSUME Init PROVE RaceInv
  OBVIOUS
<1>1. pc[0] = "begin" /\ pc[Undy] = "none" /\ \A p \in SpecTask : pc[p] = "none"
  BY ProcFacts DEF Init
<1> QED
  BY <1>1, ProcFacts DEF Init, RaceInv, MainOut, CreatedByUndy, OneCommitter,
     ConcededDead, PreEnd, Committing, UndyBorn

(* A step that moves one task within its part of the race: a SPEC outside  *)
(* the commit, MAIN before the understudy exists or after.                 *)
LEMMA QuietRace ==
  ASSUME TypeInv, RaceInv, NEW p \in Task, NEW loc, Goto(p, loc),
         p # 0 => loc \notin Committing,
         p = 0 => loc \in PostEnd \/ (pc[0] \notin PostEnd /\ loc \in PreEnd),
         UNCHANGED <<undy_created, undy_conceded>>
  PROVE  RaceInv'
<1>1. /\ pc'[p] = loc /\ pc'[Undy] = pc[Undy]
      /\ \A q \in Task : q # p => pc'[q] = pc[q]
  BY ProcFacts DEF TypeInv, TypeOK, Goto
<1>2. MainOut'
  BY <1>1, ProcFacts DEF RaceInv, MainOut
<1>3. OneCommitter' /\ ConcededDead'
  BY <1>1, ProcFacts DEF RaceInv, OneCommitter, ConcededDead, UndyBorn, Committing
<1> QED
  BY <1>1, <1>2, <1>3 DEF RaceInv, CreatedByUndy, UndyBorn

LEMMA StillRace ==
  ASSUME RaceInv, UNCHANGED <<pc, undy_created, undy_conceded>>
  PROVE  RaceInv'
BY DEF RaceInv, MainOut, CreatedByUndy, OneCommitter, ConcededDead, UndyBorn

LEMMA ForkRace ==
  ASSUME TypeInv, RaceInv, NEW p \in Task, PprBeginFork(p)
  PROVE  RaceInv'
<1> USE ProcFacts, ForkMoves DEF TypeInv
<1>1. pc'[Undy] = pc[Undy] /\ UNCHANGED <<undy_created, undy_conceded>>
  BY DEF sync
<1>2. MainOut'
  BY <1>1 DEF RaceInv, MainOut, PreEnd, PostEnd, SpecTask
<1>3. \A q \in SpecTask : pc'[q] = pc[q] \/ pc'[q] \in {"ppr", "newborn"}
  OBVIOUS
<1>4. OneCommitter' /\ ConcededDead'
  BY <1>1, <1>3 DEF RaceInv, OneCommitter, ConcededDead, UndyBorn, Committing
<1> QED
  BY <1>1, <1>2, <1>4 DEF RaceInv, CreatedByUndy, UndyBorn

(* MAIN leaves its region as it forks the understudy. *)
LEMMA RaceSpawn ==
  ASSUME TypeInv, RaceInv, pc[0] = "ppr", NEW loc \in PostEnd,
         pc' = [pc EXCEPT ![0] = loc, ![Undy] = "undy_new"],
         UNCHANGED <<undy_created, undy_conceded>>
  PROVE  RaceInv'
<1>1. /\ pc'[0] = loc /\ pc'[Undy] = "undy_new"
      /\ \A q \in SpecTask : pc'[q] = pc[q]
  BY ProcFacts DEF TypeInv, TypeOK
<1>2. pc[Undy] = "none"
  BY DEF RaceInv, MainOut, PostEnd
<1> QED
  BY <1>1, <1>2 DEF RaceInv, MainOut, CreatedByUndy, OneCommitter, ConcededDead, UndyBorn

(* The understudy moves while it is alive; it frees undy_created when it   *)
(* starts and undy_conceded when it dies.                                  *)
LEMMA RaceUndyMove ==
  ASSUME TypeInv, RaceInv, NEW loc, Goto(Undy, loc),
         pc[Undy] \notin {"none", "dead"}, loc \notin {"none", "undy_new"},
         undy_created' = undy_created \/ (pc[Undy] = "undy_new" /\ ~undy_created'),
         undy_conceded' = undy_conceded \/ loc = "dead"
  PROVE  RaceInv'
<1>1. pc'[Undy] = loc /\ \A q \in Task : pc'[q] = pc[q]
  BY ProcFacts DEF TypeInv, TypeOK, Goto
<1>2. MainOut' /\ CreatedByUndy'
  BY <1>1, ProcFacts DEF RaceInv, MainOut, CreatedByUndy, UndyBorn
<1>3. \A p \in SpecTask : pc[p] \in Committing => undy_created'
  BY DEF RaceInv, OneCommitter, UndyBorn
<1>4. OneCommitter'
  BY <1>1, <1>3, ProcFacts DEF RaceInv, OneCommitter, UndyBorn
<1>5. ConcededDead'
  BY <1>1, ProcFacts DEF RaceInv, ConcededDead
<1> QED
  BY <1>2, <1>4, <1>5 DEF RaceInv

LEMMA RaceLibrary ==
  ASSUME TypeInv, RaceInv, NEW p \in Task, LibraryStep(p)
  PROVE  RaceInv'
<1> USE QuietRace, ForkRace, StillRace, ProcFacts
    DEF At, sync, PreEnd, PostEnd, Committing, UserLoc, CapLoc
<1>1. CASE p = 0 /\ PprBeginFork(p)
  BY <1>1 DEF PprBeginFork
<1>2. CASE p = 0 /\ PprBeginForkFails(p)
  BY <1>2 DEF PprBeginForkFails, BecomeSeq
<1>3. CASE CheckCorrectness(p)
  <2>1. PICK passed \in Verdict(p) : Goto(p, IF passed THEN "decide" ELSE "fail")
    BY <1>3 DEF CheckCorrectness
  <2>2. UNCHANGED <<undy_created, undy_conceded>>
    BY <1>3 DEF CheckCorrectness
  <2>3. CASE p = 0
    BY <2>1, <2>2, <2>3 DEF Verdict
  <2>4. CASE p # 0
    BY <2>1, <2>2, <2>4
  <2> QED
    BY <2>3, <2>4
<1>4. CASE DataCommit(p)
  BY <1>4 DEF DataCommit
<1>5. CASE LastTask(p)
  BY <1>5 DEF LastTask
<1>6. CASE SignalCommitDone(p)
  BY <1>6 DEF SignalCommitDone
<1>7. CASE WaitNextCommitDone(p)
  BY <1>7 DEF WaitNextCommitDone
<1>8. CASE Recheck(p)
  BY <1>8 DEF Recheck
<1>9. CASE PartialGroupSetSize(p)
  <2>1. p = 0 => pc[p] # "gap_cap"
    BY DEF RaceInv, MainOut
  <2> QED
    BY <1>9, <2>1 DEF PartialGroupSetSize
<1>10. CASE EndClean(p)
  BY <1>10 DEF EndClean, Die
<1> QED
  BY <1>1, <1>2, <1>3, <1>4, <1>5, <1>6, <1>7, <1>8, <1>9, <1>10 DEF LibraryStep

LEMMA RaceSpecLibrary ==
  ASSUME TypeInv, RaceInv, NEW p \in SpecTask, SpecLibraryStep(p)
  PROVE  RaceInv'
<1> USE QuietRace, ForkRace, StillRace, ProcFacts
    DEF At, sync, PreEnd, PostEnd, Committing, UserLoc, CapLoc
<1>1. CASE TaskInit(p)
  BY <1>1 DEF TaskInit
<1>2. CASE AbortTest(p)
  BY <1>2 DEF AbortTest
<1>3. CASE AbortCap(p)
  BY <1>3 DEF AbortCap
<1>4. CASE AbortSignal(p)
  BY <1>4 DEF AbortSignal
<1>5. CASE ReapExit(p)
  BY <1>5 DEF ReapExit
<1>6. CASE WaitPriorCheckDone(p)
  BY <1>6 DEF WaitPriorCheckDone
<1>7. CASE WaitGroupCommitDone(p)
  BY <1>7 DEF WaitGroupCommitDone
<1>8. CASE GroupCommitDone(p)
  BY <1>8 DEF GroupCommitDone
<1>9. CASE TaskGroupCommit(p)
  BY <1>9 DEF TaskGroupCommit
<1>10. CASE WaitUndyCreated(p)
  <2>1. /\ pc'[p] = "kill" /\ pc'[Undy] = pc[Undy] /\ pc'[0] = pc[0]
        /\ \A q \in SpecTask : q # p => pc'[q] = pc[q]
    BY <1>10 DEF WaitUndyCreated, Goto, TypeInv, TypeOK
  <2>2. UndyBorn /\ \A q \in SpecTask : pc[q] \notin Committing
    BY <1>10 DEF WaitUndyCreated, RaceInv, CreatedByUndy, OneCommitter
  <2> QED
    BY <1>10, <2>1, <2>2 DEF WaitUndyCreated, RaceInv, MainOut, CreatedByUndy,
       OneCommitter, ConcededDead, UndyBorn
<1>11. CASE KillUsr1(p)
  <2>1. PICK loc \in {"dead", "wait_conc", "reap"} : Goto(p, loc)
    BY <1>11 DEF KillUsr1
  <2>2. /\ pc'[p] = loc /\ pc'[Undy] = pc[Undy] /\ pc'[0] = pc[0]
        /\ \A q \in SpecTask : q # p => pc'[q] = pc[q]
    BY <2>1 DEF Goto, TypeInv, TypeOK
  <2>3. pc[p] = "kill" /\ UNCHANGED <<undy_created, undy_conceded>>
    BY <1>11 DEF KillUsr1
  <2> QED
    BY <2>2, <2>3 DEF RaceInv, MainOut, CreatedByUndy, OneCommitter, ConcededDead,
       UndyBorn
<1>12. CASE WaitUndyConceded(p)
  <2>1. /\ pc'[p] = "seq" /\ pc'[Undy] = pc[Undy] /\ pc'[0] = pc[0]
        /\ \A q \in SpecTask : q # p => pc'[q] = pc[q]
    BY <1>12 DEF WaitUndyConceded, BecomeSeq, Goto, TypeInv, TypeOK
  <2>2. pc[Undy] = "dead"
    BY <1>12 DEF WaitUndyConceded, RaceInv, ConcededDead
  <2> QED
    BY <1>12, <2>1, <2>2 DEF WaitUndyConceded, RaceInv, MainOut, CreatedByUndy,
       OneCommitter, ConcededDead, UndyBorn
<1> QED
  BY <1>1, <1>2, <1>3, <1>4, <1>5, <1>6, <1>7, <1>8, <1>9, <1>10, <1>11, <1>12
  DEF SpecLibraryStep

LEMMA RaceSpecUser ==
  ASSUME TypeInv, RaceInv, NEW p \in SpecTask, SpecUserStep(p)
  PROVE  RaceInv'
<1> USE QuietRace, ForkRace, StillRace, ProcFacts
    DEF At, sync, PreEnd, PostEnd, Committing, UserLoc, CapLoc
<1>1. CASE PprBeginFork(p)
  BY <1>1 DEF PprBeginFork
<1>2. CASE PprBeginNoFork(p)
  BY <1>2 DEF PprBeginNoFork
<1>3. CASE PprBeginForkFails(p)
  BY <1>3 DEF PprBeginForkFails, BecomeSeq
<1>4. CASE AbortSpec(p)
  BY <1>4 DEF AbortSpec
<1>5. CASE AbortNextSpec(p)
  BY <1>5 DEF AbortNextSpec
<1>6. CASE SilentExit(p)
  BY <1>6 DEF SilentExit, Die
<1>7. CASE PprEndSpec(p)
  BY <1>7 DEF PprEndSpec
<1> QED
  BY <1>1, <1>2, <1>3, <1>4, <1>5, <1>6, <1>7 DEF SpecUserStep

LEMMA RaceMainUser ==
  ASSUME TypeInv, RaceInv, MainUserStep
  PROVE  RaceInv'
<1> USE QuietRace, ForkRace, StillRace, ProcFacts
    DEF At, sync, PreEnd, PostEnd, Committing, UserLoc, CapLoc
<1>1. CASE AbortSpecMain
  BY <1>1 DEF AbortSpecMain
<1>2. CASE AbortNextSpec(0)
  <2>1. pc[0] # "gap"
    BY DEF RaceInv, MainOut
  <2> QED
    BY <1>2, <2>1 DEF AbortNextSpec
<1>3. CASE MallocRescue
  BY <1>3, RaceSpawn DEF MallocRescue
<1>4. CASE PprEndMain
  BY <1>4, RaceSpawn DEF PprEndMain
<1>5. CASE SpawnUndyFails
  BY <1>5 DEF SpawnUndyFails, BecomeSeq
<1> QED
  BY <1>1, <1>2, <1>3, <1>4, <1>5 DEF MainUserStep

LEMMA RaceUndy ==
  ASSUME TypeInv, RaceInv, UndyStep
  PROVE  RaceInv'
<1> USE QuietRace, ForkRace, StillRace, ProcFacts
    DEF At, sync, PreEnd, PostEnd, Committing, UserLoc, CapLoc
<1>1. CASE UndyStart
  <2>1. Goto(Undy, "gap") /\ pc[Undy] = "undy_new"
    BY <1>1 DEF UndyStart
  <2>2. ~undy_created' /\ UNCHANGED undy_conceded
    BY <1>1 DEF UndyStart
  <2> QED
    BY <2>1, <2>2, RaceUndyMove
<1>2. CASE UndyBegin
  BY <1>2, RaceUndyMove DEF UndyBegin
<1>3. CASE PostPprUndy
  BY <1>3, RaceUndyMove DEF PostPprUndy
<1>4. CASE UndyExit
  BY <1>4, RaceUndyMove DEF UndyExit
<1>5. CASE KillUsr2
  <2>1. PICK loc \in {"dead", "fini", "exit_fini"} : 
          Goto(Undy, loc) /\ (loc # "dead" => UNCHANGED undy_conceded)
    BY <1>5 DEF KillUsr2
  <2>2. pc[Undy] \in {"finish", "exit_kill"} /\ UNCHANGED undy_created
    BY <1>5 DEF KillUsr2
  <2> QED
    BY <2>1, <2>2, RaceUndyMove
<1>6. CASE UndySuccFini
  BY <1>6, RaceUndyMove DEF UndySuccFini, BecomeSeq
<1>7. CASE UndyUnmatchedEnd
  BY <1>7, RaceUndyMove DEF UndyUnmatchedEnd
<1> QED
  BY <1>1, <1>2, <1>3, <1>4, <1>5, <1>6, <1>7 DEF UndyStep

LEMMA RaceSignal ==
  ASSUME TypeInv, RaceInv, SignalStep
  PROVE  RaceInv'
<1> USE QuietRace, ForkRace, StillRace, ProcFacts
    DEF At, sync, PreEnd, PostEnd, Committing, UserLoc, CapLoc
<1>1. CASE SigUsr1Undy
  <2>1. Goto(Undy, "dead") /\ pc[Undy] \notin {"none", "dead"} /\ UNCHANGED undy_created
    BY <1>1 DEF SigUsr1Undy, Die, Alive
  <2>2. pc[Undy] # "undy_new" \/ undy_created
    BY DEF RaceInv, CreatedByUndy, UndyBorn
  <2> QED
    BY <2>1, <2>2, RaceUndyMove
<1>2. ASSUME NEW p \in Task, SigUsr1(p) PROVE RaceInv'
  <2>1. \/ UNCHANGED pc
        \/ Goto(p, "reap")
        \/ Goto(p, "dead")
        \/ pc[p] = "reap_exit" /\ Goto(p, "fail")
    BY <1>2 DEF SigUsr1, Die
  <2>2. UNCHANGED <<undy_created, undy_conceded>>
    BY <1>2 DEF SigUsr1
  <2>3. p = 0 => pc[p] # "reap_exit"
    BY DEF RaceInv, MainOut
  <2> QED
    BY <2>1, <2>2, <2>3
<1>3. ASSUME NEW p \in Task, SigUsr2(p) PROVE RaceInv'
  BY <1>3 DEF SigUsr2, Die
<1>4. CASE ChildHandler
  BY <1>4 DEF ChildHandler
<1>5. CASE ChildHandlerReturns
  BY <1>5 DEF ChildHandlerReturns
<1> QED
  BY <1>1, <1>2, <1>3, <1>4, <1>5 DEF SignalStep

LEMMA RaceStep == TypeInv /\ RaceInv /\ [Next]_vars => RaceInv'
<1>1. ASSUME RaceInv, UNCHANGED vars PROVE RaceInv'
  BY <1>1 DEF RaceInv, MainOut, CreatedByUndy, OneCommitter, ConcededDead,
     UndyBorn, vars, sync
<1> QED
  BY <1>1, RaceLibrary, RaceSpecLibrary, RaceSpecUser, RaceMainUser, RaceUndy,
     RaceSignal DEF Next

LEMMA RaceOneWinner == TypeInv /\ RaceInv => AtMostOneWinner
<1> SUFFICES ASSUME TypeInv, RaceInv, NEW p \in Proc, NEW q \in Proc,
                    Winner(p), Winner(q)
             PROVE  p = q
  BY DEF AtMostOneWinner
<1>1. \A r \in Task : Winner(r) => pc[r] = "seq"
  BY DEF Winner, TypeInv, TypeOK, TaskLoc, UserLoc, CapLoc
<1>2. \A r \in SpecTask : Winner(r) => pc[r] \in Committing /\ pc[Undy] = "dead"
  BY <1>1, ProcFacts DEF RaceInv, ConcededDead, Committing
<1>3. Winner(0) => pc[Undy] = "none"
  BY <1>1, ProcFacts DEF RaceInv, MainOut, PostEnd
<1>4. Winner(Undy) => pc[Undy] \notin {"none", "dead"}
  BY DEF Winner
<1>5. \A r \in Proc : r = 0 \/ r = Undy \/ r \in SpecTask
  BY ProcFacts DEF Task, SpecTask
<1> QED
  BY <1>2, <1>3, <1>4, <1>5 DEF RaceInv, OneCommitter

(* Whatever the interleaving of forks, locks and signals, at most one      *)
(* process of a group continues the program.                               *)
THEOREM OneWinner == Spec => []AtMostOneWinner
BY InitType, TypeStep, InitRace, RaceStep, RaceOneWinner, PTL DEF Spec

-----------------------------------------------------------------------------
(***************************************************************************)
(* The checks.  The lock spec_checked[p] is free only after p has been     *)
(* checked, and a SPEC checks only after it has taken the lock of the task *)
(* before it: checks happen in the order of the tasks, and who has reached *)
(* the commit has passed its own.  MAIN is in the middle of its region     *)
(* while nothing has been checked.                                         *)
(***************************************************************************)
PassedLoc == {"decide", "sig_commit", "wait_next", "recheck"} \cup GroupLoc
CheckedLoc == PassedLoc \cup {"fail", "abort_cap", "abort_sig", "reap", "dead"}

FreedChecked == \A p \in Task : ~spec_checked[p] => p \in checked
PrefixChecked == \A p \in checked : 0 .. p \subseteq checked
MainChecked == 0 \in checked => pc[0] \in PostEnd
PriorChecked == \A p \in SpecTask : pc[p] = "check" => p - 1 \in checked
PassedChecked ==
  \A p \in SpecTask : pc[p] \in PassedLoc => p \in checked /\ spec_correct[p]

SpecChecked == \A p \in SpecTask : p \in checked => pc[p] \in CheckedLoc

CheckInv == /\ FreedChecked /\ PrefixChecked /\ MainChecked
            /\ PriorChecked /\ PassedChecked /\ SpecChecked

LEMMA InitCheck == Init => CheckInv
BY ProcFacts DEF Init, CheckInv, FreedChecked, PrefixChecked, MainChecked,
   PriorChecked, PassedChecked, SpecChecked, PassedLoc, GroupLoc

(* The fork of the next task: neither of the two tasks has been checked.   *)
LEMMA ForkCheck ==
  ASSUME TypeInv, CheckInv, NEW p \in Task, PprBeginFork(p)
  PROVE  CheckInv'
<1> USE ProcFacts, ForkMoves DEF TypeInv
<1>1. p \notin checked
  BY DEF CheckInv, MainChecked, SpecChecked, CheckedLoc, PassedLoc, GroupLoc,
     PostEnd, Task, SpecTask
<1>2. p + 1 \notin checked
  BY <1>1 DEF CheckInv, PrefixChecked
<1>3. MainChecked'
  BY <1>1 DEF CheckInv, MainChecked
<1>4. PriorChecked' /\ PassedChecked'
  BY DEF CheckInv, PriorChecked, PassedChecked, PassedLoc, GroupLoc
<1>5. SpecChecked'
  BY <1>1, <1>2 DEF CheckInv, SpecChecked
<1> QED
  BY <1>3, <1>4, <1>5 DEF CheckInv, FreedChecked, PrefixChecked

(* A step that leaves the checks alone, and whose task does not get ahead  *)
(* of its own check nor forgets it.                                        *)
LEMMA QuietCheck ==
  ASSUME TypeInv, CheckInv, NEW p \in Task, NEW loc, Goto(p, loc),
         p = 0 => (pc[p] \in PostEnd => loc \in PostEnd),
         p # 0 => /\ loc # "check"
                  /\ loc \in PassedLoc => pc[p] \in PassedLoc
                  /\ pc[p] \in CheckedLoc => loc \in CheckedLoc,
         UNCHANGED <<spec_checked, spec_correct, checked>>
  PROVE  CheckInv'
<1>1. pc'[p] = loc /\ \A q \in Task : q # p => pc'[q] = pc[q]
  BY ProcFacts DEF TypeInv, TypeOK, Goto
<1>2. MainChecked'
  BY <1>1, ProcFacts DEF CheckInv, MainChecked
<1>3. PriorChecked' /\ PassedChecked' /\ SpecChecked'
  BY <1>1, ProcFacts DEF CheckInv, PriorChecked, PassedChecked, SpecChecked
<1> QED
  BY <1>2, <1>3 DEF CheckInv, FreedChecked, PrefixChecked

(* A step that moves no SPEC, and MAIN only past the end of its region.    *)
LEMMA StillCheck ==
  ASSUME CheckInv, \A q \in SpecTask : pc'[q] = pc[q],
         pc'[0] = pc[0] \/ pc'[0] \in PostEnd,
         UNCHANGED <<spec_checked, spec_correct, checked>>
  PROVE  CheckInv'
BY DEF CheckInv, FreedChecked, PrefixChecked, MainChecked, PriorChecked,
   PassedChecked, SpecChecked

LEMMA UndyCheck ==
  ASSUME TypeInv, CheckInv, NEW loc, Goto(Undy, loc),
         UNCHANGED <<spec_checked, spec_correct, checked>>
  PROVE  CheckInv'
<1>1. \A q \in Task : pc'[q] = pc[q]
  BY ProcFacts DEF TypeInv, TypeOK, Goto
<1> QED
  BY <1>1, ProcFacts, StillCheck

(* The check itself: the task before p has been checked. *)
LEMMA CheckChecks ==
  ASSUME TypeInv, CheckInv, NEW p \in Task, CheckCorrectness(p)
  PROVE  CheckInv'
<1>1. /\ pc[p] = "check"
      /\ spec_checked' = [spec_checked EXCEPT ![p] = FALSE]
      /\ checked' = checked \cup {p}
  BY DEF CheckCorrectness, At
<1>2. PICK passed \in Verdict(p) :
        /\ spec_correct' = [spec_correct EXCEPT ![p] = passed]
        /\ Goto(p, IF passed THEN "decide" ELSE "fail")
  BY DEF CheckCorrectness
<1>3. /\ pc'[p] = IF passed THEN "decide" ELSE "fail"
      /\ \A q \in Task : q # p => pc'[q] = pc[q]
  BY <1>2, ProcFacts DEF Goto, TypeInv, TypeOK
<1>4. p = 0 \/ (p \in SpecTask /\ p - 1 \in checked)
  BY <1>1 DEF CheckInv, PriorChecked, Task, SpecTask
<1>5. FreedChecked'
  BY <1>1 DEF CheckInv, FreedChecked, TypeInv, TypeOK
<1>6. PrefixChecked'
  <2> SUFFICES ASSUME NEW r \in checked', NEW k \in 0 .. r PROVE k \in checked'
    BY DEF PrefixChecked
  <2>1. CASE r \in checked
    BY <1>1, <2>1 DEF CheckInv, PrefixChecked
  <2>2. CASE r = p
    <3>1. k = p \/ k \in 0 .. p-1
      BY <2>2, ProcFacts
    <3>2. CASE p = 0
      BY <1>1, <2>2, <3>2
    <3>3. CASE p - 1 \in checked
      BY <1>1, <3>1, <3>3 DEF CheckInv, PrefixChecked
    <3> QED
      BY <1>4, <3>2, <3>3
  <2> QED
    BY <1>1, <2>1, <2>2
<1>7. MainChecked'
  <2>1. CASE p = 0
    <3>1. passed = TRUE
      BY <2>1 DEF Verdict
    <3> QED
      BY <1>3, <2>1, <3>1 DEF MainChecked, PostEnd
  <2>2. CASE p # 0
    BY <1>1, <1>3, <2>2, ProcFacts DEF CheckInv, MainChecked
  <2> QED
    BY <2>1, <2>2
<1>8. PriorChecked' /\ SpecChecked'
  BY <1>1, <1>3, ProcFacts
     DEF CheckInv, PriorChecked, SpecChecked, CheckedLoc, PassedLoc
<1>9. PassedChecked'
  <2> SUFFICES ASSUME NEW q \in SpecTask, pc'[q] \in PassedLoc
               PROVE  q \in checked' /\ spec_correct'[q]
    BY DEF PassedChecked
  <2>1. CASE q = p
    BY <1>1, <1>2, <1>3, <2>1 DEF PassedLoc, GroupLoc, TypeInv, TypeOK
  <2>2. CASE q # p
    BY <1>1, <1>2, <1>3, <2>2, ProcFacts DEF CheckInv, PassedChecked, TypeInv, TypeOK
  <2> QED
    BY <2>1, <2>2
<1> QED
  BY <1>5, <1>6, <1>7, <1>8, <1>9 DEF CheckInv

LEMMA CheckLibrary ==
  ASSUME TypeInv, CheckInv, NEW p \in Task, LibraryStep(p)
  PROVE  CheckInv'
<1> USE QuietCheck, ForkCheck, StillCheck, UndyCheck, ProcFacts
    DEF At, sync, history, UserLoc, PostEnd, CheckedLoc, PassedLoc, GroupLoc
<1>1. CASE p = 0 /\ PprBeginFork(p)
  BY <1>1, ForkCheck
<1>2. CASE p = 0 /\ PprBeginForkFails(p)
  BY <1>2 DEF PprBeginForkFails, BecomeSeq
<1>3. CASE CheckCorrectness(p)
  BY <1>3, CheckChecks
<1>4. CASE DataCommit(p)
  BY <1>4 DEF DataCommit
<1>5. CASE LastTask(p)
  BY <1>5 DEF LastTask
<1>6. CASE SignalCommitDone(p)
  BY <1>6 DEF SignalCommitDone
<1>7. CASE WaitNextCommitDone(p)
  BY <1>7 DEF WaitNextCommitDone
<1>8. CASE Recheck(p)
  BY <1>8 DEF Recheck
<1>9. CASE PartialGroupSetSize(p)
  BY <1>9 DEF PartialGroupSetSize
<1>10. CASE EndClean(p)
  BY <1>10 DEF EndClean, Die
<1> QED
  BY <1>1, <1>2, <1>3, <1>4, <1>5, <1>6, <1>7, <1>8, <1>9, <1>10 DEF LibraryStep

LEMMA CheckSpecLibrary ==
  ASSUME TypeInv, CheckInv, NEW p \in SpecTask, SpecLibraryStep(p)
  PROVE  CheckInv'
<1> USE QuietCheck, ForkCheck, StillCheck, UndyCheck, ProcFacts
    DEF At, sync, history, UserLoc, PostEnd, CheckedLoc, PassedLoc, GroupLoc
<1>1. CASE TaskInit(p)
  BY <1>1 DEF TaskInit
<1>2. CASE AbortTest(p)
  BY <1>2 DEF AbortTest
<1>3. CASE AbortCap(p)
  BY <1>3 DEF AbortCap
<1>4. CASE AbortSignal(p)
  BY <1>4 DEF AbortSignal
<1>5. CASE ReapExit(p)
  BY <1>5 DEF ReapExit
<1>6. CASE WaitPriorCheckDone(p)
  <2>1. /\ pc[p] = "wait_prior" /\ ~spec_checked[p - 1]
        /\ spec_checked' = [spec_checked EXCEPT ![p - 1] = TRUE]
        /\ Goto(p, "check")
        /\ UNCHANGED <<spec_correct, checked>>
    BY <1>6 DEF WaitPriorCheckDone
  <2>2. pc'[p] = "check" /\ \A q \in Task : q # p => pc'[q] = pc[q]
    BY <2>1 DEF Goto, TypeInv, TypeOK
  <2>3. p - 1 \in checked /\ p \notin checked
    BY <2>1 DEF CheckInv, FreedChecked, SpecChecked
  <2>4. FreedChecked'
    BY <2>1 DEF CheckInv, FreedChecked, TypeInv, TypeOK
  <2>5. PriorChecked' /\ PassedChecked' /\ SpecChecked' /\ MainChecked'
    BY <2>1, <2>2, <2>3
       DEF CheckInv, PriorChecked, PassedChecked, SpecChecked, MainChecked
  <2> QED
    BY <2>1, <2>4, <2>5 DEF CheckInv, PrefixChecked
<1>7. CASE WaitGroupCommitDone(p)
  BY <1>7 DEF WaitGroupCommitDone
<1>8. CASE GroupCommitDone(p)
  BY <1>8 DEF GroupCommitDone
<1>9. CASE TaskGroupCommit(p)
  BY <1>9 DEF TaskGroupCommit
<1>10. CASE WaitUndyCreated(p)
  BY <1>10 DEF WaitUndyCreated
<1>11. CASE KillUsr1(p)
  BY <1>11 DEF KillUsr1
<1>12. CASE WaitUndyConceded(p)
  BY <1>12 DEF WaitUndyConceded, BecomeSeq
<1> QED
  BY <1>1, <1>2, <1>3, <1>4, <1>5, <1>6, <1>7, <1>8, <1>9, <1>10, <1>11, <1>12
  DEF SpecLibraryStep

LEMMA CheckSpecUser ==
  ASSUME TypeInv, CheckInv, NEW p \in SpecTask, SpecUserStep(p)
  PROVE  CheckInv'
<1> USE QuietCheck, ForkCheck, StillCheck, UndyCheck, ProcFacts
    DEF At, sync, history, UserLoc, PostEnd, CheckedLoc, PassedLoc, GroupLoc
<1>1. CASE PprBeginFork(p)
  BY <1>1, ForkCheck
<1>2. CASE PprBeginNoFork(p)
  BY <1>2 DEF PprBeginNoFork
<1>3. CASE PprBeginForkFails(p)
  BY <1>3 DEF PprBeginForkFails, BecomeSeq
<1>4. CASE AbortSpec(p)
  BY <1>4 DEF AbortSpec
<1>5. CASE AbortNextSpec(p)
  BY <1>5 DEF AbortNextSpec
<1>6. CASE SilentExit(p)
  BY <1>6 DEF SilentExit, Die
<1>7. CASE PprEndSpec(p)
  BY <1>7 DEF PprEndSpec
<1> QED
  BY <1>1, <1>2, <1>3, <1>4, <1>5, <1>6, <1>7 DEF SpecUserStep

LEMMA CheckMainUser ==
  ASSUME TypeInv, CheckInv, MainUserStep
  PROVE  CheckInv'
<1> USE QuietCheck, ForkCheck, StillCheck, UndyCheck, ProcFacts
    DEF At, sync, history, UserLoc, PostEnd, CheckedLoc, PassedLoc, GroupLoc
<1>1. CASE AbortSpecMain
  BY <1>1 DEF AbortSpecMain
<1>2. CASE AbortNextSpec(0)
  BY <1>2 DEF AbortNextSpec
<1>3. CASE MallocRescue
  <2>1. pc'[0] = "dead" /\ \A q \in SpecTask : pc'[q] = pc[q]
    BY <1>3 DEF MallocRescue, TypeInv, TypeOK
  <2> QED
    BY <1>3, <2>1 DEF MallocRescue
<1>4. CASE PprEndMain
  <2>1. pc'[0] = "check" /\ \A q \in SpecTask : pc'[q] = pc[q]
    BY <1>4 DEF PprEndMain, TypeInv, TypeOK
  <2> QED
    BY <1>4, <2>1 DEF PprEndMain
<1>5. CASE SpawnUndyFails
  BY <1>5 DEF SpawnUndyFails, BecomeSeq
<1> QED
  BY <1>1, <1>2, <1>3, <1>4, <1>5 DEF MainUserStep

LEMMA CheckUndy ==
  ASSUME TypeInv, CheckInv, UndyStep
  PROVE  CheckInv'
<1> USE QuietCheck, ForkCheck, StillCheck, UndyCheck, ProcFacts
    DEF At, sync, history, UserLoc, PostEnd, CheckedLoc, PassedLoc, GroupLoc
<1>1. CASE UndyStart
  BY <1>1 DEF UndyStart
<1>2. CASE UndyBegin
  BY <1>2 DEF UndyBegin
<1>3. CASE PostPprUndy
  BY <1>3 DEF PostPprUndy
<1>4. CASE UndyExit
  BY <1>4 DEF UndyExit
<1>5. CASE KillUsr2
  BY <1>5 DEF KillUsr2
<1>6. CASE UndySuccFini
  BY <1>6 DEF UndySuccFini, BecomeSeq
<1>7. CASE UndyUnmatchedEnd
  BY <1>7 DEF UndyUnmatchedEnd
<1> QED
  BY <1>1, <1>2, <1>3, <1>4, <1>5, <1>6, <1>7 DEF UndyStep

LEMMA CheckSignal ==
  ASSUME TypeInv, CheckInv, SignalStep
  PROVE  CheckInv'
<1> USE QuietCheck, ForkCheck, StillCheck, UndyCheck, ProcFacts
    DEF At, sync, history, UserLoc, PostEnd, CheckedLoc, PassedLoc, GroupLoc
<1>1. CASE SigUsr1Undy
  BY <1>1 DEF SigUsr1Undy, Die
<1>2. ASSUME NEW p \in Task, SigUsr1(p) PROVE CheckInv'
  <2>1. \/ UNCHANGED pc
        \/ Goto(p, "reap")
        \/ Goto(p, "dead")
        \/ pc[p] = "reap_exit" /\ Goto(p, "fail")
    BY <1>2 DEF SigUsr1, Die
  <2>2. UNCHANGED <<spec_checked, spec_correct, checked>>
    BY <1>2 DEF SigUsr1
  <2> QED
    BY <2>1, <2>2
<1>3. ASSUME NEW p \in Task, SigUsr2(p) PROVE CheckInv'
  BY <1>3 DEF SigUsr2, Die
<1>4. CASE ChildHandler
  BY <1>4 DEF ChildHandler
<1>5. CASE ChildHandlerReturns
  BY <1>5 DEF ChildHandlerReturns
<1> QED
  BY <1>1, <1>2, <1>3, <1>4, <1>5 DEF SignalStep

LEMMA CheckStep == TypeInv /\ CheckInv /\ [Next]_vars => CheckInv'
<1>1. ASSUME CheckInv, UNCHANGED vars PROVE CheckInv'
  BY <1>1 DEF CheckInv, FreedChecked, PrefixChecked, MainChecked, PriorChecked,
     PassedChecked, SpecChecked, vars, sync, history
<1> QED
  BY <1>1, CheckLibrary, CheckSpecLibrary, CheckSpecUser, CheckMainUser, CheckUndy,
     CheckSignal DEF Next

LEMMA CheckCommit == CheckInv => CommitChecked
BY ProcFacts DEF CheckInv, PrefixChecked, PassedChecked, PassedLoc, CommitChecked

(* A SPEC reaches the commit of the group only when it and every earlier   *)
(* task have been checked and its own check has passed.                    *)
THEOREM ChecksPrecedeCommit == Spec => []CommitChecked
BY InitType, TypeStep, InitCheck, CheckStep, CheckCommit, PTL DEF Spec

-----------------------------------------------------------------------------
(***************************************************************************)
(* The refinement.  A winner never moves again, so the first process to    *)
(* win is the only one; and only CheckCorrectness changes the set of       *)
(* checked tasks.                                                          *)
(***************************************************************************)
WinnersStay == \A q \in Proc : Winner(q) => pc'[q] = pc[q]
ChecksOnly == checked' = checked \/ \E i \in Task : CheckCorrectness(i)

(* A step in which one process that has not won moves. *)
LEMMA QuietKind ==
  ASSUME TypeInv, NEW p \in Proc, NEW loc, Goto(p, loc), ~Winner(p)
  PROVE  WinnersStay
BY DEF TypeInv, TypeOK, Goto, WinnersStay

LEMMA KindFork ==
  ASSUME TypeInv, CheckInv, NEW p \in Task, PprBeginFork(p)
  PROVE  WinnersStay /\ ChecksOnly
<1> USE ProcFacts, ForkMoves DEF TypeInv
<1>1. p \notin checked /\ pc[p] \notin {"seq", "exited"}
  BY DEF CheckInv, MainChecked, SpecChecked, CheckedLoc, PassedLoc, GroupLoc,
     PostEnd, Task, SpecTask
<1>2. p + 1 \notin checked
  BY <1>1 DEF CheckInv, PrefixChecked
<1>3. pc[p + 1] \notin {"seq", "exited"}
  BY <1>2 DEF CheckInv, PassedChecked, PassedLoc, GroupLoc, TypeInv, TypeOK,
     TaskLoc, UserLoc, CapLoc
<1> QED
  BY <1>1, <1>3 DEF WinnersStay, ChecksOnly, Winner

LEMMA KindLibrary ==
  ASSUME TypeInv, RaceInv, CheckInv, NEW p \in Task, LibraryStep(p)
  PROVE  WinnersStay /\ ChecksOnly
<1> USE QuietKind, ProcFacts
    DEF Winner, At, Alive, history, ChecksOnly, UserLoc
<1>1. CASE p = 0 /\ PprBeginFork(p)
  BY <1>1, KindFork
<1>2. CASE p = 0 /\ PprBeginForkFails(p)
  BY <1>2 DEF PprBeginForkFails, BecomeSeq
<1>3. CASE CheckCorrectness(p)
  BY <1>3 DEF CheckCorrectness, Verdict
<1>4. CASE DataCommit(p)
  BY <1>4 DEF DataCommit
<1>5. CASE LastTask(p)
  BY <1>5 DEF LastTask
<1>6. CASE SignalCommitDone(p)
  BY <1>6 DEF SignalCommitDone
<1>7. CASE WaitNextCommitDone(p)
  BY <1>7 DEF WaitNextCommitDone
<1>8. CASE Recheck(p)
  BY <1>8 DEF Recheck
<1>9. CASE PartialGroupSetSize(p)
  BY <1>9 DEF PartialGroupSetSize
<1>10. CASE EndClean(p)
  BY <1>10 DEF EndClean, Die
<1> QED
  BY <1>1, <1>2, <1>3, <1>4, <1>5, <1>6, <1>7, <1>8, <1>9, <1>10 DEF LibraryStep

LEMMA KindSpecLibrary ==
  ASSUME TypeInv, RaceInv, CheckInv, NEW p \in SpecTask, SpecLibraryStep(p)
  PROVE  WinnersStay /\ ChecksOnly
<1> USE QuietKind, ProcFacts
    DEF Winner, At, Alive, history, ChecksOnly, UserLoc
<1>1. CASE TaskInit(p)
  BY <1>1 DEF TaskInit
<1>2. CASE AbortTest(p)
  BY <1>2 DEF AbortTest
<1>3. CASE AbortCap(p)
  BY <1>3 DEF AbortCap
<1>4. CASE AbortSignal(p)
  BY <1>4 DEF AbortSignal
<1>5. CASE ReapExit(p)
  BY <1>5 DEF ReapExit
<1>6. CASE WaitPriorCheckDone(p)
  BY <1>6 DEF WaitPriorCheckDone
<1>7. CASE WaitGroupCommitDone(p)
  BY <1>7 DEF WaitGroupCommitDone, WinnersStay
<1>8. CASE GroupCommitDone(p)
  BY <1>8 DEF GroupCommitDone
<1>9. CASE TaskGroupCommit(p)
  BY <1>9 DEF TaskGroupCommit
<1>10. CASE WaitUndyCreated(p)
  BY <1>10 DEF WaitUndyCreated
<1>11. CASE KillUsr1(p)
  BY <1>11 DEF KillUsr1
<1>12. CASE WaitUndyConceded(p)
  BY <1>12 DEF WaitUndyConceded, BecomeSeq
<1> QED
  BY <1>1, <1>2, <1>3, <1>4, <1>5, <1>6, <1>7, <1>8, <1>9, <1>10, <1>11, <1>12
  DEF SpecLibraryStep

LEMMA KindSpecUser ==
  ASSUME TypeInv, RaceInv, CheckInv, NEW p \in SpecTask, SpecUserStep(p)
  PROVE  WinnersStay /\ ChecksOnly
<1> USE QuietKind, ProcFacts
    DEF Winner, At, Alive, history, ChecksOnly, UserLoc
<1>1. CASE PprBeginFork(p)
  BY <1>1, KindFork
<1>2. CASE PprBeginNoFork(p)
  BY <1>2 DEF PprBeginNoFork
<1>3. CASE PprBeginForkFails(p)
  BY <1>3 DEF PprBeginForkFails, BecomeSeq
<1>4. CASE AbortSpec(p)
  BY <1>4 DEF AbortSpec
<1>5. CASE AbortNextSpec(p)
  BY <1>5 DEF AbortNextSpec
<1>6. CASE SilentExit(p)
  BY <1>6 DEF SilentExit, Die
<1>7. CASE PprEndSpec(p)
  BY <1>7 DEF PprEndSpec
<1> QED
  BY <1>1, <1>2, <1>3, <1>4, <1>5, <1>6, <1>7 DEF SpecUserStep

LEMMA KindMainUser ==
  ASSUME TypeInv, RaceInv, CheckInv, MainUserStep
  PROVE  WinnersStay /\ ChecksOnly
<1> USE QuietKind, ProcFacts
    DEF Winner, At, Alive, history, ChecksOnly, UserLoc
<1>1. CASE AbortSpecMain
  BY <1>1 DEF AbortSpecMain, WinnersStay
<1>2. CASE AbortNextSpec(0)
  BY <1>2 DEF AbortNextSpec
<1>3. CASE MallocRescue
  <2>1. pc[0] = "ppr" /\ pc[Undy] = "none"
    BY <1>3 DEF MallocRescue, RaceInv, MainOut, PostEnd
  <2> QED
    BY <1>3, <2>1 DEF MallocRescue, WinnersStay, TypeInv, TypeOK
<1>4. CASE PprEndMain
  <2>1. pc[0] = "ppr" /\ pc[Undy] = "none"
    BY <1>4 DEF PprEndMain, RaceInv, MainOut, PostEnd
  <2> QED
    BY <1>4, <2>1 DEF PprEndMain, WinnersStay, TypeInv, TypeOK
<1>5. CASE SpawnUndyFails
  BY <1>5 DEF SpawnUndyFails, BecomeSeq
<1> QED
  BY <1>1, <1>2, <1>3, <1>4, <1>5 DEF MainUserStep

LEMMA KindUndy ==
  ASSUME TypeInv, RaceInv, CheckInv, UndyStep
  PROVE  WinnersStay /\ ChecksOnly
<1> USE QuietKind, ProcFacts
    DEF Winner, At, Alive, history, ChecksOnly, UserLoc
<1>1. CASE UndyStart
  BY <1>1 DEF UndyStart
<1>2. CASE UndyBegin
  BY <1>2 DEF UndyBegin
<1>3. CASE PostPprUndy
  BY <1>3 DEF PostPprUndy
<1>4. CASE UndyExit
  BY <1>4 DEF UndyExit
<1>5. CASE KillUsr2
  BY <1>5 DEF KillUsr2
<1>6. CASE UndySuccFini
  BY <1>6 DEF UndySuccFini, BecomeSeq
<1>7. CASE UndyUnmatchedEnd
  BY <1>7 DEF UndyUnmatchedEnd
<1> QED
  BY <1>1, <1>2, <1>3, <1>4, <1>5, <1>6, <1>7 DEF UndyStep

LEMMA KindSignal ==
  ASSUME TypeInv, RaceInv, CheckInv, SignalStep
  PROVE  WinnersStay /\ ChecksOnly
<1> USE QuietKind, ProcFacts
    DEF Winner, At, Alive, history, ChecksOnly, UserLoc
<1>1. CASE SigUsr1Undy
  BY <1>1 DEF SigUsr1Undy, Die
<1>2. ASSUME NEW p \in Task, SigUsr1(p) PROVE WinnersStay /\ ChecksOnly
  <2>1. UNCHANGED pc \/ \E loc \in {"reap", "dead", "fail"} : Goto(p, loc)
    BY <1>2 DEF SigUsr1, Die
  <2>2. ~Winner(p) /\ checked' = checked
    BY <1>2 DEF SigUsr1
  <2> QED
    BY <2>1, <2>2 DEF WinnersStay
<1>3. ASSUME NEW p \in Task, SigUsr2(p) PROVE WinnersStay /\ ChecksOnly
  BY <1>3 DEF SigUsr2, Die
<1>4. CASE ChildHandler
  BY <1>4 DEF ChildHandler, WinnersStay
<1>5. CASE ChildHandlerReturns
  BY <1>5 DEF ChildHandlerReturns, WinnersStay
<1> QED
  BY <1>1, <1>2, <1>3, <1>4, <1>5 DEF SignalStep

LEMMA KindStep ==
  TypeInv /\ RaceInv /\ CheckInv /\ [Next]_vars => WinnersStay /\ ChecksOnly
<1>1. UNCHANGED vars => WinnersStay /\ ChecksOnly
  BY DEF vars, history, WinnersStay, ChecksOnly
<1> QED
  BY <1>1, KindLibrary, KindSpecLibrary, KindSpecUser, KindMainUser, KindUndy,
     KindSignal DEF Next

LEMMA RefinesInit == Init => Group!Init
BY DEF Init, Group!Init, Winner

LEMMA RefinesStep ==
  ASSUME TypeInv, RaceInv, CheckInv, TypeInv', RaceInv', CheckInv', [Next]_vars
  PROVE  [Group!Next]_<<checked, {p \in Proc : Winner(p)}>>
<1> DEFINE W == {p \in Proc : Winner(p)}
<1>1. WinnersStay /\ ChecksOnly
  BY KindStep
<1>2. W \subseteq W'
  BY <1>1 DEF WinnersStay, Winner
<1>3. CASE W' = W
  <2>1. CASE checked' = checked
    BY <1>3, <2>1
  <2>2. ASSUME NEW i \in Task, CheckCorrectness(i) PROVE Group!Next
    <3>1. i = 0 \/ i - 1 \in checked
      BY <2>2, ProcFacts DEF CheckCorrectness, At, CheckInv, PriorChecked, Task, SpecTask
    <3>2. Group!Validate(i)
      BY <1>3, <2>2, <3>1 DEF CheckCorrectness, Group!Validate
    <3> QED
      BY <3>2 DEF Group!Next, Group!Task, Task
  <2> QED
    BY <1>1, <2>1, <2>2 DEF ChecksOnly
<1>4. CASE W' # W
  <2>1. PICK p \in Proc : Winner(p)' /\ ~Winner(p)
    BY <1>2, <1>4
  <2>2. AtMostOneWinner'
    BY RaceOneWinner, PTL
  <2>3. W' = {p} /\ W = {}
    BY <1>2, <2>1, <2>2 DEF AtMostOneWinner
  <2>4. checked' = checked
    <3>1. ASSUME NEW i \in Task, CheckCorrectness(i) PROVE FALSE
      BY <2>1, <3>1, ProcFacts DEF CheckCorrectness, Goto, Winner, TypeInv, TypeOK
    <3> QED
      BY <1>1, <3>1 DEF ChecksOnly
  <2>5. Group!Choose(p)
    BY <2>3, <2>4 DEF Group!Choose
  <2>6. CASE p = Undy
    BY <2>5, <2>6 DEF Group!Next, Group!ChooseUndy, Group!Undy, Undy
  <2>7. CASE p = 0
    <3>1. 0 \notin checked'
      BY <2>1, <2>7 DEF Winner, CheckInv, MainChecked, PostEnd
    <3>2. checked = {}
      BY <2>4, <3>1, ProcFacts DEF TypeInv, TypeOK, CheckInv, PrefixChecked
    <3> QED
      BY <2>5, <2>7, <3>2 DEF Group!Next, Group!ChooseMain
  <2>8. CASE p \in SpecTask
    <3>1. pc'[p] = "seq"
      BY <2>1, <2>8, ProcFacts DEF Winner, TypeInv, TypeOK, TaskLoc, UserLoc, CapLoc
    <3>2. 0 .. p \subseteq checked
      BY <2>4, <2>8, <3>1 DEF CheckInv, PassedChecked, PrefixChecked, PassedLoc, GroupLoc
    <3>3. Group!ChooseSpec(p)
      BY <2>5, <3>2 DEF Group!ChooseSpec
    <3> QED
      BY <2>8, <3>3, ProcFacts DEF Group!Next, Group!Task, Task
  <2> QED
    BY <2>6, <2>7, <2>8 DEF Proc, Task, SpecTask
<1> QED
  BY <1>3, <1>4

(* The processes, locks and signals of a group implement the abstract      *)
(* choice of one continuation behind an unbroken sequence of checks.       *)
THEOREM Refinement == Spec => ImplementsTaskGroup
<1>1. Spec => [](TypeInv /\ RaceInv /\ CheckInv)
  BY InitType, InitRace, InitCheck, TypeStep, RaceStep, CheckStep, PTL DEF Spec
<1> QED
  BY <1>1, RefinesInit, RefinesStep, PTL DEF Spec, ImplementsTaskGroup, Group!Spec

=============================================================================
