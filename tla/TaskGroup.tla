----------------------------- MODULE TaskGroup ------------------------------
(***************************************************************************)
(* What a group of parallel regions promises to the program: the tasks are *)
(* validated in their sequential order, and one process is chosen, once,   *)
(* to continue.  A speculative task is chosen only when it and every       *)
(* earlier task have been validated; MAIN only when nothing has been, so   *)
(* that it simply goes on sequentially; the understudy at any time.        *)
(***************************************************************************)
EXTENDS Integers

CONSTANT GroupSize

Undy == -1
Task == 0 .. GroupSize-1

VARIABLES checked,  \* the tasks validated so far
          winners   \* the process that continues the program, if chosen

Init == checked = {} /\ winners = {}

Validate(i) ==
  /\ i = 0 \/ i - 1 \in checked
  /\ checked' = checked \cup {i}
  /\ UNCHANGED winners

Choose(p) ==
  /\ winners = {}
  /\ winners' = {p}
  /\ UNCHANGED checked

ChooseMain == checked = {} /\ Choose(0)
ChooseSpec(p) == 0 .. p \subseteq checked /\ Choose(p)
ChooseUndy == Choose(Undy)

Next ==
  \/ \E i \in Task : Validate(i)
  \/ \E p \in Task \ {0} : ChooseSpec(p)
  \/ ChooseMain
  \/ ChooseUndy

Spec == Init /\ [][Next]_<<checked, winners>>
=============================================================================
