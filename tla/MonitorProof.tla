---------------------------- MODULE MonitorProof ----------------------------
(***************************************************************************)
(* Proofs about the monitor and the tree of processes, for every number of *)
(* groups and every set of troubles.                                       *)
(*                                                                         *)
(* The processes that have been front form a chain: the leader, then the   *)
(* SPEC of each group in turn, each the child of the one before.  The      *)
(* status of the program travels back along it, from the front to the      *)
(* leader, whose parent is the monitor.                                    *)
(***************************************************************************)
EXTENDS Monitor, TLAPS

Chain(g) == IF g = 0 THEN Leader ELSE SpecOf(g)
Dead(p) == st[p] \in {"zombie", "gone"}

(* The place of the front in the chain: the groups whose MAIN has come to  *)
(* the end of its region.                                                  *)
Top == IF st[UndyOf(groups)] = "none" THEN groups - 1 ELSE groups

Status == {"none", "seq", "main", "spec", "spawned", "waiting", "clean", "undy", "fini",
           "flush", "zombie", "gone"}

ProcessType ==
  /\ st \in [Worker -> Status]
  /\ parent \in [Worker -> Int]
  /\ code \in [Worker -> {"ok", "err", "sig"}]
  /\ pending = [p \in Worker |-> {}]
  /\ front \in Worker
  /\ groups \in 0 .. NumGroups

(* Worker w is a child of its MAIN m for as long as that is alive, and is  *)
(* not waited for by a child_handler if it has failed.                     *)
ParentOK(w, m) ==
  IF st[w] = "none" THEN parent[w] = TheMonitor
  ELSE /\ parent[w] \in {TheSystem, m}
       /\ Alive(m) => parent[w] = m /\ (st[w] = "gone" => code[w] = "ok")

Parents ==
  /\ parent[Leader] = TheMonitor
  /\ \A g \in 1 .. NumGroups :
       ParentOK(SpecOf(g), Chain(g - 1)) /\ ParentOK(UndyOf(g), Chain(g - 1))

NotYetBorn == \A w \in Worker : w > UndyOf(groups) => st[w] = "none"

NotYetEnded == \A w \in Worker : ~Dead(w) => code[w] = "ok"

(* A MAIN whose region has ended checks, waits or cleans up, or has ended. *)
Mains == \A i \in 0 .. Top - 1 : st[Chain(i)] \in {"spawned", "waiting", "clean", "zombie", "gone"}

(* A loser of a race has ended, and as it should; a SPEC still in its race *)
(* is no front.                                                            *)
Losers ==
  /\ \A g \in 1 .. Top : UndyOf(g) # front => Dead(UndyOf(g)) /\ code[UndyOf(g)] = "ok"
  /\ groups > 0 /\ front # SpecOf(groups)
       => st[SpecOf(groups)] \in {"spec", "zombie", "gone"} /\ code[SpecOf(groups)] = "ok"

Front ==
  \/ /\ front = Chain(Top)
     /\ \/ st[front] = "seq" /\ Top = groups
        \/ st[front] = "main" /\ Top < groups
        \/ st[front] \in {"fini", "flush", "zombie", "gone"}
  \/ /\ groups > 0 /\ Top = groups /\ front = UndyOf(groups)
     /\ st[front] \in {"undy", "zombie", "gone"}

Tree == Parents /\ NotYetBorn /\ NotYetEnded /\ Mains /\ Losers /\ Front

(* No process of the chain ends before the front has, and each ends with   *)
(* value 0 exactly if the program did.                                     *)
Ended(p) == Dead(p) => Dead(front) /\ (code[p] = "ok" <=> final = 0)
Outcome == Ended(front) /\ \A i \in 0 .. Top - 1 : Ended(Chain(i))

Finals ==
  /\ st[front] \in {"seq", "main", "undy"} => final = NotYet
  /\ st[front] \in {"fini", "flush"} => final \in {0, 1}
  /\ Dead(front) /\ trouble \in {"none", "exit"} => flushed
  /\ trouble \in {"segv", "abort"} => Dead(front) /\ final = NotYet

Report ==
  /\ my_exit = IF st[Leader] = "gone" /\ code[Leader] # "ok" THEN 1 ELSE 0
  /\ errored \/ "USR2" \in monitor_pending => trouble = "segv"

Running == ProcessType /\ Tree /\ Outcome /\ Finals /\ Report

Reported ==
  /\ \A p \in Worker : ~Alive(p)
  /\ my_exit = IF final = 0 THEN 0 ELSE 1
  /\ trouble \in {"none", "exit"} => flushed

(* Neither the user's ^C nor the victory of an understudy has torn the     *)
(* chain.                                                                  *)
Normal == trouble # "int" /\ ~undy_won

(* The inductive invariant. *)
MonitorInv == Normal => IF mon = "done" THEN Reported ELSE Running

-----------------------------------------------------------------------------
(***************************************************************************)
(* The workers and the chain.                                              *)
(***************************************************************************)

(* A worker is the leader, or the SPEC or the understudy of a group. *)
LEMMA WorkerKinds ==
  ASSUME NEW w \in Worker
  PROVE  w = Leader \/ \E g \in 1 .. NumGroups : w = SpecOf(g) \/ w = UndyOf(g)
<1>1. NumGroups \in Nat
  BY MonitorAssumption
<1> DEFINE g == w \div 2
<1>2. w = 2 * g \/ w = 2 * g + 1
  BY <1>1 DEF Worker
<1>3. w # 1 => g \in 1 .. NumGroups
  BY <1>1, <1>2 DEF Worker
<1> QED
  BY <1>2, <1>3 DEF Leader, SpecOf, UndyOf

(* The chain and the understudies are workers, all distinct. *)
LEMMA ChainWorkers ==
  /\ \A g \in 0 .. NumGroups : Chain(g) \in Worker /\ UndyOf(g) \in Worker
  /\ \A g \in 1 .. NumGroups : Chain(g) = SpecOf(g) /\ Chain(g - 1) \in Worker
  /\ \A g, h \in 0 .. NumGroups : Chain(g) = Chain(h) => g = h
  /\ \A g, h \in 0 .. NumGroups : UndyOf(g) = UndyOf(h) => g = h
  /\ \A g \in 1 .. NumGroups, h \in 0 .. NumGroups : UndyOf(g) # Chain(h)
  /\ Chain(0) = Leader /\ UndyOf(0) = Leader /\ Leader \in Worker
  /\ TheMonitor \notin Worker /\ TheSystem \notin Worker /\ TheMonitor # TheSystem
BY MonitorAssumption DEF Chain, SpecOf, UndyOf, Worker, Leader, TheMonitor, TheSystem

(* Workers up to the understudy of a group are those of the groups so far. *)
LEMMA Order ==
  ASSUME NEW g \in 0 .. NumGroups, NEW h \in 0 .. NumGroups
  PROVE  /\ UndyOf(g) > UndyOf(h) <=> g > h
         /\ g > 0 => (SpecOf(g) > UndyOf(h) <=> g > h)
BY MonitorAssumption DEF SpecOf, UndyOf

LEMMA ChainIndex == ASSUME NEW w \in Worker
  PROVE \/ \E g \in 0 .. NumGroups : w = Chain(g)
        \/ \E g \in 1 .. NumGroups : w = UndyOf(g)
BY WorkerKinds, ChainWorkers, MonitorAssumption

LEMMA TopRange ==
  ASSUME ProcessType, NotYetBorn, Front
  PROVE  /\ Top \in 0 .. NumGroups
         /\ Top = groups \/ (Top = groups - 1 /\ groups > 0 /\ st[UndyOf(groups)] = "none")
<1>1. groups \in 0 .. NumGroups /\ NumGroups \in Nat
  BY MonitorAssumption DEF ProcessType
<1>2. Top = groups \/ (Top = groups - 1 /\ st[UndyOf(groups)] = "none")
  BY DEF Top
<1>3. ASSUME groups = 0, Top = -1, st[UndyOf(groups)] = "none" PROVE FALSE
  <2>1. front = Chain(-1) /\ st[front] # "none"
    BY <1>3, <1>1 DEF Front
  <2>2. Chain(-1) = -2
    BY DEF Chain, SpecOf
  <2> QED
    BY <2>1, <2>2, <1>1 DEF ProcessType, Worker
<1> QED
  BY <1>1, <1>2, <1>3

(* Who can be in which state. *)
LEMMA Roles ==
  ASSUME ProcessType, Tree, NEW p \in Worker
  PROVE  /\ st[p] \in {"seq", "main", "undy", "fini", "flush"} => p = front
         /\ st[p] = "spec" => groups > 0 /\ p = SpecOf(groups) /\ p # front
         /\ st[p] \in {"spawned", "waiting", "clean"} =>
              p # front /\ \E i \in 0 .. Top - 1 : p = Chain(i)
<1> USE DEF Tree
<1>1. /\ Top \in 0 .. NumGroups /\ groups \in 0 .. NumGroups /\ NumGroups \in Nat
      /\ Top = groups \/ (Top = groups - 1 /\ groups > 0 /\ st[UndyOf(groups)] = "none")
  BY TopRange, MonitorAssumption DEF ProcessType
<1>f. st[front] \notin {"spec", "spawned", "waiting", "clean", "none"}
  BY DEF Front
<1>2. CASE \E g \in 0 .. NumGroups : p = Chain(g)
  <2>1. PICK g \in 0 .. NumGroups : p = Chain(g)
    BY <1>2
  <2>2. CASE g < Top
    BY <2>1, <2>2, <1>1, <1>f DEF Mains
  <2>3. CASE g = Top /\ p # front
    <3>1. groups > 0 /\ Top = groups /\ front = UndyOf(groups)
      BY <2>1, <2>3 DEF Front
    <3> QED
      BY <3>1, <2>1, <2>3, ChainWorkers, <1>1 DEF Losers
  <2>4. CASE g = groups /\ Top = groups - 1
    <3>1. front = Chain(Top)
      BY <2>4, <1>1 DEF Front
    <3> QED
      BY <3>1, <2>1, <2>4, ChainWorkers, <1>1 DEF Losers
  <2>5. CASE g > groups
    BY <2>1, <2>5, Order, ChainWorkers, <1>1 DEF NotYetBorn
  <2> QED
    BY <2>1, <2>2, <2>3, <2>4, <2>5, <1>1, <1>f
<1>3. CASE \E g \in 1 .. NumGroups : p = UndyOf(g)
  <2>1. PICK g \in 1 .. NumGroups : p = UndyOf(g)
    BY <1>3
  <2>2. CASE g \in 1 .. Top
    BY <2>1, <2>2, <1>f DEF Losers, Dead
  <2>3. CASE g = groups /\ Top = groups - 1
    BY <2>1, <2>3, <1>1
  <2>4. CASE g > groups
    BY <2>1, <2>4, Order, <1>1 DEF NotYetBorn
  <2> QED
    BY <2>1, <2>2, <2>3, <2>4, <1>1
<1> QED
  BY <1>2, <1>3, ChainIndex

-----------------------------------------------------------------------------
(***************************************************************************)
(* Deaths.                                                                 *)
(***************************************************************************)

LEMMA ChildrenAre ==
  ASSUME ProcessType, Parents, NEW p \in Worker, NEW q \in Children(p)
  PROVE  /\ q # Leader
         /\ \E g \in 1 .. NumGroups : p = Chain(g - 1) /\ (q = SpecOf(g) \/ q = UndyOf(g))
<1>1. q \in Worker /\ parent[q] = p /\ st[q] \notin {"none", "gone"}
  BY DEF Children
<1>2. q # Leader
  BY <1>1, ChainWorkers DEF Parents
<1>3. PICK g \in 1 .. NumGroups : q = SpecOf(g) \/ q = UndyOf(g)
  BY <1>1, <1>2, WorkerKinds
<1>4. ParentOK(q, Chain(g - 1))
  BY <1>3 DEF Parents
<1>5. p = Chain(g - 1)
  BY <1>1, <1>4, ChainWorkers DEF ParentOK
<1> QED
  BY <1>2, <1>3, <1>5

(* What a death changes: nobody else ends or comes to life. *)
LEMMA DeathEffect ==
  ASSUME ProcessType, Tree, NEW p \in Worker, Alive(p), mon # "done",
         NEW c \in {"ok", "err", "sig"}, Die(p, c), UNCHANGED <<pending, front, groups>>
  PROVE  /\ ProcessType'
         /\ Dead(p)' /\ code'[p] = c
         /\ \A q \in Worker \ {p} :
              /\ code'[q] = code[q]
              /\ st'[q] = st[q] \/ (st[q] = "zombie" /\ st'[q] = "gone" /\ q \in Children(p))
         /\ st'[Leader] = "gone" <=> st[Leader] = "gone"
         /\ Top' = Top
<1> USE DEF Tree
<1>1. /\ st' \in [Worker -> Status] /\ parent' \in [Worker -> Int]
      /\ code' \in [Worker -> {"ok", "err", "sig"}]
  BY DEF Die, ProcessType, Status, TheSystem
<1>2. ProcessType'
  BY <1>1 DEF ProcessType
<1>3. Dead(p)' /\ code'[p] = c
  BY DEF Die, Dead, ProcessType
<1>4. ASSUME NEW q \in Worker \ {p}
      PROVE  /\ code'[q] = code[q]
             /\ st'[q] = st[q] \/ (st[q] = "zombie" /\ st'[q] = "gone" /\ q \in Children(p))
  BY <1>4 DEF Die, ProcessType
<1>5. st'[Leader] = "gone" <=> st[Leader] = "gone"
  <2>1. Leader \in Worker
    BY ChainWorkers
  <2>2. CASE p = Leader
    <3>1. parent[p] = TheMonitor /\ st[p] # "gone"
      BY <2>2 DEF Parents, Alive, Gone
    <3>2. st'[p] = "zombie"
      BY <3>1 DEF Die
    <3> QED
      BY <3>1, <3>2, <2>2
  <2>3. CASE p # Leader
    BY <2>1, <2>3, <1>4, ChildrenAre
  <2> QED
    BY <2>2, <2>3
<1>6. Top' = Top
  <2>1. UndyOf(groups) \in Worker
    BY ChainWorkers DEF ProcessType
  <2>2. st'[UndyOf(groups)] = "none" <=> st[UndyOf(groups)] = "none"
    BY <2>1, <1>3, <1>4 DEF Dead, Alive, Gone
  <2> QED
    BY <2>2 DEF Top
<1> QED
  BY <1>2, <1>3, <1>4, <1>5, <1>6

LEMMA DeathParents ==
  ASSUME ProcessType, Tree, NEW p \in Worker, Alive(p), mon # "done",
         NEW c \in {"ok", "err", "sig"}, Die(p, c), UNCHANGED <<pending, front, groups>>
  PROVE  Parents'
<1>1. parent'[Leader] = TheMonitor
  <2>1. Leader \notin Children(p)
    BY ChildrenAre DEF Tree
  <2> QED
    BY <2>1, ChainWorkers DEF Die, Tree, Parents
<1>2. ASSUME NEW g \in 1 .. NumGroups, NEW w \in {SpecOf(g), UndyOf(g)}
      PROVE  ParentOK(w, Chain(g - 1))'
  <2> DEFINE m == Chain(g - 1)
  <2>1. w \in Worker /\ m \in Worker /\ Chain(g - 1)' = m /\ w' = w
    BY <1>2, ChainWorkers, MonitorAssumption DEF Chain, SpecOf, UndyOf
  <2>2. ParentOK(w, m)
    BY <1>2 DEF Tree, Parents
  <2>3. Alive(m)' => Alive(m) /\ m # p
    BY <2>1, DeathEffect DEF Alive, Gone, Dead
  <2>4. st'[w] = "none" <=> st[w] = "none"
    BY <2>1, DeathEffect DEF Alive, Gone, Dead
  <2>5. parent'[w] = IF w \in Children(p) THEN TheSystem ELSE parent[w]
    BY <2>1 DEF Die
  <2>6. CASE st'[w] = "none"
    BY <2>1, <2>2, <2>4, <2>5, <2>6 DEF ParentOK, Children
  <2>7. CASE st'[w] # "none"
    <3>1. parent'[w] \in {TheSystem, m}
      BY <2>2, <2>4, <2>5, <2>7 DEF ParentOK
    <3>2. ASSUME Alive(m)' PROVE parent'[w] = m /\ (st'[w] = "gone" => code'[w] = "ok")
      <4>1. parent[w] = m /\ (st[w] = "gone" => code[w] = "ok") /\ Alive(m) /\ m # p
        BY <3>2, <2>2, <2>3, <2>4, <2>7 DEF ParentOK
      <4>2. w \notin Children(p)
        BY <4>1 DEF Children
      <4>3. CASE w = p
        <5>1. st'[w] = "zombie"
          BY <4>1, <4>3, <2>1, ChainWorkers DEF Die
        <5> QED
          BY <5>1, <4>1, <4>2, <2>5
      <4>4. CASE w # p
        <5>1. st'[w] = st[w] /\ code'[w] = code[w]
          BY <4>2, <4>4, <2>1, DeathEffect
        <5> QED
          BY <5>1, <4>1, <4>2, <2>5
      <4> QED
        BY <4>3, <4>4
    <3> QED
      BY <3>1, <3>2, <2>1, <2>7 DEF ParentOK
  <2> QED
    BY <2>6, <2>7
<1> QED
  BY <1>1, <1>2 DEF Parents, SpecOf, UndyOf, Leader, TheMonitor


(* A death leaves the tree in order, if a SPEC that has lost ends well. *)
LEMMA DeathTree ==
  ASSUME ProcessType, Tree, NEW p \in Worker, Alive(p), mon # "done",
         NEW c \in {"ok", "err", "sig"}, Die(p, c), UNCHANGED <<pending, front, groups>>,
         p = SpecOf(groups) /\ p # front => c = "ok"
  PROVE  Tree'
<1>1. /\ Top \in 0 .. NumGroups /\ groups \in 0 .. NumGroups /\ NumGroups \in Nat
      /\ Top <= groups /\ Top' = Top /\ groups' = groups /\ front' = front /\ front \in Worker
  BY TopRange, DeathEffect, MonitorAssumption DEF Tree, ProcessType
<1>2. /\ st'[p] \in {"zombie", "gone"} /\ code'[p] = c
      /\ \A q \in Worker \ {p} :
           /\ code'[q] = code[q]
           /\ st'[q] = st[q] \/ (st[q] = "zombie" /\ st'[q] = "gone")
  BY DeathEffect DEF Dead
<1>3. NotYetBorn'
  <2>1. ASSUME NEW w \in Worker, w > UndyOf(groups) PROVE st'[w] = "none"
    <3>1. st[w] = "none" /\ w # p
      BY <2>1 DEF Tree, NotYetBorn, Alive, Gone
    <3> QED
      BY <3>1, <1>2
  <2> QED
    BY <2>1, <1>1 DEF NotYetBorn, UndyOf
<1>4. NotYetEnded'
  BY <1>2 DEF Tree, NotYetEnded, Dead
<1>5. Mains'
  <2>1. ASSUME NEW i \in 0 .. Top - 1
        PROVE  st'[Chain(i)] \in {"spawned", "waiting", "clean", "zombie", "gone"}
    <3>1. Chain(i) \in Worker /\ st[Chain(i)] \in {"spawned", "waiting", "clean", "zombie", "gone"}
      BY <1>1, ChainWorkers DEF Tree, Mains
    <3> QED
      BY <3>1, <1>2
  <2> QED
    BY <2>1, <1>1 DEF Mains, Chain, SpecOf, Leader
<1>6. Losers'
  <2>1. ASSUME NEW g \in 1 .. Top, UndyOf(g) # front
        PROVE  st'[UndyOf(g)] \in {"zombie", "gone"} /\ code'[UndyOf(g)] = "ok"
    <3>1. UndyOf(g) \in Worker /\ Dead(UndyOf(g)) /\ code[UndyOf(g)] = "ok"
      BY <2>1, <1>1, ChainWorkers DEF Tree, Losers
    <3>2. UndyOf(g) # p
      BY <3>1 DEF Dead, Alive, Gone
    <3> QED
      BY <3>1, <3>2, <1>2 DEF Dead
  <2>2. ASSUME groups > 0, front # SpecOf(groups)
        PROVE  st'[SpecOf(groups)] \in {"spec", "zombie", "gone"} /\ code'[SpecOf(groups)] = "ok"
    <3>1. /\ SpecOf(groups) \in Worker
          /\ st[SpecOf(groups)] \in {"spec", "zombie", "gone"} /\ code[SpecOf(groups)] = "ok"
      BY <2>2, <1>1, ChainWorkers DEF Tree, Losers
    <3> QED
      BY <3>1, <2>2, <1>2
  <2> QED
    BY <2>1, <2>2, <1>1 DEF Losers, Dead, UndyOf, SpecOf
<1>7. Front'
  <2>1. st'[front] = st[front] \/ st'[front] \in {"zombie", "gone"}
    BY <1>1, <1>2
  <2>2. Chain(Top)' = Chain(Top) /\ UndyOf(groups)' = UndyOf(groups)
    BY <1>1 DEF Chain, UndyOf, SpecOf, Leader
  <2> QED
    BY <2>1, <2>2, <1>1 DEF Front, Tree
<1> QED
  BY <1>3, <1>4, <1>5, <1>6, <1>7, DeathParents DEF Tree

(***************************************************************************)
(* Steps in which nobody dies or is born: a process waits for children     *)
(* that have ended well, or goes on, or both.  The monitor waits for the   *)
(* leader however that has ended.                                          *)
(***************************************************************************)
Goes(x, y) ==
  \/ x = "spawned" /\ y = "waiting"
  \/ x = "waiting" /\ y = "clean"
  \/ x \in {"seq", "main"} /\ y = "fini"
  \/ x = "fini" /\ y = "flush"

Continues(p, S) ==
  /\ \A q \in S : q \in Worker \ {p} /\ st[q] = "zombie" /\ (q = Leader \/ code[q] = "ok")
  /\ \A q \in Worker \ {p} : st'[q] = IF q \in S THEN "gone" ELSE st[q]
  /\ p \in Worker => st'[p] = st[p] \/ Goes(st[p], st'[p])

LEMMA ContinueTree ==
  ASSUME ProcessType, Tree, NEW p, NEW S, Continues(p, S), st' \in [Worker -> Status],
         UNCHANGED <<parent, code, pending, front, groups>>
  PROVE  /\ ProcessType' /\ Tree' /\ Top' = Top
         /\ \A q \in Worker : Dead(q)' <=> Dead(q)
<1>1. ProcessType'
  BY DEF ProcessType
<1>2. \A q \in Worker :
        /\ Dead(q)' <=> Dead(q)
        /\ Alive(q)' <=> Alive(q)
        /\ \/ st'[q] = st[q]
           \/ st[q] = "zombie" /\ st'[q] = "gone" /\ (q = Leader \/ code[q] = "ok")
           \/ Goes(st[q], st'[q])
  BY DEF Continues, Dead, Alive, Gone, Goes
<1>3. /\ Top \in 0 .. NumGroups /\ groups \in 0 .. NumGroups /\ NumGroups \in Nat
      /\ Top <= groups /\ groups' = groups /\ front' = front /\ front \in Worker
  BY TopRange, MonitorAssumption DEF Tree, ProcessType
<1>4. Top' = Top
  <2>1. UndyOf(groups) \in Worker
    BY ChainWorkers, <1>3
  <2> QED
    BY <2>1, <1>2, <1>3 DEF Top, Goes
<1>5. Parents'
  <2>1. ASSUME NEW g \in 1 .. NumGroups, NEW w \in {SpecOf(g), UndyOf(g)}
        PROVE  ParentOK(w, Chain(g - 1))'
    <3> DEFINE m == Chain(g - 1)
    <3>1. w \in Worker /\ m \in Worker /\ w # Leader
      BY <2>1, ChainWorkers, MonitorAssumption DEF Chain, SpecOf, UndyOf, Leader
    <3>2. ParentOK(w, m)
      BY <2>1 DEF Tree, Parents
    <3>3. Alive(m)' <=> Alive(m)
      BY <1>2, <3>1
    <3> QED
      BY <3>1, <3>2, <3>3, <1>2 DEF ParentOK, Goes
  <2> QED
    BY <2>1 DEF Tree, Parents, SpecOf, UndyOf, Leader, TheMonitor
<1>6. NotYetBorn'
  BY <1>2, <1>3 DEF Tree, NotYetBorn, UndyOf, Goes
<1>7. NotYetEnded'
  BY <1>2 DEF Tree, NotYetEnded
<1>8. Mains'
  <2>1. ASSUME NEW i \in 0 .. Top - 1
        PROVE  st'[Chain(i)] \in {"spawned", "waiting", "clean", "zombie", "gone"}
    BY <1>2, <1>3, ChainWorkers DEF Tree, Mains, Goes
  <2> QED
    BY <2>1, <1>4 DEF Mains, Chain, SpecOf, Leader
<1>9. Losers'
  <2>1. ASSUME NEW g \in 1 .. Top, UndyOf(g) # front
        PROVE  st'[UndyOf(g)] \in {"zombie", "gone"} /\ code[UndyOf(g)] = "ok"
    BY <2>1, <1>2, <1>3, ChainWorkers DEF Tree, Losers, Dead
  <2>2. ASSUME groups > 0, front # SpecOf(groups)
        PROVE  st'[SpecOf(groups)] \in {"spec", "zombie", "gone"} /\ code[SpecOf(groups)] = "ok"
    BY <2>2, <1>2, <1>3, ChainWorkers DEF Tree, Losers, Goes
  <2> QED
    BY <2>1, <2>2, <1>3, <1>4 DEF Losers, Dead, UndyOf, SpecOf
<1>10. Front'
  <2>1. Chain(Top)' = Chain(Top) /\ UndyOf(groups)' = UndyOf(groups)
    BY <1>3, <1>4 DEF Chain, UndyOf, SpecOf, Leader
  <2> QED
    BY <2>1, <1>2, <1>3, <1>4 DEF Front, Tree, Goes
<1> QED
  BY <1>1, <1>2, <1>4, <1>5, <1>6, <1>7, <1>8, <1>9, <1>10 DEF Tree

-----------------------------------------------------------------------------
(***************************************************************************)
(* Births, and the race of a SPEC with the understudy.                     *)
(***************************************************************************)
LEMMA BeginTree ==
  ASSUME ProcessType, Tree, NEW p \in Worker, PprBegin(p)
  PROVE  /\ ProcessType' /\ Tree' /\ Top' = Top /\ p = front /\ st'[front] = "main"
         /\ \A q \in Worker : st[q] \in {"zombie", "gone"} <=> st'[q] \in {"zombie", "gone"}
         /\ \A q \in Worker : st[q] = "gone" <=> st'[q] = "gone"
<1> DEFINE s == SpecOf(groups + 1)
<1>1. /\ st[p] = "seq" /\ groups < NumGroups
      /\ parent' = [parent EXCEPT ![s] = p]
      /\ groups' = groups + 1 /\ code' = code /\ pending' = pending /\ front' = front
  BY DEF PprBegin
<1>2. p = front /\ front = Chain(Top) /\ Top = groups
  BY <1>1, Roles DEF Tree, Front
<1>3. groups \in 0 .. NumGroups /\ groups + 1 \in 1 .. NumGroups /\ NumGroups \in Nat
  BY <1>1, MonitorAssumption DEF ProcessType
<1>4. s \in Worker /\ s > UndyOf(groups) /\ s = Chain(groups + 1) /\ s # Leader
  BY <1>3, ChainWorkers, Order, MonitorAssumption DEF SpecOf, Leader
<1>5. st[s] = "none" /\ code[s] = "ok" /\ s # p
  BY <1>1, <1>4 DEF Tree, NotYetBorn, NotYetEnded, Dead
<1>6. \A q \in Worker : st'[q] = IF q = p THEN "main" ELSE IF q = s THEN "spec" ELSE st[q]
  BY <1>1, <1>5 DEF ProcessType, PprBegin
<1>7. ProcessType'
  <2>1. st' \in [Worker -> Status] /\ parent' \in [Worker -> Int]
    BY <1>1, <1>4, MonitorAssumption DEF ProcessType, PprBegin, Status, Worker
  <2> QED
    BY <2>1, <1>1, <1>3 DEF ProcessType
<1>8. Top' = Top
  <2>1. UndyOf(groups + 1) > UndyOf(groups) /\ UndyOf(groups + 1) \in Worker /\ UndyOf(groups + 1) # s
    BY <1>3, <1>4, Order, ChainWorkers
  <2>2. st[UndyOf(groups + 1)] = "none"
    BY <2>1 DEF Tree, NotYetBorn
  <2>3. st'[UndyOf(groups + 1)] = "none"
    BY <2>1, <2>2, <1>1, <1>6
  <2> QED
    BY <2>3, <1>1, <1>2, <1>3 DEF Top, UndyOf
<1>9. Parents'
  <2>1. ASSUME NEW g \in 1 .. NumGroups, NEW w \in {SpecOf(g), UndyOf(g)}
        PROVE  ParentOK(w, Chain(g - 1))'
    <3> DEFINE m == Chain(g - 1)
    <3>1. w \in Worker /\ m \in Worker /\ g - 1 \in 0 .. NumGroups
      BY <2>1, ChainWorkers, MonitorAssumption
    <3>2. ParentOK(w, m)
      BY <2>1 DEF Tree, Parents
    <3>3. CASE w = s
      <4>1. g = groups + 1
        BY <3>3, <2>1, <1>3, <1>4, ChainWorkers
      <4>2. m = p
        BY <4>1, <1>2, <1>3
      <4>3. parent'[w] = p /\ st'[w] = "spec"
        BY <3>3, <1>1, <1>4, <1>5, <1>6 DEF ProcessType
      <4> QED
        BY <4>2, <4>3 DEF ParentOK
    <3>4. CASE w # s /\ m # s
      <4>1. parent'[w] = parent[w] /\ (st'[w] = st[w] \/ (st[w] = "seq" /\ st'[w] = "main"))
        BY <3>1, <3>4, <1>1, <1>6 DEF ProcessType
      <4>2. Alive(m)' <=> Alive(m)
        BY <3>1, <3>4, <1>1, <1>6 DEF Alive, Gone
      <4> QED
        BY <3>2, <4>1, <4>2, <1>1 DEF ParentOK
    <3>5. CASE w # s /\ m = s
      <4>1. g = groups + 2
        BY <3>1, <3>5, <1>3, <1>4, ChainWorkers
      <4>2. st[w] = "none" /\ w # p
        <5>1. w > UndyOf(groups)
          BY <4>1, <2>1, <1>3, Order
        <5> QED
          BY <5>1, <3>1, <1>1 DEF Tree, NotYetBorn
      <4>3. parent'[w] = parent[w] /\ st'[w] = "none"
        BY <3>1, <3>5, <4>2, <1>1, <1>6 DEF ProcessType
      <4> QED
        BY <3>2, <4>2, <4>3 DEF ParentOK
    <3> QED
      BY <3>3, <3>4, <3>5
  <2>2. parent'[Leader] = TheMonitor
    BY <1>1, <1>4, ChainWorkers DEF Tree, Parents, ProcessType
  <2> QED
    BY <2>1, <2>2 DEF Parents, SpecOf, UndyOf, Leader, TheMonitor
<1>10. NotYetBorn'
  <2>1. ASSUME NEW w \in Worker, w > UndyOf(groups + 1) PROVE st'[w] = "none"
    <3>1. w > UndyOf(groups) /\ w # s
      BY <2>1, <1>3 DEF UndyOf, SpecOf, Worker
    <3> QED
      BY <3>1, <1>1, <1>6 DEF Tree, NotYetBorn
  <2> QED
    BY <2>1, <1>1 DEF NotYetBorn, UndyOf
<1>11. NotYetEnded'
  BY <1>1, <1>5, <1>6 DEF Tree, NotYetEnded, Dead
<1>12. Mains'
  <2>1. ASSUME NEW i \in 0 .. Top - 1
        PROVE  st'[Chain(i)] \in {"spawned", "waiting", "clean", "zombie", "gone"}
    <3>1. Chain(i) \in Worker /\ st[Chain(i)] \in {"spawned", "waiting", "clean", "zombie", "gone"}
      BY <1>2, <1>3, ChainWorkers DEF Tree, Mains
    <3> QED
      BY <3>1, <1>1, <1>5, <1>6
  <2> QED
    BY <2>1, <1>8 DEF Mains, Chain, SpecOf, Leader
<1>13. Losers'
  <2>1. ASSUME NEW g \in 1 .. Top, UndyOf(g) # front
        PROVE  st'[UndyOf(g)] \in {"zombie", "gone"} /\ code'[UndyOf(g)] = "ok"
    <3>1. UndyOf(g) \in Worker /\ st[UndyOf(g)] \in {"zombie", "gone"} /\ code[UndyOf(g)] = "ok"
      BY <2>1, <1>2, <1>3, ChainWorkers DEF Tree, Losers, Dead
    <3> QED
      BY <3>1, <1>1, <1>5, <1>6
  <2>2. st'[s] = "spec" /\ code'[s] = "ok"
    BY <1>1, <1>4, <1>5, <1>6
  <2> QED
    BY <2>1, <2>2, <1>1, <1>8 DEF Losers, Dead, UndyOf, SpecOf
<1>14. Front'
  <2>1. Chain(Top)' = Chain(Top)
    BY <1>8 DEF Chain, SpecOf, Leader
  <2>2. st'[front] = "main" /\ Top' < groups'
    BY <1>1, <1>2, <1>3, <1>6, <1>8
  <2> QED
    BY <2>1, <2>2, <1>1, <1>2 DEF Front
<1> QED
  BY <1>1, <1>2, <1>4, <1>5, <1>6, <1>7, <1>8, <1>9, <1>10, <1>11, <1>12, <1>13, <1>14 DEF Tree


LEMMA EndTree ==
  ASSUME ProcessType, Tree, NEW p \in Worker, SpawnUndy(p)
  PROVE  /\ ProcessType' /\ Tree' /\ Top' = Top + 1 /\ p = front /\ front = Chain(Top)
         /\ front' \in Worker /\ st'[front'] = "undy"
         /\ \A q \in Worker : st[q] \in {"zombie", "gone"} <=> st'[q] \in {"zombie", "gone"}
         /\ \A q \in Worker : st[q] = "gone" <=> st'[q] = "gone"
<1> DEFINE u == UndyOf(groups)
<1>1. /\ st[p] = "main" /\ parent' = [parent EXCEPT ![u] = p] /\ front' = u
      /\ groups' = groups /\ code' = code /\ pending' = pending
  BY DEF SpawnUndy
<1>2. /\ p = front /\ front = Chain(Top) /\ Top < groups /\ st[u] = "none"
      /\ Top = groups - 1 /\ groups > 0
  BY <1>1, Roles, TopRange DEF Tree, Front
<1>3. groups \in 1 .. NumGroups /\ NumGroups \in Nat /\ Top \in 0 .. NumGroups
  BY <1>2, MonitorAssumption DEF ProcessType
<1>4. u \in Worker /\ u # Leader /\ u # p
  BY <1>1, <1>2, <1>3, ChainWorkers
<1>5. code[u] = "ok"
  BY <1>2, <1>4 DEF Tree, NotYetEnded, Dead
<1>6. \A q \in Worker : st'[q] = IF q = p THEN "spawned" ELSE IF q = u THEN "undy" ELSE st[q]
  BY <1>1, <1>4 DEF ProcessType, SpawnUndy
<1>7. ProcessType'
  <2>1. st' \in [Worker -> Status] /\ parent' \in [Worker -> Int]
    BY <1>1, <1>4, MonitorAssumption DEF ProcessType, SpawnUndy, Status, Worker
  <2> QED
    BY <2>1, <1>1, <1>4 DEF ProcessType
<1>8. Top' = groups
  BY <1>1, <1>4, <1>6 DEF Top, UndyOf
<1>9. Parents'
  <2>1. ASSUME NEW g \in 1 .. NumGroups, NEW w \in {SpecOf(g), UndyOf(g)}
        PROVE  ParentOK(w, Chain(g - 1))'
    <3> DEFINE m == Chain(g - 1)
    <3>1. w \in Worker /\ m \in Worker /\ g - 1 \in 0 .. NumGroups
      BY <2>1, ChainWorkers, MonitorAssumption
    <3>2. ParentOK(w, m)
      BY <2>1 DEF Tree, Parents
    <3>3. CASE w = u
      <4>1. g = groups
        BY <3>3, <2>1, <1>3, ChainWorkers
      <4>2. m = p
        BY <4>1, <1>2, <1>3
      <4>3. parent'[w] = p /\ st'[w] = "undy"
        BY <3>3, <1>1, <1>4, <1>6 DEF ProcessType
      <4> QED
        BY <4>2, <4>3 DEF ParentOK
    <3>4. CASE w # u
      <4>1. parent'[w] = parent[w] /\ (st'[w] = st[w] \/ (st[w] = "main" /\ st'[w] = "spawned"))
        BY <3>1, <3>4, <1>1, <1>6 DEF ProcessType
      <4>2. m # u
        BY <3>1, <1>3, ChainWorkers
      <4>3. Alive(m)' <=> Alive(m)
        BY <3>1, <4>2, <1>1, <1>6 DEF Alive, Gone
      <4> QED
        BY <3>2, <4>1, <4>3, <1>1 DEF ParentOK
    <3> QED
      BY <3>3, <3>4
  <2>2. parent'[Leader] = TheMonitor
    BY <1>1, <1>4, ChainWorkers DEF Tree, Parents, ProcessType
  <2> QED
    BY <2>1, <2>2 DEF Parents, SpecOf, UndyOf, Leader, TheMonitor
<1>10. NotYetBorn'
  <2>1. ASSUME NEW w \in Worker, w > u PROVE st'[w] = "none"
    <3>1. w # u
      BY <2>1, <1>3 DEF UndyOf, Worker
    <3> QED
      BY <2>1, <3>1, <1>1, <1>6 DEF Tree, NotYetBorn
  <2> QED
    BY <2>1, <1>1 DEF NotYetBorn, UndyOf
<1>11. NotYetEnded'
  BY <1>1, <1>5, <1>6 DEF Tree, NotYetEnded, Dead
<1>12. Mains'
  <2>1. ASSUME NEW i \in 0 .. groups - 1
        PROVE  st'[Chain(i)] \in {"spawned", "waiting", "clean", "zombie", "gone"}
    <3>1. CASE i = Top
      BY <3>1, <1>2, <1>6
    <3>2. CASE i # Top
      <4>1. Chain(i) \in Worker /\ st[Chain(i)] \in {"spawned", "waiting", "clean", "zombie", "gone"}
        BY <2>1, <3>2, <1>2, <1>3, ChainWorkers DEF Tree, Mains
      <4> QED
        BY <4>1, <1>1, <1>2, <1>6
    <3> QED
      BY <3>1, <3>2
  <2> QED
    BY <2>1, <1>8 DEF Mains, Chain, SpecOf, Leader
<1>13. Losers'
  <2>1. ASSUME NEW g \in 1 .. groups, UndyOf(g) # u
        PROVE  st'[UndyOf(g)] \in {"zombie", "gone"} /\ code'[UndyOf(g)] = "ok"
    <3>1. g \in 1 .. Top
      BY <2>1, <1>2, <1>3
    <3>2. UndyOf(g) # front
      BY <3>1, <1>2, <1>3, ChainWorkers
    <3>3. UndyOf(g) \in Worker /\ st[UndyOf(g)] \in {"zombie", "gone"} /\ code[UndyOf(g)] = "ok"
      BY <3>1, <3>2, <1>3, ChainWorkers DEF Tree, Losers, Dead
    <3> QED
      BY <3>3, <1>1, <1>2, <1>6
  <2>2. SpecOf(groups) # front /\ SpecOf(groups) \in Worker
    BY <1>2, <1>3, ChainWorkers
  <2>3. st[SpecOf(groups)] \in {"spec", "zombie", "gone"} /\ code[SpecOf(groups)] = "ok"
    BY <2>2, <1>2 DEF Tree, Losers
  <2>4. st'[SpecOf(groups)] \in {"spec", "zombie", "gone"} /\ code'[SpecOf(groups)] = "ok"
    BY <2>2, <2>3, <1>1, <1>2, <1>6
  <2> QED
    BY <2>1, <2>4, <1>1, <1>8 DEF Losers, Dead, UndyOf, SpecOf
<1>14. Front'
  BY <1>1, <1>2, <1>4, <1>6, <1>8 DEF Front, UndyOf
<1> QED
  BY <1>1, <1>2, <1>3, <1>4, <1>6, <1>7, <1>8, <1>9, <1>10, <1>11, <1>12, <1>13, <1>14 DEF Tree

LEMMA WinTree ==
  ASSUME ProcessType, Tree, NEW p \in Worker, SpecWins(p)
  PROVE  /\ ProcessType' /\ Tree' /\ Top' = Top /\ Top = groups /\ groups > 0
         /\ front = UndyOf(groups) /\ st[front] = "undy"
         /\ front' = p /\ p = SpecOf(groups) /\ st'[p] = "seq"
         /\ \A q \in Worker \ {front} :
              st[q] \in {"zombie", "gone"} <=> st'[q] \in {"zombie", "gone"}
         /\ \A q \in Worker : st[q] = "gone" <=> st'[q] = "gone"
<1> DEFINE u == UndyOf(groups)
<1>1. /\ st[p] = "spec" /\ st[u] = "undy" /\ p = SpecOf(groups) /\ front' = p
      /\ UNCHANGED <<parent, code, pending, groups>>
  BY DEF SpecWins
<1>2. groups > 0 /\ groups \in 1 .. NumGroups /\ NumGroups \in Nat /\ u \in Worker /\ p # u
  BY <1>1, Roles, ChainWorkers, MonitorAssumption DEF ProcessType
<1>3. front = u /\ Top = groups
  BY <1>1, <1>2, Roles DEF Top
<1>4. \A q \in Worker : st'[q] = IF q = p THEN "seq" ELSE IF q = u THEN "zombie" ELSE st[q]
  BY <1>1, <1>2 DEF ProcessType, SpecWins
<1>5. ProcessType'
  <2>1. st' \in [Worker -> Status]
    BY <1>2 DEF ProcessType, SpecWins, Status
  <2> QED
    BY <2>1, <1>1 DEF ProcessType
<1>6. Top' = groups
  BY <1>1, <1>2, <1>4 DEF Top, UndyOf
<1>7. Parents'
  <2>1. ASSUME NEW g \in 1 .. NumGroups, NEW w \in {SpecOf(g), UndyOf(g)}
        PROVE  ParentOK(w, Chain(g - 1))'
    <3> DEFINE m == Chain(g - 1)
    <3>1. w \in Worker /\ m \in Worker /\ g - 1 \in 0 .. NumGroups
      BY <2>1, ChainWorkers, MonitorAssumption
    <3>2. ParentOK(w, m)
      BY <2>1 DEF Tree, Parents
    <3>3. m # u
      BY <3>1, <1>2, ChainWorkers
    <3>4. Alive(m)' <=> Alive(m)
      BY <3>1, <3>3, <1>1, <1>4 DEF Alive, Gone
    <3>5. /\ st'[w] = "none" <=> st[w] = "none"
          /\ st'[w] = "gone" <=> st[w] = "gone"
      BY <3>1, <1>1, <1>4
    <3> QED
      BY <3>2, <3>4, <3>5, <1>1 DEF ParentOK
  <2> QED
    BY <2>1, <1>1 DEF Tree, Parents, SpecOf, UndyOf, Leader, TheMonitor
<1>8. NotYetBorn'
  BY <1>1, <1>4 DEF Tree, NotYetBorn, UndyOf
<1>9. NotYetEnded'
  BY <1>1, <1>4 DEF Tree, NotYetEnded, Dead
<1>10. Mains'
  <2>1. ASSUME NEW i \in 0 .. groups - 1
        PROVE  st'[Chain(i)] \in {"spawned", "waiting", "clean", "zombie", "gone"}
    <3>1. Chain(i) \in Worker /\ st[Chain(i)] \in {"spawned", "waiting", "clean", "zombie", "gone"}
      BY <1>2, <1>3, ChainWorkers DEF Tree, Mains
    <3> QED
      BY <3>1, <1>1, <1>4
  <2> QED
    BY <2>1, <1>6 DEF Mains, Chain, SpecOf, Leader
<1>11. Losers'
  <2>1. ASSUME NEW g \in 1 .. groups
        PROVE  st'[UndyOf(g)] \in {"zombie", "gone"} /\ code'[UndyOf(g)] = "ok"
    <3>1. UndyOf(g) \in Worker /\ UndyOf(g) # p
      BY <1>1, <1>2, ChainWorkers
    <3>2. CASE UndyOf(g) = u
      BY <3>1, <3>2, <1>1, <1>4 DEF Tree, NotYetEnded, Dead
    <3>3. CASE UndyOf(g) # u
      BY <3>1, <3>3, <1>1, <1>3, <1>4 DEF Tree, Losers, Dead
    <3> QED
      BY <3>2, <3>3
  <2> QED
    BY <2>1, <1>1, <1>6 DEF Losers, Dead, UndyOf, SpecOf
<1>12. Front'
  <2>1. Chain(Top)' = SpecOf(groups)
    BY <1>1, <1>2, <1>6 DEF Chain, SpecOf
  <2> QED
    BY <2>1, <1>1, <1>4, <1>6 DEF Front
<1> QED
  BY <1>1, <1>2, <1>3, <1>4, <1>5, <1>6, <1>7, <1>8, <1>9, <1>10, <1>11, <1>12 DEF Tree

-----------------------------------------------------------------------------
(***************************************************************************)
(* The status travels back along the chain.                                *)
(***************************************************************************)

(* The children of a front that is in the chain have not failed. *)
LEMMA FrontChildren ==
  ASSUME ProcessType, Tree, front = Chain(Top), NEW q \in Children(front)
  PROVE  code[q] = "ok"
<1>1. /\ Top \in 0 .. NumGroups /\ groups \in 0 .. NumGroups /\ NumGroups \in Nat
      /\ Top = groups \/ (Top = groups - 1 /\ groups > 0 /\ st[UndyOf(groups)] = "none")
  BY TopRange, MonitorAssumption DEF Tree, ProcessType
<1>2. PICK g \in 1 .. NumGroups : front = Chain(g - 1) /\ (q = SpecOf(g) \/ q = UndyOf(g))
  BY ChildrenAre DEF Tree, ProcessType
<1>3. g = Top + 1
  <2>1. g - 1 \in 0 .. NumGroups
    BY <1>1
  <2>2. Chain(g - 1) = Chain(Top) /\ Top \in 0 .. NumGroups
    BY <1>1, <1>2
  <2>3. g - 1 = Top
    BY <2>1, <2>2, ChainWorkers
  <2> QED
    BY <2>3, <1>1
<1>4. q \in Worker /\ st[q] \notin {"none", "gone"}
  BY DEF Children
<1>5. g <= groups
  BY <1>1, <1>2, <1>4, Order DEF Tree, NotYetBorn
<1>6. g = groups /\ q = SpecOf(groups)
  BY <1>1, <1>2, <1>3, <1>4, <1>5
<1>7. front # SpecOf(groups)
  BY <1>1, <1>3, <1>6, ChainWorkers
<1> QED
  BY <1>1, <1>3, <1>6, <1>7 DEF Tree, Losers

(* A MAIN whose children have all ended knows how the program has ended. *)
LEMMA MainKnows ==
  ASSUME ProcessType, Tree, Outcome, NEW i \in 0 .. Top - 1,
         Alive(Chain(i)), AllEnded(Chain(i))
  PROVE  Dead(front) /\ (ReportChildren(Chain(i)) = "ok" <=> final = 0)
<1> DEFINE m == Chain(i)  s == SpecOf(i + 1)  u == UndyOf(i + 1)
<1>1. /\ Top \in 0 .. NumGroups /\ groups \in 0 .. NumGroups /\ NumGroups \in Nat
      /\ Top = groups \/ (Top = groups - 1 /\ groups > 0 /\ st[UndyOf(groups)] = "none")
  BY TopRange, MonitorAssumption DEF Tree, ProcessType
<1>2. i + 1 \in 1 .. NumGroups /\ i + 1 <= Top /\ (i + 1) - 1 = i
  BY <1>1
<1>3. m \in Worker /\ s \in Worker /\ u \in Worker /\ s = Chain(i + 1)
  BY <1>1, <1>2, ChainWorkers
<1>4. ParentOK(s, m) /\ ParentOK(u, m)
  BY <1>2 DEF Tree, Parents
<1>5. st[s] \notin {"none", "gone"} => s \in Children(m)
  BY <1>3, <1>4 DEF ParentOK, Children
<1>6. st[u] \notin {"none", "gone"} => u \in Children(m)
  BY <1>3, <1>4 DEF ParentOK, Children
<1>7. ASSUME NEW q \in Children(m) PROVE q = s \/ q = u
  <2>1. PICK g \in 1 .. NumGroups : m = Chain(g - 1) /\ (q = SpecOf(g) \/ q = UndyOf(g))
    BY <1>3, <1>7, ChildrenAre DEF Tree
  <2>2. g - 1 \in 0 .. NumGroups /\ i \in 0 .. NumGroups
    BY <1>1
  <2>3. g = i + 1
    BY <2>1, <2>2, ChainWorkers
  <2> QED
    BY <2>1, <2>3
<1>8. st[s] \in {"none", "zombie", "gone"} /\ st[u] \in {"none", "zombie", "gone"}
  BY <1>5, <1>6 DEF AllEnded
<1>9. st[s] # "none" /\ st[u] # "none"
  <2>1. CASE i + 1 < Top
    <3>1. u # front
      BY <2>1, <1>1, <1>2, ChainWorkers DEF Tree, Front
    <3>2. Dead(u)
      BY <3>1, <1>2 DEF Tree, Losers
    <3>3. st[s] # "none"
      <4>1. i + 1 \in 0 .. Top - 1
        BY <2>1, <1>1, <1>2
      <4> QED
        BY <4>1, <1>3 DEF Tree, Mains
    <3> QED
      BY <3>2, <3>3 DEF Dead
  <2>2. CASE i + 1 = Top /\ front = Chain(Top)
    <3>1. u # front
      BY <2>2, <1>1, <1>2, ChainWorkers
    <3>2. Dead(u)
      BY <3>1, <1>2 DEF Tree, Losers
    <3> QED
      BY <3>2, <2>2, <1>3 DEF Dead, Tree, Front
  <2>3. CASE i + 1 = Top /\ front # Chain(Top)
    <3>1. Top = groups /\ front = u /\ st[front] # "none" /\ groups > 0
      BY <2>3 DEF Tree, Front
    <3>2. front # SpecOf(groups)
      BY <3>1, <2>3, <1>3
    <3> QED
      BY <3>1, <3>2, <2>3 DEF Tree, Losers
  <2> QED
    BY <2>1, <2>2, <2>3, <1>2, <1>1
<1>10. Dead(s) /\ Dead(u)
  BY <1>8, <1>9 DEF Dead
<1>11. /\ st[s] = "gone" => code[s] = "ok"
       /\ st[u] = "gone" => code[u] = "ok"
  BY <1>4, <1>9 DEF ParentOK
<1>12. ReportChildren(m) = "ok" <=> code[s] = "ok" /\ code[u] = "ok"
  BY <1>5, <1>6, <1>7, <1>9, <1>11 DEF ReportChildren
<1>13. CASE front = u
  <2>1. Top = groups /\ i + 1 = groups
    BY <1>13, <1>1, <1>2, ChainWorkers DEF Tree, Front
  <2>2. code[s] = "ok"
    BY <2>1, <1>13, <1>1, <1>2, <1>3, ChainWorkers DEF Tree, Losers
  <2> QED
    BY <2>2, <1>10, <1>12, <1>13 DEF Outcome, Ended
<1>14. CASE front # u
  <2>1. code[u] = "ok"
    BY <1>14, <1>2 DEF Tree, Losers
  <2>2. Ended(s)
    <3>1. CASE i + 1 < Top
      <4>1. i + 1 \in 0 .. Top - 1
        BY <3>1, <1>1, <1>2
      <4> QED
        BY <4>1, <1>3 DEF Outcome
    <3>2. CASE i + 1 = Top
      <4>1. front = Chain(Top)
        BY <3>2, <1>14 DEF Tree, Front
      <4> QED
        BY <4>1, <3>2, <1>3 DEF Outcome
    <3> QED
      BY <3>1, <3>2, <1>1, <1>2
  <2> QED
    BY <2>1, <2>2, <1>10, <1>12 DEF Ended
<1> QED
  BY <1>13, <1>14

(* A death keeps the invariant if a process of the chain dies after the    *)
(* front, or as the front, and hands on how the program has ended.         *)
LEMMA DeathRunning ==
  ASSUME Running, NEW p \in Worker, Alive(p), mon # "done",
         NEW c \in {"ok", "err", "sig"}, Die(p, c),
         UNCHANGED <<pending, front, groups, my_exit, errored>>,
         "USR2" \in monitor_pending' => "USR2" \in monitor_pending \/ trouble' = "segv",
         trouble = "segv" => trouble' = "segv",
         \/ /\ p # front /\ UNCHANGED <<final, flushed, trouble>>
            /\ \/ p = SpecOf(groups) /\ st[p] = "spec" /\ c = "ok"
               \/ Dead(front) /\ (c = "ok" <=> final = 0) /\ p # SpecOf(groups)
         \/ /\ p = front
            /\ c = "ok" <=> final' = 0
            /\ trouble' \in {"none", "exit"} => flushed'
            /\ trouble' \in {"segv", "abort"} => final' = NotYet
  PROVE  Running'
<1> USE DEF Running
<1>1. /\ Top \in 0 .. NumGroups /\ groups \in 0 .. NumGroups /\ NumGroups \in Nat
      /\ Top <= groups
  BY TopRange, MonitorAssumption DEF Tree, ProcessType
<1>2. /\ ProcessType' /\ Top' = Top /\ front' = front /\ front \in Worker
      /\ st'[p] \in {"zombie", "gone"} /\ code'[p] = c
      /\ \A q \in Worker \ {p} :
           /\ code'[q] = code[q]
           /\ st'[q] \in {"zombie", "gone"} <=> st[q] \in {"zombie", "gone"}
           /\ st'[q] = st[q] \/ (st[q] = "zombie" /\ st'[q] = "gone")
      /\ st'[Leader] = "gone" <=> st[Leader] = "gone"
      /\ st[p] \notin {"none", "zombie", "gone"}
  BY DeathEffect DEF Dead, Alive, Gone, ProcessType
<1>3. Tree'
  BY DeathTree
<1>4. Outcome'
  <2>1. Ended(front)'
    BY <1>2 DEF Outcome, Ended, Dead
  <2>2. ASSUME NEW i \in 0 .. Top - 1
        PROVE  Ended(Chain(i))'
    <3>1. Chain(i) \in Worker /\ Ended(Chain(i)) /\ Chain(i)' = Chain(i)
      <4>1. Chain(i) \in Worker
        BY <1>1, ChainWorkers
      <4>2. Chain(i)' = Chain(i)
        BY DEF Chain, SpecOf, Leader
      <4> QED
        BY <4>1, <4>2 DEF Outcome
    <3>2. Chain(i) # SpecOf(groups)
      <4>1. i \in 0 .. NumGroups /\ groups \in 1 .. NumGroups /\ i # groups
        BY <1>1
      <4> QED
        BY <4>1, ChainWorkers
    <3>3. CASE Chain(i) = p
      BY <3>1, <3>2, <3>3, <1>2 DEF Ended, Dead
    <3>4. CASE Chain(i) # p
      BY <3>1, <3>4, <1>2 DEF Ended, Dead
    <3> QED
      BY <3>3, <3>4
  <2> QED
    BY <2>1, <2>2, <1>2 DEF Outcome, Ended, Dead, Chain, SpecOf, Leader
<1>5. Finals'
  BY <1>2 DEF Finals, Dead
<1>6. Report'
  <2>1. Leader \in Worker
    BY ChainWorkers
  <2>2. st'[Leader] = "gone" /\ code'[Leader] # "ok" <=> st[Leader] = "gone" /\ code[Leader] # "ok"
    BY <2>1, <1>2
  <2> QED
    BY <2>2 DEF Report, Leader
<1> QED
  BY <1>2, <1>3, <1>4, <1>5, <1>6


LEMMA ContinueRunning ==
  ASSUME Running, NEW p, NEW S, Continues(p, S), st' \in [Worker -> Status],
         UNCHANGED <<parent, code, pending, front, groups, flushed>>,
         my_exit' = IF Leader \in S /\ code[Leader] # "ok" THEN 1 ELSE my_exit,
         errored' \/ "USR2" \in monitor_pending' => errored \/ "USR2" \in monitor_pending,
         \/ UNCHANGED <<final, trouble>> /\ (p \in Worker /\ st'[p] = "fini" => st[p] = "fini")
         \/ /\ p = front /\ st[p] \in {"seq", "main"} /\ st'[p] = "fini" /\ final' \in {0, 1}
            /\ trouble' = trouble \/ (trouble = "none" /\ trouble' = "exit")
  PROVE  Running'
<1> USE DEF Running
<1>1. /\ Top \in 0 .. NumGroups /\ groups \in 0 .. NumGroups /\ NumGroups \in Nat
      /\ front' = front /\ front \in Worker
  BY TopRange, MonitorAssumption DEF Tree, ProcessType
<1>2. ProcessType' /\ Tree' /\ Top' = Top
  BY ContinueTree
<1>3. \A q \in Worker : st'[q] \in {"zombie", "gone"} <=> st[q] \in {"zombie", "gone"}
  BY ContinueTree DEF Dead
<1>4. Outcome'
  <2>1. Ended(front)'
    BY <1>1, <1>3 DEF Outcome, Ended, Dead
  <2>2. ASSUME NEW i \in 0 .. Top - 1
        PROVE  Ended(Chain(i))'
    <3>1. Chain(i) \in Worker /\ Chain(i)' = Chain(i)
      <4>1. Chain(i) \in Worker
        BY <1>1, ChainWorkers
      <4>2. Chain(i)' = Chain(i)
        BY DEF Chain, SpecOf, Leader
      <4> QED
        BY <4>1, <4>2
    <3>2. Ended(Chain(i))
      BY DEF Outcome
    <3> QED
      BY <3>1, <3>2, <1>1, <1>3 DEF Ended, Dead
  <2> QED
    BY <2>1, <2>2, <1>2 DEF Outcome, Ended, Dead, Chain, SpecOf, Leader
<1>5. Finals'
  <2>1. \/ st'[front] = st[front]
        \/ st[front] = "zombie" /\ st'[front] = "gone"
        \/ front = p /\ Goes(st[p], st'[p])
    BY <1>1 DEF Continues
  <2> QED
    BY <2>1, <1>1, <1>3 DEF Finals, Goes, Dead, NotYet
<1>6. Report'
  <2>1. Leader \in Worker
    BY ChainWorkers
  <2>2. /\ Leader \in S => st[Leader] = "zombie"
        /\ st'[Leader] = "gone" <=> st[Leader] = "gone" \/ Leader \in S
    BY <2>1 DEF Continues, Goes
  <2>3. trouble = "segv" => trouble' = "segv"
    OBVIOUS
  <2> QED
    BY <2>2, <2>3 DEF Report, Leader
<1> QED
  BY <1>2, <1>4, <1>5, <1>6

-----------------------------------------------------------------------------
(***************************************************************************)
(* Each action keeps the invariant.                                        *)
(***************************************************************************)
LEMMA BeginRunning ==
  ASSUME Running, NEW p \in Worker, PprBegin(p)
  PROVE  Running'
<1> USE DEF Running
<1>1. /\ UNCHANGED <<code, front, monitor, history>>
      /\ st[p] = "seq"
  BY DEF PprBegin
<1>2. /\ ProcessType' /\ Tree' /\ Top' = Top /\ p = front /\ st'[front] = "main"
      /\ \A q \in Worker : st[q] \in {"zombie", "gone"} <=> st'[q] \in {"zombie", "gone"}
      /\ \A q \in Worker : st[q] = "gone" <=> st'[q] = "gone"
  BY BeginTree
<1>3. Top \in 0 .. NumGroups /\ NumGroups \in Nat
  BY TopRange, MonitorAssumption DEF Tree
<1>4. Outcome'
  <2>1. ASSUME NEW i \in 0 .. Top - 1 PROVE Ended(Chain(i))'
    <3>1. Chain(i) \in Worker
      BY <1>3, ChainWorkers
    <3>2. Ended(Chain(i))
      BY DEF Outcome
    <3>3. Chain(i)' = Chain(i)
      BY DEF Chain, SpecOf, Leader
    <3> QED
      BY <3>1, <3>2, <3>3, <1>1, <1>2 DEF Ended, Dead, history
  <2>2. Ended(front)'
    BY <1>1, <1>2 DEF Ended, Dead
  <2> QED
    BY <2>1, <2>2, <1>2 DEF Outcome, Ended, Dead, Chain, SpecOf, Leader
<1>5. Finals'
  BY <1>1, <1>2 DEF Finals, Dead, history, NotYet
<1>6. Report'
  <2>1. Leader \in Worker
    BY ChainWorkers
  <2> QED
    BY <2>1, <1>1, <1>2 DEF Report, Leader, monitor, history
<1> QED
  BY <1>2, <1>4, <1>5, <1>6

LEMMA EndRunning ==
  ASSUME Running, NEW p \in Worker, SpawnUndy(p)
  PROVE  Running'
<1> USE DEF Running
<1>1. UNCHANGED <<code, monitor, history>> /\ st[p] = "main"
  BY DEF SpawnUndy
<1>2. /\ ProcessType' /\ Tree' /\ Top' = Top + 1 /\ p = front /\ front = Chain(Top)
      /\ st'[front'] = "undy"
      /\ \A q \in Worker : st[q] \in {"zombie", "gone"} <=> st'[q] \in {"zombie", "gone"}
      /\ \A q \in Worker : st[q] = "gone" <=> st'[q] = "gone"
  BY EndTree
<1>3. Top \in 0 .. NumGroups /\ NumGroups \in Nat
  BY TopRange, MonitorAssumption DEF Tree
<1>4. Outcome'
  <2>1. ASSUME NEW i \in 0 .. Top PROVE ~Dead(Chain(i))'
    <3>1. Chain(i) \in Worker /\ ~Dead(front)
      BY <1>1, <1>2, <1>3, ChainWorkers DEF Dead
    <3>2. ~Dead(Chain(i))
      <4>1. CASE i = Top
        BY <4>1, <3>1, <1>2
      <4>2. CASE i # Top
        BY <4>2, <3>1, <1>3 DEF Outcome, Ended
      <4> QED
        BY <4>1, <4>2
    <3>3. Chain(i)' = Chain(i)
      BY DEF Chain, SpecOf, Leader
    <3> QED
      BY <3>1, <3>2, <3>3, <1>2 DEF Dead
  <2>2. Ended(front)'
    BY <1>2 DEF Ended, Dead
  <2>3. ASSUME NEW i \in 0 .. Top' - 1 PROVE Ended(Chain(i))'
    <3>1. i \in 0 .. Top
      BY <1>2, <1>3
    <3> QED
      BY <3>1, <2>1 DEF Ended, Dead
  <2> QED
    BY <2>2, <2>3 DEF Outcome, Ended, Dead, Chain, SpecOf, Leader
<1>5. Finals'
  BY <1>1, <1>2 DEF Finals, Dead, history, NotYet
<1>6. Report'
  <2>1. Leader \in Worker
    BY ChainWorkers
  <2> QED
    BY <2>1, <1>1, <1>2 DEF Report, Leader, monitor, history
<1> QED
  BY <1>2, <1>4, <1>5, <1>6

LEMMA WinRunning ==
  ASSUME Running, NEW p \in Worker, SpecWins(p)
  PROVE  Running'
<1> USE DEF Running
<1>1. UNCHANGED <<code, monitor, history>>
  BY DEF SpecWins
<1>2. /\ ProcessType' /\ Tree' /\ Top' = Top /\ Top = groups /\ groups > 0
      /\ front = UndyOf(groups) /\ st[front] = "undy"
      /\ front' = p /\ st'[p] = "seq"
      /\ \A q \in Worker \ {front} :
           st[q] \in {"zombie", "gone"} <=> st'[q] \in {"zombie", "gone"}
      /\ \A q \in Worker : st[q] = "gone" <=> st'[q] = "gone"
  BY WinTree
<1>3. Top \in 1 .. NumGroups /\ NumGroups \in Nat
  BY <1>2, TopRange, MonitorAssumption DEF Tree
<1>4. Outcome'
  <2>1. ASSUME NEW i \in 0 .. Top - 1 PROVE Ended(Chain(i))'
    <3>1. Chain(i) \in Worker /\ Chain(i) # front
      BY <1>2, <1>3, ChainWorkers
    <3>2. ~Dead(Chain(i))
      BY <1>2 DEF Outcome, Ended, Dead
    <3>3. Chain(i)' = Chain(i)
      BY DEF Chain, SpecOf, Leader
    <3> QED
      BY <3>1, <3>2, <3>3, <1>2 DEF Ended, Dead
  <2>2. Ended(front)'
    BY <1>2 DEF Ended, Dead
  <2> QED
    BY <2>1, <2>2, <1>2 DEF Outcome, Ended, Dead, Chain, SpecOf, Leader
<1>5. Finals'
  BY <1>1, <1>2 DEF Finals, Dead, history, NotYet
<1>6. Report'
  <2>1. Leader \in Worker
    BY ChainWorkers
  <2> QED
    BY <2>1, <1>1, <1>2 DEF Report, Leader, monitor, history
<1> QED
  BY <1>2, <1>4, <1>5, <1>6


LEMMA SpecAbortsRunning ==
  ASSUME Running, NEW p \in Worker, mon # "done", SpecAborts(p)
  PROVE  Running'
<1>1. /\ st[p] = "spec" /\ Die(p, "ok") /\ Alive(p)
      /\ UNCHANGED <<pending, front, groups, monitor, history>>
  BY DEF SpecAborts, Alive, Gone
<1>2. p = SpecOf(groups) /\ p # front
  BY <1>1, Roles DEF Running
<1> QED
  BY <1>1, <1>2, DeathRunning DEF monitor, history

(* A MAIN dies because its children have ended. *)
LEMMA MainDies ==
  ASSUME Running, NEW p \in Worker, mon # "done",
         st[p] \in {"spawned", "waiting", "clean"}, AllEnded(p),
         Die(p, ReportChildren(p)), UNCHANGED <<pending, front, groups, monitor, history>>
  PROVE  Running'
<1>1. p # front
  BY Roles DEF Running
<1>2. PICK i \in 0 .. Top - 1 : p = Chain(i)
  BY Roles DEF Running
<1>3. Alive(p) /\ ReportChildren(p) \in {"ok", "err", "sig"}
  BY DEF Alive, Gone, ReportChildren
<1>4. Dead(front) /\ (ReportChildren(p) = "ok" <=> final = 0)
  BY <1>2, <1>3, MainKnows DEF Running
<1>5. p # SpecOf(groups)
  <2>1. /\ i \in 0 .. NumGroups /\ i < groups /\ groups \in 1 .. NumGroups
    BY TopRange, MonitorAssumption DEF Running, Tree, ProcessType
  <2> QED
    BY <2>1, <1>2, ChainWorkers
<1> QED
  BY <1>1, <1>3, <1>4, <1>5, DeathRunning DEF monitor, history

LEMMA ReapsChildren ==
  ASSUME Running, NEW p \in Worker, Alive(p), AllEnded(p), ReportChildren(p) # "err"
  PROVE  \A q \in Children(p) :
           q \in Worker \ {p} /\ st[q] = "zombie" /\ code[q] = "ok" /\ q # Leader
<1> SUFFICES ASSUME NEW q \in Children(p)
             PROVE  q \in Worker \ {p} /\ st[q] = "zombie" /\ code[q] = "ok" /\ q # Leader
  OBVIOUS
<1>1. q # Leader
  BY ChildrenAre DEF Running, Tree
<1> QED
  BY <1>1 DEF Children, AllEnded, Alive, Gone, ReportChildren

LEMMA HandlerRunning ==
  ASSUME Running, NEW p \in Worker, mon # "done", HandlerDone(p)
  PROVE  Running'
<1>1. /\ st[p] \in Interrupted /\ AllEnded(p) /\ Alive(p)
      /\ UNCHANGED <<pending, front, groups, monitor, history>>
  BY DEF HandlerDone, Interrupted, Alive, Gone
<1>2. CASE ReportChildren(p) = "err"
  <2>1. st[p] # "main"
    <3> SUFFICES ASSUME st[p] = "main" PROVE FALSE
      OBVIOUS
    <3>1. p = front /\ front = Chain(Top)
      BY Roles DEF Running, Tree, Front
    <3>2. \A q \in Children(p) : code[q] = "ok"
      BY <3>1, FrontChildren DEF Running
    <3> QED
      BY <3>2, <1>2 DEF ReportChildren
  <2>2. Die(p, ReportChildren(p))
    BY <1>2 DEF HandlerDone
  <2> QED
    BY <2>1, <2>2, <1>1, MainDies DEF Interrupted
<1>3. CASE ReportChildren(p) # "err"
  <2>1. /\ st' = [c \in Worker |-> IF c \in Children(p) THEN "gone" ELSE st[c]]
        /\ UNCHANGED <<parent, code>>
    BY <1>3 DEF HandlerDone
  <2>2. st' \in [Worker -> Status]
    BY <2>1 DEF Running, ProcessType, Status
  <2>3. Continues(p, Children(p)) /\ Leader \notin Children(p) /\ st'[p] = st[p]
    BY <2>1, <1>1, <1>3, ReapsChildren DEF Continues
  <2> QED
    BY <2>1, <2>2, <2>3, <1>1, ContinueRunning DEF monitor, history
<1> QED
  BY <1>2, <1>3

LEMMA FiniRunning ==
  ASSUME Running, NEW p \in Worker, mon # "done", FiniDone(p)
  PROVE  Running'
<1>1. /\ st[p] = "fini" /\ AllEnded(p) /\ Alive(p)
      /\ monitor_pending' = monitor_pending \cup {"USR1"}
      /\ UNCHANGED <<pending, front, groups, errored, my_exit, history>>
  BY DEF FiniDone, Alive, Gone, ShutdownSignal
<1>2. p = front /\ front = Chain(Top)
  BY <1>1, Roles DEF Running, Tree, Front
<1>3. \A q \in Children(p) : code[q] = "ok"
  BY <1>2, FrontChildren DEF Running
<1>4. ReportChildren(p) # "err"
  BY <1>3 DEF ReportChildren
<1>5. /\ st' = [q \in Worker |-> IF q = p THEN "flush"
                                 ELSE IF q \in Children(p) THEN "gone" ELSE st[q]]
      /\ UNCHANGED <<parent, code>>
  BY <1>4 DEF FiniDone
<1>6. st' \in [Worker -> Status]
  BY <1>5 DEF Running, ProcessType, Status
<1>7. Continues(p, Children(p)) /\ Leader \notin Children(p) /\ st'[p] = "flush"
  BY <1>5, <1>1, <1>4, ReapsChildren DEF Continues, Goes
<1> QED
  BY <1>1, <1>5, <1>6, <1>7, ContinueRunning DEF history

LEMMA FlushRunning ==
  ASSUME Running, NEW p \in Worker, mon # "done", Flush(p)
  PROVE  Running'
<1>1. /\ st[p] = "flush" /\ Alive(p) /\ Die(p, IF final = 0 THEN "ok" ELSE "err")
      /\ flushed' = TRUE
      /\ UNCHANGED <<pending, front, groups, monitor, final, undy_won, trouble>>
  BY DEF Flush, Alive, Gone
<1>2. p = front
  BY <1>1, Roles DEF Running
<1>3. trouble \notin {"segv", "abort"}
  BY <1>1, <1>2 DEF Running, Finals, Dead
<1> QED
  BY <1>1, <1>2, <1>3, DeathRunning DEF monitor

(* The front dies of a signal. *)
LEMMA CrashRunning ==
  ASSUME Running, NEW p \in Worker, mon # "done", ErrorKillAll(p) \/ Abort(p)
  PROVE  Running'
<1>1. /\ p = front /\ st[p] \in {"seq", "main", "undy"} /\ Die(p, "sig") /\ Alive(p)
      /\ UNCHANGED <<pending, front, groups, my_exit, errored, final>>
      /\ trouble = "none"
      /\ \/ trouble' = "segv"
         \/ trouble' = "abort" /\ monitor_pending' = monitor_pending
  BY DEF ErrorKillAll, Abort, Strike, Alive, Gone, monitor
<1>2. final = NotYet
  BY <1>1 DEF Running, Finals
<1> QED
  BY <1>1, <1>2, DeathRunning DEF NotYet

(* The steps of the front and of a MAIN that change its own state only. *)
LEMMA GoesOnRunning ==
  ASSUME Running, NEW p \in Worker,
         \/ CheckDone(p)
         \/ MainEnds(p)
         \/ (\E v \in {0, 1} : Exit(p, v)) /\ st[p] = "seq"
         \/ ExitInRegion(p)
  PROVE  Running'
<1>1. PICK y \in {"waiting", "clean", "fini"} :
        /\ st' = [st EXCEPT ![p] = y] /\ Goes(st[p], y)
        /\ UNCHANGED <<parent, code, pending, front, groups, monitor, flushed>>
        /\ \/ UNCHANGED <<final, trouble>> /\ y # "fini"
           \/ /\ st[p] \in {"seq", "main"} /\ y = "fini" /\ final' \in {0, 1}
              /\ trouble' = trouble \/ (trouble = "none" /\ trouble' = "exit")
  <2>1. CASE MainEnds(p)
    BY <2>1 DEF MainEnds, Goes, history
  <2>2. CASE (\E v \in {0, 1} : Exit(p, v)) /\ st[p] = "seq"
    BY <2>2 DEF Exit, Goes
  <2>3. CASE ExitInRegion(p)
    BY <2>3 DEF ExitInRegion, Goes, Strike
  <2>4. CASE CheckDone(p)
    BY <2>4 DEF CheckDone, Goes, history
  <2> QED
    BY <2>1, <2>2, <2>3, <2>4
<1>2. st[p] \in {"seq", "main"} => p = front
  BY Roles DEF Running
<1>3. st' \in [Worker -> Status] /\ st'[p] = y
  BY <1>1 DEF Running, ProcessType, Status
<1>4. Continues(p, {})
  BY <1>1, <1>3 DEF Continues, Running, ProcessType
<1> QED
  BY <1>1, <1>2, <1>3, <1>4, ContinueRunning DEF monitor

LEMMA ReportRunning ==
  ASSUME Running, ReportChild
  PROVE  Running'
<1>1. /\ st[Leader] = "zombie" /\ st' = [st EXCEPT ![Leader] = "gone"]
      /\ my_exit' = IF code[Leader] = "ok" THEN my_exit ELSE 1
      /\ UNCHANGED <<parent, code, pending, front, groups, errored, monitor_pending, history>>
  BY DEF ReportChild
<1>2. Leader \in Worker
  BY ChainWorkers
<1>3. st' \in [Worker -> Status]
  BY <1>1, <1>2 DEF Running, ProcessType, Status
<1>4. Continues(TheMonitor, {Leader}) /\ TheMonitor \notin Worker
  BY <1>1, <1>2, ChainWorkers DEF Continues, Running, ProcessType
<1> QED
  BY <1>1, <1>3, <1>4, ContinueRunning DEF history


(* A signal reaches the monitor, or it leaves its loop, or a handler       *)
(* interrupts a MAIN.                                                      *)
LEMMA LoopRunning ==
  ASSUME Running, SigUsr1 \/ SigUsr2 \/ Leave \/ \E p \in Worker : ChildHandler(p)
  PROVE  Running'
<1>1. /\ UNCHANGED <<st, parent, code, pending, front, groups, my_exit, history>>
      /\ errored' \/ "USR2" \in monitor_pending' => errored \/ "USR2" \in monitor_pending
  BY DEF SigUsr1, SigUsr2, Leave, ChildHandler, workers, monitor
<1>2. Continues(TheMonitor, {}) /\ st' \in [Worker -> Status] /\ TheMonitor \notin Worker
  BY <1>1, ChainWorkers DEF Continues, Running, ProcessType
<1> QED
  BY <1>1, <1>2, ContinueRunning DEF history

(* The monitor ends: the leader has handed on how the program ended. *)
LEMMA EndReports ==
  ASSUME Running, MonitorEnd
  PROVE  Reported'
<1> USE DEF Running
<1>1. /\ st[Leader] = "gone" /\ UNCHANGED history
      /\ my_exit' = IF errored \/ "USR2" \in monitor_pending THEN 1 ELSE my_exit
      /\ st' = [p \in Worker |-> IF Alive(p) THEN "gone" ELSE st[p]]
  BY DEF MonitorEnd, Drained, KillWorkers
<1>2. Ended(Leader)
  <2>1. Top \in 0 .. NumGroups
    BY TopRange DEF Tree
  <2>2. CASE Top = 0
    BY <2>2, ChainWorkers DEF Outcome, Tree, Front
  <2>3. CASE Top # 0
    <3>1. 0 \in 0 .. Top - 1
      BY <2>1, <2>3, MonitorAssumption
    <3> QED
      BY <3>1, ChainWorkers DEF Outcome
  <2> QED
    BY <2>2, <2>3
<1>3. Dead(front) /\ (code[Leader] = "ok" <=> final = 0)
  BY <1>1, <1>2 DEF Ended, Dead
<1>4. my_exit' = IF final' = 0 THEN 0 ELSE 1
  BY <1>1, <1>3 DEF Report, Finals, history, NotYet
<1>5. \A p \in Worker : ~Alive(p)'
  BY <1>1 DEF Alive, Gone
<1> QED
  BY <1>1, <1>3, <1>4, <1>5 DEF Reported, Finals, history

LEMMA MonitorInductive ==
  ASSUME MonitorInv, [Next]_vars
  PROVE  MonitorInv'
<1> SUFFICES ASSUME Normal' PROVE (IF mon = "done" THEN Reported ELSE Running)'
  BY DEF MonitorInv
<1>1. CASE UNCHANGED vars
  <2>1. Normal
    BY <1>1 DEF Normal, vars, history
  <2>2. CASE mon = "done"
    BY <1>1, <2>1, <2>2 DEF MonitorInv, Reported, Alive, vars, workers, monitor, history
  <2>3. CASE mon # "done"
    <3>1. Running /\ Continues(TheMonitor, {}) /\ st' \in [Worker -> Status] /\ TheMonitor \notin Worker
      BY <1>1, <2>1, <2>3, ChainWorkers
         DEF MonitorInv, Continues, Running, ProcessType, vars, workers
    <3>2. Running'
      BY <1>1, <3>1, ContinueRunning DEF vars, workers, monitor, history
    <3> QED
      BY <3>2, <2>3, <1>1 DEF vars, monitor
  <2> QED
    BY <2>2, <2>3
<1>2. CASE Next
  <2>1. Normal
    <3>1. ~undy_won
      BY <1>2
         DEF Next, MonitorStep, SigUsr1, SigUsr2, ReportChild, Leave, MonitorEnd, Trouble,
             ErrorKillAll, Abort, ExitInRegion, MonitorInteruptFwd, WorkerStep, PprBegin,
             SpawnUndy, CheckDone,
             SpecWins, SpecAborts, MainEnds, CleanDone, ChildHandler, HandlerDone, UndyWins,
             HandleUsr2, HandleInt, Exit, FiniDone, Flush, Normal, history
    <3>2. trouble # "int"
      BY <1>2
         DEF Next, MonitorStep, SigUsr1, SigUsr2, ReportChild, Leave, MonitorEnd, Trouble, Strike,
             ErrorKillAll, Abort, ExitInRegion, MonitorInteruptFwd, WorkerStep, PprBegin,
             SpawnUndy, CheckDone,
             SpecWins, SpecAborts, MainEnds, CleanDone, ChildHandler, HandlerDone, UndyWins,
             HandleUsr2, HandleInt, Exit, FiniDone, Flush, Normal, history
    <3> QED
      BY <3>1, <3>2 DEF Normal
  <2>2. mon # "done"
    <3> SUFFICES ASSUME mon = "done" PROVE FALSE
      OBVIOUS
    <3>1. \A p \in Worker : st[p] \in {"none", "zombie", "gone"}
      BY <2>1 DEF MonitorInv, Reported, Alive, Gone
    <3>2. ~MonitorStep /\ ~MonitorInteruptFwd
      BY DEF MonitorStep, SigUsr1, SigUsr2, ReportChild, Leave, MonitorEnd, MonitorInteruptFwd
    <3>3. \A p \in Worker : ~ErrorKillAll(p) /\ ~Abort(p) /\ ~ExitInRegion(p)
      BY <3>1 DEF ErrorKillAll, Abort, ExitInRegion
    <3>4. \A p \in Worker : ~WorkerStep(p) /\ ~SpecAborts(p)
      BY <3>1
         DEF WorkerStep, PprBegin, SpawnUndy, CheckDone, SpecWins, SpecAborts, MainEnds, CleanDone,
             ChildHandler, HandlerDone, UndyWins, HandleUsr2, HandleInt, Exit, FiniDone, Flush,
             Interrupted, Alive, Gone
    <3> QED
      BY <3>2, <3>3, <3>4, <1>2 DEF Next, Trouble
  <2>3. Running
    BY <2>1, <2>2 DEF MonitorInv
  <2>4. CASE MonitorEnd
    BY <2>3, <2>4, EndReports DEF MonitorEnd
  <2>5. ASSUME ~MonitorEnd PROVE mon' = mon \/ Leave
    BY <1>2, <2>5
       DEF Next, MonitorStep, SigUsr1, SigUsr2, ReportChild, Trouble, Strike, Normal,
           ErrorKillAll, Abort, ExitInRegion, MonitorInteruptFwd, WorkerStep, PprBegin,
           SpawnUndy, CheckDone,
           SpecWins, SpecAborts, MainEnds, CleanDone, ChildHandler, HandlerDone, UndyWins,
           HandleUsr2, HandleInt, Exit, FiniDone, Flush, monitor
  <2>6. ASSUME ~MonitorEnd PROVE mon' # "done"
    BY <2>2, <2>5, <2>6 DEF Leave
  <2>7. CASE SigUsr1 \/ SigUsr2 \/ Leave
    <3>1. ~MonitorEnd
      BY <2>7 DEF SigUsr1, SigUsr2, Leave, MonitorEnd
    <3> QED
      BY <3>1, <2>3, <2>6, <2>7, LoopRunning
  <2>8. CASE ~MonitorEnd /\ ReportChild
    BY <2>3, <2>6, <2>8, ReportRunning
  <2>9. CASE ~MonitorEnd /\ Trouble
    <3>1. ~MonitorInteruptFwd
      BY DEF MonitorInteruptFwd, Strike, Normal
    <3>2. PICK p \in Worker : ErrorKillAll(p) \/ Abort(p) \/ ExitInRegion(p)
      BY <2>9, <3>1 DEF Trouble
    <3> QED
      BY <3>2, <2>2, <2>3, <2>6, <2>9, CrashRunning, GoesOnRunning
  <2>10. CASE ~MonitorEnd /\ \E p \in Worker : WorkerStep(p) \/ SpecAborts(p)
    <3> SUFFICES Running'
      BY <2>6, <2>10
    <3>1. PICK p \in Worker : WorkerStep(p) \/ SpecAborts(p)
      BY <2>10
    <3>2. pending[p] = {}
      BY <2>3 DEF Running, ProcessType
    <3>3. ~UndyWins(p) /\ ~HandleUsr2(p) /\ ~HandleInt(p)
      BY <3>2 DEF UndyWins, HandleUsr2, HandleInt, Normal
    <3>4. ASSUME NEW v \in {0, 1}, Exit(p, v) PROVE st[p] = "seq"
      BY <3>4 DEF Exit, Normal
    <3>5. CASE PprBegin(p) \/ SpawnUndy(p) \/ SpecWins(p)
      BY <3>5, <2>3, BeginRunning, EndRunning, WinRunning
    <3>6. CASE SpecAborts(p)
      BY <3>6, <2>2, <2>3, SpecAbortsRunning
    <3>7. CASE CheckDone(p) \/ MainEnds(p) \/ \E v \in {0, 1} : Exit(p, v)
      BY <3>4, <3>7, <2>3, GoesOnRunning
    <3>8. CASE CleanDone(p)
      BY <3>8, <2>2, <2>3, MainDies DEF CleanDone
    <3>9. CASE ChildHandler(p) \/ HandlerDone(p)
      BY <3>9, <2>2, <2>3, LoopRunning, HandlerRunning
    <3>10. CASE FiniDone(p) \/ Flush(p)
      BY <3>10, <2>2, <2>3, FiniRunning, FlushRunning
    <3> QED
      BY <3>1, <3>3, <3>5, <3>6, <3>7, <3>8, <3>9, <3>10 DEF WorkerStep
  <2> QED
    BY <1>2, <2>4, <2>7, <2>8, <2>9, <2>10 DEF Next, MonitorStep
<1> QED
  BY <1>1, <1>2

LEMMA MonitorStarts ==
  ASSUME Init
  PROVE  MonitorInv
<1>1. Leader \in Worker /\ UndyOf(0) = Leader /\ Chain(0) = Leader /\ NumGroups \in Nat
  BY ChainWorkers, MonitorAssumption
<1>2. st[Leader] = "seq" /\ \A w \in Worker : w # Leader => st[w] = "none"
  BY <1>1 DEF Init
<1>3. Top = 0
  BY <1>1, <1>2 DEF Init, Top
<1>4. ProcessType
  BY <1>1 DEF Init, ProcessType, Status, TheMonitor
<1>5. Parents
  <2>1. \A g \in 1 .. NumGroups : \A w \in {SpecOf(g), UndyOf(g)} : w \in Worker /\ w # Leader
    BY <1>1 DEF SpecOf, UndyOf, Worker, Leader
  <2>2. \A g \in 1 .. NumGroups : \A w \in {SpecOf(g), UndyOf(g)} : ParentOK(w, Chain(g - 1))
    BY <2>1, <1>2 DEF ParentOK, Init
  <2> QED
    BY <2>2, <1>1 DEF Parents, Init
<1>6. NotYetBorn
  BY <1>1, <1>2 DEF NotYetBorn, Init, Worker, Leader
<1>7. NotYetEnded /\ Mains /\ Losers /\ Front
  BY <1>1, <1>2, <1>3 DEF NotYetEnded, Mains, Losers, Front, Init
<1>8. Outcome /\ Finals /\ Report
  BY <1>1, <1>2, <1>3 DEF Outcome, Ended, Dead, Finals, Report, Init
<1> QED
  BY <1>4, <1>5, <1>6, <1>7, <1>8 DEF MonitorInv, Running, Tree, Init

LEMMA MonitorInvariant == Spec => []MonitorInv
BY MonitorStarts, MonitorInductive, PTL DEF Spec

(* For every number of groups and whatever goes wrong: the process the     *)
(* user has started ends with the value of the program, or in error if a   *)
(* fault has ended it, unless the user interrupts it or an understudy has  *)
(* won (wait_process, cleanup_children and BOP_fini together).             *)
THEOREM ExitStatusReported == Spec => []StatusReported
<1>1. MonitorInv => StatusReported
  BY DEF MonitorInv, Normal, Reported, StatusReported
<1> QED
  BY <1>1, MonitorInvariant, PTL

(* And it does not end, and kill the process group, before the C library   *)
(* of the front has written the program's output.                          *)
THEOREM NoOutputLost == Spec => []OutputFlushed
<1>1. MonitorInv => OutputFlushed
  BY DEF MonitorInv, Normal, Reported, OutputFlushed
<1> QED
  BY <1>1, MonitorInvariant, PTL

=============================================================================
