------------------------------- MODULE BopIO -------------------------------
(***************************************************************************)
(* The I/O port, bop_io.c: where the text goes that tasks print, and which *)
(* of it reaches the program's output, over groups of two in sequence.     *)
(*                                                                         *)
(* SEQ and MAIN print through the C library, the understudy into a buffer  *)
(* that it prints when it has won, and a SPEC that prints ends.  The race  *)
(* of a group is decided in one step, as in Monitor.  The buffer is        *)
(* modelled cell by cell: how much of a text fits decides what is printed. *)
(* The C library keeps text in the process if the output is not a          *)
(* terminal, and a fork copies what it keeps.  Files are written at once:  *)
(* a MAIN that writes one never loses to its SPEC, so it makes no          *)
(* difference to them.                                                     *)
(***************************************************************************)
EXTENDS Integers, Sequences, SequencesExt, FiniteSetsExt

CONSTANTS NumRegions,
          Lengths,     \* of the texts that regions print
          MaxItems     \* output operations in a region

ASSUME IoAssumption ==
  /\ NumRegions \in Nat /\ MaxItems \in Nat
  /\ Lengths \subseteq Nat \ {0}

(* An output operation: BOP_printf of a text, or BOP_fprintf to a file. *)
ToFile == 0
Items == Lengths \cup {ToFile}
Programs == [1 .. NumRegions -> UNION {[1 .. n -> Items] : n \in 0 .. MaxItems}]

VARIABLES
  program,
  buffered,      \* the output is not a terminal
  now,           \* regions completed
  phase,         \* "seq", "serial" (no task was forked), "group", "end", "crash"
  st,            \* of "main", "spec" and "undy": "none", "run", "ended" or "dead"
  pos,           \* the items each has executed in its region
  partial_size,
  undy_buffer,   \* the understudy's, MAIN's until there is one
  io,            \* text the C library keeps in each process
  stdout, file,  \* what has left the program
  truncated,     \* a text has filled the buffer to its last cell
  unforked,      \* a fork has failed
  dropped        \* a MAIN that has printed has lost to its SPEC

group == <<st, pos, partial_size>>
output == <<io, stdout, file>>
history == <<truncated, unforked, dropped>>
vars == <<program, buffered, now, phase, group, undy_buffer, output, history>>

Task == {"main", "spec", "undy"}
Region(p) == IF p = "main" THEN now + 1 ELSE now + 2
Ready(p) == st[p] = "run" /\ Region(p) <= NumRegions /\ pos[p] < Len(program[Region(p)])
Item(p) == program[Region(p)][pos[p] + 1]
Done(p) == st[p] = "run" /\ ~Ready(p)

(* The characters of the k-th item of region n, and all output in order. *)
Text(n, k) == [i \in 1 .. program[n][k] |-> <<n, k, i>>]
RegionText(n, to) ==
  FlattenSeq([k \in 1 .. to |-> IF program[n][k] = ToFile THEN <<>> ELSE Text(n, k)])
RegionFile(n, to) ==
  FlattenSeq([k \in 1 .. to |-> IF program[n][k] = ToFile THEN <<<<n, k>>>> ELSE <<>>])
SequentialText(to) == FlattenSeq([n \in 1 .. to |-> RegionText(n, Len(program[n]))])
SequentialFile(to) == FlattenSeq([n \in 1 .. to |-> RegionFile(n, Len(program[n]))])

-----------------------------------------------------------------------------
(* Buffers. *)
Nul == <<0>>
Junk == <<1>>      \* memory that was not written
NoBuffer == [alloc |-> 0, used |-> 0, data |-> <<>>]

(* init_buffer *)
InitBuffer == [alloc |-> 1, used |-> 1, data |-> <<Nul>>]

Avail(b) == b.alloc - b.used

(* vsnprintf at the terminating zero: writes no more than Avail(b) cells,  *)
(* the last of them the new zero.                                          *)
Vsnprintf(b, text) ==
  LET n == Min({Len(text), Avail(b) - 1})
  IN  IF Avail(b) = 0 THEN b.data
      ELSE [i \in DOMAIN b.data |->
              CASE i \in b.used .. b.used + n - 1 -> text[i - b.used + 1]
                [] i = b.used + n -> Nul
                [] OTHER -> b.data[i]]

(* realloc to the first doubled size that is large enough. *)
Grow(b, size) ==
  LET doubled[k \in 0 .. size + 1] == IF k = 0 THEN b.alloc ELSE 2 * doubled[k - 1]
      new == Min({s \in {doubled[k] : k \in 1 .. size + 1} : s >= b.used + size})
  IN  [b EXCEPT !.alloc = new,
                !.data = @ \o [i \in 1 .. new - b.alloc |-> Junk]]

(* Slip: the buffer grows one character too late. *)
TooLongLate(b, text) == Len(text) > Avail(b) + 1

TooLong(b, text) == Len(text) > Avail(b)

(* The part of BOP_printf that stores text in a buffer. *)
Store(b, text) ==
  LET tried == [b EXCEPT !.data = Vsnprintf(b, text)]
      room == IF TooLong(b, text) THEN Grow(tried, Len(text)) ELSE b
  IN  [room EXCEPT !.data = Vsnprintf(room, text), !.used = @ + Len(text)]

(* printf("%s"): the cells before the first zero. *)
CString(b) == SubSeq(b.data, 1, Min({i \in DOMAIN b.data : b.data[i] = Nul}) - 1)

-----------------------------------------------------------------------------
Init ==
  /\ program \in Programs
  /\ buffered \in BOOLEAN
  /\ now = 0
  /\ phase = "seq"
  /\ st = [p \in Task |-> "none"]
  /\ pos = [p \in Task |-> 0]
  /\ partial_size = 2
  /\ undy_buffer = NoBuffer
  /\ io = [p \in Task |-> <<>>]
  /\ stdout = <<>> /\ file = <<>>
  /\ truncated = FALSE /\ unforked = FALSE /\ dropped = FALSE

(* A failed assertion ends its process, and nobody can take its place: a   *)
(* SPEC waits until the understudy concedes.                               *)
Crash == phase' = "crash" /\ st' = [p \in Task |-> "none"]

(* The process of task p prints through the C library. *)
Printf(p, text) ==
  IF buffered THEN io' = [io EXCEPT ![p] = @ \o text] /\ UNCHANGED stdout
  ELSE stdout' = stdout \o text /\ UNCHANGED io

(* io_group_init in the process that begins a group, which then forks a    *)
(* SPEC, or fails to and is SEQ again.  No SPEC ever fills its buffer, so  *)
(* the SPECs' buffers are left out.                                        *)
IoGroupInit ==
  /\ phase = "seq" /\ now < NumRegions
  /\ pos' = [p \in Task |-> 0]
  /\ partial_size' = 2
  /\ IF undy_buffer # NoBuffer
     THEN Crash /\ UNCHANGED <<undy_buffer, io, unforked>>
     ELSE /\ undy_buffer' = InitBuffer
          /\ \/ /\ phase' = "group"
                /\ st' = [main |-> "run", spec |-> "run", undy |-> "none"]
                /\ io' = [io EXCEPT !["spec"] = io["main"]]
                /\ UNCHANGED unforked
             \/ /\ phase' = "serial" /\ unforked' = TRUE
                /\ st' = [main |-> "run", spec |-> "none", undy |-> "none"]
                /\ UNCHANGED io
  /\ UNCHANGED <<program, buffered, now, stdout, file, truncated, dropped>>

Step(p) == Ready(p) /\ pos' = [pos EXCEPT ![p] = @ + 1]

(* BOP_printf in SEQ and MAIN. *)
MainPrints ==
  /\ Step("main") /\ Item("main") # ToFile
  /\ Printf("main", Text(Region("main"), pos'["main"]))
  /\ UNCHANGED <<program, buffered, now, phase, st, partial_size, undy_buffer, file, history>>

(* BOP_printf in the understudy, with its assertion on the cell that       *)
(* should be the terminating zero.                                         *)
UndyPrints ==
  LET text == Text(Region("undy"), pos'["undy"])
      b == undy_buffer
  IN  /\ Step("undy") /\ Item("undy") # ToFile
      /\ \/ /\ b.data[b.used] \in {Nul, Junk}
            /\ undy_buffer' = Store(b, text)
            /\ truncated' = (truncated \/ undy_buffer'.used = undy_buffer'.alloc)
            /\ UNCHANGED <<phase, st>>
         \/ /\ b.data[b.used] # Nul
            /\ Crash /\ UNCHANGED <<undy_buffer, truncated>>
      /\ UNCHANGED <<program, buffered, now, partial_size, output, unforked, dropped>>

(* BOP_printf in a SPEC falls through to _exit. *)
SpecPrints ==
  /\ Step("spec") /\ Item("spec") # ToFile
  /\ st' = [st EXCEPT !["spec"] = "dead"]
  /\ UNCHANGED <<program, buffered, now, phase, partial_size, undy_buffer, output, history>>

WriteFile(p) == file' = Append(file, <<Region(p), pos[p] + 1>>)

(* Slip: a SPEC goes on to write. *)
SpecWritesOn ==
  /\ Step("spec") /\ Item("spec") = ToFile
  /\ partial_size' = 1
  /\ WriteFile("spec")
  /\ UNCHANGED <<program, buffered, now, phase, st, undy_buffer, io, stdout, history>>

(* BOP_fprintf: BOP_abort_spec, which ends a SPEC, then the output. *)
SpecWrites ==
  /\ Step("spec") /\ Item("spec") = ToFile
  /\ partial_size' = 1
  /\ st' = [st EXCEPT !["spec"] = "dead"]
  /\ UNCHANGED <<program, buffered, now, phase, undy_buffer, output, history>>
OthersWrite ==
  \E p \in {"main", "undy"} :
    /\ Step(p) /\ Item(p) = ToFile
    /\ partial_size' = IF p = "main" /\ phase = "group" THEN 1 ELSE partial_size
    /\ WriteFile(p)
    /\ UNCHANGED <<program, buffered, now, phase, st, undy_buffer, io, stdout, history>>

(* The end of MAIN's region: spawn_undy, or SEQ again if that fails. *)
MainEnds ==
  /\ phase = "group" /\ Done("main")
  /\ \/ /\ st' = [st EXCEPT !["main"] = "ended", !["undy"] = "run"]
        /\ io' = [io EXCEPT !["undy"] = io["main"]]
        /\ UNCHANGED <<now, phase, unforked>>
     \/ /\ st' = [p \in Task |-> "none"]
        /\ phase' = "seq" /\ now' = now + 1 /\ unforked' = TRUE
        /\ UNCHANGED io
  /\ UNCHANGED <<program, buffered, pos, partial_size, undy_buffer, stdout, file, truncated, dropped>>

(* The end of a region in a process that is SEQ. *)
SerialEnds ==
  /\ phase = "serial" /\ Done("main")
  /\ st' = [st EXCEPT !["main"] = "none"]
  /\ phase' = "seq" /\ now' = now + 1
  /\ UNCHANGED <<program, buffered, pos, partial_size, undy_buffer, output, history>>

(* Slip: the pointer is not reset. *)
KeepAllBuffers == undy_buffer

(* free_all_buffers *)
FreeAllBuffers == NoBuffer

(* The group is over, task p continues the program after n regions. *)
Continue(p, n) ==
  /\ st' = [q \in Task |-> "none"]
  /\ phase' = "seq" /\ now' = n
  /\ undy_buffer' = FreeAllBuffers
  /\ UNCHANGED <<program, buffered, pos, partial_size, file, truncated, unforked>>

(* io_group_succ in the SPEC that has won: the SPECs' buffers are empty. *)
IoGroupSucc ==
  /\ st["main"] = "ended" /\ Done("spec") /\ now + 2 <= NumRegions /\ partial_size = 2
  /\ Continue("spec", now + 2)
  /\ io' = [io EXCEPT !["main"] = io["spec"]]
  /\ dropped' = (dropped \/ RegionText(now + 1, Len(program[now + 1])) # <<>>)
  /\ UNCHANGED stdout

(* Slip: the understudy's text is not printed. *)
IoUndySuccSilent ==
  /\ Done("undy")
  /\ Continue("undy", Min({now + 2, NumRegions}))
  /\ io' = [io EXCEPT !["main"] = io["undy"]]
  /\ UNCHANGED <<stdout, dropped>>

(* io_undy_succ at the finish line, or at the end of the program. *)
IoUndySucc ==
  /\ Done("undy")
  /\ Continue("undy", Min({now + 2, NumRegions}))
  /\ LET text == CString(undy_buffer)
     IN  IF buffered THEN io' = [io EXCEPT !["main"] = io["undy"] \o text] /\ UNCHANGED stdout
         ELSE stdout' = stdout \o text /\ io' = [io EXCEPT !["main"] = io["undy"]]
  /\ UNCHANGED dropped

(* exit writes what the C library keeps. *)
Exit ==
  /\ phase = "seq" /\ now = NumRegions
  /\ phase' = "end"
  /\ stdout' = stdout \o io["main"]
  /\ UNCHANGED <<program, buffered, now, group, undy_buffer, io, file, history>>

Next ==
  \/ IoGroupInit \/ MainPrints \/ UndyPrints \/ SpecPrints \/ SpecWrites \/ OthersWrite
  \/ MainEnds \/ SerialEnds \/ IoGroupSucc \/ IoUndySucc \/ Exit

Spec == Init /\ [][Next]_vars

-----------------------------------------------------------------------------
(* The understudy's buffer, whatever its sizes were on the way, holds what *)
(* the understudy has printed; a text that fills it exactly loses its last *)
(* character and hides the texts after it, but puts nothing out of order.  *)
BufferHoldsText ==
  st["undy"] = "run" /\ phase = "group" =>
    LET printed == RegionText(now + 2, pos["undy"])
    IN  /\ IsPrefix(CString(undy_buffer), printed)
        /\ ~truncated => CString(undy_buffer) = printed

(* Whoever wins the races, the program's output is that of a sequential    *)
(* execution: no text of a task that lost, none twice, none missing.  Lost *)
(* are the character above and, if the output is not a terminal, what a    *)
(* MAIN that lost to its SPEC had printed.                                 *)
OutputIsSequential ==
  phase = "end" /\ ~truncated /\ ~(buffered /\ dropped) => stdout = SequentialText(NumRegions)

(* A file is written directly, by tasks that may still lose: what is       *)
(* written is nevertheless what a sequential execution writes.             *)
FileIsSequential == phase = "seq" => file = SequentialFile(now)

(* The assertions of BOP_printf and io_group_init hold unless a text has   *)
(* filled the buffer exactly or a fork has failed.                         *)
AssertionsHold == phase = "crash" => truncated \/ unforked
=============================================================================
