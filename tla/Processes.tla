----------------------------- MODULE Processes ------------------------------
(***************************************************************************)
(* Loading, switching and freeing processes: process.c, the task list of   *)
(* task.c and the ELF loader, with every allocation they check allowed to  *)
(* fail and every object they take from the heap accounted for.            *)
(*                                                                         *)
(* Loads are numbered, and a process, its task and its objects bear the    *)
(* number of their load.  One action is one call: the kernel makes them    *)
(* before it lets interrupts in.  A pointer is a number, 0 for nullptr.    *)
(*                                                                         *)
(* The file exists (the kernel loads SHELL.ELF alone) and its descriptor   *)
(* slot is free.  Three allocations are not checked by the code (image and *)
(* program headers in the ELF loader, tables in paging.c): the first two   *)
(* may be missing afterwards, the chunk is there or not as a whole.        *)
(***************************************************************************)
EXTENDS Integers, FiniteSets

CONSTANTS
    MaxProcesses,        \* NUTTLE_MAX_PROCESSES
    MaxLoads             \* bound: calls of process_load that find a slot

ASSUME ProcessesConstants == MaxProcesses \in Nat \ {0} /\ MaxLoads \in Nat

Load == 1 .. MaxLoads
Null == 0
Slots == 0 .. MaxProcesses - 1

\* The objects of a load; "chunk" is directory, tables and chunk together,
\* "descriptor" an open file, "allocation" what the program got by malloc.
Kinds == {"process", "elf", "image", "pheaders", "nobits", "binary", "stack",
          "task", "chunk", "descriptor", "allocation"}
Objects == Load \X Kinds

\* What a file is: an ELF program or not, its segments page aligned or not,
\* delivered whole by the file system or short.
Files == [elf : BOOLEAN, aligned : BOOLEAN, whole : BOOLEAN]

VARIABLES
    loads,               \* how many loads there have been
    heap,                \* object -> allocations less frees
    processes,           \* slot -> process
    program,             \* process -> what process -> ptr points to
    current,             \* process.c's current
    task,                \* task.c's current
    head, tail, prev, next,
    halted,              \* the kernel has taken an exception
    stage                \* history: load -> what became of it

list == <<head, tail, prev, next>>
vars == <<loads, heap, processes, program, current, task, list, halted, stage>>

Mallock(h, objects) == [o \in Objects |-> IF o \in objects THEN h[o] + 1 ELSE h[o]]
Freek(h, objects) == [o \in Objects |-> IF o \in objects THEN h[o] - 1 ELSE h[o]]
Of(n, kinds) == {n} \X kinds

-----------------------------------------------------------------------------
(* Loading a file: each operator is the set of outcomes of its function,   *)
(* as the heap it leaves, and what process -> ptr points to ("nothing"     *)
(* when it failed).                                                        *)

\* got is what the NuttleELFFile points to.
elf_free(h, n, got) == Freek(h, Of(n, {"elf"} \cup got))

\* The image and the headers are allocated unchecked; a file that is no ELF
\* program, or a NOBITS segment without memory, undoes the load.  The file
\* stays open.
elf_load(h, n, file) ==
    {[heap |-> h, ptr |-> "nothing"]} \cup
    {LET loaded == Mallock(h, Of(n, {"elf", "descriptor"} \cup got))
     IN  IF file.elf /\ "nobits" \in got
         THEN [heap |-> loaded, ptr |-> "elf"]
         ELSE [heap |-> elf_free(loaded, n, got), ptr |-> "nothing"] :
     got \in SUBSET (IF file.elf THEN {"image", "pheaders", "nobits"} ELSE {"image"})}

\* The file is closed in any case; the memory stays when the read is short.
process_load_binary(h, n, file) ==
    {[heap |-> h, ptr |-> "nothing"],
     [heap |-> Mallock(h, Of(n, {"binary"})),
      ptr |-> IF file.whole THEN "binary" ELSE "nothing"]}

\* Whatever kept the file from being loaded as an ELF program, it is tried as
\* a raw binary.
process_fill_data(h, n, file) ==
    UNION {IF elf.ptr # "nothing" THEN {elf} ELSE process_load_binary(elf.heap, n, file) :
           elf \in elf_load(h, n, file)}

\* A faulty variant: the stack is freed whether there is one or not.
FreeStackAlways(h, n, objects) ==
    Freek(Freek(h, Of(n, (objects \ {"stack"}) \cup {"process"})), Of(n, {"stack"}))

\* process_free's part of the heap, for a process that has these objects.
FreeObjects(h, n, objects) == Freek(h, Of(n, objects \cup {"process"}))

\* The segments' addresses must be multiples of a page; a binary's are.
MappingFails(file, ptr) == ptr = "elf" /\ ~file.aligned

-----------------------------------------------------------------------------
(* The task list.                                                          *)

\* A faulty variant: the old tail is not linked.
AppendUnlinked(t) ==
    /\ head' = IF head = Null THEN t ELSE head
    /\ tail' = t
    /\ prev' = [prev EXCEPT ![t] = tail]
    /\ next' = next

\* task_new, its task cleared by task_init.
task_list_append(t) ==
    /\ head' = IF head = Null THEN t ELSE head
    /\ tail' = t
    /\ prev' = [prev EXCEPT ![t] = IF head = Null THEN Null ELSE tail]
    /\ next' = [i \in Load |-> IF i = t THEN Null
                               ELSE IF head # Null /\ i = tail THEN t ELSE next[i]]

\* Faulty variants: the successor's prev stays; the task stays current.
RemoveKeepsPrev(t) ==
    LET p == prev[t]
        s == next[t]
    IN  /\ next' = IF p = Null THEN next ELSE [next EXCEPT ![p] = s]
        /\ prev' = prev
        /\ head' = IF head = t THEN s ELSE head
        /\ tail' = IF tail = t THEN p ELSE tail
        /\ task' = IF task # t THEN task ELSE IF s # Null THEN s ELSE head'

RemoveKeepsCurrent(t) ==
    LET p == prev[t]
        s == next[t]
    IN  /\ next' = IF p = Null THEN next ELSE [next EXCEPT ![p] = s]
        /\ prev' = IF s = Null THEN prev ELSE [prev EXCEPT ![s] = p]
        /\ head' = IF head = t THEN s ELSE head
        /\ tail' = IF tail = t THEN p ELSE tail
        /\ UNCHANGED task

task_list_remove(t) ==
    LET p == prev[t]
        s == next[t]
    IN  /\ next' = IF p = Null THEN next ELSE [next EXCEPT ![p] = s]
        /\ prev' = IF s = Null THEN prev ELSE [prev EXCEPT ![s] = p]
        /\ head' = IF head = t THEN s ELSE head
        /\ tail' = IF tail = t THEN p ELSE tail
        /\ task' = IF task # t THEN task ELSE IF s # Null THEN s ELSE head'

-----------------------------------------------------------------------------
Init ==
    /\ loads = 0
    /\ heap = [o \in Objects |-> 0]
    /\ processes = [s \in Slots |-> Null]
    /\ program = [n \in Load |-> "nothing"]
    /\ current = Null /\ task = Null
    /\ head = Null /\ tail = Null
    /\ prev = [n \in Load |-> Null]
    /\ next = [n \in Load |-> Null]
    /\ halted = FALSE
    /\ stage = [n \in Load |-> "none"]

FreeSlots == {s \in Slots : processes[s] = Null}

\* A faulty variant: the first slot is taken for a free one.
FirstSlot == 0

process_get_free_slot == CHOOSE s \in FreeSlots : \A r \in FreeSlots : s <= r

Begin(n) ==
    /\ ~halted /\ FreeSlots # {}
    /\ loads < MaxLoads /\ n = loads + 1
    /\ loads' = n

\* What process_fill_data can leave of a process just allocated.
Filled(n, file) == process_fill_data(Mallock(heap, Of(n, {"process"})), n, file)

\* No memory for the process, no program, or no memory for the stack: what
\* the process points to is given back.
LoadFails(n, file) ==
    /\ Begin(n)
    /\ \/ UNCHANGED heap
       \/ \E f \in Filled(n, file) :
             heap' = FreeObjects(f.heap, n, IF f.ptr = "nothing" THEN {} ELSE {f.ptr})
    /\ stage' = [stage EXCEPT ![n] = "failed"]
    /\ UNCHANGED <<processes, program, current, task, list, halted>>

\* No memory for the task or its chunk: task_new returns an error that is no
\* null pointer, process_load_to_slot takes it for a task, and reading its
\* chunk at the end of the address space is an exception.
LoadHalts(n, file) ==
    /\ Begin(n)
    /\ \E f \in Filled(n, file) :
          /\ f.ptr # "nothing"
          /\ heap' = Mallock(f.heap, Of(n, {"stack"}))
    /\ halted' = TRUE
    /\ UNCHANGED <<processes, program, current, task, list, stage>>

\* The mapping fails: the function returns at once, its task in the list.
LoadStrands(n, file) ==
    /\ Begin(n)
    /\ \E f \in Filled(n, file) :
          /\ f.ptr # "nothing" /\ MappingFails(file, f.ptr)
          /\ heap' = Mallock(f.heap, Of(n, {"stack", "task", "chunk"}))
          /\ program' = [program EXCEPT ![n] = f.ptr]
    /\ task_list_append(n)
    /\ stage' = [stage EXCEPT ![n] = "stranded"]
    /\ UNCHANGED <<processes, current, task, halted>>

LoadSucceeds(n, file) ==
    /\ Begin(n)
    /\ \E f \in Filled(n, file) :
          /\ f.ptr # "nothing" /\ ~MappingFails(file, f.ptr)
          /\ heap' = Mallock(f.heap, Of(n, {"stack", "task", "chunk"}))
          /\ program' = [program EXCEPT ![n] = f.ptr]
    /\ task_list_append(n)
    /\ processes' = [processes EXCEPT ![process_get_free_slot] = n]
    /\ stage' = [stage EXCEPT ![n] = "held"]
    /\ UNCHANGED <<current, task, halted>>

process_load(n, file) ==
    \/ LoadFails(n, file) \/ LoadHalts(n, file)
    \/ LoadStrands(n, file) \/ LoadSucceeds(n, file)

\* No slot: -ENOMEM.
process_load_refused ==
    /\ ~halted /\ FreeSlots = {}
    /\ UNCHANGED vars

process_switch(n) ==
    /\ ~halted /\ stage[n] = "held"
    /\ current' = n /\ task' = n
    /\ UNCHANGED <<loads, heap, processes, program, list, halted, stage>>

\* A faulty variant: the stack is not given back.
FreeKeepsStack(n) ==
    /\ ~halted /\ stage[n] = "held"
    /\ heap' = FreeObjects(heap, n, {"task", "chunk", program[n]})
    /\ task_list_remove(n)
    /\ stage' = [stage EXCEPT ![n] = "freed"]
    /\ UNCHANGED <<loads, processes, program, current, halted>>

\* Neither its slot, nor current, nor what its program allocated, nor what
\* the NuttleELFFile points to is looked at.
process_free(n) ==
    /\ ~halted /\ stage[n] = "held"
    /\ heap' = FreeObjects(heap, n, {"task", "chunk", "stack", program[n]})
    /\ task_list_remove(n)
    /\ stage' = [stage EXCEPT ![n] = "freed"]
    /\ UNCHANGED <<loads, processes, program, current, halted>>

\* The program that runs allocates (module UserMemory).
ProgramAllocates ==
    /\ ~halted /\ task # Null /\ heap[<<task, "allocation">>] = 0
    /\ heap' = Mallock(heap, Of(task, {"allocation"}))
    /\ UNCHANGED <<loads, processes, program, current, task, list, halted, stage>>

Next ==
    \/ \E n \in Load : \E file \in Files : process_load(n, file)
    \/ process_load_refused
    \/ \E n \in Load : process_switch(n)
    \/ \E n \in Load : process_free(n)
    \/ ProgramAllocates

Spec == Init /\ [][Next]_vars

-----------------------------------------------------------------------------
(* Properties.                                                             *)

Stages == {"none", "failed", "stranded", "held", "freed"}

\* Pointers point to loads or nowhere, objects are counted.
TypeOK ==
    /\ loads \in 0 .. MaxLoads
    /\ heap \in [Objects -> Int]
    /\ processes \in [Slots -> Load \cup {Null}]
    /\ program \in [Load -> {"nothing", "elf", "binary"}]
    /\ {current, task, head, tail} \subseteq Load \cup {Null}
    /\ prev \in [Load -> Load \cup {Null}] /\ next \in [Load -> Load \cup {Null}]
    /\ halted \in BOOLEAN
    /\ stage \in [Load -> Stages]

\* The tasks reached from head along next: they are in every set that has
\* head and, of each of its tasks, the next.
ClosedUnderNext(S) == {head} \cup {next[t] : t \in S} \subseteq S \cup {Null}
Listed == {t \in Load : \A S \in SUBSET Load : ClosedUnderNext(S) => t \in S}

\* The way from head along next, as far as there are other tasks on it.
Order ==
    CHOOSE o \in [1 .. Cardinality(Listed) -> Listed] :
        \A k \in DOMAIN o : o[k] = IF k = 1 THEN head ELSE next[o[k - 1]]

Cycle == INSTANCE TaskCycle
    WITH Task <- Load, NoTask <- Null, order <- Order, running <- task

\* The doubly linked list with head, tail and current is the sequence of the
\* tasks in the order of their creation, whichever is taken out of it.
CycleSpec == Cycle!Spec

\* And backwards: prev undoes next, and tail is where next ends.
PrevIsBack ==
    /\ \A t \in Listed : IF next[t] = Null THEN tail = t ELSE prev[next[t]] = t
    /\ head # Null => prev[head] = Null
    /\ head = Null <=> tail = Null

\* No object is freed twice, or freed without having been allocated, on any
\* path through a failing load and any order of frees.
FreedOnce == \A o \in Objects : heap[o] \in {0, 1}

\* A process that its loader returned has everything that it runs on, and
\* one slot of the table to itself.
HeldComplete ==
    \A n \in Load : stage[n] = "held" =>
        /\ program[n] # "nothing"
        /\ \A kind \in {"process", "stack", "task", "chunk", program[n]} : heap[<<n, kind>>] = 1
        /\ Cardinality({s \in Slots : processes[s] = n}) = 1

\* The list and current never lead to a task that was freed.
ListedLive ==
    /\ \A t \in Listed : \A kind \in {"task", "chunk", "process"} : heap[<<t, kind>>] = 1
    /\ task # Null => task \in Listed

\* What process_load took for the process itself is given back, once each, on
\* every path through a failing load and by process_free.  The formula claims
\* nothing of the open file, of what a NuttleELFFile points to, of a binary
\* read short, or of the program's allocations: process_free never looks at
\* the table of these, although process.h:36-38 promises it (README).
ProcessGivenBack ==
    \A n \in Load :
        /\ stage[n] \in {"failed", "freed"} =>
              \A kind \in {"process", "elf", "stack", "task", "chunk"} : heap[<<n, kind>>] = 0
        /\ stage[n] = "freed" => heap[<<n, "binary">>] = 0
=============================================================================
