# AsifOS: models, checks and proofs

AsifOS is a 32-bit kernel for the i386 in C and nasm. It boots from disk, sets
up paging, a heap, a FAT16 file system, the interrupt table and a PS/2
keyboard, loads one ELF program (`SHELL.ELF`) and runs it in user mode. From
then on everything the kernel does is the answer to an interrupt: `int 0x80`
from the program, or a hardware line through two 8259A PICs.

This directory holds TLA+ modules for the parts of the kernel whose correctness
depends on order, sharing or boundaries, TLC configurations that check them on
small instances, and TLAPS proofs for every value of their constants. Paths
below are relative to `src/kernel/` of the repository unless they start with
`programs/` or `src/`.

## 1. The system

### Components

| component | code | state | operations |
|---|---|---|---|
| kernel heap | `heap/heap.c`, `heap/kheap.c`, `stdkern/kernmem.c` | one table byte per 4 KB block, 25600 of them, at 0x7e00 | `mallock`, `zmallock`, `freek` |
| keyboard buffer | `keyboard/keyboard.c` | per process `head`, `tail`, `size` and 1024 events | `keyboard_push`, `keyboard_pop`, `keyboard_backspace` |
| PS/2 driver | `keyboard/ps2.c` | the scan code table; the controller's output | interrupt handler, initialisation |
| interrupts | `interrupt/*` | IDT, `interrupt_callbacks`, the PICs' request and in-service bits, the kernel stack | `interrupt_handler`, `acknowledge_int`, registration |
| system calls | `isr80h/*` | the command table, `tmp_value` | `isr80h_handler` and eight commands |
| user memory | `task/process.c`, `paging/paging.c` | page tables per task, `allocations[1024]` per process | `process_alloc_malloc`, `process_alloc_free` |
| processes, tasks | `task/process.c`, `task/task.c` | `processes[16]`, a doubly linked task list, two variables `current` | load, switch, free, run |
| files | `fs/fs.c`, `fs/file.c`, `fs/pparser.c` | `file_descriptors[512]`, registered file systems | open, read, seek, stat, close |
| FAT16 | `fs/fat16.c` | two streams, the root directory, per-descriptor position | resolve, open, read, seek, stat, close |
| disk | `disk/disk.c`, `disk/stream.c` | stream position | read blocks (polled), seek, read |
| ELF loader | `elf/loader.c` | the loaded image, its program headers and NOBITS memory | load, free |
| terminal | `tty.c`, `stdkern/kernio.c` | cursor index, video memory | put, remove, clear |
| start-up | `kernel.c`, `main.asm`, `gdt/*`, `task/tss.*`, `src/boot/boot.asm` | hardware tables | straight-line initialisation |
| user library | `programs/stdlib`, `programs/shell` | the line being read | system call stubs, `readline`, `printf` |

### How they interact

* A program enters the kernel through gate 0x80, an interrupt gate: interrupts
  stay off until its `iret`. Every other gate is a trap gate, so a hardware
  handler runs with interrupts on and is interrupted by more urgent lines
  before its end of interrupt and by any line after it.
* Every entry loads the kernel's segments and page directory and reloads the
  task's before it returns, whatever it interrupted.
* The keyboard's handler pushes into the buffer of `process_current()`; the
  getkey command pops from the buffer of `task_get_current() -> process`.
  `process_switch` sets both.
* Kernel and programs share one heap. A program's block is also mapped into its
  chunk, two pages below its physical address, and recorded in its process.
* There is no scheduler: `process_switch` is called once, at start-up, although
  processes, tasks and keyboard buffers exist per process. The models allow
  several processes and a switch between calls, because that is what these
  structures are for.

### What is hard about it

Nesting of handlers that share one CPU state; non-specific end of interrupt;
a ring buffer shared between an interrupt and a system call, without a lock; an
allocator whose blocks carry their own boundaries and whose scan counts from
the second block; a page table read back to find what to free; error values
that are pointers, and not recognised as such; error paths that return half of
what was done; a device whose answers are read without waiting for them; arrays
of directory entries without an end mark. `PROJECT.json` lists each at its line
under "hazards".

## 2. The modules

| module | models | extends or instantiates |
|---|---|---|
| `HeapTable` | the block table and heap.c's functions on it, as operators | |
| `KernelHeap` | the heap and its callers, one action per call | `HeapTable`; `BlockAllocator` as `Allocator` |
| `BlockAllocator` | what an allocator promises, without a table | |
| `HeapLoops` | the three loops of heap.c, one action per iteration | `HeapTable` |
| `Keyboard` | controller, handler, buffers and readers | `KeyQueue` as `Queues` |
| `KeyQueue` | what a keyboard buffer promises: a bounded queue | |
| `Interrupts` | PICs, gates, the kernel stack of handlers, system calls | |
| `UserMemory` | programs' allocations, page tables and the shared heap | extends `KernelHeap` |
| `Processes` | loading, switching and freeing processes, the ELF loader, the task list | `TaskCycle` as `Cycle` |
| `TaskCycle` | what the task list promises: a sequence with a running task | |
| `Fat` | the file allocation table: the next cluster of a chain | |
| `FatFile` | reading a file along its cluster chain, over the disk streams | `Fat` |
| `Directory` | finding a file by its path: the search of the root and of subdirectories | `Fat` |
| `FileTable` | mounting, path parser, descriptors, open, stat and close | `Directory` |
| `Ps2Init` | the PS/2 driver's initialisation against controller and device | |
| `Terminal` | the screen, `readline` and the shell's loop | |
| `MemoryProofs` | theorems | `UserMemory` (and with it `KernelHeap`), `TLAPS` |
| `FileProofs` | theorems | `FileTable` and `FatFile`, `TLAPS` |
| `HeapLoopsProofs`, `KeyboardProofs`, `InterruptsProofs`, `ProcessProofs`, `TerminalProofs`, `Ps2InitProofs` | theorems | the module they are about, `TLAPS` |
| `MC...` | constants for TLC | the module they are named for |

Faulty variants of operations (named for the fault, with a comment) stand
before the operation they vary. They are never part of a specification; each
shows that a property fails when the code is wrong in that way.

**HeapTable, KernelHeap.** An entry is the set of its flags TAKEN, HAS_NEXT,
IS_FIRST. `ENTRY_LAST` is the code's: taken and not both of the others. That
makes a middle entry (HAS_NEXT alone) look last, so a free of three or more
blocks stops at the second. `heap_get_start_block` is the first run of free
entries that is one longer than asked, or the run at the end of the table.
`Slots` goes on past the table, because C does: the last run may be shorter
than the allocation. `live` is what the callers hold.

**HeapLoops.** The operators of `HeapTable` are not the loops of heap.c but
what they compute. This module has the loops, with their indices and counters
(`bs`, `bc`, the `blocks -= 2` countdown), and its properties say that both
agree from any table.

**Keyboard.** A key is the number of its press, so order and duplication show.
`front` stands for both variables `current`, which `process_switch` sets together.
The handler reads the data port twice: the second read may swallow the next
code. A full buffer drops the key. `lastRead` is a history variable.
`keyboard_backspace` is exported but not called, and not modelled. (It moves
`tail` and leaves `size`; a caller would break `RingInv`.)

**Interrupts.** A frame is one entry into the kernel: its interrupt, the
operations its handler has still to run (`todo`) and the IF to return to. The
handlers are the sequences the code calls (`kernel_page`, `task_store_frame`,
the callback, `acknowledge_int`, `task_page`), and between any two operations a
line can be delivered if IF and the PICs allow. The PICs are external: requests
in `requested`, lines in service in `master` and `slave`, fully nested
priorities, line 2 of the master for the whole slave, and an end of interrupt
that retires the most urgent line in service.

**UserMemory.** Addresses are page numbers. `process_alloc_malloc` takes the
first free slot, a heap block, maps it and records it; `process_alloc_free`
finds the address among the slots, reads the frame back from the page table,
frees it, maps the pages to themselves for the kernel, and frees the slot. The
heap's part of each action is the action of `KernelHeap` itself or the call of
`heap_mark_block_free` the code makes; `Spec` is the heap's specification and
`UserSpec` this module's. `HeapUsedWell` says that a free takes back one grant,
and a program's free one of its own. `process_alloc_free_null` is the exception to
"freek gets only what mallock returned": it hands freek an error value, which
changes neither the table nor a grant but may clear a byte in front of the table
(`stray`, run user_memory_null). `held` is a history variable: what each
program was given and has not freed.

**Processes.** An object is a load and a kind (its process, image, stack, chunk,
...) and `heap` counts its allocations less its frees. What a file is like and
where memory runs out are chosen freely; each loader function is an operator
that yields the set of its outcomes, and `process_load` has one action per kind
of result. `LoadStrands` is the `return res` of process.c:217, which skips
`process_free`; `LoadHalts` is an error pointer taken for a task (process.c:204).
`task_list_append` and `task_list_remove` are the pointer updates of task.c.
`process_free` is given only processes that their loader returned. The code calls
it inside `process_load_to_slot`, which is part of the loads here, and at the end of
`kernel_main` (kernel.c:170) for the process it has run, which is never reached:
`task_run` does not return.

**FatFile.** A byte of the disk is its address, so a copied byte shows where it
was read. One action is one round of `fat16_read`'s loop with the sector read and
the change of cluster inside it. The `FAT` is any function, so chains may be
circular, broken or cross into free clusters. `ClusterAt` and `FileByte` are what
the file is, without buffers or streams. A position is what `fat16_seek` sets from
the start of the file; its other modes are not modelled, and nobody in the
repository calls seek. Its specification is `ReadSpec`, of
`readVars`, so that one module can be about it and `FileTable`. What both need of
the table itself is in `Fat`.

**Directory, FileTable.** Every allocation is an object with the number of the
`file_open` it was made for, and `heap` is the set of them; one allocation, any
one, fails. A pointer is what it points to, and where the code uses an error
code, null or a freed pointer as an item, the model stops with a `fault`: what
follows is undefined. The search is modelled turn by turn, the reading of a
subdirectory sector by sector, because the faults are in the loops: a deleted
entry of the root is looked at for ever; the last sector of a directory's chain
is read and not looked at; a sector fills half of `dir[32]`, and what is above
it (`Uppers`, at most one entry) is taken for entries; the array has no end mark
(`ItemsAt`), so a search may go on into what memory holds there (`Leftover`). `Lookup`
is what a path names on the disk, without any of this. The caller keeps what
`file_open` returned, and may close it, error codes included, as
`process_load_binary` does. `OpenedIsNamed` and `GoodOpenSucceeds` together say
when a file is found; `Findable` states the code's unwritten demands: names
shorter than eight characters, no deleted entry of the root in front, and each
entry in the first sector of its directory but not in the last.

**Ps2Init.** One action is one access to a port. The device answers a command
with an acknowledgement and what belongs to it, or asks for it again; a prompt
device has answered when the driver reads, any other answers whenever it
likes, and until then the data port holds the byte before. No read of the code
waits for the status bit. The driver gets over three resend requests of the
commands it waits for and one of the reset (`Bearable`): the acknowledgement
takes one of `ps2_keyboard_reset`'s three tries, and after three tries it
returns success without having seen the answer to the self-test. `keyboard_init`
ignores the result, so a refused keyboard only leaves its callback unregistered.

**Terminal.** One action per character put or key taken. `typed` is a history
variable, the line as the user means it: a character appends, Backspace takes
back the last. `cleared` says whether the screen was cleared since the prompt.

### Why one action is one call

`Interrupts` justifies the grain of the others. A system call is alone in the
kernel with interrupts off, and no two handlers are inside `keyboard_push` or a
command together (`CallsExclusive`); and no hardware handler allocates. So
`Malloc`, `Free`, `keyboard_push`, `keyboard_pop` and the commands are atomic to
each other. Files are opened and the keyboard is initialised before the first
program runs, with interrupts off: these modules are finer only because their
loops and the device are what they are about.

## 3. The runs

| run | cfg | instance | shows |
|---|---|---|---|
| heap_three | `KernelHeap_three` | 6 blocks, requests of up to 3 | grants are disjoint, with leaked tails around calls still touch only their own entries; refines `BlockAllocator` |
| heap_leak | `KernelHeap_leak` | 6 blocks, up to 3 | violation: a freed allocation of 3 leaves a taken block nobody owns |
| heap_loops | `HeapLoops_all` | 4 blocks, every table of arbitrary flags, up to 3 | loops and operators agree, and every call returns |
| keyboard_two | `Keyboard_two` | 2 processes, buffers of 3, 6 presses | order, no duplicates, well-formed rings; refines `KeyQueue` |
| interrupts | `Interrupts_three` | timer, keyboard and disk (slave) | see below |
| user_memory | `UserMemory_two` | 2 programs with 2 slots, 3 blocks, up to 2 | programs reach exactly their own blocks and free only these; every taken block is owned and a request is refused only while the heap's last block is held |
| user_memory_null | `UserMemory_null` | 1 program | violation: `free(NULL)` writes before the heap's table |
| processes | `Processes_three` | 3 slots, 3 loads | nothing is freed twice, loaded processes are complete, what was taken for a process is given back; the task list refines `TaskCycle` |
| file_read | `FatFile_two` | 2 clusters of 2 sectors of 3 bytes, sizes up to 13 | a read delivers the file's bytes in order, short only at the chain's end |
| files | `FileTable_two` | 6 disks, 9 paths, 3 opens, 2 descriptors, 1 failing allocation | a good path is found, no other file is opened, handles reach their own file, what a call leaves is bounded, an open returns |
| ps2_init | `Ps2Init_all` | every kind of device, 4 refusals per command, 2 keys waiting | what becomes ready, that a device is identified only when it is silent, that initialisation returns |
| terminal | `Terminal_two` | 3 rows of 4, lines of up to 5, 2 characters | buffer and screen show the line as edited |

*Interrupts* checks that a line is in service exactly while a handler owes its
acknowledgement (`InServiceIsOwed`, so that no end of interrupt is spent on
another's line), that the program always resumes on
its own page and segments with interrupts on (`ProgramContext`), the facts of the
last section (`CallsExclusive`), and that every request is taken
(`RequestsTaken`).

The two violations are of what comments of the code say: that the last entry marked
is "the very last block of the allocation" (heap.c:91; a free stops at a middle
one), and that a free checks the owner (process.c:400; `free(NULL)` passes).

Three more disagreements of code and comments are in the models, and no property
claims that the comment holds:

* The allocations table is kept "so that if the user program forgets to free the
  memory, the kernel can handle it to prevent memory leaking" (process.h:36-38).
  `process_free` does not look at it: after `ProgramAllocates` and `process_free`
  the program's allocation is still in `heap`. `ProcessGivenBack` is of what was
  taken for the process itself.
* Deleted entries are to be ignored (fat16.c:90-91). The search of a directory takes
  the same one again, for ever; `OpenReturns` and `GoodOpenSucceeds` are of disks
  without one in the way (`DeletedInTheWay`, `Findable`).
* Interrupt gates are "useful for handling hardware interrupts, as it disables all
  types of interrupts while processing an interrupt" (interrupts.c:57-59). Every line
  has a trap gate. The timer may interrupt the keyboard's handler and leave it on the
  task's page directory, on which `keyboard_push` then runs; `ProgramContext` is of
  the return to the program only.

What else the models show to be otherwise than a reader might expect is part of the
modules, and the properties say how far it goes: the last run of free blocks is
granted however short it is, so an allocation may extend past the heap
(`heap_get_start_block`; `AllocatorSpec` promises only that it starts inside); a
failed load leaves parts of an ELF program, and every load its open file; a null
descriptor, an unset path and error pointers are used (`fault`); a keyboard that
failed its self-test may become ready (`AnswersDecide`).

The type invariants are in no run: each is proved (`TypeOK` of `FileTable` and
`ReadTypeOK` of `FatFile` are stated in `FileProofs`).

### Bounds, and why they are enough

* Heap: six blocks hold two allocations of the largest size with holes between
  them, a leaked tail and a short run at the end. The proofs remove the bound.
* Keyboard: six presses fill a buffer of three twice, so it wraps while full;
  the controller holds two codes, so the second read can lose one. The proofs
  remove the bound.
* Interrupts: each line may be pending when the program starts, and timer and
  keyboard ask once more. Handlers nest three deep and a line can come back
  between its acknowledgement and its `iret`. `Requests` bounds the depth of
  the stack, which the code does not.
* UserMemory: two slots, so a table can be full; three blocks, so that the
  last allocation may pass the end.
* Processes: three tasks are the fewest with a first, a middle and a last one
  to remove; every load takes every way through the loader. No run reaches a
  freed slot again, because `process_free` empties none; with as many loads as
  slots the table fills.
* FatFile: two clusters make every shape of a chain (one, two, circles of one
  and two, broken ones); sectors of three bytes separate the offsets 0, 1 and
  others; sizes go past two clusters and past the end of the chain. The proofs
  remove the bounds.
* FileTable: each disk has one of the shapes the search distinguishes (deleted
  entries, full root, full sector, entries in the last sector, a chain of
  clusters, a directory in a directory, one sector, no FAT16), each path one of
  those the parser does. Two descriptors and three opens fill the table and reuse
  a slot; `MaxFailures` puts one failing allocation at every place; `MaxBeyond`
  lets one leftover entry be met behind an array. The proofs remove the bounds on
  what is allocated and who reaches it.
* Ps2Init: four refusals are one more than the driver bears; two keys wait, of
  which one is in the controller's buffer when the port is enabled.
* Terminal: a line of five crosses the end of a screen of twelve at every place,
  and fills the buffer. The proofs remove the bound.

### Fairness

`HeapLoops`, `FileTable` (`Continue`) and `Ps2Init` (`Driver`) assume that the CPU
executes the call it has begun; `Ps2Init` also that a byte on its way arrives
when there is room. Nobody must open, close or type. `FairSpec` of `Interrupts`
has weak fairness of the running handler's next operation, and strong fairness
of the delivery of a line: a line is not deliverable during a system call, but
the CPU looks at every instruction boundary, so it is taken when it is
deliverable again and again. Devices and programs are under no fairness. That
every request is taken depends on the bounded requests: a timer that always asks
again before its handler has returned would keep less urgent lines waiting.

## 4. The proofs

All proofs are for any constants the `ASSUME`s allow.

**MemoryProofs, the heap.** The inductive invariant is `TypeOK /\ LiveDisjoint /\ LiveMarked`.
Disjointness alone is not inductive: a free could clear entries of a neighbour,
and the scan would then grant them again. `LiveMarked` prevents that: the entries
of a held allocation end, for `ENTRY_LAST`, inside it, so `Cleared` is a subset
of its extent. In the other direction `Candidates` contains only free entries
as far as the table goes, and no held allocation reaches further than the one
at the table's end. From it: `GrantsDisjoint`, `GrantsMarked`, `CallsAreLocal`,
`ImplementsAllocator`. For `MaxBlocks <= 2`, where the middle entry does not
exist, `NoLeakUpToTwoBlocks` and `RefusalIsJustified` add that a free releases
everything; the run heap_leak is the counterexample for three.

**HeapLoopsProofs.** The loop invariants (`ScanInv`, `MarkInv`, `FreeInv`), one
per loop, and from them `ScanCorrect`, `MarkCorrect`, `FreeCorrect`: what the C
loops compute, for any table. These connect heap.c's statements to the
operators all other modules use.

**KeyboardProofs.** `TypeOK /\ RingInv` is inductive. `PlacesDiffer` (no two of
the first `Max` places of a ring coincide) gives `PushAppends` and `PopTails`:
writing at `tail` appends to what the ring holds, and moving `head` drops its
first element. `ImplementsQueues` follows. `KeysReadInOrder` is about numbers of presses:
`Pipeline(p)` is the key last read, the buffer and the controller's codes, one
behind the other. It needs `OrderInv`: each pipeline ascends, the scan codes that
are no keys aside (`Ordered`); nothing in it was pressed later than the last press
(`Pressed`); and the keys in different buffers differ (`Apart`), because a key
leaves the controller into at most one of them.

**TerminalProofs.** `TypeOK`, `LineIsTyped` and `BlankBehindCursor` are inductive
together with `EchoInLine`: the echo has not passed the NUL, so it reads only what
`readline` wrote. `Screen(s, n)` and `Holds(b, n, t)` say the two halves of the
invariant of values, and a lemma per operation (put, new line, erase; append,
take back, end) preserves them. `RowFits` is the arithmetic of a new line: a row
that begins on the screen ends on it. `LineSeen` follows: `LineOnScreen` is kept
by every step from a state of the invariant.

**Ps2InitProofs.** `InSilence`: the device is identified only when it has stopped
sending keys. That an acknowledging device is silent is not inductive, because
the driver sees the acknowledgement later, behind the keys that waited. The
invariant says where it may be: while the driver waits for the first, any on the
way or in the data port is of a device that has stopped (`AckMeansSilence`), and
what a device that has stopped had waiting is gone (`NoKeyWaits`). The theorem is
for any number of refusals and of waiting keys. `OutcomeDecided`: the answers
decide what `ps2_init` returns. `Queue` is what a prompt device's driver reads
next, one byte after another, and `LockStep` says at every place of the driver
which bytes these are and how `count` follows from the refusals, as long as the
refusals can be borne. A key may stand in front of the first acknowledgement only
(it was in the controller already), and is then the reason why one refusal is one
too many; keys may stand behind a refusal, and behind the self-test, which turns
scanning on. `OnlyKeyboards` (the byte that names a keyboard is on the way from one
only) needs neither promptness nor a bound on refusals.

**MemoryProofs, programs over the heap.** `UserInv` is the heap's invariant and, for every process,
`Holds` of its page table, its allocations table and its grants: the pages at
which its grants are seen are mapped to them and all others to themselves
(`Maps`), and the slots in use are the grants, one each (`Names`). A free needs
both, because `process_alloc_free` goes from an address over the table and the
page to a block and never asks the heap whose it is. `Holds` speaks of the
values of one process, and a lemma per operation preserves it. `ReachesOwn`,
`TableTruthful` and `ProgramsIsolated` are read off it (the last with the heap's
`LiveDisjoint`). `OwnGrantFreed` is `HeapUsedWell`: `FreedIsNamed` finds the grant
behind the address that a free was given. `HeapImplemented` says that, seen from the
table and the grants, every step of `UserSpec` is one of the heap's `Spec` or none (as
free(NULL) is, which hands freek an error value); with it the heap's theorems hold of
the whole, and `NothingLost` and `RefusedWithReason` are two of them.

**InterruptsProofs.** What a frame has still to do is told by its interrupt and the
number of operations left (`StepAt`, `InHandler`). An end of interrupt names no
line; the chip retires the most urgent one in service. That this is the line of
the handler that sends it is `InServiceIsOwed`, and it follows from `Nested`: the
frames that still owe one are on the stack in the order of urgency, since only a
more urgent line is delivered while one is in service. `Context` asks for the
program's pages and segments only in the last operations of the running handler:
what a nested handler did to them, its own last operations undo. `CallsAlone`
(a system call is the only frame, and interrupts are on exactly when there is
none) gives `CallsAreExclusive`. The proof is for any set of lines without the
cascade and any number of requests; so the grain of the other modules (section 2)
rests on a theorem.

**ProcessProofs.** The invariant avoids following pointers: `Linked` says by the
numbers of loads which task is first, last, before and behind which, of the set
`InList` of loads that were put in and not taken out. `ListedIs` shows that the
tasks reached from `head` along `next` are exactly this set; it argues with the
least task that is not reached (`LeastNumber`), which takes the place of an
induction. `HeapInv` says, by the stage of a load, which of its objects are
allocated; `ElfLoads`, `BinaryLoads` and `FileLoads` carry it through every
outcome of the loader. `SlotInv` is the table of processes. From them
`ListWellLinked`, `ListIsLive`, `NothingFreedTwice`, `HeldIsComplete` and
`GivenBack`. `ImplementsCycle` is the refinement: the sequence of the list is
the tasks sorted by number (`Sorted`), that is the only way along `next` from
`head` (`OneWay`), appending and removing keep it so, and the successor that
`task_list_remove` makes current is the next of the sequence, or the first.

**FileProofs, opening and closing.** What is allocated is said call by call.
`Left` is what is allocated with a call's number, `Rest` that without its path. While
the call is executed `Rest` is what the place of the search says (`Searched`),
perhaps with the one PathPart too many (`WithSpare`); a call that has returned is
`Settled`: it has its file's objects, or those of a file without a descriptor, or
nothing. No step touches an object of another call (`OnlyOwn`), which is what makes
this a local argument. `Ahead` says that calls to come, and the one executed, are in
no slot and hold nothing; `Linked` that table and holders name each other as long as
no open has failed to get a descriptor. From them `HandlesReached` and `LittleLeft`,
for any disks, paths, left-over entries, table size and number of calls.
`OpenedByName` is what holds of the file found whatever the disk looks like: its
entry is a file's and matched the last part, and no part is missing unless memory was.

**FileProofs, reading.** `CopiedIsFile` is not inductive: that the next sector comes
from the right place needs `Placed`, by which the stream stands `count` bytes behind
the start of the j-th of the file's clusters, and j clusters and `count` bytes are
what has been passed. `AllDelivered` is the arithmetic of `diskstream_read`: a round's
bytes all arrive, except from the second byte of a sector, which is the exception the
property makes; `RoundFits` that a round stays in its cluster. `Whole` adds, for a
read from the start of a sector, that rounds and bytes to do agree (`SectorRounds`),
and that the read is still in front of the last sector of every end of the chain.
`ClusterAt` is defined by recursion; that it is what its equation says is `ChainIs`,
from a function that satisfies the equation, put together from ever longer
beginnings (`IterateExists`), and that nothing follows an end of the chain is
`NoneBehindEnd`, both by the least number for which they could fail. The theorems
are for every table, so for circular and broken chains too, and for any sizes of
sectors (two bytes at least), clusters and files.

Only model-checked:

* liveness (`Returns`, `RequestsTaken`, `OpenReturns`, `InitReturns`), which is beyond the prover;
* `OpenedIsNamed` and `GoodOpenSucceeds` of `FileTable`. They compare the search with
  `Lookup`, three recursions in one another (the chain, the sectors of a directory,
  the parts of a path) over sequences that the loops put together with `SelectSeq`,
  an operator that takes an operator, of which the provers know nothing; the proof
  would be one by induction over these data. They also hold only of disks on which
  nothing follows a directory's end mark. `OpenedByName` is the part of the first
  that does not need it.

## 5. Plan

What was planned is done: the models of the parts listed in section 1, their checks,
and proofs about each of them. Left is `OpenedIsNamed` for any well-formed disk: with
the entries in use of a sector written as a function, a lemma that `copied` is what
has been read so far of `Listing`, then one that the first match in it is
`EntryNamed`.

## 6. Not modelled, and why

* Boot loader, GDT, TSS and IDT encodings: written once, before anything
  concurrent starts, and a matter of bit layouts.
* Port I/O of the disk, cursor and PIC initialisation: pure I/O.
* `printf`, string functions, the scan code tables: formatting and data.
* CPU exceptions, spurious interrupts, and software interrupts on other gates:
  no code of the kernel is written for them.
* CPU exceptions with an error code return through the wrapper that leaves the
  code on the stack (interrupt/idt.asm:46); no handler of the kernel lets one
  return.
* The entries `.` and `..`, a directory whose cluster chain is circular (the
  count of its entries would not end), path parts of 4096 characters, and what
  happens after a `fault`.
* `fs/fs.c`'s table of file systems, `keyboard.c`'s list of drivers: one of each
  is ever inserted.
* Reads that begin behind a file's first cluster: the code computes with a
  negative count (fat16.c:258); all readers start at 0.
* What the kernel overwrites after an unchecked allocation failed (the ELF
  image, a chunk's tables): undefined.
