----------------------------- MODULE UserMemory -----------------------------
(***************************************************************************)
(* Memory of user programs: process_alloc_malloc and process_alloc_free    *)
(* (system calls 4 and 5), the page tables they edit, and the kernel heap  *)
(* (module KernelHeap) that they share with the kernel's own callers.      *)
(*                                                                         *)
(* Addresses are page numbers.  The user's heap begins at page UserHeap,   *)
(* the physical heap at page KernelHeapStart, and block i of the heap is   *)
(* seen by its program i pages into the user's heap.  One action is one    *)
(* system call (they do not overlap, module Interrupts).                   *)
(*                                                                         *)
(* The heap's variables, calls and properties are KernelHeap's: Init, Next *)
(* and Spec are the heap alone, UserInit, UserNext and UserSpec the whole. *)
(***************************************************************************)
EXTENDS KernelHeap, Integers

CONSTANTS
    Processes,
    MaxAllocations,      \* NUTTLE_MAX_USER_ALLOCATIONS
    UserHeap,            \* NUTTLE_USER_HEAP_VIRT_ADDR / PAGING_SIZE
    KernelHeapStart      \* NUTTLE_KERNEL_HEAP_START / PAGING_SIZE

ASSUME UserMemoryConstants ==
    /\ MaxAllocations \in Nat \ {0}
    /\ UserHeap \in Nat \ {0}
    /\ KernelHeapStart \in Nat /\ UserHeap < KernelHeapStart

VARIABLES
    pages,               \* the page table of each process's task
    allocations,         \* process -> allocations
    running,             \* the process of the current task
    held,                \* history: what each program was given, not yet freed
    stray                \* the byte NUTTLE_HEAP_BLOCK_SIZE before the table

userVars == <<pages, allocations, running, held, stray>>
allVars == <<vars, userVars>>

Pages == 0 .. KernelHeapStart + HeapBlocks + MaxBlocks - 2
Indices == 0 .. MaxAllocations - 1
NoAddr == 0

-----------------------------------------------------------------------------
(* paging.c                                                                *)

\* paging_get_new_4gb_chunk: the identity, for the kernel alone.
paging_get_new_4gb_chunk == [v \in Pages |-> [frame |-> v, user |-> FALSE]]

\* A faulty variant: the loop maps one page more.
MapOnePageMore(table, virt, start, end, user) ==
    [v \in Pages |-> IF v \in virt .. virt + (end - start)
                     THEN [frame |-> start + (v - virt), user |-> user]
                     ELSE table[v]]

\* Pages from virt on get the frames start .. end - 1.  paging_map refuses
\* address 0, which ends the loop.
paging_map_to(table, virt, start, end, user) ==
    [v \in Pages |-> IF v \in virt .. virt + (end - start) - 1 /\ virt # 0
                     THEN [frame |-> start + (v - virt), user |-> user]
                     ELSE table[v]]

paging_get_physical_addr(table, virt) == table[virt].frame

-----------------------------------------------------------------------------
(* process.c                                                               *)

\* The slots whose address is addr; the code takes the first.
SlotsOf(p, addr) == {i \in Indices : allocations[p][i].addr = addr}
First(slots) == CHOOSE i \in slots : \A j \in slots : i <= j

process_calculate_pages(size) == get_total_block(size)

UserInit ==
    /\ Init
    /\ pages = [p \in Processes |-> paging_get_new_4gb_chunk]
    /\ allocations = [p \in Processes |-> [i \in Indices |-> [addr |-> NoAddr, pages |-> 0]]]
    /\ running \in Processes
    /\ held = [p \in Processes |-> {}]
    /\ stray \in Entry

\* The kernel allocates and frees for itself: processes, tasks, page tables,
\* programs, stacks, paths and file descriptors.
KernelMalloc(size) == Malloc(size) /\ UNCHANGED userVars
KernelFree(a) ==
    /\ \A p \in Processes : a \notin held[p]
    /\ Free(a) /\ UNCHANGED userVars

\* A block is allocated, mapped for the program and recorded in the first
\* free slot.
process_alloc_malloc(size) ==
    LET p == running
        slots == SlotsOf(p, NoAddr)
        start == heap_get_start_block(entries, get_total_block(size))
        virt == UserHeap + start
        ptr == KernelHeapStart + start
    IN  /\ slots # {}
        /\ Malloc(size)
        /\ pages' = [pages EXCEPT ![p] =
              paging_map_to(@, virt, ptr, ptr + get_total_block(size), TRUE)]
        /\ allocations' = [allocations EXCEPT ![p][First(slots)] =
              [addr |-> virt, pages |-> process_calculate_pages(size)]]
        /\ held' = [held EXCEPT ![p] = @ \cup (live' \ live)]
        /\ UNCHANGED <<running, stray>>

\* NULL: the program holds MaxAllocations, or the heap has no block.
process_alloc_malloc_fails(size) ==
    /\ SlotsOf(running, NoAddr) = {} \/ MallocFails(size)
    /\ UNCHANGED allVars

\* Faulty variants: the mapping stays; the slot stays taken.
FreeKeepsMapping(virt) ==
    LET p == running
        block == paging_get_physical_addr(pages[p], virt) - KernelHeapStart
    IN  /\ virt # 0 /\ SlotsOf(p, virt) # {}
        /\ entries' = heap_mark_block_free(entries, block)
        /\ live' = {a \in live : a.start # block}
        /\ held' = [held EXCEPT ![p] = {a \in @ : a.start # block}]
        /\ allocations' = [allocations EXCEPT ![p][First(SlotsOf(p, virt))].addr = NoAddr]
        /\ UNCHANGED <<pages, running, stray>>

FreeKeepsSlot(virt) ==
    LET p == running
        slot == First(SlotsOf(p, virt))
        block == paging_get_physical_addr(pages[p], virt) - KernelHeapStart
    IN  /\ virt # 0 /\ SlotsOf(p, virt) # {}
        /\ entries' = IF block \in Slots THEN heap_mark_block_free(entries, block)
                                              ELSE entries
        /\ live' = {a \in live : a.start # block}
        /\ held' = [held EXCEPT ![p] = {a \in @ : a.start # block}]
        /\ pages' = [pages EXCEPT ![p] =
              paging_map_to(@, virt, virt, virt + allocations[p][slot].pages, FALSE)]
        /\ UNCHANGED <<allocations, running, stray>>

\* A faulty variant: nobody asks whether the address is the process's own.
FreeUnchecked(virt) ==
    LET p == running
        block == paging_get_physical_addr(pages[p], virt) - KernelHeapStart
    IN  /\ block \in Slots
        /\ entries' = heap_mark_block_free(entries, block)
        /\ live' = {a \in live : a.start # block}
        /\ held' = [held EXCEPT ![p] = {a \in @ : a.start # block}]
        /\ pages' = [pages EXCEPT ![p] = paging_map_to(@, virt, virt, virt + 1, FALSE)]
        /\ UNCHANGED <<allocations, running, stray>>

\* Address 0 names every free slot.  It has no physical address, the error
\* value goes to freek instead, and its block number is -4096: the byte that
\* many entries before the table is cleared if it looks taken.
process_alloc_free_null ==
    /\ SlotsOf(running, NoAddr) # {}
    /\ stray' = IF ENTRY_TAKEN(stray) THEN FREE ELSE stray
    /\ UNCHANGED <<vars, pages, allocations, running, held>>

\* An address of the running process's allocations table: its frame is
\* freed, its pages map themselves again, its slot is free (with its number
\* of pages still in it).  Any other address is ignored.
process_alloc_free(virt) ==
    LET p == running
        slot == First(SlotsOf(p, virt))
        block == paging_get_physical_addr(pages[p], virt) - KernelHeapStart
    IN  /\ virt # NoAddr /\ SlotsOf(p, virt) # {}
        /\ entries' = heap_mark_block_free(entries, block)
        /\ live' = {a \in live : a.start # block}
        /\ held' = [held EXCEPT ![p] = {a \in @ : a.start # block}]
        /\ pages' = [pages EXCEPT ![p] =
              paging_map_to(@, virt, virt, virt + allocations[p][slot].pages, FALSE)]
        /\ allocations' = [allocations EXCEPT ![p][slot].addr = NoAddr]
        /\ UNCHANGED <<running, stray>>

process_switch(p) ==
    /\ running' = p
    /\ UNCHANGED <<vars, pages, allocations, held, stray>>

UserNext ==
    \/ \E size \in Sizes :
          \/ KernelMalloc(size)
          \/ process_alloc_malloc(size) \/ process_alloc_malloc_fails(size)
    \/ \E a \in live : KernelFree(a)
    \/ \E virt \in Pages : process_alloc_free(virt)
    \/ process_alloc_free_null
    \/ \E p \in Processes : process_switch(p)

UserSpec == UserInit /\ [][UserNext]_allVars

-----------------------------------------------------------------------------
(* Properties.                                                             *)

UserTypeOK ==
    /\ TypeOK
    /\ pages \in [Processes -> [Pages -> [frame : Pages, user : BOOLEAN]]]
    /\ allocations \in [Processes -> [Indices -> [addr : Pages, pages : 0 .. MaxBlocks]]]
    /\ running \in Processes
    /\ held \in [Processes -> SUBSET live]
    /\ stray \in Entry

\* The page a block is seen at, and the pages of an allocation.
Seen(a) == {UserHeap + i : i \in Extent(a)}
Recorded(p) == {i \in Indices : allocations[p][i].addr # NoAddr}

\* The allocations table says exactly what the program holds, so each free
\* slot is one it may still use and no address is recorded twice.
TableIsHeld ==
    \A p \in Processes :
        /\ held[p] = {[start |-> allocations[p][i].addr - UserHeap,
                       blocks |-> allocations[p][i].pages] : i \in Recorded(p)}
        /\ Cardinality(held[p]) = Cardinality(Recorded(p))

\* A program can reach exactly the blocks it holds, each at its own address;
\* every other page in and around the user's heap maps to itself, for the
\* kernel alone.
MappedIsHeld ==
    \A p \in Processes : \A v \in Pages :
        pages[p][v] = IF \E a \in held[p] : v \in Seen(a)
                      THEN [frame |-> v - UserHeap + KernelHeapStart, user |-> TRUE]
                      ELSE [frame |-> v, user |-> FALSE]

\* No frame a program can reach belongs to another program or to one of the
\* kernel's own allocations, after any sequence of calls by all of them.
FramesIsolated ==
    \A p \in Processes : \A v \in Pages : pages[p][v].user =>
        \A a \in live \ held[p] :
            pages[p][v].frame - KernelHeapStart \notin Extent(a)

\* The pointer that process_alloc_free reads back from the page table is the
\* start of a grant: a step that changes the heap's table is one mallock, or
\* one freek of what mallock returned and nobody has freed.  What a program
\* holds is freed only by its own system call, what the kernel holds only by
\* the kernel.  free(NULL) hands freek no such pointer but an error value; it
\* changes neither the table nor a grant, and FreeInTable is about it.
HeapUsedWell ==
    [][\/ \E size \in Sizes : Malloc(size)
       \/ \E a \in live :
             /\ Free(a)
             /\ \/ a \in held[running]
                \/ (\A p \in Processes : a \notin held[p]) /\ UNCHANGED userVars
       \/ UNCHANGED vars]_allVars

\* With no request of more than two blocks, NoLeak and RefusedOnlyWhileEndHeld
\* of KernelHeap hold of the programs and the kernel together: every taken
\* block belongs to one of them, and mallock refuses a request only while the
\* last block of the heap is held.

\* "Check whether the memory was initially created by the process"
\* (process.c:400): a free writes nothing but the heap's table.
FreeInTable == [][stray' = stray]_allVars
=============================================================================
