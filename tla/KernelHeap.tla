----------------------------- MODULE KernelHeap -----------------------------
(***************************************************************************)
(* The kernel heap (heap.c behind kheap.c and mallock/zmallock/freek) and  *)
(* its callers.  entries is the block table; live records what the callers *)
(* hold: the pointers they were given and have not passed to freek.        *)
(*                                                                         *)
(* One action is one call.  Allocation happens at boot and under int 0x80, *)
(* which runs with interrupts disabled, and no hardware interrupt handler  *)
(* allocates: calls do not overlap.                                        *)
(***************************************************************************)
EXTENDS HeapTable, FiniteSets

CONSTANT Sizes           \* the sizes callers ask for, in bytes

ASSUME SizesFit ==
    /\ Sizes \subseteq Nat
    /\ \A s \in Sizes \ {0} : get_total_block(s) \in 1 .. MaxBlocks

VARIABLES entries,       \* heap_table.entries
          live           \* the grants callers hold

vars == <<entries, live>>

Grants == [start : Blocks, blocks : 1 .. MaxBlocks]

Extent(a) == a.start .. a.start + a.blocks - 1

-----------------------------------------------------------------------------
\* heap_create clears the table; the bytes past its end hold anything.
Init ==
    /\ \E past \in [Slots \ Blocks -> Entry] :
          entries = [i \in Slots |-> IF i \in Blocks THEN FREE ELSE past[i]]
    /\ live = {}

\* A faulty variant: a free of the block after the pointer's.
FreeNextBlock(a) ==
    /\ a \in live
    /\ entries' = heap_mark_block_free(entries, a.start + 1)
    /\ live' = live \ {a}

\* heap_malloc refuses size 0 (ISERRP) and returns NULL when the scan finds
\* nothing; otherwise the blocks are marked and their address returned.
Malloc(size) ==
    /\ size # 0
    /\ LET blocks == get_total_block(size)
           start == heap_get_start_block(entries, blocks)
       IN  /\ start # NoBlock
           /\ entries' = heap_mark_block_taken(entries, start, blocks)
           /\ live' = live \cup {[start |-> start, blocks |-> blocks]}

MallocFails(size) ==
    /\ size = 0 \/ heap_get_start_block(entries, get_total_block(size)) = NoBlock
    /\ UNCHANGED vars

\* The caller passes freek a pointer it holds.
Free(a) ==
    /\ a \in live
    /\ entries' = heap_mark_block_free(entries, a.start)
    /\ live' = live \ {a}

Next ==
    \/ \E size \in Sizes : Malloc(size)
    \/ \E size \in Sizes : MallocFails(size)
    \/ \E a \in live : Free(a)

Spec == Init /\ [][Next]_vars

-----------------------------------------------------------------------------
(* Properties.                                                             *)

\* The table is a table of flag bytes and callers hold grants of the heap.
TypeOK ==
    /\ entries \in [Slots -> Entry]
    /\ live \subseteq Grants

\* Two pointers that mallock returned and nobody freed never share a block:
\* marking and freeing keep heap_get_start_block away from held blocks.
LiveDisjoint ==
    \A a, b \in live : a # b => Extent(a) \cap Extent(b) = {}

\* The entries of a held allocation still read as heap_mark_block_taken left
\* them, so freek of its pointer will stop inside it.
LiveMarked ==
    \A a \in live : \A i \in Extent(a) : entries[i] = EntryOf(i - a.start, a.blocks)

\* A call changes only entries of the allocation it hands out or takes back:
\* heap_mark_block_free stops before a neighbour, whatever stands next to it.
OnlyOwnEntries ==
    [][\A i \in Slots : entries'[i] # entries[i] =>
          \E a \in (live \ live') \cup (live' \ live) : i \in Extent(a)]_vars

\* Every taken block belongs to somebody: heap_mark_block_free releases the
\* whole allocation, whose end "will denote this is the very last block of
\* the allocation" (heap.c:91).
NoLeak ==
    \A i \in Blocks : ENTRY_TAKEN(entries[i]) => \E a \in live : i \in Extent(a)

\* mallock refuses a request only while some caller holds the last block of
\* the heap: when that caller frees it, the next request succeeds.
RefusedOnlyWhileEndHeld ==
    \A size \in Sizes \ {0} :
        heap_get_start_block(entries, get_total_block(size)) = NoBlock =>
            \E a \in live : HeapBlocks - 1 \in Extent(a)

\* The heap implements the abstract allocator; its start blocks are in the
\* heap although its extents may not be.
Allocator == INSTANCE BlockAllocator
                WITH Home <- Blocks, Lengths <- 1 .. MaxBlocks, granted <- live
AllocatorSpec == Allocator!Spec
=============================================================================
