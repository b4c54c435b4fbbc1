----------------------------- MODULE HeapTable -----------------------------
(***************************************************************************)
(* The heap's block table (heap.h, heap.c): one entry per 4 KB block, and  *)
(* the operations heap.c performs on it, as pure operators.                *)
(*                                                                         *)
(* An entry byte is the set of its flags: TAKEN is the low nibble 0xf,     *)
(* HAS_NEXT is 0x80, IS_FIRST is 0x40; HEAP_TABLE_ENTRY_FREE (0x1) has     *)
(* none of them.  The table has HeapBlocks entries, but C does not check   *)
(* an index: Slots also holds the bytes that follow the table in memory,   *)
(* as far as an allocation of MaxBlocks blocks can reach.                  *)
(***************************************************************************)
EXTENDS Naturals

CONSTANTS
    HeapBlocks,   \* table -> size: 25600 in config.h
    MaxBlocks,    \* the largest request, in blocks
    BlockSize     \* NUTTLE_HEAP_BLOCK_SIZE

ASSUME HeapConstants ==
    /\ HeapBlocks \in Nat \ {0}
    /\ MaxBlocks \in Nat \ {0}
    /\ BlockSize \in Nat \ {0}

Blocks == 0 .. HeapBlocks - 1
Slots == 0 .. HeapBlocks + MaxBlocks - 2

Entry == SUBSET {"TAKEN", "HAS_NEXT", "IS_FIRST"}
FREE == {}

\* Bits 0x80 and 0x40 are both set only in the first entry of several.
ENTRY_TAKEN(entry) == "TAKEN" \in entry
ENTRY_LAST(entry) == ENTRY_TAKEN(entry) /\ ~({"HAS_NEXT", "IS_FIRST"} \subseteq entry)

get_total_block(size) ==
    (size \div BlockSize) + (IF size % BlockSize # 0 THEN 1 ELSE 0)

-----------------------------------------------------------------------------
(* heap_get_start_block: the first-fit scan.                               *)

NoBlock == HeapBlocks    \* the scan's -ENOMEM; no block has this number

\* The blocks at which the scan sets bs: free, and after a taken one.
RunStarts(entries) ==
    {i \in Blocks : /\ ~ENTRY_TAKEN(entries[i])
                    /\ i > 0 => ENTRY_TAKEN(entries[i - 1])}

\* A faulty variant: the scan does not reset bc at a taken entry.
CandidatesNoReset(entries, blocks) ==
    {i \in RunStarts(entries) :
        \/ \A k \in i .. HeapBlocks - 1 : ~ENTRY_TAKEN(entries[k])
        \/ i + blocks < HeapBlocks /\ ~ENTRY_TAKEN(entries[i + blocks])}

\* The block that sets bs is not counted in bc, so the scan stops early only
\* on blocks + 1 free entries in a row; a run that reaches the end of the
\* table is returned however short it is.
Candidates(entries, blocks) ==
    {i \in RunStarts(entries) :
        \A k \in i .. i + blocks : k < HeapBlocks => ~ENTRY_TAKEN(entries[k])}

heap_get_start_block(entries, blocks) ==
    LET C == Candidates(entries, blocks)
    IN  IF C = {} THEN NoBlock
                  ELSE CHOOSE i \in C : \A j \in C : i <= j

-----------------------------------------------------------------------------
(* Marking.                                                                *)

\* The flags heap_mark_block_taken writes k entries into an allocation.
EntryOf(k, blocks) ==
    {"TAKEN"} \cup (IF k = 0 THEN {"IS_FIRST"} ELSE {})
              \cup (IF k < blocks - 1 THEN {"HAS_NEXT"} ELSE {})

\* A faulty variant: the loop writes one entry too few.
MarkTakenShort(entries, start, blocks) ==
    [i \in Slots |-> IF i = start \/ i \in start .. start + blocks - 2
                     THEN EntryOf(i - start, blocks)
                     ELSE entries[i]]

heap_mark_block_taken(entries, start, blocks) ==
    [i \in Slots |-> IF i \in start .. start + blocks - 1
                     THEN EntryOf(i - start, blocks)
                     ELSE entries[i]]

\* A faulty variant: the loop does not stop at a last entry.
ClearedWholeRun(entries, block) ==
    {k \in Slots : k >= block /\ \A j \in block .. k : ENTRY_TAKEN(entries[j])}

\* The entries the loop of heap_mark_block_free clears: it goes on while
\* they are taken, up to and including the first that looks like a last one.
Cleared(entries, block) ==
    {k \in Slots : /\ k >= block
                   /\ \A j \in block .. k : ENTRY_TAKEN(entries[j])
                   /\ \A j \in block .. k : j < k => ~ENTRY_LAST(entries[j])}

heap_mark_block_free(entries, block) ==
    [i \in Slots |-> IF i \in Cleared(entries, block) THEN FREE ELSE entries[i]]
=============================================================================
