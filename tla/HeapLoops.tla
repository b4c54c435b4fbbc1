----------------------------- MODULE HeapLoops -----------------------------
(***************************************************************************)
(* The three loops of heap.c, one iteration per step, against the          *)
(* operators of HeapTable that the other modules use for them: the scan    *)
(* for a free run, the marking of an allocation, and its release.          *)
(***************************************************************************)
EXTENDS HeapTable, Integers

CONSTANT Tables          \* the block tables a call may find

ASSUME TablesAreTables == Tables \subseteq [Slots -> Entry]

VARIABLES
    before,              \* the table the call found (history)
    blocks,              \* the request, in blocks
    start,               \* start_block of marking, block of release
    entries,             \* the table
    i,                   \* scan: the index; mark, free: the entry pointed to
    bs, bc,              \* scan: the run's start and the count of the rest
    left,                \* mark: the middle entries still to write
    pc                   \* the loop the call is in, or "done_..."

vars == <<before, blocks, start, entries, i, bs, bc, left, pc>>
args == <<before, blocks, start>>

Unset == -1              \* bs = -1

-----------------------------------------------------------------------------
Init ==
    /\ before \in Tables
    /\ blocks \in 1 .. MaxBlocks
    /\ entries = before
    /\ bs = Unset /\ bc = 0
    /\ left = 0
    /\ \/ pc = "scan" /\ start = 0
       \/ pc \in {"mark_first", "free"} /\ start \in Blocks
    /\ i = start

(* heap_get_start_block *)

\* A faulty variant: continue goes around the increment of i.
ScanTakenStuck ==
    /\ pc = "scan" /\ i < HeapBlocks
    /\ ENTRY_TAKEN(entries[i])
    /\ bs' = Unset /\ bc' = 0
    /\ i' = i
    /\ UNCHANGED <<args, entries, left, pc>>

ScanTaken ==
    /\ pc = "scan" /\ i < HeapBlocks
    /\ ENTRY_TAKEN(entries[i])
    /\ bs' = Unset /\ bc' = 0
    /\ i' = i + 1
    /\ UNCHANGED <<args, entries, left, pc>>

\* A faulty variant: the entry that sets bs is counted.
ScanFreeCounted ==
    /\ pc = "scan" /\ i < HeapBlocks
    /\ ~ENTRY_TAKEN(entries[i])
    /\ bs' = IF bs = Unset THEN i ELSE bs
    /\ bc' = bc + 1
    /\ IF bc' = blocks THEN pc' = "done_scan" /\ i' = i
                       ELSE pc' = pc /\ i' = i + 1
    /\ UNCHANGED <<args, entries, left>>

ScanFree ==
    /\ pc = "scan" /\ i < HeapBlocks
    /\ ~ENTRY_TAKEN(entries[i])
    /\ IF bs = Unset THEN bs' = i /\ bc' = bc
                     ELSE bs' = bs /\ bc' = bc + 1
    /\ IF bc' = blocks THEN pc' = "done_scan" /\ i' = i
                       ELSE pc' = pc /\ i' = i + 1
    /\ UNCHANGED <<args, entries, left>>

ScanEnd ==
    /\ pc = "scan" /\ i = HeapBlocks
    /\ pc' = "done_scan"
    /\ UNCHANGED <<args, entries, i, bs, bc, left>>

ScanResult == IF bs = Unset THEN NoBlock ELSE bs

(* heap_mark_block_taken *)

MarkFirst ==
    /\ pc = "mark_first"
    /\ entries' = [entries EXCEPT ![i] =
           {"TAKEN", "IS_FIRST"} \cup (IF blocks = 1 THEN {} ELSE {"HAS_NEXT"})]
    /\ i' = i + 1
    /\ left' = blocks - 2
    /\ pc' = IF blocks = 1 THEN "done_mark" ELSE "mark_rest"
    /\ UNCHANGED <<args, bs, bc>>

MarkMiddle ==
    /\ pc = "mark_rest" /\ left # 0
    /\ entries' = [entries EXCEPT ![i] = {"TAKEN", "HAS_NEXT"}]
    /\ i' = i + 1
    /\ left' = left - 1
    /\ UNCHANGED <<args, bs, bc, pc>>

\* A faulty variant: the last entry keeps the flags of a middle one.
MarkLastAsMiddle ==
    /\ pc = "mark_rest" /\ left = 0
    /\ entries' = [entries EXCEPT ![i] = {"TAKEN", "HAS_NEXT"}]
    /\ pc' = "done_mark"
    /\ UNCHANGED <<args, i, bs, bc, left>>

MarkLast ==
    /\ pc = "mark_rest" /\ left = 0
    /\ entries' = [entries EXCEPT ![i] = {"TAKEN"}]
    /\ pc' = "done_mark"
    /\ UNCHANGED <<args, i, bs, bc, left>>

(* heap_mark_block_free *)

\* A faulty variant: last is read from the entry after it has been cleared.
FreeStepStaleLast ==
    /\ pc = "free" /\ i \in Slots
    /\ ENTRY_TAKEN(entries[i])
    /\ entries' = [entries EXCEPT ![i] = FREE]
    /\ i' = i + 1
    /\ pc' = IF ENTRY_LAST(entries'[i]) THEN "done_free" ELSE pc
    /\ UNCHANGED <<args, bs, bc, left>>

\* Memory after Slots is not modelled: it is taken to end the loop.
FreeStep ==
    /\ pc = "free" /\ i \in Slots
    /\ ENTRY_TAKEN(entries[i])
    /\ entries' = [entries EXCEPT ![i] = FREE]
    /\ i' = i + 1
    /\ pc' = IF ENTRY_LAST(entries[i]) THEN "done_free" ELSE pc
    /\ UNCHANGED <<args, bs, bc, left>>

FreeEnd ==
    /\ pc = "free"
    /\ i \in Slots => ~ENTRY_TAKEN(entries[i])
    /\ pc' = "done_free"
    /\ UNCHANGED <<args, entries, i, bs, bc, left>>

Next ==
    \/ ScanTaken \/ ScanFree \/ ScanEnd
    \/ MarkFirst \/ MarkMiddle \/ MarkLast
    \/ FreeStep \/ FreeEnd

Spec == Init /\ [][Next]_vars /\ WF_vars(Next)

-----------------------------------------------------------------------------
(* Properties.                                                             *)

\* The loops' variables stay in their ranges; i never leaves the table while
\* it is dereferenced.
TypeOK ==
    /\ before \in [Slots -> Entry] /\ entries \in [Slots -> Entry]
    /\ blocks \in 1 .. MaxBlocks /\ start \in Blocks
    /\ i \in 0 .. HeapBlocks + MaxBlocks - 1
    /\ bs \in {Unset} \cup Blocks /\ bc \in 0 .. MaxBlocks
    /\ left \in -1 .. MaxBlocks
    /\ pc \in {"scan", "mark_first", "mark_rest", "free",
               "done_scan", "done_mark", "done_free"}
    /\ pc = "scan" => i <= HeapBlocks
    /\ pc \in {"mark_first", "mark_rest"} => i \in Slots

\* The scan's loop invariant: behind i there is no candidate before bs, and
\* bs, bc describe the run of free entries that ends at i.
ScanInv ==
    pc = "scan" =>
        /\ entries = before
        /\ bs = Unset => /\ bc = 0
                         /\ i > 0 => ENTRY_TAKEN(entries[i - 1])
                         /\ \A c \in Candidates(entries, blocks) : c >= i
        /\ bs # Unset => /\ bs < i /\ bc = i - 1 - bs /\ bc < blocks
                         /\ bs \in RunStarts(entries)
                         /\ \A k \in bs .. i - 1 : ~ENTRY_TAKEN(entries[k])
                         /\ \A c \in Candidates(entries, blocks) : c >= bs

\* Behind i marking has written the allocation's entries, and the countdown
\* is the number of middle entries that are left.
MarkInv ==
    /\ pc = "mark_first" => i = start /\ entries = before
    /\ pc = "mark_rest" =>
          /\ i > start /\ left >= 0 /\ left = blocks - 1 - (i - start)
          /\ entries = [k \in Slots |-> IF k \in start .. i - 1
                                        THEN EntryOf(k - start, blocks)
                                        ELSE before[k]]

\* Behind i release has cleared taken entries none of which looked last.
FreeInv ==
    pc = "free" =>
        /\ i >= start
        /\ entries = [k \in Slots |-> IF k \in start .. i - 1 THEN FREE ELSE before[k]]
        /\ \A k \in start .. i - 1 : ENTRY_TAKEN(before[k]) /\ ~ENTRY_LAST(before[k])

\* What each of the three loops keeps true from one iteration to the next.
LoopInv == ScanInv /\ MarkInv /\ FreeInv

\* The scan returns the first run of blocks + 1 free entries, or the run at
\* the end of the table, or -ENOMEM, and writes nothing.
ScanFindsFirstFit ==
    pc = "done_scan" => /\ ScanResult = heap_get_start_block(before, blocks)
                        /\ entries = before

\* Marking writes exactly the entries of the allocation, the flags of each
\* by its place in it, with no wrap-around of the blocks - 2 countdown.
MarkWritesAllocation ==
    pc = "done_mark" => entries = heap_mark_block_taken(before, start, blocks)

\* Release clears the taken entries from start to the first that looks last.
FreeClearsToLast ==
    pc = "done_free" => entries = heap_mark_block_free(before, start)

\* Every call of the three returns.
Returns == <>(pc \in {"done_scan", "done_mark", "done_free"})
=============================================================================
