--------------------------- MODULE HeapLoopsProofs ---------------------------
(***************************************************************************)
(* Proofs that the three loops of heap.c compute the operators of          *)
(* HeapTable, for every table, heap size and request.                      *)
(***************************************************************************)
EXTENDS HeapLoops, TLAPS

IInv == /\ TypeOK /\ LoopInv
        /\ ScanFindsFirstFit /\ MarkWritesAllocation /\ FreeClearsToLast

\* The least candidate is the scan's result.
LEMMA LeastIsResult ==
    ASSUME NEW table, NEW n, NEW b \in Candidates(table, n),
           \A c \in Candidates(table, n) : c >= b
    PROVE  heap_get_start_block(table, n) = b
<1>1. Candidates(table, n) \subseteq Int
  BY HeapConstants DEF Candidates, RunStarts, Blocks
<1>2. \A m \in Candidates(table, n) :
          (\A j \in Candidates(table, n) : m <= j) => m = b
  BY <1>1
<1>3. \A j \in Candidates(table, n) : b <= j
  BY <1>1
<1> QED
  BY <1>2, <1>3 DEF heap_get_start_block

LEMMA InitInv == Init => IInv
<1> SUFFICES ASSUME Init PROVE IInv
  OBVIOUS
<1>1. before \in [Slots -> Entry] /\ entries = before
  BY TablesAreTables DEF Init
<1>2. start \in Blocks /\ i = start /\ blocks \in 1 .. MaxBlocks
      /\ bs = Unset /\ bc = 0 /\ left = 0
      /\ pc \in {"scan", "mark_first", "free"} /\ (pc = "scan" => i = 0)
  BY HeapConstants DEF Init, Blocks
<1>3. TypeOK
  BY <1>1, <1>2, HeapConstants DEF TypeOK, Unset, Blocks, Slots
<1>4. ScanInv
  BY <1>1, <1>2, HeapConstants DEF ScanInv, Candidates, RunStarts, Blocks
<1>5. MarkInv
  BY <1>1, <1>2 DEF MarkInv
<1>6. FreeInv
  <2>1. start .. i - 1 = {}
    BY <1>2, HeapConstants DEF Blocks
  <2> QED BY <1>1, <1>2, <2>1, HeapConstants DEF FreeInv, Blocks
<1> QED
  BY <1>2, <1>3, <1>4, <1>5, <1>6
     DEF IInv, LoopInv, ScanFindsFirstFit, MarkWritesAllocation, FreeClearsToLast

-----------------------------------------------------------------------------
(* The scan.                                                               *)

LEMMA ScanTakenInv == ASSUME IInv, ScanTaken PROVE IInv'
<1> USE HeapConstants
<1>1. /\ pc = "scan" /\ i \in Blocks /\ ENTRY_TAKEN(entries[i])
      /\ bs' = Unset /\ bc' = 0 /\ i' = i + 1
      /\ entries' = entries /\ before' = before /\ blocks' = blocks
      /\ start' = start /\ left' = left /\ pc' = pc
  BY DEF ScanTaken, args, IInv, TypeOK, Blocks
<1>2. TypeOK'
  BY <1>1 DEF IInv, TypeOK, Unset, Blocks, Slots
<1>3. ScanInv'
  <2>1. ASSUME NEW c \in Candidates(entries, blocks), c <= i
        PROVE  FALSE
    <3>1. c \in Blocks /\ ~ENTRY_TAKEN(entries[c])
          /\ \A k \in c .. c + blocks : k < HeapBlocks => ~ENTRY_TAKEN(entries[k])
      BY DEF Candidates, RunStarts
    <3>2. CASE bs = Unset
      <4>1. c = i
        BY <1>1, <2>1, <3>1, <3>2 DEF IInv, LoopInv, ScanInv, Blocks
      <4> QED BY <1>1, <3>1, <4>1
    <3>3. CASE bs # Unset
      <4>1. /\ bs \in Blocks /\ bs < i /\ bc = i - 1 - bs /\ bc < blocks /\ c >= bs
            /\ blocks \in 1 .. MaxBlocks
        BY <1>1, <3>3 DEF IInv, LoopInv, ScanInv, TypeOK
      <4>2. i \in c .. c + blocks
        BY <1>1, <2>1, <3>1, <4>1 DEF Blocks
      <4> QED BY <1>1, <3>1, <4>2 DEF Blocks
    <3> QED BY <3>2, <3>3
  <2>2. \A c \in Candidates(entries, blocks) : c >= i + 1
    BY <1>1, <2>1 DEF Candidates, RunStarts, Blocks
  <2>3. entries = before
    BY <1>1 DEF IInv, LoopInv, ScanInv
  <2>4. ENTRY_TAKEN(entries'[i' - 1])
    <3>1. (i + 1) - 1 = i
      BY <1>1 DEF Blocks
    <3> QED BY <1>1, <3>1
  <2> QED BY <1>1, <2>2, <2>3, <2>4 DEF ScanInv
<1> QED
  BY <1>1, <1>2, <1>3 DEF IInv, LoopInv, MarkInv, FreeInv,
     ScanFindsFirstFit, MarkWritesAllocation, FreeClearsToLast

LEMMA ScanFreeInv == ASSUME IInv, ScanFree PROVE IInv'
<1> USE HeapConstants
<1>1. /\ pc = "scan" /\ i \in Blocks /\ ~ENTRY_TAKEN(entries[i])
      /\ entries' = entries /\ before' = before /\ blocks' = blocks
      /\ start' = start /\ left' = left
      /\ blocks \in 1 .. MaxBlocks /\ entries = before
  BY DEF ScanFree, args, IInv, TypeOK, Blocks, LoopInv, ScanInv
\* The run after this entry starts at b and has n entries after its first.
<1> DEFINE b == IF bs = Unset THEN i ELSE bs
           n == IF bs = Unset THEN bc ELSE bc + 1
<1>2. bs' = b /\ bc' = n
  BY DEF ScanFree
<1>3. /\ b \in Blocks /\ n \in Nat /\ b <= i /\ n = i - b /\ n <= blocks
      /\ b \in RunStarts(entries)
      /\ \A k \in b .. i : ~ENTRY_TAKEN(entries[k])
      /\ \A c \in Candidates(entries, blocks) : c >= b
  <2>1. CASE bs = Unset
    <3>1. b = i /\ n = 0
      BY <1>1, <2>1 DEF IInv, LoopInv, ScanInv
    <3>2. i \in RunStarts(entries)
      BY <1>1, <2>1 DEF IInv, LoopInv, ScanInv, RunStarts
    <3>3. \A c \in Candidates(entries, blocks) : c >= i
      BY <1>1, <2>1 DEF IInv, LoopInv, ScanInv
    <3>4. i <= i /\ 0 = i - i /\ 0 <= blocks /\ \A k \in i .. i : k = i
      BY <1>1 DEF Blocks
    <3> HIDE DEF b, n
    <3> QED BY <1>1, <3>1, <3>2, <3>3, <3>4
  <2>2. CASE bs # Unset
    <3>1. b = bs /\ n = bc + 1
      BY <2>2
    <3>2. /\ bs \in Blocks /\ bs < i /\ bc = i - 1 - bs /\ bc < blocks
          /\ bs \in RunStarts(entries)
          /\ \A k \in bs .. i - 1 : ~ENTRY_TAKEN(entries[k])
          /\ \A c \in Candidates(entries, blocks) : c >= bs
      BY <1>1, <2>2 DEF IInv, LoopInv, ScanInv, TypeOK
    <3>3. \A k \in bs .. i : k \in bs .. i - 1 \/ k = i
      BY <1>1, <3>2 DEF Blocks
    <3>4. bs <= i /\ bc + 1 \in Nat /\ bc + 1 = i - bs /\ bc + 1 <= blocks
      BY <1>1, <3>2 DEF Blocks
    <3>5. \A k \in bs .. i : ~ENTRY_TAKEN(entries[k])
      BY <1>1, <3>2, <3>3
    <3> HIDE DEF b, n
    <3> QED BY <3>1, <3>2, <3>4, <3>5
  <2> QED BY <2>1, <2>2
<1> HIDE DEF b, n
\* The numbers alone, without the facts about the table.
<1>4. /\ i \in Nat /\ i < HeapBlocks /\ blocks \in Nat /\ blocks <= MaxBlocks
      /\ b \in Nat /\ b # Unset /\ bs' = b /\ bc' = n
      /\ n \in Nat /\ n = i - b /\ n <= blocks
  BY <1>1, <1>2, <1>3 DEF Blocks, Unset
<1>5. CASE n = blocks
  <2>1. pc' = "done_scan" /\ i' = i
    BY <1>4, <1>5 DEF ScanFree
  <2>2. TypeOK'
    BY <1>1, <1>4, <2>1 DEF IInv, TypeOK, Blocks, Slots
  <2>3. b \in Candidates(entries, blocks)
    <3>1. b + blocks = i
      BY <1>4, <1>5
    <3> QED BY <1>3, <3>1 DEF Candidates
  <2>4. heap_get_start_block(entries, blocks) = b
    BY <1>3, <2>3, LeastIsResult
  <2>5. ScanResult' = b
    BY <1>4 DEF ScanResult
  <2> QED BY <1>1, <2>1, <2>2, <2>4, <2>5 DEF IInv, LoopInv, ScanInv, MarkInv,
             FreeInv, ScanFindsFirstFit, MarkWritesAllocation, FreeClearsToLast
<1>6. CASE n # blocks
  <2>1. pc' = pc /\ i' = i + 1
    BY <1>4, <1>6 DEF ScanFree
  <2>2. TypeOK'
    BY <1>1, <1>4, <2>1 DEF IInv, TypeOK, Blocks, Slots
  <2>3. (i + 1) - 1 = i /\ b < i + 1 /\ n = (i + 1) - 1 - b /\ n < blocks
    BY <1>3, <1>4, <1>6
  <2>4. ScanInv'
    BY <1>1, <1>3, <1>4, <2>1, <2>3 DEF ScanInv
  <2> QED BY <1>1, <2>1, <2>2, <2>4 DEF IInv, LoopInv, MarkInv,
             FreeInv, ScanFindsFirstFit, MarkWritesAllocation, FreeClearsToLast
<1> QED
  BY <1>5, <1>6

LEMMA ScanEndInv == ASSUME IInv, ScanEnd PROVE IInv'
<1> USE HeapConstants
<1>1. /\ pc = "scan" /\ i = HeapBlocks /\ pc' = "done_scan"
      /\ UNCHANGED <<args, entries, i, bs, bc, left>>
      /\ entries = before /\ blocks \in 1 .. MaxBlocks
  BY DEF ScanEnd, IInv, TypeOK, LoopInv, ScanInv
<1>2. TypeOK'
  BY <1>1 DEF IInv, TypeOK, args
<1>3. ScanResult = heap_get_start_block(entries, blocks)
  <2>1. CASE bs = Unset
    <3>1. \A c \in Candidates(entries, blocks) : c >= HeapBlocks /\ c \in Blocks
      BY <1>1, <2>1 DEF IInv, LoopInv, ScanInv, Candidates, RunStarts
    <3>2. Candidates(entries, blocks) = {}
      BY <3>1 DEF Blocks
    <3> QED BY <2>1, <3>2 DEF ScanResult, heap_get_start_block
  <2>2. CASE bs # Unset
    <3>1. /\ bs \in RunStarts(entries)
          /\ \A k \in bs .. HeapBlocks - 1 : ~ENTRY_TAKEN(entries[k])
          /\ \A c \in Candidates(entries, blocks) : c >= bs
      BY <1>1, <2>2 DEF IInv, LoopInv, ScanInv
    <3>2. bs \in Candidates(entries, blocks)
      BY <1>1, <3>1 DEF Candidates, RunStarts, Blocks
    <3> QED BY <2>2, <3>1, <3>2, LeastIsResult DEF ScanResult
  <2> QED BY <2>1, <2>2
<1> QED
  BY <1>1, <1>2, <1>3 DEF IInv, LoopInv, ScanInv, MarkInv, FreeInv, args,
     ScanResult, ScanFindsFirstFit, MarkWritesAllocation, FreeClearsToLast

-----------------------------------------------------------------------------
(* Marking.                                                                *)

LEMMA MarkFirstInv == ASSUME IInv, MarkFirst PROVE IInv'
<1> USE HeapConstants
<1> DEFINE e == {"TAKEN", "IS_FIRST"} \cup (IF blocks = 1 THEN {} ELSE {"HAS_NEXT"})
<1>1. /\ pc = "mark_first" /\ i = start /\ entries = before
      /\ i \in Blocks /\ i \in Slots /\ blocks \in 1 .. MaxBlocks
      /\ entries \in [Slots -> Entry]
      /\ entries' = [entries EXCEPT ![i] = e]
      /\ i' = i + 1 /\ left' = blocks - 2
      /\ pc' = IF blocks = 1 THEN "done_mark" ELSE "mark_rest"
      /\ UNCHANGED <<args, bs, bc>>
  BY DEF MarkFirst, IInv, TypeOK, LoopInv, MarkInv
<1>2. e = EntryOf(0, blocks)
  BY <1>1 DEF EntryOf
<1>3. e \in Entry
  BY DEF Entry
<1> HIDE DEF e
<1>4. entries' = [k \in Slots |-> IF k \in start .. start
                                  THEN EntryOf(k - start, blocks) ELSE before[k]]
  <2>1. \A k \in Slots : k \in start .. start <=> k = start
    BY <1>1 DEF Blocks, Slots
  <2>2. start - start = 0
    BY <1>1 DEF Blocks
  <2> QED BY <1>1, <1>2, <2>1, <2>2
<1>5. i' \in 0 .. HeapBlocks + MaxBlocks - 1 /\ left' \in -1 .. MaxBlocks
  BY <1>1 DEF Blocks
<1>6. entries' \in [Slots -> Entry]
  BY <1>1, <1>3
<1>7. CASE blocks = 1
  <2>1. TypeOK'
    BY <1>1, <1>5, <1>6, <1>7 DEF IInv, TypeOK, args
  <2>2. start .. start + blocks - 1 = start .. start
    BY <1>1, <1>7 DEF Blocks
  <2>3. entries' = heap_mark_block_taken(before, start, blocks)
    BY <1>4, <2>2 DEF heap_mark_block_taken
  <2> QED BY <1>1, <1>7, <2>1, <2>3 DEF args, IInv, LoopInv, ScanInv, MarkInv,
             FreeInv, ScanFindsFirstFit, MarkWritesAllocation, FreeClearsToLast
<1>8. CASE blocks # 1
  <2>1. i + 1 \in Slots
    BY <1>1, <1>8 DEF Blocks, Slots
  <2>2. TypeOK'
    BY <1>1, <1>5, <1>6, <1>8, <2>1 DEF IInv, TypeOK, args
  <2>3. (i + 1) - 1 = i /\ i + 1 > start /\ blocks - 2 >= 0
        /\ blocks - 2 = blocks - 1 - ((i + 1) - start)
    BY <1>1, <1>8 DEF Blocks
  <2>4. MarkInv'
    BY <1>1, <1>4, <1>8, <2>3 DEF MarkInv, args
  <2> QED BY <1>1, <1>8, <2>2, <2>4 DEF args, IInv, LoopInv, ScanInv,
             FreeInv, ScanFindsFirstFit, MarkWritesAllocation, FreeClearsToLast
<1> QED
  BY <1>7, <1>8

LEMMA MarkMiddleInv == ASSUME IInv, MarkMiddle PROVE IInv'
<1> USE HeapConstants
<1>1. /\ pc = "mark_rest" /\ left # 0 /\ pc' = pc
      /\ i \in Slots /\ start \in Blocks /\ blocks \in 1 .. MaxBlocks
      /\ i > start /\ left \in Nat /\ left = blocks - 1 - (i - start)
      /\ entries \in [Slots -> Entry] /\ before \in [Slots -> Entry]
      /\ entries = [k \in Slots |-> IF k \in start .. i - 1
                                    THEN EntryOf(k - start, blocks) ELSE before[k]]
      /\ entries' = [entries EXCEPT ![i] = {"TAKEN", "HAS_NEXT"}]
      /\ i' = i + 1 /\ left' = left - 1
      /\ UNCHANGED <<args, bs, bc>>
  BY DEF MarkMiddle, IInv, TypeOK, LoopInv, MarkInv, Slots
<1>2. {"TAKEN", "HAS_NEXT"} = EntryOf(i - start, blocks)
  <2>1. i - start # 0 /\ i - start < blocks - 1
    BY <1>1 DEF Blocks, Slots
  <2> QED BY <2>1 DEF EntryOf
<1>3. entries' = [k \in Slots |-> IF k \in start .. i
                                  THEN EntryOf(k - start, blocks) ELSE before[k]]
  <2>1. entries' = [entries EXCEPT ![i] = EntryOf(i - start, blocks)]
    BY <1>1, <1>2
  <2>2. \A k \in Slots : k \in start .. i <=> (k = i \/ k \in start .. i - 1)
    BY <1>1 DEF Blocks, Slots
  <2> QED BY <1>1, <2>1, <2>2
<1>4. entries' \in [Slots -> Entry]
  BY <1>1 DEF Entry
<1>5. /\ i + 1 \in Slots /\ i + 1 \in 0 .. HeapBlocks + MaxBlocks - 1
      /\ left - 1 \in -1 .. MaxBlocks
      /\ (i + 1) - 1 = i /\ i + 1 > start /\ left - 1 >= 0
      /\ left - 1 = blocks - 1 - ((i + 1) - start)
  BY <1>1 DEF Blocks, Slots
<1>6. TypeOK'
  BY <1>1, <1>4, <1>5 DEF IInv, TypeOK, args
<1>7. MarkInv'
  BY <1>1, <1>3, <1>5 DEF MarkInv, args
<1> QED
  BY <1>1, <1>6, <1>7 DEF args, IInv, LoopInv, ScanInv,
     FreeInv, ScanFindsFirstFit, MarkWritesAllocation, FreeClearsToLast

LEMMA MarkLastInv == ASSUME IInv, MarkLast PROVE IInv'
<1> USE HeapConstants
<1>1. /\ pc = "mark_rest" /\ left = 0 /\ pc' = "done_mark"
      /\ i \in Slots /\ start \in Blocks /\ blocks \in 1 .. MaxBlocks
      /\ i > start /\ left = blocks - 1 - (i - start)
      /\ entries \in [Slots -> Entry] /\ before \in [Slots -> Entry]
      /\ entries = [k \in Slots |-> IF k \in start .. i - 1
                                    THEN EntryOf(k - start, blocks) ELSE before[k]]
      /\ entries' = [entries EXCEPT ![i] = {"TAKEN"}]
      /\ UNCHANGED <<args, i, bs, bc, left>>
  BY DEF MarkLast, IInv, TypeOK, LoopInv, MarkInv
<1>2. i = start + blocks - 1
  BY <1>1 DEF Blocks, Slots
<1>3. {"TAKEN"} = EntryOf(i - start, blocks)
  <2>1. i - start # 0 /\ ~(i - start < blocks - 1)
    BY <1>1 DEF Blocks, Slots
  <2> QED BY <2>1 DEF EntryOf
<1>4. entries' = heap_mark_block_taken(before, start, blocks)
  <2>1. entries' = [k \in Slots |-> IF k \in start .. i
                                    THEN EntryOf(k - start, blocks) ELSE before[k]]
    <3>1. entries' = [entries EXCEPT ![i] = EntryOf(i - start, blocks)]
      BY <1>1, <1>3
    <3>2. \A k \in Slots : k \in start .. i <=> (k = i \/ k \in start .. i - 1)
      BY <1>1 DEF Blocks, Slots
    <3> QED BY <1>1, <3>1, <3>2
  <2> QED BY <1>2, <2>1 DEF heap_mark_block_taken
<1>5. TypeOK'
  <2>1. entries' \in [Slots -> Entry]
    BY <1>1 DEF Entry
  <2> QED BY <1>1, <2>1 DEF IInv, TypeOK, args
<1> QED
  BY <1>1, <1>4, <1>5 DEF args, IInv, LoopInv, ScanInv, MarkInv,
     FreeInv, ScanFindsFirstFit, MarkWritesAllocation, FreeClearsToLast

-----------------------------------------------------------------------------
(* Release.                                                                *)

LEMMA FreeStepInv == ASSUME IInv, FreeStep PROVE IInv'
<1> USE HeapConstants
<1>1. /\ pc = "free" /\ i \in Slots /\ ENTRY_TAKEN(entries[i])
      /\ start \in Blocks /\ i >= start
      /\ entries \in [Slots -> Entry] /\ before \in [Slots -> Entry]
      /\ entries = [k \in Slots |-> IF k \in start .. i - 1 THEN FREE ELSE before[k]]
      /\ \A k \in start .. i - 1 : ENTRY_TAKEN(before[k]) /\ ~ENTRY_LAST(before[k])
      /\ entries' = [entries EXCEPT ![i] = FREE]
      /\ i' = i + 1
      /\ pc' = IF ENTRY_LAST(entries[i]) THEN "done_free" ELSE pc
      /\ UNCHANGED <<args, bs, bc, left>>
  BY DEF FreeStep, IInv, TypeOK, LoopInv, FreeInv
<1>2. entries[i] = before[i]
  BY <1>1 DEF Blocks, Slots
<1>3. \A k \in start .. i : k \in start .. i - 1 \/ k = i
  BY <1>1 DEF Blocks, Slots
<1>4. entries' = [k \in Slots |-> IF k \in start .. i THEN FREE ELSE before[k]]
  <2>1. \A k \in Slots : k \in start .. i <=> (k = i \/ k \in start .. i - 1)
    BY <1>1 DEF Blocks, Slots
  <2> QED BY <1>1, <2>1
<1>5. (i + 1) - 1 = i /\ i + 1 >= start /\ i + 1 \in 0 .. HeapBlocks + MaxBlocks - 1
  BY <1>1 DEF Blocks, Slots
<1>6. TypeOK'
  <2>1. entries' \in [Slots -> Entry]
    BY <1>1 DEF FREE, Entry
  <2> QED BY <1>1, <1>5, <2>1 DEF IInv, TypeOK, args
<1>7. CASE ENTRY_LAST(entries[i])
  <2>1. \A k \in Slots : k \in Cleared(before, start) <=> k \in start .. i
    <3> SUFFICES ASSUME NEW k \in Slots
                 PROVE  k \in Cleared(before, start) <=> k \in start .. i
      OBVIOUS
    <3>1. ASSUME k \in start .. i PROVE k \in Cleared(before, start)
      <4>1. \A j \in start .. k : j \in start .. i /\ (j < k => j \in start .. i - 1)
        BY <1>1, <3>1 DEF Blocks, Slots
      <4> QED BY <1>1, <1>2, <1>3, <3>1, <4>1 DEF Cleared, Blocks, Slots
    <3>2. ASSUME k \in Cleared(before, start), k > i PROVE FALSE
      <4>1. i \in start .. k
        BY <1>1, <3>2 DEF Blocks, Slots
      <4> QED BY <1>2, <1>7, <3>2, <4>1 DEF Cleared
    <3> QED BY <1>1, <3>1, <3>2 DEF Cleared, Blocks, Slots
  <2>2. entries' = heap_mark_block_free(before, start)
    BY <1>4, <2>1 DEF heap_mark_block_free
  <2>3. pc' = "done_free"
    BY <1>1, <1>7
  <2> QED BY <1>1, <1>6, <2>2, <2>3 DEF args, IInv, LoopInv, ScanInv, MarkInv,
             FreeInv, ScanFindsFirstFit, MarkWritesAllocation, FreeClearsToLast
<1>8. CASE ~ENTRY_LAST(entries[i])
  <2>1. pc' = pc
    BY <1>1, <1>8
  <2>2. \A k \in start .. i : ENTRY_TAKEN(before[k]) /\ ~ENTRY_LAST(before[k])
    BY <1>1, <1>2, <1>3, <1>8
  <2>3. FreeInv'
    BY <1>1, <1>4, <1>5, <2>2 DEF FreeInv, args
  <2> QED BY <1>1, <1>6, <2>1, <2>3 DEF args, IInv, LoopInv, ScanInv, MarkInv,
             ScanFindsFirstFit, MarkWritesAllocation, FreeClearsToLast
<1> QED
  BY <1>7, <1>8

LEMMA FreeEndInv == ASSUME IInv, FreeEnd PROVE IInv'
<1> USE HeapConstants
<1>1. /\ pc = "free" /\ pc' = "done_free"
      /\ i \in Slots => ~ENTRY_TAKEN(entries[i])
      /\ start \in Blocks /\ i >= start /\ i \in Nat
      /\ i \in 0 .. HeapBlocks + MaxBlocks - 1
      /\ entries = [k \in Slots |-> IF k \in start .. i - 1 THEN FREE ELSE before[k]]
      /\ \A k \in start .. i - 1 : ENTRY_TAKEN(before[k]) /\ ~ENTRY_LAST(before[k])
      /\ UNCHANGED <<args, entries, i, bs, bc, left>>
  BY DEF FreeEnd, IInv, TypeOK, LoopInv, FreeInv
<1>2. i \in Slots => ~ENTRY_TAKEN(before[i])
  BY <1>1 DEF Blocks, Slots
<1>3. \A k \in Slots : k \in Cleared(before, start) <=> k \in start .. i - 1
  <2> SUFFICES ASSUME NEW k \in Slots
               PROVE  k \in Cleared(before, start) <=> k \in start .. i - 1
    OBVIOUS
  <2>1. ASSUME k \in start .. i - 1 PROVE k \in Cleared(before, start)
    <3>1. \A j \in start .. k : j \in start .. i - 1
      BY <1>1, <2>1 DEF Blocks, Slots
    <3> QED BY <1>1, <2>1, <3>1 DEF Cleared, Blocks, Slots
  <2>2. ASSUME k \in Cleared(before, start), k >= i PROVE FALSE
    <3>1. i \in start .. k /\ i \in Slots
      BY <1>1, <2>2 DEF Blocks, Slots
    <3> QED BY <1>2, <2>2, <3>1 DEF Cleared
  <2> QED BY <1>1, <2>1, <2>2 DEF Cleared, Blocks, Slots
<1>4. entries = heap_mark_block_free(before, start)
  BY <1>1, <1>3 DEF heap_mark_block_free
<1>5. TypeOK'
  BY <1>1 DEF IInv, TypeOK, args
<1> QED
  BY <1>1, <1>4, <1>5 DEF args, IInv, LoopInv, ScanInv, MarkInv, FreeInv,
     ScanFindsFirstFit, MarkWritesAllocation, FreeClearsToLast

-----------------------------------------------------------------------------
LEMMA NextInv == IInv /\ [Next]_vars => IInv'
<1> SUFFICES ASSUME IInv, [Next]_vars PROVE IInv'
  OBVIOUS
<1>1. CASE UNCHANGED vars
  BY <1>1 DEF vars, IInv, TypeOK, LoopInv, ScanInv, MarkInv, FreeInv, ScanResult,
     ScanFindsFirstFit, MarkWritesAllocation, FreeClearsToLast
<1>2. CASE ScanTaken \/ ScanFree \/ ScanEnd
  BY <1>2, ScanTakenInv, ScanFreeInv, ScanEndInv
<1>3. CASE MarkFirst \/ MarkMiddle \/ MarkLast
  BY <1>3, MarkFirstInv, MarkMiddleInv, MarkLastInv
<1>4. CASE FreeStep \/ FreeEnd
  BY <1>4, FreeStepInv, FreeEndInv
<1> QED
  BY <1>1, <1>2, <1>3, <1>4 DEF Next

THEOREM InvHolds == Spec => []IInv
BY InitInv, NextInv, PTL DEF Spec

\* The loops dereference the entry pointer only inside Slots, and their
\* counters stay in range: no request makes blocks - 2 run below zero twice.
THEOREM TypeCorrect == Spec => []TypeOK
BY InvHolds, PTL DEF IInv

\* The for loop of heap_get_start_block computes the first-fit operator that
\* KernelHeap's mallock uses.
THEOREM ScanCorrect == Spec => []ScanFindsFirstFit
BY InvHolds, PTL DEF IInv

\* The while loop of heap_mark_block_taken writes the allocation's entries
\* and no others.
THEOREM MarkCorrect == Spec => []MarkWritesAllocation
BY InvHolds, PTL DEF IInv

\* The while loop of heap_mark_block_free clears exactly the entries that
\* KernelHeap's freek clears.
THEOREM FreeCorrect == Spec => []FreeClearsToLast
BY InvHolds, PTL DEF IInv
=============================================================================
