---------------------------- MODULE MemoryProofs ----------------------------
(***************************************************************************)
(* Memory, for every heap size, request size and table, and any number of  *)
(* programs and of slots: the kernel heap (KernelHeap), and programs and   *)
(* kernel over one heap (UserMemory).  The calls of the system are calls   *)
(* of the heap as its specification allows them, so the heap's theorems    *)
(* hold of the whole.                                                      *)
(*                                                                         *)
(* The heap's inductive invariant is TypeOK, LiveDisjoint and LiveMarked:  *)
(* that held blocks are disjoint follows from the table only because the   *)
(* entries of a held allocation are still the ones marking wrote.          *)
(*                                                                         *)
(* The system's says of every process what Holds says of a page table, an  *)
(* allocations table and the grants held: each names the others.  A free   *)
(* needs it because the code goes from an address over the table of        *)
(* allocations and the page table to a block and a number of pages, and    *)
(* never asks the heap whose block that is.                                *)
(***************************************************************************)
EXTENDS UserMemory, FiniteSetTheorems, WellFoundedInduction, TLAPS

-----------------------------------------------------------------------------
(* Facts about the table operators.                                        *)

\* A set of block numbers that is not empty has a least element, the one
\* the scan of heap_get_start_block meets first.
LEMMA LeastBlock ==
    ASSUME NEW S \in SUBSET Nat, S # {}
    PROVE  \E i \in S : \A j \in S : i <= j
<1>1. PICK x \in S : \A y \in S : ~(<<y, x>> \in OpToRel(<, Nat))
  BY WFMin, NatLessThanWellFounded, Zenon
<1>2. \A y \in S : ~(y < x)
  BY <1>1 DEF OpToRel
<1> QED
  BY <1>2

\* heap_get_start_block returns a block of the heap from which blocks + 1
\* entries, as far as there are any, are not taken.
LEMMA StartBlock ==
    ASSUME NEW table \in [Slots -> Entry], NEW blocks \in 1 .. MaxBlocks,
           heap_get_start_block(table, blocks) # NoBlock
    PROVE  heap_get_start_block(table, blocks) \in Candidates(table, blocks)
<1> DEFINE C == Candidates(table, blocks)
<1>1. C # {}
  BY DEF heap_get_start_block
<1>2. C \in SUBSET Nat
  BY HeapConstants DEF Candidates, RunStarts, Blocks
<1>3. \E i \in C : \A j \in C : i <= j
  BY <1>1, <1>2, LeastBlock
<1> QED
  BY <1>1, <1>3 DEF heap_get_start_block

\* The scan fails only when the last entry of the table is taken.
LEMMA ScanFails ==
    ASSUME NEW table \in [Slots -> Entry], NEW blocks \in 1 .. MaxBlocks,
           heap_get_start_block(table, blocks) = NoBlock
    PROVE  ENTRY_TAKEN(table[HeapBlocks - 1])
<1> SUFFICES ASSUME ~ENTRY_TAKEN(table[HeapBlocks - 1])
             PROVE  FALSE
  OBVIOUS
<1> DEFINE Tail == {i \in Blocks : \A k \in i .. HeapBlocks - 1 : ~ENTRY_TAKEN(table[k])}
<1>1. HeapBlocks - 1 \in Tail
  BY HeapConstants DEF Blocks
<1>2. Tail \in SUBSET Nat
  BY HeapConstants DEF Blocks
<1>3. PICK i \in Tail : \A j \in Tail : i <= j
  <2> HIDE DEF Tail
  <2> QED BY <1>1, <1>2, LeastBlock
<1>4. i > 0 => ENTRY_TAKEN(table[i - 1])
  <2> SUFFICES ASSUME i > 0, ~ENTRY_TAKEN(table[i - 1])
               PROVE  FALSE
    OBVIOUS
  <2>1. i - 1 \in Tail
    BY HeapConstants DEF Blocks
  <2> QED BY <1>3, <2>1, HeapConstants DEF Blocks
<1>5. i \in Candidates(table, blocks)
  BY <1>4, HeapConstants DEF Candidates, RunStarts, Blocks
<1>6. heap_get_start_block(table, blocks) \in Candidates(table, blocks)
  <2>1. Candidates(table, blocks) \in SUBSET Nat
    BY HeapConstants DEF Candidates, RunStarts, Blocks
  <2>2. \E m \in Candidates(table, blocks) : \A j \in Candidates(table, blocks) : m <= j
    BY <1>5, <2>1, LeastBlock
  <2> QED BY <1>5, <2>2 DEF heap_get_start_block
<1> QED
  BY <1>6, HeapConstants DEF Candidates, RunStarts, Blocks, NoBlock

\* What marking writes is an entry that is taken, and of the entries of one
\* allocation only the first of several does not look like the last.
LEMMA EntryFlags ==
    ASSUME NEW k \in Nat, NEW n \in Nat
    PROVE  /\ EntryOf(k, n) \in Entry
           /\ ENTRY_TAKEN(EntryOf(k, n))
           /\ ENTRY_LAST(EntryOf(k, n)) <=> ~(k = 0 /\ n > 1)
<1>1. EntryOf(k, n) \in Entry
  BY DEF EntryOf, Entry
<1>2. ENTRY_TAKEN(EntryOf(k, n))
  BY DEF EntryOf, ENTRY_TAKEN
<1>3. "IS_FIRST" \in EntryOf(k, n) <=> k = 0
  BY DEF EntryOf
<1>4. "HAS_NEXT" \in EntryOf(k, n) <=> k < n - 1
  BY DEF EntryOf
<1> QED
  BY <1>1, <1>2, <1>3, <1>4 DEF ENTRY_LAST

\* Clearing or marking keeps the table a table.
LEMMA TableType ==
    ASSUME NEW table \in [Slots -> Entry], NEW s \in Blocks, NEW n \in 1 .. MaxBlocks
    PROVE  /\ heap_mark_block_taken(table, s, n) \in [Slots -> Entry]
           /\ heap_mark_block_free(table, s) \in [Slots -> Entry]
<1>1. \A i \in s .. s + n - 1 : EntryOf(i - s, n) \in Entry
  BY HeapConstants, EntryFlags DEF Blocks
<1>2. heap_mark_block_taken(table, s, n) \in [Slots -> Entry]
  BY <1>1 DEF heap_mark_block_taken
<1>3. heap_mark_block_free(table, s) \in [Slots -> Entry]
  BY DEF heap_mark_block_free, FREE, Entry
<1> QED
  BY <1>2, <1>3

-----------------------------------------------------------------------------
(* The inductive invariant.                                                *)

IInv == TypeOK /\ LiveDisjoint /\ LiveMarked

\* A grant lies in Slots, and every entry of a held one is taken.
LEMMA ExtentFacts ==
    ASSUME TypeOK, LiveMarked, NEW a \in live
    PROVE  /\ a.start \in Blocks /\ a.blocks \in 1 .. MaxBlocks
           /\ a.start \in Extent(a)
           /\ Extent(a) \subseteq Slots
           /\ \A i \in Extent(a) : ENTRY_TAKEN(entries[i])
<1>1. a.start \in Blocks /\ a.blocks \in 1 .. MaxBlocks
  BY DEF TypeOK, Grants
<1>2. a.start \in Extent(a) /\ Extent(a) \subseteq Slots
  BY <1>1, HeapConstants DEF Extent, Blocks, Slots
<1>3. ASSUME NEW i \in Extent(a)
      PROVE  ENTRY_TAKEN(entries[i])
  <2>1. i - a.start \in Nat /\ a.blocks \in Nat
    BY <1>1, HeapConstants DEF Extent, Blocks
  <2>2. ENTRY_TAKEN(EntryOf(i - a.start, a.blocks))
    BY <2>1, EntryFlags
  <2> QED BY <2>2 DEF LiveMarked
<1> QED
  BY <1>1, <1>2, <1>3

\* The blocks heap_malloc is about to hand out are nobody's, also where they
\* reach past the end of the table.
LEMMA NewGrantDisjoint ==
    ASSUME TypeOK, LiveMarked, NEW blocks \in 1 .. MaxBlocks,
           heap_get_start_block(entries, blocks) # NoBlock,
           NEW a \in live
    PROVE  LET s == heap_get_start_block(entries, blocks)
           IN  Extent(a) \cap (s .. s + blocks - 1) = {}
<1> DEFINE s == heap_get_start_block(entries, blocks)
<1>1. /\ s \in Blocks
      /\ \A k \in s .. s + blocks : k < HeapBlocks => ~ENTRY_TAKEN(entries[k])
  <2>1. s \in Candidates(entries, blocks)
    BY StartBlock DEF TypeOK
  <2> QED BY <2>1 DEF Candidates, RunStarts
<1> SUFFICES ASSUME NEW i \in Extent(a), i \in s .. s + blocks - 1
             PROVE  FALSE
  OBVIOUS
<1> HIDE DEF s
<1>2. a.start \in Blocks /\ a.blocks \in 1 .. MaxBlocks
  BY ExtentFacts
<1>3. CASE i < HeapBlocks
  BY <1>1, <1>3, ExtentFacts, HeapConstants DEF Blocks
<1>4. CASE i >= HeapBlocks
  <2>1. HeapBlocks - 1 \in Extent(a)
    BY <1>2, <1>4, HeapConstants DEF Extent, Blocks
  <2>2. HeapBlocks - 1 \in s .. s + blocks
    BY <1>1, <1>4, HeapConstants DEF Blocks
  <2> QED BY <1>1, <2>1, <2>2, ExtentFacts, HeapConstants
<1> QED
  BY <1>2, <1>3, <1>4, HeapConstants DEF Extent, Blocks

\* Freeing a held pointer clears entries of its own allocation only.
LEMMA ClearedIsOwn ==
    ASSUME TypeOK, LiveMarked, NEW a \in live
    PROVE  Cleared(entries, a.start) \subseteq Extent(a)
<1> DEFINE z == a.start + a.blocks - 1
<1>1. a.start \in Nat /\ a.blocks \in Nat \ {0} /\ z \in Extent(a)
  BY ExtentFacts, HeapConstants DEF Extent, Blocks
<1>2. entries[z] = EntryOf(a.blocks - 1, a.blocks)
  <2>1. entries[z] = EntryOf(z - a.start, a.blocks)
    BY <1>1 DEF LiveMarked
  <2> QED BY <1>1, <2>1
<1>3. ENTRY_LAST(entries[z])
  <2>1. ENTRY_LAST(EntryOf(a.blocks - 1, a.blocks))
    BY <1>1, EntryFlags
  <2> QED BY <1>2, <2>1
<1>4. ASSUME NEW k \in Cleared(entries, a.start), k > z
      PROVE  FALSE
  <2>1. z \in a.start .. k /\ z < k
    BY <1>1, <1>4, HeapConstants DEF Cleared, Slots
  <2> QED BY <1>3, <2>1 DEF Cleared
<1> QED
  BY <1>1, <1>4, HeapConstants DEF Cleared, Extent, Slots

LEMMA InitInv == Init => IInv
<1> SUFFICES ASSUME Init PROVE IInv
  OBVIOUS
<1>1. entries \in [Slots -> Entry]
  BY DEF Init, FREE, Entry
<1> QED
  BY <1>1 DEF Init, IInv, TypeOK, LiveDisjoint, LiveMarked

\* mallock: the new grant is typed, disjoint from the others and marked, and
\* the others are still marked.
LEMMA MallocInv ==
    ASSUME IInv, NEW size \in Sizes, Malloc(size)
    PROVE  IInv'
<1> DEFINE n == get_total_block(size)
           s == heap_get_start_block(entries, n)
           g == [start |-> s, blocks |-> n]
<1>1. n \in 1 .. MaxBlocks
  BY SizesFit DEF Malloc
<1>2. /\ s # NoBlock
      /\ entries' = heap_mark_block_taken(entries, s, n)
      /\ live' = live \cup {g}
  BY DEF Malloc
<1>3. s \in Blocks
  BY <1>1, <1>2, StartBlock DEF IInv, TypeOK, Candidates, RunStarts
<1>4. \A a \in live : Extent(a) \cap (s .. s + n - 1) = {}
  BY <1>1, <1>2, NewGrantDisjoint DEF IInv
<1> HIDE DEF s, n
<1>5. Extent(g) = s .. s + n - 1
  BY DEF Extent
<1>6. TypeOK'
  <2>1. entries' \in [Slots -> Entry]
    BY <1>1, <1>2, <1>3, TableType DEF IInv, TypeOK
  <2>2. g \in Grants
    BY <1>1, <1>3 DEF Grants
  <2> QED BY <1>2, <2>1, <2>2 DEF IInv, TypeOK
<1>7. LiveDisjoint'
  <2> SUFFICES ASSUME NEW a \in live', NEW b \in live', a # b
               PROVE  Extent(a) \cap Extent(b) = {}
    BY DEF LiveDisjoint, Extent
  <2>1. CASE a \in live /\ b \in live
    BY <2>1 DEF IInv, LiveDisjoint
  <2>2. CASE a \in live /\ b = g
    BY <1>4, <1>5, <2>2
  <2>3. CASE a = g /\ b \in live
    BY <1>4, <1>5, <2>3
  <2> QED BY <1>2, <2>1, <2>2, <2>3
<1>8. LiveMarked'
  <2> SUFFICES ASSUME NEW a \in live', NEW i \in Extent(a)
               PROVE  entries'[i] = EntryOf(i - a.start, a.blocks)
    BY DEF LiveMarked, Extent
  <2>1. CASE a \in live
    <3>1. i \in Slots /\ i \notin s .. s + n - 1
      BY <1>4, <2>1, ExtentFacts DEF IInv
    <3>2. entries'[i] = entries[i]
      BY <1>2, <3>1 DEF heap_mark_block_taken
    <3> QED BY <2>1, <3>2 DEF IInv, LiveMarked
  <2>2. CASE a = g
    <3>1. i \in s .. s + n - 1
      BY <1>5, <2>2
    <3>2. i \in Slots
      BY <1>1, <1>3, <3>1, HeapConstants DEF Blocks, Slots
    <3> QED BY <1>2, <2>2, <3>1, <3>2 DEF heap_mark_block_taken
  <2> QED BY <1>2, <2>1, <2>2
<1> QED
  BY <1>6, <1>7, <1>8 DEF IInv

\* freek: the freed grant leaves live and nothing of the others is cleared.
LEMMA FreeInv ==
    ASSUME IInv, NEW f \in live, Free(f)
    PROVE  IInv'
<1>1. /\ entries' = heap_mark_block_free(entries, f.start)
      /\ live' = live \ {f}
  BY DEF Free
<1>2. TypeOK'
  <2>1. f.start \in Blocks /\ f.blocks \in 1 .. MaxBlocks
    BY DEF IInv, TypeOK, Grants
  <2>2. entries' \in [Slots -> Entry]
    BY <1>1, <2>1, TableType DEF IInv, TypeOK
  <2> QED BY <1>1, <2>2 DEF IInv, TypeOK
<1>3. LiveDisjoint'
  BY <1>1 DEF IInv, LiveDisjoint, Extent
<1>4. LiveMarked'
  <2> SUFFICES ASSUME NEW a \in live', NEW i \in Extent(a)
               PROVE  entries'[i] = EntryOf(i - a.start, a.blocks)
    BY DEF LiveMarked, Extent
  <2>1. a \in live /\ a # f
    BY <1>1
  <2>2. i \in Slots
    BY <2>1, ExtentFacts DEF IInv
  <2>3. i \notin Extent(f)
    BY <2>1 DEF IInv, LiveDisjoint
  <2>4. i \notin Cleared(entries, f.start)
    BY <2>3, ClearedIsOwn DEF IInv
  <2>5. entries'[i] = entries[i]
    BY <1>1, <2>2, <2>4 DEF heap_mark_block_free
  <2> QED BY <2>1, <2>5 DEF IInv, LiveMarked
<1> QED
  BY <1>2, <1>3, <1>4 DEF IInv

LEMMA NextInv == IInv /\ [Next]_vars => IInv'
<1> SUFFICES ASSUME IInv, [Next]_vars PROVE IInv'
  OBVIOUS
<1>1. CASE \E size \in Sizes : Malloc(size)
  BY <1>1, MallocInv
<1>2. CASE \E f \in live : Free(f)
  BY <1>2, FreeInv
<1>3. CASE UNCHANGED vars
  BY <1>3 DEF vars, IInv, TypeOK, LiveDisjoint, LiveMarked, Extent
<1>4. CASE \E size \in Sizes : MallocFails(size)
  BY <1>3, <1>4 DEF MallocFails
<1> QED
  BY <1>1, <1>2, <1>3, <1>4 DEF Next

THEOREM InvHolds == Spec => []IInv
BY InitInv, NextInv, PTL DEF Spec

-----------------------------------------------------------------------------
(* The properties.                                                         *)

\* Type correctness of the heap: the table stays a table of flag bytes, and
\* every pointer handed out is a block address of the heap.
THEOREM TypeCorrect == Spec => []TypeOK
BY InvHolds, PTL DEF IInv

\* No block is handed out twice, for any heap, any sizes, any order of
\* mallock and freek, although the scan may hand out too short a run and
\* release may stop too early.
THEOREM GrantsDisjoint == Spec => []LiveDisjoint
BY InvHolds, PTL DEF IInv

\* The entries of a held allocation keep the flags marking gave them.
THEOREM GrantsMarked == Spec => []LiveMarked
BY InvHolds, PTL DEF IInv

\* Each call changes entries of one allocation only, the one it hands out or
\* takes back.
THEOREM CallsAreLocal == Spec => OnlyOwnEntries
<1> DEFINE Local == \A i \in Slots : entries'[i] # entries[i] =>
                       \E a \in (live \ live') \cup (live' \ live) : i \in Extent(a)
<1>1. IInv /\ [Next]_vars => [Local]_vars
  <2> SUFFICES ASSUME IInv, Next, NEW i \in Slots, entries'[i] # entries[i]
               PROVE  \E a \in (live \ live') \cup (live' \ live) : i \in Extent(a)
    OBVIOUS
  <2>1. ASSUME NEW size \in Sizes, Malloc(size)
        PROVE  \E a \in live' \ live : i \in Extent(a)
    <3> DEFINE n == get_total_block(size)
               s == heap_get_start_block(entries, n)
               g == [start |-> s, blocks |-> n]
    <3>1. /\ n \in 1 .. MaxBlocks /\ s # NoBlock
          /\ entries' = heap_mark_block_taken(entries, s, n)
          /\ live' = live \cup {g}
      BY <2>1, SizesFit DEF Malloc
    <3>2. s \in Blocks
      BY <3>1, StartBlock DEF IInv, TypeOK, Candidates, RunStarts
    <3>3. \A a \in live : Extent(a) \cap (s .. s + n - 1) = {}
      BY <3>1, NewGrantDisjoint DEF IInv
    <3> HIDE DEF s, n
    <3>4. i \in s .. s + n - 1
      BY <3>1 DEF heap_mark_block_taken
    <3>5. i \in Extent(g)
      BY <3>4 DEF Extent
    <3>6. g \notin live
      BY <3>3, <3>4, <3>5
    <3> QED BY <3>1, <3>5, <3>6
  <2>2. ASSUME NEW f \in live, Free(f)
        PROVE  \E a \in live \ live' : i \in Extent(a)
    <3>1. i \in Cleared(entries, f.start)
      BY <2>2 DEF Free, heap_mark_block_free
    <3> QED BY <2>2, <3>1, ClearedIsOwn DEF Free, IInv
  <2>3. ASSUME NEW size \in Sizes, MallocFails(size)
        PROVE  FALSE
    BY <2>3 DEF MallocFails, vars
  <2> QED BY <2>1, <2>2, <2>3 DEF Next
<1> QED
  BY <1>1, InvHolds, PTL DEF Spec, OnlyOwnEntries

\* The heap implements the allocator that knows no table: Malloc is a grant,
\* Free a release, a refusal a stutter.
THEOREM ImplementsAllocator == Spec => AllocatorSpec
<1>1. Init => Allocator!Init
  BY DEF Init, Allocator!Init
<1>2. IInv /\ [Next]_vars => [Allocator!Next]_live
  <2> SUFFICES ASSUME IInv, [Next]_vars PROVE [Allocator!Next]_live
    OBVIOUS
  <2>1. ASSUME NEW size \in Sizes, Malloc(size)
        PROVE  Allocator!Grant
    <3> DEFINE n == get_total_block(size)
               s == heap_get_start_block(entries, n)
               g == [start |-> s, blocks |-> n]
    <3>1. n \in 1 .. MaxBlocks /\ s # NoBlock /\ live' = live \cup {g}
      BY <2>1, SizesFit DEF Malloc
    <3>2. s \in Blocks
      BY <3>1, StartBlock DEF IInv, TypeOK, Candidates, RunStarts
    <3>3. \A a \in live : Extent(a) \cap (s .. s + n - 1) = {}
      BY <3>1, NewGrantDisjoint DEF IInv
    <3> HIDE DEF s, n
    <3>4. g \in Allocator!Grants
      BY <3>1, <3>2 DEF Allocator!Grants
    <3>5. \A a \in live : Allocator!Extent(g) \cap Allocator!Extent(a) = {}
      BY <3>3 DEF Allocator!Extent, Extent
    <3> QED BY <3>1, <3>4, <3>5 DEF Allocator!Grant
  <2>2. ASSUME NEW f \in live, Free(f)
        PROVE  Allocator!Release
    BY <2>2 DEF Free, Allocator!Release
  <2>3. ASSUME NEW size \in Sizes, MallocFails(size)
        PROVE  UNCHANGED live
    BY <2>3 DEF MallocFails, vars
  <2>4. CASE UNCHANGED vars
    BY <2>4 DEF vars
  <2> QED BY <2>1, <2>2, <2>3, <2>4 DEF Next, Allocator!Next
<1> QED
  BY <1>1, <1>2, InvHolds, PTL DEF Spec, AllocatorSpec, Allocator!Spec

\* Freeing an allocation of one or two blocks clears all of it.
LEMMA ClearedIsAll ==
    ASSUME TypeOK, LiveMarked, NEW a \in live, a.blocks <= 2
    PROVE  Extent(a) \subseteq Cleared(entries, a.start)
<1> SUFFICES ASSUME NEW k \in Extent(a) PROVE k \in Cleared(entries, a.start)
  OBVIOUS
<1>1. /\ a.start \in Nat /\ a.blocks \in {1, 2}
      /\ k \in a.start .. a.start + a.blocks - 1 /\ k \in Slots
  BY ExtentFacts, HeapConstants DEF Extent, Blocks
<1>2. \A j \in a.start .. k : j \in Extent(a)
  BY <1>1 DEF Extent
<1>3. \A j \in a.start .. k : ENTRY_TAKEN(entries[j])
  BY <1>2, ExtentFacts
<1>4. ASSUME NEW j \in a.start .. k, j < k
      PROVE  ~ENTRY_LAST(entries[j])
  <2>1. j = a.start /\ a.blocks = 2
    BY <1>1, <1>4
  <2>2. ~ENTRY_LAST(EntryOf(0, 2))
    BY EntryFlags
  <2>3. entries[j] = EntryOf(j - a.start, a.blocks)
    BY <1>2 DEF LiveMarked
  <2>4. j - a.start = 0
    BY <1>1, <2>1
  <2> QED BY <2>1, <2>2, <2>3, <2>4
<1> QED
  BY <1>1, <1>3, <1>4 DEF Cleared

\* With requests of at most two blocks every taken entry is somebody's.
LEMMA NoLeakStep ==
    ASSUME MaxBlocks <= 2, IInv, NoLeak, [Next]_vars
    PROVE  NoLeak'
<1> SUFFICES ASSUME NEW i \in Blocks, ENTRY_TAKEN(entries'[i])
             PROVE  \E a \in live' : i \in Extent(a)
  BY DEF NoLeak, Extent
<1> i \in Slots
  BY HeapConstants DEF Blocks, Slots
<1>1. ASSUME NEW size \in Sizes, Malloc(size)
      PROVE  \E a \in live' : i \in Extent(a)
  <2> DEFINE n == get_total_block(size)
             s == heap_get_start_block(entries, n)
             g == [start |-> s, blocks |-> n]
  <2>1. entries' = heap_mark_block_taken(entries, s, n) /\ live' = live \cup {g}
    BY <1>1 DEF Malloc
  <2> HIDE DEF s, n
  <2>2. CASE i \in s .. s + n - 1
    <3>1. i \in Extent(g)
      BY <2>2 DEF Extent
    <3> QED BY <2>1, <3>1
  <2>3. CASE i \notin s .. s + n - 1
    BY <2>1, <2>3 DEF heap_mark_block_taken, NoLeak
  <2> QED BY <2>2, <2>3
<1>2. ASSUME NEW f \in live, Free(f)
      PROVE  \E a \in live' : i \in Extent(a)
  <2>1. i \notin Cleared(entries, f.start) /\ entries'[i] = entries[i]
    BY <1>2 DEF Free, heap_mark_block_free, FREE, ENTRY_TAKEN
  <2>2. f.blocks <= 2
    BY HeapConstants DEF IInv, TypeOK, Grants
  <2>3. i \notin Extent(f)
    BY <2>1, <2>2, ClearedIsAll DEF IInv
  <2> QED BY <1>2, <2>1, <2>3 DEF NoLeak, Free
<1>3. ASSUME UNCHANGED vars
      PROVE  \E a \in live' : i \in Extent(a)
  BY <1>3 DEF vars, NoLeak
<1> QED
  BY <1>1, <1>2, <1>3 DEF Next, MallocFails

\* While no request is longer than two blocks, release is complete: the
\* table forgets nothing and a taken entry is always held by a caller.
THEOREM NoLeakUpToTwoBlocks == ASSUME MaxBlocks <= 2 PROVE Spec => []NoLeak
<1>1. Init => NoLeak
  <2> SUFFICES ASSUME Init, NEW i \in Blocks PROVE ~ENTRY_TAKEN(entries[i])
    BY DEF NoLeak
  <2>1. i \in Slots
    BY HeapConstants DEF Blocks, Slots
  <2> QED BY <2>1 DEF Init, FREE, ENTRY_TAKEN
<1>2. IInv /\ NoLeak /\ [Next]_vars => NoLeak'
  BY NoLeakStep
<1> QED
  BY <1>1, <1>2, InvHolds, PTL DEF Spec

\* While no request is longer than two blocks, mallock refuses one only when
\* some caller holds the last block of the heap.
THEOREM RefusalIsJustified ==
    ASSUME MaxBlocks <= 2 PROVE Spec => []RefusedOnlyWhileEndHeld
<1>1. IInv /\ NoLeak => RefusedOnlyWhileEndHeld
  <2> SUFFICES ASSUME IInv, NoLeak, NEW size \in Sizes \ {0},
                      heap_get_start_block(entries, get_total_block(size)) = NoBlock
               PROVE  \E a \in live : HeapBlocks - 1 \in Extent(a)
    BY DEF RefusedOnlyWhileEndHeld
  <2>1. ENTRY_TAKEN(entries[HeapBlocks - 1])
    BY SizesFit, ScanFails DEF IInv, TypeOK
  <2> QED BY <2>1, HeapConstants DEF NoLeak, Blocks
<1> QED
  BY <1>1, InvHolds, NoLeakUpToTwoBlocks, PTL

-----------------------------------------------------------------------------
(* Programs and kernel over one heap.                                      *)

\* The slots in use, and the grants they name.
Used(t) == {i \in Indices : t[i].addr # NoAddr}
Named(t, i) == [start |-> t[i].addr - UserHeap, blocks |-> t[i].pages]

\* The pages at which grants are seen map to them, all others to themselves.
Maps(table, grants) ==
    \A v \in Pages :
        table[v] = IF \E a \in grants : v \in Seen(a)
                   THEN [frame |-> v - UserHeap + KernelHeapStart, user |-> TRUE]
                   ELSE [frame |-> v, user |-> FALSE]

Names(t, grants) ==
    /\ grants = {Named(t, i) : i \in Used(t)}
    /\ \A i, j \in Used(t) : i # j => t[i].addr # t[j].addr

Holds(table, t, grants) ==
    /\ table \in [Pages -> [frame : Pages, user : BOOLEAN]]
    /\ t \in [Indices -> [addr : Pages, pages : 0 .. MaxBlocks]]
    /\ Maps(table, grants)
    /\ Names(t, grants)

HeldApart == \A p, q \in Processes : p # q => held[p] \cap held[q] = {}

UserInv ==
    /\ IInv /\ UserTypeOK
    /\ HeldApart
    /\ \A p \in Processes : Holds(pages[p], allocations[p], held[p])

-----------------------------------------------------------------------------
(* One process.                                                            *)

LEMMA UserNumbers ==
    /\ HeapBlocks \in Nat \ {0} /\ MaxBlocks \in Nat \ {0}
    /\ MaxAllocations \in Nat \ {0} /\ UserHeap \in Nat \ {0}
    /\ KernelHeapStart \in Nat /\ UserHeap < KernelHeapStart
BY HeapConstants, UserMemoryConstants

\* The slot the code takes is one of those it looks for.
LEMMA FirstIsOne ==
    ASSUME NEW S \in SUBSET Indices, S # {}
    PROVE  First(S) \in S
<1>1. S \in SUBSET Nat
  BY UserNumbers DEF Indices
<1>2. \E i \in S : \A j \in S : i <= j
  BY <1>1, LeastBlock
<1> QED BY <1>2 DEF First

\* Where a grant is seen, and that its pages exist.
LEMMA SeenAt ==
    ASSUME NEW a \in Grants
    PROVE  /\ Seen(a) = UserHeap + a.start .. UserHeap + a.start + a.blocks - 1
           /\ Seen(a) \subseteq Pages
           /\ \A v \in Seen(a) : v - UserHeap \in Extent(a) /\ v - UserHeap + KernelHeapStart \in Pages
           /\ UserHeap + a.start \in Seen(a) /\ a.start \in Extent(a)
<1>1. /\ a.start \in Nat /\ a.start <= HeapBlocks - 1
      /\ a.blocks \in Nat /\ 1 <= a.blocks /\ a.blocks <= MaxBlocks
  BY UserNumbers DEF Grants, Blocks
<1>2. ASSUME NEW v \in Seen(a)
      PROVE  v \in UserHeap + a.start .. UserHeap + a.start + a.blocks - 1
  BY <1>1, <1>2, UserNumbers DEF Seen, Extent
<1>3. ASSUME NEW v \in UserHeap + a.start .. UserHeap + a.start + a.blocks - 1
      PROVE  v \in Seen(a)
  <2>1. v - UserHeap \in Extent(a) /\ v = UserHeap + (v - UserHeap)
    BY <1>1, UserNumbers DEF Extent
  <2> QED BY <2>1 DEF Seen
<1>4. Seen(a) = UserHeap + a.start .. UserHeap + a.start + a.blocks - 1
  BY <1>2, <1>3
<1>5. ASSUME NEW v \in UserHeap + a.start .. UserHeap + a.start + a.blocks - 1
      PROVE  /\ v \in Pages /\ v - UserHeap \in Extent(a)
             /\ v - UserHeap + KernelHeapStart \in Pages
  BY <1>1, UserNumbers DEF Pages, Extent
<1>6. /\ UserHeap + a.start \in UserHeap + a.start .. UserHeap + a.start + a.blocks - 1
      /\ a.start \in Extent(a)
  BY <1>1, UserNumbers DEF Extent
<1> QED BY <1>4, <1>5, <1>6

\* A page seen in two grants would be a block of both.
LEMMA SeenApart ==
    ASSUME NEW a \in Grants, NEW b \in Grants, Extent(a) \cap Extent(b) = {}
    PROVE  Seen(a) \cap Seen(b) = {}
BY SeenAt

\* A process that takes a grant apart from its others.
LEMMA HoldsMore ==
    ASSUME NEW table, NEW t, NEW G \in SUBSET Grants, Holds(table, t, G),
           NEW g \in Grants, \A a \in G : Extent(a) \cap Extent(g) = {},
           NEW slot \in Indices, t[slot].addr = NoAddr
    PROVE  Holds(paging_map_to(table, UserHeap + g.start, KernelHeapStart + g.start,
                               KernelHeapStart + g.start + g.blocks, TRUE),
                 [t EXCEPT ![slot] = [addr |-> UserHeap + g.start, pages |-> g.blocks]],
                 G \cup {g})
<1> DEFINE virt == UserHeap + g.start
           ptr == KernelHeapStart + g.start
           table2 == paging_map_to(table, virt, ptr, ptr + g.blocks, TRUE)
           t2 == [t EXCEPT ![slot] = [addr |-> virt, pages |-> g.blocks]]
<1>1. /\ g.start \in Nat /\ g.blocks \in 1 .. MaxBlocks
      /\ virt \in Pages /\ virt # 0 /\ ptr \in Nat
      /\ Seen(g) = virt .. virt + g.blocks - 1
  <2>1. g.start \in Nat /\ g.blocks \in 1 .. MaxBlocks
    BY UserNumbers DEF Grants, Blocks
  <2>2. virt \in Pages /\ Seen(g) = virt .. virt + g.blocks - 1
    BY SeenAt
  <2> QED BY <2>1, <2>2, UserNumbers
<1>2. table2 = [v \in Pages |-> IF v \in Seen(g)
                                THEN [frame |-> v - UserHeap + KernelHeapStart, user |-> TRUE]
                                ELSE table[v]]
  <2>1. (ptr + g.blocks) - ptr = g.blocks
    BY <1>1
  <2>2. ASSUME NEW v \in Pages PROVE ptr + (v - virt) = v - UserHeap + KernelHeapStart
    BY <1>1, UserNumbers DEF Pages
  <2> QED BY <1>1, <2>1, <2>2 DEF paging_map_to
<1>3. table2 \in [Pages -> [frame : Pages, user : BOOLEAN]]
  <2>1. \A v \in Pages : table[v] \in [frame : Pages, user : BOOLEAN]
    BY DEF Holds
  <2>2. \A v \in Seen(g) : v - UserHeap + KernelHeapStart \in Pages
    BY SeenAt
  <2> HIDE DEF table2
  <2> QED BY <1>2, <2>1, <2>2
<1>4. Maps(table2, G \cup {g})
  BY <1>2 DEF Holds, Maps
<1>5. t2 \in [Indices -> [addr : Pages, pages : 0 .. MaxBlocks]]
  BY <1>1 DEF Holds
<1>6. Used(t2) = Used(t) \cup {slot} /\ slot \notin Used(t)
  BY <1>1 DEF Used, Holds, NoAddr
<1>7. /\ \A i \in Used(t) : t2[i] = t[i]
      /\ t2[slot] = [addr |-> virt, pages |-> g.blocks]
  BY <1>6 DEF Holds, Used
<1>8. Named(t2, slot) = g
  <2>1. virt - UserHeap = g.start
    BY <1>1, UserNumbers
  <2> QED BY <1>7, <2>1 DEF Named, Grants
<1>9. \A i \in Used(t) : Named(t2, i) = Named(t, i)
  BY <1>7 DEF Named
<1>10. G \cup {g} = {Named(t2, i) : i \in Used(t2)}
  BY <1>6, <1>8, <1>9 DEF Holds, Names
<1>11. ASSUME NEW i \in Used(t) PROVE t[i].addr # virt
  <2>1. Named(t, i) \in G
    BY DEF Holds, Names
  <2>2. Named(t, i).start # g.start
    BY <2>1, SeenAt
  <2> QED BY <1>1, <2>2, UserNumbers DEF Named
<1>12. \A i, j \in Used(t2) : i # j => t2[i].addr # t2[j].addr
  BY <1>6, <1>7, <1>11 DEF Holds, Names
<1> QED BY <1>3, <1>4, <1>5, <1>10, <1>12 DEF Holds, Names

\* What an address of the allocations table leads to.
LEMMA NamedIsHeld ==
    ASSUME NEW table, NEW t, NEW G \in SUBSET Grants, Holds(table, t, G),
           NEW slot \in Used(t)
    PROVE  /\ Named(t, slot) \in G
           /\ paging_get_physical_addr(table, t[slot].addr) - KernelHeapStart
                 = Named(t, slot).start
<1>1. Named(t, slot) \in G /\ Named(t, slot) \in Grants
  BY DEF Holds, Names
<1>2. t[slot].addr \in Pages
  BY DEF Holds, Used
<1>3. t[slot].addr = UserHeap + Named(t, slot).start
  BY <1>2, UserNumbers DEF Named, Pages
<1>4. t[slot].addr \in Seen(Named(t, slot))
  BY <1>1, <1>3, SeenAt
<1>5. table[t[slot].addr].frame = t[slot].addr - UserHeap + KernelHeapStart
  BY <1>1, <1>2, <1>4 DEF Holds, Maps
<1>6. (t[slot].addr - UserHeap + KernelHeapStart) - KernelHeapStart = t[slot].addr - UserHeap
  BY <1>2, UserNumbers DEF Pages
<1> QED BY <1>1, <1>5, <1>6 DEF paging_get_physical_addr, Named

\* A process that gives a grant back.
LEMMA HoldsLess ==
    ASSUME NEW table, NEW t, NEW G \in SUBSET Grants, Holds(table, t, G),
           \A a, b \in G : a # b => Extent(a) \cap Extent(b) = {},
           NEW slot \in Used(t)
    PROVE  Holds(paging_map_to(table, t[slot].addr, t[slot].addr,
                               t[slot].addr + t[slot].pages, FALSE),
                 [t EXCEPT ![slot].addr = NoAddr],
                 G \ {Named(t, slot)})
<1> DEFINE virt == t[slot].addr
           g == Named(t, slot)
           table2 == paging_map_to(table, virt, virt, virt + t[slot].pages, FALSE)
           t2 == [t EXCEPT ![slot].addr = NoAddr]
<1>1. g \in G /\ g \in Grants /\ slot \in Indices
  BY NamedIsHeld DEF Used
<1>2. virt \in Pages /\ virt # 0 /\ t[slot].pages = g.blocks /\ g.blocks \in 1 .. MaxBlocks
  BY <1>1 DEF Holds, Used, NoAddr, Named, Grants
<1>3. virt = UserHeap + g.start
  BY <1>2, UserNumbers DEF Named, Pages
<1>4. Seen(g) = virt .. virt + g.blocks - 1
  BY <1>1, <1>3, SeenAt
<1>5. table2 = [v \in Pages |-> IF v \in Seen(g) THEN [frame |-> v, user |-> FALSE]
                                ELSE table[v]]
  <2>1. (virt + t[slot].pages) - virt = g.blocks
    BY <1>2, UserNumbers DEF Pages
  <2>2. ASSUME NEW v \in Pages PROVE virt + (v - virt) = v
    BY <1>2, UserNumbers DEF Pages
  <2> QED BY <1>2, <1>4, <2>1, <2>2 DEF paging_map_to
<1>6. table2 \in [Pages -> [frame : Pages, user : BOOLEAN]]
  <2>1. \A v \in Pages : table[v] \in [frame : Pages, user : BOOLEAN]
    BY DEF Holds
  <2> HIDE DEF table2
  <2> QED BY <1>5, <2>1
<1>7. \A a \in G \ {g} : Seen(a) \cap Seen(g) = {}
  BY <1>1, SeenApart
<1>8. Maps(table2, G \ {g})
  <2> SUFFICES ASSUME NEW v \in Pages
               PROVE  table2[v] = IF \E a \in G \ {g} : v \in Seen(a)
                                  THEN [frame |-> v - UserHeap + KernelHeapStart, user |-> TRUE]
                                  ELSE [frame |-> v, user |-> FALSE]
    BY DEF Maps
  <2>1. CASE v \in Seen(g)
    BY <1>5, <1>7, <2>1
  <2>2. CASE v \notin Seen(g)
    <3>1. (\E a \in G : v \in Seen(a)) <=> (\E a \in G \ {g} : v \in Seen(a))
      BY <2>2
    <3> QED BY <1>5, <2>2, <3>1 DEF Holds, Maps
  <2> QED BY <2>1, <2>2
<1>9. t2 \in [Indices -> [addr : Pages, pages : 0 .. MaxBlocks]]
  BY <1>1, UserNumbers DEF Holds, Pages, NoAddr
<1>10. Used(t2) = Used(t) \ {slot}
  BY <1>1 DEF Used, Holds
<1>11. \A i \in Used(t2) : t2[i] = t[i] /\ Named(t2, i) = Named(t, i)
  BY <1>10 DEF Holds, Used, Named
<1>12. ASSUME NEW i \in Used(t2) PROVE Named(t, i) # g
  <2>1. t[i].addr # virt /\ t[i].addr \in Pages
    BY <1>10 DEF Holds, Names, Used
  <2>2. t[i].addr - UserHeap # virt - UserHeap
    BY <1>2, <2>1, UserNumbers DEF Pages
  <2> QED BY <2>2 DEF Named
<1>13. G \ {g} = {Named(t2, i) : i \in Used(t2)}
  <2>1. G = {Named(t, i) : i \in Used(t)}
    BY DEF Holds, Names
  <2>2. {Named(t2, i) : i \in Used(t2)} = {Named(t, i) : i \in Used(t) \ {slot}}
    BY <1>10, <1>11
  <2>3. \A i \in Used(t) \ {slot} : Named(t, i) # g
    BY <1>10, <1>12
  <2> HIDE DEF t2
  <2> QED BY <2>1, <2>2, <2>3
<1>14. \A i, j \in Used(t2) : i # j => t2[i].addr # t2[j].addr
  BY <1>10, <1>11 DEF Holds, Names
<1> QED BY <1>6, <1>8, <1>9, <1>13, <1>14 DEF Holds, Names
-----------------------------------------------------------------------------
(* All of them.                                                            *)

LEMMA UserInitInv == UserInit => UserInv
<1> SUFFICES ASSUME UserInit PROVE UserInv
  OBVIOUS
<1>1. IInv
  BY InitInv DEF UserInit
<1>2. ASSUME NEW p \in Processes
      PROVE  Holds(pages[p], allocations[p], held[p])
  <2>1. /\ pages[p] = [v \in Pages |-> [frame |-> v, user |-> FALSE]]
        /\ allocations[p] = [i \in Indices |-> [addr |-> NoAddr, pages |-> 0]]
        /\ held[p] = {}
    BY DEF UserInit, paging_get_new_4gb_chunk
  <2>2. NoAddr \in Pages /\ 0 \in 0 .. MaxBlocks
    BY UserNumbers DEF NoAddr, Pages
  <2>3. Used(allocations[p]) = {}
    BY <2>1 DEF Used
  <2>4. Maps(pages[p], held[p])
    BY <2>1 DEF Maps
  <2>5. Names(allocations[p], held[p])
    BY <2>1, <2>3 DEF Names
  <2>6. /\ pages[p] \in [Pages -> [frame : Pages, user : BOOLEAN]]
        /\ allocations[p] \in [Indices -> [addr : Pages, pages : 0 .. MaxBlocks]]
    BY <2>1, <2>2
  <2> QED BY <2>4, <2>5, <2>6 DEF Holds
<1>3. /\ pages \in [Processes -> [Pages -> [frame : Pages, user : BOOLEAN]]]
      /\ allocations \in [Processes -> [Indices -> [addr : Pages, pages : 0 .. MaxBlocks]]]
  BY <1>2 DEF UserInit, Holds
<1> QED BY <1>1, <1>2, <1>3 DEF UserInit, UserInv, UserTypeOK, IInv, HeldApart

\* What mallock hands out is apart from everything held.
LEMMA Granted ==
    ASSUME IInv, NEW size \in Sizes, Malloc(size)
    PROVE  LET n == get_total_block(size)
               s == heap_get_start_block(entries, n)
               g == [start |-> s, blocks |-> n]
           IN  /\ g \in Grants /\ g \notin live
               /\ live' = live \cup {g} /\ live' \ live = {g}
               /\ \A a \in live : Extent(a) \cap Extent(g) = {}
<1> DEFINE n == get_total_block(size)
           s == heap_get_start_block(entries, n)
           g == [start |-> s, blocks |-> n]
<1>1. n \in 1 .. MaxBlocks /\ s # NoBlock /\ live' = live \cup {g}
  BY SizesFit DEF Malloc
<1>2. s \in Blocks
  BY <1>1, StartBlock DEF IInv, TypeOK, Candidates, RunStarts
<1>3. \A a \in live : Extent(a) \cap (s .. s + n - 1) = {}
  BY <1>1, NewGrantDisjoint DEF IInv
<1> HIDE DEF s, n
<1>4. g \in Grants /\ Extent(g) = s .. s + n - 1
  BY <1>1, <1>2 DEF Grants, Extent
<1>5. g.start \in Extent(g)
  BY <1>4, SeenAt
<1>6. g \notin live
  BY <1>3, <1>4, <1>5
<1> QED BY <1>1, <1>3, <1>4, <1>6 DEF n, s

LEMMA KernelMallocInv ==
    ASSUME UserInv, NEW size \in Sizes, KernelMalloc(size)
    PROVE  UserInv'
<1>1. IInv'
  BY MallocInv DEF UserInv, KernelMalloc
<1>2. live \subseteq live'
  BY DEF KernelMalloc, Malloc
<1> QED BY <1>1, <1>2 DEF UserInv, UserTypeOK, IInv, KernelMalloc, userVars, HeldApart

\* The grants of one process lie in the heap and apart.
LEMMA HeldFacts ==
    ASSUME UserInv, NEW p \in Processes
    PROVE  /\ held[p] \subseteq live /\ held[p] \in SUBSET Grants
           /\ \A a, b \in held[p] : a # b => Extent(a) \cap Extent(b) = {}
           /\ Holds(pages[p], allocations[p], held[p])
<1>1. held[p] \subseteq live
  BY DEF UserInv, UserTypeOK
<1> QED BY <1>1 DEF UserInv, UserTypeOK, IInv, TypeOK, LiveDisjoint

LEMMA KernelFreeInv ==
    ASSUME UserInv, NEW a \in live, KernelFree(a)
    PROVE  UserInv'
<1>1. IInv'
  BY FreeInv DEF UserInv, KernelFree
<1>2. live' = live \ {a} /\ \A p \in Processes : a \notin held[p]
  BY DEF KernelFree, Free
<1>3. held' = held /\ held \in [Processes -> SUBSET live']
  BY <1>2 DEF UserInv, UserTypeOK, KernelFree, userVars
<1> QED BY <1>1, <1>3 DEF UserInv, UserTypeOK, IInv, KernelFree, userVars, HeldApart

\* The whole invariant from what happens to the running process.
LEMMA OneProcess ==
    ASSUME UserInv, IInv', NEW table, NEW t, NEW G,
           pages' = [pages EXCEPT ![running] = table],
           allocations' = [allocations EXCEPT ![running] = t],
           held' = [held EXCEPT ![running] = G],
           UNCHANGED <<running, stray>>,
           Holds(table, t, G), G \subseteq live',
           \A q \in Processes \ {running} : held[q] \subseteq live' /\ held[q] \cap G = {}
    PROVE  UserInv'
<1>1. running \in Processes
  BY DEF UserInv, UserTypeOK
<1>2. /\ held'[running] = G /\ pages'[running] = table /\ allocations'[running] = t
      /\ \A q \in Processes \ {running} :
            held'[q] = held[q] /\ pages'[q] = pages[q] /\ allocations'[q] = allocations[q]
  BY <1>1 DEF UserInv, UserTypeOK
<1>3. held' \in [Processes -> SUBSET live']
  BY <1>1, <1>2 DEF UserInv, UserTypeOK
<1>4. HeldApart'
  BY <1>1, <1>2 DEF UserInv, HeldApart
<1>5. \A p \in Processes : Holds(pages'[p], allocations'[p], held'[p])
  BY <1>1, <1>2 DEF UserInv, UserTypeOK
<1>6. /\ pages' \in [Processes -> [Pages -> [frame : Pages, user : BOOLEAN]]]
      /\ allocations' \in [Processes -> [Indices -> [addr : Pages, pages : 0 .. MaxBlocks]]]
  BY DEF UserInv, UserTypeOK, Holds
<1>7. UserTypeOK'
  BY <1>3, <1>6 DEF UserInv, UserTypeOK, IInv
<1> QED BY <1>4, <1>5, <1>7 DEF UserInv, UserTypeOK

LEMMA AllocMallocInv ==
    ASSUME UserInv, NEW size \in Sizes, process_alloc_malloc(size)
    PROVE  UserInv'
<1> DEFINE p == running
           n == get_total_block(size)
           s == heap_get_start_block(entries, n)
           g == [start |-> s, blocks |-> n]
           slot == First(SlotsOf(p, NoAddr))
           table == paging_map_to(pages[p], UserHeap + s, KernelHeapStart + s,
                                  KernelHeapStart + s + n, TRUE)
           t == [allocations[p] EXCEPT ![slot] = [addr |-> UserHeap + s, pages |-> n]]
<1>1. Malloc(size) /\ IInv' /\ p \in Processes
  BY MallocInv DEF process_alloc_malloc, UserInv, UserTypeOK
<1>2. /\ g \in Grants /\ g \notin live /\ live' = live \cup {g} /\ live' \ live = {g}
      /\ \A a \in live : Extent(a) \cap Extent(g) = {}
  BY <1>1, Granted DEF UserInv, UserTypeOK
<1>3. slot \in Indices /\ allocations[p][slot].addr = NoAddr
  <2>1. SlotsOf(p, NoAddr) # {} /\ SlotsOf(p, NoAddr) \in SUBSET Indices
    BY DEF process_alloc_malloc, SlotsOf
  <2>2. slot \in SlotsOf(p, NoAddr)
    BY <2>1, FirstIsOne
  <2> QED BY <2>2 DEF SlotsOf
<1>4. /\ pages' = [pages EXCEPT ![p] = table]
      /\ allocations' = [allocations EXCEPT ![p] = t]
      /\ held' = [held EXCEPT ![p] = held[p] \cup {g}]
      /\ UNCHANGED <<running, stray>>
  BY <1>2 DEF process_alloc_malloc, process_calculate_pages
<1>5. Holds(table, t, held[p] \cup {g})
  <2>1. /\ held[p] \in SUBSET Grants /\ Holds(pages[p], allocations[p], held[p])
        /\ \A a \in held[p] : Extent(a) \cap Extent(g) = {}
    BY <1>1, <1>2, HeldFacts
  <2>2. g.start = s /\ g.blocks = n
    OBVIOUS
  <2> HIDE DEF p, s, n, slot, g
  <2>3. Holds(paging_map_to(pages[p], UserHeap + g.start, KernelHeapStart + g.start,
                            KernelHeapStart + g.start + g.blocks, TRUE),
              [allocations[p] EXCEPT ![slot] = [addr |-> UserHeap + g.start, pages |-> g.blocks]],
              held[p] \cup {g})
    BY <1>2, <1>3, <2>1, HoldsMore
  <2> QED BY <2>2, <2>3
<1>6. held[p] \cup {g} \subseteq live'
  BY <1>1, <1>2, HeldFacts
<1>7. \A q \in Processes \ {p} : held[q] \subseteq live' /\ held[q] \cap (held[p] \cup {g}) = {}
  BY <1>1, <1>2, HeldFacts DEF UserInv, HeldApart
<1> HIDE DEF g, table, t
<1> QED BY <1>1, <1>4, <1>5, <1>6, <1>7, OneProcess

\* free goes from an address to the one grant that it names, which is a
\* call of freek with a pointer that the program holds.
LEMMA FreedIsNamed ==
    ASSUME UserInv, NEW virt \in Pages, process_alloc_free(virt)
    PROVE  LET t == allocations[running]
               slot == First(SlotsOf(running, virt))
           IN  /\ slot \in Used(t) /\ t[slot].addr = virt
               /\ Named(t, slot) \in held[running] /\ Free(Named(t, slot))
               /\ held' = [held EXCEPT ![running] = @ \ {Named(t, slot)}]
<1> DEFINE p == running
           t == allocations[p]
           slot == First(SlotsOf(p, virt))
           g == Named(t, slot)
           block == paging_get_physical_addr(pages[p], virt) - KernelHeapStart
<1>1. p \in Processes
  BY DEF UserInv, UserTypeOK
<1>2. slot \in Used(t) /\ t[slot].addr = virt
  <2>1. virt # NoAddr /\ SlotsOf(p, virt) # {} /\ SlotsOf(p, virt) \in SUBSET Indices
    BY DEF process_alloc_free, SlotsOf
  <2>2. slot \in SlotsOf(p, virt)
    BY <2>1, FirstIsOne
  <2> QED BY <2>1, <2>2 DEF SlotsOf, Used
<1>3. g \in held[p] /\ block = g.start
  <2>1. held[p] \in SUBSET Grants /\ Holds(pages[p], t, held[p])
    BY <1>1, HeldFacts
  <2> HIDE DEF t, slot
  <2> QED BY <1>2, <2>1, NamedIsHeld
<1>4. held[p] \subseteq live /\ g \in live
  BY <1>1, <1>3, HeldFacts
<1>5. \A a \in live : a.start = g.start => a = g
  <2> SUFFICES ASSUME NEW a \in live, a.start = g.start, a # g PROVE FALSE
    OBVIOUS
  <2>1. a \in Grants /\ g \in Grants /\ Extent(a) \cap Extent(g) = {}
    BY <1>4 DEF UserInv, UserTypeOK, IInv, TypeOK, LiveDisjoint
  <2>2. a.start \in Extent(a) /\ g.start \in Extent(g)
    BY <2>1, SeenAt
  <2> QED BY <2>1, <2>2
<1>6. /\ entries' = heap_mark_block_free(entries, block)
      /\ live' = {a \in live : a.start # block}
      /\ held' = [held EXCEPT ![p] = {a \in @ : a.start # block}]
  BY DEF process_alloc_free
<1> HIDE DEF g, block, t, slot
<1>7. live' = live \ {g}
  BY <1>3, <1>5, <1>6
<1>8. {a \in held[p] : a.start # block} = held[p] \ {g}
  BY <1>3, <1>4, <1>5
<1>9. held' = [held EXCEPT ![p] = @ \ {g}]
  BY <1>6, <1>8
<1> QED BY <1>2, <1>3, <1>4, <1>6, <1>7, <1>9 DEF Free, g, t, slot

LEMMA AllocFreeInv ==
    ASSUME UserInv, NEW virt \in Pages, process_alloc_free(virt)
    PROVE  UserInv'
<1> DEFINE p == running
           t == allocations[p]
           slot == First(SlotsOf(p, virt))
           g == Named(t, slot)
           table == paging_map_to(pages[p], virt, virt, virt + t[slot].pages, FALSE)
           t2 == [t EXCEPT ![slot].addr = NoAddr]
<1>1. /\ slot \in Used(t) /\ t[slot].addr = virt
      /\ g \in held[p] /\ Free(g)
      /\ held' = [held EXCEPT ![p] = held[p] \ {g}]
  BY FreedIsNamed
<1>2. /\ pages' = [pages EXCEPT ![p] = table]
      /\ allocations' = [allocations EXCEPT ![p] = t2]
      /\ UNCHANGED <<running, stray>>
  BY DEF process_alloc_free
<1>3. p \in Processes
  BY DEF UserInv, UserTypeOK
<1>4. IInv' /\ live' = live \ {g}
  BY <1>1, FreeInv DEF UserInv, Free
<1>5. Holds(table, t2, held[p] \ {g})
  <2>1. /\ held[p] \in SUBSET Grants /\ Holds(pages[p], t, held[p])
        /\ \A a, b \in held[p] : a # b => Extent(a) \cap Extent(b) = {}
    BY <1>3, HeldFacts
  <2> HIDE DEF t, slot
  <2> QED BY <1>1, <2>1, HoldsLess
<1>6. held[p] \ {g} \subseteq live'
  BY <1>3, <1>4, HeldFacts
<1>7. \A q \in Processes \ {p} : held[q] \subseteq live' /\ held[q] \cap (held[p] \ {g}) = {}
  BY <1>1, <1>3, <1>4, HeldFacts DEF UserInv, HeldApart
<1> HIDE DEF g, table, t2
<1> QED BY <1>1, <1>2, <1>4, <1>5, <1>6, <1>7, OneProcess

LEMMA FreeNullInv == UserInv /\ process_alloc_free_null => UserInv'
<1> SUFFICES ASSUME UserInv, process_alloc_free_null PROVE UserInv'
  OBVIOUS
<1>1. stray' \in Entry
  BY DEF process_alloc_free_null, UserInv, UserTypeOK, FREE, Entry
<1> QED BY <1>1 DEF process_alloc_free_null, UserInv, UserTypeOK, IInv, TypeOK, LiveDisjoint,
               LiveMarked, HeldApart, vars

LEMMA SwitchInv ==
    ASSUME UserInv, NEW p \in Processes, process_switch(p)
    PROVE  UserInv'
BY DEF process_switch, UserInv, UserTypeOK, IInv, TypeOK, LiveDisjoint, LiveMarked, HeldApart, vars

LEMMA StutterInv == UserInv /\ UNCHANGED allVars => UserInv'
BY DEF UserInv, UserTypeOK, IInv, TypeOK, LiveDisjoint, LiveMarked, HeldApart, vars, userVars, allVars

LEMMA UserNextInv == UserInv /\ [UserNext]_allVars => UserInv'
<1> SUFFICES ASSUME UserInv, UserNext PROVE UserInv'
  BY StutterInv
<1>1. ASSUME NEW size \in Sizes, KernelMalloc(size) PROVE UserInv'
  BY <1>1, KernelMallocInv
<1>2. ASSUME NEW size \in Sizes, process_alloc_malloc(size) PROVE UserInv'
  BY <1>2, AllocMallocInv
<1>3. ASSUME NEW size \in Sizes, process_alloc_malloc_fails(size) PROVE UserInv'
  BY <1>3, StutterInv DEF process_alloc_malloc_fails
<1>4. ASSUME NEW a \in live, KernelFree(a) PROVE UserInv'
  BY <1>4, KernelFreeInv
<1>5. ASSUME NEW virt \in Pages, process_alloc_free(virt) PROVE UserInv'
  BY <1>5, AllocFreeInv
<1>6. CASE process_alloc_free_null
  BY <1>6, FreeNullInv
<1>7. ASSUME NEW p \in Processes, process_switch(p) PROVE UserInv'
  BY <1>7, SwitchInv
<1> QED BY <1>1, <1>2, <1>3, <1>4, <1>5, <1>6, <1>7 DEF UserNext

\* The inductive invariant: the heap's own, and of every process that its
\* page table, its allocations table and its grants name each other.
THEOREM UserInvariant == UserSpec => []UserInv
BY UserInitInv, UserNextInv, PTL DEF UserSpec

-----------------------------------------------------------------------------
(* The properties.                                                         *)

\* Page tables, allocations tables and what programs hold stay well formed.
THEOREM UserTypeCorrect == UserSpec => []UserTypeOK
BY UserInvariant, PTL DEF UserInv

\* A program can reach exactly the blocks it holds, however often it and the
\* others allocate and free.
THEOREM ReachesOwn == UserSpec => []MappedIsHeld
<1>1. UserInv => MappedIsHeld
  BY DEF UserInv, Holds, Maps, MappedIsHeld
<1> QED BY <1>1, UserInvariant, PTL

\* The allocations table says exactly what the program holds: a slot for each
\* grant, and no slot is lost.
THEOREM TableTruthful == UserSpec => []TableIsHeld
<1>1. ASSUME NEW table, NEW t, NEW G, Holds(table, t, G)
      PROVE  Cardinality(G) = Cardinality(Used(t))
  <2> DEFINE f == [i \in Used(t) |-> Named(t, i)]
  <2>1. IsFiniteSet(Used(t))
    <3>1. IsFiniteSet(Indices)
      BY UserNumbers, FS_Interval DEF Indices
    <3> QED BY <3>1, FS_Subset DEF Used
  <2>2. f \in [Used(t) -> G] /\ \A g \in G : \E i \in Used(t) : f[i] = g
    BY <1>1 DEF Holds, Names
  <2>3. ASSUME NEW i \in Used(t), NEW j \in Used(t), i # j PROVE f[i] # f[j]
    <3>1. /\ t[i].addr \in Pages /\ t[j].addr \in Pages
          /\ t[i].addr # t[j].addr
      BY <1>1, <2>3 DEF Holds, Names, Used
    <3>2. t[i].addr - UserHeap # t[j].addr - UserHeap
      BY <3>1, UserNumbers DEF Pages
    <3> QED BY <3>2 DEF Named
  <2> HIDE DEF f
  <2>4. f \in Bijection(Used(t), G)
    BY <2>2, <2>3 DEF Bijection, Injection, Surjection, IsInjective
  <2>5. ExistsBijection(Used(t), G)
    BY <2>4 DEF ExistsBijection
  <2> QED BY <2>1, <2>5, FS_Bijection
<1>2. UserInv => TableIsHeld
  BY <1>1 DEF UserInv, Holds, Names, Used, Named, TableIsHeld, Recorded
<1> QED BY <1>2, UserInvariant, PTL

\* No frame a program can reach belongs to another program or to the kernel,
\* although the kernel heap gives blocks of one table to both and frees what
\* it is told to.
THEOREM ProgramsIsolated == UserSpec => []FramesIsolated
<1>1. UserInv => FramesIsolated
  <2> SUFFICES ASSUME UserInv, NEW p \in Processes, NEW v \in Pages, pages[p][v].user,
                      NEW a \in live \ held[p]
               PROVE  pages[p][v].frame - KernelHeapStart \notin Extent(a)
    BY DEF FramesIsolated
  <2> DEFINE seen == \E b \in held[p] : v \in Seen(b)
  <2>0. pages[p][v] = IF seen THEN [frame |-> v - UserHeap + KernelHeapStart, user |-> TRUE]
                      ELSE [frame |-> v, user |-> FALSE]
    BY DEF UserInv, Holds, Maps
  <2> HIDE DEF seen
  <2>1. seen /\ pages[p][v].frame = v - UserHeap + KernelHeapStart
    BY <2>0
  <2>2. PICK b \in held[p] : v \in Seen(b)
    BY <2>1 DEF seen
  <2>3. b \in Grants /\ b \in live /\ a # b
    BY HeldFacts
  <2>4. v - UserHeap \in Extent(b)
    BY <2>2, <2>3, SeenAt
  <2>5. Extent(a) \cap Extent(b) = {}
    BY <2>3 DEF UserInv, IInv, LiveDisjoint
  <2>6. (v - UserHeap + KernelHeapStart) - KernelHeapStart = v - UserHeap
    BY UserNumbers DEF Pages
  <2> QED BY <2>1, <2>4, <2>5, <2>6
<1> QED BY <1>1, UserInvariant, PTL

\* Seen from the heap's table and the grants, system calls are calls of the
\* heap as module KernelHeap has them, or nothing: free(NULL), which hands
\* freek an error value, leaves both alone.  What is proved of the heap alone
\* so holds of the whole.
THEOREM HeapImplemented == UserSpec => Spec
<1>1. UserInit => Init
  BY DEF UserInit
<1>2. UserInv /\ [UserNext]_allVars => [Next]_vars
  <2> SUFFICES ASSUME UserInv, [UserNext]_allVars PROVE [Next]_vars
    OBVIOUS
  <2>1. ASSUME NEW size \in Sizes, KernelMalloc(size) PROVE Next
    BY <2>1 DEF KernelMalloc, Next
  <2>2. ASSUME NEW size \in Sizes, process_alloc_malloc(size) PROVE Next
    BY <2>2 DEF process_alloc_malloc, Next
  <2>3. ASSUME NEW a \in live, KernelFree(a) PROVE Next
    BY <2>3 DEF KernelFree, Next
  <2>4. ASSUME NEW virt \in Pages, process_alloc_free(virt) PROVE Next
    <3> DEFINE g == Named(allocations[running], First(SlotsOf(running, virt)))
    <3>1. g \in held[running] /\ Free(g)
      BY <2>4, FreedIsNamed
    <3>2. g \in live
      BY <3>1 DEF Free
    <3> QED BY <3>1, <3>2 DEF Next
  <2>5. CASE process_alloc_free_null
    BY <2>5 DEF process_alloc_free_null
  <2>6. ASSUME NEW p \in Processes, process_switch(p) PROVE UNCHANGED vars
    BY <2>6 DEF process_switch
  <2>7. ASSUME NEW size \in Sizes, process_alloc_malloc_fails(size) PROVE UNCHANGED vars
    BY <2>7 DEF process_alloc_malloc_fails, allVars
  <2>8. CASE UNCHANGED allVars
    BY <2>8 DEF allVars
  <2> QED BY <2>1, <2>2, <2>3, <2>4, <2>5, <2>6, <2>7, <2>8 DEF UserNext
<1> QED BY <1>1, <1>2, UserInvariant, PTL DEF UserSpec, Spec

\* The pointer read back from the page table for a free is the start of a
\* grant of the calling program, whatever was mapped and unmapped before;
\* nothing else but the kernel's own free takes a grant back.
THEOREM OwnGrantFreed == UserSpec => HeapUsedWell
<1> DEFINE Takes(a) == /\ Free(a)
                       /\ \/ a \in held[running]
                          \/ (\A p \in Processes : a \notin held[p]) /\ UNCHANGED userVars
           Calls == \/ \E size \in Sizes : Malloc(size)
                    \/ \E a \in live : Takes(a)
                    \/ UNCHANGED vars
<1>1. UserInv /\ [UserNext]_allVars => Calls
  <2> SUFFICES ASSUME UserInv, [UserNext]_allVars PROVE Calls
    OBVIOUS
  <2>1. ASSUME NEW size \in Sizes, KernelMalloc(size) PROVE Calls
    BY <2>1 DEF KernelMalloc
  <2>2. ASSUME NEW size \in Sizes, process_alloc_malloc(size) PROVE Calls
    BY <2>2 DEF process_alloc_malloc
  <2>3. ASSUME NEW a \in live, KernelFree(a) PROVE Calls
    <3>1. Takes(a)
      BY <2>3 DEF KernelFree
    <3> QED BY <3>1
  <2>4. ASSUME NEW virt \in Pages, process_alloc_free(virt) PROVE Calls
    <3> DEFINE g == Named(allocations[running], First(SlotsOf(running, virt)))
    <3>1. g \in held[running] /\ Free(g)
      BY <2>4, FreedIsNamed
    <3>2. g \in live /\ Takes(g)
      BY <3>1 DEF Free
    <3> QED BY <3>2
  <2>5. CASE process_alloc_free_null
    BY <2>5 DEF process_alloc_free_null
  <2>6. ASSUME NEW p \in Processes, process_switch(p) PROVE Calls
    BY <2>6 DEF process_switch
  <2>7. ASSUME NEW size \in Sizes, process_alloc_malloc_fails(size) PROVE Calls
    BY <2>7 DEF process_alloc_malloc_fails, allVars
  <2>8. CASE UNCHANGED allVars
    BY <2>8 DEF allVars
  <2> QED BY <2>1, <2>2, <2>3, <2>4, <2>5, <2>6, <2>7, <2>8 DEF UserNext
<1> QED BY <1>1, UserInvariant, PTL DEF UserSpec, HeapUsedWell

\* With no request of more than two blocks nothing is lost: a taken block is
\* held by a program or by the kernel.
THEOREM NothingLost == ASSUME MaxBlocks <= 2 PROVE UserSpec => []NoLeak
<1>1. Spec => []NoLeak
  BY NoLeakUpToTwoBlocks
<1> QED BY <1>1, HeapImplemented, PTL

\* Nor is a request of a program or the kernel refused, unless somebody holds
\* the last block of the heap.
THEOREM RefusedWithReason ==
    ASSUME MaxBlocks <= 2 PROVE UserSpec => []RefusedOnlyWhileEndHeld
<1>1. Spec => []RefusedOnlyWhileEndHeld
  BY RefusalIsJustified
<1> QED BY <1>1, HeapImplemented, PTL
=============================================================================
