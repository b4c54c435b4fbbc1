---------------------------- MODULE MCHeapLoops ----------------------------
(* Instances of HeapLoops for TLC: every table over the entries heap.c      *)
(* writes (free, and the four taken ones), reachable by calls or not; the   *)
(* bytes past the table are all free or all taken.                          *)
EXTENDS HeapLoops

WrittenEntries == {FREE} \cup {EntryOf(k, n) : k \in 0 .. 2, n \in 1 .. 3}
AllTables ==
    {[k \in Slots |-> IF k \in Blocks THEN table[k] ELSE past] :
        table \in [Blocks -> WrittenEntries], past \in {FREE, {"TAKEN"}}}
=============================================================================
