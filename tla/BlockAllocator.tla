--------------------------- MODULE BlockAllocator ---------------------------
(***************************************************************************)
(* What the kernel's allocator promises its callers, with no block table:  *)
(* it keeps a set of grants, each a range of blocks; a new grant starts at *)
(* a block of the heap and shares no block with a grant that is still      *)
(* held, and giving one grant back touches no other.  A request may always *)
(* be refused.                                                             *)
(***************************************************************************)
EXTENDS Naturals

CONSTANTS Home,         \* the blocks a grant may start at
          Lengths       \* the lengths, in blocks, that are asked for

VARIABLE granted        \* a set of [start |-> block, blocks |-> length]

Grants == [start : Home, blocks : Lengths]

Extent(g) == g.start .. g.start + g.blocks - 1

Init == granted = {}

Grant ==
    \E g \in Grants : /\ \A h \in granted : Extent(g) \cap Extent(h) = {}
                      /\ granted' = granted \cup {g}

Release == \E g \in granted : granted' = granted \ {g}

Next == Grant \/ Release

Spec == Init /\ [][Next]_granted
=============================================================================
