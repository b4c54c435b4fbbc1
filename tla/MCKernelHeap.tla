---------------------------- MODULE MCKernelHeap ----------------------------
(* Instances of KernelHeap for TLC: five or six blocks of four bytes each.  *)
EXTENDS KernelHeap

\* 0 is refused; 1, 4 are one block; 5 and 8 are two; 9 and 12 are three.
SizesTwo == {0, 1, 4, 5, 8}
SizesThree == {0, 4, 5, 9, 12}
=============================================================================
