---------------------------- MODULE MCUserMemory ----------------------------
(* Request sizes for TLC, with blocks of four bytes. *)
EXTENDS UserMemory

SizesTwo == {0, 4, 5}
=============================================================================
