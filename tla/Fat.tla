-------------------------------- MODULE Fat ---------------------------------
(***************************************************************************)
(* The file allocation table: the chain of a file's or a directory's       *)
(* clusters, as fat16.c follows it.                                        *)
(***************************************************************************)
EXTENDS Integers

\* Entries from here on are reserved, bad or the last.  The code makes 0xffff
\* of each, and of the free ones.
FirstReserved == 65520
NoCluster == 65535

fat16_get_next_cluster(fat, c) ==
    IF fat[c] = 0 \/ fat[c] >= FirstReserved THEN NoCluster ELSE fat[c]
=============================================================================
