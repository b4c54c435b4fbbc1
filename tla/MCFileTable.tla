---------------------------- MODULE MCFileTable -----------------------------
(***************************************************************************)
(* Disks and paths for TLC.  Subdirectories take one or two clusters of    *)
(* one or two sectors of two entries.                                      *)
(***************************************************************************)
EXTENDS FileTable, TLC

File(name) == [mark |-> "file", name |-> name, cluster |-> 9]
Dir(name, cluster) == [mark |-> "dir", name |-> name, cluster |-> cluster]
Empty == <<End, End>>

Disk(spc, root, data, fat) ==
    [fat16 |-> TRUE, sectorsPerCluster |-> spc, root |-> root, data |-> data, fat |-> fat]

Last == 65535

\* In the order: a plain disk; a deleted entry and a full root table; a full
\* first sector, and a name in the last; a chain of two clusters, with a
\* directory in the directory; clusters of one sector; a disk that is not
\* FAT16.
Plain == Disk(2, <<File("a"), Dir("d", 2), End>>,
              (2 :> <<<<File("b"), End>>, Empty>>), (2 :> Last))
WithDeleted == [Plain EXCEPT !.root = <<File("a"), Deleted, Dir("d", 2)>>]
FullSector == [Plain EXCEPT !.data = (2 :> <<<<Deleted, File("b")>>, <<File("a"), End>>>>)]
TwoClusters == Disk(1, <<Dir("d", 2), File("long"), End>>,
                    (2 :> <<<<Dir("d", 4), File("a")>>>>) @@ (3 :> <<Empty>>)
                    @@ (4 :> <<<<File("b"), End>>>>) @@ (5 :> <<Empty>>),
                    (2 :> 3) @@ (3 :> Last) @@ (4 :> 5) @@ (5 :> 65528))
OneSector == Disk(1, <<Dir("d", 2), End, End>>, (2 :> <<<<File("b"), End>>>>), (2 :> Last))

MCDisks == {Plain, WithDeleted, FullSector, TwoClusters, OneSector, [Plain EXCEPT !.fat16 = FALSE]}

Stale == {[mark |-> "file", name |-> "b", cluster |-> 99]}

Path(segments) == [drive |-> TRUE, segments |-> segments]
MCPaths == {Path(<<"a">>), Path(<<"d", "b">>), Path(<<"d", "d", "b", "">>),
            Path(<<"">>), Path(<<"d", "a">>), Path(<<"", "a">>), Path(<<"long">>), Path(<<"a", "b">>),
            [drive |-> FALSE, segments |-> <<"a">>]}
=============================================================================
