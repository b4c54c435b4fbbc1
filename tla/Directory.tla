----------------------------- MODULE Directory ------------------------------
(***************************************************************************)
(* Finding a file by its path in FAT16: fat16_open with the search of a    *)
(* directory and the reading of subdirectories.  One action is one turn of *)
(* the search loop, or one sector of a subdirectory.                       *)
(*                                                                         *)
(* A directory entry is a record of its first byte's meaning (mark), its   *)
(* name and its first cluster.  Pointers are what they point to: "null",   *)
(* "error" (an error code as a pointer), "freed", "file" or "dir".  Where  *)
(* the code uses a pointer it must not, the model stops with a fault: what *)
(* follows is undefined.                                                   *)
(*                                                                         *)
(* The entries . and .. of subdirectories are left out; no path of the     *)
(* kernel has them.                                                        *)
(***************************************************************************)
EXTENDS Fat, Sequences

CONSTANTS
    Unpadded,            \* names that fill the eight bytes of filename
    Disks,               \* what may be on the disk: behind a directory's end mark
                         \* there are end marks only, as FAT has it
    Leftover,            \* entries that memory nobody has written may hold
    MaxBeyond,           \* bound: entries of it that a search passes
    MaxFailures          \* bound: allocations that fail

End == [mark |-> "end", name |-> "", cluster |-> 0]        \* 0x00
Deleted == [mark |-> "deleted", name |-> "", cluster |-> 0] \* 0xe5

ASSUME DirectoryConstants ==
    /\ MaxBeyond \in Nat /\ MaxFailures \in {0, 1}
    /\ \A e \in Leftover : e.mark \in {"file", "dir"}
    /\ \A d \in Disks :
          /\ d.sectorsPerCluster \in Nat \ {0}
          /\ \A c \in DOMAIN d.data : Len(d.data[c]) = d.sectorsPerCluster

VARIABLES
    disk,                \* root table, clusters, FAT
    heap,                \* the objects allocated: <<open call, kind, number>>
    failures,            \* how many allocations have failed
    call,                \* the number of the call of file_open
    parts,               \* its path, parsed
    pc, k,               \* where it is, and in which part
    items, i,            \* find_item_in_directory's array and index
    chain,               \* reading a subdirectory: its locals
    found,               \* the entry found last
    ret,                 \* what fat16_open returns
    fault

search == <<pc, k, items, i, chain, found, ret>>
directoryVars == <<disk, heap, failures, call, parts, search, fault>>

Obj(n, kind, number) == <<n, kind, number>>
ItemOf(n, number) == {Obj(n, "item", number), Obj(n, "entries", number)}
Data(n) == Obj(n, "data", 0)

\* Whether an allocation is granted.
Grants == IF failures < MaxFailures THEN BOOLEAN ELSE {TRUE}
Count(granted) == failures' = IF granted THEN failures ELSE failures + 1

NoChain == [cluster |-> 0, sector |-> 0, upper |-> << >>, total |-> 0, copied |-> << >>]

-----------------------------------------------------------------------------
\* The root directory's table is kept as it is, deleted entries included.
fat16_get_root_directory(d) == d.root

\* A filename without a space runs on into the extension.
fat16_get_plain_item_name(e) == IF e.name \in Unpadded THEN <<e.name, "runs on">> ELSE <<e.name>>

Matches(e, part) ==
    e.mark \in {"file", "dir"} /\ fat16_get_plain_item_name(e) = <<part>>

Stop(reason) ==
    /\ fault' = reason /\ pc' = "stopped"
    /\ UNCHANGED <<k, items, i, chain, ret>>

\* The rest of fat16_open, given what fat16_get_directory_item returned: an
\* error pointer is freed as an item; through a null pointer the type is
\* read at address 0, so it may be taken for a directory or for a file.
Return(item, h) ==
    /\ UNCHANGED <<k, items, i, chain>>
    /\ \/ /\ item = "file"
          /\ ret' = "file" /\ heap' = h
       \/ /\ item = "dir"
          /\ ret' = "error" /\ heap' = h \ (ItemOf(call, k) \cup {Data(call)})
       \/ /\ item = "null"
          /\ \/ ret' = "null" /\ heap' = h
             \/ ret' = "error" /\ heap' = h \ {Data(call)}
    /\ pc' = "returned" /\ UNCHANGED fault

ReturnFault(item, h) ==
    /\ heap' = h
    /\ \/ item = "error" /\ Stop("error_pointer_freed")
       \/ item = "freed" /\ Stop("item_freed_twice")

\* A faulty variant: the part is looked for in the directory just searched.
DescendStays ==
    /\ pc' = "search" /\ k' = k + 1 /\ items' = items /\ i' = 1
    /\ chain' = NoChain /\ UNCHANGED <<ret, fault>>

Descend ==
    /\ pc' = "search" /\ k' = k + 1 /\ items' = chain.copied /\ i' = 1
    /\ chain' = NoChain /\ UNCHANGED <<ret, fault>>

\* The loop of fat16_get_directory_item, when the search for part k has given
\* item, and h is the heap.  The directory searched is freed, if it is not
\* the root; the next part is looked for in the item.
Walk(item, h) ==
    LET last == k = Len(parts)
        h1 == IF k > 1 THEN h \ ItemOf(call, k - 1) ELSE h
    IN  \/ k = 1 /\ item = "null" /\ ReturnFault("error", h)
        \/ (k > 1 \/ item # "null") /\ last /\ (Return(item, h1) \/ ReturnFault(item, h1))
        \/ ~last /\ item = "file" /\ ReturnFault("error", h1)
        \/ ~last /\ k > 1 /\ item = "null" /\ heap' = h1 /\ Stop("null_item_read")
        \/ ~last /\ item = "error" /\ heap' = h1 /\ Stop("error_pointer_read")
        \/ ~last /\ item = "freed" /\ heap' = h1 /\ Stop("freed_item_searched")
        \/ ~last /\ item = "dir" /\ heap' = h1 /\ Descend

-----------------------------------------------------------------------------
(* fat16_find_item_in_directory.                                           *)

\* items[i]; behind the array is whatever the heap holds.
ItemsAt ==
    IF i <= Len(items) THEN {items[i]}
    ELSE IF i <= Len(items) + MaxBeyond THEN Leftover \cup {End} ELSE {End}

\* A faulty variant: an entry of another name is passed like a deleted one.
PassLikeDeleted(e) ==
    /\ ~Matches(e, parts[k]) /\ e.mark \notin {"end", "deleted"}
    /\ UNCHANGED <<heap, failures, search, fault>>

Pass(e) ==
    /\ ~Matches(e, parts[k]) /\ e.mark \notin {"end", "deleted"}
    /\ i' = i + 1
    /\ UNCHANGED <<heap, failures, pc, k, items, chain, found, ret, fault>>

\* The loop goes on with the same entry.
PassDeleted(e) ==
    /\ e.mark = "deleted"
    /\ UNCHANGED <<heap, failures, search, fault>>

NotFound(e) ==
    /\ e.mark = "end"
    /\ Walk("null", heap) /\ UNCHANGED <<failures, found>>

\* fat16_directory_to_item of a file.  If the copy of the entry cannot be
\* allocated, the item stays.
FoundFile(e) ==
    /\ e.mark = "file" /\ Matches(e, parts[k])
    /\ found' = e
    /\ \E item, entry \in Grants :
          /\ item \/ entry
          /\ Count(item /\ entry)
          /\ IF item /\ entry THEN Walk("file", heap \cup ItemOf(call, k))
             ELSE Walk("error", heap \cup IF item THEN {Obj(call, "item", k)} ELSE {})

\* What dir[] holds above the one sector that is read into it.
Uppers == {<< >>} \cup {<<e>> : e \in Leftover}

FoundDirectory(e) ==
    /\ e.mark = "dir" /\ Matches(e, parts[k])
    /\ found' = e
    /\ \E item \in Grants :
          /\ Count(item)
          /\ IF item
             THEN /\ heap' = heap \cup {Obj(call, "item", k)}
                  /\ pc' = "count"
                  /\ \E upper \in Uppers :
                        chain' = [NoChain EXCEPT !.cluster = e.cluster, !.sector = 1,
                                                 !.upper = upper]
                  /\ UNCHANGED <<k, items, i, ret, fault>>
             ELSE Walk("error", heap)

FindItem ==
    /\ pc = "search"
    /\ \E e \in ItemsAt :
          Pass(e) \/ PassDeleted(e) \/ NotFound(e) \/ FoundFile(e) \/ FoundDirectory(e)
    /\ UNCHANGED <<disk, call, parts>>

-----------------------------------------------------------------------------
(* fat16_resolve_directories.                                              *)

\* A faulty variant: a deleted entry ends the sector.
TakenToDeleted(sector, upper) ==
    LET ends == {j \in DOMAIN sector : sector[j].mark \in {"end", "deleted"}}
    IN  IF ends = {} THEN sector
        ELSE SubSeq(sector, 1, (CHOOSE j \in ends : \A l \in ends : j <= l) - 1)

\* The entries in use that a round takes from dir[32]: up to an end mark, or
\* all of the sector and on into what lies above it.
Taken(sector, upper) ==
    LET dir == sector \o upper
        InUse(e) == e.mark \in {"file", "dir"}
        ends == {j \in DOMAIN dir : dir[j].mark = "end"}
    IN  IF ends = {} THEN SelectSeq(dir, InUse)
        ELSE SelectSeq(SubSeq(dir, 1, (CHOOSE j \in ends : \A l \in ends : j <= l) - 1), InUse)

\* fat16_read_internals with a whole sector each time.  It gives 0 when the
\* chain ends, and the loop is left without a look at the sector just read.
LastSector ==
    /\ chain.sector = disk.sectorsPerCluster
    /\ fat16_get_next_cluster(disk.fat, chain.cluster) = NoCluster

Advance ==
    IF chain.sector < disk.sectorsPerCluster
    THEN [chain EXCEPT !.sector = @ + 1]
    ELSE [chain EXCEPT !.sector = 1, !.cluster = fat16_get_next_cluster(disk.fat, @)]

SectorTaken == Taken(disk.data[chain.cluster][chain.sector], chain.upper)

CountSector ==
    /\ pc = "count" /\ ~LastSector
    /\ chain' = [Advance EXCEPT !.total = @ + Len(SectorTaken)]
    /\ UNCHANGED <<disk, heap, failures, call, parts, pc, k, items, i, found, ret, fault>>

\* The array is allocated.  If that fails, as it does for 0 bytes, the item
\* is freed and its pointer returned.
CountEnd ==
    /\ pc = "count" /\ LastSector
    /\ \E granted \in Grants :
          /\ Count(granted)
          /\ IF granted /\ chain.total > 0
             THEN /\ heap' = heap \cup {Obj(call, "entries", k)}
                  /\ pc' = "copy"
                  /\ \E upper \in Uppers :
                        chain' = [chain EXCEPT !.cluster = found.cluster, !.sector = 1,
                                               !.upper = upper]
                  /\ UNCHANGED <<k, items, i, ret, fault>>
             ELSE Walk("freed", heap \ {Obj(call, "item", k)})
    /\ UNCHANGED <<disk, call, parts, found>>

CopySector ==
    /\ pc = "copy" /\ ~LastSector
    /\ chain' = [Advance EXCEPT !.copied = @ \o SectorTaken]
    /\ UNCHANGED <<disk, heap, failures, call, parts, pc, k, items, i, found, ret, fault>>

CopyEnd ==
    /\ pc = "copy" /\ LastSector
    /\ Walk("dir", heap)
    /\ UNCHANGED <<disk, failures, call, parts, found>>

Search == FindItem \/ CountSector \/ CountEnd \/ CopySector \/ CopyEnd

-----------------------------------------------------------------------------
(* What is on the disk, without loops and buffers.                         *)

\* The entries in the sectors of a directory, in order; all of them, or
\* without the last sector, which the code reads and does not look at.
Listing(first, whole) ==
    LET spc == disk.sectorsPerCluster
        ClusterAt[n \in Nat] ==
            IF n = 0 THEN first
            ELSE IF ClusterAt[n - 1] = NoCluster THEN NoCluster
            ELSE fat16_get_next_cluster(disk.fat, ClusterAt[n - 1])
        Exists(n) == ClusterAt[n \div spc] # NoCluster
        From[n \in Nat] ==
            IF Exists(n) /\ (whole \/ Exists(n + 1))
            THEN disk.data[ClusterAt[n \div spc]][(n % spc) + 1] \o From[n + 1]
            ELSE << >>
    IN  From[0]

Missing == End

\* The entry of that name in front of the end mark.
EntryNamed(listing, name) ==
    LET hits == {j \in DOMAIN listing :
                    /\ listing[j].name = name /\ listing[j].mark \in {"file", "dir"}
                    /\ \A l \in 1 .. j : listing[l] # End}
    IN  IF hits = {} THEN Missing ELSE listing[CHOOSE j \in hits : \A l \in hits : j <= l]

Contents(dir, whole) == IF dir.cluster = 0 THEN disk.root ELSE Listing(dir.cluster, whole)

\* What a path names: the entry of its n-th part, from the root.
Named(path, whole) ==
    LET Root == [mark |-> "dir", name |-> "", cluster |-> 0]
        At[n \in 0 .. Len(path)] ==
            IF n = 0 THEN Root
            ELSE IF At[n - 1].mark # "dir" THEN Missing
            ELSE EntryNamed(Contents(At[n - 1], whole), path[n])
    IN  At

Lookup(path) == Named(path, TRUE)[Len(path)]
=============================================================================
