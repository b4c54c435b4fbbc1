----------------------------- MODULE FileTable ------------------------------
(***************************************************************************)
(* The kernel's files: file.c's descriptor table and pparser.c's paths,    *)
(* over the FAT16 file system of Directory, from mounting the disk on.     *)
(*                                                                         *)
(* Calls of file_open are numbered; a descriptor, its data and what was    *)
(* allocated for it bear the number of their call.  The caller is the      *)
(* loader: it keeps what file_open returned, error or not, and may close   *)
(* that (process.c:59) or keep it for ever (elf_load).                     *)
(***************************************************************************)
EXTENDS Directory

CONSTANTS
    MaxFiles,            \* NUTTLE_MAX_FILE_DESCRIPTORS
    MaxOpens,            \* bound: calls of file_open
    Paths,               \* the paths opened
    Modes                \* the modes: "r", "w" (or "a") or any other string

ASSUME FileTableConstants ==
    /\ MaxFiles \in Nat \ {0} /\ MaxOpens \in Nat
    /\ Modes \subseteq {"r", "w", "invalid"}
    /\ \A p \in Paths :
          p.drive \in BOOLEAN /\ p.segments \in Seq(STRING) /\ p.segments # << >>

VARIABLES
    path, mode,          \* the arguments of the call of file_open
    table,               \* file_descriptors: slot -> open call, or NoCall
    opened,              \* call -> its NuttleFATFileDescriptor's item, or "lost"
    handed               \* call -> what file_open returned, until closed

vars == <<directoryVars, path, mode, table, opened, handed>>

NoCall == 0
Calls == 1 .. MaxOpens

\* What handed may hold: an error, a descriptor, one outside the table.
Error == -1
NotHeld == 0
Fds == 1 .. MaxFiles
Values == {Error, NotHeld} \cup 1 .. MaxFiles + 1

NoPath == [drive |-> TRUE, segments |-> <<"">>]
NoItem == [kind |-> "none", entry |-> End, number |-> 0]

-----------------------------------------------------------------------------
(* pparser.c.                                                              *)

\* A path is whether it begins like "0:/", and what follows, split at every
\* slash.  Nothing follows the last slash: that is no part.
PartsOf(p) ==
    IF p.segments[Len(p.segments)] = ""
    THEN SubSeq(p.segments, 1, Len(p.segments) - 1) ELSE p.segments

PathObjects(n, j) ==
    {Obj(n, "path", 0)} \cup ({n} \X {"part", "name"} \X (1 .. j))

\* The PathPart allocated for a part that is not there.
Spare(n, j) == {Obj(n, "part", j + 1)}

\* The outcomes of pparser_parse_path for call n: whether it sets the path,
\* its parts and what it has allocated.  The attempt to parse one part more
\* ends the loop and leaves its PathPart.  A part without memory ends the
\* loop as well, and the parts before it are the path, unless it is the
\* first; without memory for the path itself, the path is set to null.
pparser_parse_path(p, n) ==
    LET parsed == PartsOf(p)
        len == Len(parsed)
        Result(set, j, got, failed) ==
            [set |-> set, parts |-> SubSeq(parsed, 1, j), got |-> got, failed |-> failed]
        complete == PathObjects(n, len) \cup IF len > 0 THEN Spare(n, len) ELSE {}
    IN  IF ~p.drive THEN {Result(FALSE, 0, {}, 0)}
        ELSE {Result(TRUE, len, complete, 0)} \cup
             IF failures = MaxFailures THEN {}
             ELSE {Result(TRUE, j, PathObjects(n, j) \cup IF spare THEN Spare(n, j) ELSE {}, 1) :
                       j \in 1 .. len - 1, spare \in BOOLEAN}
                  \cup (IF len > 0 THEN {Result(TRUE, len, PathObjects(n, len), 1),
                                         Result(FALSE, 0, {}, 1),
                                         Result(FALSE, 0, Spare(n, 0), 1)} ELSE {})
                  \cup {Result(FALSE, len, complete \ PathObjects(n, 0), 1)}

\* What pparser_free leaves.
pparser_free(h, n, j) == h \ PathObjects(n, j)

-----------------------------------------------------------------------------
(* Mounting the disk.                                                      *)

Init ==
    /\ disk \in Disks
    /\ heap = {} /\ failures = 0 /\ fault = "none"
    /\ call = 0 /\ parts = << >> /\ path = NoPath /\ mode = "r"
    /\ pc = "boot" /\ k = 0 /\ items = << >> /\ i = 0
    /\ chain = NoChain /\ found = End /\ ret = "none"
    /\ table = [s \in Fds |-> NoCall]
    /\ opened = [n \in Calls |-> NoItem]
    /\ handed = [n \in Calls |-> NotHeld]

\* fat16_resolve, asked for by disk_all_init through fs_fetch_disk_fs.  Of its
\* allocations only the root directory's is checked; at start-up the others
\* are granted.
Mounted == {Obj(0, kind, 0) : kind \in {"private", "fat_stream", "data_stream", "root"}}

fat16_resolve ==
    /\ pc = "boot" /\ disk.fat16
    /\ pc' = "idle" /\ heap' = heap \cup Mounted
    /\ UNCHANGED <<disk, failures, call, parts, k, items, i, chain, found, ret, fault,
                   path, mode, table, opened, handed>>

\* Without a file system the kernel panics.  The streams stay.
disk_all_init_panics ==
    /\ pc = "boot"
    /\ \/ ~disk.fat16 /\ UNCHANGED failures
       \/ failures < MaxFailures /\ failures' = failures + 1
    /\ pc' = "panic" /\ heap' = {Obj(0, "fat_stream", 0), Obj(0, "data_stream", 0)}
    /\ UNCHANGED <<disk, call, parts, k, items, i, chain, found, ret, fault,
                   path, mode, table, opened, handed>>

-----------------------------------------------------------------------------
(* file_open.                                                              *)

\* The locals are out of scope when it has returned.
NoLocals ==
    /\ pc' = "idle" /\ parts' = << >> /\ path' = NoPath /\ mode' = "r"
    /\ k' = 0 /\ items' = << >> /\ i' = 0
    /\ chain' = NoChain /\ found' = End /\ ret' = "none"

\* The call has begun, with its path parsed as r and the path's objects and
\* more allocated.
Begin(p, m, r, more) ==
    /\ call' = call + 1 /\ path' = p /\ mode' = m /\ parts' = r.parts
    /\ heap' = heap \cup r.got \cup more

\* An error is returned, after pparser_free: by file_open itself, or by
\* fat16_open before its search.
Refuse(r) ==
    /\ call' = call + 1
    /\ handed' = [handed EXCEPT ![call + 1] = Error]
    /\ heap' = pparser_free(heap \cup r.got, call + 1, Len(r.parts))
    /\ NoLocals /\ UNCHANGED fault

\* pparser_free of a pointer that was not set, or set to null.
Unparsed(p, m, r) ==
    /\ ~r.set
    /\ Begin(p, m, r, {}) /\ failures' = failures + r.failed
    /\ Stop("path_not_set") /\ UNCHANGED <<found, handed>>

\* A drive without a path, or an invalid mode.
Refused(m, r) ==
    /\ r.set /\ (r.parts = << >> \/ m = "invalid")
    /\ Refuse(r) /\ failures' = failures + r.failed

\* fat16_open up to its search.  For writing it frees the item of its new
\* descriptor, which is not set: nothing happens if the memory is zero.
fat16_open(p, m, r) ==
    /\ r.set /\ r.parts # << >> /\ m # "invalid"
    /\ \E granted \in Grants :
          /\ failures' = failures + r.failed + (IF granted THEN 0 ELSE 1)
          /\ failures' <= MaxFailures
          /\ \/ (~granted \/ m = "w") /\ Refuse(r)
             \/ /\ granted /\ m = "w"
                /\ Begin(p, m, r, {Data(call + 1)})
                /\ Stop("item_not_set") /\ UNCHANGED <<found, handed>>
             \/ /\ granted /\ m = "r"
                /\ Begin(p, m, r, {Data(call + 1)})
                /\ pc' = "search" /\ k' = 1
                /\ items' = fat16_get_root_directory(disk) /\ i' = 1
                /\ UNCHANGED <<chain, found, ret, fault, handed>>

file_open(p, m) ==
    /\ pc = "idle" /\ call < MaxOpens
    /\ \E r \in pparser_parse_path(p, call + 1) :
          Unparsed(p, m, r) \/ Refused(m, r) \/ fat16_open(p, m, r)
    /\ UNCHANGED <<disk, table, opened>>

FreeSlots == {s \in Fds : table[s] = NoCall}

\* A faulty variant: the slot after the free one is written.
SlotAfter == IF FreeSlots = {} THEN NoCall
             ELSE LET s == CHOOSE s \in FreeSlots : \A t \in FreeSlots : s <= t
                  IN  IF s < MaxFiles THEN s + 1 ELSE s

file_get_free_slot ==
    IF FreeSlots = {} THEN NoCall ELSE CHOOSE s \in FreeSlots : \A t \in FreeSlots : s <= t

\* file_new_descriptor and the rest of file_open.
OpenSucceeds ==
    /\ pc = "returned" /\ ret \in {"file", "null"}
    /\ file_get_free_slot # NoCall
    /\ table' = [table EXCEPT ![file_get_free_slot] = call]
    /\ opened' = [opened EXCEPT ![call] =
                     [kind |-> ret, entry |-> IF ret = "file" THEN found ELSE End, number |-> k]]
    /\ handed' = [handed EXCEPT ![call] = file_get_free_slot]
    /\ heap' = pparser_free(heap, call, Len(parts)) \cup {Obj(call, "desc", 0)}
    /\ NoLocals /\ UNCHANGED <<disk, failures, call, fault>>

\* Without a slot or memory the descriptor is null: disk and data are written
\* to the bottom of memory, and what is there is returned as the index.
OpenWithoutDescriptor ==
    /\ pc = "returned" /\ ret \in {"file", "null"}
    /\ \/ FreeSlots = {} /\ UNCHANGED failures
       \/ FreeSlots # {} /\ failures < MaxFailures /\ failures' = failures + 1
    /\ \E value \in Values \ {NotHeld} : handed' = [handed EXCEPT ![call] = value]
    /\ opened' = [opened EXCEPT ![call].kind = "lost"]
    /\ heap' = pparser_free(heap, call, Len(parts))
    /\ NoLocals /\ UNCHANGED <<disk, call, fault, table>>

OpenFails ==
    /\ pc = "returned" /\ ret = "error"
    /\ handed' = [handed EXCEPT ![call] = Error]
    /\ heap' = pparser_free(heap, call, Len(parts))
    /\ NoLocals /\ UNCHANGED <<disk, failures, call, fault, table, opened>>

-----------------------------------------------------------------------------
(* Using and closing what file_open returned.                              *)

Get(fd) == IF fd \in Fds THEN table[fd] ELSE NoCall

\* file_stat and file_read of a descriptor without an item.
file_stat(n) ==
    /\ pc = "idle" /\ handed[n] \in Fds /\ Get(handed[n]) # NoCall
    /\ opened[Get(handed[n])].kind = "null"
    /\ Stop("null_item_used")
    /\ UNCHANGED <<disk, heap, failures, call, parts, found, path, mode, table, opened, handed>>

\* A faulty variant: fat16_close leaves the item.
CloseKeepsItem(n) == {Data(n), Obj(n, "desc", 0)}

\* What file_close frees: the item if there is one, the data, the descriptor.
Closed(n) ==
    {Data(n), Obj(n, "desc", 0)} \cup
    IF opened[n].kind = "file" THEN ItemOf(n, opened[n].number) ELSE {}

\* The caller closes what call n returned; an error, and a number that is no
\* longer a descriptor's, are refused.
file_close(n) ==
    /\ pc = "idle" /\ handed[n] # NotHeld
    /\ handed' = [handed EXCEPT ![n] = NotHeld]
    /\ LET c == Get(handed[n])
       IN  /\ heap' = IF c = NoCall THEN heap ELSE heap \ Closed(c)
           /\ table' = [s \in Fds |-> IF c # NoCall /\ table[s] = c THEN NoCall ELSE table[s]]
    /\ UNCHANGED <<disk, failures, call, parts, search, fault, path, mode, opened>>

\* Neither end of the table is checked: an error is an index in front of it,
\* and what is there is used as a descriptor unless it is zero.
CloseOutside(n) ==
    /\ pc = "idle" /\ handed[n] # NotHeld /\ handed[n] \notin Fds
    /\ Stop("outside_the_table")
    /\ UNCHANGED <<disk, heap, failures, call, parts, found, path, mode, table, opened, handed>>

Next ==
    \/ fat16_resolve \/ disk_all_init_panics
    \/ \E p \in Paths, m \in Modes : file_open(p, m)
    \/ Search /\ UNCHANGED <<path, mode, table, opened, handed>>
    \/ OpenSucceeds \/ OpenWithoutDescriptor \/ OpenFails
    \/ \E n \in Calls : file_stat(n) \/ file_close(n) \/ CloseOutside(n)

\* The kernel executes a call it has begun; nobody must open or close.
Continue == 
    \/ Search /\ UNCHANGED <<path, mode, table, opened, handed>>
    \/ OpenSucceeds \/ OpenWithoutDescriptor \/ OpenFails

Spec == Init /\ [][Next]_vars
FairSpec == Spec /\ WF_vars(Continue)

-----------------------------------------------------------------------------
(* Properties.                                                             *)

Arguments == PartsOf(path)

\* What belongs to an open file.
Belongings(n) ==
    {Obj(n, "data", 0), Obj(n, "desc", 0)} \cup
    IF opened[n].kind = "file"
    THEN {Obj(n, "item", opened[n].number), Obj(n, "entries", opened[n].number)} ELSE {}

\* The file opened is the one that the path names on the disk.  Two ways lead
\* to another: an entry left over in memory behind the array of a subdirectory
\* or above a sector, be it the file or a directory on the way, and a path cut
\* short because the heap was full while it was parsed.
OpenedIsNamed ==
    pc = "returned" /\ ret = "file" =>
        /\ \/ found \in Leftover \cup {Lookup(parts)}
           \/ \E n \in 1 .. Len(parts) - 1, e \in Leftover :
                 e.mark = "dir" /\ Matches(e, parts[n])
        /\ failures = 0 => parts = Arguments

\* A path of plain names, each in the first sector of its directory and not
\* in its last, with no deleted entry of the root before the first.
Findable(p) ==
    LET at == Named(p, FALSE)
    IN  /\ p # << >>
        /\ \A n \in 1 .. Len(p) :
              /\ p[n] \notin Unpadded
              /\ at[n].mark = IF n = Len(p) THEN "file" ELSE "dir"
              /\ n > 1 => at[n] = EntryNamed(disk.data[at[n - 1].cluster][1], p[n])
        /\ \A j \in DOMAIN disk.root :
              disk.root[j] = Deleted => \E l \in 1 .. j : disk.root[l] = at[1]

\* A call of file_open for reading with such a path, and memory, comes through
\* every error path untouched and finds its file.  (All other calls may end
\* in one of the faults: a path that is not set is freed, an error pointer is
\* freed as an item, an item is freed twice, address 0 is read as an item.)
GoodOpenSucceeds ==
    path.drive /\ mode = "r" /\ failures = 0 /\ Findable(Arguments) =>
        /\ fault = "none"
        /\ pc = "returned" => ret = "file" /\ found = Lookup(Arguments)

\* As long as every open that found its file has got a descriptor: whoever
\* holds a descriptor reaches with it the file of his own call, still
\* allocated, and no slot is taken that nobody can close.  A null descriptor
\* breaks this for others: the index returned for it may be theirs.
HandlesReach ==
    (\A n \in Calls : opened[n].kind # "lost") =>
        /\ \A n \in Calls : handed[n] \in Fds => table[handed[n]] = n /\ Belongings(n) \subseteq heap
        /\ \A s \in Fds : table[s] # NoCall => handed[table[s]] = s

\* What a call leaves allocated when it has failed or its file is closed: at
\* most the one PathPart allocated beyond the path's last part, and, if it
\* got no descriptor, its file's data.
OnlySpareRemains ==
    pc = "idle" =>
        \A n \in Calls :
            LET left == {o \in heap : o[1] = n}
                spare == {o \in left : o[2] = "part"}
            IN  /\ \A o, q \in spare : o = q
                /\ \/ left = spare
                   \/ /\ opened[n].kind = "lost"
                      /\ \A o \in left \ spare : o[2] \in {"data", "item", "entries"}
                   \/ (\E s \in Fds : table[s] = n) /\ left \ spare = Belongings(n)

\* An open returns, or stops with a fault, unless a deleted entry of the root
\* comes before the first part's entry and before the end mark: the search
\* stays with it for ever, although fat16.c:90-91 says of such an entry that
\* "we simply ignore" it.
DeletedInTheWay ==
    \E j \in DOMAIN disk.root :
        /\ disk.root[j] = Deleted
        /\ \A l \in 1 .. j : disk.root[l] # End /\ ~Matches(disk.root[l], parts[1])

OpenReturns == (pc = "search" /\ ~DeletedInTheWay) ~> (pc \in {"idle", "stopped"})
=============================================================================
