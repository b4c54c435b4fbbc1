------------------------------ MODULE FatFile -------------------------------
(***************************************************************************)
(* Reading a file: fat16_read with fat16_read_internals and                *)
(* fat16_get_next_cluster over the two disk streams, one action per round  *)
(* of fat16_read's loop.                                                   *)
(*                                                                         *)
(* A byte of the disk is its address, so what has been copied shows where  *)
(* it was read from.  Disk blocks and the sectors of the file system have  *)
(* the same size (SectorSize is the 512 of disk/stream.c and of fat16.c).  *)
(* A read begins in the file's first cluster.  Both callers, elf_load and  *)
(* process_load_binary, read a file from its start; from behind the first  *)
(* cluster the code computes with a negative number of bytes.              *)
(***************************************************************************)
EXTENDS Fat, Sequences

CONSTANTS
    SectorSize, SectorsPerCluster,
    Clusters,            \* the numbers of the data area's clusters
    MaxSize              \* bound: sizes of the file

ASSUME FatFileConstants ==
    /\ SectorSize \in Nat \ {0, 1} /\ SectorsPerCluster \in Nat \ {0}
    /\ Clusters \subseteq 2 .. FirstReserved - 1 /\ MaxSize \in Nat

VARIABLES
    fat, size, first,    \* the disk: its table, and the file's directory entry
    stream,              \* position of fat_data_stream
    pos,                 \* NuttleFATFileDescriptor.pos
    start, total,        \* the read: where it began, and its length
    rounds, todo,        \* its sectors and tmp_total
    cluster, count, buf, \* its locals
    out,                 \* what it has copied for the caller
    phase, res

onDisk == <<fat, size, first>>
locals == <<rounds, todo, cluster, count, buf>>
readVars == <<onDisk, stream, pos, start, total, locals, out, phase, res>>

ClusterSize == SectorSize * SectorsPerCluster

\* Entries of the table that are no next cluster: free, bad and last.
Marks == {0, 65527, 65528}

\* A buffer on the kernel's stack.
Garbage == -1

-----------------------------------------------------------------------------
\* The root directory's end is sector 0 here.
fat16_cluster_to_sector(c) == (c - 2) * SectorsPerCluster

Least(m, n) == IF m < n THEN m ELSE n

\* How many sectors diskstream_read reads: those up to offset + n - 1, that
\* number of bytes rounded up.
SectorsRead(at, n) ==
    LET bytes == (at % SectorSize) + n - 1
    IN  bytes \div SectorSize + (IF bytes % SectorSize # 0 THEN 1 ELSE 0)

\* The bytes diskstream_read delivers.
Delivered(at, n) == Least(n, SectorsRead(at, n) * SectorSize - (at % SectorSize))

\* The buffer after a diskstream_read of n bytes: what was not delivered is
\* what was there.
diskstream_read(old, at, n) ==
    [i \in DOMAIN old |-> IF i <= Delivered(at, n) THEN at + i - 1 ELSE old[i]]

\* What is left of the cluster, at most a sector.
BytesToRead(n) == Least(SectorSize, ClusterSize - n)

-----------------------------------------------------------------------------
Blank == [i \in 1 .. SectorSize |-> Garbage]

NothingRead ==
    /\ start' = 0 /\ total' = 0 /\ rounds' = 0 /\ todo' = 0
    /\ cluster' = first /\ count' = 0 /\ buf' = Blank
    /\ out' = << >> /\ res' = 0

ReadInit ==
    /\ fat \in [Clusters -> Clusters \cup Marks]
    /\ size \in 0 .. MaxSize /\ first \in Clusters
    /\ stream = 0 /\ pos = 0
    /\ start = 0 /\ total = 0 /\ rounds = 0 /\ todo = 0
    /\ cluster = first /\ count = 0
    /\ buf = Blank
    /\ out = << >> /\ phase = "idle" /\ res = 0

\* fat16_seek from the start of the file; what was read before is forgotten.
fat16_seek(offset) ==
    /\ phase # "reading"
    /\ offset < size
    /\ pos' = offset /\ phase' = "idle"
    /\ NothingRead /\ UNCHANGED <<onDisk, stream>>

\* A faulty variant: a partly used sector is not read.
WholeSectors(n) == n \div SectorSize

SectorsOf(n) == n \div SectorSize + (IF n % SectorSize # 0 THEN 1 ELSE 0)

\* As many of the n bytes asked for as the file has.
BytesLeft(n) == Least(n, size - pos)

\* fat16_read up to its loop, asked for n bytes.
fat16_read(n) ==
    /\ phase # "reading" /\ pos < ClusterSize
    /\ start' = pos
    /\ total' = BytesLeft(n) /\ todo' = BytesLeft(n)
    /\ rounds' = SectorsOf(BytesLeft(n))
    /\ cluster' = first /\ count' = pos
    /\ stream' = fat16_cluster_to_sector(first) * SectorSize + pos
    /\ buf' = Blank
    /\ out' = << >> /\ phase' = "reading" /\ res' = 0
    /\ UNCHANGED <<onDisk, pos>>

\* A faulty variant: the stream stays in the cluster it has read.
InternalsKeepStream(n, next) ==
    /\ buf' = diskstream_read(buf, stream, n)
    /\ count + n = ClusterSize => next # NoCluster
    /\ stream' = stream + n
    /\ count' = (count + n) % ClusterSize /\ cluster' = cluster

\* fat16_read_internals: a sector into buf.  At the end of a cluster the
\* stream moves to the next, or, without a next, the round fails although
\* its sector has been read.
Internals(n, next) ==
    /\ buf' = diskstream_read(buf, stream, n)
    /\ \/ /\ count + n # ClusterSize
          /\ stream' = stream + n
          /\ count' = count + n /\ cluster' = cluster
       \/ /\ count + n = ClusterSize /\ next # NoCluster
          /\ stream' = fat16_cluster_to_sector(next) * SectorSize
          /\ count' = 0 /\ cluster' = next

InternalsFail(n, next) ==
    /\ count + n = ClusterSize /\ next = NoCluster
    /\ buf' = diskstream_read(buf, stream, n)
    /\ stream' = stream + n
    /\ count' = count + n /\ cluster' = NoCluster

\* A round whose sector is copied, whole or as far as it was asked for.
Round ==
    LET n == BytesToRead(count)
    IN  /\ phase = "reading" /\ rounds > 0
        /\ Internals(n, fat16_get_next_cluster(fat, cluster))
        /\ out' = out \o SubSeq(buf', 1, Least(todo, n))
        /\ pos' = pos + Least(todo, n)
        /\ rounds' = IF todo < n THEN 0 ELSE rounds - 1
        /\ todo' = IF todo < n THEN todo ELSE todo - n
        /\ UNCHANGED <<onDisk, start, total, phase, res>>

\* The read gives up with 0, the result of its last seek.
RoundFails ==
    LET n == BytesToRead(count)
    IN  /\ phase = "reading" /\ rounds > 0
        /\ InternalsFail(n, fat16_get_next_cluster(fat, cluster))
        /\ rounds' = rounds - 1
        /\ phase' = "done" /\ res' = 0
        /\ UNCHANGED <<onDisk, pos, start, total, todo, out>>

\* res = total / size, with elements of one byte.
Finish ==
    /\ phase = "reading" /\ rounds = 0
    /\ phase' = "done" /\ res' = total
    /\ UNCHANGED <<onDisk, stream, pos, start, total, locals, out>>

ReadNext ==
    \/ \E offset \in 0 .. MaxSize : fat16_seek(offset)
    \/ \E n \in 0 .. MaxSize : fat16_read(n)
    \/ Round \/ RoundFails \/ Finish

ReadSpec == ReadInit /\ [][ReadNext]_readVars

-----------------------------------------------------------------------------
(* Properties.                                                             *)

\* The file, without buffers and streams: its clusters one after another,
\* until the table has no next, and the disk address of its byte k.
ClusterAt[i \in Nat] ==
    IF i = 0 THEN first
    ELSE IF ClusterAt[i - 1] = NoCluster THEN NoCluster
    ELSE fat16_get_next_cluster(fat, ClusterAt[i - 1])

FileByte(k) ==
    (ClusterAt[k \div ClusterSize] - 2) * ClusterSize + (k % ClusterSize)

\* The caller's buffer gets the file's bytes from where the read began, in
\* order, none of them stale or from another cluster, never more than were
\* asked for, and the position counts them.  Not so from the second byte of
\* a sector: diskstream_read then rounds down, and misses its last byte.
CopiedIsFile ==
    phase # "idle" /\ start % SectorSize # 1 =>
        /\ Len(out) <= total
        /\ \A i \in DOMAIN out : out[i] = FileByte(start + i - 1)
        /\ pos = start + Len(out)

\* A read from the start of a sector is whole and says so, unless it touches
\* the last sector of the file's last cluster (or of the last before a bad or
\* free one): it then says 0 and has copied everything in front of that
\* sector, because the round looks for the next cluster before it copies.
WholeUnlessAtChainEnd ==
    phase = "done" /\ start % SectorSize = 0 =>
        LET lost == {i \in 0 .. MaxSize :
                        /\ ClusterAt[i] # NoCluster /\ ClusterAt[i + 1] = NoCluster
                        /\ start + total > (i + 1) * ClusterSize - SectorSize}
        IN  IF lost = {} THEN res = total /\ Len(out) = total
            ELSE /\ res = 0
                 /\ \A i \in lost : start + Len(out) = (i + 1) * ClusterSize - SectorSize
=============================================================================
