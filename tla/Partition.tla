----------------------------- MODULE Partition -----------------------------
(***************************************************************************)
(* devices/partition.c and devices/block.c: the scan of a disk for         *)
(* partitions, the block devices it registers and the accesses through     *)
(* them.  Sector numbers are unsigned words: arithmetic is modulo Word.    *)
(***************************************************************************)
EXTENDS Naturals, Sequences, FiniteSets

CONSTANTS NULL,
          Word,         \* 2^32
          DiskSizes,    \* sizes of the disk
          MasterTables, \* partition tables that sector 0 may hold
          SubTables,    \* tables, or anything else, in the other sectors
          MaxDepth,     \* bound on the recursion
          MaxAccesses   \* bound on the accesses after the scan

VARIABLES size,      \* block_size of the raw disk
          tables,    \* the disk's sectors, read as partition tables
          stack,     \* the active calls of read_partition_table
          part_nr,
          blocks,    \* all_blocks: the raw disk, then its partitions
          touched,   \* history: the raw sectors accessed after the scan
          panicked

vars == <<size, tables, stack, part_nr, blocks, touched, panicked>>

Extended == {5, 15, 133, 197}
TypeOf(part_type) == CASE part_type = 32 -> "kernel" [] part_type = 33 -> "filesys"
                       [] part_type = 34 -> "scratch" [] part_type = 35 -> "swap"
                       [] OTHER -> "foreign"

RawDisk(n) == [nr |-> 0, type |-> "raw", start |-> 0, size |-> n, read_cnt |-> 0, write_cnt |-> 0]

Frame(sector, primary) == [sector |-> sector, primary |-> primary, pt |-> NULL, i |-> 1]

Init ==
  /\ size \in DiskSizes
  /\ \E mbr \in MasterTables :
       \E sub \in SubTables : tables = [s \in 0 .. size - 1 |-> IF s = 0 THEN mbr ELSE sub]
  /\ stack = <<Frame(0, 0)>>      \* partition_scan
  /\ part_nr = 0
  /\ blocks = <<RawDisk(size)>>
  /\ touched = {} /\ panicked = FALSE

Top == stack[Len(stack)]
Pop == SubSeq(stack, 1, Len(stack) - 1)

(* block_read (block, 0, pt): the sector that the code reads. *)
TableAt(sector) == tables[0]

(* read_partition_table up to the loop: it returns at once if the sector   *)
(* is past the end of the device or holds no table.                        *)
ReadTable ==
  /\ stack # <<>> /\ Top.pt = NULL
  /\ IF Top.sector >= size
     THEN stack' = Pop /\ UNCHANGED blocks
     ELSE /\ blocks' = [blocks EXCEPT ![1].read_cnt = @ + 1]
          /\ stack' = IF TableAt(Top.sector) = <<>> THEN Pop
                      ELSE [stack EXCEPT ![Len(stack)].pt = TableAt(Top.sector)]
  /\ UNCHANGED <<size, tables, part_nr, touched, panicked>>

Entry == Top.pt[Top.i]
AtEntry == stack # <<>> /\ Top.pt # NULL /\ Top.i <= Len(Top.pt)
NextEntry == [stack EXCEPT ![Len(stack)].i = @ + 1]

EmptyEntry ==
  /\ AtEntry /\ (Entry.size = 0 \/ Entry.type = 0)
  /\ stack' = NextEntry
  /\ UNCHANGED <<size, tables, part_nr, blocks, touched, panicked>>

ExtendedEntry ==
  /\ AtEntry /\ Entry.size # 0 /\ Entry.type \in Extended
  /\ Len(stack) < MaxDepth
  /\ stack' = Append(NextEntry,
                IF Top.sector = 0 THEN Frame(Entry.offset, Entry.offset)
                ELSE Frame((Entry.offset + Top.primary) % Word, Top.primary))
  /\ UNCHANGED <<size, tables, part_nr, blocks, touched, panicked>>

(* found_partition and block_register *)
found_partition(part_type, start, n, nr) ==
  LET end == (start + n) % Word
  IN  IF start >= size \/ end < start \/ end > size THEN blocks
      ELSE Append(blocks, [nr |-> nr, type |-> TypeOf(part_type), start |-> start, size |-> n,
                           read_cnt |-> 0, write_cnt |-> 0])

PartitionEntry ==
  /\ AtEntry /\ Entry.size # 0 /\ Entry.type \notin Extended \cup {0}
  /\ part_nr' = part_nr + 1
  /\ blocks' = found_partition(Entry.type, (Entry.offset + Top.sector) % Word, Entry.size,
                               part_nr + 1)
  /\ stack' = NextEntry
  /\ UNCHANGED <<size, tables, touched, panicked>>

TableDone ==
  /\ stack # <<>> /\ Top.pt # NULL /\ Top.i > Len(Top.pt)
  /\ stack' = Pop
  /\ UNCHANGED <<size, tables, part_nr, blocks, touched, panicked>>

(***************************************************************************)
(* block_read and block_write, through partition_read and partition_write  *)
(* if the device is a partition.                                           *)
(***************************************************************************)
Accesses == Cardinality(touched)

check_sector(b, sector) == sector < blocks[b].size

block_access(b, sector, write) ==
  LET raw == (blocks[b].start + sector) % Word
      fine == /\ check_sector(b, sector) /\ check_sector(1, raw)
              /\ ~(write /\ blocks[b].type = "foreign")
      field == IF write THEN "write_cnt" ELSE "read_cnt"
      counted == [blocks EXCEPT ![1][field] = @ + 1]
  IN  /\ stack = <<>> /\ ~panicked /\ Accesses < MaxAccesses
      /\ IF fine
         THEN /\ blocks' = IF b = 1 THEN counted ELSE [counted EXCEPT ![b][field] = @ + 1]
              /\ touched' = touched \cup {[n |-> Accesses, b |-> b, raw |-> raw, write |-> write]}
              /\ UNCHANGED panicked
         ELSE panicked' = TRUE /\ UNCHANGED <<blocks, touched>>
      /\ UNCHANGED <<size, tables, stack, part_nr>>

Next ==
  \/ ReadTable \/ EmptyEntry \/ ExtendedEntry \/ PartitionEntry \/ TableDone
  \/ \E b \in 1 .. Len(blocks), sector \in 0 .. size, write \in BOOLEAN :
       block_access(b, sector, write)

Spec == Init /\ [][Next]_vars

(***************************************************************************)
(* Properties.                                                             *)
(***************************************************************************)
(* Whatever the partition tables say, also with offsets and sizes whose    *)
(* sum wraps around, each registered partition lies on the disk.           *)
PartitionsOnDisk ==
  \A b \in 2 .. Len(blocks) :
    /\ blocks[b].start < size /\ blocks[b].start + blocks[b].size <= size
    /\ \A c \in 2 .. Len(blocks) : b # c => blocks[b].nr # blocks[c].nr

(* An access through a partition that is not refused touches a sector of   *)
(* that partition, and nothing is written to a foreign one.                *)
AccessesConfined ==
  \A a \in touched :
    /\ a.raw \in blocks[a.b].start .. blocks[a.b].start + blocks[a.b].size - 1
    /\ a.write => blocks[a.b].type # "foreign"

(* partition.c:36: "Reads the partition table in the given SECTOR of       *)
(* BLOCK": the entries being parsed are those of the call's sector.        *)
ReadsGivenSector ==
  \A f \in 1 .. Len(stack) : stack[f].pt # NULL => stack[f].pt = tables[stack[f].sector]

=============================================================================
