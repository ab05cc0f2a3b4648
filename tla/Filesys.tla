------------------------------ MODULE Filesys ------------------------------
(***************************************************************************)
(* filesys/free-map.c, inode.c, directory.c, file.c and filesys.c: the     *)
(* file system with one root directory and files that do not grow.         *)
(*                                                                         *)
(* A sector holds an inode or SECTOR_SIZE cells.  A cell is one bit of the *)
(* free map, one directory entry or one byte of a file.  An operation maps *)
(* a state S of memory and disk to the next one and to its result, and     *)
(* collects in S.log the sector writes it makes.                           *)
(***************************************************************************)
EXTENDS Integers, Sequences, FiniteSets, TLC

CONSTANTS NULL, ZERO, ONE,  \* no value; a cleared and a set cell
          SECTOR_SIZE,      \* BLOCK_SECTOR_SIZE, in cells
          DevSize,          \* block_size (fs_device)
          DirEntries,       \* the 16 of do_format
          OomKinds          \* the allocations that may fail

Sectors == 0 .. DevSize - 1
FREE_MAP_SECTOR == 0
ROOT_DIR_SECTOR == 1
Zeros == [i \in 0 .. SECTOR_SIZE - 1 |-> ZERO]
Inode(start, length) == [start |-> start, length |-> length, cells |-> Zeros]
Data(cells) == [start |-> -1, length |-> -1, cells |-> cells]

Min2(a, b) == IF a < b THEN a ELSE b
DIV_ROUND_UP(x, step) == (x + step - 1) \div step
bytes_to_sectors(size) == DIV_ROUND_UP(size, SECTOR_SIZE)
Extent(start, cnt) == start .. start + cnt - 1

(* A write that leaves the sector as it is makes no step of its own. *)
block_write(S, sector, data) ==
  IF S.disk[sector] = data THEN S
  ELSE [S EXCEPT !.disk[sector] = data, !.log = Append(@, <<sector, data>>)]

(* malloc and calloc: the S.oom-th allocation of a kind in OomKinds fails. *)
malloc(S, kind) ==
  IF kind \in OomKinds /\ S.oom > 0
  THEN [st |-> [S EXCEPT !.oom = @ - 1], ok |-> S.oom # 1]
  ELSE [st |-> S, ok |-> TRUE]

(***************************************************************************)
(* inode.c: reading and writing a byte range, one sector at a time.        *)
(***************************************************************************)
inode_length(S, ino) == S.inodes[ino].length

SectorOfs(pos) == pos % SECTOR_SIZE

byte_to_sector(S, ino, pos) == S.inodes[ino].start + pos \div SECTOR_SIZE

(* The bytes of one iteration: to the end of the request, of the sector or *)
(* of the file, whichever comes first.                                     *)
ChunkSize(S, ino, size, offset) ==
  Min2(size, Min2(inode_length(S, ino) - offset,
                  SECTOR_SIZE - SectorOfs(offset)))

(* The bounce buffer is allocated once, at the first partial sector. *)
Bounce(S, chunk, have) ==
  IF chunk = SECTOR_SIZE \/ have THEN [st |-> S, ok |-> TRUE]
  ELSE malloc(S, "bounce")

RECURSIVE ReadFrom(_, _, _, _, _)
ReadFrom(S, ino, size, offset, have) ==
  LET chunk == ChunkSize(S, ino, size, offset)
      sector == S.disk[byte_to_sector(S, ino, offset)].cells
      Rest(r) ==
        [st |-> r.st,
         buf |-> [i \in 1 .. chunk |-> sector[SectorOfs(offset) + i - 1]] \o r.buf]
      Read(b) ==
        IF ~b.ok THEN [st |-> b.st, buf |-> <<>>]
        ELSE Rest(ReadFrom(b.st, ino, size - chunk, offset + chunk,
                           have \/ chunk < SECTOR_SIZE))
  IN  IF size = 0 \/ chunk <= 0 THEN [st |-> S, buf |-> <<>>]
      ELSE Read(Bounce(S, chunk, have))

inode_read_at(S, ino, size, offset) == ReadFrom(S, ino, size, offset, FALSE)

(* A variant that does not read the sector into the bounce buffer first. *)
Merged_zeroed(old, ofs, bytes) ==
  [i \in 0 .. SECTOR_SIZE - 1 |->
     IF i \in ofs .. ofs + Len(bytes) - 1 THEN bytes[i - ofs + 1] ELSE ZERO]

(* The sector old with bytes put at ofs. *)
Merged(old, ofs, bytes) ==
  [i \in 0 .. SECTOR_SIZE - 1 |->
     IF i \in ofs .. ofs + Len(bytes) - 1 THEN bytes[i - ofs + 1] ELSE old[i]]

RECURSIVE WriteFrom(_, _, _, _, _)
WriteFrom(S, ino, buffer, offset, have) ==
  LET chunk == ChunkSize(S, ino, Len(buffer), offset)
      sector == byte_to_sector(S, ino, offset)
      Rest(w) == [st |-> w.st, n |-> chunk + w.n]
      Write(b) ==
        IF ~b.ok THEN [st |-> b.st, n |-> 0]
        ELSE Rest(WriteFrom(block_write(b.st, sector,
                              Data(Merged(S.disk[sector].cells, SectorOfs(offset),
                                          SubSeq(buffer, 1, chunk)))),
                            ino, SubSeq(buffer, chunk + 1, Len(buffer)), offset + chunk,
                            have \/ chunk < SECTOR_SIZE))
  IN  IF buffer = <<>> \/ chunk <= 0 THEN [st |-> S, n |-> 0]
      ELSE Write(Bounce(S, chunk, have))


inode_write_at(S, ino, buffer, offset) ==
  IF S.inodes[ino].deny_write_cnt > 0 THEN [st |-> S, n |-> 0]
  ELSE WriteFrom(S, ino, buffer, offset, FALSE)

(***************************************************************************)
(* free-map.c                                                              *)
(***************************************************************************)
bitmap_write(S) ==
  LET Written(w) == [st |-> w.st, ok |-> w.n = DevSize]
  IN  Written(inode_write_at(S, FREE_MAP_SECTOR,
        [i \in 1 .. DevSize |-> IF i - 1 \in S.free_map THEN ONE ELSE ZERO], 0))

(* The first start of cnt consecutive free sectors; -1 is BITMAP_ERROR. *)
bitmap_scan(S, cnt) ==
  LET fits == {s \in 0 .. DevSize - cnt : Extent(s, cnt) \cap S.free_map = {}}
  IN  IF fits = {} THEN -1 ELSE CHOOSE s \in fits : \A r \in fits : s <= r

free_map_allocate(S, cnt) ==
  LET None(T) == [st |-> T, ok |-> FALSE, sector |-> 0]
      Saved(w, sector) ==
        IF w.ok THEN [st |-> w.st, ok |-> TRUE, sector |-> sector]
        ELSE None([w.st EXCEPT !.free_map = @ \ Extent(sector, cnt)])
      Taken(T, sector) ==
        Saved(IF T.map_open THEN bitmap_write(T) ELSE [st |-> T, ok |-> TRUE], sector)
      Found(sector) ==
        IF sector = -1 THEN None(S)
        ELSE Taken([S EXCEPT !.free_map = @ \cup Extent(sector, cnt)], sector)
  IN  Found(bitmap_scan(S, cnt))

free_map_release(S, sector, cnt) ==
  bitmap_write([S EXCEPT !.free_map = @ \ Extent(sector, cnt),
                         !.failed = @ \/ ~(Extent(sector, cnt) \subseteq S.free_map)]).st

(***************************************************************************)
(* inode.c: creating, opening and closing.                                 *)
(***************************************************************************)
RECURSIVE ZeroSectors(_, _, _)
ZeroSectors(S, start, cnt) ==
  IF cnt = 0 THEN S ELSE ZeroSectors(block_write(S, start, Data(Zeros)), start + 1, cnt - 1)

inode_create(S, sector, length) ==
  LET sectors == bytes_to_sectors(length)
      Write(a) ==
        [st |-> IF ~a.ok THEN a.st
                ELSE ZeroSectors(block_write(a.st, sector, Inode(a.sector, length)),
                                 a.sector, sectors),
         ok |-> a.ok]
      Allocate(m) == IF ~m.ok THEN m ELSE Write(free_map_allocate(m.st, sectors))
  IN  Allocate(malloc(S, "struct"))

inode_reopen(S, ino) == [S EXCEPT !.inodes[ino].open_cnt = @ + 1]

inode_open(S, sector) ==
  LET inode == [open_cnt |-> 1, removed |-> FALSE, deny_write_cnt |-> 0,
                start |-> S.disk[sector].start, length |-> S.disk[sector].length]
      Add(m) == IF ~m.ok THEN m ELSE [m EXCEPT !.st.inodes = (sector :> inode) @@ @]
  IN  IF sector \in DOMAIN S.inodes THEN [st |-> inode_reopen(S, sector), ok |-> TRUE]
      ELSE Add(malloc(S, "struct"))

inode_close(S, ino) ==
  LET inode == S.inodes[ino]
      closed == [S EXCEPT !.inodes[ino].open_cnt = @ - 1]
      gone == [S EXCEPT !.inodes = [i \in DOMAIN @ \ {ino} |-> @[i]]]
  IN  IF inode.open_cnt > 1 THEN closed
      ELSE IF ~inode.removed THEN gone
      ELSE free_map_release(free_map_release(gone, ino, 1),
                            inode.start, bytes_to_sectors(inode.length))

inode_remove(S, ino) == [S EXCEPT !.inodes[ino].removed = TRUE]

inode_deny_write(S, ino) ==
  LET T == [S EXCEPT !.inodes[ino].deny_write_cnt = @ + 1]
  IN  [T EXCEPT !.failed = @ \/ T.inodes[ino].deny_write_cnt > T.inodes[ino].open_cnt]

inode_allow_write(S, ino) ==
  [S EXCEPT !.inodes[ino].deny_write_cnt = @ - 1,
            !.failed = @ \/ S.inodes[ino].deny_write_cnt \notin 1 .. S.inodes[ino].open_cnt]

(***************************************************************************)
(* directory.c: the root directory, an array of entries of one cell each.  *)
(***************************************************************************)
dir_open_root(S) ==
  LET Struct(m, ok) ==
        IF ok /\ m.ok THEN m
        ELSE [st |-> IF ok THEN inode_close(m.st, ROOT_DIR_SECTOR) ELSE m.st, ok |-> FALSE]
      Opened(o) == Struct(malloc(o.st, "struct"), o.ok)
  IN  Opened(inode_open(S, ROOT_DIR_SECTOR))

dir_close(S) == inode_close(S, ROOT_DIR_SECTOR)

InUse(cell) == cell # ZERO /\ cell.in_use

(* The first offset from ofs on whose entry passes: the entry is in use    *)
(* with the given name, or free if name is NULL.  The loop ends with a     *)
(* short read.                                                             *)
RECURSIVE ScanDir(_, _, _)
ScanDir(S, name, ofs) ==
  LET Passes(e) == IF name = NULL THEN ~InUse(e) ELSE InUse(e) /\ e.name = name
      Look(r) ==
        IF r.buf = <<>> THEN [st |-> r.st, ok |-> FALSE, ofs |-> ofs, e |-> NULL]
        ELSE IF Passes(r.buf[1]) THEN [st |-> r.st, ok |-> TRUE, ofs |-> ofs, e |-> r.buf[1]]
        ELSE ScanDir(r.st, name, ofs + 1)
  IN  Look(inode_read_at(S, ROOT_DIR_SECTOR, 1, ofs))

lookup(S, name) == ScanDir(S, name, 0)

dir_lookup(S, name) ==
  LET Opened(o, ino) == [st |-> o.st, ok |-> o.ok, ino |-> ino]
      Found(l) ==
        IF ~l.ok THEN [st |-> l.st, ok |-> FALSE, ino |-> NULL]
        ELSE Opened(inode_open(l.st, l.e.inode_sector), l.e.inode_sector)
  IN  Found(lookup(S, name))

(* "" stands for the names that are empty or longer than NAME_MAX. *)
ValidName(name) == name # ""

dir_add(S, name, inode_sector) ==
  LET Written(w) == [st |-> w.st, ok |-> w.n = 1]
      Put(slot) ==
        Written(inode_write_at(slot.st, ROOT_DIR_SECTOR,
          <<[in_use |-> TRUE, name |-> name, inode_sector |-> inode_sector]>>, slot.ofs))
      Found(l) ==
        IF l.ok THEN [st |-> l.st, ok |-> FALSE] ELSE Put(ScanDir(l.st, NULL, 0))
  IN  IF ValidName(name) THEN Found(lookup(S, name)) ELSE [st |-> S, ok |-> FALSE]

(* A variant that marks the inode and lets go of it before it erases the   *)
(* entry, so that the blocks are free first.                               *)
dir_remove_late(S, name) ==
  LET Erase(T, l) ==
        [st |-> inode_write_at(T, ROOT_DIR_SECTOR, <<[l.e EXCEPT !.in_use = FALSE]>>, l.ofs).st,
         ok |-> TRUE]
      Opened(o, l) ==
        IF ~o.ok THEN o
        ELSE Erase(inode_close(inode_remove(o.st, l.e.inode_sector), l.e.inode_sector), l)
      Found(l) ==
        IF ~l.ok THEN [st |-> l.st, ok |-> FALSE]
        ELSE Opened(inode_open(l.st, l.e.inode_sector), l)
  IN  Found(lookup(S, name))

dir_remove(S, name) ==
  LET Erased(w, ino) ==
        [st |-> inode_close(IF w.n = 1 THEN inode_remove(w.st, ino) ELSE w.st, ino),
         ok |-> w.n = 1]
      Opened(o, l) ==
        IF ~o.ok THEN o
        ELSE Erased(inode_write_at(o.st, ROOT_DIR_SECTOR,
                      <<[l.e EXCEPT !.in_use = FALSE]>>, l.ofs), l.e.inode_sector)
      Found(l) ==
        IF ~l.ok THEN [st |-> l.st, ok |-> FALSE]
        ELSE Opened(inode_open(l.st, l.e.inode_sector), l)
  IN  Found(lookup(S, name))

(***************************************************************************)
(* file.c and filesys.c                                                    *)
(***************************************************************************)
(* file_open of an inode that was opened, or not, by the caller. *)
file_open(S, ok, ino) ==
  LET m == malloc(S, "struct")
  IN  IF ok /\ m.ok
      THEN [st |-> m.st, file |-> [ino |-> ino, pos |-> 0, deny_write |-> FALSE]]
      ELSE [st |-> IF ok THEN inode_close(m.st, ino) ELSE m.st, file |-> NULL]

file_close(S, file) ==
  inode_close(IF file.deny_write THEN inode_allow_write(S, file.ino) ELSE S, file.ino)

(* A variant that marks the inode sector free again on no failure. *)
filesys_create_keeping(S, name, initial_size) ==
  LET Close(r) == [st |-> dir_close(r.st), ok |-> r.ok]
      Name(c, sector) == IF ~c.ok THEN c ELSE dir_add(c.st, name, sector)
      Create(a) ==
        IF ~a.ok THEN a ELSE Name(inode_create(a.st, a.sector, initial_size), a.sector)
      Opened(d) == IF ~d.ok THEN d ELSE Close(Create(free_map_allocate(d.st, 1)))
  IN  Opened(dir_open_root(S))

filesys_create(S, name, initial_size) ==
  LET Close(r) == [st |-> dir_close(r.st), ok |-> r.ok]
      Undo(r, sector) ==
        [st |-> IF ~r.ok /\ sector # 0 THEN free_map_release(r.st, sector, 1) ELSE r.st,
         ok |-> r.ok]
      Name(c, sector) == IF ~c.ok THEN c ELSE dir_add(c.st, name, sector)
      Create(a) ==
        IF ~a.ok THEN a ELSE Name(inode_create(a.st, a.sector, initial_size), a.sector)
      Allocated(a) == Close(Undo(Create(a), a.sector))
      Opened(d) == IF ~d.ok THEN d ELSE Allocated(free_map_allocate(d.st, 1))
  IN  Opened(dir_open_root(S))

filesys_open(S, name) ==
  LET Found(l) == file_open(dir_close(l.st), l.ok, l.ino)
      Opened(d) == IF ~d.ok THEN file_open(d.st, FALSE, NULL) ELSE Found(dir_lookup(d.st, name))
  IN  Opened(dir_open_root(S))

filesys_remove(S, name) ==
  LET Close(r) == [st |-> dir_close(r.st), ok |-> r.ok]
      Opened(d) == IF ~d.ok THEN d ELSE Close(dir_remove(d.st, name))
  IN  Opened(dir_open_root(S))

Blank == [disk |-> [s \in Sectors |-> Data(Zeros)], log |-> <<>>, free_map |-> {},
          map_open |-> FALSE, inodes |-> <<>>, oom |-> 0, failed |-> FALSE]

free_map_create(S) ==
  bitmap_write([inode_open(inode_create(S, FREE_MAP_SECTOR, DevSize).st, FREE_MAP_SECTOR).st
                  EXCEPT !.map_open = TRUE]).st

free_map_open(S) ==
  LET Read(T, bits) ==
        [T EXCEPT !.free_map = {s \in Sectors : bits[s + 1] = ONE}, !.map_open = TRUE]
      Opened(T) == Read(T, inode_read_at(T, FREE_MAP_SECTOR, DevSize, 0).buf)
  IN  Opened(inode_open(S, FREE_MAP_SECTOR).st)

free_map_close(S) == inode_close(S, FREE_MAP_SECTOR)

do_format(S) ==
  free_map_close(inode_create(free_map_create(S), ROOT_DIR_SECTOR, DirEntries).st)

(* The state after filesys_init on the sectors d. *)
filesys_init(d, format) ==
  LET S == [Blank EXCEPT !.disk = d, !.free_map = {FREE_MAP_SECTOR, ROOT_DIR_SECTOR}]
  IN  free_map_open(IF format THEN do_format(S) ELSE S)

(***************************************************************************)
(* What an image d of the disk holds.                                      *)
(***************************************************************************)
Entries(d) == {e \in {d[d[ROOT_DIR_SECTOR].start + i \div SECTOR_SIZE].cells[SectorOfs(i)] :
                        i \in 0 .. DirEntries - 1} : InUse(e)}

Owned(d, ino) == {ino} \cup Extent(d[ino].start, bytes_to_sectors(d[ino].length))

Bytes(d, ino) ==
  [i \in 1 .. d[ino].length |-> d[d[ino].start + (i - 1) \div SECTOR_SIZE].cells[SectorOfs(i - 1)]]

Named(d) == {e.inode_sector : e \in Entries(d)}
System == {FREE_MAP_SECTOR, ROOT_DIR_SECTOR}

(* What the files on d own, and the open ones. *)
Reachable(d, open) ==
  UNION {Owned(d, ino) : ino \in System \cup Named(d) \cup open}

=============================================================================
