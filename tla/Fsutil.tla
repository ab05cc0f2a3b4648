------------------------------- MODULE Fsutil -------------------------------
(***************************************************************************)
(* filesys/fsutil.c: the boot actions ls, cat, rm, extract and append on   *)
(* the file system of Filesys and the scratch device, which holds a ustar  *)
(* archive: a header sector per member, its data, and zero sectors at the  *)
(* end.  Headers are tokens here; module Ustar has their bytes.  A call is *)
(* one step.                                                               *)
(***************************************************************************)
EXTENDS Filesys

CONSTANTS Names, Values,  \* file names and bytes
          PGSIZE,         \* the buffer of cat, in cells
          ScratchSize,    \* block_size of the scratch device
          Archives,       \* the members that extract may find there
          MaxCalls        \* bound on the boot actions and restarts

VARIABLES fs,        \* the state of Filesys
          scratch,   \* the sectors of the scratch device
          taken,     \* the static sector of fsutil_extract
          put,       \* the static sector of fsutil_append
          members,   \* history: what append has put since the boot
          expected,  \* history: what each file should hold
          shown,     \* what the last ls or cat printed
          panicked,
          calls

vars == <<fs, scratch, taken, put, members, expected, shown, panicked, calls>>

Header(name, type, size) == [kind |-> "header", name |-> name, type |-> type, size |-> size,
                             cells |-> Zeros]
Block(cells) == [kind |-> "data", name |-> NULL, type |-> NULL, size |-> 0, cells |-> cells]
ZeroBlock == Block(Zeros)

(* Sector i of a member's data, filled up with zeros. *)
Piece(bytes, i) ==
  Block([c \in 0 .. SECTOR_SIZE - 1 |->
           IF i * SECTOR_SIZE + c < Len(bytes) THEN bytes[i * SECTOR_SIZE + c + 1] ELSE ZERO])

(* The sectors of an archive with these members. *)
RECURSIVE Sectored(_)
Sectored(ms) ==
  IF ms = <<>> THEN <<ZeroBlock, ZeroBlock>>
  ELSE <<Header(ms[1].name, ms[1].type, Len(ms[1].bytes))>>
       \o [i \in 1 .. bytes_to_sectors(Len(ms[1].bytes)) |-> Piece(ms[1].bytes, i - 1)]
       \o Sectored(Tail(ms))

Device(sectors) ==
  [s \in 0 .. ScratchSize - 1 |-> IF s < Len(sectors) THEN sectors[s + 1] ELSE ZeroBlock]

(* The sector writes of the call have reached the disk. *)
Settled(S) == [S EXCEPT !.log = <<>>]

Init ==
  /\ fs = Settled(filesys_init(Blank.disk, TRUE))
  /\ \E ms \in Archives : scratch = Device(Sectored(ms))
  /\ taken = 0 /\ put = 0
  /\ members = <<>> /\ expected = <<>>
  /\ shown = NULL /\ panicked = FALSE /\ calls = 0

(***************************************************************************)
(* fsutil_extract.  T holds the file system, the position and whether the  *)
(* kernel has panicked.                                                    *)
(***************************************************************************)
(* The chunk_size of one round of a copy. *)
ChunkOf(size) == IF size > SECTOR_SIZE THEN SECTOR_SIZE ELSE size

RECURSIVE CopyIn(_, _, _)
CopyIn(T, dst, size) ==
  LET chunk == ChunkOf(size)
      Written(w) ==
        IF w.n # chunk THEN [T EXCEPT !.panic = TRUE]
        ELSE CopyIn([T EXCEPT !.st = w.st, !.sector = @ + 1],
                    [dst EXCEPT !.pos = @ + chunk], size - chunk)
  IN  IF size <= 0 THEN [T EXCEPT !.st = file_close(T.st, dst)]
      ELSE IF T.sector >= ScratchSize THEN [T EXCEPT !.panic = TRUE]
      ELSE Written(inode_write_at(T.st, dst.ino,
                     [i \in 1 .. chunk |-> scratch[T.sector].cells[i - 1]], dst.pos))

RECURSIVE ExtractFrom(_)
ExtractFrom(T) ==
  LET Panic == [T EXCEPT !.panic = TRUE]
      Opened(o, h) ==
        IF o.file = NULL THEN Panic
        ELSE ExtractFrom(CopyIn([T EXCEPT !.st = o.st, !.sector = @ + 1], o.file, h.size))
      Created(c, h) == IF ~c.ok THEN Panic ELSE Opened(filesys_open(c.st, h.name), h)
      Parsed(h) ==
        IF h = ZeroBlock THEN [T EXCEPT !.sector = @ + 1]
        ELSE IF h.kind # "header" THEN Panic
        ELSE IF h.type = "directory" THEN ExtractFrom([T EXCEPT !.sector = @ + 1])
        ELSE Created(filesys_create(T.st, h.name, h.size), h)
  IN  IF T.panic \/ T.sector >= ScratchSize THEN Panic ELSE Parsed(scratch[T.sector])

(* The regular members from sector s on. *)
RECURSIVE Members(_, _)
Members(dev, s) ==
  LET h == dev[s]
      n == bytes_to_sectors(h.size)
  IN  IF s >= ScratchSize \/ h.kind # "header" THEN <<>>
      ELSE IF h.type = "directory" THEN Members(dev, s + 1)
      ELSE <<[name |-> h.name, type |-> h.type,
              bytes |-> [i \in 1 .. h.size |->
                 dev[s + 1 + (i - 1) \div SECTOR_SIZE].cells[SectorOfs(i - 1)]]]>>
           \o Members(dev, s + 1 + n)

Bytes_of(ms) == [n \in {ms[i].name : i \in 1 .. Len(ms)} |->
                   ms[CHOOSE i \in 1 .. Len(ms) : ms[i].name = n].bytes]

Ready == ~panicked /\ calls < MaxCalls /\ calls' = calls + 1

(* "`extract' should precede all `append's": it erases the start of what   *)
(* append has written, so it is called before.                             *)
fsutil_extract ==
  /\ Ready /\ put = 0
  /\ \E T \in {ExtractFrom([st |-> fs, sector |-> taken, panic |-> FALSE])} :
       /\ fs' = Settled(T.st) /\ taken' = T.sector /\ panicked' = T.panic
       /\ scratch' = IF T.panic THEN scratch
                     ELSE [scratch EXCEPT ![0] = ZeroBlock, ![1] = ZeroBlock]
  /\ expected' = Bytes_of(Members(scratch, taken)) @@ expected
  /\ UNCHANGED <<put, members, shown>>

(***************************************************************************)
(* fsutil_append, fsutil_cat, fsutil_ls and fsutil_rm                      *)
(***************************************************************************)
(* block_write (dst, sector, data), which panics past the end. *)
PutSector(T, data) ==
  IF T.panic \/ T.sector >= ScratchSize THEN [T EXCEPT !.panic = TRUE]
  ELSE [T EXCEPT !.dev[T.sector] = data, !.sector = @ + 1]

RECURSIVE CopyOut(_, _, _)
CopyOut(T, src, size) ==
  LET chunk == ChunkOf(size)
      Read(r) ==
        IF Len(r.buf) # chunk THEN [T EXCEPT !.panic = TRUE]
        ELSE CopyOut(PutSector([T EXCEPT !.st = r.st], Piece(r.buf, 0)),
                     [src EXCEPT !.pos = @ + chunk], size - chunk)
  IN  IF size <= 0 \/ T.panic THEN T
      ELSE IF T.sector >= ScratchSize THEN [T EXCEPT !.panic = TRUE]
      ELSE Read(inode_read_at(T.st, src.ino, chunk, src.pos))

(* A variant that leaves the position behind the end-of-archive marker. *)
append_past(T) == T.sector

(* The position for the next append: before the end-of-archive marker. *)
append_next(T) == T.sector - 2

fsutil_append(name) ==
  /\ Ready
  /\ \E src \in {filesys_open(fs, name)} :
       IF src.file = NULL
       THEN panicked' = TRUE /\ UNCHANGED <<fs, scratch, put, members>>
       ELSE LET size == inode_length(src.st, src.file.ino)
                start == [st |-> src.st, dev |-> scratch, sector |-> put, panic |-> FALSE]
                copied == CopyOut(PutSector(start, Header(name, "regular", size)),
                                  src.file, size)
            IN  \E T \in {PutSector(PutSector(copied, ZeroBlock), ZeroBlock)} :
                  /\ panicked' = T.panic /\ scratch' = T.dev
                  /\ put' = IF T.panic THEN put ELSE append_next(T)
                  /\ fs' = Settled(IF T.panic THEN T.st ELSE file_close(T.st, src.file))
                  /\ members' = IF T.panic THEN members
                                ELSE Append(members, [name |-> name, type |-> "regular",
                                                      bytes |-> expected[name]])
  /\ UNCHANGED <<taken, expected, shown>>

RECURSIVE CatFrom(_, _)
CatFrom(S, file) ==
  LET Read(r) ==
        IF r.buf = <<>> THEN <<>>
        ELSE r.buf \o CatFrom(r.st, [file EXCEPT !.pos = @ + Len(r.buf)])
  IN  Read(inode_read_at(S, file.ino, PGSIZE, file.pos))

fsutil_cat(name) ==
  /\ Ready
  /\ \E o \in {filesys_open(fs, name)} :
       IF o.file = NULL
       THEN panicked' = TRUE /\ UNCHANGED <<fs, shown>>
       ELSE /\ shown' = [what |-> name, text |-> CatFrom(o.st, o.file)]
            /\ fs' = Settled(file_close(o.st, o.file))
            /\ UNCHANGED panicked
  /\ UNCHANGED <<scratch, taken, put, members, expected>>

(* dir_readdir from pos on, until it returns false. *)
RECURSIVE dir_readdir(_, _)
dir_readdir(S, pos) ==
  LET Read(r) ==
        IF r.buf = <<>> THEN <<>>
        ELSE (IF InUse(r.buf[1]) THEN <<r.buf[1].name>> ELSE <<>>) \o dir_readdir(r.st, pos + 1)
  IN  Read(inode_read_at(S, ROOT_DIR_SECTOR, 1, pos))

fsutil_ls ==
  /\ Ready
  /\ \E d \in {dir_open_root(fs)} :
       /\ shown' = [what |-> "ls", text |-> dir_readdir(d.st, 0)]
       /\ fs' = Settled(dir_close(d.st))
  /\ UNCHANGED <<scratch, taken, put, members, expected, panicked>>

fsutil_rm(name) ==
  /\ Ready
  /\ \E r \in {filesys_remove(fs, name)} : fs' = Settled(r.st) /\ panicked' = ~r.ok
  /\ expected' = [n \in DOMAIN expected \ {name} |-> expected[n]]
  /\ UNCHANGED <<scratch, taken, put, members, shown>>

(* The next boot: the static positions start at 0 again. *)
Restart ==
  /\ calls < MaxCalls /\ calls' = calls + 1
  /\ fs' = filesys_init(fs.disk, FALSE)
  /\ taken' = 0 /\ put' = 0 /\ members' = <<>>
  /\ shown' = NULL /\ panicked' = FALSE
  /\ expected' = [n \in {e.name : e \in Entries(fs.disk)} |->
                    Bytes(fs.disk, (CHOOSE e \in Entries(fs.disk) : e.name = n).inode_sector)]
  /\ UNCHANGED scratch

Next ==
  \/ fsutil_extract
  \/ fsutil_ls
  \/ \E n \in Names : fsutil_append(n) \/ fsutil_cat(n) \/ fsutil_rm(n)
  \/ Restart

Spec == Init /\ [][Next]_vars

(***************************************************************************)
(* Properties.                                                             *)
(***************************************************************************)
(* Unless the kernel has panicked, the file system holds exactly the       *)
(* members that extract found on the scratch device and rm did not delete, *)
(* with the bytes they had in the archive.                                 *)
ExtractedAsArchived ==
  ~panicked =>
    /\ {e.name : e \in Entries(fs.disk)} = DOMAIN expected
    /\ \A e \in Entries(fs.disk) : Bytes(fs.disk, e.inode_sector) = expected[e.name]

(* After any number of appends since the boot the scratch device holds one *)
(* archive of just these files, in order, with their bytes, and the end    *)
(* marker behind them.                                                     *)
AppendedAsOneArchive ==
  ~panicked /\ members # <<>> =>
    /\ Members(scratch, 0) = members
    /\ scratch[put] = ZeroBlock /\ scratch[put + 1] = ZeroBlock

(* What a step shows: ls the name of every file once, and cat the whole of *)
(* its file.                                                               *)
PrintsWhatIsThere ==
  shown' # shown /\ shown' # NULL =>
    IF shown'.what = "ls"
    THEN /\ {shown'.text[i] : i \in 1 .. Len(shown'.text)} = DOMAIN expected
         /\ Len(shown'.text) = Cardinality(DOMAIN expected)
    ELSE shown'.text = expected[shown'.what]

=============================================================================
