----------------------------- MODULE FilesysUse -----------------------------
(***************************************************************************)
(* Calls of the file system by its one user, the kernel thread that runs   *)
(* the boot actions, so that calls do not interleave.  The sector writes   *)
(* of a call reach the device one step at a time, and a crash may come     *)
(* between any two of them.                                                *)
(***************************************************************************)
EXTENDS Filesys

CONSTANTS Names, Sizes, Values,  \* file names, initial sizes, bytes
          Handles,               \* bound on the open files
          Chunks,                \* sizes of one read or write
          MaxOom,                \* bound on the allocations before one fails
          MaxCalls               \* bound on the calls and crashes

VARIABLES disk,      \* the sectors of fs_device
          log,       \* the sector writes of the current call still to come
          free_map,  \* the sectors marked in the free map in memory
          inodes,    \* the open inodes, by sector
          files,     \* the struct file of each handle
          contents,  \* history: the bytes each live file should hold
          leaked,    \* history: sectors that no file owns any more
          failed,    \* history: an assertion failed
          calls      \* the calls and crashes so far

vars == <<disk, log, free_map, inodes, files, contents, leaked, failed, calls>>

Init ==
  LET S == filesys_init(Blank.disk, TRUE)
  IN  /\ disk = S.disk /\ log = <<>>
      /\ free_map = S.free_map /\ inodes = S.inodes
      /\ files = [h \in Handles |-> NULL]
      /\ contents = <<>> /\ leaked = {} /\ failed = S.failed /\ calls = 0

Now(oom) == [disk |-> disk, log |-> <<>>, free_map |-> free_map, map_open |-> TRUE,
             inodes |-> inodes, oom |-> oom, failed |-> failed]

(* The last call has finished. *)
Ready == log = <<>> /\ calls < MaxCalls

(* The call has changed the state to S, and the files should now hold cs. *)
Done(S, cs) ==
  /\ log' = S.log /\ free_map' = S.free_map /\ inodes' = S.inodes /\ failed' = S.failed
  /\ contents' = [i \in (Named(S.disk) \cup DOMAIN S.inodes) \ System |-> cs[i]]
  /\ calls' = calls + 1
  /\ UNCHANGED disk

Create(name, size, oom) ==
  /\ Ready
  /\ \E r \in {filesys_create(Now(oom), name, size)} :
       LET new == Named(r.st.disk) \ Named(disk)
           refused == \/ ~ValidName(name)
                      \/ \E e \in Entries(disk) : e.name = name
                      \/ Cardinality(Entries(disk)) = DirEntries
       IN  /\ Done(r.st, [i \in new |-> [j \in 1 .. size |-> ZERO]] @@ contents)
           /\ leaked' = IF refused THEN leaked \cup (r.st.free_map \ free_map) ELSE leaked
  /\ UNCHANGED files

Open(h, name, oom) ==
  /\ Ready /\ files[h] = NULL
  /\ \E r \in {filesys_open(Now(oom), name)} :
       Done(r.st, contents) /\ files' = [files EXCEPT ![h] = r.file]
  /\ UNCHANGED leaked

Reopen(h, g, oom) ==
  /\ Ready /\ files[h] # NULL /\ files[g] = NULL
  /\ \E r \in {file_open(inode_reopen(Now(oom), files[h].ino), TRUE, files[h].ino)} :
       Done(r.st, contents) /\ files' = [files EXCEPT ![g] = r.file]
  /\ UNCHANGED leaked

Close(h) ==
  /\ Ready /\ files[h] # NULL
  /\ Done(file_close(Now(0), files[h]), contents)
  /\ files' = [files EXCEPT ![h] = NULL]
  /\ UNCHANGED leaked

Remove(name, oom) ==
  /\ Ready
  /\ Done(filesys_remove(Now(oom), name).st, contents)
  /\ UNCHANGED <<files, leaked>>

file_read(h, size) ==
  /\ Ready /\ files[h] # NULL
  /\ \E r \in {inode_read_at(Now(0), files[h].ino, size, files[h].pos)} :
       Done(r.st, contents) /\ files' = [files EXCEPT ![h].pos = @ + Len(r.buf)]
  /\ UNCHANGED leaked

file_write(h, bytes) ==
  /\ Ready /\ files[h] # NULL
  /\ LET ino == files[h].ino
         w == inode_write_at(Now(0), ino, bytes, files[h].pos)
         put == [i \in 1 .. Len(contents[ino]) |->
                   IF i \in files[h].pos + 1 .. files[h].pos + w.n
                   THEN bytes[i - files[h].pos] ELSE contents[ino][i]]
     IN  Done(w.st, [contents EXCEPT ![ino] = put])
         /\ files' = [files EXCEPT ![h].pos = @ + w.n]
  /\ UNCHANGED leaked

file_seek(h) ==
  /\ Ready /\ files[h] # NULL
  /\ files' = [files EXCEPT ![h].pos = 0]
  /\ calls' = calls + 1
  /\ UNCHANGED <<disk, log, free_map, inodes, contents, leaked, failed>>

file_deny_write(h) ==
  /\ Ready /\ files[h] # NULL
  /\ ~files[h].deny_write
  /\ Done(inode_deny_write(Now(0), files[h].ino), contents)
  /\ files' = [files EXCEPT ![h].deny_write = TRUE]
  /\ UNCHANGED leaked

file_allow_write(h) ==
  /\ Ready /\ files[h] # NULL
  /\ files[h].deny_write
  /\ Done(inode_allow_write(Now(0), files[h].ino), contents)
  /\ files' = [files EXCEPT ![h].deny_write = FALSE]
  /\ UNCHANGED leaked

(* The next sector write of the call reaches the device. *)
WriteSector ==
  /\ log # <<>>
  /\ disk' = [disk EXCEPT ![log[1][1]] = log[1][2]]
  /\ log' = Tail(log)
  /\ UNCHANGED <<free_map, inodes, files, contents, leaked, failed, calls>>

(* Power fails, possibly between two sector writes, and the kernel boots   *)
(* without formatting.                                                     *)
Crash ==
  /\ calls < MaxCalls /\ calls' = calls + 1
  /\ \E S \in {filesys_init(disk, FALSE)} :
       /\ free_map' = S.free_map /\ inodes' = S.inodes
       /\ leaked' = S.free_map \ Reachable(disk, {})
  /\ log' = <<>>
  /\ files' = [h \in Handles |-> NULL]
  /\ contents' = [i \in Named(disk) |-> Bytes(disk, i)]
  /\ UNCHANGED <<disk, failed>>

Next ==
  \/ \E n \in Names \cup {""}, size \in Sizes, oom \in 0 .. MaxOom : Create(n, size, oom)
  \/ \E n \in Names, oom \in 0 .. MaxOom :
       \/ \E h \in Handles : Open(h, n, oom)
       \/ Remove(n, oom)
  \/ \E h, g \in Handles, oom \in 0 .. MaxOom : Reopen(h, g, oom)
  \/ \E h \in Handles :
       \/ Close(h) \/ file_seek(h) \/ file_deny_write(h) \/ file_allow_write(h)
       \/ \E size \in Chunks :
            \/ file_read(h, size)
            \/ \E v \in Values : file_write(h, [i \in 1 .. size |-> v])
  \/ WriteSector
  \/ Crash

Spec == Init /\ [][Next]_vars

(***************************************************************************)
(* Properties.                                                             *)
(***************************************************************************)
(* Every live file holds the bytes that were written to it, and            *)
(* inode_read_at returns them for every range: no other file's write, no   *)
(* reuse of its sectors and no partial-sector write has touched them, also *)
(* for a file that is open and already removed.                            *)
FilesKeepContents ==
  log = <<>> =>
    \A ino \in DOMAIN contents :
      /\ Bytes(disk, ino) = contents[ino]
      /\ ino \in DOMAIN inodes =>
           \A ofs \in 0 .. Len(contents[ino]), size \in Chunks :
             inode_read_at(Now(0), ino, size, ofs).buf
               = SubSeq(contents[ino], ofs + 1, Min2(ofs + size, Len(contents[ino])))

(* At every moment, so also after a crash between two sector writes, the   *)
(* directory on the disk names an inode that was written, whose sectors    *)
(* the free map on the disk marks, that share nothing with another file,   *)
(* and no name is there twice.                                             *)
CrashSafe ==
  LET marked == filesys_init(disk, FALSE).free_map
  IN  \A e \in Entries(disk) :
        /\ disk[e.inode_sector].length >= 0
        /\ Owned(disk, e.inode_sector) \subseteq marked
        /\ \A f \in Entries(disk) \ {e} :
             /\ e.name # f.name
             /\ Owned(disk, e.inode_sector) \cap Owned(disk, f.inode_sector) = {}

(* Between calls the free map marks what the named and the open files own  *)
(* and the sectors lost by a crash or when dir_add refuses the name of a   *)
(* file whose inode and data are already allocated, and nothing else:      *)
(* no other path leaks a sector, and none frees one that is in use.        *)
FreeMapExact ==
  log = <<>> =>
    /\ free_map = Reachable(disk, DOMAIN inodes) \cup leaked
    /\ Reachable(disk, DOMAIN inodes) \cap leaked = {}

(* Between calls an inode is open once per struct file on it, the free map *)
(* once by itself, and denies writes once per file that asked; so no path, *)
(* also not one on which an allocation fails, keeps or drops a reference.  *)
OpenCountsExact ==
  LET On(ino) == {h \in Handles : files[h] # NULL /\ files[h].ino = ino}
  IN  /\ DOMAIN inodes = {FREE_MAP_SECTOR} \cup {files[h].ino : h \in
                            {g \in Handles : files[g] # NULL}}
      /\ \A ino \in DOMAIN inodes \ System :
           /\ inodes[ino].open_cnt = Cardinality(On(ino))
           /\ inodes[ino].deny_write_cnt = Cardinality({h \in On(ino) : files[h].deny_write})

(* The assertions of free_map_release, inode_deny_write and                *)
(* inode_allow_write hold.                                                 *)
AssertionsHold == ~failed

(* What a step may not do.  While some open file denies writes, no call    *)
(* changes the file's bytes.                                               *)
DeniedFilesKeepBytes ==
  \A h \in Handles :
    files[h] # NULL /\ files[h].deny_write /\ files[h].ino \in DOMAIN contents'
      => contents'[files[h].ino] = contents[files[h].ino]

(* directory.c:163: "inode_read_at() will only return a short read at end  *)
(* of file", which dir_add relies on to find a free slot: no file loses    *)
(* its name to the creation of another.  (A crash in the middle of a       *)
(* removal, with its writes still in the log, may bring the name back.)    *)
CreationKeepsNames ==
  log = <<>> /\ DOMAIN contents' \ DOMAIN contents # {}
    => DOMAIN contents \subseteq DOMAIN contents'

=============================================================================
