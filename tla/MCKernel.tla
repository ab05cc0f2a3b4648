------------------------------- MODULE MCKernel -------------------------------
(***************************************************************************)
(* The memory, thread, interrupt, process and file system models on small  *)
(* instances, side by side: subject names the one that a behaviour is      *)
(* about, and its variables are the first of v1 to v12.                    *)
(***************************************************************************)
EXTENDS Integers, Sequences, FiniteSets, TLC

CONSTANTS NULL, ZERO, ONE, main, BASE,
          Threads, Names,           \* interchangeable
          p1, p2, p3, p4,           \* pages
          fa, fb, c0, c1            \* names and bytes of archives

VARIABLES subject, v1, v2, v3, v4, v5, v6, v7, v8, v9, v10, v11, v12

vars == <<subject, v1, v2, v3, v4, v5, v6, v7, v8, v9, v10, v11, v12>>

(* The variables from the given one on are not used. *)
Zero12 == v12 = 0
Zero11 == v11 = 0 /\ Zero12
Zero10 == v10 = 0 /\ Zero11
Zero9 == v9 = 0 /\ Zero10
Zero8 == v8 = 0 /\ Zero9
Zero7 == v7 = 0 /\ Zero8
Zero6 == v6 = 0 /\ Zero7
Zero5 == v5 = 0 /\ Zero6
Zero4 == v4 = 0 /\ Zero5
Zero3 == v3 = 0 /\ Zero4

Same12 == UNCHANGED v12
Same11 == UNCHANGED v11 /\ Same12
Same10 == UNCHANGED v10 /\ Same11
Same9 == UNCHANGED v9 /\ Same10
Same8 == UNCHANGED v8 /\ Same9
Same7 == UNCHANGED v7 /\ Same8
Same6 == UNCHANGED v6 /\ Same7
Same5 == UNCHANGED v5 /\ Same6
Same4 == UNCHANGED v4 /\ Same5
Same3 == UNCHANGED v3 /\ Same4

Member(name, bytes) == [name |-> name, type |-> "regular", bytes |-> bytes]
TheArchives ==
  {<<>>, <<Member(fa, <<c0, c1, c0, c1, c0, c1>>)>>,
   <<[name |-> fa, type |-> "directory", bytes |-> <<>>], Member(fb, <<c1>>), Member(fa, <<>>)>>,
   <<Member(fa, <<c0, c1, c1, c0, c1>>), Member(fb, <<c1, c0>>)>>}

P == INSTANCE Palloc WITH FreePages <- 8, Limits <- {2, 9}, MaxCnt <- 2, MaxOwned <- 2,
                          pools <- v1, used <- v2, lock <- v3, op <- v4, owned <- v5, failed <- v6
M == INSTANCE Malloc WITH Pages <- 0 .. 2, PGSIZE <- 16, ArenaSize <- 2, Smallest <- 3,
                          Requests <- {2, 5, 15}, arenas <- v1, free_list <- v2, lock <- v3,
                          op <- v4, held <- v5, taken <- v6
T == INSTANCE ThreadLife WITH Pages <- {p1, p2, p3, p4}, MaxTid <- 6, cur <- v1, status <- v2,
                              ready <- v3, all_list <- v4, used <- v5, tid <- v6, next_tid <- v7,
                              tid_lock <- v8, idle_thread <- v9, pc <- v10, new <- v11
I == INSTANCE Interrupt WITH Devices <- {32, 46}, Strays <- {41}, Spurious <- {39},
                             Addrs <- {"a", "b"}, MaxCnt <- 5, running <- v1, stack <- v2,
                             IF_ <- v3, resume <- v4, in_external_intr <- v5,
                             yield_on_return <- v6, in_service <- v7, cr2 <- v8,
                             unexpected_cnt <- v9, messages <- v10, owed <- v11, failed <- v12
X == INSTANCE Process WITH Procs <- Threads, KPages <- 8, UPages <- 4, PdNo <- <<0, 0, 1>>,
                           StackPage <- 3, Executables <- {<<1>>, <<1, 2>>, <<2, 2>>}, proc <- v1,
                           copy <- v2, pde <- v3, pte <- v4, kfree <- v5, ufree <- v6,
                           running <- v7, cr3 <- v8
D == INSTANCE Pagedir WITH Procs <- Threads, VPages <- {"v"}, pte <- v1, tlb <- v2, running <- v3,
                           pending <- v4, used <- v5
E == INSTANCE Loader WITH PGSIZE <- 4, Word <- 32, PHYS_BASE <- 24, FileLength <- 10,
                          Offsets <- 0 .. 11,
                          Vaddrs <- {0, 1, 3, 4, 5, 6, 8, 11, 12, 15, 16, 19, 20, 22, 23, 24, 27,
                                     31},
                          Filesizes <- {0, 1, 4, 5, 9, 10},
                          Memsizes <- {0, 1, 4, 5, 9, 10, 25, 31}, phdr <- v1, result <- v2
F == INSTANCE FilesysUse WITH SECTOR_SIZE <- 5, DevSize <- 10, DirEntries <- 2, Sizes <- {0, 6},
                              Values <- {c0}, Handles <- Threads, Chunks <- {3},
                              OomKinds <- {"struct"}, MaxOom <- 4, MaxCalls <- 6, disk <- v1,
                              log <- v2, free_map <- v3, inodes <- v4, files <- v5,
                              contents <- v6, leaked <- v7, failed <- v8, calls <- v9
Z == INSTANCE Fsutil WITH SECTOR_SIZE <- 5, DevSize <- 10, DirEntries <- 2, Names <- {fa, fb},
                          Values <- {c0, c1}, OomKinds <- {}, PGSIZE <- 5, ScratchSize <- 7,
                          MaxCalls <- 6, Archives <- TheArchives, fs <- v1, scratch <- v2,
                          taken <- v3, put <- v4, members <- v5, expected <- v6, shown <- v7,
                          panicked <- v8, calls <- v9

Init ==
  \/ subject = "palloc" /\ P!Init /\ Zero7
  \/ subject = "malloc" /\ M!Init /\ Zero7
  \/ subject = "thread" /\ T!Init /\ Zero12
  \/ subject = "interrupt" /\ I!Init
  \/ subject = "process" /\ X!Init /\ Zero9
  \/ subject = "pagedir" /\ D!Init /\ Zero6
  \/ subject = "loader" /\ E!LInit /\ Zero3
  \/ subject = "filesys" /\ F!Init /\ Zero10
  \/ subject = "fsutil" /\ Z!Init /\ Zero10

Next ==
  /\ UNCHANGED subject
  /\ \/ subject = "palloc" /\ P!Next /\ Same7
     \/ subject = "malloc" /\ M!Next /\ Same7
     \/ subject = "thread" /\ T!Next /\ Same12
     \/ subject = "interrupt" /\ I!Next
     \/ subject = "process" /\ X!Next /\ Same9
     \/ subject = "pagedir" /\ D!Next /\ Same6
     \/ subject = "loader" /\ E!LNext /\ Same3
     \/ subject = "filesys" /\ F!Next /\ Same10
     \/ subject = "fsutil" /\ Z!Next /\ Same10

Spec == Init /\ [][Next]_vars

Symmetry == Permutations(Threads) \cup Permutations(Names)
-----------------------------------------------------------------------------
(* palloc.c and malloc.c give no page and no block to two threads, count   *)
(* what is free exactly and lose nothing, although frees come without the  *)
(* pool's lock and arenas come and go.                                     *)
MemoryNotShared ==
  /\ subject = "palloc" => P!PagesNotShared /\ P!NoPageLost /\ P!PoolsDisjoint
  /\ subject = "malloc" => M!BlocksNotShared /\ M!FreeCountsExact /\ M!NoArenaLeaked

(* One thread runs, the ready queue has the other ready ones, tids are     *)
(* unique, and a thread's page is freed when the thread has left it for    *)
(* good and not before.                                                    *)
ThreadsExact ==
  subject = "thread" => T!ReadyQueueExact /\ T!PageLivesAsLong /\ T!TidsUnique

(* "External interrupts run with interrupts turned off, so they never      *)
(* nest", are acknowledged, and yield on return when asked to; page_fault  *)
(* reads its own address; the assertions of interrupt.c hold.              *)
InterruptsNestRight ==
  subject = "interrupt" =>
    /\ I!ExternalNeverNests /\ I!NoIrqBlocked /\ I!FaultAddressOwn
    /\ I!YieldNotForgotten /\ I!ReportsRare /\ I!AssertionsHold

(* A process loads and runs in its own page directory, none that is being  *)
(* destroyed is active, and no failure of load and no exit leaks a page or *)
(* an open file.                                                           *)
ProcessesTidy ==
  subject = "process" =>
    /\ X!ActiveDirectoryLive /\ X!RunsInOwnSpace
    /\ X!PagesAccounted /\ X!ExecutablesClosed

(* The accessed and dirty bits of pagedir.c tell the truth and a cleared   *)
(* page faults, whatever the TLB held and whoever changed the entry.       *)
PageBitsTrue == subject = "pagedir" => D!PageBitsTrue

(* A segment that load accepts is in memory as its header describes, in    *)
(* whole pages of user space; sums that wrap around are refused.           *)
SegmentsLoaded == subject = "loader" => E!LoadedAsDescribed /\ E!PagesInUserSpace

(* Every live file holds the bytes written to it, open counts are exact on *)
(* every path and the assertions of inode.c hold.                          *)
FilesKeepContents ==
  subject = "filesys" => F!FilesKeepContents /\ F!OpenCountsExact /\ F!AssertionsHold

(* After a crash between any two sector writes the directory on the disk   *)
(* names whole files that share nothing.                                   *)
CrashSafe == subject = "filesys" => F!CrashSafe

(* The free map marks exactly what files own and the sectors that a crash  *)
(* or a refused name is known to lose.                                     *)
FreeMapExact == subject = "filesys" => F!FreeMapExact

(* fsutil.c's extract and append carry files into and out of the file      *)
(* system unchanged, one archive member after the other.                   *)
ArchivesRoundTrip ==
  subject = "fsutil" => Z!ExtractedAsArchived /\ Z!AppendedAsOneArchive

=============================================================================
