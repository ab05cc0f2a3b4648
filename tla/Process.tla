------------------------------ MODULE Process ------------------------------
(***************************************************************************)
(* userprog/process.c over userprog/pagedir.c: the life of user processes  *)
(* as seen by the memory they hold and by CR3.  A timer interrupt may      *)
(* switch threads between any two steps; process_activate then loads the   *)
(* page directory of the thread switched to.  The two page pools are       *)
(* counted: running out of pages is how allocation fails, and a page lost  *)
(* or freed twice shows in the count.  A page directory is named after its *)
(* process.                                                                *)
(***************************************************************************)
EXTENDS Integers, Sequences, FiniteSets, FiniteSetsExt

CONSTANTS NULL, BASE,      \* BASE is init_page_dir
          main,            \* the kernel thread that starts processes
          Procs,           \* the processes
          KPages, UPages,  \* the number of pages of the two pools
          PdNo,            \* pd_no of a virtual page
          StackPage,       \* PHYS_BASE - PGSIZE
          Executables      \* the virtual pages the segments of an executable fill, in order

VARIABLES proc,            \* the processes' threads and what they hold
          copy,            \* the page process_execute holds before thread_create
          pde, pte,        \* per page directory, the slots with a table and the pages mapped
          kfree, ufree,    \* the number of free pages
          running, cr3

vars == <<proc, copy, pde, pte, kfree, ufree, running, cr3>>

NoProc == [pc |-> "none", page |-> FALSE, fn |-> FALSE, pagedir |-> NULL, pd |-> NULL,
           todo |-> <<>>, kpage |-> FALSE, file |-> FALSE, success |-> FALSE]

Init ==
  /\ proc = [p \in Procs |-> NoProc]
  /\ copy = FALSE
  /\ pde = [p \in Procs |-> {}] /\ pte = [p \in Procs |-> {}]
  /\ kfree = KPages /\ ufree = UPages
  /\ running = main /\ cr3 = BASE

Me == proc[running]
At(pc) == running \in Procs /\ Me.pc = pc
Set(r) == proc' = [proc EXCEPT ![running] = r]
Alive == {main} \cup {p \in Procs : proc[p].pc # "none"}
PagedirOf(t) == IF t = main THEN NULL ELSE proc[t].pagedir

(* pagedir_activate. *)
pagedir_activate(pd) == cr3' = IF pd = NULL THEN BASE ELSE pd

(* A timer interrupt: thread_schedule_tail calls process_activate. *)
Preempt(t) ==
  /\ t \in Alive \ {running}
  /\ running' = t
  /\ pagedir_activate(PagedirOf(t))
  /\ UNCHANGED <<proc, copy, pde, pte, kfree, ufree>>

(* process_execute: the copy of the file name, then thread_create. *)
process_execute ==
  /\ running = main /\ ~copy /\ kfree > 0
  /\ copy' = TRUE
  /\ kfree' = kfree - 1
  /\ UNCHANGED <<proc, pde, pte, ufree, running, cr3>>

thread_create(p) ==
  /\ running = main /\ copy /\ proc[p].pc = "none"
  /\ copy' = FALSE
  /\ \/ kfree = 0 /\ kfree' = 1 /\ proc' = proc      \* TID_ERROR
     \/ /\ kfree > 0 /\ kfree' = kfree - 1
        /\ proc' = [proc EXCEPT ![p] = [NoProc EXCEPT !.pc = "load", !.page = TRUE, !.fn = TRUE]]
  /\ UNCHANGED <<pde, pte, ufree, running, cr3>>

(* load: pagedir_create, then process_activate. *)
pagedir_create ==
  /\ At("load")
  /\ \/ /\ kfree = 0 /\ kfree' = kfree
        /\ Set([Me EXCEPT !.pc = "done"])
     \/ /\ kfree > 0 /\ kfree' = kfree - 1
        /\ Set([Me EXCEPT !.pagedir = running, !.pc = "activate"])
  /\ UNCHANGED <<copy, pde, pte, ufree, running, cr3>>

process_activate ==
  /\ At("activate")
  /\ pagedir_activate(Me.pagedir)
  /\ Set([Me EXCEPT !.pc = "open"])
  /\ UNCHANGED <<copy, pde, pte, kfree, ufree, running>>

(* The executable is opened and its headers read, or not. *)
OpenExecutable ==
  /\ At("open")
  /\ \/ Set([Me EXCEPT !.pc = "done"])
     \/ \E exe \in Executables :
          Set([Me EXCEPT !.file = TRUE, !.todo = Append(exe, StackPage), !.pc = "get"])
     \/ Set([Me EXCEPT !.file = TRUE, !.pc = "done"])
  /\ UNCHANGED <<copy, pde, pte, kfree, ufree, running, cr3>>

(* load_segment and setup_stack, for each page: palloc_get_page, and       *)
(* file_read, which may be short: then the page is freed again.            *)
GetPage ==
  /\ At("get")
  /\ \/ /\ ufree > 0 /\ ufree' = ufree - 1
        /\ Set([Me EXCEPT !.kpage = TRUE, !.pc = "install"])
     \/ /\ ufree = 0 \/ Len(Me.todo) > 1
        /\ Set([Me EXCEPT !.pc = "done"]) /\ ufree' = ufree
  /\ UNCHANGED <<copy, pde, pte, kfree, running, cr3>>

(* palloc_free_page of the page in hand, and load fails. *)
GiveUp ==
  /\ ufree' = ufree + 1
  /\ Set([Me EXCEPT !.kpage = FALSE, !.pc = "done"])

(* lookup_page with CREATE: the page table exists, or is made. *)
lookup_page(vpage) ==
  LET n == PdNo[vpage]
  IN  /\ pde' = [pde EXCEPT ![Me.pagedir] = @ \cup {n}]
      /\ kfree' = IF n \in pde[Me.pagedir] THEN kfree ELSE kfree - 1

(* install_page up to the page table: the virtual page may be mapped       *)
(* already, and there may be no page for the table.                        *)
InstallTable ==
  /\ At("install")
  /\ LET vpage == Head(Me.todo)
         mapped == vpage \in pte[Me.pagedir]
         full == PdNo[vpage] \notin pde[Me.pagedir] /\ kfree = 0
     IN  \/ (mapped \/ full) /\ GiveUp /\ UNCHANGED <<pde, kfree>>
         \/ /\ ~mapped /\ ~full
            /\ lookup_page(vpage)
            /\ Set([Me EXCEPT !.pc = "set"]) /\ ufree' = ufree
  /\ UNCHANGED <<copy, pte, running, cr3>>

(* pagedir_set_page stores the entry. *)
pagedir_set_page ==
  /\ At("set")
  /\ pte' = [pte EXCEPT ![Me.pagedir] = @ \cup {Head(Me.todo)}]
  /\ Set([Me EXCEPT !.kpage = FALSE, !.todo = Tail(@),
                    !.pc = IF Len(Me.todo) = 1 THEN "done" ELSE "get",
                    !.success = Len(Me.todo) = 1])
  /\ UNCHANGED <<copy, pde, kfree, ufree, running, cr3>>

(* The end of load, which closes the file, and start_process after it. *)
start_process ==
  /\ At("done")
  /\ kfree' = kfree + 1
  /\ Set([Me EXCEPT !.file = FALSE, !.fn = FALSE, !.todo = <<>>,
                    !.pc = IF Me.success THEN "user" ELSE "exit"])
  /\ UNCHANGED <<copy, pde, pte, ufree, running, cr3>>

(* The user program is killed or makes a system call: thread_exit. *)
Die ==
  /\ At("user")
  /\ Set([Me EXCEPT !.pc = "exit"])
  /\ UNCHANGED <<copy, pde, pte, kfree, ufree, running, cr3>>

(* A variant that switches directories before it forgets its own. *)
process_exit_swapped ==
  \/ /\ At("exit")
     /\ pagedir_activate(NULL)
     /\ Set([Me EXCEPT !.pd = Me.pagedir,
                       !.pc = IF Me.pagedir = NULL THEN "schedule" ELSE "forget"])
     /\ UNCHANGED <<copy, pde, pte, kfree, ufree, running>>
  \/ /\ At("forget")
     /\ Set([Me EXCEPT !.pagedir = NULL, !.pc = "destroy"])
     /\ UNCHANGED <<copy, pde, pte, kfree, ufree, running, cr3>>

(* process_exit: cur->pagedir, then CR3, then pagedir_destroy. *)
process_exit ==
  \/ /\ At("exit")
     /\ Set([Me EXCEPT !.pd = Me.pagedir, !.pagedir = NULL,
                       !.pc = IF Me.pagedir = NULL THEN "schedule" ELSE "base"])
     /\ UNCHANGED <<copy, pde, pte, kfree, ufree, running, cr3>>
  \/ /\ At("base")
     /\ pagedir_activate(NULL)
     /\ Set([Me EXCEPT !.pc = "destroy"])
     /\ UNCHANGED <<copy, pde, pte, kfree, ufree, running>>

(* pagedir_destroy, a table at a time: the pages of the table, the table,  *)
(* and at last the directory.                                              *)
pagedir_destroy ==
  /\ At("destroy")
  /\ \/ \E n \in pde[Me.pd] :
          LET mapped == {v \in pte[Me.pd] : PdNo[v] = n}
          IN  /\ \A m \in pde[Me.pd] : n <= m
              /\ ufree' = ufree + Cardinality(mapped)
              /\ kfree' = kfree + 1
              /\ pte' = [pte EXCEPT ![Me.pd] = @ \ mapped]
              /\ pde' = [pde EXCEPT ![Me.pd] = @ \ {n}]
              /\ UNCHANGED proc
     \/ /\ pde[Me.pd] = {}
        /\ kfree' = kfree + 1
        /\ Set([Me EXCEPT !.pd = NULL, !.pc = "schedule"])
        /\ UNCHANGED <<pde, pte, ufree>>
  /\ UNCHANGED <<copy, running, cr3>>

(* thread_exit gives the CPU away for good; the next thread activates its  *)
(* directory and frees the page.                                           *)
schedule(t) ==
  /\ At("schedule") /\ t \in Alive \ {running}
  /\ running' = t
  /\ pagedir_activate(PagedirOf(t))
  /\ kfree' = kfree + 1
  /\ Set(NoProc)
  /\ UNCHANGED <<copy, pde, pte, ufree>>

Next ==
  \/ \E t \in {main} \cup Procs : Preempt(t) \/ schedule(t)
  \/ process_execute \/ (\E p \in Procs : thread_create(p))
  \/ pagedir_create \/ process_activate \/ OpenExecutable
  \/ GetPage \/ InstallTable \/ pagedir_set_page
  \/ start_process \/ Die \/ process_exit \/ pagedir_destroy

Spec == Init /\ [][Next]_vars

(***************************************************************************)
(* Properties.                                                             *)
(***************************************************************************)
(* "We must set cur->pagedir to NULL before switching page directories, so *)
(* that a timer interrupt can't switch back ...": the directory in CR3 is  *)
(* the base one or one that its process has not begun to destroy.          *)
ActiveDirectoryLive ==
  cr3 # BASE => proc[cr3].pc \notin {"none", "load", "destroy", "schedule"}

(* A process that loads its segments or runs user code has its own         *)
(* directory in CR3, whatever switches happened meanwhile.                 *)
RunsInOwnSpace ==
  running \in Procs /\ Me.pc \in {"open", "get", "install", "set", "user"} =>
    cr3 = Me.pagedir /\ cr3 # NULL

One(b) == IF b THEN 1 ELSE 0
KernelHeld(p) ==
  One(proc[p].page) + One(proc[p].fn) + One({proc[p].pagedir, proc[p].pd} # {NULL})
    + Cardinality(pde[p])
UserHeld(p) == One(proc[p].kpage) + Cardinality(pte[p])

(* The pages that are not free are exactly the ones that somebody holds:   *)
(* no failure of load, at whatever point, and no exit leaks a page or      *)
(* frees one twice.                                                        *)
PagesAccounted ==
  /\ kfree + One(copy) + MapThenSumSet(KernelHeld, Procs) = KPages
  /\ ufree + MapThenSumSet(UserHeld, Procs) = UPages

(* No file stays open once its process runs or is gone, on any path        *)
(* through load.                                                           *)
ExecutablesClosed ==
  \A p \in Procs : proc[p].file => proc[p].pc \in {"get", "install", "set", "done"}

=============================================================================
