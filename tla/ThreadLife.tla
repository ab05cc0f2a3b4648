----------------------------- MODULE ThreadLife -----------------------------
(***************************************************************************)
(* threads/thread.c: threads from thread_create to the page that           *)
(* thread_schedule_tail frees, the ready queue, all_list and the idle      *)
(* thread.  A thread is the page its structure and stack are on, except    *)
(* main.  Which ready thread is next is left open here; ReadyQueue.tla and *)
(* PrioritySynch.tla have the order.                                       *)
(***************************************************************************)
EXTENDS Naturals, FiniteSets

CONSTANTS Pages, main, NULL, MaxTid   \* MaxTid bounds the threads created

VARIABLES cur, status, ready, all_list, used, tid, next_tid, tid_lock,
          idle_thread,
          pc,      \* where each thread is
          new      \* the thread that a thread is creating

vars == <<cur, status, ready, all_list, used, tid, next_tid, tid_lock,
          idle_thread, pc, new>>

AllThreads == Pages \cup {main}

(***************************************************************************)
(* boot      main before thread_start, started before its sema_down        *)
(* run       a thread's own code                                           *)
(* asleep    blocked by it, until someone unblocks it                      *)
(* tid       in thread_create, before allocate_tid takes tid_lock          *)
(* tid_got   holding tid_lock; made after it                               *)
(* idle0     the idle thread's start, idle its loop                        *)
(***************************************************************************)
PCs == {"none", "boot", "started", "run", "asleep", "tid", "tid_got", "made",
        "idle0", "idle"}

(* thread_init *)
Init ==
  /\ cur = main
  /\ status = [p \in AllThreads |-> IF p = main THEN "RUNNING" ELSE "NONE"]
  /\ ready = {} /\ all_list = {main} /\ used = {}
  /\ tid = [p \in AllThreads |-> IF p = main THEN 1 ELSE 0]
  /\ next_tid = 2 /\ tid_lock = NULL
  /\ idle_thread = NULL
  /\ pc = [p \in AllThreads |-> IF p = main THEN "boot" ELSE "none"]
  /\ new = [p \in AllThreads |-> NULL]

At(label) == pc[cur] = label

(* next_thread_to_run, with the ready queue rd. *)
NextThreads(rd) == IF rd = {} THEN {idle_thread} \ {NULL} ELSE rd

(* A variant of schedule in which a dying thread frees its own page.       *)
schedule_rug(st, rd) ==
  /\ IF st[cur] = "DYING" /\ cur # main
     THEN /\ used' = used \ {cur}
          /\ status' = [st EXCEPT ![cur] = "NONE"]
          /\ ready' = rd /\ cur' = cur
     ELSE \E n \in NextThreads(rd) :
            /\ cur' = n /\ ready' = rd \ {n}
            /\ status' = [st EXCEPT ![n] = "RUNNING"] /\ UNCHANGED used

(* schedule and thread_schedule_tail: st and rd are the states and the     *)
(* ready queue once the running thread has given up the CPU.               *)
schedule(st, rd) ==
  \E n \in NextThreads(rd) :
    /\ cur' = n
    /\ ready' = rd \ {n}
    /\ IF st[cur] = "DYING" /\ cur # main
       THEN /\ status' = [st EXCEPT ![n] = "RUNNING", ![cur] = "NONE"]
            /\ used' = used \ {cur}
       ELSE /\ status' = [st EXCEPT ![n] = "RUNNING"]
            /\ UNCHANGED used

(* thread_block and thread_yield, with rd and st as they are by then.      *)
BlockFrom(st, rd) == schedule([st EXCEPT ![cur] = "BLOCKED"], rd)

YieldFrom(st, rd) ==
  schedule([st EXCEPT ![cur] = "READY"], IF cur = idle_thread THEN rd ELSE rd \cup {cur})

Woken(t) == [status EXCEPT ![t] = "READY"]

(* A timer tick at the end of a time slice, with interrupts on. *)
Preempt ==
  /\ pc[cur] \in {"started", "run", "tid", "tid_got", "made", "idle"}
  /\ YieldFrom(status, ready)
  /\ UNCHANGED <<all_list, tid, next_tid, tid_lock, idle_thread, pc, new>>

(* thread_create, its first part: palloc_get_page and init_thread.         *)
thread_create ==
  /\ At("run") \/ At("boot")
  /\ next_tid <= MaxTid
  /\ \/ /\ used = Pages            \* TID_ERROR
        /\ UNCHANGED <<status, all_list, used, tid, pc, new>>
     \/ \E p \in Pages \ used :
          /\ used' = used \cup {p}
          /\ status' = [status EXCEPT ![p] = "BLOCKED"]
          /\ all_list' = all_list \cup {p}
          /\ tid' = [tid EXCEPT ![p] = 0]
          /\ new' = [new EXCEPT ![cur] = p]
          /\ pc' = [pc EXCEPT ![cur] = "tid", ![p] = IF At("boot") THEN "idle0" ELSE "run"]
  /\ UNCHANGED <<cur, ready, next_tid, tid_lock, idle_thread>>

(* allocate_tid takes the lock, or blocks for it, and reads next_tid. *)
AllocateTid ==
  /\ At("tid")
  /\ \/ /\ tid_lock = NULL
        /\ tid' = [tid EXCEPT ![new[cur]] = next_tid]
        /\ tid_lock' = cur
        /\ pc' = [pc EXCEPT ![cur] = "tid_got"]
        /\ UNCHANGED <<cur, status, ready, used>>
     \/ /\ tid_lock # NULL
        /\ BlockFrom(status, ready)
        /\ UNCHANGED <<tid, tid_lock, pc>>
  /\ UNCHANGED <<next_tid, all_list, idle_thread, new>>

(* It stores the number after the one read; lock_release wakes a waiter    *)
(* and yields.                                                             *)
ReleaseTidLock ==
  /\ At("tid_got")
  /\ next_tid' = tid[new[cur]] + 1
  /\ tid_lock' = NULL
  /\ pc' = [pc EXCEPT ![cur] = "made"]
  /\ LET waiters == {t \in AllThreads : pc[t] = "tid" /\ status[t] = "BLOCKED"}
     IN  \/ waiters = {} /\ YieldFrom(status, ready)
         \/ \E w \in waiters : YieldFrom(Woken(w), ready \cup {w})
  /\ UNCHANGED <<all_list, tid, idle_thread, new>>

(* The end of thread_create: thread_unblock, and perhaps a yield to the    *)
(* new thread.  thread_start goes on with sema_down.                       *)
StartThread ==
  /\ At("made")
  /\ LET p == new[cur]
     IN  \/ YieldFrom(Woken(p), ready \cup {p})
         \/ /\ status' = Woken(p) /\ ready' = ready \cup {p}
            /\ UNCHANGED <<cur, used>>
  /\ new' = [new EXCEPT ![cur] = NULL]
  /\ pc' = [pc EXCEPT ![cur] = IF idle_thread = NULL THEN "started" ELSE "run"]
  /\ UNCHANGED <<all_list, tid, next_tid, tid_lock, idle_thread>>

(* thread_start waits for the idle thread, unless it has run by now. *)
AwaitIdle ==
  /\ At("started")
  /\ IF idle_thread = NULL
     THEN /\ pc' = [pc EXCEPT ![cur] = "asleep"]
          /\ BlockFrom(status, ready)
     ELSE /\ pc' = [pc EXCEPT ![cur] = "run"]
          /\ UNCHANGED <<cur, status, ready, used>>
  /\ UNCHANGED <<all_list, tid, next_tid, tid_lock, idle_thread, new>>

(* idle's start: sema_up wakes main if it waits, and yields. *)
IdleStarts ==
  /\ At("idle0")
  /\ idle_thread' = cur
  /\ LET wakes == pc[main] = "asleep"
         st == [IF wakes THEN Woken(main) ELSE status EXCEPT ![cur] = "READY"]
         rd == IF wakes THEN ready \cup {main} ELSE ready
     IN  schedule(st, rd)
  /\ pc' = [pc EXCEPT ![cur] = "idle", ![main] = IF @ = "asleep" THEN "run" ELSE @]
  /\ UNCHANGED <<all_list, tid, next_tid, tid_lock, new>>

IdleBlocks ==
  /\ At("idle")
  /\ BlockFrom(status, ready)
  /\ UNCHANGED <<all_list, tid, next_tid, tid_lock, idle_thread, pc, new>>

(* A thread waits for something, and is unblocked by another or by an      *)
(* interrupt handler.                                                      *)
thread_block ==
  /\ At("run") /\ idle_thread # NULL
  /\ pc' = [pc EXCEPT ![cur] = "asleep"]
  /\ BlockFrom(status, ready)
  /\ UNCHANGED <<all_list, tid, next_tid, tid_lock, idle_thread, new>>

thread_unblock(t) ==
  /\ pc[cur] \in {"run", "tid", "tid_got", "made", "idle"}
  /\ pc[t] = "asleep" /\ status[t] = "BLOCKED"
  /\ status' = Woken(t)
  /\ ready' = ready \cup {t}
  /\ pc' = [pc EXCEPT ![t] = "run"]
  /\ UNCHANGED <<cur, all_list, used, tid, next_tid, tid_lock, idle_thread, new>>

thread_exit ==
  /\ At("run")
  /\ all_list' = all_list \ {cur}
  /\ pc' = [pc EXCEPT ![cur] = "none"]
  /\ schedule([status EXCEPT ![cur] = "DYING"], ready)
  /\ UNCHANGED <<tid, next_tid, tid_lock, idle_thread, new>>

Next ==
  \/ Preempt \/ thread_create \/ AllocateTid \/ ReleaseTidLock \/ StartThread
  \/ AwaitIdle \/ IdleStarts \/ IdleBlocks \/ thread_block \/ thread_exit
  \/ \E t \in AllThreads : thread_unblock(t)
-----------------------------------------------------------------------------
(* Exactly one thread runs, and the ready queue holds the other ready      *)
(* threads: none twice, none that is dying or gone, never the idle thread. *)
ReadyQueueExact ==
  /\ {t \in AllThreads : status[t] = "RUNNING"} = {cur}
  /\ ready = {t \in AllThreads : status[t] = "READY"} \ {idle_thread}

(* The running thread's stack is never on a freed page, a page is freed    *)
(* when its thread is gone and not before, and all_list has the live ones. *)
PageLivesAsLong ==
  /\ cur # main => cur \in used
  /\ used = {t \in Pages : status[t] # "NONE"}
  /\ all_list = {t \in AllThreads : status[t] \notin {"NONE", "DYING"}}
  /\ \A t \in Pages : status[t] # "DYING"

(* Two live threads never have the same tid, although allocate_tid's       *)
(* caller can be preempted; 0 is a thread that has none yet.               *)
TidsUnique == \A s, t \in all_list : s # t /\ tid[s] = tid[t] => tid[s] = 0
=============================================================================
