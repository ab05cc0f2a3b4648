-------------------------------- MODULE Synch --------------------------------
(***************************************************************************)
(* Semaphores and locks of threads/synch.c on the scheduler of             *)
(* threads/thread.c, with priorities abstracted away: the scheduler may    *)
(* dispatch any ready thread and sema_up may wake any waiter.  What is     *)
(* proved here therefore holds whatever the priorities are; module         *)
(* PrioritySynch puts priorities, donation and the ready heap back.        *)
(*                                                                         *)
(* One processor: only cur executes.  An action is one stretch of code     *)
(* that runs with interrupts off, or one statement on shared data that     *)
(* runs with them on; between two actions the timer may preempt cur,       *)
(* except at "down", where a thread that was switched back to inside       *)
(* sema_down still has interrupts off.                                     *)
(***************************************************************************)
EXTENDS Naturals, FiniteSets

CONSTANTS Threads,     \* kernel threads, idle excluded
          Locks,       \* struct lock; a lock stands also for its semaphore
          Semas,       \* other struct semaphore
          Idle,        \* idle_thread
          NULL,
          SemaMax      \* bound on the value of the semaphores in Semas

ASSUME SynchAssumption ==
  /\ IsFiniteSet(Threads)
  /\ Locks \cap Semas = {}
  /\ Idle \notin Threads
  /\ NULL \notin Threads \cup Locks \cup Semas
  /\ SemaMax \in Nat

Objects == Locks \cup Semas

VARIABLES cur,       \* the running thread
          status,    \* thread->status
          ready,     \* ready_heap, as a set
          value,     \* semaphore->value
          waiters,   \* semaphore->waiters, as a set
          holder,    \* lock->holder
          holding,   \* thread->locks_holding_list, as a set
          pc,        \* where each thread is in synch.c
          obj        \* the lock or semaphore of the call in progress

vars == <<cur, status, ready, value, waiters, holder, holding, pc, obj>>

(***************************************************************************)
(* run         outside synch.c                                             *)
(* set_holder  lock_try_acquire, sema_try_down succeeded, holder not set   *)
(* add_held    lock_try_acquire, holder set, lock not on the list          *)
(* wait        lock_acquire, after a failed try and before sema_down       *)
(* down        in thread_block inside sema_down                            *)
(* own         lock_acquire, sema_down returned, holder not set            *)
(* up          lock_release, holder cleared and before sema_up             *)
(* yield       sema_up, value incremented and before thread_yield          *)
(***************************************************************************)
PCs == {"run", "set_holder", "add_held", "wait", "down", "own", "up", "yield"}

(* Inside a call on a lock, but for the wait in sema_down. *)
LockPCs == {"set_holder", "add_held", "wait", "own", "up"}

TypeOK ==
  /\ cur \in Threads \cup {Idle}
  /\ status \in [Threads \cup {Idle} -> {"running", "ready", "blocked"}]
  /\ ready \in SUBSET Threads
  /\ value \in [Objects -> Nat]
  /\ waiters \in [Objects -> SUBSET Threads]
  /\ holder \in [Locks -> Threads \cup {NULL}]
  /\ holding \in [Threads -> SUBSET Locks]
  /\ pc \in [Threads -> PCs]
  /\ obj \in [Threads -> Objects \cup {NULL}]
  /\ \A t \in Threads : /\ pc[t] \in LockPCs => obj[t] \in Locks
                        /\ pc[t] = "down" => obj[t] \in Objects

(* The boot thread runs, the threads it created are ready; sema_init,      *)
(* lock_init.                                                              *)
Init ==
  /\ cur \in Threads
  /\ status = [t \in Threads \cup {Idle} |->
                 IF t = cur THEN "running" ELSE IF t = Idle THEN "blocked" ELSE "ready"]
  /\ ready = Threads \ {cur}
  /\ value = [o \in Objects |-> IF o \in Locks THEN 1 ELSE 0]
  /\ waiters = [o \in Objects |-> {}]
  /\ holder = [l \in Locks |-> NULL]
  /\ holding = [t \in Threads |-> {}]
  /\ pc = [t \in Threads |-> "run"]
  /\ obj = [t \in Threads |-> NULL]
-----------------------------------------------------------------------------
(* thread.c *)

(* schedule, with ready queue r and statuses st (the previous thread is    *)
(* not running in st): next_thread_to_run, switch, thread_schedule_tail.   *)
schedule(r, st) ==
  \E next \in IF r = {} THEN {Idle} ELSE r :
    /\ cur' = next
    /\ ready' = r \ {next}
    /\ status' = [st EXCEPT ![next] = "running"]

thread_block == schedule(ready, [status EXCEPT ![cur] = "blocked"])

thread_yield(r, st) ==
  schedule(IF cur = Idle THEN r ELSE r \cup {cur}, [st EXCEPT ![cur] = "ready"])

InterruptsOn == cur \in Threads => pc[cur] # "down"

(* The timer interrupt at the end of a time slice, or any handler that     *)
(* asked for intr_yield_on_return.                                         *)
Preempt ==
  /\ InterruptsOn
  /\ thread_yield(ready, status)
  /\ UNCHANGED <<value, waiters, holder, holding, pc, obj>>

(* The loop of idle: block until the next interrupt. *)
IdleBlock ==
  /\ cur = Idle
  /\ thread_block
  /\ UNCHANGED <<value, waiters, holder, holding, pc, obj>>
-----------------------------------------------------------------------------
(* synch.c: semaphores *)

Goto(t, label, o) ==
  /\ pc' = [pc EXCEPT ![t] = label]
  /\ obj' = [obj EXCEPT ![t] = o]

(* The loop of sema_down: take a unit and go on at label, or queue up and  *)
(* block.                                                                  *)
sema_down(t, o, label, o1) ==
  \/ /\ value[o] > 0
     /\ value' = [value EXCEPT ![o] = @ - 1]
     /\ Goto(t, label, o1)
     /\ UNCHANGED <<cur, status, ready, waiters>>
  \/ /\ value[o] = 0
     /\ waiters' = [waiters EXCEPT ![o] = @ \cup {t}]
     /\ thread_block
     /\ Goto(t, "down", o)
     /\ UNCHANGED value

(* sema_down on a semaphore that is not a lock's. *)
SemaDown(t, s) ==
  /\ cur = t /\ pc[t] = "run"
  /\ sema_down(t, s, "run", NULL)
  /\ UNCHANGED <<holder, holding>>

(* A variant that takes being woken for having been given the unit. *)
Resume_untested(t) ==
  /\ cur = t /\ pc[t] = "down"
  /\ IF obj[t] \in Locks THEN Goto(t, "own", obj[t]) ELSE Goto(t, "run", NULL)
  /\ UNCHANGED <<cur, status, ready, value, waiters, holder, holding>>

(* A thread that blocked in sema_down is dispatched again and tests the    *)
(* value once more.                                                        *)
Resume(t) ==
  /\ cur = t /\ pc[t] = "down"
  /\ IF obj[t] \in Locks
     THEN sema_down(t, obj[t], "own", obj[t])
     ELSE sema_down(t, obj[t], "run", NULL)
  /\ UNCHANGED <<holder, holding>>

(* A variant that wakes a waiter only when the value was zero. *)
Wakeable_fromZero(o) ==
  IF waiters[o] = {} \/ value[o] > 0 THEN {{}} ELSE {{w} : w \in waiters[o]}

(* The threads sema_up may wake: one waiter, or none if there is none. *)
Wakeable(o) == IF waiters[o] = {} THEN {{}} ELSE {{w} : w \in waiters[o]}

MadeReady(W) == [t \in Threads \cup {Idle} |-> IF t \in W THEN "ready" ELSE status[t]]

(* A variant that leaves the woken thread on the wait list. *)
sema_up_unlinked(o, W) ==
  /\ value' = [value EXCEPT ![o] = @ + 1]
  /\ UNCHANGED waiters

(* sema_up up to the point where interrupts come back on. *)
sema_up(o, W) ==
  /\ waiters' = [waiters EXCEPT ![o] = @ \ W]
  /\ value' = [value EXCEPT ![o] = @ + 1]

SemaUp(t, o, label) ==
  /\ cur = t /\ pc[t] = label
  /\ \E W \in Wakeable(o) :
       /\ sema_up(o, W)
       /\ ready' = ready \cup W
       /\ status' = MadeReady(W)
  /\ Goto(t, "yield", NULL)
  /\ UNCHANGED <<cur, holder, holding>>

(* sema_up on a semaphore that is not a lock's. *)
PlainSemaUp(t, s) == value[s] < SemaMax /\ SemaUp(t, s, "run")

(* The thread_yield that ends sema_up. *)
Yield(t) ==
  /\ cur = t /\ pc[t] = "yield"
  /\ thread_yield(ready, status)
  /\ Goto(t, "run", NULL)
  /\ UNCHANGED <<value, waiters, holder, holding>>

(* sema_up called by an interrupt handler, which yields on return. *)
IntrSemaUp(s) ==
  /\ InterruptsOn
  /\ value[s] < SemaMax
  /\ \E W \in Wakeable(s) :
       /\ sema_up(s, W)
       /\ thread_yield(ready \cup W, MadeReady(W))
  /\ UNCHANGED <<holder, holding, pc, obj>>
-----------------------------------------------------------------------------
(* synch.c: locks *)

(* lock_acquire up to its try: lock_try_acquire's sema_try_down.  (A       *)
(* direct call of lock_try_acquire takes the first branch or does nothing.)*)
LockAcquire(t, l) ==
  /\ cur = t /\ pc[t] = "run"
  /\ holder[l] # t
  /\ \/ /\ value[l] > 0
        /\ value' = [value EXCEPT ![l] = @ - 1]
        /\ Goto(t, "set_holder", l)
     \/ /\ value[l] = 0
        /\ Goto(t, "wait", l)
        /\ UNCHANGED value
  /\ UNCHANGED <<cur, status, ready, waiters, holder, holding>>

SetHolder(t) ==
  /\ cur = t /\ pc[t] = "set_holder"
  /\ holder' = [holder EXCEPT ![obj[t]] = t]
  /\ Goto(t, "add_held", obj[t])
  /\ UNCHANGED <<cur, status, ready, value, waiters, holding>>

AddHeld(t) ==
  /\ cur = t /\ pc[t] = "add_held"
  /\ holding' = [holding EXCEPT ![t] = @ \cup {obj[t]}]
  /\ Goto(t, "run", NULL)
  /\ UNCHANGED <<cur, status, ready, value, waiters, holder>>

(* lock_acquire's sema_down. *)
LockDown(t) ==
  /\ cur = t /\ pc[t] = "wait"
  /\ sema_down(t, obj[t], "own", obj[t])
  /\ UNCHANGED <<holder, holding>>

(* The interrupts-off section at the end of lock_acquire. *)
Own(t) ==
  /\ cur = t /\ pc[t] = "own"
  /\ holder' = [holder EXCEPT ![obj[t]] = t]
  /\ holding' = [holding EXCEPT ![t] = @ \cup {obj[t]}]
  /\ Goto(t, "run", NULL)
  /\ UNCHANGED <<cur, status, ready, value, waiters>>

(* A variant that leaves holder set. *)
LockRelease_holderKept(t, l) ==
  /\ cur = t /\ pc[t] = "run"
  /\ holder[l] = t
  /\ holding' = [holding EXCEPT ![t] = @ \ {l}]
  /\ Goto(t, "up", l)
  /\ UNCHANGED <<cur, status, ready, value, waiters, holder>>

(* lock_release up to its sema_up. *)
LockRelease(t, l) ==
  /\ cur = t /\ pc[t] = "run"
  /\ holder[l] = t
  /\ holder' = [holder EXCEPT ![l] = NULL]
  /\ holding' = [holding EXCEPT ![t] = @ \ {l}]
  /\ Goto(t, "up", l)
  /\ UNCHANGED <<cur, status, ready, value, waiters>>

LockUp(t) == SemaUp(t, obj[t], "up")
-----------------------------------------------------------------------------
Next ==
  \/ Preempt
  \/ IdleBlock
  \/ \E s \in Semas : IntrSemaUp(s)
  \/ \E t \in Threads :
       \/ \E s \in Semas : SemaDown(t, s) \/ PlainSemaUp(t, s)
       \/ \E l \in Locks : LockAcquire(t, l) \/ LockRelease(t, l)
       \/ Resume(t) \/ Yield(t)
       \/ SetHolder(t) \/ AddHeld(t) \/ LockDown(t) \/ Own(t) \/ LockUp(t)

Spec == Init /\ [][Next]_vars
-----------------------------------------------------------------------------
(* thread.h on `elem': "only a thread in the ready state is on the run     *)
(* queue, whereas only a thread in the blocked state is on a semaphore     *)
(* wait list", so the one list element serves both.  No interleaving of    *)
(* handlers, preemptions and re-blocking threads leaves a thread on two    *)
(* queues, on none while it is neither running nor idle, or lets two       *)
(* threads run.                                                            *)
OneQueuePerThread ==
  /\ \A t \in Threads \cup {Idle} : status[t] = "running" <=> t = cur
  /\ \A t \in Threads :
       /\ t \in ready <=> status[t] = "ready"
       /\ status[t] = "blocked" => \E o \in Objects : t \in waiters[o]
       /\ \A o \in Objects :
            t \in waiters[o] => /\ status[t] = "blocked"
                               /\ \A p \in Objects : t \in waiters[p] => p = o

(* t has taken the unit of l's semaphore and not given it back: it holds   *)
(* the lock, or is on the way in or out of holding it.                     *)
Owns(t, l) ==
  \/ l \in holding[t]
  \/ obj[t] = l /\ pc[t] \in {"set_holder", "add_held", "own", "up"}

(* The semaphore of a lock is binary, and its unit is missing exactly when *)
(* one thread has it: no two threads are ever between the end of           *)
(* lock_acquire and the start of lock_release for the same lock.           *)
MutualExclusion ==
  \A l \in Locks :
    /\ value[l] \in {0, 1}
    /\ value[l] = 0 <=> \E t \in Threads : Owns(t, l)
    /\ \A t, u \in Threads : Owns(t, l) /\ Owns(u, l) => t = u

(* lock->holder names the owner whenever it is set, and agrees with the    *)
(* owner's locks_holding_list.  A lock whose semaphore is taken while      *)
(* holder is NULL has its owner in one of the three windows lock_acquire   *)
(* and lock_release leave open with interrupts on.                         *)
HolderNamesOwner ==
  \A l \in Locks :
    /\ \A t \in Threads :
         holder[l] = t <=> l \in holding[t] \/ (pc[t] = "add_held" /\ obj[t] = l)
    /\ value[l] = 0 /\ holder[l] = NULL
         => \E t \in Threads : obj[t] = l /\ pc[t] \in {"set_holder", "own", "up"}

(* The threads that were waiting for o, have been woken and have not       *)
(* tested the value again.                                                 *)
Woken(o) == {t \in Threads : pc[t] = "down" /\ obj[t] = o /\ t \notin waiters[o]}

(* No wake-up is lost: while a thread waits, every unit of the semaphore   *)
(* is matched by a woken thread, although a woken thread may find its unit *)
(* taken by another one and queue up again.                                *)
NoLostWakeup ==
  \A o \in Objects : waiters[o] # {} => Cardinality(Woken(o)) >= value[o]

(* The idle thread never runs, with nothing ready, while a thread waits    *)
(* for a semaphore that has a unit to give.                                *)
NeverIdleWithWorkToDo ==
  cur = Idle /\ ready = {} => \A o \in Objects : value[o] > 0 => waiters[o] = {}

(* What a lock promises: see LockSpec.  The unit of the semaphore is the   *)
(* abstract ownership.                                                     *)
owner == [l \in Locks |->
            IF value[l] > 0 THEN NULL ELSE CHOOSE t \in Threads : Owns(t, l)]

Abstract == INSTANCE LockSpec

(* lock_acquire, lock_release and the scheduler implement LockSpec: a lock *)
(* goes from free to owned and from owned to free, one owner at a time,    *)
(* and only its owner frees it.                                            *)
ImplementsLockSpec == Abstract!Spec
=============================================================================
