---------------------------- MODULE PrioritySynch ----------------------------
(***************************************************************************)
(* The priority scheduler and the locks with priority donation:            *)
(* threads/synch.c and the parts of threads/thread.c it relies on, with    *)
(* the ready heap, the wait lists, effective and base priorities and the   *)
(* donations they come from.  thread_mlfqs is false.                       *)
(*                                                                         *)
(* As in Synch, whose choices this module makes, an action is a stretch of *)
(* code with interrupts off, or one statement on shared data with them on. *)
(***************************************************************************)
EXTENDS ReadyQueue, FiniteSets
LOCAL INSTANCE SequencesExt
LOCAL INSTANCE FiniteSetsExt

CONSTANTS Threads, Locks, Semas, Idle, NULL,
          SemaMax,             \* bound on the value of the semaphores in Semas
          PRI_MAX,             \* priorities are PRI_MIN .. PRI_MAX
          Bases,               \* the threads' priorities at first, a set of
                               \* functions
          NewPriorities,       \* arguments of thread_set_priority
          DONATE_MAX_DEPTH,
          Uninterrupted        \* places at which no interrupt arrives: {} is
                               \* the code, which has interrupts on at all

PRI_MIN == 0

Priorities == PRI_MIN .. PRI_MAX

ASSUME PriorityAssumption ==
  /\ PRI_MAX \in Nat /\ DONATE_MAX_DEPTH \in Nat /\ SemaMax \in Nat
  /\ Bases \subseteq [Threads -> Priorities]
  /\ NewPriorities \subseteq Priorities
  /\ Idle \notin Threads /\ NULL \notin Threads \cup Locks \cup Semas

Objects == Locks \cup Semas

VARIABLES cur, status, value, holder, holding, pc, obj,    \* as in Synch
          ready,            \* ready_heap
          waiters,          \* semaphore->waiters, a sequence
          priority,         \* thread->priority, the effective priority
          priority_origin,  \* thread->priority_origin, the base priority
          priority_donate,  \* lock->priority_donate
          local,            \* locals of donate_priority, thread_update_priority
                            \* and thread_set_priority
          panic             \* why the kernel stopped, if it did

vars == <<cur, status, value, holder, holding, pc, obj, ready, waiters,
          priority, priority_origin, priority_donate, local, panic>>

(***************************************************************************)
(* The places of Synch, where "wait" and "up" are split:                   *)
(* to_wait                lock_acquire, try failed, lock_waiting not set   *)
(* guard .. recurse       donate_priority, one place per statement         *)
(* sort                   before sort_ready_heap                           *)
(* wait                   before sema_down                                 *)
(* update, store          thread_update_priority: before it reads the      *)
(*                        donations, before it stores the priority         *)
(* up                     before sema_up                                   *)
(* and thread_set_priority: before it stores the priority (set), before it *)
(* compares the priority with the old one (compare)                        *)
(***************************************************************************)
DonatePCs == {"guard", "assert", "donate", "raise", "lift", "recurse"}
WaitPCs == {"to_wait", "sort", "wait"} \cup DonatePCs
UpPCs == {"update", "store", "up"}
SetPCs == {"set", "compare"}
PCs == {"run", "set_holder", "add_held", "down", "own", "yield"}
         \cup WaitPCs \cup UpPCs \cup SetPCs

(* donate_priority (at, dep), the priority it donates, and the lock or the *)
(* thread whose address the next statement uses.                           *)
Frames == [at : Threads, dep : 0 .. DONATE_MAX_DEPTH + 1,
           pri : Priorities, to : Threads \cup Locks \cup {NULL}]

TypeOK ==
  /\ cur \in Threads \cup {Idle}
  /\ status \in [Threads \cup {Idle} -> {"running", "ready", "blocked"}]
  /\ ready \in [elems : Seq(Threads), entered : Seq(Threads)]
  /\ value \in [Objects -> Nat]
  /\ waiters \in [Objects -> Seq(Threads)]
  /\ holder \in [Locks -> Threads \cup {NULL}]
  /\ holding \in [Threads -> SUBSET Locks]
  /\ pc \in [Threads -> PCs]
  /\ obj \in [Threads -> Objects \cup {NULL}]
  /\ priority \in [Threads -> Priorities]
  /\ priority_origin \in [Threads -> Priorities]
  /\ priority_donate \in [Locks -> Priorities]
  /\ \A t \in Threads : 
       local[t] \in IF pc[t] \in DonatePCs THEN Frames
                   ELSE IF pc[t] = "set" THEN [new : Priorities, old : Priorities]
                   ELSE Priorities
  /\ panic \in {NULL, "assert", "fault"}

(* The boot thread, which has the highest priority, runs; the threads it   *)
(* created entered the queue in some order.                                *)
Init ==
  /\ priority \in Bases
  /\ priority_origin = priority
  /\ cur \in {t \in Threads : \A u \in Threads : priority[u] <= priority[t]}
  /\ status = [t \in Threads \cup {Idle} |->
                 IF t = cur THEN "running" ELSE IF t = Idle THEN "blocked" ELSE "ready"]
  /\ ready \in {FoldLeft(LAMBDA q, t : Enqueue(q, t, priority), EmptyQueue, s) :
                  s \in SetToSeqs(Threads \ {cur})}
  /\ value = [o \in Objects |-> IF o \in Locks THEN 1 ELSE 0]
  /\ waiters = [o \in Objects |-> <<>>]
  /\ holder = [l \in Locks |-> NULL]
  /\ holding = [t \in Threads |-> {}]
  /\ priority_donate = [l \in Locks |-> PRI_MIN]
  /\ pc = [t \in Threads |-> "run"]
  /\ obj = [t \in Threads |-> NULL]
  /\ local = [t \in Threads |-> PRI_MIN]
  /\ panic = NULL

priorityVars == <<priority, priority_origin, priority_donate, local, panic>>
lockVars == <<holder, holding>>
schedVars == <<cur, status, ready>>

Running(t, label) == cur = t /\ pc[t] = label /\ panic = NULL

Goto(t, label, o) ==
  /\ pc' = [pc EXCEPT ![t] = label]
  /\ obj' = [obj EXCEPT ![t] = o]
-----------------------------------------------------------------------------
(* thread.c *)

next_thread_to_run(q) == IF q.elems = <<>> THEN Idle ELSE heap_top(q.elems)

schedule(q, st) ==
  LET next == next_thread_to_run(q)
  IN /\ cur' = next
     /\ ready' = IF next = Idle THEN q ELSE Dequeue(q, priority)
     /\ status' = [st EXCEPT ![next] = "running"]

thread_block == schedule(ready, [status EXCEPT ![cur] = "blocked"])

thread_yield(q, st) ==
  schedule(IF cur = Idle THEN q ELSE Enqueue(q, cur, priority),
           [st EXCEPT ![cur] = "ready"])

InterruptsOn == panic = NULL /\ (cur \in Threads => pc[cur] \notin {"down"} \cup Uninterrupted)

Preempt ==
  /\ InterruptsOn
  /\ thread_yield(ready, status)
  /\ UNCHANGED <<value, waiters, pc, obj, lockVars, priorityVars>>

IdleBlock ==
  /\ cur = Idle /\ panic = NULL
  /\ thread_block
  /\ UNCHANGED <<value, waiters, pc, obj, lockVars, priorityVars>>

(* thread_set_priority: the base priority and the test of line 409. *)
SetPriority(t, new) ==
  /\ Running(t, "run")
  /\ priority_origin' = [priority_origin EXCEPT ![t] = new]
  /\ IF priority[t] < new \/ holding[t] = {}
     THEN /\ local' = [local EXCEPT ![t] = [new |-> new, old |-> priority[t]]]
          /\ Goto(t, "set", NULL)
     ELSE /\ local' = [local EXCEPT ![t] = priority[t]]
          /\ Goto(t, "compare", NULL)
  /\ UNCHANGED <<schedVars, lockVars, value, waiters, priority, priority_donate, panic>>

SetStore(t) ==
  /\ Running(t, "set")
  /\ priority' = [priority EXCEPT ![t] = local[t].new]
  /\ local' = [local EXCEPT ![t] = local[t].old]
  /\ Goto(t, "compare", NULL)
  /\ UNCHANGED <<schedVars, lockVars, value, waiters, priority_origin, priority_donate, panic>>

SetCompare(t) ==
  /\ Running(t, "compare")
  /\ IF priority[t] < local[t] THEN thread_yield(ready, status) ELSE UNCHANGED schedVars
  /\ local' = [local EXCEPT ![t] = PRI_MIN]
  /\ Goto(t, "run", NULL)
  /\ UNCHANGED <<lockVars, value, waiters, priority, priority_origin, priority_donate, panic>>
-----------------------------------------------------------------------------
(* synch.c: semaphores *)

sema_down(t, o, label, o1) ==
  \/ /\ value[o] > 0
     /\ value' = [value EXCEPT ![o] = @ - 1]
     /\ Goto(t, label, o1)
     /\ UNCHANGED <<schedVars, waiters>>
  \/ /\ value[o] = 0
     /\ waiters' = [waiters EXCEPT ![o] = Append(@, t)]
     /\ thread_block
     /\ Goto(t, "down", o)
     /\ UNCHANGED value

SemaDown(t, s) ==
  /\ Running(t, "run")
  /\ sema_down(t, s, "run", NULL)
  /\ UNCHANGED <<lockVars, priorityVars>>

Resume(t) ==
  /\ Running(t, "down")
  /\ IF obj[t] \in Locks
     THEN sema_down(t, obj[t], "own", obj[t])
     ELSE sema_down(t, obj[t], "run", NULL)
  /\ UNCHANGED <<lockVars, priorityVars>>

(* list_max with cmp_thread_priority: the first of the most urgent. *)
MaxWaiter(o) ==
  LET w == waiters[o]
  IN  w[Min({i \in DOMAIN w : \A j \in DOMAIN w : priority[w[j]] <= priority[w[i]]})]

(* A variant that hands the unit to the waiter without counting it. *)
sema_up_uncounted(o) ==
  /\ waiters' = IF waiters[o] = <<>> THEN waiters
                ELSE [waiters EXCEPT ![o] = Remove(@, MaxWaiter(o))]
  /\ UNCHANGED value

(* sema_up up to the point where interrupts come back on, and the queue    *)
(* and statuses it leaves.                                                 *)
sema_up(o) ==
  /\ waiters' = IF waiters[o] = <<>> THEN waiters
                ELSE [waiters EXCEPT ![o] = Remove(@, MaxWaiter(o))]
  /\ value' = [value EXCEPT ![o] = @ + 1]

ReadyAfterUp(o) ==
  IF waiters[o] = <<>> THEN ready ELSE Enqueue(ready, MaxWaiter(o), priority)

StatusAfterUp(o) ==
  IF waiters[o] = <<>> THEN status ELSE [status EXCEPT ![MaxWaiter(o)] = "ready"]

SemaUp(t, o, label) ==
  /\ Running(t, label)
  /\ sema_up(o)
  /\ ready' = ReadyAfterUp(o)
  /\ status' = StatusAfterUp(o)
  /\ Goto(t, "yield", NULL)
  /\ UNCHANGED <<cur, lockVars, priorityVars>>

PlainSemaUp(t, s) == value[s] < SemaMax /\ SemaUp(t, s, "run")

(* The thread_yield that ends sema_up. *)
Yield(t) ==
  /\ Running(t, "yield")
  /\ thread_yield(ready, status)
  /\ Goto(t, "run", NULL)
  /\ UNCHANGED <<value, waiters, lockVars, priorityVars>>

(* sema_up called by an interrupt handler, which yields on return. *)
IntrSemaUp(s) ==
  /\ InterruptsOn
  /\ value[s] < SemaMax
  /\ sema_up(s)
  /\ thread_yield(ReadyAfterUp(s), StatusAfterUp(s))
  /\ UNCHANGED <<pc, obj, lockVars, priorityVars>>
-----------------------------------------------------------------------------
(* synch.c: locks *)

LockAcquire(t, l) ==
  /\ Running(t, "run")
  /\ holder[l] # t
  /\ \/ /\ value[l] > 0
        /\ value' = [value EXCEPT ![l] = @ - 1]
        /\ Goto(t, "set_holder", l)
     \/ /\ value[l] = 0
        /\ Goto(t, "to_wait", l)
        /\ UNCHANGED value
  /\ UNCHANGED <<schedVars, waiters, lockVars, priorityVars>>

SetHolder(t) ==
  /\ Running(t, "set_holder")
  /\ holder' = [holder EXCEPT ![obj[t]] = t]
  /\ Goto(t, "add_held", obj[t])
  /\ UNCHANGED <<schedVars, value, waiters, holding, priorityVars>>

AddHeld(t) ==
  /\ Running(t, "add_held")
  /\ holding' = [holding EXCEPT ![t] = @ \cup {obj[t]}]
  /\ Goto(t, "run", NULL)
  /\ UNCHANGED <<schedVars, value, waiters, holder, priorityVars>>

(* thread->lock_waiting, set by to_wait and cleared by own. *)
lock_waiting(t) ==
  IF pc[t] \in (WaitPCs \ {"to_wait"}) \cup {"own"} \/ (pc[t] = "down" /\ obj[t] \in Locks)
  THEN obj[t] ELSE NULL

(* cur->lock_waiting = lock, and the call donate_priority (cur, 0). *)
ToWait(t) ==
  /\ Running(t, "to_wait")
  /\ Goto(t, "guard", obj[t])
  /\ local' = [local EXCEPT ![t] = [at |-> t, dep |-> 0, pri |-> PRI_MIN, to |-> NULL]]
  /\ UNCHANGED <<schedVars, value, waiters, lockVars,
                 priority, priority_origin, priority_donate, panic>>

(* donate_priority returns, through all its frames. *)
DonateReturn(t) ==
  /\ Goto(t, "sort", obj[t])
  /\ local' = [local EXCEPT ![t] = PRI_MIN]

(* The tests at the head of donate_priority. *)
DonateGuard(t) ==
  LET x == local[t].at
      l == lock_waiting(x)
  IN /\ Running(t, "guard")
     /\ IF /\ local[t].dep <= DONATE_MAX_DEPTH
           /\ l # NULL
           /\ priority_donate[l] < priority[x]
        THEN /\ local' = [local EXCEPT ![t].to = l, ![t].pri = priority[x]]
             /\ Goto(t, "assert", obj[t])
        ELSE DonateReturn(t)
     /\ UNCHANGED <<schedVars, value, waiters, lockVars,
                    priority, priority_origin, priority_donate, panic>>

Panic(why) == panic' = why /\ UNCHANGED <<pc, obj, local, priority>>

DonateAssert(t) ==
  /\ Running(t, "assert")
  /\ IF holder[local[t].to] = NULL THEN Panic("assert")
     ELSE Goto(t, "donate", obj[t]) /\ UNCHANGED <<panic, local, priority>>
  /\ UNCHANGED <<schedVars, value, waiters, lockVars, priority_origin, priority_donate>>

Donate(t) ==
  /\ Running(t, "donate")
  /\ priority_donate' = [priority_donate EXCEPT ![local[t].to] = local[t].pri]
  /\ local' = [local EXCEPT ![t].to = NULL]
  /\ Goto(t, "raise", obj[t])
  /\ UNCHANGED <<schedVars, value, waiters, lockVars, priority, priority_origin, panic>>

(* at->lock_waiting->holder, loaded anew by each of the last two           *)
(* statements; NULL when either of the pointers is.                        *)
WaitsFor(x) == IF lock_waiting(x) = NULL THEN NULL ELSE holder[lock_waiting(x)]

(* The test of the holder's priority, and the assignment to it. *)
Raise(t) ==
  LET h == WaitsFor(local[t].at)
  IN /\ Running(t, "raise")
     /\ IF h = NULL THEN Panic("fault")
        ELSE /\ IF local[t].pri > priority[h]
                THEN local' = [local EXCEPT ![t].to = h] /\ Goto(t, "lift", obj[t])
                ELSE local' = [local EXCEPT ![t].pri = PRI_MIN] /\ Goto(t, "recurse", obj[t])
             /\ UNCHANGED <<panic, priority>>
     /\ UNCHANGED <<schedVars, value, waiters, lockVars, priority_origin, priority_donate>>


Lift(t) ==
  /\ Running(t, "lift")
  /\ priority' = [priority EXCEPT ![local[t].to] = local[t].pri]
  /\ local' = [local EXCEPT ![t].to = NULL, ![t].pri = PRI_MIN]
  /\ Goto(t, "recurse", obj[t])
  /\ UNCHANGED <<schedVars, value, waiters, lockVars, priority_origin, priority_donate, panic>>

(* A variant that donates to the holder only. *)
Recurse_not(t) ==
  /\ Running(t, "recurse")
  /\ DonateReturn(t)
  /\ UNCHANGED <<schedVars, value, waiters, lockVars,
                 priority, priority_origin, priority_donate, panic>>

(* The recursive call, which asserts that its thread is not NULL. *)
Recurse(t) ==
  LET x == local[t].at
  IN /\ Running(t, "recurse")
     /\ IF lock_waiting(x) = NULL THEN Panic("fault")
        ELSE IF WaitsFor(x) = NULL THEN Panic("assert")
        ELSE /\ local' = [local EXCEPT ![t].at = WaitsFor(x), ![t].dep = @ + 1]
             /\ Goto(t, "guard", obj[t])
             /\ UNCHANGED <<panic, priority>>
     /\ UNCHANGED <<schedVars, value, waiters, lockVars, priority_origin, priority_donate>>

Sort(t) ==
  /\ Running(t, "sort")
  /\ ready' = sort_ready_heap(ready, priority)
  /\ Goto(t, "wait", obj[t])
  /\ UNCHANGED <<cur, status, value, waiters, lockVars, priorityVars>>

LockDown(t) ==
  /\ Running(t, "wait")
  /\ sema_down(t, obj[t], "own", obj[t])
  /\ UNCHANGED <<lockVars, priorityVars>>

Own(t) ==
  /\ Running(t, "own")
  /\ holder' = [holder EXCEPT ![obj[t]] = t]
  /\ holding' = [holding EXCEPT ![t] = @ \cup {obj[t]}]
  /\ Goto(t, "run", NULL)
  /\ UNCHANGED <<schedVars, value, waiters, priorityVars>>
(* A variant that leaves the donation with the lock. *)
LockRelease_donationKept(t, l) ==
  /\ Running(t, "run")
  /\ holder[l] = t
  /\ holder' = [holder EXCEPT ![l] = NULL]
  /\ holding' = [holding EXCEPT ![t] = @ \ {l}]
  /\ Goto(t, "update", l)
  /\ UNCHANGED <<schedVars, value, waiters, priorityVars>>

(* The interrupts-off section of lock_release. *)
LockRelease(t, l) ==
  /\ Running(t, "run")
  /\ holder[l] = t
  /\ holder' = [holder EXCEPT ![l] = NULL]
  /\ holding' = [holding EXCEPT ![t] = @ \ {l}]
  /\ priority_donate' = [priority_donate EXCEPT ![l] = PRI_MIN]
  /\ Goto(t, "update", l)
  /\ UNCHANGED <<schedVars, value, waiters, priority, priority_origin, local, panic>>


(* thread_update_priority: the larger of the base priority and the         *)
(* donations to the locks held, read here and stored by UpdateStore.       *)
thread_update_priority(t) ==
  Max({priority_origin[t]} \cup {priority_donate[l] : l \in holding[t]})

UpdatePriority(t) ==
  /\ Running(t, "update")
  /\ local' = [local EXCEPT ![t] = thread_update_priority(t)]
  /\ Goto(t, "store", obj[t])
  /\ UNCHANGED <<schedVars, value, waiters, lockVars,
                 priority, priority_origin, priority_donate, panic>>

UpdateStore(t) ==
  /\ Running(t, "store")
  /\ priority' = [priority EXCEPT ![t] = local[t]]
  /\ local' = [local EXCEPT ![t] = PRI_MIN]
  /\ Goto(t, "up", obj[t])
  /\ UNCHANGED <<schedVars, lockVars, value, waiters, priority_origin, priority_donate, panic>>

LockUp(t) == SemaUp(t, obj[t], "up")
-----------------------------------------------------------------------------
Step(t) ==
  \/ SetStore(t) \/ SetCompare(t) \/ Resume(t) \/ Yield(t)
  \/ SetHolder(t) \/ AddHeld(t)
  \/ ToWait(t) \/ DonateGuard(t) \/ DonateAssert(t) \/ Donate(t)
  \/ Raise(t) \/ Lift(t) \/ Recurse(t) \/ Sort(t)
  \/ LockDown(t) \/ Own(t)
  \/ UpdatePriority(t) \/ UpdateStore(t) \/ LockUp(t)

Next ==
  \/ Preempt
  \/ IdleBlock
  \/ \E s \in Semas : IntrSemaUp(s)
  \/ \E t \in Threads :
       \/ \E s \in Semas : SemaDown(t, s) \/ PlainSemaUp(t, s)
       \/ \E l \in Locks : LockAcquire(t, l) \/ LockRelease(t, l)
       \/ \E p \in NewPriorities : SetPriority(t, p)
       \/ Step(t)

Spec == Init /\ [][Next]_vars
-----------------------------------------------------------------------------
(* Refinement of Synch: the queue and the wait lists as sets, the places   *)
(* within lock_acquire, lock_release and thread_set_priority merged.       *)
Coarse(label) ==
  IF label \in WaitPCs THEN "wait"
  ELSE IF label \in UpPCs THEN "up"
  ELSE IF label \in SetPCs THEN "run" ELSE label

S == INSTANCE Synch WITH ready <- InQueue(ready),
                         waiters <- [o \in Objects |-> ToSet(waiters[o])],
                         pc <- [t \in Threads |-> Coarse(pc[t])]

(* The priority scheduler, the heap and donation are one way to make the   *)
(* choices Synch leaves open.                                              *)
ImplementsSynch == S!Spec

(* A donor has changed priorities and not yet called sort_ready_heap. *)
Donating == \E t \in Threads : \/ pc[t] = "guard" /\ local[t].dep > 0
                              \/ pc[t] \in (DonatePCs \ {"guard"}) \cup {"sort"}

(* The ready heap is in order except while a donation is under way: every  *)
(* change of a ready thread's priority is followed by sort_ready_heap.     *)
ReadyHeapOrdered == Donating \/ IsOrdered(ready, priority)

(* The dispatcher picks a thread of the highest priority, unless it runs   *)
(* while a donation is under way.                                          *)
DispatchesHighest ==
  [][cur' # cur /\ ~ Donating
       => \A t \in InQueue(ready') : cur' # Idle /\ priority[t] <= priority[cur']]_vars

(* A thread never runs below its base priority. *)
AtLeastBase ==
  \A t \in Threads : pc[t] # "set" => priority[t] >= priority_origin[t]

(* The kernel neither fails an assertion of donate_priority nor follows a  *)
(* null pointer there, if no interrupt arrives inside the lock code.       *)
NoPanic == panic = NULL

(* "recall the donation once L releases ... the lock": a thread outside    *)
(* the lock code that holds no lock has its base priority.                 *)
DonationsRecalled ==
  \A t \in Threads : pc[t] = "run" /\ holding[t] = {} => priority[t] = priority_origin[t]

(* What a lock has been donated reaches its holder, and stays with it      *)
(* through the release of other locks and thread_set_priority.             *)
DonationReachesHolder ==
  Donating \/ \A l \in Locks : holder[l] # NULL => priority[holder[l]] >= priority_donate[l]

(* The threads t waits for, through at most DONATE_MAX_DEPTH + 1 locks. *)
WaitChain(t) ==
  LET hop[n \in 0 .. DONATE_MAX_DEPTH + 1] ==
        IF n = 0 THEN t
        ELSE IF hop[n - 1] = NULL THEN NULL ELSE WaitsFor(hop[n - 1])
  IN {hop[n] : n \in 1 .. DONATE_MAX_DEPTH + 1} \ {NULL}

(* Nested donation: when a thread is about to wait for a lock, every       *)
(* thread it waits for, directly or not, runs at least at its priority.    *)
NestedDonation ==
  \A t \in Threads : pc[t] = "sort" => \A h \in WaitChain(t) : priority[h] >= priority[t]

(* The holder of a lock runs at least at the priority of every thread      *)
(* blocked on the lock, so that no thread of a priority in between can     *)
(* keep them waiting.                                                      *)
DonationHolds ==
  Donating \/ \A l \in Locks : holder[l] # NULL =>
                \A w \in ToSet(waiters[l]) : priority[w] <= priority[holder[l]]

(* ASSERT (t->lock_waiting->holder != NULL) in donate_priority never fails.*)
HolderAssertHolds == panic # "assert"
-----------------------------------------------------------------------------
(***************************************************************************)
(* A thread inside the lock code that is given the processor again and     *)
(* again (for a time slice each time) gets on with it, a lock whose holder *)
(* is given it again and again is released, and the semaphores keep being  *)
(* upped.  The first and the last are stated by what Step and the ups      *)
(* change, as TLC evaluates ENABLED of the heap too slowly.                *)
(***************************************************************************)
Advance(t) ==
  /\ cur = t /\ pc[t] # "run" /\ panic = NULL
  /\ \E label \in PCs \ {pc[t]} : pc' = [pc EXCEPT ![t] = label]

Upped(s) ==
  /\ InterruptsOn /\ value[s] < SemaMax
  /\ value' = [value EXCEPT ![s] = @ + 1]

Fairness ==
  /\ \A t \in Threads : SF_pc(Advance(t))
  /\ SF_vars(\E t \in Threads, l \in Locks : LockRelease(t, l))
  /\ \A s \in Semas : SF_value(Upped(s))

LiveSpec == Spec /\ Fairness

Foremost(t) == \A u \in Threads \ {t} : priority_origin[u] < priority_origin[t]

ForemostWaits == \E t \in Threads : Foremost(t) /\ pc[t] = "to_wait"

ForemostHolds == panic # NULL \/ \E t \in Threads : Foremost(t) /\ holding[t] # {}

(* No priority inversion: a thread with the highest base priority that     *)
(* asks for a lock gets it, whatever the threads of middling priority do.  *)
NoInversion == ForemostWaits ~> ForemostHolds
=============================================================================
