------------------------------- MODULE CondVar -------------------------------
(***************************************************************************)
(* Condition variables, the end of threads/synch.c: threads of a monitor   *)
(* with one lock and one condition.  The lock is the one LockSpec          *)
(* describes; a priority scheduler runs a most urgent runnable thread, and *)
(* the owner of the lock has the priority of whoever wants the lock.       *)
(*                                                                         *)
(* Each waiting thread has a semaphore of its own on its stack.  The list  *)
(* and the semaphores are changed by the owner of the lock, except in the  *)
(* window cond_wait leaves between lock_release and sema_down.             *)
(***************************************************************************)
EXTENDS Naturals, SequencesExt, FiniteSetsExt

CONSTANTS Threads, NULL, PRI_MAX

PRI_MIN == 0

VARIABLES owner,      \* of the monitor's lock
          waiters,    \* cond->waiters, the threads whose semaphores are in it
          value,      \* the value of a waiting thread's semaphore
          priority,   \* base priorities, which do not change
          pc

vars == <<owner, waiters, value, priority, pc>>

(***************************************************************************)
(* away        blocked outside the monitor                                 *)
(* acquire     before or in lock_acquire, first or at the end of cond_wait *)
(* in          holds the lock                                              *)
(* broadcast   in the loop of cond_broadcast                               *)
(* released    in cond_wait, before sema_down                              *)
(* parked      blocked in sema_down                                        *)
(* woken       unblocked by sema_up, still in sema_down                    *)
(***************************************************************************)
PCs == {"away", "acquire", "in", "broadcast", "released", "parked", "woken"}

Init ==
  /\ owner = NULL
  /\ waiters = <<>>
  /\ value = [t \in Threads |-> 0]
  /\ priority \in [Threads -> PRI_MIN .. PRI_MAX]
  /\ pc = [t \in Threads |-> "away"]

Goto(t, label) == pc' = [pc EXCEPT ![t] = label]

Runnable(t) == pc[t] \in PCs \ {"away", "parked", "acquire"} \/ (pc[t] = "acquire" /\ owner = NULL)

Effective(t) ==
  IF owner = t THEN Max({priority[u] : u \in {t} \cup {u \in Threads : pc[u] = "acquire"}})
  ELSE priority[t]

Runs(t, label) ==
  /\ pc[t] = label /\ Runnable(t)
  /\ \A u \in Threads : Runnable(u) => Effective(u) <= Effective(t)
-----------------------------------------------------------------------------
(* An interrupt unblocks a thread, which enters the monitor. *)
Arrive(t) ==
  /\ pc[t] = "away"
  /\ Goto(t, "acquire")
  /\ UNCHANGED <<owner, waiters, value, priority>>

lock_acquire(t) ==
  /\ Runs(t, "acquire")
  /\ owner' = t
  /\ Goto(t, "in")
  /\ UNCHANGED <<waiters, value, priority>>

lock_release(t) ==
  /\ Runs(t, "in")
  /\ owner' = NULL
  /\ Goto(t, "away")
  /\ UNCHANGED <<waiters, value, priority>>

(* cond_wait up to the end of its lock_release. *)
cond_wait(t) ==
  /\ Runs(t, "in")
  /\ value' = [value EXCEPT ![t] = 0]
  /\ waiters' = Append(waiters, t)
  /\ owner' = NULL
  /\ Goto(t, "released")
  /\ UNCHANGED priority

(* Its sema_down, entered or resumed; lock_acquire follows. *)
SemaDown(t) ==
  /\ Runs(t, "released") \/ Runs(t, "woken")
  /\ IF value[t] > 0
     THEN value' = [value EXCEPT ![t] = @ - 1] /\ Goto(t, "acquire")
     ELSE Goto(t, "parked") /\ UNCHANGED value
  /\ UNCHANGED <<owner, waiters, priority>>

(* The priority of the thread blocked on a semaphore, if there is one. *)
sema_waiter_priority(t) == IF pc[t] = "parked" THEN priority[t] ELSE PRI_MIN

(* list_max with cmp_sema_priority: the place of the first most urgent. *)
MaxPlace ==
  Min({i \in DOMAIN waiters :
         \A j \in DOMAIN waiters :
           sema_waiter_priority(waiters[j]) <= sema_waiter_priority(waiters[i])})

MaxWaiter == waiters[MaxPlace]

(* A variant that wakes without counting. *)
WakeMaxWaiter_uncounted(t, label) ==
  /\ waiters' = RemoveAt(waiters, MaxPlace)
  /\ pc' = [pc EXCEPT ![MaxWaiter] = IF @ = "parked" THEN "woken" ELSE @, ![t] = label]
  /\ UNCHANGED <<owner, value, priority>>

(* list_remove and sema_up, by t, which goes on at label. *)
WakeMaxWaiter(t, label) ==
  /\ waiters' = RemoveAt(waiters, MaxPlace)
  /\ value' = [value EXCEPT ![MaxWaiter] = @ + 1]
  /\ pc' = [pc EXCEPT ![MaxWaiter] = IF @ = "parked" THEN "woken" ELSE @, ![t] = label]
  /\ UNCHANGED <<owner, priority>>

cond_signal(t) ==
  /\ Runs(t, "in")
  /\ waiters # <<>>
  /\ WakeMaxWaiter(t, "in")

(* The loop of cond_broadcast: t may be preempted between two signals. *)
cond_broadcast(t) ==
  \/ /\ Runs(t, "in")
     /\ Goto(t, "broadcast")
     /\ UNCHANGED <<owner, waiters, value, priority>>
  \/ /\ Runs(t, "broadcast")
     /\ IF waiters # <<>> THEN WakeMaxWaiter(t, "broadcast")
        ELSE Goto(t, "in") /\ UNCHANGED <<owner, waiters, value, priority>>

Step(t) ==
  \/ lock_acquire(t) \/ lock_release(t) \/ cond_wait(t) \/ SemaDown(t)
  \/ cond_signal(t) \/ cond_broadcast(t)

Next == \E t \in Threads : Arrive(t) \/ Step(t)

Spec == Init /\ [][Next]_vars
-----------------------------------------------------------------------------
(* A signal is neither lost nor delivered twice, also one that comes       *)
(* before the waiting thread has reached its sema_down: a thread inside    *)
(* cond_wait is on the list until it is signalled, and from then on its    *)
(* semaphore has the unit that lets it go on.  A parked thread is on the   *)
(* list, so it can be signalled.                                           *)
SignalsKept ==
  \A t \in Threads :
    /\ t \in ToSet(waiters) <=> \/ pc[t] = "parked"
                                \/ pc[t] = "released" /\ value[t] = 0
    /\ pc[t] = "woken" => value[t] = 1

(* A thread leaves cond_wait only when signalled: no spurious return. *)
OnlyWhenSignalled == \A t \in ToSet(waiters) : pc'[t] # "acquire"

(* threads.texi: "when threads are waiting for a ... condition variable,   *)
(* the highest priority waiting thread should be awakened first".          *)
WakesHighestFirst ==
  [][\A t \in ToSet(waiters) \ ToSet(waiters'), u \in ToSet(waiters') :
       priority[u] <= priority[t]]_vars
-----------------------------------------------------------------------------
(* The processor does not stop, and no user of the monitor keeps it by     *)
(* signalling for ever.                                                    *)
Fairness == \A t \in Threads : WF_vars(Step(t)) /\ SF_vars(lock_release(t))

LiveSpec == Spec /\ Fairness

Signalled(t) ==
  pc[t] \in {"woken", "acquire"} /\ \A u \in Threads \ {t} : priority[u] < priority[t]

=============================================================================
