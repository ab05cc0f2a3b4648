----------------------------- MODULE MCScheduling -----------------------------
(***************************************************************************)
(* What the schedulers promise in the long run: the alarm clock, the       *)
(* multi-level feedback queue, priority donation and condition variables,  *)
(* side by side on small instances.  subject names the one that a          *)
(* behaviour is about, and its variables are the first of v1 to v14.       *)
(*                                                                         *)
(* Each liveness property has the fairness of its own module as premise.   *)
(***************************************************************************)
EXTENDS Integers, Sequences, FiniteSets, TLC

CONSTANTS Idle, NULL, t1, t2, t3, t4, l1, s1

VARIABLES subject, v1, v2, v3, v4, v5, v6, v7, v8, v9, v10, v11, v12, v13, v14

vars == <<subject, v1, v2, v3, v4, v5, v6, v7, v8, v9, v10, v11, v12, v13, v14>>

Three == {t1, t2, t3}
Four == {t1, t2, t3, t4}

A == INSTANCE Alarm WITH Threads <- Four, Bases <- [Four -> 0 .. 1],
                         SleepTicks <- -1 .. 3, TIME_SLICE <- 3, cur <- v1, ready <- v2,
                         sleepers <- v3, left <- v4, thread_ticks <- v5, priority <- v6
M == INSTANCE Mlfqs WITH Threads <- {t1, t2}, initial_thread <- t1, F_BITS <- 4, PRI_MAX <- 3,
                         PRI_DEFAULT <- 1, TIMER_FREQ <- 2, RECALC <- 1, TIME_SLICE <- 2,
                         WINDOW <- 2, Nices <- {0}, cur <- v1, ready <- v2, blocked <- v3,
                         nice <- v4, recent_cpu <- v5, priority <- v6, load_avg <- v7,
                         ticks <- v8, thread_ticks <- v9
P == INSTANCE PrioritySynch WITH Threads <- Three, Locks <- {l1}, Semas <- {s1}, SemaMax <- 1,
                                 PRI_MAX <- 2, Bases <- {(t1 :> 0) @@ (t2 :> 1) @@ (t3 :> 2)},
                                 NewPriorities <- {}, DONATE_MAX_DEPTH <- 8,
                                 Uninterrupted <- {"update", "store", "up"}, cur <- v1,
                                 status <- v2, value <- v3, holder <- v4, holding <- v5,
                                 pc <- v6, obj <- v7, ready <- v8, waiters <- v9,
                                 priority <- v10, priority_origin <- v11,
                                 priority_donate <- v12, local <- v13, panic <- v14
C == INSTANCE CondVar WITH Threads <- Three, PRI_MAX <- 1, owner <- v1, waiters <- v2,
                           value <- v3, priority <- v4, pc <- v5

Zero10 == v10 = 0 /\ v11 = 0 /\ v12 = 0 /\ v13 = 0 /\ v14 = 0
Zero7 == v7 = 0 /\ v8 = 0 /\ v9 = 0 /\ Zero10

Same10 == UNCHANGED <<v10, v11, v12, v13, v14>>
Same7 == UNCHANGED <<v7, v8, v9>> /\ Same10

Init ==
  \/ subject = "alarm" /\ A!Init /\ Zero7
  \/ subject = "mlfqs" /\ M!Init /\ Zero10
  \/ subject = "donation" /\ P!Init
  \/ subject = "monitor" /\ C!Init /\ v6 = 0 /\ Zero7

Next ==
  /\ UNCHANGED subject
  /\ \/ subject = "alarm" /\ A!Next /\ Same7
     \/ subject = "mlfqs" /\ M!Next /\ Same10
     \/ subject = "donation" /\ P!Next
     \/ subject = "monitor" /\ C!Next /\ UNCHANGED v6 /\ Same7

Spec == Init /\ [][Next]_vars

(* What a step of CondVar leaves alone. *)
MonitorOnly == UNCHANGED <<subject, v6>> /\ Same7
-----------------------------------------------------------------------------
(* At every tick and every yield a most urgent thread runs, although one   *)
(* tick may wake several sleepers, and every thread is in one place.       *)
HighestRuns == subject = "alarm" => A!HighestRuns /\ A!InOnePlace


(* cond_signal's wake-up is not lost when it comes between cond_wait's     *)
(* lock_release and its sema_down, nor delivered twice.                    *)
SignalsKept == subject = "monitor" => C!SignalsKept


(* With ticks that keep coming, a ready thread than which none is more     *)
(* urgent runs in the end, though its equals never yield.                  *)
RoundRobin ==
  /\ subject = "alarm"
  /\ []<><<subject = "alarm" /\ A!TimerInterrupt>>_vars
  /\ \/ []<>(subject = "alarm" /\ v1 # Idle)
     \/ []<><<subject = "alarm" /\ A!IdleBlock>>_vars
  => \A t \in Four : (subject = "alarm" /\ A!Urgent(t)) ~> (v1 = t)


(* A thread with the highest base priority that asks for a lock gets it,   *)
(* if threads inside the lock code that are dispatched again and again get *)
(* on with it, holders release and the semaphores keep being upped.        *)
NoInversion ==
  /\ subject = "donation"
  /\ \A t \in Three : SF_v6(subject = "donation" /\ P!Advance(t))
  /\ SF_vars(subject = "donation" /\ UNCHANGED subject /\ \E t \in Three : P!LockRelease(t, l1))
  /\ SF_v3(subject = "donation" /\ P!Upped(s1))
  => (subject = "donation" /\ P!ForemostWaits) ~> (subject = "donation" /\ P!ForemostHolds)

=============================================================================
