-------------------------------- MODULE Mlfqs --------------------------------
(***************************************************************************)
(* The multi-level feedback queue scheduler of threads/thread.c: what      *)
(* thread_tick, thread_create and thread_set_nice do when thread_mlfqs is  *)
(* set, over the ready heap.  The constants of the code are scaled down.   *)
(***************************************************************************)
EXTENDS ReadyQueue, FixedPoint
LOCAL INSTANCE SequencesExt
LOCAL INSTANCE FiniteSetsExt

CONSTANTS Threads, Idle, initial_thread,
          PRI_MAX, PRI_DEFAULT,
          TIMER_FREQ,       \* ticks per second
          RECALC,           \* 4 in the code: ticks between computations of priorities
          TIME_SLICE,
          WINDOW,           \* 60 in the code: seconds load_avg looks back
          Nices             \* values of nice

VARIABLES cur, ready, blocked,
          nice, recent_cpu, priority,
          load_avg,
          ticks,            \* modulo TIMER_FREQ
          thread_ticks      \* up to TIME_SLICE

vars == <<cur, ready, blocked, nice, recent_cpu, priority, load_avg, ticks, thread_ticks>>

All == Threads \cup {Idle}
Existing == InQueue(ready) \cup blocked \cup {cur, Idle}   \* all_list

(* thread_update_priority with thread_mlfqs. *)
thread_update_priority(rc, n) ==
  LET p == PRI_MAX - fptoi_round(fp_int_div(rc, 4)) - 2 * n
  IN  IF p > PRI_MAX THEN PRI_MAX ELSE IF p < 0 THEN 0 ELSE p

(* The initial thread is the only one at first. *)
Init ==
  /\ cur = initial_thread
  /\ ready = EmptyQueue /\ blocked = {}
  /\ nice = [t \in All |-> 0]
  /\ recent_cpu = [t \in All |-> 0]
  /\ priority = [t \in All |-> IF t = Idle THEN 0 ELSE PRI_DEFAULT]
  /\ load_avg = 0
  /\ ticks = 0 /\ thread_ticks = 0

schedule(q, pri) ==
  /\ cur' = IF q.elems = <<>> THEN Idle ELSE heap_top(q.elems)
  /\ ready' = IF q.elems = <<>> THEN q ELSE Dequeue(q, pri)
  /\ thread_ticks' = 0

thread_yield(q, pri) == schedule(IF cur = Idle THEN q ELSE Enqueue(q, cur, pri), pri)


update_load_avg(load) ==
  LET eff1 == fp_div(itofp(WINDOW - 1), itofp(WINDOW))
      eff2 == fp_int_div(itofp(1), WINDOW)
      ready_threads_cnt == Len(ready.elems) + IF cur = Idle THEN 0 ELSE 1
  IN  fp_add(fp_mul(eff1, load), fp_int_mul(eff2, ready_threads_cnt))

thread_update_recent_cpu(rc, n, load) ==
  fp_int_add(fp_mul(fp_div(fp_int_mul(load, 2), fp_add(fp_int_mul(load, 2), itofp(1))), rc), n)

(* thread_tick charges the running thread, but never the idle one. *)
Charged == IF cur = Idle THEN recent_cpu ELSE [recent_cpu EXCEPT ![cur] = fp_int_add(@, 1)]


(* The test of the time slice in thread_tick. *)
SliceOver == thread_ticks + 1 >= TIME_SLICE

(* timer_interrupt with thread_tick, and the yield at the end of a slice. *)
TimerInterrupt ==
  LET now == (ticks + 1) % TIMER_FREQ
      pri == IF now % RECALC # 0 THEN priority
             ELSE [t \in All |-> IF t \in Existing THEN thread_update_priority(Charged[t], nice[t])
                                 ELSE priority[t]]
      load == IF now = 0 THEN update_load_avg(load_avg) ELSE load_avg
  IN  /\ ticks' = now
      /\ priority' = pri
      /\ load_avg' = load
      /\ recent_cpu' = IF now # 0 THEN Charged
                       ELSE [t \in All |->
                               IF t \in Existing \ {Idle}
                               THEN thread_update_recent_cpu(Charged[t], nice[t], load)
                               ELSE Charged[t]]
      /\ IF SliceOver
         THEN thread_yield(ready, pri)
         ELSE /\ thread_ticks' = IF thread_ticks < TIME_SLICE THEN thread_ticks + 1
                                  ELSE thread_ticks
              /\ UNCHANGED <<cur, ready>>
      /\ UNCHANGED <<blocked, nice>>

(* thread_create: the new thread inherits nice and recent_cpu, unless the  *)
(* initial thread makes it; the priority computed anew is the creator's.   *)
thread_create(t) ==
  /\ cur # Idle /\ t \notin Existing
  /\ nice' = [nice EXCEPT ![t] = IF cur = initial_thread THEN 0 ELSE nice[cur]]
  /\ recent_cpu' = [recent_cpu EXCEPT ![t] = IF cur = initial_thread THEN 0 ELSE recent_cpu[cur]]
  /\ priority' = [priority EXCEPT ![t] = PRI_DEFAULT,
                                  ![cur] = thread_update_priority(recent_cpu[cur], nice[cur])]
  /\ LET q == Enqueue(ready, t, priority')
     IN  IF PRI_DEFAULT > priority'[cur] THEN thread_yield(q, priority')
         ELSE ready' = q /\ UNCHANGED <<cur, thread_ticks>>
  /\ UNCHANGED <<blocked, load_avg, ticks>>

thread_set_nice(n) ==
  /\ cur # Idle
  /\ nice' = [nice EXCEPT ![cur] = n]
  /\ priority' = [priority EXCEPT ![cur] = thread_update_priority(recent_cpu[cur], n)]
  /\ thread_yield(ready, priority')
  /\ UNCHANGED <<blocked, recent_cpu, load_avg, ticks>>

thread_block ==
  /\ cur # Idle
  /\ blocked' = blocked \cup {cur}
  /\ schedule(ready, priority)
  /\ UNCHANGED <<nice, recent_cpu, priority, load_avg, ticks>>

(* An interrupt handler or the running thread wakes a thread up. *)
thread_unblock(t) ==
  /\ t \in blocked
  /\ blocked' = blocked \ {t}
  /\ ready' = Enqueue(ready, t, priority)
  /\ UNCHANGED <<cur, nice, recent_cpu, priority, load_avg, ticks, thread_ticks>>

(* The loop of the idle thread, which blocks until the next interrupt. *)
idle ==
  /\ cur = Idle
  /\ schedule(ready, priority)
  /\ UNCHANGED <<blocked, nice, recent_cpu, priority, load_avg, ticks>>

Next ==
  \/ TimerInterrupt \/ thread_block \/ idle
  \/ \E t \in Threads : thread_create(t) \/ thread_unblock(t)
  \/ \E n \in Nices : thread_set_nice(n)

(* Ticks keep coming, and the idle thread runs its loop when dispatched:   *)
(* weak fairness of actions that are enabled always and while cur = Idle.  *)
Fairness ==
  /\ []<><<TimerInterrupt>>_vars
  /\ []<>(cur # Idle) \/ []<><<idle>>_vars

Spec == Init /\ [][Next]_vars /\ Fairness

(***************************************************************************)
(* Properties.                                                             *)
(***************************************************************************)
(* load_avg is an average: it never exceeds the number of threads that     *)
(* there are, so that neither it nor 100 times it overflows.               *)
LoadAvgBounded == 0 <= load_avg /\ load_avg <= itofp(Cardinality(Existing \ {Idle}))

(* recent_cpu stays within what one second of running, and nice, can add   *)
(* to a value that decays by 2 load / (2 load + 1) each second.            *)
RecentCpuBounded ==
  \A t \in Threads : LET most == TIMER_FREQ + Max(Nices \cup {0})
                     IN  recent_cpu[t] <= itofp(most * (2 * Cardinality(Threads) + 1))

IsReady(t) == t \in InQueue(ready)


(* "At any given time, the scheduler chooses a thread from the             *)
(* highest-priority non-empty queue": a thread that is given the CPU has   *)
(* no lower priority than one left ready.                                  *)
HighestChosen ==
  [][cur' # cur /\ cur' # Idle =>
       \A t \in InQueue(ready') : priority'[t] <= priority'[cur']]_vars

=============================================================================
