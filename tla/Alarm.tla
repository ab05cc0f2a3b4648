-------------------------------- MODULE Alarm --------------------------------
(***************************************************************************)
(* The alarm clock of devices/timer.c on top of the ready queue:           *)
(* timer_sleep, the timer interrupt with timer_wake and thread_tick, the   *)
(* time slice and the idle thread.  Priorities do not change here.         *)
(*                                                                         *)
(* Only differences between a wake_time and the tick counter are ever      *)
(* tested, so the counter is not kept: left[t] is wake_time - ticks.       *)
(***************************************************************************)
EXTENDS ReadyQueue, Integers
LOCAL INSTANCE SequencesExt

CONSTANTS Threads, Idle,
          Bases,         \* the threads' priorities, a set of functions
          SleepTicks,    \* arguments of timer_sleep
          TIME_SLICE

VARIABLES cur, ready,
          sleepers,       \* sleep_thread_heap
          left,           \* ticks until wake_time, of the sleeping threads
          thread_ticks,   \* ticks since the last thread switch
          priority        \* Idle has PRI_MIN

vars == <<cur, ready, sleepers, left, thread_ticks, priority>>

MaxSleep == CHOOSE n \in SleepTicks : \A m \in SleepTicks : m <= n

TypeOK ==
  /\ cur \in Threads \cup {Idle}
  /\ ready \in [elems : Seq(Threads), entered : Seq(Threads)]
  /\ sleepers \in Seq(Threads)
  /\ left \in [Threads -> 0 .. MaxSleep]
  /\ thread_ticks \in 0 .. TIME_SLICE - 1

Init ==
  /\ priority \in {[t \in Threads \cup {Idle} |-> IF t = Idle THEN 0 ELSE b[t]] : b \in Bases}
  /\ cur \in {t \in Threads : \A u \in Threads : priority[u] <= priority[t]}
  /\ ready \in {FoldLeft(LAMBDA q, t : Enqueue(q, t, priority), EmptyQueue, s) :
                  s \in SetToSeqs(Threads \ {cur})}
  /\ sleepers = <<>>
  /\ left = [t \in Threads |-> 0]
  /\ thread_ticks = 0
-----------------------------------------------------------------------------
(* next_thread_to_run and thread_schedule_tail, which starts a time slice. *)
schedule(q) ==
  /\ cur' = IF q.elems = <<>> THEN Idle ELSE heap_top(q.elems)
  /\ ready' = IF q.elems = <<>> THEN q ELSE Dequeue(q, priority)
  /\ thread_ticks' = 0

thread_yield(q) == schedule(IF cur = Idle THEN q ELSE Enqueue(q, cur, priority))

Yield(t) ==
  /\ cur = t
  /\ thread_yield(ready)
  /\ UNCHANGED <<sleepers, left, priority>>

(* The loop of idle: block until the next interrupt. *)
IdleBlock ==
  /\ cur = Idle
  /\ schedule(ready)
  /\ UNCHANGED <<sleepers, left, priority>>

(* Less urgent is what wakes later. *)
cmp_awake_time(l) == {p \in Threads \X Threads : l[p[1]] > l[p[2]]}

(* A negative argument returns at once. *)
TimerSleep(t, n) ==
  LET l == [left EXCEPT ![t] = n]
  IN /\ cur = t
     /\ n >= 0
     /\ left' = l
     /\ sleepers' = heap_push(sleepers, t, cmp_awake_time(l))
     /\ schedule(ready)
     /\ UNCHANGED priority


WakePass_silent(s, l) ==
  IF s.heap = <<>> \/ l[heap_top(s.heap)] > 0 THEN s
  ELSE [heap |-> heap_pop(s.heap, cmp_awake_time(l)),
        queue |-> Enqueue(s.queue, heap_top(s.heap), priority),
        yield |-> s.yield]

(* One pass of the loop of timer_wake: the heap, the ready queue and       *)
(* whether the interrupt is to yield on return.                            *)
WakePass(s, l) ==
  IF s.heap = <<>> \/ l[heap_top(s.heap)] > 0 THEN s
  ELSE [heap |-> heap_pop(s.heap, cmp_awake_time(l)),
        queue |-> Enqueue(s.queue, heap_top(s.heap), priority),
        yield |-> s.yield \/ priority[heap_top(s.heap)] > priority[cur]]

timer_wake(l) ==
  FoldLeft(LAMBDA s, x : WakePass(s, l),
           [heap |-> sleepers, queue |-> ready, yield |-> FALSE], sleepers)

(* thread_tick's test of the time slice. *)
SliceOver == thread_ticks + 1 >= TIME_SLICE

(* timer_interrupt, and intr_handler's thread_yield if one was asked for. *)
TimerInterrupt ==
  LET l == [t \in Threads |-> IF t \in ToSet(sleepers) THEN left[t] - 1 ELSE 0]
      woken == timer_wake(l)
  IN /\ sleepers' = woken.heap
     /\ left' = [t \in Threads |-> IF t \in ToSet(woken.heap) THEN l[t] ELSE 0]
     /\ IF woken.yield \/ SliceOver
        THEN thread_yield(woken.queue)
        ELSE /\ ready' = woken.queue
             /\ thread_ticks' = thread_ticks + 1
             /\ UNCHANGED cur
     /\ UNCHANGED priority

Next ==
  \/ \E t \in Threads : Yield(t) \/ \E n \in SleepTicks : TimerSleep(t, n)
  \/ IdleBlock
  \/ TimerInterrupt

(* Ticks keep coming, and the idle thread runs its loop when dispatched:   *)
(* weak fairness of actions that are enabled always and while cur = Idle,  *)
(* written out as TLC evaluates ENABLED of the heap too slowly.            *)
Fairness ==
  /\ []<><<TimerInterrupt>>_vars
  /\ []<>(cur # Idle) \/ []<><<IdleBlock>>_vars

Spec == Init /\ [][Next]_vars /\ Fairness
-----------------------------------------------------------------------------
(* A thread runs, is ready or sleeps, in one place only, however sleeps of *)
(* several threads end at the same tick.                                   *)
InOnePlace ==
  LET all == sleepers \o ready.elems \o (IF cur = Idle THEN <<>> ELSE <<cur>>)
  IN IsInjective(all) /\ ToSet(all) = Threads

(* A sleeping thread is made ready by the tick its time comes, neither     *)
(* earlier nor later, wherever it is in the heap of sleepers: timer_wake   *)
(* looks at the top only.                                                  *)
SleepsExactly ==
  \A t \in ToSet(sleepers) :
    t \notin ToSet(sleepers') <=> left[t] <= 1 /\ TimerInterrupt

(* No thread that is ready is more urgent than the running one, when a     *)
(* tick woke several threads too; timer_wake compares each woken thread    *)
(* with the running one.                                                   *)
HighestRuns == \A t \in InQueue(ready) : priority[t] <= priority[cur]

Urgent(t) == t \in InQueue(ready) /\ \A u \in Threads : priority[u] <= priority[t]

(* A thread nothing more urgent than which exists runs again and again     *)
(* although its equals never give up the processor, once it is ready.      *)
RoundRobin == \A t \in Threads : Urgent(t) ~> cur = t
=============================================================================
