------------------------------ MODULE ReadyQueue ------------------------------
(***************************************************************************)
(* ready_heap as threads/thread.c uses it: the heap of pointers to ready   *)
(* threads, ordered by priority and, among equals, by entry_ord, the value *)
(* heap_entry_count gave at the push.  Only the relative entry_ord of      *)
(* threads in the heap is ever compared, so it is kept as the sequence of  *)
(* these threads in push order.  pri gives the priorities at the time of   *)
(* the operation.                                                          *)
(***************************************************************************)
EXTENDS Heap
LOCAL INSTANCE SequencesExt

EmptyQueue == [elems |-> <<>>, entered |-> <<>>]

InQueue(q) == ToSet(q.elems)

(* A variant that lets the thread that entered last go first. *)
cmp_thread_priority_heap_lifo(pri, entered) ==
  {p \in ToSet(entered) \X ToSet(entered) :
     \/ pri[p[1]] < pri[p[2]]
     \/ /\ pri[p[1]] = pri[p[2]]
        /\ \E i, j \in DOMAIN entered : i < j /\ p = <<entered[i], entered[j]>>}

(* The pairs of a less urgent and a more urgent thread; of two equally     *)
(* urgent ones the one that entered later is less urgent.                  *)
cmp_thread_priority_heap(pri, entered) ==
  {p \in ToSet(entered) \X ToSet(entered) :
     \/ pri[p[1]] < pri[p[2]]
     \/ /\ pri[p[1]] = pri[p[2]]
        /\ \E i, j \in DOMAIN entered : i > j /\ p = <<entered[i], entered[j]>>}

(* A variant that does not sift up. *)
Enqueue_unsifted(q, t, pri) ==
  [elems |-> Append(q.elems, t), entered |-> Append(q.entered, t)]

(* heap_entry_count and heap_push, as in thread_unblock and thread_yield. *)
Enqueue(q, t, pri) ==
  LET entered == Append(q.entered, t)
  IN [elems |-> heap_push(q.elems, t, cmp_thread_priority_heap(pri, entered)),
      entered |-> entered]

(* The queue after next_thread_to_run popped its top. *)
Dequeue(q, pri) ==
  [elems |-> heap_pop(q.elems, cmp_thread_priority_heap(pri, q.entered)),
   entered |-> Remove(q.entered, heap_top(q.elems))]

sort_ready_heap(q, pri) ==
  [q EXCEPT !.elems = heap_rebuild(@, cmp_thread_priority_heap(pri, q.entered))]

IsOrdered(q, pri) == IsHeap(q.elems, cmp_thread_priority_heap(pri, q.entered))
=============================================================================
