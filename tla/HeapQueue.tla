------------------------------ MODULE HeapQueue ------------------------------
(***************************************************************************)
(* The ready queue driven by every sequence of the operations thread.c and *)
(* synch.c perform on it.  An element is a pointer to a thread, in the     *)
(* heap at most once; its key (the priority) lives in the thread, so it    *)
(* can change while the element is in the heap, and the heap may be out of *)
(* order until heap_rebuild.                                               *)
(***************************************************************************)
EXTENDS ReadyQueue
LOCAL INSTANCE SequencesExt

CONSTANTS Elems,          \* threads
          Keys,           \* priorities
          MAX_HEAP_SIZE

VARIABLES queue,      \* heap->elems[1 .. heap->size] and the entry order
          key,        \* the key stored in each element
          stale       \* history: a key changed inside the heap since the last rebuild

vars == <<queue, key, stale>>

TypeOK ==
  /\ queue \in [elems : Seq(Elems), entered : Seq(Elems)]
  /\ IsInjective(queue.elems)
  /\ key \in [Elems -> Keys]
  /\ stale \in BOOLEAN

Init ==
  /\ queue = EmptyQueue
  /\ key \in [Elems -> Keys]
  /\ stale = FALSE

Push(x) ==
  /\ x \notin InQueue(queue)
  /\ Len(queue.elems) + 1 <= MAX_HEAP_SIZE
  /\ queue' = Enqueue(queue, x, key)
  /\ UNCHANGED <<key, stale>>

Pop ==
  /\ queue.elems # <<>>
  /\ queue' = Dequeue(queue, key)
  /\ stale' = (stale /\ Len(queue.elems) > 1)
  /\ UNCHANGED key

(* A priority is assigned: by its owner when outside the heap, or by a     *)
(* donation to a thread that is in the heap.                               *)
SetKey(x, k) ==
  /\ key' = [key EXCEPT ![x] = k]
  /\ stale' = (stale \/ x \in InQueue(queue))
  /\ UNCHANGED queue

Rebuild ==
  /\ queue' = sort_ready_heap(queue, key)
  /\ stale' = FALSE
  /\ UNCHANGED key

Next ==
  \/ \E x \in Elems : Push(x)
  \/ Pop
  \/ \E x \in Elems, k \in Keys : SetKey(x, k)
  \/ Rebuild

Spec == Init /\ [][Next]_vars
-----------------------------------------------------------------------------
(* Sifting loses no element: after any sequence of pushes, pops and        *)
(* rebuilds, out of order or not, the array holds exactly the elements     *)
(* that were pushed and not popped.                                        *)
SameElements == InQueue(queue) = ToSet(queue.entered)

(* Unless a key changed under the heap's feet, no parent is less than its  *)
(* child; heap_rebuild restores this whatever changes preceded it.         *)
HeapOrdered == stale \/ IsOrdered(queue, key)

(* heap_pop returns the most urgent element, and among equally urgent ones *)
(* the one pushed first: the round-robin order of next_thread_to_run.      *)
PopsMostUrgent ==
  ~ stale =>
    \A x \in InQueue(queue) \ InQueue(queue') : \A y \in InQueue(queue) \ {x} :
      \/ key[y] < key[x]
      \/ /\ key[y] = key[x]
         /\ \E i, j \in DOMAIN queue.entered :
              i < j /\ queue.entered[i] = x /\ queue.entered[j] = y
=============================================================================
