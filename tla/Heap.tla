-------------------------------- MODULE Heap --------------------------------
(***************************************************************************)
(* lib/kernel/heap.c: the binary max-heap behind the ready queue of        *)
(* threads/thread.c and the sleep queue of devices/timer.c.                *)
(*                                                                         *)
(* A heap is the sequence h of elems[1..size]; the comparison the C code   *)
(* stores in heap->less is the set less of the pairs <<a, b>> for which it *)
(* returns true.  The two sifting loops are folds: each pass applies the   *)
(* loop body once, and a `break' moves the index to a value at which the   *)
(* loop's condition is false.                                              *)
(***************************************************************************)
EXTENDS Naturals, Sequences
LOCAL INSTANCE SequencesExt

swap(h, i, j) == [h EXCEPT ![i] = h[j], ![j] = h[i]]

(* One pass of the loop of up_heap: parent and child change places, or the *)
(* loop is left.                                                           *)
UpPass(s, less) ==
  LET parent == s.index \div 2
  IN IF s.index > 1 /\ <<s.elems[parent], s.elems[s.index]>> \in less
     THEN [elems |-> swap(s.elems, parent, s.index), index |-> parent]
     ELSE [s EXCEPT !.index = 1]

up_heap(h, index, less) ==
  FoldLeft(LAMBDA s, x : UpPass(s, less), [elems |-> h, index |-> index], h).elems

(* The larger child of index, the left one on a tie. *)
LargerChild(h, index, less) ==
  LET ch == 2 * index
  IN IF ch < Len(h) /\ <<h[ch], h[ch + 1]>> \in less THEN ch + 1 ELSE ch

DownPass(s, less) ==
  LET ch == LargerChild(s.elems, s.index, less)
  IN IF 2 * s.index <= Len(s.elems) /\ <<s.elems[s.index], s.elems[ch]>> \in less
     THEN [elems |-> swap(s.elems, s.index, ch), index |-> ch]
     ELSE [s EXCEPT !.index = Len(s.elems) + 1]

down_heap(h, index, less) ==
  FoldLeft(LAMBDA s, x : DownPass(s, less), [elems |-> h, index |-> index], h).elems

heap_push(h, elem, less) ==
  up_heap(Append(h, elem), Len(h) + 1, less)

heap_top(h) == h[1]

heap_pop(h, less) ==
  down_heap(Front(swap(h, 1, Len(h))), 1, less)

heap_rebuild(h, less) ==
  FoldRightDomain(LAMBDA i, acc : down_heap(acc, i, less), h, h)

(* What the sifting establishes: no parent is less than its child. *)
IsHeap(h, less) ==
  \A i \in 2 .. Len(h) : <<h[i \div 2], h[i]>> \notin less
=============================================================================
