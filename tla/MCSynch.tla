------------------------------- MODULE MCSynch -------------------------------
(* Synch on a few interchangeable threads, locks and semaphores. *)
EXTENDS Synch, TLC

Symmetry == Permutations(Threads) \cup Permutations(Locks)
=============================================================================
