------------------------------- MODULE LockSpec -------------------------------
(***************************************************************************)
(* What the comments of synch.c promise of a lock, with no scheduler and   *)
(* no semaphore: "a lock can only be owned by a single thread at a time",  *)
(* and "the same thread must both acquire and release it".                 *)
(***************************************************************************)
CONSTANTS Threads, Locks, NULL

VARIABLE owner

Init == owner = [l \in Locks |-> NULL]

Acquire(t, l) ==
  /\ owner[l] = NULL
  /\ owner' = [owner EXCEPT ![l] = t]

Release(t, l) ==
  /\ owner[l] = t
  /\ owner' = [owner EXCEPT ![l] = NULL]

Next == \E t \in Threads, l \in Locks : Acquire(t, l) \/ Release(t, l)

Spec == Init /\ [][Next]_owner
=============================================================================
