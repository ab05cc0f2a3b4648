------------------------------ MODULE MCPriority ------------------------------
(***************************************************************************)
(* PrioritySynch on three instances, side by side: subject names the one   *)
(* that a behaviour is about.  "races" has one lock, the constants of this *)
(* module and interrupts everywhere; "donation" has one lock, all base     *)
(* priorities and thread_set_priority; "chain" has two locks.  In the last *)
(* two no interrupt arrives inside the lock code.                          *)
(***************************************************************************)
EXTENDS MCPrioritySynch

CONSTANTS k1, k2    \* the locks of "chain"

VARIABLE subject

allvars == <<subject, vars>>

D == INSTANCE PrioritySynch WITH PRI_MAX <- 2, Bases <- [Threads -> 0 .. 2],
                                 NewPriorities <- 0 .. 2, Uninterrupted <- LockCode
C == INSTANCE PrioritySynch WITH Locks <- {k1, k2}, PRI_MAX <- 2,
                                 Bases <- {p \in [Threads -> 0 .. 2] :
                                             \A t, u \in Threads : p[t] = p[u] => t = u},
                                 Uninterrupted <- LockCode

MCInit ==
  \/ subject = "races" /\ Init
  \/ subject = "donation" /\ D!Init
  \/ subject = "chain" /\ C!Init

MCNext ==
  /\ UNCHANGED subject
  /\ \/ subject = "races" /\ Next
     \/ subject = "donation" /\ D!Next
     \/ subject = "chain" /\ C!Next

MCSpec == MCInit /\ [][MCNext]_allvars

ThreadSymmetry == Permutations(Threads)
-----------------------------------------------------------------------------
(* With an interrupt possible after every statement, the priority          *)
(* scheduler, the heap and donation make choices that Synch leaves open:   *)
(* every step of synch.c and thread.c is a step of Synch or none.          *)
RefinesSynch ==
  /\ subject = "races" => S!Init
  /\ [][subject = "races" => [S!Next]_(S!vars)]_allvars

(* With one lock, the holder runs at least at the priority of every thread *)
(* blocked on the lock, whatever priorities the threads set.               *)
WaitersDonate == subject = "donation" => D!DonationHolds


(* With two locks, a thread about to wait has donated to every thread it   *)
(* waits for, directly or not, and a donation stays with its receiver      *)
(* until the lock it came through is released.                             *)
ChainDonates ==
  subject = "chain" => C!NestedDonation /\ C!DonationReachesHolder
=============================================================================
