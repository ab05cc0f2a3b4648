--------------------------- MODULE MCPrioritySynch ---------------------------
(* PrioritySynch on a few interchangeable threads and locks. *)
EXTENDS PrioritySynch, TLC

AnyBases == [Threads -> Priorities]
DistinctBases == {p \in AnyBases : \A t, u \in Threads : p[t] = p[u] => t = u}

OneBase == {CHOOSE p \in DistinctBases : TRUE}
(* One low thread, the others high. *)
LowBase == {p \in AnyBases : /\ \A t \in Threads : p[t] \in {0, PRI_MAX}
                             /\ Cardinality({t \in Threads : p[t] = 0}) = 1}

(* Every place within the lock code and thread_set_priority. *)
LockCode == PCs \ {"run"}

Symmetry == Permutations(Threads) \cup Permutations(Locks)
=============================================================================
