---------------------------- MODULE CondVarProofs ----------------------------
(***************************************************************************)
(* Proofs about CondVar, for any threads and priorities.  SignalsKept is   *)
(* not inductive by itself: that sema_up gives a parked thread its first   *)
(* unit needs that it has none.                                            *)
(***************************************************************************)
EXTENDS CondVar, WellFoundedInduction, TLAPS

(* No thread is on the list twice. *)
TypeOK ==
  /\ waiters \in Seq(Threads)
  /\ \A i, j \in 1 .. Len(waiters) : waiters[i] = waiters[j] => i = j
  /\ value \in [Threads -> 0 .. 1]
  /\ priority \in [Threads -> 0 .. PRI_MAX]
  /\ pc \in [Threads -> PCs]

(* A thread blocked in sema_down has no unit. *)
ParkedEmpty == \A t \in Threads : pc[t] = "parked" => value[t] = 0

IInv == TypeOK /\ SignalsKept /\ ParkedEmpty

(* A nonempty set of naturals has a smallest element. *)
LEMMA SmallestExists ==
  ASSUME NEW S \in SUBSET Nat, S # {}
  PROVE  \E x \in S : \A y \in S : x <= y
<1>1. IsWellFoundedOn(OpToRel(<, Nat), Nat) BY NatLessThanWellFounded
<1>2. PICK x \in S : \A y \in S : ~(<<y, x>> \in OpToRel(<, Nat)) BY <1>1, WFMin
<1>3. ASSUME NEW y \in S PROVE x <= y
  <2>1. x \in Nat /\ y \in Nat OBVIOUS
  <2>2. ~(y < x) BY <1>2, <2>1 DEF OpToRel
  <2> QED BY <2>1, <2>2
<1> QED BY <1>3

(* A nonempty set of numbers up to some bound has a greatest element: the  *)
(* distance to the bound has a smallest one.                               *)
LEMMA GreatestExists ==
  ASSUME NEW n \in Nat, NEW S \in SUBSET (0 .. n), S # {}
  PROVE  \E x \in S : \A y \in S : y <= x
<1> DEFINE D == {n - x : x \in S}
<1>1. D \in SUBSET Nat /\ D # {}
  <2>1. \A x \in S : n - x \in Nat OBVIOUS
  <2>2. PICK x \in S : TRUE OBVIOUS
  <2>3. n - x \in D BY <2>2
  <2> QED BY <2>1, <2>3
<1>2. PICK d \in D : \A e \in D : d <= e BY <1>1, SmallestExists
<1>3. PICK x \in S : d = n - x OBVIOUS
<1>4. ASSUME NEW y \in S PROVE y <= x
  <2>1. n - y \in D OBVIOUS
  <2>2. n - x <= n - y BY <1>2, <1>3, <2>1
  <2> QED BY <2>2
<1> QED BY <1>4

(* So Min chooses one of its elements. *)
LEMMA MinInSet ==
  ASSUME NEW S \in SUBSET Nat, S # {}
  PROVE  Min(S) \in S
BY SmallestExists DEF Min

(* list_max finds one of the waiters, if there are any. *)
LEMMA MaxPlaceFound ==
  ASSUME PRI_MAX \in Nat, TypeOK, waiters # <<>>
  PROVE  MaxPlace \in 1 .. Len(waiters)
<1> DEFINE P(i) == sema_waiter_priority(waiters[i])
           S == {P(i) : i \in 1 .. Len(waiters)}
           Best == {i \in DOMAIN waiters : \A j \in DOMAIN waiters : P(j) <= P(i)}
<1>1. Len(waiters) \in Nat /\ Len(waiters) > 0 /\ DOMAIN waiters = 1 .. Len(waiters)
  BY DEF TypeOK
<1>2. \A i \in 1 .. Len(waiters) : P(i) \in 0 .. PRI_MAX
  BY DEF TypeOK, sema_waiter_priority, PRI_MIN
<1>3. S \in SUBSET (0 .. PRI_MAX) /\ S # {}
  BY <1>1, <1>2
<1>4. PICK p \in S : \A q \in S : q <= p
  BY <1>3, GreatestExists
<1>5. PICK i \in 1 .. Len(waiters) : p = P(i)
  BY <1>4
<1>6. i \in Best
  BY <1>1, <1>4, <1>5
<1>7. Best \in SUBSET Nat /\ Best # {}
  BY <1>1, <1>6
<1>8. Min(Best) \in Best
  BY <1>7, MinInSet
<1> QED BY <1>1, <1>8 DEF MaxPlace

(* What list_remove leaves of the list. *)
LEMMA RemoveAtFacts ==
  ASSUME NEW T, NEW s \in Seq(T), NEW i \in 1 .. Len(s)
  PROVE  /\ RemoveAt(s, i) \in Seq(T)
         /\ Len(RemoveAt(s, i)) = Len(s) - 1
         /\ \A k \in 1 .. Len(s) - 1 : RemoveAt(s, i)[k] = IF k < i THEN s[k] ELSE s[k + 1]
<1> DEFINE a == SubSeq(s, 1, i - 1)
           b == SubSeq(s, i + 1, Len(s))
<1>1. Len(s) \in Nat /\ i \in Nat /\ 1 <= i /\ i <= Len(s) OBVIOUS
<1>2. a \in Seq(T) /\ Len(a) = i - 1 /\ \A k \in 1 .. i - 1 : a[k] = s[k]
  BY <1>1
<1>3. b \in Seq(T) /\ Len(b) = Len(s) - i /\ \A k \in 1 .. Len(s) - i : b[k] = s[k + i]
  BY <1>1
<1>4. RemoveAt(s, i) = a \o b BY DEF RemoveAt
<1> HIDE DEF a, b
<1>5. a \o b \in Seq(T) /\ Len(a \o b) = Len(s) - 1
  <2>1. a \o b \in Seq(T) BY <1>2, <1>3
  <2>2. Len(a \o b) = Len(a) + Len(b)
    <3>1. a \in Seq(T) /\ b \in Seq(T) BY <1>2, <1>3
    <3> QED BY <3>1
  <2>3. Len(a) + Len(b) = Len(s) - 1 BY <1>1, <1>2, <1>3
  <2> QED BY <2>1, <2>2, <2>3
<1>6. ASSUME NEW k \in 1 .. Len(s) - 1
      PROVE  (a \o b)[k] = IF k < i THEN s[k] ELSE s[k + 1]
  <2>1. CASE k < i
    BY <1>1, <1>2, <1>3, <2>1
  <2>2. CASE ~(k < i)
    <3>1. k - (i - 1) \in 1 .. Len(s) - i BY <1>1, <2>2
    <3>2. (a \o b)[k] = b[k - (i - 1)] BY <1>1, <1>2, <1>3, <2>2
    <3>3. b[k - (i - 1)] = s[(k - (i - 1)) + i] BY <1>3, <3>1
    <3>4. (k - (i - 1)) + i = k + 1 BY <1>1
    <3> QED BY <2>2, <3>2, <3>3, <3>4
  <2> QED BY <2>1, <2>2
<1> QED BY <1>4, <1>5, <1>6

(* list_remove takes one thread off the list, and keeps the others there   *)
(* once.                                                                   *)
LEMMA RemovedFromList ==
  ASSUME TypeOK, NEW i \in 1 .. Len(waiters), waiters' = RemoveAt(waiters, i)
  PROVE  /\ waiters' \in Seq(Threads)
         /\ \A k, l \in 1 .. Len(waiters') : waiters'[k] = waiters'[l] => k = l
         /\ ToSet(waiters') = ToSet(waiters) \ {waiters[i]}
<1> DEFINE n == Len(waiters)
           from(k) == IF k < i THEN k ELSE k + 1
<1>1. waiters \in Seq(Threads) /\ n \in Nat /\ i \in 1 .. n BY DEF TypeOK
<1>2. /\ waiters' \in Seq(Threads) /\ Len(waiters') = n - 1
      /\ \A k \in 1 .. n - 1 : waiters'[k] = IF k < i THEN waiters[k] ELSE waiters[k + 1]
  BY <1>1, RemoveAtFacts
<1>3. \A k \in 1 .. n - 1 : from(k) \in (1 .. n) \ {i} /\ waiters'[k] = waiters[from(k)]
  BY <1>1, <1>2
<1>4. \A k, l \in 1 .. n - 1 : from(k) = from(l) => k = l BY <1>1
<1>5. \A j \in (1 .. n) \ {i} : \E k \in 1 .. n - 1 : from(k) = j
  <2> SUFFICES ASSUME NEW j \in (1 .. n) \ {i} PROVE \E k \in 1 .. n - 1 : from(k) = j
    OBVIOUS
  <2>1. CASE j < i
    <3>1. j \in 1 .. n - 1 /\ from(j) = j BY <1>1, <2>1
    <3> QED BY <3>1
  <2>2. CASE ~(j < i)
    <3>1. j - 1 \in 1 .. n - 1 /\ from(j - 1) = j BY <1>1, <2>2
    <3> QED BY <3>1
  <2> QED BY <2>1, <2>2
<1> HIDE DEF from
<1>6. \A k, l \in 1 .. n : waiters[k] = waiters[l] => k = l BY DEF TypeOK
<1> HIDE DEF n
<1>7. \A k, l \in 1 .. Len(waiters') : waiters'[k] = waiters'[l] => k = l
  <2> SUFFICES ASSUME NEW k \in 1 .. n - 1, NEW l \in 1 .. n - 1, waiters'[k] = waiters'[l]
               PROVE  k = l
    BY <1>2
  <2>1. waiters[from(k)] = waiters[from(l)] /\ from(k) \in 1 .. n /\ from(l) \in 1 .. n
    BY <1>3
  <2>2. from(k) = from(l) BY <1>6, <2>1
  <2> QED BY <1>4, <2>2
<1>8. /\ ToSet(waiters') = {waiters'[k] : k \in 1 .. n - 1}
      /\ ToSet(waiters) = {waiters[k] : k \in 1 .. n}
  BY <1>1, <1>2 DEF ToSet, n
<1>9. \A k \in 1 .. n - 1 : waiters'[k] \in ToSet(waiters) /\ waiters'[k] # waiters[i]
  BY <1>1, <1>3, <1>6, <1>8
<1>10. \A k \in (1 .. n) \ {i} : waiters[k] \in ToSet(waiters')
  BY <1>3, <1>5, <1>8
<1>11. ToSet(waiters') = ToSet(waiters) \ {waiters[i]}
  BY <1>8, <1>9, <1>10
<1> QED BY <1>2, <1>7, <1>11

(* list_push_back puts a thread that is not on the list there once. *)
LEMMA AddedToList ==
  ASSUME TypeOK, NEW t \in Threads, t \notin ToSet(waiters), waiters' = Append(waiters, t)
  PROVE  /\ waiters' \in Seq(Threads)
         /\ \A k, l \in 1 .. Len(waiters') : waiters'[k] = waiters'[l] => k = l
         /\ ToSet(waiters') = ToSet(waiters) \cup {t}
<1> DEFINE n == Len(waiters)
<1>1. waiters \in Seq(Threads) /\ n \in Nat BY DEF TypeOK
<1>2. /\ waiters' \in Seq(Threads) /\ Len(waiters') = n + 1
      /\ waiters'[n + 1] = t /\ \A k \in 1 .. n : waiters'[k] = waiters[k]
  BY <1>1
<1>3. \A k, l \in 1 .. n : waiters[k] = waiters[l] => k = l BY DEF TypeOK
<1>4. /\ ToSet(waiters') = {waiters'[k] : k \in 1 .. n + 1}
      /\ ToSet(waiters) = {waiters[k] : k \in 1 .. n}
  BY <1>1, <1>2 DEF ToSet
<1> HIDE DEF n
<1>5. \A k \in 1 .. n : waiters[k] # t BY <1>4
<1>6. \A k \in 1 .. n + 1 : k = n + 1 \/ k \in 1 .. n BY <1>1
<1>7. \A k, l \in 1 .. n + 1 : waiters'[k] = waiters'[l] => k = l
  BY <1>2, <1>3, <1>5, <1>6
<1>8. ToSet(waiters') = ToSet(waiters) \cup {t}
  <2>1. n + 1 \in 1 .. n + 1 /\ \A k \in 1 .. n : k \in 1 .. n + 1 BY <1>1
  <2>2. ToSet(waiters') \subseteq ToSet(waiters) \cup {t} BY <1>2, <1>4, <1>6
  <2>3. t \in ToSet(waiters') BY <1>2, <1>4, <2>1
  <2>4. \A k \in 1 .. n : waiters[k] \in ToSet(waiters') BY <1>2, <1>4, <2>1
  <2> QED BY <1>4, <2>2, <2>3, <2>4
<1> QED BY <1>2, <1>7, <1>8
-----------------------------------------------------------------------------
(* The invariant holds initially. *)
LEMMA InitIInv ==
  ASSUME Init
  PROVE  IInv
<1>1. TypeOK BY DEF Init, TypeOK, PCs, PRI_MIN
<1>2. ToSet(waiters) = {} BY DEF Init, ToSet
<1>3. SignalsKept /\ ParkedEmpty BY <1>2 DEF Init, SignalsKept, ParkedEmpty
<1> QED BY <1>1, <1>3 DEF IInv

(* A step that keeps the list, the threads' semaphores and their places    *)
(* in cond_wait.                                                           *)
LEMMA OutsideWait ==
  ASSUME IInv, NEW t \in Threads, NEW label \in PCs \ {"released", "parked", "woken"},
         pc[t] \notin {"released", "parked", "woken"}, Goto(t, label),
         UNCHANGED <<waiters, value, priority>>
  PROVE  IInv'
<1>1. pc' \in [Threads -> PCs] /\ \A u \in Threads : pc'[u] = IF u = t THEN label ELSE pc[u]
  BY DEF IInv, TypeOK, Goto
<1>2. TypeOK' BY <1>1 DEF IInv, TypeOK
<1>3. ToSet(waiters') = ToSet(waiters) BY DEF ToSet
<1>4. SignalsKept' BY <1>1, <1>3 DEF IInv, SignalsKept
<1>5. ParkedEmpty' BY <1>1 DEF IInv, ParkedEmpty
<1> QED BY <1>2, <1>4, <1>5 DEF IInv

(* list_remove and sema_up keep the invariant: the thread chosen waits and *)
(* has no unit yet.                                                        *)
LEMMA WakeKeeps ==
  ASSUME PRI_MAX \in Nat, IInv, NEW t \in Threads, NEW label \in {"in", "broadcast"},
         pc[t] \in {"in", "broadcast"}, waiters # <<>>, WakeMaxWaiter(t, label)
  PROVE  IInv'
<1> DEFINE m == MaxWaiter
<1>1. MaxPlace \in 1 .. Len(waiters) BY MaxPlaceFound DEF IInv
<1>2. m \in ToSet(waiters) /\ m \in Threads BY <1>1 DEF MaxWaiter, ToSet, IInv, TypeOK
<1>3. pc[m] = "parked" \/ pc[m] = "released" BY <1>2 DEF IInv, SignalsKept
<1>4. value[m] = 0 BY <1>2, <1>3 DEF IInv, SignalsKept, ParkedEmpty
<1>5. m # t BY <1>3
<1>6. /\ waiters' \in Seq(Threads)
      /\ \A k, l \in 1 .. Len(waiters') : waiters'[k] = waiters'[l] => k = l
      /\ ToSet(waiters') = ToSet(waiters) \ {m}
  BY <1>1, RemovedFromList DEF WakeMaxWaiter, MaxWaiter, IInv
<1> HIDE DEF m
<1>7. /\ value' = [value EXCEPT ![m] = @ + 1]
      /\ pc' = [pc EXCEPT ![m] = IF @ = "parked" THEN "woken" ELSE @, ![t] = label]
      /\ priority' = priority
  BY DEF WakeMaxWaiter, m
<1>8. \A u \in Threads : value'[u] = IF u = m THEN 1 ELSE value[u]
  BY <1>2, <1>4, <1>7 DEF IInv, TypeOK
<1>9. \A u \in Threads :
        pc'[u] = IF u = t THEN label
                 ELSE IF u = m /\ pc[m] = "parked" THEN "woken" ELSE pc[u]
  BY <1>2, <1>5, <1>7 DEF IInv, TypeOK
<1>10. TypeOK'
  <2>1. value' \in [Threads -> 0 .. 1]
    <3>1. value \in [Threads -> 0 .. 1] BY DEF IInv, TypeOK
    <3>2. value' = [u \in Threads |-> value'[u]] BY <1>7, <3>1
    <3>3. \A u \in Threads : value'[u] \in 0 .. 1 BY <1>8, <3>1
    <3> QED BY <3>2, <3>3
  <2>2. pc' \in [Threads -> PCs] BY <1>7, <1>9 DEF IInv, TypeOK, PCs
  <2> QED BY <1>6, <1>7, <2>1, <2>2 DEF IInv, TypeOK
<1>11. SignalsKept'
  BY <1>2, <1>3, <1>5, <1>6, <1>8, <1>9 DEF IInv, SignalsKept
<1>12. ParkedEmpty'
  BY <1>3, <1>8, <1>9 DEF IInv, ParkedEmpty
<1> QED BY <1>10, <1>11, <1>12 DEF IInv

(* cond_wait keeps the invariant: a thread in the monitor is not on the    *)
(* list.                                                                   *)
LEMMA WaitKeeps ==
  ASSUME IInv, NEW t \in Threads, cond_wait(t)
  PROVE  IInv'
<1>1. /\ pc[t] = "in" /\ value' = [value EXCEPT ![t] = 0] /\ waiters' = Append(waiters, t)
      /\ pc' = [pc EXCEPT ![t] = "released"] /\ priority' = priority
  BY DEF cond_wait, Runs, Goto
<1>2. t \notin ToSet(waiters) BY <1>1 DEF IInv, SignalsKept
<1>3. /\ waiters' \in Seq(Threads)
      /\ \A k, l \in 1 .. Len(waiters') : waiters'[k] = waiters'[l] => k = l
      /\ ToSet(waiters') = ToSet(waiters) \cup {t}
  BY <1>1, <1>2, AddedToList DEF IInv
<1>4. TypeOK' BY <1>1, <1>3 DEF IInv, TypeOK, PCs
<1>5. \A u \in Threads : /\ pc'[u] = IF u = t THEN "released" ELSE pc[u]
                         /\ value'[u] = IF u = t THEN 0 ELSE value[u]
  BY <1>1 DEF IInv, TypeOK
<1>6. SignalsKept' BY <1>3, <1>5 DEF IInv, SignalsKept
<1>7. ParkedEmpty' BY <1>5 DEF IInv, ParkedEmpty
<1> QED BY <1>4, <1>6, <1>7 DEF IInv

(* sema_down keeps the invariant: a thread without a unit was not          *)
(* signalled.                                                              *)
LEMMA DownKeeps ==
  ASSUME IInv, NEW t \in Threads, SemaDown(t)
  PROVE  IInv'
<1>1. waiters' = waiters /\ priority' = priority BY DEF SemaDown
<1>2. ToSet(waiters') = ToSet(waiters) BY <1>1 DEF ToSet
<1>3. pc[t] \in {"released", "woken"} BY DEF SemaDown, Runs
<1>4. value[t] \in 0 .. 1 BY DEF IInv, TypeOK
<1>5. CASE value[t] > 0
  <2>1. value' = [value EXCEPT ![t] = @ - 1] /\ pc' = [pc EXCEPT ![t] = "acquire"]
    BY <1>5 DEF SemaDown, Goto
  <2>2. value[t] = 1 BY <1>4, <1>5
  <2>3. \A u \in Threads : /\ pc'[u] = IF u = t THEN "acquire" ELSE pc[u]
                           /\ value'[u] = IF u = t THEN 0 ELSE value[u]
    BY <2>1, <2>2 DEF IInv, TypeOK
  <2>4. value' = [value EXCEPT ![t] = 0] BY <2>1, <2>2 DEF IInv, TypeOK
  <2>5. TypeOK' BY <1>1, <2>1, <2>4 DEF IInv, TypeOK, PCs
  <2>6. SignalsKept' BY <1>2, <1>3, <2>2, <2>3 DEF IInv, SignalsKept
  <2>7. ParkedEmpty' BY <2>3 DEF IInv, ParkedEmpty
  <2> QED BY <2>5, <2>6, <2>7 DEF IInv
<1>6. CASE ~(value[t] > 0)
  <2>1. value' = value /\ pc' = [pc EXCEPT ![t] = "parked"]
    BY <1>6 DEF SemaDown, Goto
  <2>2. value[t] = 0 BY <1>4, <1>6
  <2>3. \A u \in Threads : pc'[u] = IF u = t THEN "parked" ELSE pc[u]
    BY <2>1 DEF IInv, TypeOK
  <2>4. pc[t] = "released" BY <1>3, <2>2 DEF IInv, SignalsKept
  <2>5. TypeOK' BY <1>1, <2>1 DEF IInv, TypeOK, PCs
  <2>6. SignalsKept' BY <1>2, <2>1, <2>2, <2>3, <2>4 DEF IInv, SignalsKept
  <2>7. ParkedEmpty' BY <2>1, <2>2, <2>3 DEF IInv, ParkedEmpty
  <2> QED BY <2>5, <2>6, <2>7 DEF IInv
<1> QED BY <1>5, <1>6

(* Every step keeps the invariant. *)
LEMMA NextIInv ==
  ASSUME PRI_MAX \in Nat, IInv, [Next]_vars
  PROVE  IInv'
<1>1. ASSUME NEW t \in Threads, Arrive(t) PROVE IInv'
  BY <1>1, OutsideWait DEF Arrive, PCs
<1>2. ASSUME NEW t \in Threads, lock_acquire(t) PROVE IInv'
  BY <1>2, OutsideWait DEF lock_acquire, Runs, PCs
<1>3. ASSUME NEW t \in Threads, lock_release(t) PROVE IInv'
  BY <1>3, OutsideWait DEF lock_release, Runs, PCs
<1>4. ASSUME NEW t \in Threads, cond_signal(t) PROVE IInv'
  BY <1>4, WakeKeeps DEF cond_signal, Runs
<1>5. ASSUME NEW t \in Threads, cond_broadcast(t) PROVE IInv'
  <2>1. CASE Runs(t, "in") /\ Goto(t, "broadcast") /\ UNCHANGED <<owner, waiters, value, priority>>
    BY <2>1, OutsideWait DEF Runs, PCs
  <2>2. CASE Runs(t, "broadcast") /\ waiters # <<>> /\ WakeMaxWaiter(t, "broadcast")
    BY <2>2, WakeKeeps DEF Runs
  <2>3. CASE Runs(t, "broadcast") /\ Goto(t, "in") /\ UNCHANGED <<owner, waiters, value, priority>>
    BY <2>3, OutsideWait DEF Runs, PCs
  <2> QED BY <1>5, <2>1, <2>2, <2>3 DEF cond_broadcast
<1>6. CASE UNCHANGED vars
  <2>1. ToSet(waiters)' = ToSet(waiters) BY <1>6 DEF vars, ToSet
  <2>2. TypeOK' BY <1>6 DEF vars, IInv, TypeOK
  <2>3. SignalsKept' /\ ParkedEmpty' BY <1>6, <2>1 DEF vars, IInv, SignalsKept, ParkedEmpty
  <2> QED BY <2>2, <2>3 DEF IInv
<1> QED BY <1>1, <1>2, <1>3, <1>4, <1>5, <1>6, WaitKeeps, DownKeeps DEF Next, Step

(* cond_signal's wake-up is never lost nor doubled, for any number of      *)
(* threads: a thread in cond_wait is on the list until it is signalled and *)
(* has a unit in its semaphore afterwards.                                 *)
THEOREM SignalsNeverLost ==
  ASSUME PRI_MAX \in Nat
  PROVE  Spec => []SignalsKept
<1>1. Init => IInv BY InitIInv
<1>2. IInv /\ [Next]_vars => IInv' BY NextIInv
<1>3. IInv => SignalsKept BY DEF IInv
<1> QED BY <1>1, <1>2, <1>3, PTL DEF Spec

(* cond_wait has no spurious return, for any number of threads: no step    *)
(* takes a thread on the list back to its lock_acquire.                    *)
THEOREM NoSpuriousReturn ==
  ASSUME PRI_MAX \in Nat
  PROVE  Spec => [][OnlyWhenSignalled]_vars
<1>1. Init => IInv BY InitIInv
<1>2. IInv /\ [Next]_vars => IInv' BY NextIInv
<1>3. ASSUME IInv, Next PROVE OnlyWhenSignalled
  <2> SUFFICES ASSUME NEW t \in ToSet(waiters) PROVE pc'[t] # "acquire"
    BY DEF OnlyWhenSignalled
  <2>1. t \in Threads BY <1>3 DEF IInv, TypeOK, ToSet
  <2>2. pc[t] = "parked" \/ (pc[t] = "released" /\ value[t] = 0)
    BY <1>3, <2>1 DEF IInv, SignalsKept
  <2>3. PICK u \in Threads : Arrive(u) \/ Step(u) BY <1>3 DEF Next
  <2>4. pc \in [Threads -> PCs] BY <1>3 DEF IInv, TypeOK
  <2>5. CASE Arrive(u) BY <2>1, <2>2, <2>4, <2>5 DEF Arrive, Goto
  <2>6. CASE lock_acquire(u) \/ lock_release(u) \/ cond_wait(u)
    BY <2>1, <2>2, <2>4, <2>6 DEF lock_acquire, lock_release, cond_wait, Runs, Goto
  <2>7. CASE SemaDown(u)
    BY <2>1, <2>2, <2>4, <2>7 DEF SemaDown, Runs, Goto
  <2>8. CASE cond_signal(u) \/ cond_broadcast(u)
    BY <2>1, <2>2, <2>4, <2>8 DEF cond_signal, cond_broadcast, WakeMaxWaiter, Runs, Goto
  <2> QED BY <2>3, <2>5, <2>6, <2>7, <2>8 DEF Step
<1> QED BY <1>1, <1>2, <1>3, PTL DEF Spec
=============================================================================
