----------------------------- MODULE SynchProofs -----------------------------
(***************************************************************************)
(* Proofs of the invariants of Synch, for any finite set of threads and    *)
(* any sets of locks and semaphores.                                       *)
(*                                                                         *)
(* The inductive invariant falls into three parts that rest on different   *)
(* variables: the queues (cur, status, ready, waiters), the locks (value,  *)
(* holder, holding, pc, obj) and the wake-ups (value, waiters, pc, obj).   *)
(***************************************************************************)
EXTENDS Synch, FiniteSetTheorems, TLAPS

(* A thread is on a wait list only inside sema_down on that semaphore. *)
WaitersAtDown ==
  \A t \in Threads, o \in Objects :
    t \in waiters[o] => pc[t] = "down" /\ obj[t] = o

(* A thread does not hold the lock of the call it is in. *)
ObjNotHeld ==
  \A t \in Threads : pc[t] \in LockPCs \cup {"down"} => obj[t] \notin holding[t]

QueueInv == OneQueuePerThread /\ WaitersAtDown

(* The first half of HolderNamesOwner, from which the second follows. *)
HolderHolds ==
  \A l \in Locks, t \in Threads :
    holder[l] = t <=> l \in holding[t] \/ (pc[t] = "add_held" /\ obj[t] = l)

LockInv == ObjNotHeld /\ MutualExclusion /\ HolderHolds

-----------------------------------------------------------------------------
Statuses == [Threads \cup {Idle} -> {"running", "ready", "blocked"}]

(* schedule keeps the types of the variables it assigns. *)
LEMMA ScheduleType ==
  ASSUME NEW r \in SUBSET Threads, NEW st \in Statuses, schedule(r, st)
  PROVE  cur' \in Threads \cup {Idle} /\ ready' \in SUBSET Threads /\ status' \in Statuses
  BY SynchAssumption DEF schedule, Statuses

(* What sema_up wakes waits for that semaphore. *)
LEMMA WakeableType ==
  ASSUME TypeOK, NEW o \in Objects, NEW W \in Wakeable(o)
  PROVE  W \in SUBSET waiters[o] /\ W \in SUBSET Threads /\ MadeReady(W) \in Statuses
  BY DEF TypeOK, Wakeable, MadeReady, Statuses

(* Every step keeps the types: in particular a semaphore's value never     *)
(* goes below zero.                                                        *)
LEMMA TypeStep == TypeOK /\ [Next]_vars => TypeOK'
<1> SUFFICES ASSUME TypeOK, [Next]_vars
             PROVE  TypeOK'
  OBVIOUS
<1> USE SynchAssumption DEF TypeOK, PCs, LockPCs, Goto
<1>1. CASE Preempt
  BY <1>1 DEF Preempt, thread_yield, schedule
<1>2. CASE IdleBlock
  BY <1>2 DEF IdleBlock, thread_block, schedule
<1>3. ASSUME NEW s \in Semas, IntrSemaUp(s)
      PROVE  TypeOK'
  <2>1. PICK W \in Wakeable(s) : sema_up(s, W) /\ thread_yield(ready \cup W, MadeReady(W))
    BY <1>3 DEF IntrSemaUp
  <2>2. W \in SUBSET Threads /\ MadeReady(W) \in Statuses
    BY WakeableType DEF Objects
  <2>3. /\ cur' \in Threads \cup {Idle}
        /\ ready' \in SUBSET Threads
        /\ status' \in Statuses
    <3>1. [MadeReady(W) EXCEPT ![cur] = "ready"] \in Statuses
      BY <2>2 DEF Statuses
    <3>2. (IF cur = Idle THEN ready \cup W ELSE ready \cup W \cup {cur}) \in SUBSET Threads
      BY <2>2
    <3>3. QED
      BY <2>1, <3>1, <3>2, ScheduleType DEF thread_yield
  <2>4. QED
    BY <1>3, <2>1, <2>3 DEF IntrSemaUp, sema_up, Statuses, Objects
<1>4. ASSUME NEW t \in Threads, NEW s \in Semas, SemaDown(t, s)
      PROVE  TypeOK'
  BY <1>4 DEF SemaDown, sema_down, thread_block, schedule, Objects
<1>5. ASSUME NEW t \in Threads, NEW s \in Semas, PlainSemaUp(t, s)
      PROVE  TypeOK'
  BY <1>5 DEF PlainSemaUp, SemaUp, sema_up, Wakeable, MadeReady, Objects
<1>6. ASSUME NEW t \in Threads, NEW l \in Locks, LockAcquire(t, l)
      PROVE  TypeOK'
  BY <1>6 DEF LockAcquire, Objects
<1>7. ASSUME NEW t \in Threads, NEW l \in Locks, LockRelease(t, l)
      PROVE  TypeOK'
  BY <1>7 DEF LockRelease, Objects
<1>8. ASSUME NEW t \in Threads, Resume(t)
      PROVE  TypeOK'
  BY <1>8 DEF Resume, sema_down, thread_block, schedule, Objects
<1>9. ASSUME NEW t \in Threads, Yield(t)
      PROVE  TypeOK'
  BY <1>9 DEF Yield, thread_yield, schedule
<1>10. ASSUME NEW t \in Threads, SetHolder(t)
       PROVE  TypeOK'
  BY <1>10 DEF SetHolder
<1>11. ASSUME NEW t \in Threads, AddHeld(t)
       PROVE  TypeOK'
  BY <1>11 DEF AddHeld
<1>12. ASSUME NEW t \in Threads, LockDown(t)
       PROVE  TypeOK'
  BY <1>12 DEF LockDown, sema_down, thread_block, schedule, Objects
<1>13. ASSUME NEW t \in Threads, Own(t)
       PROVE  TypeOK'
  BY <1>13 DEF Own
<1>14. ASSUME NEW t \in Threads, LockUp(t)
       PROVE  TypeOK'
  BY <1>14 DEF LockUp, SemaUp, sema_up, Wakeable, MadeReady, Objects
<1>15. CASE UNCHANGED vars
  BY <1>15 DEF vars
<1> HIDE DEF TypeOK, PCs, LockPCs, Goto
<1>16. QED
  BY <1>1, <1>2, <1>3, <1>4, <1>5, <1>6, <1>7, <1>8, <1>9, <1>10, <1>11,
     <1>12, <1>13, <1>14, <1>15 DEF Next

(* The lock part of the invariant is inductive by itself: it rests only on *)
(* who took the unit of each lock's semaphore.                             *)
LEMMA LockInvStep == TypeOK /\ LockInv /\ [Next]_vars => LockInv'
<1> SUFFICES ASSUME TypeOK, LockInv, [Next]_vars
             PROVE  LockInv'
  OBVIOUS
<1> USE SynchAssumption
    DEF TypeOK, LockInv, ObjNotHeld, MutualExclusion, HolderHolds, Owns, PCs,
        LockPCs, Objects, Goto
<1>1. CASE Preempt
  BY <1>1 DEF Preempt
<1>2. CASE IdleBlock
  BY <1>2 DEF IdleBlock
<1>3. ASSUME NEW s \in Semas, IntrSemaUp(s)
      PROVE  LockInv'
  BY <1>3 DEF IntrSemaUp, sema_up
<1>4. ASSUME NEW t \in Threads, NEW s \in Semas, SemaDown(t, s)
      PROVE  LockInv'
  <2>1. CASE value[s] > 0
    BY <1>4, <2>1 DEF SemaDown, sema_down
  <2>2. CASE value[s] = 0
    BY <1>4, <2>2 DEF SemaDown, sema_down
  <2>3. QED
    BY <1>4, <2>1, <2>2 DEF SemaDown, sema_down
<1>5. ASSUME NEW t \in Threads, NEW s \in Semas, PlainSemaUp(t, s)
      PROVE  LockInv'
  BY <1>5 DEF PlainSemaUp, SemaUp, sema_up
<1>6. ASSUME NEW t \in Threads, NEW l \in Locks, LockAcquire(t, l)
      PROVE  LockInv'
  <2>1. CASE value[l] > 0
    BY <1>6, <2>1 DEF LockAcquire
  <2>2. CASE value[l] = 0
    BY <1>6, <2>2 DEF LockAcquire
  <2>3. QED
    BY <1>6, <2>1, <2>2 DEF LockAcquire
<1>7. ASSUME NEW t \in Threads, NEW l \in Locks, LockRelease(t, l)
      PROVE  LockInv'
  BY <1>7 DEF LockRelease
<1>8. ASSUME NEW t \in Threads, Resume(t)
      PROVE  LockInv'
  BY <1>8 DEF Resume, sema_down
<1>9. ASSUME NEW t \in Threads, Yield(t)
      PROVE  LockInv'
  BY <1>9 DEF Yield
<1>10. ASSUME NEW t \in Threads, SetHolder(t)
       PROVE  LockInv'
  BY <1>10 DEF SetHolder
<1>11. ASSUME NEW t \in Threads, AddHeld(t)
       PROVE  LockInv'
  BY <1>11 DEF AddHeld
<1>12. ASSUME NEW t \in Threads, LockDown(t)
       PROVE  LockInv'
  BY <1>12 DEF LockDown, sema_down
<1>13. ASSUME NEW t \in Threads, Own(t)
       PROVE  LockInv'
  BY <1>13 DEF Own
<1>14. ASSUME NEW t \in Threads, LockUp(t)
       PROVE  LockInv'
  BY <1>14 DEF LockUp, SemaUp, sema_up
<1>15. CASE UNCHANGED vars
  BY <1>15 DEF vars
<1> HIDE DEF TypeOK, LockInv, ObjNotHeld, MutualExclusion, HolderHolds, Owns, PCs,
             LockPCs, Objects, Goto
<1>16. QED
  BY <1>1, <1>2, <1>3, <1>4, <1>5, <1>6, <1>7, <1>8, <1>9, <1>10, <1>11,
     <1>12, <1>13, <1>14, <1>15 DEF Next

(* The queue part: a thread moves between ready queue, wait list and       *)
(* processor only inside the interrupts-off sections of thread.c.          *)
LEMMA QueueInvStep == TypeOK /\ QueueInv /\ [Next]_vars => QueueInv'
<1> SUFFICES ASSUME TypeOK, QueueInv, [Next]_vars
             PROVE  QueueInv'
  OBVIOUS
<1> USE SynchAssumption
    DEF TypeOK, QueueInv, OneQueuePerThread, WaitersAtDown, PCs, LockPCs, Objects, Goto
<1>1. CASE Preempt
  BY <1>1 DEF Preempt, thread_yield, schedule, InterruptsOn
<1>2. CASE IdleBlock
  BY <1>2 DEF IdleBlock, thread_block, schedule
<1>3. ASSUME NEW s \in Semas, IntrSemaUp(s)
      PROVE  QueueInv'
  <2>1. PICK W \in Wakeable(s) : sema_up(s, W) /\ thread_yield(ready \cup W, MadeReady(W))
    BY <1>3 DEF IntrSemaUp
  <2>2. W \in SUBSET waiters[s] /\ W \in SUBSET Threads /\ MadeReady(W) \in Statuses
    BY WakeableType
  <2> DEFINE r == IF cur = Idle THEN ready \cup W ELSE ready \cup W \cup {cur}
             st == [MadeReady(W) EXCEPT ![cur] = "ready"]
  <2>3. PICK next \in (IF r = {} THEN {Idle} ELSE r) :
          cur' = next /\ ready' = r \ {next} /\ status' = [st EXCEPT ![next] = "running"]
    BY <2>1 DEF thread_yield, schedule
  <2>4. /\ waiters' = [waiters EXCEPT ![s] = @ \ W]
        /\ pc' = pc /\ obj' = obj
    BY <1>3, <2>1 DEF IntrSemaUp, sema_up
  <2>5. \A t \in Threads \cup {Idle} :
          status'[t] = IF t = next THEN "running"
                       ELSE IF t = cur \/ t \in W THEN "ready" ELSE status[t]
    BY <2>2, <2>3 DEF MadeReady, Statuses
  <2>6. WaitersAtDown'
    BY <2>4
  <2>7. OneQueuePerThread'
    <3>a. /\ next \in Threads \cup {Idle}
          /\ \A t \in W : status[t] = "blocked" /\ t # cur
      BY <2>2, <2>3
    <3>1. \A t \in Threads \cup {Idle} : status'[t] = "running" <=> t = cur'
      <4> HIDE DEF r, st
      <4> QED BY <2>3, <2>5, <3>a
    <3>2. \A t \in Threads : t \in ready' <=> status'[t] = "ready"
      <4>1. \A t \in Threads : t \in r <=> t \in ready \/ t \in W \/ t = cur
        OBVIOUS
      <4> HIDE DEF r, st
      <4>2. QED
        BY <2>3, <2>5, <3>a, <4>1
    <3>3. \A t \in Threads : status'[t] = "blocked" => \E o \in Objects : t \in waiters'[o]
      BY <2>2, <2>3, <2>4, <2>5
    <3>4. \A t \in Threads, o \in Objects :
            t \in waiters'[o] => /\ status'[t] = "blocked"
                                /\ \A p \in Objects : t \in waiters'[p] => p = o
      <4> SUFFICES ASSUME NEW t \in Threads, NEW o \in Objects, t \in waiters'[o]
                   PROVE  /\ status'[t] = "blocked"
                          /\ \A p \in Objects : t \in waiters'[p] => p = o
        OBVIOUS
      <4>1. /\ t \in waiters[o] /\ t \notin W
            /\ \A p \in Objects : t \in waiters'[p] => t \in waiters[p]
        BY <2>2, <2>4
      <4>2. status[t] = "blocked" /\ t \notin r
        BY <4>1
      <4> HIDE DEF r, st
      <4>3. QED
        BY <2>3, <2>5, <4>1, <4>2
    <3>5. QED
      BY <3>1, <3>2, <3>3, <3>4
  <2>8. QED
    BY <2>6, <2>7
<1>4. ASSUME NEW t \in Threads, NEW s \in Semas, SemaDown(t, s)
      PROVE  QueueInv'
  BY <1>4 DEF SemaDown, sema_down, thread_block, schedule
<1>5. ASSUME NEW t \in Threads, NEW s \in Semas, PlainSemaUp(t, s)
      PROVE  QueueInv'
  BY <1>5 DEF PlainSemaUp, SemaUp, sema_up, Wakeable, MadeReady
<1>6. ASSUME NEW t \in Threads, NEW l \in Locks, LockAcquire(t, l)
      PROVE  QueueInv'
  BY <1>6 DEF LockAcquire
<1>7. ASSUME NEW t \in Threads, NEW l \in Locks, LockRelease(t, l)
      PROVE  QueueInv'
  BY <1>7 DEF LockRelease
<1>8. ASSUME NEW t \in Threads, Resume(t)
      PROVE  QueueInv'
  BY <1>8 DEF Resume, sema_down, thread_block, schedule
<1>9. ASSUME NEW t \in Threads, Yield(t)
      PROVE  QueueInv'
  BY <1>9 DEF Yield, thread_yield, schedule
<1>10. ASSUME NEW t \in Threads, SetHolder(t)
       PROVE  QueueInv'
  BY <1>10 DEF SetHolder
<1>11. ASSUME NEW t \in Threads, AddHeld(t)
       PROVE  QueueInv'
  BY <1>11 DEF AddHeld
<1>12. ASSUME NEW t \in Threads, LockDown(t)
       PROVE  QueueInv'
  BY <1>12 DEF LockDown, sema_down, thread_block, schedule
<1>13. ASSUME NEW t \in Threads, Own(t)
       PROVE  QueueInv'
  BY <1>13 DEF Own
<1>14. ASSUME NEW t \in Threads, LockUp(t)
       PROVE  QueueInv'
  BY <1>14 DEF LockUp, SemaUp, sema_up, Wakeable, MadeReady
<1>15. CASE UNCHANGED vars
  BY <1>15 DEF vars
<1>16. QED
  BY <1>1, <1>2, <1>3, <1>4, <1>5, <1>6, <1>7, <1>8, <1>9, <1>10, <1>11,
     <1>12, <1>13, <1>14, <1>15 DEF Next

(* The woken threads form a finite set, before and after a step. *)
LEMMA WokenFinite ==
  ASSUME NEW o
  PROVE  /\ IsFiniteSet(Woken(o)) /\ Cardinality(Woken(o)) \in Nat
         /\ IsFiniteSet(Woken(o)') /\ Cardinality(Woken(o)') \in Nat
<1>1. Woken(o) \in SUBSET Threads /\ Woken(o)' \in SUBSET Threads
  BY DEF Woken
<1>2. QED
  BY <1>1, SynchAssumption, FS_Subset, FS_CardinalityType

(* One turn of the loop of sema_down keeps a woken thread for every unit:  *)
(* the thread that takes a unit was itself woken, or was not waiting; one  *)
(* that queues up saw no unit.                                             *)
LEMMA DownKeepsWakeups ==
  ASSUME TypeOK, QueueInv, NoLostWakeup, NEW t \in Threads, NEW o \in Objects,
         NEW label \in PCs \ {"down"}, NEW o1,
         cur = t, pc[t] = "down" => obj[t] = o, sema_down(t, o, label, o1)
  PROVE  NoLostWakeup'
<1> SUFFICES ASSUME NEW p \in Objects, waiters'[p] # {}
             PROVE  Cardinality(Woken(p)') >= value'[p]
  BY DEF NoLostWakeup
<1> USE DEF TypeOK, Goto
<1>1. t \notin waiters[o]
  BY DEF QueueInv, OneQueuePerThread
<1>2. CASE p # o
  <2>1. waiters'[p] = waiters[p] /\ value'[p] = value[p]
    BY <1>2 DEF sema_down
  <2>2. Woken(p)' = Woken(p)
    BY <1>2, <2>1 DEF sema_down, Woken
  <2>3. QED
    BY <2>1, <2>2 DEF NoLostWakeup
<1>3. CASE p = o /\ value[o] > 0
  <2>1. waiters'[o] = waiters[o] /\ value'[o] = value[o] - 1
    BY <1>3 DEF sema_down
  <2>2. Cardinality(Woken(o)) >= value[o]
    BY <1>3, <2>1 DEF NoLostWakeup
  <2>3. Woken(o)' = Woken(o) \ {t}
    BY <1>3, <2>1 DEF sema_down, Woken
  <2>4. Cardinality(Woken(o)') >= Cardinality(Woken(o)) - 1
    <3>1. Cardinality(Woken(o) \ {t}) = IF t \in Woken(o) THEN Cardinality(Woken(o)) - 1
                                                          ELSE Cardinality(Woken(o))
      BY WokenFinite, FS_RemoveElement
    <3>2. Cardinality(Woken(o)) \in Nat
      BY WokenFinite
    <3>3. QED
      BY <2>3, <3>1, <3>2
  <2>5. QED
    BY <1>3, <2>1, <2>2, <2>4, WokenFinite
<1>4. CASE p = o /\ value[o] = 0
  BY <1>4, WokenFinite DEF sema_down
<1>5. QED
  BY <1>2, <1>3, <1>4

(* sema_up adds one unit and, when a thread waits, one woken thread. *)
LEMMA UpKeepsWakeups ==
  ASSUME TypeOK, QueueInv, NoLostWakeup, NEW o \in Objects, NEW W \in Wakeable(o),
         sema_up(o, W),
         \A t \in Threads : IF pc[t] = "down" THEN pc'[t] = "down" /\ obj'[t] = obj[t]
                                              ELSE pc'[t] # "down"
  PROVE  NoLostWakeup'
<1> SUFFICES ASSUME NEW p \in Objects, waiters'[p] # {}
             PROVE  Cardinality(Woken(p)') >= value'[p]
  BY DEF NoLostWakeup
<1> USE DEF TypeOK
<1>1. CASE p # o
  <2>1. waiters'[p] = waiters[p] /\ value'[p] = value[p]
    BY <1>1 DEF sema_up
  <2>2. Woken(p)' = Woken(p)
    BY <1>1, <2>1 DEF Woken
  <2>3. QED
    BY <2>1, <2>2 DEF NoLostWakeup
<1>2. CASE p = o
  <2>1. waiters'[o] = waiters[o] \ W /\ value'[o] = value[o] + 1
    BY DEF sema_up
  <2>2. PICK w \in waiters[o] : W = {w}
    BY <1>2, <2>1 DEF Wakeable
  <2>3. pc[w] = "down" /\ obj[w] = o /\ w \in Threads
    BY DEF QueueInv, WaitersAtDown
  <2>4. Woken(o)' = Woken(o) \cup {w}
    BY <2>1, <2>2, <2>3 DEF Woken
  <2>5. w \notin Woken(o)
    BY DEF Woken
  <2>6. Cardinality(Woken(o)') = Cardinality(Woken(o)) + 1
    BY <2>4, <2>5, WokenFinite, FS_AddElement
  <2>7. Cardinality(Woken(o)) >= value[o]
    BY <2>2 DEF NoLostWakeup
  <2>8. QED
    BY <1>2, <2>1, <2>6, <2>7, WokenFinite
<1>3. QED
  BY <1>1, <1>2

(* A step that adds no unit, changes no wait list and neither enters nor   *)
(* leaves the wait in sema_down keeps the wake-ups.                        *)
LEMMA ElsewhereKeepsWakeups ==
  ASSUME TypeOK, NoLostWakeup, UNCHANGED waiters,
         \A o \in Objects : value'[o] \in Nat /\ value'[o] <= value[o],
         \A t \in Threads : IF pc[t] = "down" THEN pc'[t] = "down" /\ obj'[t] = obj[t]
                                              ELSE pc'[t] # "down"
  PROVE  NoLostWakeup'
<1>1. \A o \in Objects : Woken(o)' = Woken(o)
  BY DEF Woken
<1>2. QED
  BY <1>1, WokenFinite DEF NoLostWakeup, TypeOK

(* The wake-up part of the invariant, on top of the queue part. *)
LEMMA WakeupStep == TypeOK /\ QueueInv /\ NoLostWakeup /\ [Next]_vars => NoLostWakeup'
<1> SUFFICES ASSUME TypeOK, QueueInv, NoLostWakeup, [Next]_vars
             PROVE  NoLostWakeup'
  OBVIOUS
<1>1. CASE Preempt
  BY <1>1, ElsewhereKeepsWakeups DEF Preempt, Goto, TypeOK
<1>2. CASE IdleBlock
  BY <1>2, ElsewhereKeepsWakeups DEF IdleBlock, Goto, TypeOK
<1>3. ASSUME NEW s \in Semas, IntrSemaUp(s)
      PROVE  NoLostWakeup'
  <2>1. PICK W \in Wakeable(s) : sema_up(s, W)
    BY <1>3 DEF IntrSemaUp
  <2>2. QED
    BY <1>3, <2>1, UpKeepsWakeups DEF IntrSemaUp, Objects
<1>4. ASSUME NEW t \in Threads, NEW s \in Semas, SemaDown(t, s)
      PROVE  NoLostWakeup'
  BY <1>4, DownKeepsWakeups DEF SemaDown, PCs, Objects
<1>5. ASSUME NEW t \in Threads, NEW s \in Semas, PlainSemaUp(t, s)
      PROVE  NoLostWakeup'
  <2>1. PICK W \in Wakeable(s) : sema_up(s, W)
    BY <1>5 DEF PlainSemaUp, SemaUp
  <2>2. QED
    BY <1>5, <2>1, UpKeepsWakeups DEF PlainSemaUp, SemaUp, Goto, TypeOK, Objects
<1>6. ASSUME NEW t \in Threads, NEW l \in Locks, LockAcquire(t, l)
      PROVE  NoLostWakeup'
  BY <1>6, ElsewhereKeepsWakeups DEF LockAcquire, Goto, TypeOK, Objects
<1>7. ASSUME NEW t \in Threads, NEW l \in Locks, LockRelease(t, l)
      PROVE  NoLostWakeup'
  BY <1>7, ElsewhereKeepsWakeups DEF LockRelease, Goto, TypeOK
<1>8. ASSUME NEW t \in Threads, Resume(t)
      PROVE  NoLostWakeup'
  BY <1>8, DownKeepsWakeups DEF Resume, PCs, TypeOK
<1>9. ASSUME NEW t \in Threads, Yield(t)
      PROVE  NoLostWakeup'
  BY <1>9, ElsewhereKeepsWakeups DEF Yield, Goto, TypeOK
<1>10. ASSUME NEW t \in Threads, SetHolder(t)
       PROVE  NoLostWakeup'
  BY <1>10, ElsewhereKeepsWakeups DEF SetHolder, Goto, TypeOK
<1>11. ASSUME NEW t \in Threads, AddHeld(t)
       PROVE  NoLostWakeup'
  BY <1>11, ElsewhereKeepsWakeups DEF AddHeld, Goto, TypeOK
<1>12. ASSUME NEW t \in Threads, LockDown(t)
       PROVE  NoLostWakeup'
  BY <1>12, DownKeepsWakeups DEF LockDown, PCs, LockPCs, TypeOK, Objects
<1>13. ASSUME NEW t \in Threads, Own(t)
       PROVE  NoLostWakeup'
  BY <1>13, ElsewhereKeepsWakeups DEF Own, Goto, TypeOK
<1>14. ASSUME NEW t \in Threads, LockUp(t)
       PROVE  NoLostWakeup'
  <2>1. PICK W \in Wakeable(obj[t]) : sema_up(obj[t], W)
    BY <1>14 DEF LockUp, SemaUp
  <2>2. obj[t] \in Objects
    BY <1>14 DEF LockUp, SemaUp, TypeOK, LockPCs, Objects
  <2>3. QED
    BY <1>14, <2>1, <2>2, UpKeepsWakeups DEF LockUp, SemaUp, Goto, TypeOK
<1>15. CASE UNCHANGED vars
  BY <1>15, ElsewhereKeepsWakeups DEF vars, TypeOK
<1>16. QED
  BY <1>1, <1>2, <1>3, <1>4, <1>5, <1>6, <1>7, <1>8, <1>9, <1>10, <1>11,
     <1>12, <1>13, <1>14, <1>15 DEF Next
-----------------------------------------------------------------------------
IInv == TypeOK /\ QueueInv /\ LockInv /\ NoLostWakeup

(* The inductive invariant, from its three parts. *)
THEOREM Invariance == Spec => []IInv
<1>1. Init => IInv
  <2> SUFFICES ASSUME Init PROVE IInv
    OBVIOUS
  <2>1. TypeOK
    BY SynchAssumption DEF Init, TypeOK, Objects, PCs, LockPCs
  <2>2. QueueInv
    BY SynchAssumption DEF Init, QueueInv, OneQueuePerThread, WaitersAtDown
  <2>3. LockInv
    BY SynchAssumption
    DEF Init, LockInv, ObjNotHeld, MutualExclusion, HolderHolds, Owns, Objects, LockPCs
  <2>4. NoLostWakeup
    BY DEF Init, NoLostWakeup
  <2>5. QED
    BY <2>1, <2>2, <2>3, <2>4 DEF IInv
<1>2. IInv /\ [Next]_vars => IInv'
  BY TypeStep, QueueInvStep, LockInvStep, WakeupStep DEF IInv
<1>3. QED
  BY <1>1, <1>2, PTL DEF Spec

(* Type correctness of semaphores, locks and scheduler. *)
THEOREM TypeCorrect == Spec => []TypeOK
BY Invariance, PTL DEF IInv

(* The list element of a thread is never on two lists: thread.h's reason   *)
(* for sharing it between the run queue and the wait lists.                *)
THEOREM QueuesExclusive == Spec => []OneQueuePerThread
BY Invariance, PTL DEF IInv, QueueInv

(* Mutual exclusion of lock_acquire and lock_release. *)
THEOREM LocksExclude == Spec => []MutualExclusion
BY Invariance, PTL DEF IInv, LockInv

(* lock->holder and locks_holding_list agree with the ownership of the     *)
(* lock's semaphore, but for the three windows of synch.c.                 *)
THEOREM HoldersCorrect == Spec => []HolderNamesOwner
<1>1. IInv => HolderNamesOwner
  BY SynchAssumption
  DEF IInv, LockInv, HolderHolds, MutualExclusion, HolderNamesOwner, Owns, TypeOK
<1>2. QED
  BY <1>1, Invariance, PTL

(* sema_up and sema_down lose no wake-up. *)
THEOREM WakeupsKept == Spec => []NoLostWakeup
BY Invariance, PTL DEF IInv

(* The processor idles only when no waiter could be served. *)
THEOREM IdlesOnlyWithoutWork == Spec => []NeverIdleWithWorkToDo
<1>1. IInv => NeverIdleWithWorkToDo
  <2> SUFFICES ASSUME IInv, cur = Idle, ready = {}, NEW o \in Objects,
                      value[o] > 0, waiters[o] # {}
               PROVE  FALSE
    BY DEF NeverIdleWithWorkToDo
  <2>1. Cardinality(Woken(o)) > 0
    BY WokenFinite DEF IInv, NoLostWakeup, TypeOK
  <2>2. PICK t \in Threads : pc[t] = "down" /\ obj[t] = o /\ t \notin waiters[o]
    <3>1. Woken(o) # {}
      BY <2>1, FS_EmptySet
    <3>2. QED
      BY <3>1 DEF Woken
  <2>3. status[t] = "blocked"
    BY SynchAssumption DEF IInv, QueueInv, OneQueuePerThread, TypeOK
  <2>4. QED
    BY <2>2, <2>3 DEF IInv, QueueInv, OneQueuePerThread, WaitersAtDown
<1>2. QED
  BY <1>1, Invariance, PTL
-----------------------------------------------------------------------------
(* The refinement mapping owner, without the CHOOSE. *)
OwnerMap ==
  /\ owner \in [Locks -> Threads \cup {NULL}]
  /\ \A l \in Locks, t \in Threads : owner[l] = t <=> Owns(t, l)

LEMMA OwnerMapped == IInv => OwnerMap
<1> SUFFICES ASSUME IInv, NEW l \in Locks
             PROVE  /\ owner[l] \in Threads \cup {NULL}
                    /\ \A t \in Threads : owner[l] = t <=> Owns(t, l)
  BY DEF OwnerMap, owner
<1> USE SynchAssumption DEF IInv, LockInv, MutualExclusion
<1>1. CASE value[l] = 1
  <2>1. owner[l] = NULL
    BY <1>1 DEF owner
  <2>2. QED
    BY <1>1, <2>1
<1>2. CASE value[l] = 0
  <2>1. PICK t \in Threads : Owns(t, l)
    BY <1>2
  <2>2. (CHOOSE u \in Threads : Owns(u, l)) = t
    BY <2>1
  <2>3. owner[l] = t
    BY <1>2, <2>2 DEF owner
  <2>4. QED
    BY <2>1, <2>3
<1>3. QED
  BY <1>1, <1>2

(* Ownership changes only where the unit of a lock's semaphore changes     *)
(* hands: it stays, or one thread takes a free lock or frees its own.      *)
LEMMA OwnershipStep ==
  ASSUME IInv, [Next]_vars
  PROVE  \/ \A t \in Threads, l \in Locks : Owns(t, l)' <=> Owns(t, l)
         \/ \E t \in Threads, l \in Locks :
              /\ Owns(t, l)' <=> ~ Owns(t, l)
              /\ \A u \in Threads, k \in Locks :
                   u # t \/ k # l => (Owns(u, k)' <=> Owns(u, k))
<1> DEFINE Same == \A t \in Threads, l \in Locks : Owns(t, l)' <=> Owns(t, l)
           Moves(t, l) == /\ Owns(t, l)' <=> ~ Owns(t, l)
                          /\ \A u \in Threads, k \in Locks :
                               u # t \/ k # l => (Owns(u, k)' <=> Owns(u, k))
<1> SUFFICES Same \/ \E t \in Threads, l \in Locks : Moves(t, l)
  OBVIOUS
<1> USE SynchAssumption DEF IInv, LockInv, ObjNotHeld, HolderHolds, TypeOK, Owns,
                            Objects, PCs, LockPCs, Goto
<1>1. CASE Preempt \/ IdleBlock \/ (\E s \in Semas : IntrSemaUp(s)) \/ UNCHANGED vars
  BY <1>1 DEF Preempt, IdleBlock, IntrSemaUp, vars
<1>2. ASSUME NEW t \in Threads, NEW s \in Semas, SemaDown(t, s) \/ PlainSemaUp(t, s)
      PROVE  Same
  BY <1>2 DEF SemaDown, sema_down, PlainSemaUp, SemaUp
<1>3. ASSUME NEW t \in Threads, NEW l \in Locks, LockAcquire(t, l)
      PROVE  Same \/ Moves(t, l)
  BY <1>3 DEF LockAcquire
<1>4. ASSUME NEW t \in Threads, NEW l \in Locks, LockRelease(t, l)
      PROVE  Same
  BY <1>4 DEF LockRelease
<1>5. ASSUME NEW t \in Threads, Resume(t)
      PROVE  Same \/ (obj[t] \in Locks /\ Moves(t, obj[t]))
  <2>1. CASE pc'[t] = "own"
    <3>1. /\ holding' = holding /\ pc[t] = "down"
          /\ obj[t] \in Locks /\ obj'[t] = obj[t]
          /\ \A u \in Threads \ {t} : pc'[u] = pc[u] /\ obj'[u] = obj[u]
      BY <1>5, <2>1 DEF Resume, sema_down
    <3>2. QED
      BY <2>1, <3>1
  <2>2. CASE pc'[t] \in {"run", "down"}
    <3>1. /\ holding' = holding /\ pc[t] = "down"
          /\ \A u \in Threads \ {t} : pc'[u] = pc[u] /\ obj'[u] = obj[u]
      BY <1>5 DEF Resume, sema_down
    <3>2. QED
      BY <2>2, <3>1
  <2> HIDE DEF Same, Moves, IInv, LockInv, ObjNotHeld, HolderHolds, Owns
  <2>3. pc'[t] \in {"own", "run", "down"}
    <3>1. pc \in [Threads -> PCs]
      BY DEF IInv
    <3>2. CASE obj[t] \in Locks
      BY <1>5, <3>1, <3>2 DEF Resume, sema_down
    <3>3. CASE obj[t] \notin Locks
      BY <1>5, <3>1, <3>3 DEF Resume, sema_down
    <3>4. QED
      BY <3>2, <3>3
  <2>4. QED
    BY <2>1, <2>2, <2>3
<1>6. ASSUME NEW t \in Threads, Yield(t) \/ SetHolder(t) \/ AddHeld(t) \/ Own(t)
      PROVE  Same
  <2>1. CASE Yield(t)
    BY <2>1 DEF Yield
  <2>2. CASE SetHolder(t)
    BY <2>2 DEF SetHolder
  <2>3. CASE AddHeld(t)
    BY <2>3 DEF AddHeld
  <2>4. CASE Own(t)
    BY <2>4 DEF Own
  <2>5. QED
    BY <1>6, <2>1, <2>2, <2>3, <2>4
<1>7. ASSUME NEW t \in Threads, LockDown(t)
      PROVE  Same \/ (obj[t] \in Locks /\ Moves(t, obj[t]))
  <2>1. CASE pc'[t] = "own"
    <3>1. /\ holding' = holding /\ pc[t] = "wait"
          /\ obj[t] \in Locks /\ obj'[t] = obj[t]
          /\ \A u \in Threads \ {t} : pc'[u] = pc[u] /\ obj'[u] = obj[u]
      BY <1>7, <2>1 DEF LockDown, sema_down
    <3>2. QED
      BY <2>1, <3>1
  <2>2. CASE pc'[t] = "down"
    <3>1. /\ holding' = holding /\ pc[t] = "wait"
          /\ \A u \in Threads \ {t} : pc'[u] = pc[u] /\ obj'[u] = obj[u]
      BY <1>7 DEF LockDown, sema_down
    <3>2. QED
      BY <2>2, <3>1
  <2> HIDE DEF Same, Moves
  <2>3. pc'[t] \in {"own", "down"}
    BY <1>7 DEF LockDown, sema_down
  <2>4. QED
    BY <2>1, <2>2, <2>3
<1>8. ASSUME NEW t \in Threads, LockUp(t)
      PROVE  obj[t] \in Locks /\ Moves(t, obj[t])
  BY <1>8 DEF LockUp, SemaUp
<1> HIDE DEF Same, Moves, IInv, LockInv, ObjNotHeld, HolderHolds, TypeOK, Owns,
             Objects, PCs, LockPCs, Goto
<1>9. QED
  BY <1>1, <1>2, <1>3, <1>4, <1>5, <1>6, <1>7, <1>8 DEF Next

(* Every step of Synch is a step of LockSpec, or leaves ownership alone. *)
LEMMA LockSpecStep ==
  ASSUME IInv, IInv', [Next]_vars
  PROVE  [Abstract!Next]_owner
<1>1. OwnerMap /\ OwnerMap'
  BY OwnerMapped, PTL
<1>2. CASE \A t \in Threads, l \in Locks : Owns(t, l)' <=> Owns(t, l)
  <2>1. \A l \in Locks : owner'[l] = owner[l]
    BY <1>1, <1>2, SynchAssumption DEF OwnerMap
  <2>2. owner' = owner
    BY <1>1, <2>1 DEF OwnerMap
  <2>3. QED
    BY <2>2
<1>3. ASSUME NEW t \in Threads, NEW l \in Locks, Owns(t, l)' <=> ~ Owns(t, l),
             \A u \in Threads, k \in Locks :
               u # t \/ k # l => (Owns(u, k)' <=> Owns(u, k))
      PROVE  Abstract!Next
  <2>1. \A k \in Locks \ {l} : owner'[k] = owner[k]
    BY <1>1, <1>3, SynchAssumption DEF OwnerMap
  <2>2. CASE Owns(t, l)
    <3>1. owner[l] = t /\ owner'[l] = NULL
      BY <1>1, <1>3, <2>2, SynchAssumption DEF OwnerMap
    <3>2. owner' = [owner EXCEPT ![l] = NULL]
      BY <1>1, <2>1, <3>1 DEF OwnerMap
    <3>3. QED
      BY <3>1, <3>2 DEF Abstract!Next, Abstract!Release
  <2>3. CASE Owns(t, l)'
    <3>1. owner[l] = NULL /\ owner'[l] = t
      BY <1>1, <1>3, <2>3, SynchAssumption DEF OwnerMap
    <3>2. owner' = [owner EXCEPT ![l] = t]
      BY <1>1, <2>1, <3>1 DEF OwnerMap
    <3>3. QED
      BY <3>1, <3>2 DEF Abstract!Next, Abstract!Acquire
  <2>4. QED
    BY <1>3, <2>2, <2>3
<1>4. QED
  BY <1>2, <1>3, OwnershipStep

(* The locks of synch.c implement the lock of LockSpec. *)
THEOREM LocksImplement == Spec => ImplementsLockSpec
<1>1. Init => Abstract!Init
  BY DEF Init, Abstract!Init, owner, Objects
<1>2. IInv /\ IInv' /\ [Next]_vars => [Abstract!Next]_owner
  BY LockSpecStep
<1>3. QED
  BY <1>1, <1>2, Invariance, PTL DEF Spec, ImplementsLockSpec, Abstract!Spec
=============================================================================
