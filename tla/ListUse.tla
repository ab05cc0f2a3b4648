------------------------------ MODULE ListUse ------------------------------
(***************************************************************************)
(* Sequences of calls to lib/kernel/list.c that obey its preconditions, on *)
(* a few lists that share elements.  seqs is what the lists should hold:   *)
(* every action says what its function promises about sequences.           *)
(***************************************************************************)
EXTENDS List, SequencesExt

VARIABLES m, seqs

vars == <<m, seqs>>

Free == Elems \ UNION {Range(seqs[l]) : l \in Lists}

Init ==
  /\ seqs = [l \in Lists |-> <<>>]
  /\ m = [ok |-> TRUE,
          prev |-> [n \in Nodes |-> IF \E l \in Lists : n = tail(l)
                                    THEN head(n[2]) ELSE NULL],
          next |-> [n \in Nodes |-> IF \E l \in Lists : n = head(l)
                                    THEN tail(n[2]) ELSE NULL]]

(* The stable sort of s by Key. *)
Before(s, i, j) == Key[s[i]] < Key[s[j]] \/ (Key[s[i]] = Key[s[j]] /\ i < j)

Sorted(s) ==
  [n \in DOMAIN s |->
     s[CHOOSE i \in DOMAIN s :
         Cardinality({j \in DOMAIN s : Before(s, j, i)}) = n - 1]]

(* s without the elements equal to the one kept before them. *)
Kept(s) == {i \in DOMAIN s : i = 1 \/ Key[s[i]] # Key[s[i - 1]]}
Picked(s, I) == [n \in 1 .. Cardinality(I) |->
                   s[CHOOSE i \in I : Cardinality({j \in I : j < i}) = n - 1]]

Set(l, s) == seqs' = [seqs EXCEPT ![l] = s]

(* No function reads the links that it left in an element it took out of   *)
(* a list; they are forgotten.                                             *)
Forget(mem, es) ==
  [mem EXCEPT !.prev = [n \in Nodes |-> IF n \in es THEN NULL ELSE @[n]],
              !.next = [n \in Nodes |-> IF n \in es THEN NULL ELSE @[n]]]

Insert(l, i, e) ==
  /\ e \in Free
  /\ m' = list_insert(m, IF i > Len(seqs[l]) THEN tail(l) ELSE seqs[l][i], e)
  /\ Set(l, InsertAt(seqs[l], i, e))

PushFront(l, e) ==
  e \in Free /\ m' = list_push_front(m, l, e) /\ Set(l, <<e>> \o seqs[l])

PushBack(l, e) ==
  e \in Free /\ m' = list_push_back(m, l, e) /\ Set(l, Append(seqs[l], e))

RemoveElem(l, i) ==
  /\ i \in DOMAIN seqs[l]
  /\ m' = Forget(list_remove(m, seqs[l][i]), {seqs[l][i]})
  /\ Set(l, RemoveAt(seqs[l], i))

PopFront(l) ==
  /\ seqs[l] # <<>>
  /\ m' = Forget(list_pop_front(m, l), {Head(seqs[l])})
  /\ Set(l, Tail(seqs[l]))

PopBack(l) ==
  /\ seqs[l] # <<>>
  /\ m' = Forget(list_pop_back(m, l), {Last(seqs[l])})
  /\ Set(l, Front(seqs[l]))

(* Elements i to j - 1 of list l go before element k of another list. *)
Splice(l, k, other, i, j) ==
  LET s == seqs[other]
      t == seqs[l]
      node(list, pos) == IF pos > Len(seqs[list]) THEN tail(list) ELSE seqs[list][pos]
  IN  /\ l # other /\ i <= j
      /\ k \in 1 .. Len(t) + 1 /\ j \in 1 .. Len(s) + 1
      /\ m' = list_splice(m, node(l, k), node(other, i), node(other, j))
      /\ seqs' = [seqs EXCEPT
                    ![other] = SubSeq(s, 1, i - 1) \o SubSeq(s, j, Len(s)),
                    ![l] = SubSeq(t, 1, k - 1) \o SubSeq(s, i, j - 1)
                           \o SubSeq(t, k, Len(t))]

ReverseList(l) == m' = list_reverse(m, l) /\ Set(l, Reverse(seqs[l]))

Sort(l) == m' = list_sort(m, l) /\ Set(l, Sorted(seqs[l]))

InsertOrdered(l, e) ==
  /\ e \in Free /\ seqs[l] = Sorted(seqs[l])
  /\ m' = list_insert_ordered(m, l, e)
  /\ Set(l, Sorted(Append(seqs[l], e)))

UniqueTo(l, duplicates) ==
  /\ l # duplicates
  /\ m' = list_unique(m, l, duplicates)
  /\ LET s == seqs[l]
     IN  seqs' = [seqs EXCEPT ![l] = Picked(s, Kept(s)),
                              ![duplicates] = @ \o Picked(s, DOMAIN s \ Kept(s))]

Empty(l) == m' = Forget(list_init(m, l), Range(seqs[l])) /\ Set(l, <<>>)

Places == 1 .. Cardinality(Elems) + 1

Next ==
  \E l \in Lists :
    \/ \E e \in Elems : PushFront(l, e) \/ PushBack(l, e) \/ InsertOrdered(l, e)
    \/ \E e \in Elems : \E i \in 1 .. Len(seqs[l]) + 1 : Insert(l, i, e)
    \/ \E i \in Places : RemoveElem(l, i)
    \/ PopFront(l) \/ PopBack(l) \/ ReverseList(l) \/ Sort(l) \/ Empty(l)
    \/ \E other \in Lists : UniqueTo(l, other)
    \/ \E other \in Lists, i, j, k \in Places : Splice(l, k, other, i, j)
-----------------------------------------------------------------------------
(* After any sequence of calls every list holds, in both directions, what  *)
(* the calls promise: links are never broken or shared between lists, the  *)
(* merge sort is stable, ordered insertion keeps the order.                *)
ListsAsPromised ==
  \A l \in Lists : /\ Forward(m, l) = seqs[l]
                   /\ Backward(m, l) = Reverse(seqs[l])
                   /\ is_head(m, head(l)) /\ is_tail(m, tail(l))

(* The assertions in list.c hold, those on sorted runs inside the merge    *)
(* included.                                                               *)
AssertionsHold == m.ok

(* list_max and list_min return the earliest of equal extremes.            *)
ExtremesAreFirst ==
  \A l \in Lists : seqs[l] # <<>> =>
    LET s == seqs[l]
        first(I) == s[CHOOSE i \in I : \A j \in I : i <= j]
    IN  /\ list_max(m, l) = first({i \in DOMAIN s : \A j \in DOMAIN s : ~ less(s[i], s[j])})
        /\ list_min(m, l) = first({i \in DOMAIN s : \A j \in DOMAIN s : ~ less(s[j], s[i])})
=============================================================================
