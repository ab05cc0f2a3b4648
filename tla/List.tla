-------------------------------- MODULE List --------------------------------
(***************************************************************************)
(* lib/kernel/list.c: doubly linked lists as operators on a memory m, the  *)
(* prev and next pointer of every node.  m.ok is the conjunction of the    *)
(* assertions evaluated so far.  The functions with a loop are recursive.  *)
(***************************************************************************)
EXTENDS Integers, Sequences, FiniteSets

CONSTANTS NULL, Elems, Lists,   \* nodes: elements, and two per list
          Key                   \* what less compares

head(l) == <<"head", l>>
tail(l) == <<"tail", l>>
Nodes == Elems \cup {head(l) : l \in Lists} \cup {tail(l) : l \in Lists}

less(a, b) == Key[a] < Key[b]

is_head(m, e) == e # NULL /\ m.prev[e] = NULL /\ m.next[e] # NULL
is_interior(m, e) == e # NULL /\ m.prev[e] # NULL /\ m.next[e] # NULL
is_tail(m, e) == e # NULL /\ m.prev[e] # NULL /\ m.next[e] = NULL

ASSERT(m, cond) == [m EXCEPT !.ok = @ /\ cond]

list_begin(m, l) == m.next[head(l)]
list_end(l) == tail(l)
list_rbegin(m, l) == m.prev[tail(l)]
list_empty(m, l) == list_begin(m, l) = list_end(l)

list_init(m, l) ==
  [m EXCEPT !.prev[head(l)] = NULL, !.next[head(l)] = tail(l),
            !.prev[tail(l)] = head(l), !.next[tail(l)] = NULL]

list_insert(m, before, elem) ==
  LET p == m.prev[before]
  IN  [ASSERT(m, is_interior(m, before) \/ is_tail(m, before)) EXCEPT
         !.prev[elem] = p, !.next[elem] = before,
         !.next[p] = elem, !.prev[before] = elem]

(* first up to, not including, end moves before before. *)
list_splice(m, before, first, end) ==
  LET last == m.prev[end]
      out == [ASSERT(m, /\ is_interior(m, before) \/ is_tail(m, before)
                        /\ is_interior(m, first) /\ is_interior(m, last)) EXCEPT
                !.next[m.prev[first]] = m.next[last],
                !.prev[m.next[last]] = m.prev[first]]
      p == out.prev[before]
  IN  IF first = end THEN m
      ELSE [out EXCEPT !.prev[first] = p, !.next[last] = before,
                       !.next[p] = first, !.prev[before] = last]

list_push_front(m, l, elem) == list_insert(m, list_begin(m, l), elem)
list_push_back(m, l, elem) == list_insert(m, list_end(l), elem)

list_remove(m, elem) ==
  [ASSERT(m, is_interior(m, elem)) EXCEPT !.next[m.prev[elem]] = m.next[elem],
                                          !.prev[m.next[elem]] = m.prev[elem]]

list_pop_front(m, l) == list_remove(ASSERT(m, ~ list_empty(m, l)), list_begin(m, l))
list_pop_back(m, l) == list_remove(ASSERT(m, ~ list_empty(m, l)), list_rbegin(m, l))

RECURSIVE SwapLinks(_, _, _)
SwapLinks(m, e, end) ==
  IF e = end THEN m
  ELSE SwapLinks([m EXCEPT !.prev[e] = m.next[e], !.next[e] = m.prev[e]],
                 m.next[e], end)

list_reverse(m, l) ==
  LET swapped == SwapLinks(m, list_begin(m, l), list_end(l))
      ends == [swapped EXCEPT !.next[head(l)] = swapped.prev[tail(l)],
                              !.prev[tail(l)] = swapped.next[head(l)]]
      first == ends.next[head(l)]
      last == ends.prev[tail(l)]
  IN  IF list_empty(m, l) THEN m
      ELSE [ends EXCEPT !.prev[first] = ends.next[last], !.next[last] = ends.prev[first]]

RECURSIVE is_sorted(_, _, _)
is_sorted(m, a, b) ==
  \/ a = b
  \/ m.next[a] = b
  \/ ~ less(m.next[a], a) /\ is_sorted(m, m.next[a], b)

RECURSIVE find_end_of_run(_, _, _)
find_end_of_run(m, a, b) ==
  LET n == m.next[a]
  IN  IF n # b /\ ~ less(n, a) THEN find_end_of_run(m, n, b) ELSE n

RECURSIVE Merge(_, _, _, _)
Merge(m, a0, a1b0, b1) ==
  CASE a0 = a1b0 \/ a1b0 = b1 -> m
    [] a0 # a1b0 /\ a1b0 # b1 /\ ~ less(a1b0, a0) -> Merge(m, m.next[a0], a1b0, b1)
    [] OTHER -> Merge(list_splice(m, a0, a1b0, m.next[a1b0]), a0, m.next[a1b0], b1)

inplace_merge(m, a0, a1b0, b1) ==
  Merge(ASSERT(m, is_sorted(m, a0, a1b0) /\ is_sorted(m, a1b0, b1)), a0, a1b0, b1)

(* One pass of list_sort's outer loop from a0 on: memory and output runs. *)
RECURSIVE MergeRuns(_, _, _, _)
MergeRuns(m, l, a0, output_run_cnt) ==
  LET a1b0 == find_end_of_run(m, a0, list_end(l))
      b1 == find_end_of_run(m, a1b0, list_end(l))
  IN  CASE a0 = list_end(l) -> [m |-> m, runs |-> output_run_cnt]
        [] a0 # list_end(l) /\ a1b0 = list_end(l) -> [m |-> m, runs |-> output_run_cnt + 1]
        [] OTHER -> MergeRuns(inplace_merge(m, a0, a1b0, b1), l, b1, output_run_cnt + 1)

RECURSIVE list_sort(_, _)
list_sort(m, l) ==
  LET pass == MergeRuns(m, l, list_begin(m, l), 0)
  IN  IF pass.runs > 1 THEN list_sort(pass.m, l)
      ELSE ASSERT(pass.m, is_sorted(pass.m, list_begin(pass.m, l), list_end(l)))

(* The first element from e on that elem is less than. *)
RECURSIVE FirstAbove(_, _, _, _)
FirstAbove(m, l, elem, e) ==
  IF e = list_end(l) \/ less(elem, e) THEN e ELSE FirstAbove(m, l, elem, m.next[e])

list_insert_ordered(m, l, elem) ==
  list_insert(m, FirstAbove(m, l, elem, list_begin(m, l)), elem)

RECURSIVE Unique(_, _, _, _)
Unique(m, l, duplicates, elem) ==
  LET n == m.next[elem]
  IN  CASE n = list_end(l) -> m
        [] n # list_end(l) /\ ~ less(elem, n) /\ ~ less(n, elem) ->
             Unique(list_push_back(list_remove(m, n), duplicates, n), l, duplicates, elem)
        [] OTHER -> Unique(m, l, duplicates, n)

list_unique(m, l, duplicates) ==
  IF list_empty(m, l) THEN m ELSE Unique(m, l, duplicates, list_begin(m, l))

RECURSIVE MaxFrom(_, _, _, _)
MaxFrom(m, l, max, e) ==
  IF e = list_end(l) THEN max
  ELSE MaxFrom(m, l, IF less(max, e) THEN e ELSE max, m.next[e])

list_max(m, l) ==
  IF list_empty(m, l) THEN list_end(l)
  ELSE MaxFrom(m, l, list_begin(m, l), m.next[list_begin(m, l)])

RECURSIVE MinFrom(_, _, _, _)
MinFrom(m, l, min, e) ==
  IF e = list_end(l) THEN min
  ELSE MinFrom(m, l, IF less(e, min) THEN e ELSE min, m.next[e])

list_min(m, l) ==
  IF list_empty(m, l) THEN list_end(l)
  ELSE MinFrom(m, l, list_begin(m, l), m.next[list_begin(m, l)])

(* The elements met by list_next from list_begin, and by list_prev from    *)
(* list_rbegin; list_size is the length of the first.                      *)
RECURSIVE Walk(_, _, _, _)
Walk(links, from, to, cnt) ==
  IF from = to \/ from = NULL \/ cnt = 0 THEN <<>>
  ELSE <<from>> \o Walk(links, links[from], to, cnt - 1)

Forward(m, l) == Walk(m.next, list_begin(m, l), list_end(l), Cardinality(Elems) + 1)
Backward(m, l) == Walk(m.prev, list_rbegin(m, l), head(l), Cardinality(Elems) + 1)
=============================================================================
