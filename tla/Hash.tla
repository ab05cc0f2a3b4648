-------------------------------- MODULE Hash --------------------------------
(***************************************************************************)
(* lib/kernel/hash.c: the hash table, a sequence of buckets that are lists *)
(* (List.tla) and so sequences here.  table is what the calls promise: the *)
(* elements in the table, at most one per key.                             *)
(***************************************************************************)
EXTENDS Naturals, Sequences, FiniteSets, SequencesExt, Bitwise

CONSTANTS Keys, Copies,   \* an element is a copy of a key
          Hashes,         \* Hashes[k] is the hash value of key k
          MIN_BUCKETS, BEST_ELEMS_PER_BUCKET

VARIABLES buckets, elem_cnt, table

vars == <<buckets, elem_cnt, table>>

Elements == [key : Keys, copy : Copies]

(* The index of the bucket for e when there are cnt buckets. *)
find_bucket(cnt, e) == (Hashes[e.key] & (cnt - 1)) + 1

(* The first element of the bucket that equals e, as a set. *)
find_elem(bucket, e) ==
  LET equal == {i \in DOMAIN bucket : bucket[i].key = e.key}
  IN  {bucket[i] : i \in {i \in equal : \A j \in equal : i <= j}}

turn_off_least_1bit(x) == x & (x - 1)

is_power_of_2(x) == x # 0 /\ turn_off_least_1bit(x) = 0

RECURSIVE PowerAtMost(_)
PowerAtMost(x) == IF is_power_of_2(x) THEN x ELSE PowerAtMost(turn_off_least_1bit(x))

(* The number of buckets rehash aims for. *)
NewBucketCnt(cnt) ==
  LET want == cnt \div BEST_ELEMS_PER_BUCKET
  IN  PowerAtMost(IF want < MIN_BUCKETS THEN MIN_BUCKETS ELSE want)

(* A variant that leaves the elements in the bucket they had. *)
Moved_in_place(old, cnt) ==
  [i \in 1 .. cnt |-> IF i <= Len(old) THEN old[i] ELSE <<>>]

(* The old buckets' elements, each pushed to the front of its new bucket. *)
Moved(old, cnt) ==
  FoldLeft(LAMBDA new, e : [new EXCEPT ![find_bucket(cnt, e)] = <<e>> \o @],
           [i \in 1 .. cnt |-> <<>>], FlattenSeq(old))

(* rehash leaves b as it is if the count is right or malloc fails. *)
rehash(b, cnt) ==
  LET new == NewBucketCnt(cnt)
  IN  \/ new = Len(b) /\ buckets' = b
      \/ new # Len(b) /\ buckets' \in {b, Moved(b, new)}

Init ==
  /\ buckets = [i \in 1 .. MIN_BUCKETS |-> <<>>]
  /\ elem_cnt = 0
  /\ table = {}

Bucket(e) == buckets[find_bucket(Len(buckets), e)]

insert_elem(b, e) == [b EXCEPT ![find_bucket(Len(b), e)] = <<e>> \o @]
remove_elem(b, e) == [b EXCEPT ![find_bucket(Len(b), e)] = SelectSeq(@, LAMBDA x : x # e)]

hash_insert(e) ==
  LET old == find_elem(Bucket(e), e)
  IN  /\ IF old = {}
         THEN elem_cnt' = elem_cnt + 1 /\ rehash(insert_elem(buckets, e), elem_cnt')
         ELSE UNCHANGED elem_cnt /\ rehash(buckets, elem_cnt)
      /\ table' = IF \E x \in table : x.key = e.key THEN table ELSE table \cup {e}

hash_replace(e) ==
  LET old == find_elem(Bucket(e), e)
      less == IF old = {} THEN buckets ELSE remove_elem(buckets, CHOOSE x \in old : TRUE)
  IN  /\ e \notin table
      /\ elem_cnt' = elem_cnt + 1 - Cardinality(old)
      /\ rehash(insert_elem(less, e), elem_cnt')
      /\ table' = {x \in table : x.key # e.key} \cup {e}

hash_delete(e) ==
  LET found == find_elem(Bucket(e), e)
  IN  /\ IF found = {} THEN UNCHANGED <<buckets, elem_cnt>>
         ELSE /\ elem_cnt' = elem_cnt - 1
              /\ rehash(remove_elem(buckets, CHOOSE x \in found : TRUE), elem_cnt')
      /\ table' = {x \in table : x.key # e.key}

(* hash_clear keeps the number of buckets. *)
hash_clear ==
  /\ buckets' = [i \in DOMAIN buckets |-> <<>>]
  /\ elem_cnt' = 0
  /\ table' = {}

Next ==
  \/ \E e \in Elements : hash_insert(e) \/ hash_replace(e) \/ hash_delete(e)
  \/ hash_clear

(* hash_find of a key. *)
hash_find(k) ==
  LET e == CHOOSE x \in Elements : x.key = k
  IN  find_elem(Bucket(e), e)

(* The elements hash_first and hash_next meet, in order: those of bucket i *)
(* from position j, then those of the next bucket that has any.            *)
RECURSIVE IterateFrom(_, _)
IterateFrom(i, j) ==
  CASE j <= Len(buckets[i]) -> <<buckets[i][j]>> \o IterateFrom(i, j + 1)
    [] j > Len(buckets[i]) /\ i < Len(buckets) -> IterateFrom(i + 1, 1)
    [] OTHER -> <<>>
-----------------------------------------------------------------------------
(* Every lookup gives what the calls so far promise, whatever rehash did   *)
(* in between and whether or not its allocation failed.                    *)
FindsWhatWasStored ==
  \A k \in Keys : hash_find(k) = {x \in table : x.key = k}

(* An iteration meets every element once, and hash_size counts them.       *)
IterationMeetsAll ==
  LET met == IterateFrom(1, 1)
  IN  Range(met) = table /\ Len(met) = elem_cnt /\ elem_cnt = Cardinality(table)
=============================================================================
