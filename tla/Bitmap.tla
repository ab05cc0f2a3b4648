------------------------------- MODULE Bitmap -------------------------------
(***************************************************************************)
(* lib/kernel/bitmap.c: an array of bits kept in words, each word the set  *)
(* of its bits that are 1.  marked is what the calls promise: the bits     *)
(* that are true.  BITMAP_ERROR is -1, as SIZE_MAX is in the code.         *)
(***************************************************************************)
EXTENDS Integers, FiniteSets

CONSTANTS ELEM_BITS, BitCnts   \* bits in a word; sizes of bitmaps to try

VARIABLES bit_cnt, bits, marked

vars == <<bit_cnt, bits, marked>>

BITMAP_ERROR == -1
Word == SUBSET (0 .. ELEM_BITS - 1)

elem_idx(i) == i \div ELEM_BITS
bit_mask(i) == {i % ELEM_BITS}
elem_cnt(cnt) == (cnt + ELEM_BITS - 1) \div ELEM_BITS

last_mask ==
  LET last_bits == bit_cnt % ELEM_BITS
  IN  IF last_bits # 0 THEN 0 .. last_bits - 1 ELSE 0 .. ELEM_BITS - 1

bitmap_test(b, i) == b[elem_idx(i)] \cap bit_mask(i) # {}

(* bitmap_set: bitmap_mark or bitmap_reset. *)
bitmap_set(b, i, value) ==
  [b EXCEPT ![elem_idx(i)] = IF value THEN @ \cup bit_mask(i) ELSE @ \ bit_mask(i)]

bitmap_flip(b, i) == bitmap_set(b, i, ~ bitmap_test(b, i))

(* The loop of bitmap_set_multiple: after n of its rounds. *)
bitmap_set_multiple(b, start, cnt, value) ==
  LET after[n \in 0 .. cnt] ==
        IF n = 0 THEN b ELSE bitmap_set(after[n - 1], start + n - 1, value)
  IN  after[cnt]

bitmap_count(b, start, cnt, value) ==
  Cardinality({i \in start .. start + cnt - 1 : bitmap_test(b, i) = value})

bitmap_contains(b, start, cnt, value) ==
  \E i \in start .. start + cnt - 1 : bitmap_test(b, i) = value

bitmap_scan(b, start, cnt, value) ==
  LET hits == {i \in start .. bit_cnt - cnt : ~ bitmap_contains(b, i, cnt, ~ value)}
  IN  IF cnt > bit_cnt \/ hits = {} THEN BITMAP_ERROR
      ELSE CHOOSE i \in hits : \A j \in hits : i <= j

(* bitmap_create, and bitmap_create_in_buf, clear all bits. *)
Init ==
  /\ bit_cnt \in BitCnts
  /\ bits = [i \in 0 .. elem_cnt(bit_cnt) - 1 |-> {}]
  /\ marked = {}

Indices == 0 .. bit_cnt - 1

Set(i, value) ==
  /\ bits' = bitmap_set(bits, i, value)
  /\ marked' = IF value THEN marked \cup {i} ELSE marked \ {i}
  /\ UNCHANGED bit_cnt

Flip(i) ==
  /\ bits' = bitmap_flip(bits, i)
  /\ marked' = IF i \in marked THEN marked \ {i} ELSE marked \cup {i}
  /\ UNCHANGED bit_cnt

SetMultiple(start, cnt, value) ==
  /\ start + cnt <= bit_cnt
  /\ bits' = bitmap_set_multiple(bits, start, cnt, value)
  /\ marked' = IF value THEN marked \cup start .. start + cnt - 1
               ELSE marked \ (start .. start + cnt - 1)
  /\ UNCHANGED bit_cnt

(* The group of cnt bits of one value that scan_and_flip should take. *)
Groups(start, cnt, value) ==
  {i \in start .. bit_cnt - cnt :
     \A j \in i .. i + cnt - 1 : (j \in marked) = value}

bitmap_scan_and_flip(start, cnt, value) ==
  LET idx == bitmap_scan(bits, start, cnt, value)
      g == Groups(start, cnt, value)
      first == CHOOSE i \in g : \A j \in g : i <= j
      group == first .. first + cnt - 1
  IN  /\ bits' = IF idx = BITMAP_ERROR THEN bits
                 ELSE bitmap_set_multiple(bits, idx, cnt, ~ value)
      /\ marked' = IF g = {} THEN marked
                   ELSE IF value THEN marked \ group ELSE marked \cup group
      /\ UNCHANGED bit_cnt

(* bitmap_read of a file whose last word may have any bits set. *)
bitmap_read(file) ==
  /\ bits' = IF bit_cnt > 0 THEN [file EXCEPT ![elem_cnt(bit_cnt) - 1] = @ \cap last_mask]
             ELSE bits
  /\ marked' = {i \in Indices : i % ELEM_BITS \in file[elem_idx(i)]}
  /\ UNCHANGED bit_cnt

Next ==
  \/ \E i \in Indices : Flip(i) \/ \E value \in BOOLEAN : Set(i, value)
  \/ \E start, cnt \in 0 .. bit_cnt + 1, value \in BOOLEAN :
       \/ SetMultiple(start, cnt, value)
       \/ start <= bit_cnt /\ bitmap_scan_and_flip(start, cnt, value)
  \/ \E file \in [0 .. elem_cnt(bit_cnt) - 1 -> Word] : bitmap_read(file)
-----------------------------------------------------------------------------
(* The bits read back are the ones the calls promise, across word          *)
(* boundaries, for groups of every length and place.                       *)
BitsAsPromised ==
  /\ \A i \in Indices : bitmap_test(bits, i) <=> i \in marked
  /\ \A start \in 0 .. bit_cnt, cnt \in 0 .. bit_cnt : start + cnt <= bit_cnt =>
       bitmap_count(bits, start, cnt, TRUE)
         = Cardinality(marked \cap start .. start + cnt - 1)

(* The bits behind the last one stay 0, also when the file they are read   *)
(* from has them set: bitmap_write stores whole words.                     *)
NoStrayBits == bit_cnt % ELEM_BITS # 0 => bits[elem_cnt(bit_cnt) - 1] \subseteq last_mask
=============================================================================
