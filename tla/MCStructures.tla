----------------------------- MODULE MCStructures -----------------------------
(***************************************************************************)
(* The structures and algorithms of lib and lib/kernel on small instances, *)
(* side by side: subject names the one that a behaviour is about, and its  *)
(* variables are the first of v1 to v3.                                    *)
(***************************************************************************)
EXTENDS Integers, Sequences, FiniteSets, TLC

CONSTANTS NULL,
          e1, e2, e3, e4, e5    \* elements of lists and of the heap

VARIABLES subject, v1, v2, v3

vars == <<subject, v1, v2, v3>>

Q == INSTANCE HeapQueue WITH Elems <- {e1, e2, e3, e4}, Keys <- 0 .. 2, MAX_HEAP_SIZE <- 4,
                             queue <- v1, key <- v2, stale <- v3
L == INSTANCE ListUse WITH Elems <- {e1, e2, e3, e4, e5}, Lists <- {"a", "b"},
                           Key <- (e1 :> 0) @@ (e2 :> 0) @@ (e3 :> 1) @@ (e4 :> 1) @@ (e5 :> 2),
                           m <- v1, seqs <- v2
H == INSTANCE Hash WITH Keys <- 1 .. 5, Copies <- {1, 2}, Hashes <- <<3, 5, 1, 7, 4>>,
                        MIN_BUCKETS <- 1, BEST_ELEMS_PER_BUCKET <- 1, buckets <- v1,
                        elem_cnt <- v2, table <- v3
B == INSTANCE Bitmap WITH ELEM_BITS <- 2, BitCnts <- {0, 1, 4, 5}, bit_cnt <- v1, bits <- v2,
                          marked <- v3
U == INSTANCE Ustar WITH NameMax <- 3, Digits <- 4, INT_MAX <- 1023, ULONG_MAX <- 2047,
                         NameLen <- 4, SizesTried <- {0, 7, 8, 1023}, call <- v1
A == INSTANCE Arithmetic WITH W <- 4, Halves <- <<2, 1>>, operands <- v1, answer <- v2
S == INSTANCE Library WITH Cells <- 5, Chars <- {1, 2}, MaxSort <- 6, IntMin <- -16,
                           IntMax <- 15, Glyphs <- {32, 43, 45, 48, 49, 53, 54},
                           job <- v1, mem <- v2, out <- v3

Init ==
  \/ subject = "heap" /\ Q!Init
  \/ subject = "list" /\ L!Init /\ v3 = 0
  \/ subject = "hash" /\ H!Init
  \/ subject = "bitmap" /\ B!Init
  \/ subject = "ustar" /\ U!Init /\ v2 = 0 /\ v3 = 0
  \/ subject = "arithmetic" /\ A!AInit /\ v3 = 0
  \/ subject = "library" /\ S!LInit

Next ==
  /\ UNCHANGED subject
  /\ \/ subject = "heap" /\ Q!Next
     \/ subject = "list" /\ L!Next /\ UNCHANGED v3
     \/ subject = "hash" /\ H!Next
     \/ subject = "bitmap" /\ B!Next
     \/ subject = "ustar" /\ U!Next /\ UNCHANGED <<v2, v3>>
     \/ subject = "arithmetic" /\ A!Divide /\ UNCHANGED v3
     \/ subject = "library" /\ S!LNext

Spec == Init /\ [][Next]_vars
-----------------------------------------------------------------------------
(* heap_pop returns the most urgent thread, and of equally urgent ones the *)
(* one that has been ready longest.                                        *)
PopsMostUrgent == [][subject = "heap" => Q!PopsMostUrgent]_vars

(* The structures of lib/kernel behave as the sequences, the map and the   *)
(* set of bits they stand for, after any sequence of calls: heap.c neither *)
(* loses nor invents an element, and unless a priority has changed since   *)
(* the last heap_rebuild a parent is as urgent as its children; no link of *)
(* list.c is broken or shared and its sorts are stable; hash.c finds and   *)
(* iterates over what was stored, whatever rehash did; bitmap.c's bits are *)
(* right across words and behind the last bit.                             *)
ContainersAsPromised ==
  /\ subject = "heap" => Q!SameElements /\ Q!HeapOrdered
  /\ subject = "list" => L!ListsAsPromised /\ L!AssertionsHold /\ L!ExtremesAreFirst
  /\ subject = "hash" => H!FindsWhatWasStored /\ H!IterationMeetsAll
  /\ subject = "bitmap" => B!BitsAsPromised /\ B!NoStrayBits

(* The algorithms of lib compute what their reference definitions say:     *)
(* arithmetic.c divides exactly, string.c copies, joins and splits within  *)
(* its bounds and finds what it searches, stdlib.c reads numbers, sorts    *)
(* and finds, and ustar.c reads back what it put into a header and notices *)
(* damage.                                                                 *)
LibraryAsPromised ==
  /\ subject = "arithmetic" => A!QuotientExact /\ A!RemainderExact
  /\ subject = "library" => /\ S!MovesOverlapping /\ S!SetsBlock /\ S!StringsFit
                            /\ S!SearchesFind /\ S!ReadsEveryInt
                            /\ S!TokensAsSplit /\ S!SortsAndFinds
  /\ subject = "ustar" => U!HeaderRoundTrip /\ U!StaysInDirectory /\ U!DamageNoticed
=============================================================================
