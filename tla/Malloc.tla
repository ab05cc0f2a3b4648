------------------------------- MODULE Malloc -------------------------------
(***************************************************************************)
(* threads/malloc.c: blocks of a few sizes carved out of one-page arenas,  *)
(* and big blocks of whole pages.  A block is named by its page and its    *)
(* index in the arena; a big block by its first page and index 0.  Pages   *)
(* come from palloc.c, one call a step (Palloc.tla).                       *)
(***************************************************************************)
EXTENDS Integers, Sequences, FiniteSets, SequencesExt

CONSTANTS Threads, NULL, Pages,  \* Pages: 0 .. n, the kernel pool
          PGSIZE, ArenaSize,     \* a page, and sizeof (struct arena)
          Smallest,              \* the smallest block size, 16 in the code
          Requests               \* sizes asked for

VARIABLES arenas,     \* per page, the arena at its start, or NULL
          free_list,  \* per descriptor
          lock,       \* per descriptor
          op,         \* per thread, the call it is in
          held,       \* blocks a thread has: block, size asked for
          taken       \* pages taken from palloc

vars == <<arenas, free_list, lock, op, held, taken>>

(* malloc_init: block sizes double up to half a page. *)
Descs == {n \in Smallest .. PGSIZE \div 2 - 1 : \E k \in 0 .. 9 : n = Smallest * 2 ^ k}

blocks_per_arena(d) == (PGSIZE - ArenaSize) \div d

arena_to_block(page, idx) == <<page, idx>>
block_to_arena(b) == b[1]

Idle == [pc |-> "idle"]

(* Descriptors big enough, the smallest of them. *)
Fitting(size) == {d \in Descs : d >= size}
DescFor(size) == CHOOSE d \in Fitting(size) : \A e \in Fitting(size) : d <= e

BigPages(size) == (size + ArenaSize + PGSIZE - 1) \div PGSIZE

(* block_size of a block in hand. *)
block_size(b) ==
  LET a == arenas[block_to_arena(b)]
  IN  IF a.desc # NULL THEN a.desc ELSE PGSIZE * a.free_cnt - ArenaSize

Init ==
  /\ arenas = [p \in Pages |-> NULL]
  /\ free_list = [d \in Descs |-> <<>>]
  /\ lock = [d \in Descs |-> NULL]
  /\ op = [t \in Threads |-> Idle]
  /\ held = [t \in Threads |-> {}]
  /\ taken = {}

(* First fit, as bitmap_scan finds it; {} if there is none. *)
PageRuns(cnt) ==
  LET starts == {p \in Pages : p .. p + cnt - 1 \subseteq Pages \ taken}
  IN  {p \in starts : \A q \in starts : p <= q}

(* What a call that got block b leaves: realloc frees the old block next,  *)
(* whose contents it copied.                                               *)
Got(t, b, size) ==
  /\ held' = [held EXCEPT ![t] = @ \cup {[block |-> b, size |-> size]}]
  /\ op' = [op EXCEPT ![t] =
              IF @.old = NULL THEN Idle ELSE [pc |-> "copied", old |-> @.old, new |-> b]]

(* malloc, and realloc's call of it: find a descriptor or take pages. *)
malloc(t, size, old) ==
  /\ op[t] = Idle
  /\ op' = [op EXCEPT ![t] =
              [pc |-> IF Fitting(size) = {} THEN "big" ELSE "lock",
               size |-> size, old |-> old]]
  /\ UNCHANGED <<arenas, free_list, lock, held, taken>>

MallocBig(t) ==
  /\ op[t].pc = "big"
  /\ LET cnt == BigPages(op[t].size)
     IN  \/ /\ PageRuns(cnt) = {}
            /\ op' = [op EXCEPT ![t] = Idle]
            /\ UNCHANGED <<arenas, held, taken>>
         \/ \E p \in PageRuns(cnt) :
            /\ taken' = taken \cup p .. p + cnt - 1
            /\ arenas' = [arenas EXCEPT ![p] = [desc |-> NULL, free_cnt |-> cnt]]
            /\ Got(t, arena_to_block(p, 0), op[t].size)
  /\ UNCHANGED <<free_list, lock>>

(* lock_acquire; the lock is kept while the free list is refilled. *)
MallocLock(t) ==
  LET d == DescFor(op[t].size)
  IN  /\ op[t].pc = "lock" /\ lock[d] = NULL
      /\ lock' = [lock EXCEPT ![d] = t]
      /\ op' = [op EXCEPT ![t].pc = IF free_list[d] = <<>> THEN "refill" ELSE "pop"]
      /\ UNCHANGED <<arenas, free_list, held, taken>>

(* An empty free list gets a new arena's blocks, if there is a page. *)
Refill(t) ==
  LET d == DescFor(op[t].size)
  IN  /\ op[t].pc = "refill"
      /\ \/ /\ PageRuns(1) = {}
            /\ lock' = [lock EXCEPT ![d] = NULL]
            /\ op' = [op EXCEPT ![t] = Idle]
            /\ UNCHANGED <<arenas, free_list, taken>>
         \/ \E p \in PageRuns(1) :
            /\ taken' = taken \cup {p}
            /\ arenas' = [arenas EXCEPT ![p] = [desc |-> d, free_cnt |-> blocks_per_arena(d)]]
            /\ free_list' = [free_list EXCEPT ![d] =
                 @ \o [i \in 1 .. blocks_per_arena(d) |-> arena_to_block(p, i - 1)]]
            /\ op' = [op EXCEPT ![t].pc = "pop"]
            /\ UNCHANGED lock
      /\ UNCHANGED held

Pop(t) ==
  LET d == DescFor(op[t].size)
      b == Head(free_list[d])
  IN  /\ op[t].pc = "pop"
      /\ free_list' = [free_list EXCEPT ![d] = Tail(@)]
      /\ arenas' = [arenas EXCEPT ![block_to_arena(b)].free_cnt = @ - 1]
      /\ lock' = [lock EXCEPT ![d] = NULL]
      /\ Got(t, b, op[t].size)
      /\ UNCHANGED taken

(* free reads the block's descriptor before it takes the lock; a big block *)
(* goes back at once.                                                      *)
free(t, h) ==
  LET p == block_to_arena(h.block)
      a == arenas[p]
  IN  /\ \/ op[t] = Idle
         \/ op[t].pc = "copied" /\ op[t].old = h.block
      /\ h \in held[t]
      /\ held' = [held EXCEPT ![t] = @ \ {h}]
      /\ IF a.desc = NULL
         THEN /\ taken' = taken \ (p .. p + a.free_cnt - 1)
              /\ arenas' = [arenas EXCEPT ![p] = NULL]
              /\ op' = [op EXCEPT ![t] = Idle]
         ELSE /\ op' = [op EXCEPT ![t] = [pc |-> "free", desc |-> a.desc, block |-> h.block]]
              /\ UNCHANGED <<arenas, taken>>
      /\ UNCHANGED <<free_list, lock>>

(* The rest of free, under the lock: an arena with all blocks free goes    *)
(* back to palloc.                                                         *)
FreeLocked(t) ==
  LET d == op[t].desc
      p == block_to_arena(op[t].block)
      all == {arena_to_block(p, i) : i \in 0 .. blocks_per_arena(d) - 1}
  IN  /\ op[t].pc = "free" /\ lock[d] = NULL
      /\ IF arenas[p].free_cnt + 1 >= blocks_per_arena(d)
         THEN /\ free_list' = [free_list EXCEPT ![d] = SelectSeq(@, LAMBDA b : b \notin all)]
              /\ arenas' = [arenas EXCEPT ![p] = NULL]
              /\ taken' = taken \ {p}
         ELSE /\ free_list' = [free_list EXCEPT ![d] = <<op[t].block>> \o @]
              /\ arenas' = [arenas EXCEPT ![p].free_cnt = @ + 1]
              /\ UNCHANGED taken
      /\ op' = [op EXCEPT ![t] = Idle]
      /\ UNCHANGED <<lock, held>>

Next ==
  \E t \in Threads :
    \/ \E size \in Requests : held[t] = {} /\ malloc(t, size, NULL)
    \/ \E size \in Requests, h \in held[t] : malloc(t, size, h.block)    \* realloc
    \/ MallocBig(t) \/ MallocLock(t) \/ Refill(t) \/ Pop(t)
    \/ \E h \in held[t] : free(t, h)
    \/ FreeLocked(t)
-----------------------------------------------------------------------------
Held == UNION {held[t] : t \in Threads}
Listed(d) == Range(free_list[d])

(* The blocks inside page p that a freeing thread has not given back yet.  *)
Returning == {op[t].block : t \in {u \in Threads : op[u].pc = "free"}}

(* A block in use is in no free list and in no other thread's hands, and   *)
(* big enough for what was asked for, in an arena that is still there.     *)
BlocksNotShared ==
  /\ \A t, u \in Threads : \A g \in held[t], h \in held[u] :
       t # u \/ g # h => g.block # h.block
  /\ \A h \in Held :
       /\ arenas[block_to_arena(h.block)] # NULL
       /\ \A d \in Descs : h.block \notin Listed(d)
       /\ h.size <= block_size(h.block)

(* An arena's free_cnt counts its blocks in the free list; every block of  *)
(* a live arena is listed once, in use or on its way back.                 *)
FreeCountsExact ==
  \A p \in Pages : arenas[p] # NULL /\ arenas[p].desc # NULL =>
    LET d == arenas[p].desc
        mine == {i \in DOMAIN free_list[d] : free_list[d][i][1] = p}
        out == {h \in Held : h.block[1] = p}
        back == {b \in Returning : b[1] = p}
    IN  /\ arenas[p].free_cnt = Cardinality(mine)
        /\ Cardinality(mine) + Cardinality(out) + Cardinality(back) = blocks_per_arena(d)

(* Free lists hold only blocks of live arenas, and when nothing is in use  *)
(* every page is back with palloc: an arena is freed with its last block.  *)
NoArenaLeaked ==
  /\ \A d \in Descs : \A b \in Listed(d) : arenas[b[1]] # NULL /\ arenas[b[1]].desc = d
  /\ Held = {} /\ (\A t \in Threads : op[t] = Idle) => taken = {}
=============================================================================
