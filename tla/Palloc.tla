------------------------------- MODULE Palloc -------------------------------
(***************************************************************************)
(* threads/palloc.c: the page allocator with its kernel and its user pool. *)
(* A pool's lock covers bitmap_scan_and_flip; palloc_free_multiple does    *)
(* not take it, because thread_schedule_tail frees pages with interrupts   *)
(* off.  So the model takes the bitmap one bit per step.                   *)
(***************************************************************************)
EXTENDS Naturals, FiniteSets

CONSTANTS Threads, NULL,
          FreePages, Limits,  \* pages above 1 MB; values of user_page_limit
          MaxCnt,             \* bound on page_cnt
          MaxOwned            \* bound on what a thread keeps

VARIABLES pools,   \* the two pools: base page and number of pages
          used,    \* the pages whose bit is set in a used_map
          lock,    \* holder of each pool's lock
          op,      \* per thread, the call it is in
          owned,   \* per thread, the groups of pages it was given
          failed   \* an assertion failed

vars == <<pools, used, lock, op, owned, failed>>

Kinds == {"kernel", "user"}
Idle == [pc |-> "idle"]

DIV_ROUND_UP(x, step) == (x + step - 1) \div step

(* Bytes of a bitmap structure for cnt bits with 32-bit words. *)
bitmap_buf_size(cnt) == 8 + 4 * DIV_ROUND_UP(cnt, 32)

(* The pool behind its bitmap, which is at its start. *)
init_pool(base, page_cnt) ==
  LET bm_pages == DIV_ROUND_UP(bitmap_buf_size(page_cnt), 4096)
  IN  [base |-> base + bm_pages, size |-> page_cnt - bm_pages]

(* palloc_init divides the free pages; it panics if a pool has no room for *)
(* its bitmap.                                                             *)
palloc_init(limit) ==
  LET user_pages == IF FreePages \div 2 > limit THEN limit ELSE FreePages \div 2
      kernel_pages == FreePages - user_pages
  IN  [kernel |-> init_pool(0, kernel_pages),
       user |-> init_pool(kernel_pages, user_pages)]

Init ==
  /\ \E limit \in Limits : pools = palloc_init(limit)
  /\ used = {}
  /\ lock = [k \in Kinds |-> NULL]
  /\ op = [t \in Threads |-> Idle]
  /\ owned = [t \in Threads |-> {}]
  /\ failed = FALSE

PagesOf(k) == pools[k].base .. pools[k].base + pools[k].size - 1

(* page_from_pool *)
PoolOf(page) == CHOOSE k \in Kinds : page \in PagesOf(k)

Group(start, cnt) == start .. start + cnt - 1

(* A variant of the scan's start that does not wait for the lock. *)
palloc_get_multiple_unlocked(t, k, cnt) ==
  /\ op[t] = Idle
  /\ Cardinality(owned[t]) < MaxOwned
  /\ op' = [op EXCEPT ![t] = [pc |-> "scan", kind |-> k, cnt |-> cnt,
                              i |-> pools[k].base, j |-> 0]]
  /\ UNCHANGED <<pools, used, lock, owned, failed>>

(* palloc_get_multiple: lock_acquire and the start of the scan. *)
palloc_get_multiple(t, k, cnt) ==
  /\ op[t] = Idle /\ lock[k] = NULL
  /\ Cardinality(owned[t]) < MaxOwned
  /\ lock' = [lock EXCEPT ![k] = t]
  /\ op' = [op EXCEPT ![t] = [pc |-> "scan", kind |-> k, cnt |-> cnt,
                              i |-> pools[k].base, j |-> 0]]
  /\ UNCHANGED <<pools, used, owned, failed>>

(* bitmap_scan looks at the next bit. *)
Scan(t) ==
  /\ op[t].pc = "scan"
  /\ LET o == op[t]
         found == o.j = o.cnt
         out == o.i + o.cnt > pools[o.kind].base + pools[o.kind].size
     IN  op' = [op EXCEPT ![t] =
                  CASE out -> [o EXCEPT !.pc = "release", !.cnt = 0]
                    [] ~ out /\ found -> [o EXCEPT !.pc = "flip", !.j = 0]
                    [] ~ out /\ ~ found /\ o.i + o.j \in used -> [o EXCEPT !.i = @ + 1, !.j = 0]
                    [] OTHER -> [o EXCEPT !.j = @ + 1]]
  /\ UNCHANGED <<pools, used, lock, owned, failed>>

(* bitmap_set_multiple sets the next bit. *)
Flip(t) ==
  /\ op[t].pc = "flip"
  /\ used' = used \cup {op[t].i + op[t].j}
  /\ op' = [op EXCEPT ![t] = IF op[t].j + 1 = op[t].cnt THEN [op[t] EXCEPT !.pc = "release"]
                             ELSE [op[t] EXCEPT !.j = @ + 1]]
  /\ UNCHANGED <<pools, lock, owned, failed>>

(* lock_release; the call returns the pages, or NULL when cnt is 0. *)
ReleaseLock(t) ==
  /\ op[t].pc = "release"
  /\ lock' = [lock EXCEPT ![op[t].kind] = NULL]
  /\ op' = [op EXCEPT ![t] = Idle]
  /\ owned' = IF op[t].cnt = 0 THEN owned
              ELSE [owned EXCEPT ![t] = @ \cup {Group(op[t].i, op[t].cnt)}]
  /\ UNCHANGED <<pools, used, failed>>

(* palloc_free_multiple up to its assertion bitmap_all. *)
palloc_free_multiple(t, pages) ==
  /\ op[t] = Idle /\ pages \in owned[t]
  /\ owned' = [owned EXCEPT ![t] = @ \ {pages}]
  /\ failed' = (failed \/ ~ (pages \subseteq used))
  /\ op' = [op EXCEPT ![t] = [pc |-> "reset", left |-> pages]]
  /\ UNCHANGED <<pools, used, lock>>

(* bitmap_set_multiple clears the next bit. *)
Reset(t) ==
  /\ op[t].pc = "reset"
  /\ LET page == CHOOSE p \in op[t].left : \A q \in op[t].left : p <= q
     IN  /\ used' = used \ {page}
         /\ op' = [op EXCEPT ![t] = IF op[t].left = {page} THEN Idle
                                    ELSE [op[t] EXCEPT !.left = @ \ {page}]]
  /\ UNCHANGED <<pools, lock, owned, failed>>

Next ==
  \E t \in Threads :
    \/ \E k \in Kinds, cnt \in 1 .. MaxCnt : palloc_get_multiple(t, k, cnt)
    \/ Scan(t) \/ Flip(t) \/ ReleaseLock(t) \/ Reset(t)
    \/ \E pages \in owned[t] : palloc_free_multiple(t, pages)

Spec == Init /\ [][Next]_vars
-----------------------------------------------------------------------------
(* No page is given out twice, the pages given out are marked in the       *)
(* bitmap, and freeing without the lock does not disturb an allocation     *)
(* that is under way.                                                      *)
PagesNotShared ==
  /\ \A t, u \in Threads : \A p \in owned[t], q \in owned[u] :
       t # u \/ p # q => p \cap q = {}
  /\ \A t \in Threads : UNION owned[t] \subseteq used
  /\ ~ failed

(* A page is marked only while a thread has it or a call is about to hand  *)
(* it out or take it back: no page is lost.                                *)
NoPageLost ==
  (\A t \in Threads : op[t] = Idle) => used = UNION {UNION owned[t] : t \in Threads}

(* The pools keep clear of each other and of their own bitmaps.            *)
PoolsDisjoint ==
  /\ PagesOf("kernel") \cap PagesOf("user") = {}
  /\ \A k \in Kinds : pools[k].base > 0 /\ pools[k].base + pools[k].size <= FreePages
  /\ pools["user"].base > pools["kernel"].base + pools["kernel"].size
  /\ used \subseteq PagesOf("kernel") \cup PagesOf("user")
=============================================================================
