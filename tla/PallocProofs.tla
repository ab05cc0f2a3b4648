---------------------------- MODULE PallocProofs ----------------------------
(***************************************************************************)
(* Proofs about Palloc, for any threads, pools and sizes of allocations.   *)
(* That no page is given out twice is not inductive: it needs to know      *)
(* which pages a call in progress has claimed in the bitmap, that nobody   *)
(* else sets bits that a scan has found clear, as the pool's lock ensures, *)
(* and that palloc_free_multiple, which does not take the lock, clears     *)
(* bits of pages that are still its own.                                   *)
(***************************************************************************)
EXTENDS Palloc, WellFoundedInduction, TLAPS

Call == [pc : {"scan", "flip", "release"}, kind : Kinds, cnt : Nat, i : Nat, j : Nat]
Freeing == [pc : {"reset"}, left : SUBSET Nat]

TypeOK ==
  /\ pools \in [Kinds -> [base : Nat, size : Int]]
  /\ used \subseteq Nat
  /\ lock \in [Kinds -> Threads \cup {NULL}]
  /\ op \in [Threads -> {Idle} \cup Call \cup Freeing]
  /\ owned \in [Threads -> SUBSET (SUBSET Nat)]
  /\ failed \in BOOLEAN

InCall(t) == op[t].pc \in {"scan", "flip", "release"}

(* The pages that a call of t has marked, or has not unmarked yet. *)
Claimed(t) ==
  CASE op[t].pc = "flip" -> Group(op[t].i, op[t].j)
    [] op[t].pc = "release" -> Group(op[t].i, op[t].cnt)
    [] op[t].pc = "reset" -> op[t].left
    [] OTHER -> {}

(* The pages that a call of t has found unmarked. *)
Found(t) ==
  CASE op[t].pc = "scan" -> Group(op[t].i, op[t].j)
    [] op[t].pc = "flip" -> (op[t].i + op[t].j) .. (op[t].i + op[t].cnt - 1)
    [] OTHER -> {}

Locked == \A t \in Threads : InCall(t) => lock[op[t].kind] = t

PoolsApart == PagesOf("kernel") \cap PagesOf("user") = {}

InRange(t) ==
  /\ op[t].pc = "scan" => /\ op[t].i >= pools[op[t].kind].base
                          /\ op[t].cnt >= 1 /\ op[t].j <= op[t].cnt
  /\ op[t].pc = "flip" => op[t].j < op[t].cnt
  /\ op[t].pc = "reset" => op[t].left # {}
  /\ InCall(t) => Found(t) \subseteq PagesOf(op[t].kind)
  /\ {} \notin owned[t]

Ranges == \A t \in Threads : InRange(t)

FoundFree == \A t \in Threads : Found(t) \cap used = {}

Marked == \A t \in Threads : Claimed(t) \subseteq used /\ UNION owned[t] \subseteq used

Separate ==
  /\ \A t, u \in Threads : t # u => Claimed(t) \cap Claimed(u) = {}
  /\ \A t, u \in Threads : \A g \in owned[u] : Claimed(t) \cap g = {}
  /\ \A t, u \in Threads : \A g \in owned[t], h \in owned[u] : t # u \/ g # h => g \cap h = {}

Accounted == \A p \in used : \E t \in Threads : p \in Claimed(t) \/ p \in UNION owned[t]

IInv ==
  TypeOK /\ Locked /\ PoolsApart /\ Ranges /\ FoundFree /\ Marked /\ Separate /\ Accounted /\ ~failed

Constants == FreePages \in Nat /\ Limits \subseteq Nat /\ MaxCnt \in Nat /\ NULL \notin Threads

(* The bitmap at a pool's start takes the pool's own pages. *)
LEMMA PoolFacts ==
  ASSUME NEW b \in Nat, NEW n \in Nat
  PROVE  /\ init_pool(b, n) \in [base : Nat, size : Int]
         /\ init_pool(b, n).base >= b
         /\ init_pool(b, n).base + init_pool(b, n).size = b + n
<1> DEFINE m == (8 + 4 * ((n + 32 - 1) \div 32) + 4096 - 1) \div 4096
<1>1. m \in Nat
  OBVIOUS
<1>2. init_pool(b, n) = [base |-> b + m, size |-> n - m]
  BY DEF init_pool, DIV_ROUND_UP, bitmap_buf_size
<1> HIDE DEF m
<1> QED BY <1>1, <1>2

LEMMA InitIInv ==
  ASSUME Constants, Init
  PROVE  IInv
<1> USE DEF Init, Constants, Idle
<1>1. pools \in [Kinds -> [base : Nat, size : Int]] /\ PoolsApart
  <2>1. PICK limit \in Limits : pools = palloc_init(limit) OBVIOUS
  <2> DEFINE u == IF FreePages \div 2 > limit THEN limit ELSE FreePages \div 2
             k == FreePages - u
  <2>2. u \in Nat /\ k \in Nat OBVIOUS
  <2>3. pools = [kernel |-> init_pool(0, k), user |-> init_pool(k, u)]
    BY <2>1 DEF palloc_init
  <2> HIDE DEF u, k
  <2>4. pools["kernel"] = init_pool(0, k) /\ pools["user"] = init_pool(k, u)
    BY <2>3
  <2>5. pools \in [Kinds -> [base : Nat, size : Int]]
    BY <2>2, <2>3, PoolFacts DEF Kinds
  <2>6. /\ pools["kernel"].base + pools["kernel"].size = k
        /\ pools["user"].base >= k
    BY <2>2, <2>4, PoolFacts
  <2> QED BY <2>2, <2>5, <2>6 DEF PoolsApart, PagesOf, Kinds
<1>2. TypeOK BY <1>1 DEF TypeOK
<1>3. \A t \in Threads : /\ ~InCall(t) /\ Claimed(t) = {} /\ Found(t) = {}
                         /\ op[t].pc = "idle" /\ owned[t] = {}
  BY DEF InCall, Claimed, Found
<1> QED BY <1>1, <1>2, <1>3 DEF IInv, Locked, Ranges, InRange, FoundFree, Marked, Separate, Accounted

(* A group of pages that grows by one page, and one page inside a pool. *)
LEMMA GroupFacts ==
  ASSUME NEW i \in Nat, NEW j \in Nat
  PROVE  Group(i, 0) = {} /\ Group(i, j + 1) = Group(i, j) \cup {i + j}
BY DEF Group

LEMMA InsideFacts ==
  ASSUME NEW b \in Nat, NEW n \in Int, NEW i \in Nat, NEW j \in Nat, NEW c \in Nat,
         i >= b, j <= c, j # c, ~(i + c > b + n)
  PROVE  i + j \in b .. b + n - 1
OBVIOUS

LEMMA CallType ==
  ASSUME NEW c \in Call, NEW i \in Nat, NEW j \in Nat
  PROVE  [c EXCEPT !.i = i, !.j = j] \in Call
BY DEF Call

(* A step of t leaves the claims of the other threads as they are. *)
LEMMA Others ==
  ASSUME TypeOK, NEW t \in Threads, NEW u \in Threads, u # t, NEW x, op' = [op EXCEPT ![t] = x]
  PROVE  /\ op'[u] = op[u]
         /\ Claimed(u)' = Claimed(u)
         /\ Found(u)' = Found(u)
         /\ InCall(u)' = InCall(u)
<1>1. op'[u] = op[u] BY DEF TypeOK
<1> QED BY <1>1 DEF Claimed, Found, InCall

LEMMA GetPreserves ==
  ASSUME IInv, Constants, NEW t \in Threads, NEW k \in Kinds, NEW cnt \in 1 .. MaxCnt,
         palloc_get_multiple(t, k, cnt)
  PROVE  IInv'
<1> DEFINE x == [pc |-> "scan", kind |-> k, cnt |-> cnt, i |-> pools[k].base, j |-> 0]
<1> USE DEF IInv
<1>1. /\ op[t] = Idle /\ lock[k] = NULL
      /\ lock' = [lock EXCEPT ![k] = t]
      /\ op' = [op EXCEPT ![t] = x]
      /\ UNCHANGED <<pools, used, owned, failed>>
  BY DEF palloc_get_multiple
<1>2. x \in Call /\ op'[t] = x
  BY <1>1 DEF TypeOK, Call, Constants
<1>3. TypeOK' BY <1>1, <1>2 DEF TypeOK
<1>4. /\ Claimed(t) = {} /\ Claimed(t)' = {} /\ Found(t)' = {} /\ InCall(t)'
      /\ op'[t].pc = "scan" /\ op'[t].kind = k
  <2>1. op[t].pc = "idle" BY <1>1 DEF Idle
  <2>2. Group(x.i, 0) = {} BY <1>2 DEF Group, Call
  <2> QED BY <1>2, <2>1, <2>2 DEF Claimed, Found, InCall
<1>5. \A u \in Threads \ {t} : /\ op'[u] = op[u] /\ Claimed(u)' = Claimed(u)
                              /\ Found(u)' = Found(u) /\ InCall(u)' = InCall(u)
  BY <1>1, Others
<1>6. Locked'
  BY <1>1, <1>3, <1>4, <1>5 DEF Locked, TypeOK, Constants, InCall, Call
<1>7. PoolsApart' BY <1>1 DEF PoolsApart, PagesOf
<1>8. Ranges'
  BY <1>1, <1>2, <1>4, <1>5 DEF Ranges, InRange, PagesOf, TypeOK
<1>9. FoundFree' /\ Marked' /\ Separate' /\ Accounted'
  BY <1>1, <1>4, <1>5 DEF FoundFree, Marked, Separate, Accounted
<1> QED BY <1>1, <1>3, <1>6, <1>7, <1>8, <1>9

LEMMA ScanPreserves ==
  ASSUME IInv, Constants, NEW t \in Threads, Scan(t)
  PROVE  IInv'
<1> USE DEF IInv
<1> DEFINE o == op[t]
<1>1. o \in Call /\ o.pc = "scan" /\ o.i >= pools[o.kind].base /\ o.cnt >= 1 /\ o.j <= o.cnt
  BY DEF Scan, TypeOK, Call, Freeing, Idle, Ranges, InRange
<1>2. UNCHANGED <<pools, used, lock, owned, failed>> BY DEF Scan
<1>3. /\ PoolsApart' /\ PagesOf("kernel")' = PagesOf("kernel") /\ PagesOf("user")' = PagesOf("user")
      /\ \A k \in Kinds : PagesOf(k)' = PagesOf(k)
  BY <1>2 DEF PoolsApart, PagesOf
<1>4. ASSUME NEW x \in Call, op' = [op EXCEPT ![t] = x], x.kind = o.kind,
             \/ /\ x.pc = "scan" /\ x.cnt = o.cnt /\ x.i >= pools[o.kind].base /\ x.j <= x.cnt
                /\ Group(x.i, x.j) \subseteq PagesOf(o.kind) \ used
             \/ /\ x.pc = "flip" /\ x.j = 0 /\ x.cnt >= 1
                /\ Group(x.i, x.cnt) \subseteq PagesOf(o.kind) \ used
             \/ x.pc = "release" /\ x.cnt = 0
      PROVE  IInv'
  <2>1. op'[t] = x BY <1>4 DEF TypeOK
  <2>2. TypeOK' BY <1>2, <1>4 DEF TypeOK
  <2>3. /\ Claimed(t) = {} /\ InCall(t) /\ InCall(t)' /\ op'[t].kind = o.kind
    BY <1>1, <1>4, <2>1 DEF Claimed, InCall
  <2>4. Claimed(t)' = {}
    BY <1>4, <2>1 DEF Claimed, Group, Call
  <2>5. Found(t)' \subseteq PagesOf(o.kind) \ used
    BY <1>4, <2>1 DEF Found, Group, Call
  <2>6. \A u \in Threads \ {t} : /\ op'[u] = op[u] /\ Claimed(u)' = Claimed(u)
                                /\ Found(u)' = Found(u) /\ InCall(u)' = InCall(u)
    BY <1>4, Others
  <2>7. Locked' BY <1>2, <2>3, <2>6 DEF Locked
  <2>8. Ranges'
    <3>1. ASSUME NEW u \in Threads, u # t
          PROVE  InRange(u)'
      <4>1. InRange(u) /\ op'[u] = op[u] /\ Found(u)' = Found(u) /\ InCall(u)' = InCall(u)
        BY <2>6, <3>1 DEF Ranges
      <4>2. owned'[u] = owned[u] /\ pools' = pools BY <1>2
      <4> QED BY <4>1, <4>2 DEF InRange, PagesOf
    <3>2. InRange(t)'
      <4>1. PagesOf(x.kind)' = PagesOf(o.kind) BY <1>2, <1>4 DEF PagesOf
      <4>2. {} \notin owned'[t] BY <1>2 DEF Ranges, InRange
      <4>3. Found(t)' \subseteq PagesOf(x.kind)' BY <2>5, <4>1
      <4>4. x.cnt \in Nat /\ x.j \in Nat BY <1>4 DEF Call
      <4> QED BY <1>1, <1>2, <1>4, <2>1, <4>2, <4>3, <4>4 DEF InRange
    <3> QED BY <3>1, <3>2 DEF Ranges
  <2>9. FoundFree' /\ Marked' /\ Separate' /\ Accounted'
    BY <1>2, <2>3, <2>4, <2>5, <2>6 DEF FoundFree, Marked, Separate, Accounted
  <2> QED BY <1>2, <1>3, <2>2, <2>7, <2>8, <2>9
<1> DEFINE out == o.i + o.cnt > pools[o.kind].base + pools[o.kind].size
<1>5. Found(t) = Group(o.i, o.j) /\ Found(t) \subseteq PagesOf(o.kind) \ used
  BY <1>1 DEF Found, Ranges, InRange, InCall, FoundFree
<1>6. CASE out
  <2>1. op' = [op EXCEPT ![t] = [o EXCEPT !.pc = "release", !.cnt = 0]] BY <1>6 DEF Scan
  <2>2. [o EXCEPT !.pc = "release", !.cnt = 0] \in Call BY <1>1 DEF Call
  <2> QED BY <1>1, <1>4, <2>1, <2>2 DEF Call
<1>7. CASE ~out /\ o.j = o.cnt
  <2> DEFINE x == [o EXCEPT !.pc = "flip", !.j = 0]
  <2>1. op' = [op EXCEPT ![t] = x] BY <1>7 DEF Scan
  <2>2. x \in Call /\ x.pc = "flip" /\ x.j = 0 /\ x.cnt = o.cnt /\ x.i = o.i /\ x.kind = o.kind
    BY <1>1 DEF Call
  <2> QED BY <1>1, <1>4, <1>5, <1>7, <2>1, <2>2
<1>8. CASE ~out /\ o.j # o.cnt /\ o.i + o.j \in used
  <2> DEFINE x == [o EXCEPT !.i = @ + 1, !.j = 0]
  <2>1. op' = [op EXCEPT ![t] = x] BY <1>8 DEF Scan
  <2>2. o.i \in Nat /\ o.cnt \in Nat /\ o.kind \in Kinds BY <1>1 DEF Call
  <2>3. pools[o.kind].base \in Nat BY <2>2 DEF TypeOK
  <2>4. x \in Call
    <3>1. o.i + 1 \in Nat BY <2>2
    <3>2. x = [o EXCEPT !.i = o.i + 1, !.j = 0] OBVIOUS
    <3> HIDE DEF x, o
    <3> QED BY <1>1, <3>1, <3>2, CallType
  <2>5. x.pc = "scan" /\ x.j = 0 /\ x.cnt = o.cnt /\ x.i = o.i + 1 /\ x.kind = o.kind
    BY <1>1 DEF Call
  <2>6. Group(x.i, x.j) = {} BY <2>2, <2>5 DEF Group
  <2>7. x.i >= pools[o.kind].base /\ x.j <= x.cnt
    BY <1>1, <2>2, <2>3, <2>5
  <2> QED BY <1>4, <2>1, <2>4, <2>5, <2>6, <2>7
<1>9. CASE ~out /\ o.j # o.cnt /\ o.i + o.j \notin used
  <2> DEFINE x == [o EXCEPT !.j = @ + 1]
  <2>1. op' = [op EXCEPT ![t] = x] BY <1>9 DEF Scan
  <2>2. o.i \in Nat /\ o.j \in Nat /\ o.cnt \in Nat /\ o.kind \in Kinds BY <1>1 DEF Call
  <2>3. pools[o.kind].base \in Nat /\ pools[o.kind].size \in Int BY <2>2 DEF TypeOK
  <2>4. x \in Call BY <1>1, <2>2 DEF Call
  <2>5. x.pc = "scan" /\ x.j = o.j + 1 /\ x.cnt = o.cnt /\ x.i = o.i /\ x.kind = o.kind
    BY <1>1 DEF Call
  <2>6. Group(x.i, x.j) = Group(o.i, o.j) \cup {o.i + o.j} BY <2>2, <2>5, GroupFacts
  <2>7. o.i + o.j \in PagesOf(o.kind)
    BY <1>1, <1>9, <2>2, <2>3, InsideFacts DEF PagesOf
  <2>8. Group(x.i, x.j) \subseteq PagesOf(o.kind) \ used BY <1>5, <1>9, <2>6, <2>7
  <2>9. x.i >= pools[o.kind].base /\ x.j <= x.cnt
    BY <1>1, <1>9, <2>2, <2>3, <2>5
  <2> QED BY <1>4, <2>1, <2>4, <2>5, <2>8, <2>9
<1> QED BY <1>6, <1>7, <1>8, <1>9

LEMMA FlipPreserves ==
  ASSUME IInv, Constants, NEW t \in Threads, Flip(t)
  PROVE  IInv'
<1> USE DEF IInv
<1> DEFINE o == op[t]
           page == o.i + o.j
           r == [o EXCEPT !.pc = "release"]
           f == [o EXCEPT !.j = @ + 1]
<1>1. o \in Call /\ o.pc = "flip" /\ o.j < o.cnt /\ InCall(t)
  BY DEF Flip, TypeOK, Call, Freeing, Idle, Ranges, InRange, InCall
<1>2. o.i \in Nat /\ o.j \in Nat /\ o.cnt \in Nat /\ o.kind \in Kinds BY <1>1 DEF Call
<1>3. used' = used \cup {page} /\ UNCHANGED <<pools, lock, owned, failed>> BY DEF Flip
<1>4. PICK x \in Call :
        /\ op' = [op EXCEPT ![t] = x]
        /\ x.kind = o.kind /\ x.i = o.i /\ x.cnt = o.cnt
        /\ \/ x.pc = "release" /\ o.cnt = o.j + 1
           \/ x.pc = "flip" /\ x.j = o.j + 1 /\ o.j + 1 < o.cnt
  <2>1. r \in Call /\ r.kind = o.kind /\ r.i = o.i /\ r.cnt = o.cnt /\ r.pc = "release"
    BY <1>1 DEF Call
  <2>2. f \in Call /\ f.kind = o.kind /\ f.i = o.i /\ f.cnt = o.cnt /\ f.pc = "flip" /\ f.j = o.j + 1
    BY <1>1, <1>2 DEF Call
  <2>3. op' = [op EXCEPT ![t] = IF o.j + 1 = o.cnt THEN r ELSE f] BY DEF Flip
  <2>4. o.j + 1 # o.cnt => o.j + 1 < o.cnt BY <1>1, <1>2
  <2> HIDE DEF r, f
  <2> QED BY <2>1, <2>2, <2>3, <2>4
<1>5. op'[t] = x BY <1>4 DEF TypeOK
<1>6. \A k \in Kinds : PagesOf(k)' = PagesOf(k) BY <1>3 DEF PagesOf
<1>7. /\ Found(t) = page .. (o.i + o.cnt - 1) /\ page \in Found(t)
      /\ Claimed(t) = Group(o.i, o.j)
  BY <1>1, <1>2 DEF Found, Claimed
<1>8. page \in PagesOf(o.kind) /\ page \notin used /\ page \in Nat
  <2>1. Found(t) \subseteq PagesOf(o.kind) BY <1>1 DEF Ranges, InRange
  <2>2. Found(t) \cap used = {} BY DEF FoundFree
  <2>3. page \in Nat BY <1>2
  <2> QED BY <1>7, <2>1, <2>2, <2>3
<1>9. Claimed(t)' = Claimed(t) \cup {page}
  BY <1>2, <1>4, <1>5, <1>7, GroupFacts DEF Claimed
<1>10. Found(t)' \subseteq Found(t) \ {page}
  <2>1. CASE x.pc = "release" BY <1>5, <2>1 DEF Found
  <2>2. CASE x.pc = "flip"
    <3>1. Found(t)' = (o.i + (o.j + 1)) .. (o.i + o.cnt - 1) BY <1>4, <1>5, <2>2 DEF Found
    <3> QED BY <1>2, <1>7, <3>1
  <2> QED BY <1>4, <2>1, <2>2
<1>11. InCall(t)' BY <1>4, <1>5 DEF InCall
<1>12. \A u \in Threads \ {t} : /\ op'[u] = op[u] /\ Claimed(u)' = Claimed(u)
                               /\ Found(u)' = Found(u) /\ InCall(u)' = InCall(u)
  BY <1>4, Others
<1>13. ASSUME NEW u \in Threads, u # t
       PROVE  page \notin Found(u)
  <2>1. CASE InCall(u)
    <3>1. op[u].kind \in Kinds BY <2>1 DEF TypeOK, InCall, Call, Freeing, Idle
    <3>2. op[u].kind # o.kind BY <1>1, <1>13, <2>1 DEF Locked
    <3>3. Found(u) \subseteq PagesOf(op[u].kind) BY <2>1 DEF Ranges, InRange
    <3> QED BY <1>2, <1>8, <3>1, <3>2, <3>3 DEF Kinds, PoolsApart
  <2>2. CASE ~InCall(u)
    BY <2>2 DEF InCall, Found
  <2> QED BY <2>1, <2>2
<1>14. TypeOK' BY <1>3, <1>4, <1>5, <1>8 DEF TypeOK
<1>15. Locked' BY <1>3, <1>4, <1>5, <1>11, <1>12, <1>1 DEF Locked
<1>16. PoolsApart' BY <1>3 DEF PoolsApart, PagesOf
<1>17. Ranges'
  <2>1. ASSUME NEW u \in Threads, u # t
        PROVE  InRange(u)'
    <3>1. InRange(u) /\ op'[u] = op[u] /\ Found(u)' = Found(u) /\ InCall(u)' = InCall(u)
      BY <1>12, <2>1 DEF Ranges
    <3> QED BY <1>3, <3>1 DEF InRange, PagesOf
  <2>2. InRange(t)'
    <3>1. PagesOf(x.kind)' = PagesOf(o.kind) BY <1>2, <1>4, <1>6
    <3>2. {} \notin owned'[t] /\ Found(t) \subseteq PagesOf(o.kind)
      BY <1>1, <1>3 DEF Ranges, InRange
    <3>3. Found(t)' \subseteq PagesOf(x.kind)' BY <1>10, <3>1, <3>2
    <3> QED BY <1>4, <1>5, <3>2, <3>3 DEF InRange
  <2> QED BY <2>1, <2>2 DEF Ranges
<1>18. FoundFree' BY <1>3, <1>10, <1>12, <1>13 DEF FoundFree
<1>19. Marked' BY <1>3, <1>9, <1>12 DEF Marked
<1>20. Separate' BY <1>3, <1>8, <1>9, <1>12 DEF Separate, Marked
<1>21. Accounted' BY <1>3, <1>9, <1>12 DEF Accounted
<1> QED BY <1>3, <1>14, <1>15, <1>16, <1>17, <1>18, <1>19, <1>20, <1>21

LEMMA ReleasePreserves ==
  ASSUME IInv, Constants, NEW t \in Threads, ReleaseLock(t)
  PROVE  IInv'
<1> USE DEF IInv
<1> DEFINE o == op[t]
           pages == Group(o.i, o.cnt)
<1>1. o \in Call /\ o.pc = "release" /\ InCall(t)
  BY DEF ReleaseLock, TypeOK, Call, Freeing, Idle, InCall
<1>2. o.i \in Nat /\ o.cnt \in Nat /\ o.kind \in Kinds BY <1>1 DEF Call
<1>3. /\ lock' = [lock EXCEPT ![o.kind] = NULL]
      /\ op' = [op EXCEPT ![t] = Idle] /\ op'[t] = Idle
      /\ UNCHANGED <<pools, used, failed>>
  BY DEF ReleaseLock, TypeOK
<1>4. /\ o.cnt = 0 => owned' = owned /\ pages = {}
      /\ o.cnt # 0 => /\ owned' = [owned EXCEPT ![t] = @ \cup {pages}]
                      /\ pages # {} /\ pages \subseteq Nat
  <2>1. o.cnt = 0 => owned' = owned /\ pages = {} BY <1>2 DEF ReleaseLock, Group
  <2>2. o.cnt # 0 => o.i \in pages /\ pages \subseteq Nat BY <1>2 DEF Group
  <2>3. o.cnt # 0 => owned' = [owned EXCEPT ![t] = @ \cup {pages}] BY DEF ReleaseLock
  <2> QED BY <2>1, <2>2, <2>3
<1>5. Claimed(t) = pages BY <1>1 DEF Claimed
<1>6. Claimed(t)' = {} /\ Found(t)' = {} /\ ~InCall(t)' /\ op'[t].pc = "idle"
  BY <1>3 DEF Claimed, Found, InCall, Idle
<1>7. \A u \in Threads \ {t} : /\ op'[u] = op[u] /\ Claimed(u)' = Claimed(u)
                              /\ Found(u)' = Found(u) /\ InCall(u)' = InCall(u)
  BY <1>3, Others
<1>8. /\ owned' \in [Threads -> SUBSET (SUBSET Nat)]
      /\ \A u \in Threads \ {t} : owned'[u] = owned[u]
      /\ \A g \in owned'[t] : g \in owned[t] \/ (g = pages /\ g # {})
      /\ owned[t] \subseteq owned'[t] /\ (pages # {} => pages \in owned'[t])
  BY <1>4 DEF TypeOK
<1> HIDE DEF pages
<1>9. TypeOK' BY <1>2, <1>3, <1>8 DEF TypeOK
<1>10. Locked'
  <2>1. ASSUME NEW u \in Threads, u # t, InCall(u)
        PROVE  lock'[op[u].kind] = u
    <3>1. op[u].kind \in Kinds BY <2>1 DEF TypeOK, InCall, Call, Freeing, Idle
    <3>2. lock[op[u].kind] = u /\ op[u].kind # o.kind BY <1>1, <2>1 DEF Locked
    <3> QED BY <1>3, <3>1, <3>2 DEF TypeOK
  <2> QED BY <1>6, <1>7, <2>1 DEF Locked
<1>11. PoolsApart' BY <1>3 DEF PoolsApart, PagesOf
<1>12. Ranges'
  <2>1. ASSUME NEW u \in Threads, u # t
        PROVE  InRange(u)'
    <3>1. InRange(u) /\ op'[u] = op[u] /\ Found(u)' = Found(u) /\ InCall(u)' = InCall(u)
      BY <1>7, <2>1 DEF Ranges
    <3> QED BY <1>3, <1>8, <2>1, <3>1 DEF InRange, PagesOf
  <2>2. InRange(t)' BY <1>6, <1>8 DEF InRange, Ranges
  <2> QED BY <2>1, <2>2 DEF Ranges
<1>13. FoundFree' BY <1>3, <1>6, <1>7 DEF FoundFree
<1>14. Marked' BY <1>3, <1>5, <1>6, <1>7, <1>8 DEF Marked
<1>15. Separate'
  <2>1. \A u, w \in Threads : u # w => Claimed(u)' \cap Claimed(w)' = {}
    BY <1>6, <1>7 DEF Separate
  <2>2. \A u, w \in Threads : \A g \in owned'[w] : Claimed(u)' \cap g = {}
    BY <1>5, <1>6, <1>7, <1>8 DEF Separate
  <2>3. \A u, w \in Threads : \A g \in owned'[u], h \in owned'[w] :
          u # w \/ g # h => g \cap h = {}
    BY <1>5, <1>8 DEF Separate
  <2> QED BY <2>1, <2>2, <2>3 DEF Separate
<1>16. Accounted' BY <1>3, <1>5, <1>6, <1>7, <1>8 DEF Accounted
<1> QED BY <1>3, <1>9, <1>10, <1>11, <1>12, <1>13, <1>14, <1>15, <1>16

LEMMA FreePreserves ==
  ASSUME IInv, Constants, NEW t \in Threads, NEW pages \in owned[t],
         palloc_free_multiple(t, pages)
  PROVE  IInv'
<1> USE DEF IInv
<1> DEFINE x == [pc |-> "reset", left |-> pages]
<1>1. /\ op[t] = Idle
      /\ owned' = [owned EXCEPT ![t] = @ \ {pages}]
      /\ failed' = (failed \/ ~ (pages \subseteq used))
      /\ op' = [op EXCEPT ![t] = x]
      /\ UNCHANGED <<pools, used, lock>>
  BY DEF palloc_free_multiple
<1>2. op'[t] = x /\ x \in Freeing /\ x.pc = "reset" /\ x.left = pages
  BY <1>1 DEF TypeOK, Freeing
<1>3. /\ owned' \in [Threads -> SUBSET (SUBSET Nat)] /\ owned'[t] = owned[t] \ {pages}
      /\ \A u \in Threads \ {t} : owned'[u] = owned[u]
  BY <1>1 DEF TypeOK
<1>4. pages \subseteq used /\ pages # {} BY DEF Marked, Ranges, InRange
<1>5. Claimed(t) = {} /\ Claimed(t)' = pages /\ Found(t)' = {} /\ ~InCall(t)'
  <2>1. op[t].pc = "idle" BY <1>1 DEF Idle
  <2> HIDE DEF x
  <2> QED BY <1>2, <2>1 DEF Claimed, Found, InCall
<1> HIDE DEF x
<1>6. \A u \in Threads \ {t} : /\ op'[u] = op[u] /\ Claimed(u)' = Claimed(u)
                              /\ Found(u)' = Found(u) /\ InCall(u)' = InCall(u)
  BY <1>1, Others
<1>7. ~failed' BY <1>1, <1>4
<1>8. TypeOK' BY <1>1, <1>2, <1>3, <1>7 DEF TypeOK
<1>9. Locked' BY <1>1, <1>5, <1>6 DEF Locked
<1>10. PoolsApart' BY <1>1 DEF PoolsApart, PagesOf
<1>11. Ranges'
  <2>1. ASSUME NEW u \in Threads, u # t
        PROVE  InRange(u)'
    <3>1. InRange(u) /\ op'[u] = op[u] /\ Found(u)' = Found(u) /\ InCall(u)' = InCall(u)
      BY <1>6, <2>1 DEF Ranges
    <3> QED BY <1>1, <1>3, <2>1, <3>1 DEF InRange, PagesOf
  <2>2. InRange(t)' BY <1>2, <1>3, <1>4, <1>5 DEF InRange, Ranges
  <2> QED BY <2>1, <2>2 DEF Ranges
<1>12. FoundFree' BY <1>1, <1>5, <1>6 DEF FoundFree
<1>13. Marked' BY <1>1, <1>3, <1>4, <1>5, <1>6 DEF Marked
<1>14. Separate'
  <2>1. \A u, w \in Threads : u # w => Claimed(u)' \cap Claimed(w)' = {}
    BY <1>5, <1>6 DEF Separate
  <2>2. \A u, w \in Threads : \A g \in owned'[w] : Claimed(u)' \cap g = {}
    BY <1>3, <1>5, <1>6 DEF Separate
  <2>3. \A u, w \in Threads : \A g \in owned'[u], h \in owned'[w] :
          u # w \/ g # h => g \cap h = {}
    BY <1>3 DEF Separate
  <2> QED BY <2>1, <2>2, <2>3 DEF Separate
<1>15. Accounted' BY <1>1, <1>3, <1>5, <1>6 DEF Accounted
<1> QED BY <1>7, <1>8, <1>9, <1>10, <1>11, <1>12, <1>13, <1>14, <1>15

(* A nonempty set of pages has a first page. *)
LEMMA FirstPage ==
  ASSUME NEW S \in SUBSET Nat, S # {}
  PROVE  \E p \in S : \A q \in S : p <= q
<1>1. IsWellFoundedOn(OpToRel(<, Nat), Nat) BY NatLessThanWellFounded
<1>2. PICK p \in S : \A q \in S : ~(<<q, p>> \in OpToRel(<, Nat)) BY <1>1, WFMin
<1>3. ASSUME NEW q \in S PROVE p <= q
  <2>1. p \in Nat /\ q \in Nat OBVIOUS
  <2>2. ~(q < p) BY <1>2, <2>1 DEF OpToRel
  <2> QED BY <2>1, <2>2
<1> QED BY <1>3

LEMMA ResetPreserves ==
  ASSUME IInv, Constants, NEW t \in Threads, Reset(t)
  PROVE  IInv'
<1> USE DEF IInv
<1> DEFINE left == op[t].left
<1>1. op[t].pc = "reset" /\ op[t] \in Freeing
  BY DEF Reset, TypeOK, Call, Freeing, Idle
<1>2. left \in SUBSET Nat /\ left # {} BY <1>1 DEF Freeing, Ranges, InRange
<1>3. PICK page \in left :
        /\ used' = used \ {page}
        /\ op' = [op EXCEPT ![t] = IF left = {page} THEN Idle ELSE [op[t] EXCEPT !.left = @ \ {page}]]
  <2>1. \E p \in left : \A q \in left : p <= q BY <1>2, FirstPage
  <2> DEFINE page == CHOOSE p \in left : \A q \in left : p <= q
  <2>2. page \in left BY <2>1
  <2> QED BY <2>2 DEF Reset
<1>4. UNCHANGED <<pools, lock, owned, failed>> BY DEF Reset
<1>5. PICK x \in {Idle} \cup Freeing :
        /\ op' = [op EXCEPT ![t] = x]
        /\ \/ x = Idle /\ left = {page}
           \/ x.pc = "reset" /\ x.left = left \ {page} /\ left # {page}
  <2> DEFINE y == [op[t] EXCEPT !.left = @ \ {page}]
  <2>1. y \in Freeing /\ y.pc = "reset" /\ y.left = left \ {page} BY <1>1 DEF Freeing
  <2>2. op' = [op EXCEPT ![t] = IF left = {page} THEN Idle ELSE y] BY <1>3
  <2> HIDE DEF y
  <2> QED BY <2>1, <2>2
<1>6. op'[t] = x BY <1>5 DEF TypeOK
<1>7. Claimed(t) = left /\ Claimed(t)' = left \ {page} /\ Found(t)' = {} /\ ~InCall(t)'
  BY <1>1, <1>5, <1>6 DEF Claimed, Found, InCall, Idle
<1>8. \A u \in Threads \ {t} : /\ op'[u] = op[u] /\ Claimed(u)' = Claimed(u)
                              /\ Found(u)' = Found(u) /\ InCall(u)' = InCall(u)
  BY <1>5, Others
<1>9. /\ \A u \in Threads \ {t} : page \notin Claimed(u)
      /\ \A u \in Threads : page \notin UNION owned[u]
  BY <1>7 DEF Separate
<1>10. TypeOK' BY <1>3, <1>4, <1>5 DEF TypeOK
<1>11. Locked' BY <1>4, <1>7, <1>8 DEF Locked
<1>12. PoolsApart' BY <1>4 DEF PoolsApart, PagesOf
<1>13. Ranges'
  <2>1. ASSUME NEW u \in Threads, u # t
        PROVE  InRange(u)'
    <3>1. InRange(u) /\ op'[u] = op[u] /\ Found(u)' = Found(u) /\ InCall(u)' = InCall(u)
      BY <1>8, <2>1 DEF Ranges
    <3> QED BY <1>4, <3>1 DEF InRange, PagesOf
  <2>2. InRange(t)'
    <3>1. x.pc \in {"idle", "reset"} /\ (x.pc = "reset" => x.left # {})
      BY <1>3, <1>5 DEF Idle
    <3>2. {} \notin owned'[t] BY <1>4 DEF Ranges, InRange
    <3> QED BY <1>6, <1>7, <3>1, <3>2 DEF InRange
  <2> QED BY <2>1, <2>2 DEF Ranges
<1>14. FoundFree' BY <1>3, <1>7, <1>8 DEF FoundFree
<1>15. Marked' BY <1>3, <1>4, <1>7, <1>8, <1>9 DEF Marked
<1>16. Separate' BY <1>4, <1>7, <1>8 DEF Separate
<1>17. Accounted' BY <1>3, <1>4, <1>7, <1>8 DEF Accounted
<1> QED BY <1>4, <1>10, <1>11, <1>12, <1>13, <1>14, <1>15, <1>16, <1>17

LEMMA NextIInv ==
  ASSUME IInv, Constants, [Next]_vars
  PROVE  IInv'
<1>1. CASE UNCHANGED vars
  <2>1. UNCHANGED <<pools, used, lock, op, owned, failed>> BY <1>1 DEF vars
  <2>2. \A k \in Kinds : PagesOf(k)' = PagesOf(k) BY <2>1 DEF PagesOf
  <2>3. \A t \in Threads : /\ Claimed(t)' = Claimed(t) /\ Found(t)' = Found(t)
                           /\ InCall(t)' = InCall(t) /\ InRange(t)' = InRange(t)
    BY <2>1 DEF Claimed, Found, InCall, InRange, PagesOf
  <2>4. TypeOK' /\ Locked' /\ PoolsApart'
    BY <2>1, <2>3 DEF IInv, TypeOK, Locked, PoolsApart, PagesOf
  <2>5. Ranges' /\ FoundFree' /\ Marked' /\ Separate' /\ Accounted'
    BY <2>1, <2>3 DEF IInv, Ranges, FoundFree, Marked, Separate, Accounted
  <2> QED BY <2>1, <2>4, <2>5 DEF IInv
<1>2. CASE Next
  BY <1>2, GetPreserves, ScanPreserves, FlipPreserves, ReleasePreserves, FreePreserves,
     ResetPreserves DEF Next
<1> QED BY <1>1, <1>2

(* For any threads, pool sizes and numbers of pages, and however the calls *)
(* of palloc_get_multiple and the unlocked palloc_free_multiple interleave, *)
(* no page is given out twice, a page given out is marked, the assertion   *)
(* of palloc_free_multiple holds, and no page stays marked that nobody has. *)
THEOREM PagesKept ==
  ASSUME Constants
  PROVE  Spec => [](PagesNotShared /\ NoPageLost)
<1>1. Init => IInv BY InitIInv
<1>2. IInv /\ [Next]_vars => IInv' BY NextIInv
<1>3. IInv => PagesNotShared /\ NoPageLost
  <2> SUFFICES ASSUME IInv PROVE PagesNotShared /\ NoPageLost OBVIOUS
  <2>1. PagesNotShared BY DEF IInv, PagesNotShared, Separate, Marked
  <2>2. ASSUME \A t \in Threads : op[t] = Idle
        PROVE  used = UNION {UNION owned[t] : t \in Threads}
    <3>1. \A t \in Threads : Claimed(t) = {} BY <2>2 DEF Claimed, Idle
    <3> QED BY <3>1 DEF IInv, Accounted, Marked
  <2> QED BY <2>1, <2>2 DEF NoPageLost
<1> QED BY <1>1, <1>2, <1>3, PTL DEF Spec

=============================================================================
