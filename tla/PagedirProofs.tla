--------------------------- MODULE PagedirProofs ---------------------------
(***************************************************************************)
(* Proofs about Pagedir, for any processes and any pages.  BitsNotLost and *)
(* ClearedPagesFault are not inductive: they need to know when the TLB may *)
(* disagree with the page table.  It may only while the running process    *)
(* itself is between a change of its own directory and the call of         *)
(* invalidate_pagedir that follows.                                        *)
(***************************************************************************)
EXTENDS Pagedir, TLAPS

TypeOK ==
  /\ pte \in [Procs -> [VPages -> SUBSET {"P", "A", "D"}]]
  /\ tlb \in [VPages -> SUBSET {"cached", "D"}]
  /\ running \in AllThreads
  /\ pending \in [AllThreads -> Procs \cup {NULL}]
  /\ used \in [Procs -> [VPages -> SUBSET {"A", "D"}]]

(* Nothing is cached for main, which has no directory; what is cached of   *)
(* the running process agrees with its entries.                            *)
TlbAgrees ==
  /\ running \notin Procs => tlb = EmptyTlb
  /\ \A v \in VPages : tlb[v] # {} => Cached(v)
  /\ running \in Procs /\ pending[running] # running =>
       \A v \in VPages : /\ Cached(v) => {"P", "A"} \subseteq pte[running][v]
                         /\ tlb[v] \ {"cached"} \subseteq pte[running][v]

IInv == TypeOK /\ TlbAgrees /\ BitsNotLost

LEMMA InitIInv ==
  ASSUME Init
  PROVE  IInv
BY DEF Init, IInv, TypeOK, TlbAgrees, BitsNotLost, EmptyTlb, Cached

LEMMA NextIInv ==
  ASSUME main \notin Procs, NULL \notin Procs, IInv, [Next]_vars
  PROVE  IInv'
<1> USE DEF IInv, TypeOK, TlbAgrees, BitsNotLost, Cached, EmptyTlb
<1>1. ASSUME NEW v \in VPages, NEW write \in BOOLEAN, Access(v, write)
      PROVE  IInv'
  <2>1. TypeOK' BY <1>1 DEF Access
  <2>2. TlbAgrees' BY <1>1 DEF Access
  <2>3. BitsNotLost' BY <1>1 DEF Access
  <2> QED BY <2>1, <2>2, <2>3
<1>2. ASSUME NEW t \in AllThreads, pagedir_activate(t)
      PROVE  IInv'
  BY <1>2 DEF pagedir_activate
<1>3. ASSUME invalidate_pagedir
      PROVE  IInv'
  BY <1>3 DEF invalidate_pagedir
<1>4. ASSUME NEW p \in Procs, NEW v \in VPages, pagedir_clear_page(p, v)
      PROVE  IInv'
  BY <1>4 DEF pagedir_clear_page, Invalidates
<1>5. ASSUME NEW p \in Procs, NEW v \in VPages, pagedir_set_page(p, v)
      PROVE  IInv'
  BY <1>5 DEF pagedir_set_page
<1>6. ASSUME NEW p \in Procs, NEW v \in VPages, NEW f \in {"D", "A"}, SetFlag(p, v, f)
      PROVE  IInv'
  BY <1>6 DEF SetFlag
<1>7. ASSUME NEW p \in Procs, NEW v \in VPages, NEW f \in {"D", "A"}, ClearFlag(p, v, f)
      PROVE  IInv'
  BY <1>7 DEF ClearFlag, Invalidates
<1>8. CASE UNCHANGED vars
  BY <1>8 DEF vars
<1> QED
  BY <1>1, <1>2, <1>3, <1>4, <1>5, <1>6, <1>7, <1>8
  DEF Next, pagedir_set_dirty, pagedir_set_accessed

(* Whoever clears a bit or takes a page away, and wherever a timer         *)
(* interrupt switches threads before invalidate_pagedir runs, the bits     *)
(* tell the truth and a page that was cleared faults, for any number of    *)
(* processes and pages.                                                    *)
THEOREM PageBitsKept ==
  ASSUME main \notin Procs, NULL \notin Procs
  PROVE  Spec => []PageBitsTrue
<1>1. Init => IInv BY InitIInv
<1>2. IInv /\ [Next]_vars => IInv' BY NextIInv
<1>3. IInv => PageBitsTrue
  BY DEF IInv, TlbAgrees, PageBitsTrue, ClearedPagesFault
<1> QED BY <1>1, <1>2, <1>3, PTL DEF Spec

=============================================================================
