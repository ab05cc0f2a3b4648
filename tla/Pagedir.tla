------------------------------ MODULE Pagedir ------------------------------
(***************************************************************************)
(* userprog/pagedir.c: the bits of page table entries, which the CPU sets  *)
(* and the kernel clears, and the TLB, which caches them.  Any thread in   *)
(* the kernel may change the entries of any process, and a timer interrupt *)
(* may switch threads between the change and invalidate_pagedir.           *)
(***************************************************************************)
EXTENDS Naturals, FiniteSets

CONSTANTS NULL, main, Procs, VPages

AllThreads == {main} \cup Procs

VARIABLES pte,       \* per process and virtual page, the flags of its entry:
                     \* P(resent), A(ccessed) and D(irty)
          tlb,       \* external: per virtual page, what the CPU caches of the
                     \* active directory: nothing, or that it is "cached",
                     \* perhaps with D
          running,   \* whose directory is the active one, unless it is main
          pending,   \* per thread, the directory it is about to invalidate
          used       \* history: A and D for accesses and writes since the
                     \* flags were last cleared

vars == <<pte, tlb, running, pending, used>>

EmptyTlb == [v \in VPages |-> {}]

Init ==
  /\ pte = [p \in Procs |-> [v \in VPages |-> {"P"}]]
  /\ tlb = EmptyTlb
  /\ running \in AllThreads
  /\ pending = [t \in AllThreads |-> NULL]
  /\ used = [p \in Procs |-> [v \in VPages |-> {}]]

Cached(v) == "cached" \in tlb[v]

(* external: the MMU on an access by the running process.  A cached        *)
(* translation is used as it is, except that a first write through it sets *)
(* the entry's dirty bit.                                                  *)
Access(v, write) ==
  LET dirties == IF write THEN {"D"} ELSE {}
      entry == pte[running][v] \cup (IF Cached(v) THEN {} ELSE {"A"})
                               \cup (IF "D" \in tlb[v] THEN {} ELSE dirties)
  IN  /\ running \in Procs /\ pending[running] = NULL
      /\ Cached(v) \/ "P" \in pte[running][v]
      /\ pte' = [pte EXCEPT ![running][v] = entry]
      /\ tlb' = [tlb EXCEPT ![v] = IF Cached(v) THEN @ \cup dirties
                                   ELSE {"cached"} \cup (entry \cap {"D"})]
      /\ used' = [used EXCEPT ![running][v] = @ \cup {"A"} \cup dirties]
      /\ UNCHANGED <<running, pending>>

(* A switch of threads: process_activate reloads CR3, which empties the TLB. *)
pagedir_activate(t) ==
  /\ t # running
  /\ running' = t /\ tlb' = EmptyTlb
  /\ UNCHANGED <<pte, pending, used>>

(* A variant that leaves the TLB alone. *)
invalidate_pagedir_never ==
  /\ pending[running] # NULL
  /\ tlb' = tlb
  /\ pending' = [pending EXCEPT ![running] = NULL]
  /\ UNCHANGED <<pte, running, used>>

(* invalidate_pagedir, with active_pd. *)
invalidate_pagedir ==
  /\ pending[running] # NULL
  /\ tlb' = IF pending[running] = running THEN EmptyTlb ELSE tlb
  /\ pending' = [pending EXCEPT ![running] = NULL]
  /\ UNCHANGED <<pte, running, used>>

Invalidates(p) == pending' = [pending EXCEPT ![running] = p]

pagedir_clear_page(p, v) ==
  /\ pending[running] = NULL /\ "P" \in pte[p][v]
  /\ pte' = [pte EXCEPT ![p][v] = @ \ {"P"}]
  /\ Invalidates(p)
  /\ UNCHANGED <<tlb, running, used>>

(* pagedir_set_page: a fresh entry for a page that is not present. *)
pagedir_set_page(p, v) ==
  /\ pending[running] = NULL /\ "P" \notin pte[p][v]
  /\ pte' = [pte EXCEPT ![p][v] = {"P"}]
  /\ used' = [used EXCEPT ![p][v] = {}]
  /\ UNCHANGED <<tlb, running, pending>>

(* The bodies of pagedir_set_dirty and pagedir_set_accessed. *)
SetFlag(p, v, flag) ==
  /\ pending[running] = NULL
  /\ pte' = [pte EXCEPT ![p][v] = @ \cup {flag}]
  /\ UNCHANGED <<tlb, running, pending, used>>

ClearFlag(p, v, flag) ==
  /\ pending[running] = NULL
  /\ pte' = [pte EXCEPT ![p][v] = @ \ {flag}]
  /\ used' = [used EXCEPT ![p][v] = @ \ {flag}]
  /\ Invalidates(p)
  /\ UNCHANGED <<tlb, running>>

pagedir_set_dirty(p, v) == SetFlag(p, v, "D") \/ ClearFlag(p, v, "D")

pagedir_set_accessed(p, v) == SetFlag(p, v, "A") \/ ClearFlag(p, v, "A")

Next ==
  \/ \E v \in VPages, write \in BOOLEAN : Access(v, write)
  \/ \E t \in AllThreads : pagedir_activate(t)
  \/ invalidate_pagedir
  \/ \E p \in Procs, v \in VPages :
       \/ pagedir_clear_page(p, v)
       \/ pagedir_set_page(p, v)
       \/ pagedir_set_dirty(p, v) \/ pagedir_set_accessed(p, v)

Spec == Init /\ [][Next]_vars

(***************************************************************************)
(* Properties.                                                             *)
(***************************************************************************)
(* pagedir_is_dirty and pagedir_is_accessed tell the truth: a page written *)
(* or read since its bit was cleared has the bit set, whoever cleared it   *)
(* and whatever the TLB held.                                              *)
BitsNotLost ==
  \A p \in Procs, v \in VPages : used[p][v] \subseteq pte[p][v]

(* "Later accesses to the page will fault": once pagedir_clear_page        *)
(* returns, a running process has no cached translation for a page that is *)
(* not present.                                                            *)
ClearedPagesFault ==
  running \in Procs /\ pending[running] = NULL =>
    \A v \in VPages : Cached(v) => "P" \in pte[running][v]

(* What the kernel reads of a page's use, and what it has taken away, are  *)
(* true of the accesses the process makes.                                 *)
PageBitsTrue == BitsNotLost /\ ClearedPagesFault

=============================================================================
