------------------------------- MODULE Loader -------------------------------
(***************************************************************************)
(* userprog/process.c: what validate_segment accepts and what load makes   *)
(* of a loadable program header, in 32-bit arithmetic scaled to Word.      *)
(* Byte k of the file is the number k + 1, so that it differs from zero.   *)
(***************************************************************************)
EXTENDS Naturals, FiniteSets

CONSTANTS PGSIZE, Word, PHYS_BASE, FileLength,
          Offsets, Vaddrs, Filesizes, Memsizes   \* the headers tried

VARIABLES phdr,     \* the program header
          result    \* what load did with it

lvars == <<phdr, result>>

Unloaded == [accepted |-> FALSE, ok |-> FALSE, asserts |-> TRUE, image |-> <<>>]

LInit ==
  /\ phdr \in [offset : Offsets, vaddr : Vaddrs, filesz : Filesizes, memsz : Memsizes]
  /\ result = [done |-> FALSE, load |-> Unloaded]

is_user_vaddr(a) == a < PHYS_BASE
Plus(a, b) == (a + b) % Word
Minus(a, b) == (a + Word - b) % Word
pg_ofs(a) == a % PGSIZE
pg_round_down(a) == (a \div PGSIZE) * PGSIZE
ROUND_UP(a) == (Plus(a, PGSIZE - 1) \div PGSIZE) * PGSIZE

(* A variant that trusts the end of the region. *)
validate_segment_wrapping(h) ==
  /\ pg_ofs(h.offset) = pg_ofs(h.vaddr)
  /\ h.offset <= FileLength
  /\ h.memsz >= h.filesz
  /\ h.memsz # 0
  /\ is_user_vaddr(h.vaddr)
  /\ is_user_vaddr(Plus(h.vaddr, h.memsz))
  /\ h.vaddr >= PGSIZE

validate_segment(h) ==
  /\ pg_ofs(h.offset) = pg_ofs(h.vaddr)
  /\ h.offset <= FileLength
  /\ h.memsz >= h.filesz
  /\ h.memsz # 0
  /\ is_user_vaddr(h.vaddr)
  /\ is_user_vaddr(Plus(h.vaddr, h.memsz))
  /\ Plus(h.vaddr, h.memsz) >= h.vaddr
  /\ h.vaddr >= PGSIZE

(* What load asks load_segment to read and to zero. *)
read_bytes(h) == IF h.filesz > 0 THEN Plus(pg_ofs(h.vaddr), h.filesz) ELSE 0
zero_bytes(h) == Minus(ROUND_UP(Plus(pg_ofs(h.vaddr), h.memsz)), read_bytes(h))

(* load_segment: whole pages from UPAGE on, the first READ of their bytes  *)
(* from the file at OFS and the rest zero; a short read is a failure, and  *)
(* so is an address outside user space, where install_page would assert.   *)
load_segment(ofs, upage, read, zero) ==
  [accepted |-> TRUE,
   ok |-> read = 0 \/ ofs + read <= FileLength,
   asserts |-> /\ Plus(read, zero) % PGSIZE = 0
               /\ pg_ofs(upage) = 0 /\ pg_ofs(ofs) = 0
               /\ \A i \in 0 .. read + zero - 1 : is_user_vaddr(Plus(upage, i)),
   image |-> [a \in upage .. upage + read + zero - 1 |->
                IF a - upage < read THEN ofs + (a - upage) + 1 ELSE 0]]

load ==
  /\ ~result.done
  /\ result' = [done |-> TRUE,
                load |-> IF validate_segment(phdr)
                         THEN load_segment(pg_round_down(phdr.offset), pg_round_down(phdr.vaddr),
                                           read_bytes(phdr), zero_bytes(phdr))
                         ELSE Unloaded]
  /\ phdr' = phdr

LNext == load

LSpec == LInit /\ [][LNext]_lvars

(***************************************************************************)
(* Properties.                                                             *)
(***************************************************************************)
(* A segment that is loaded is in memory as the header describes it:       *)
(* filesz bytes of the file at vaddr, then zeros up to memsz.              *)
LoadedAsDescribed ==
  result.done /\ result.load.ok =>
    \A i \in 0 .. phdr.memsz - 1 :
      /\ phdr.vaddr + i \in DOMAIN result.load.image
      /\ result.load.image[phdr.vaddr + i] =
           IF i < phdr.filesz THEN phdr.offset + i + 1 ELSE 0

(* The assertions of load_segment and pagedir_set_page hold for every      *)
(* header validate_segment lets through: whole pages, all in user space,   *)
(* page 0 never among them.                                                *)
PagesInUserSpace ==
  /\ result.load.asserts
  /\ 0 \notin DOMAIN result.load.image

=============================================================================
