-------------------------------- MODULE Intq --------------------------------
(***************************************************************************)
(* devices/intq.c: the circular buffer that threads share with interrupt   *)
(* handlers, as operators on a queue q.  A queue holds INTQ_BUFSIZE - 1    *)
(* bytes; head is where the next one goes, tail where the oldest is.  Its  *)
(* lock lets one thread at a time wait, and the two waiter fields name the *)
(* thread that does.                                                       *)
(***************************************************************************)
EXTENDS Naturals, Sequences

CONSTANTS INTQ_BUFSIZE, NULL

Queue(Byte, Thread) ==
  [buf : [0 .. INTQ_BUFSIZE - 1 -> Byte \cup {NULL}],
   head : 0 .. INTQ_BUFSIZE - 1, tail : 0 .. INTQ_BUFSIZE - 1,
   holder : Thread \cup {NULL},
   not_full : Thread \cup {NULL}, not_empty : Thread \cup {NULL}]

intq_init ==
  [buf |-> [i \in 0 .. INTQ_BUFSIZE - 1 |-> NULL], head |-> 0, tail |-> 0,
   holder |-> NULL, not_full |-> NULL, not_empty |-> NULL]

next(pos) == (pos + 1) % INTQ_BUFSIZE

intq_empty(q) == q.head = q.tail

intq_full(q) == next(q.head) = q.tail

(* The byte intq_getc returns, and the queue it leaves.  The waiter it     *)
(* signals is q.not_full.                                                  *)
Oldest(q) == q.buf[q.tail]

Getc(q) == [q EXCEPT !.tail = next(@), !.not_full = NULL]

(* The queue after intq_putc, which signals q.not_empty. *)
Putc(q, byte) ==
  [q EXCEPT !.buf[q.head] = byte, !.head = next(@), !.not_empty = NULL]

(* The bytes in the queue, oldest first. *)
Contents(q) ==
  [i \in 1 .. (q.head + INTQ_BUFSIZE - q.tail) % INTQ_BUFSIZE |->
     q.buf[(q.tail + i - 1) % INTQ_BUFSIZE]]
=============================================================================
