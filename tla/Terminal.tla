------------------------------ MODULE Terminal ------------------------------
(***************************************************************************)
(* The kernel's terminal: threads that read keys with input_getc and print *)
(* through the console (lib/kernel/console.c), the input buffer and the    *)
(* transmit queue (devices/input.c, devices/intq.c), and the serial port   *)
(* with its interrupt handler (devices/serial.c).                          *)
(*                                                                         *)
(* An action is a stretch of code with interrupts off, up to the point     *)
(* where its thread blocks, yields or turns them on.  The scheduler may    *)
(* run any thread that is not blocked, so there is no running thread.      *)
(***************************************************************************)
EXTENDS Intq

CONSTANTS Readers, Writers,
          Keys,         \* the bytes that come in
          Line,         \* the number of characters a printf prints
          MaxOut, MaxKeys  \* bounds: printing started by chance, bytes received

VARIABLES mode,       \* of the serial port: "UNINIT", "POLL", "QUEUE"
          buffer,     \* input.c's queue of keys
          txq,        \* serial.c's queue of characters to send
          ier, rbr, thr,  \* the UART: interrupts enabled, received byte, sender
          console,    \* console_lock's holder, its depth, use_console_lock
          pc,
          todo,       \* per writer, the characters left in each printf it is in
          halted,     \* "no", after a panic, or after a failed assertion
          out, sent,  \* history: characters printed, characters given to the UART
          typed, got  \* history: bytes put into the input buffer, bytes read

uart == <<ier, rbr, thr>>
queues == <<buffer, txq>>
histories == <<out, sent, typed, got>>
vars == <<mode, buffer, txq, ier, rbr, thr, console, pc, todo, halted,
          out, sent, typed, got>>

Threads == Readers \cup Writers

(***************************************************************************)
(* start    a reader before input_getc, a writer before acquire_console    *)
(* lock     in lock_acquire of the queue's lock, which is taken            *)
(* wait     blocked in wait, named by the queue's waiter field             *)
(* woken    unblocked by signal, before lock_release                       *)
(* retry    back from lock_release, which yields, at the head of the loop  *)
(* put      a writer before serial_putc, vga after it, release after all   *)
(*          characters, done after printf                                 *)
(***************************************************************************)
PCs == {"start", "lock", "wait", "woken", "retry", "put", "vga", "release", "done"}

(* A character is named after who printed it; a writer prints one line. *)
Chars == Writers \cup {"boot", "intr", "panic"}

TypeOK ==
  /\ mode \in {"UNINIT", "POLL", "QUEUE"}
  /\ buffer \in Queue(Keys, Readers)
  /\ txq \in Queue(Chars, Writers)
  /\ ier \in [xmit : BOOLEAN, recv : BOOLEAN]
  /\ rbr \in Keys \cup {NULL} /\ thr \in {"empty", "busy"}
  /\ console \in [holder : Writers \cup {NULL}, depth : Nat, use : BOOLEAN]
  /\ pc \in [Threads -> PCs]
  /\ todo \in [Writers -> Seq(0 .. Line)]
  /\ halted \in {"no", "panic", "assert"}

Init ==
  /\ mode = "UNINIT"
  /\ buffer = intq_init /\ txq = intq_init
  /\ ier = [xmit |-> FALSE, recv |-> FALSE] /\ rbr = NULL /\ thr = "empty"
  /\ console = [holder |-> NULL, depth |-> 0, use |-> TRUE]
  /\ pc = [t \in Threads |-> "start"]
  /\ todo = [w \in Writers |-> <<>>]
  /\ halted = "no"
  /\ out = <<>> /\ sent = <<>> /\ typed = <<>> /\ got = <<>>

Running == mode = "QUEUE" /\ halted = "no"

Goto(t, label) == pc' = [pc EXCEPT ![t] = label]

(* signal: the waiting thread, if there is one, is unblocked. *)
signal(waiter) == IF waiter = NULL THEN pc ELSE [pc EXCEPT ![waiter] = "woken"]

write_ier(tx, in) == [xmit |-> ~ intq_empty(tx), recv |-> ~ intq_full(in)]

serial_notify(in) == ier' = write_ier(txq, in)
-----------------------------------------------------------------------------
(* Threads that wait for a queue.                                          *)

(* The first half of the loop's body, when the queue is empty for a reader *)
(* or full for a writer: lock_acquire, and wait if the lock was free.      *)
BlockOnEmpty(t) ==
  IF buffer.holder = NULL
  THEN /\ buffer' = [buffer EXCEPT !.holder = t, !.not_empty = t]
       /\ Goto(t, "wait")
  ELSE Goto(t, "lock") /\ UNCHANGED buffer

(* Only the console's holder writes, so the queue's lock is free. *)
BlockOnFull(t) ==
  /\ txq.holder = NULL
  /\ txq' = [txq EXCEPT !.holder = t, !.not_full = t]
  /\ Goto(t, "wait")

(* lock_acquire returns to a thread that had to wait for the lock; wait    *)
(* asserts that the queue is still empty.                                  *)
GetLock(t) ==
  /\ Running /\ pc[t] = "lock" /\ buffer.holder = NULL
  /\ IF intq_empty(buffer)
     THEN /\ buffer' = [buffer EXCEPT !.holder = t, !.not_empty = t]
          /\ Goto(t, "wait")
          /\ UNCHANGED halted
     ELSE /\ halted' = "assert"
          /\ UNCHANGED <<buffer, pc>>
  /\ UNCHANGED <<mode, txq, uart, console, todo, histories>>

(* lock_release after wait returned. *)
LockRelease(t) ==
  /\ Running /\ pc[t] = "woken"
  /\ IF t \in Readers
     THEN buffer' = [buffer EXCEPT !.holder = NULL] /\ UNCHANGED txq
     ELSE txq' = [txq EXCEPT !.holder = NULL] /\ UNCHANGED buffer
  /\ Goto(t, "retry")
  /\ UNCHANGED <<mode, uart, console, todo, halted, histories>>

(* A variant that does not tell the serial port about the room it made. *)
input_getc_silent(r) ==
  /\ Running /\ pc[r] \in {"start", "retry"}
  /\ IF intq_empty(buffer)
     THEN BlockOnEmpty(r) /\ UNCHANGED <<ier, got>>
     ELSE /\ got' = Append(got, Oldest(buffer))
          /\ buffer' = Getc(buffer)
          /\ UNCHANGED ier
          /\ pc' = [pc EXCEPT ![r] = "start"]
  /\ UNCHANGED <<mode, txq, rbr, thr, console, todo, halted, out, sent, typed>>

input_getc(r) ==
  /\ Running /\ pc[r] \in {"start", "retry"}
  /\ IF intq_empty(buffer)
     THEN BlockOnEmpty(r) /\ UNCHANGED <<ier, got>>
     ELSE /\ got' = Append(got, Oldest(buffer))
          /\ buffer' = Getc(buffer)
          /\ serial_notify(buffer')
          /\ pc' = [pc EXCEPT ![r] = "start"]
  /\ UNCHANGED <<mode, txq, rbr, thr, console, todo, halted, out, sent, typed>>
-----------------------------------------------------------------------------
(* The console.                                                            *)

(* A writer calls printf: acquire_console. *)
acquire_console(w) ==
  /\ Running /\ pc[w] = "start"
  /\ console.holder = NULL
  /\ console' = [console EXCEPT !.holder = w]
  /\ todo' = [todo EXCEPT ![w] = <<Line>>]
  /\ Goto(w, "put")
  /\ UNCHANGED <<mode, queues, uart, halted, histories>>

(* With interrupts on again after serial_putc, the thread may be made to   *)
(* print something else before it goes on.                                 *)
NestedPrintf(w) ==
  /\ Running /\ pc[w] = "vga" /\ Len(todo[w]) = 1 /\ Len(out) < MaxOut
  /\ console' = [console EXCEPT !.depth = @ + 1]
  /\ todo' = [todo EXCEPT ![w] = <<1>> \o @]
  /\ Goto(w, "put")
  /\ UNCHANGED <<mode, queues, uart, halted, histories>>

(* release_console; a nested printf returns to the one it interrupted. *)
release_console(w) ==
  /\ Running /\ pc[w] = "release"
  /\ console' = IF console.depth > 0 THEN [console EXCEPT !.depth = @ - 1]
                ELSE [console EXCEPT !.holder = NULL]
  /\ todo' = [todo EXCEPT ![w] = Tail(@)]
  /\ Goto(w, IF Len(todo[w]) = 1 THEN "done" ELSE "vga")
  /\ UNCHANGED <<mode, queues, uart, halted, histories>>

(* serial_putc with interrupts on: it waits when the queue is full. *)
serial_putc(w) ==
  /\ Running /\ pc[w] \in {"put", "retry"}
  /\ IF intq_full(txq)
     THEN BlockOnFull(w) /\ UNCHANGED <<ier, out>>
     ELSE /\ txq' = Putc(txq, w)
          /\ out' = Append(out, w)
          /\ ier' = write_ier(txq', buffer)
          /\ Goto(w, "vga")
  /\ UNCHANGED <<mode, buffer, rbr, thr, console, todo, halted, sent, typed, got>>

(* vga_putc, which keeps interrupts off, ends putchar_have_lock. *)
vga_putc(w) ==
  /\ Running /\ pc[w] = "vga"
  /\ todo' = [todo EXCEPT ![w][1] = @ - 1]
  /\ Goto(w, IF todo[w][1] = 1 THEN "release" ELSE "put")
  /\ UNCHANGED <<mode, queues, uart, console, halted, histories>>
-----------------------------------------------------------------------------
(* Printing with interrupts off.                                           *)

(* putc_poll of the queue's oldest character: what is left to send and     *)
(* what was sent.                                                          *)
PollOne(s) == [q |-> Getc(s.q), sent |-> Append(s.sent, Oldest(s.q))]


(* serial_putc with interrupts off: room is made by polling. *)
serial_putc_off(s, c) ==
  LET room == IF intq_full(s.q) THEN PollOne(s) ELSE s
  IN  [room EXCEPT !.q = Putc(@, c)]

(* An interrupt handler prints; acquire_console does nothing there. *)
IntrPrintf ==
  /\ Running
  /\ Len(out) < MaxOut
  /\ LET s == serial_putc_off([q |-> txq, sent |-> sent], "intr")
     IN  /\ txq' = s.q /\ sent' = s.sent
         /\ pc' = IF intq_full(txq) THEN signal(txq.not_full) ELSE pc
         /\ thr' = IF intq_full(txq) THEN "busy" ELSE thr
  /\ ier' = write_ier(txq', buffer)
  /\ out' = Append(out, "intr")
  /\ UNCHANGED <<mode, buffer, rbr, console, todo, halted, typed, got>>

(* debug_panic: interrupts go off, console_panic lets the message through  *)
(* without the lock, serial_flush polls the queue out and the machine      *)
(* stops.                                                                  *)
Panic ==
  /\ Running
  /\ console' = [console EXCEPT !.use = FALSE]
  /\ LET s == serial_putc_off([q |-> txq, sent |-> sent], "panic")
     IN  /\ sent' = s.sent \o Contents(s.q)
         /\ txq' = [s.q EXCEPT !.tail = s.q.head, !.not_full = NULL]
         /\ pc' = signal(txq.not_full)
  /\ out' = Append(out, "panic")
  /\ thr' = "busy"
  /\ ier' = write_ier(txq', buffer)
  /\ halted' = "panic"
  /\ UNCHANGED <<mode, buffer, rbr, todo, typed, got>>

(* Output before serial_init_queue is polled; the first of it runs         *)
(* init_poll.                                                              *)
EarlyPutc ==
  /\ mode # "QUEUE" /\ Len(out) < MaxOut
  /\ mode' = "POLL"
  /\ out' = Append(out, "boot") /\ sent' = Append(sent, "boot")
  /\ thr' = "busy"
  /\ UNCHANGED <<queues, ier, rbr, console, pc, todo, halted, typed, got>>

serial_init_queue ==
  /\ mode # "QUEUE"
  /\ mode' = "QUEUE"
  /\ ier' = write_ier(txq, buffer)
  /\ UNCHANGED <<queues, rbr, thr, console, pc, todo, halted, histories>>
-----------------------------------------------------------------------------
(* Interrupts and the hardware behind them.                                *)

(* serial_interrupt: a received byte goes into the input buffer if there   *)
(* is room, and n queued characters go out, as many as the UART takes.     *)
SerialInterrupt(n) ==
  /\ Running
  /\ (ier.recv /\ rbr # NULL) \/ (ier.xmit /\ thr = "empty")
  /\ LET take == rbr # NULL /\ ~ intq_full(buffer)
     IN  /\ buffer' = IF take THEN Putc(buffer, rbr) ELSE buffer
         /\ typed' = IF take THEN Append(typed, rbr) ELSE typed
         /\ rbr' = IF take THEN NULL ELSE rbr
         /\ pc' = LET p == IF take THEN signal(buffer.not_empty) ELSE pc
                  IN  IF n > 0 /\ txq.not_full # NULL
                      THEN [p EXCEPT ![txq.not_full] = "woken"] ELSE p
  /\ IF thr = "empty" /\ ~ intq_empty(txq)
     THEN /\ n \in 1 .. Len(Contents(txq))
          /\ sent' = sent \o SubSeq(Contents(txq), 1, n)
          /\ txq' = [txq EXCEPT !.tail = (@ + n) % INTQ_BUFSIZE, !.not_full = NULL]
          /\ thr' = "busy"
     ELSE n = 0 /\ UNCHANGED <<sent, txq, thr>>
  /\ ier' = write_ier(txq', buffer')
  /\ UNCHANGED <<mode, console, todo, halted, out, got>>

(* The keyboard's handler: a key is put into the buffer if it has room. *)
KeyboardInterrupt(key) ==
  /\ Running /\ Len(typed) < MaxKeys
  /\ ~ intq_full(buffer)
  /\ buffer' = Putc(buffer, key)
  /\ typed' = Append(typed, key)
  /\ serial_notify(buffer')
  /\ pc' = signal(buffer.not_empty)
  /\ UNCHANGED <<mode, txq, rbr, thr, console, todo, halted, out, sent, got>>

(* A byte arrives at the UART, over one that was not fetched. *)
Receive(key) ==
  /\ Running /\ Len(typed) < MaxKeys
  /\ rbr' = key
  /\ UNCHANGED <<mode, queues, ier, thr, console, pc, todo, halted, histories>>

(* The UART has sent what it was given. *)
Transmitted ==
  /\ thr = "busy" /\ halted = "no"
  /\ thr' = "empty"
  /\ UNCHANGED <<mode, queues, ier, rbr, console, pc, todo, halted, histories>>

ReaderStep(r) == input_getc(r) \/ GetLock(r) \/ LockRelease(r)

WriterStep(w) ==
  \/ acquire_console(w) \/ serial_putc(w) \/ vga_putc(w) \/ release_console(w)
  \/ LockRelease(w)

Next ==
  \/ \E r \in Readers : input_getc(r) \/ GetLock(r)
  \/ \E w \in Writers : \/ acquire_console(w) \/ NestedPrintf(w)
                        \/ serial_putc(w) \/ vga_putc(w) \/ release_console(w)
  \/ \E t \in Threads : LockRelease(t)
  \/ IntrPrintf \/ Panic \/ EarlyPutc \/ serial_init_queue
  \/ \E n \in 0 .. INTQ_BUFSIZE - 1 : SerialInterrupt(n)
  \/ \E key \in Keys : KeyboardInterrupt(key) \/ Receive(key)
  \/ Transmitted

Spec == Init /\ [][Next]_vars

(* Every thread that is ready gets to run, pending interrupts are taken    *)
(* and the UART goes on sending.                                           *)
Fairness ==
  /\ \A r \in Readers : WF_vars(ReaderStep(r))
  /\ \A w \in Writers : WF_vars(WriterStep(w))
  /\ WF_vars(\E n \in 0 .. INTQ_BUFSIZE - 1 : SerialInterrupt(n))
  /\ WF_vars(Transmitted)
  /\ WF_vars(serial_init_queue)

FairSpec == Spec /\ Fairness
-----------------------------------------------------------------------------
(* Every character printed is sent once and in order, whichever way it was *)
(* sent: from the handler, polled for lack of room or at a panic.          *)
OutputInOrder == sent \o Contents(txq) = out

(* What the threads read is what came in, in order, nothing lost once it   *)
(* is in the buffer.                                                       *)
InputInOrder == got \o Contents(buffer) = typed

(* The port's interrupts stay enabled exactly for what the queues allow:   *)
(* write_ier is called wherever a queue changed.                           *)
IerTracksQueues == Running => ier = write_ier(txq, buffer)

(* A thread waits only while there is a reason to, and the queue it waits  *)
(* for knows it: no wakeup is lost, and lock holders are the waiters.      *)
WaitersKnown ==
  \A t \in Threads :
    /\ pc[t] = "wait" =>
         IF t \in Readers THEN buffer.not_empty = t /\ intq_empty(buffer)
         ELSE txq.not_full = t /\ intq_full(txq)
    /\ pc[t] \in {"wait", "woken"} <=> t \in {buffer.holder, txq.holder}

(* Lines of two threads are not mixed; only interrupt handlers print in    *)
(* the middle of one ("the console lock").                                 *)
LinesNotMixed ==
  \A i, k \in 1 .. Len(out) :
    i < k /\ out[i] = out[k] /\ out[i] \in Writers =>
      \A j \in i .. k : out[j] \in {out[i], "intr"}

(* The assertions of intq.c's wait hold: a thread that gets the queue's    *)
(* lock still has to wait.                                                 *)
AssertionsHold == halted # "assert"

AllSent == sent = out

(* What is printed is sent: the queue never stays full of characters.      *)
EverythingSent == []<>AllSent

ByteTaken == rbr = NULL \/ halted # "no"

(* A received byte does not stay in the UART: readers that make room have  *)
(* its interrupt enabled again.                                            *)
DeviceDrained == []<>ByteTaken

Printed(w) == pc[w] = "done" \/ halted # "no"

(* Every thread that wants to print gets its line out.                     *)
LinesPrinted == \A w \in Writers : <>Printed(w)
=============================================================================
