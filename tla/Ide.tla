-------------------------------- MODULE Ide --------------------------------
(***************************************************************************)
(* devices/ide.c: one ATA channel with two disks, the threads that read    *)
(* and write sectors, the interrupt handler, and the disks themselves as   *)
(* the driver sees them.  The channel's lock, semaphore and registers are  *)
(* shared; threads run with interrupts on, so every access is a step.      *)
(***************************************************************************)
EXTENDS Naturals, FiniteSets

CONSTANTS Threads, NULL,
          Disks, Sectors, Values,
          MaxCalls  \* bound on the calls

VARIABLES media,     \* external: what each disk holds
          device,    \* external: per disk its state, the sector it works on
          selected,  \* external: the disk of the device register
          irq,       \* external: the channel's interrupt line is raised
          holder,    \* c->lock
          expecting_interrupt,
          completion_wait,  \* the semaphore's value
          call,      \* per thread, the call it is in
          calls,     \* calls so far
          panicked

vars == <<media, device, selected, irq, holder, expecting_interrupt, completion_wait,
          call, calls, panicked>>

Idle == [pc |-> "idle"]

Init ==
  /\ media \in [Disks -> [Sectors -> {CHOOSE v \in Values : TRUE}]]
  /\ device = [d \in Disks |-> [state |-> "idle", sector |-> NULL, buffer |-> NULL]]
  /\ selected = NULL
  /\ irq = FALSE
  /\ holder = NULL
  /\ expecting_interrupt = FALSE
  /\ completion_wait = 0
  /\ call = [t \in Threads |-> Idle]
  /\ calls = 0
  /\ panicked = FALSE

Goto(t, pc) == call' = [call EXCEPT ![t].pc = pc]

(* BSY and DRQ of the selected disk's status register *)
BSY(d) == device[d].state \in {"reading", "starting", "writing"}
DRQ(d) == device[d].state \in {"data_in", "data_out"}

Start(t, op, d, s, v) ==
  /\ call[t] = Idle /\ calls < MaxCalls
  /\ call' = [call EXCEPT ![t] = [pc |-> "lock", op |-> op, disk |-> d, sector |-> s,
                                  buffer |-> v]]
  /\ calls' = calls + 1
  /\ UNCHANGED <<media, device, selected, irq, holder, expecting_interrupt,
                 completion_wait, panicked>>

lock_acquire(t) ==
  /\ call[t].pc = "lock" /\ holder = NULL
  /\ holder' = t
  /\ Goto(t, "select")
  /\ UNCHANGED <<media, device, selected, irq, expecting_interrupt, completion_wait,
                 calls, panicked>>

(* select_sector: wait_until_idle, which clears a pending interrupt as it  *)
(* reads the status register, select_device and the sector registers.  The *)
(* wait gives up after a while with a message only, so it guards nothing.  *)
select_sector(t) ==
  /\ call[t].pc = "select"
  /\ selected' = call[t].disk
  /\ irq' = FALSE
  /\ device' = [device EXCEPT ![call[t].disk].sector = call[t].sector]
  /\ Goto(t, "issue")
  /\ UNCHANGED <<media, holder, expecting_interrupt, completion_wait, calls, panicked>>

(* issue_pio_command *)
issue_pio_command(t) ==
  /\ call[t].pc = "issue"
  /\ expecting_interrupt' = TRUE
  /\ device' = [device EXCEPT ![selected].state =
                  IF call[t].op = "read" THEN "reading" ELSE "starting"]
  /\ Goto(t, IF call[t].op = "read" THEN "down" ELSE "busy")
  /\ UNCHANGED <<media, selected, irq, holder, completion_wait, calls, panicked>>

(* A variant of sema_down that does not wait. *)
sema_down_skipped(t) ==
  /\ call[t].pc = "down"
  /\ completion_wait' = 0
  /\ Goto(t, IF call[t].op = "read" THEN "busy" ELSE "unlock")
  /\ UNCHANGED <<media, device, selected, irq, holder, expecting_interrupt, calls, panicked>>

sema_down(t) ==
  /\ call[t].pc = "down" /\ completion_wait > 0
  /\ completion_wait' = completion_wait - 1
  /\ Goto(t, IF call[t].op = "read" THEN "busy" ELSE "unlock")
  /\ UNCHANGED <<media, device, selected, irq, holder, expecting_interrupt, calls, panicked>>

(* wait_while_busy returns DRQ once BSY is clear; the call panics if it is *)
(* not set.                                                                *)
wait_while_busy(t) ==
  /\ call[t].pc = "busy" /\ ~BSY(selected)
  /\ IF DRQ(selected) THEN Goto(t, "data") /\ UNCHANGED panicked
     ELSE panicked' = TRUE /\ UNCHANGED call
  /\ UNCHANGED <<media, device, selected, irq, holder, expecting_interrupt, completion_wait,
                 calls>>

(* input_sector and output_sector *)
input_sector(t) ==
  /\ call[t].pc = "data" /\ call[t].op = "read"
  /\ call' = [call EXCEPT ![t].pc = "unlock",
                          ![t].buffer = media[selected][device[selected].sector]]
  /\ device' = [device EXCEPT ![selected].state = "idle"]
  /\ UNCHANGED <<media, selected, irq, holder, expecting_interrupt, completion_wait,
                 calls, panicked>>

output_sector(t) ==
  /\ call[t].pc = "data" /\ call[t].op = "write"
  /\ device' = [device EXCEPT ![selected].state = "writing", ![selected].buffer = call[t].buffer]
  /\ Goto(t, "down")
  /\ UNCHANGED <<media, selected, irq, holder, expecting_interrupt, completion_wait,
                 calls, panicked>>

(* lock_release, and the call returns. *)
lock_release(t) ==
  /\ call[t].pc = "unlock"
  /\ holder' = NULL
  /\ call' = [call EXCEPT ![t] = Idle]
  /\ UNCHANGED <<media, device, selected, irq, expecting_interrupt, completion_wait,
                 calls, panicked>>

(* External: the reset at boot ends with an interrupt. *)
ResetInterrupt ==
  /\ calls = 0 /\ ~irq
  /\ irq' = TRUE
  /\ UNCHANGED <<media, device, selected, holder, expecting_interrupt, completion_wait,
                 call, calls, panicked>>

(* External: a disk has the data, is ready for it, or has written it; the  *)
(* first and the last raise an interrupt.                                  *)
DeviceStep(d) ==
  /\ BSY(d)
  /\ device' = [device EXCEPT ![d].state = CASE @ = "reading" -> "data_in"
                                             [] @ = "starting" -> "data_out"
                                             [] @ = "writing" -> "idle"]
  /\ irq' = (irq \/ device[d].state # "starting")
  /\ media' = IF device[d].state = "writing"
              THEN [media EXCEPT ![d][device[d].sector] = device[d].buffer] ELSE media
  /\ UNCHANGED <<selected, holder, expecting_interrupt, completion_wait, call, calls, panicked>>

(* External: a command fails before any data is moved. *)
DeviceError(d) ==
  /\ device[d].state \in {"reading", "starting"}
  /\ device' = [device EXCEPT ![d].state = "idle"]
  /\ irq' = TRUE
  /\ UNCHANGED <<media, selected, holder, expecting_interrupt, completion_wait, call, calls,
                 panicked>>

(* A variant that does not up the semaphore. *)
interrupt_handler_silent ==
  /\ irq
  /\ irq' = FALSE
  /\ UNCHANGED <<media, device, selected, holder, expecting_interrupt, completion_wait, call,
                 calls, panicked>>

interrupt_handler ==
  /\ irq
  /\ irq' = FALSE
  /\ completion_wait' = IF expecting_interrupt THEN completion_wait + 1 ELSE completion_wait
  /\ UNCHANGED <<media, device, selected, holder, expecting_interrupt, call, calls, panicked>>

ThreadStep(t) ==
  \/ lock_acquire(t) \/ select_sector(t) \/ issue_pio_command(t) \/ sema_down(t)
  \/ wait_while_busy(t) \/ input_sector(t) \/ output_sector(t) \/ lock_release(t)

Next ==
  /\ ~panicked
  /\ \/ \E t \in Threads :
          \/ ThreadStep(t)
          \/ \E d \in Disks, s \in Sectors :
               \/ Start(t, "read", d, s, NULL)
               \/ \E v \in Values : Start(t, "write", d, s, v)
     \/ \E d \in Disks : DeviceStep(d) \/ DeviceError(d)
     \/ ResetInterrupt
     \/ interrupt_handler

(* Threads and handlers run when they can, and a disk answers. *)
Fairness ==
  /\ \A t \in Threads : WF_vars(~panicked /\ ThreadStep(t))
  /\ \A d \in Disks : WF_vars(~panicked /\ DeviceStep(d))
  /\ WF_vars(~panicked /\ interrupt_handler)

Spec == Init /\ [][Next]_vars /\ Fairness

(***************************************************************************)
(* Properties.                                                             *)
(***************************************************************************)
(* When ide_read returns, its buffer holds what the disk holds in that     *)
(* sector, and when ide_write returns the disk holds the caller's data:    *)
(* "Returns after the disk has acknowledged receiving the data".           *)
TransfersRight ==
  \A t \in Threads : call[t].pc = "unlock" =>
    call[t].buffer = media[call[t].disk][call[t].sector]

(* While no thread has the channel, no completion is left over for the     *)
(* next command to take for its own: the semaphore is 0, no interrupt of a *)
(* command is pending and both disks are idle.                             *)
ChannelQuiet ==
  holder = NULL /\ calls > 0 /\ ~panicked =>
    /\ completion_wait = 0
    /\ irq => ~expecting_interrupt
    /\ \A d \in Disks : ~BSY(d) /\ ~DRQ(d)

Returned(t) == call[t] = Idle \/ panicked

(* Every call returns, unless the kernel panics over a failed command. *)
CallsReturn == \A t \in Threads : []<>Returned(t)

=============================================================================
