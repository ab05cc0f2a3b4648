----------------------------- MODULE Interrupt -----------------------------
(***************************************************************************)
(* threads/interrupt.c, userprog/exception.c and userprog/syscall.c: how   *)
(* interrupts, faults and system calls enter the kernel, nest on a         *)
(* thread's stack, yield on return and leave it.  Each thread has a stack  *)
(* of interrupt frames; only one thread runs, and thread_yield leaves the  *)
(* frames of the others on their stacks.                                   *)
(***************************************************************************)
EXTENDS Naturals, Sequences, FiniteSets

CONSTANTS Threads, NULL,
          Devices,     \* vectors 0x20 to 0x2f with a handler
          Strays,      \* vectors 0x20 to 0x2f without one
          Spurious,    \* 0x27 and 0x2f
          Addrs,       \* addresses that may fault
          MaxCnt       \* bound on unexpected_cnt

VARIABLES running,           \* the thread that has the CPU
          stack,             \* per thread, its interrupt frames
          IF_,               \* FLAG_IF of the CPU
          resume,            \* per thread not running, the level thread_yield restores
          in_external_intr, yield_on_return,
          in_service,        \* external: vectors the PIC waits to be acknowledged
          cr2,               \* external: the address of the last page fault
          unexpected_cnt,
          messages,          \* history: unexpected interrupts reported
          owed,              \* history: a handler asked for a yield not yet made
          failed             \* history: an assertion failed

vars == <<running, stack, IF_, resume, in_external_intr, yield_on_return, in_service, cr2,
          unexpected_cnt, messages, owed, failed>>

External == Devices \cup Strays \cup Spurious

Init ==
  /\ running \in Threads
  /\ stack = [t \in Threads |-> <<>>]
  /\ IF_ = TRUE
  /\ resume = [t \in Threads |-> TRUE]
  /\ in_external_intr = FALSE /\ yield_on_return = FALSE
  /\ in_service = {}
  /\ cr2 = NULL
  /\ unexpected_cnt = [v \in Strays |-> 0] /\ messages = [v \in Strays |-> 0]
  /\ owed = FALSE /\ failed = FALSE

Frames == stack[running]
Top == Frames[Len(Frames)]
InCode == Frames = <<>>   \* the thread's own code, not a handler
At(pc) == ~InCode /\ Top.pc = pc
Goto(pc) == stack' = [stack EXCEPT ![running][Len(Frames)].pc = pc]
Push(vec, pc, addr) ==
  stack' = [stack EXCEPT ![running] =
              Append(@, [vec |-> vec, pc |-> pc, saved |-> IF_, addr |-> addr, read |-> NULL])]

(* make_intr_gate: the gate turns interrupts off. *)
GateLevel == IF_' = FALSE

(* A device interrupts: the gate turns interrupts off, and intr_handler    *)
(* notes that it is in an external interrupt.                              *)
ExternalEntry(vec) ==
  /\ IF_ /\ in_service = {}
  /\ vec \in Strays => unexpected_cnt[vec] < MaxCnt
  /\ Push(vec, "handler", NULL)
  /\ GateLevel
  /\ in_service' = in_service \cup {vec}
  /\ failed' = (failed \/ in_external_intr)
  /\ in_external_intr' = TRUE /\ yield_on_return' = FALSE
  /\ UNCHANGED <<running, resume, cr2, unexpected_cnt, messages, owed>>

IsPowerOf2(n) == n \in {1, 2, 4, 8, 16}

(* A device's handler, which may ask to yield; a stray interrupt, which is *)
(* counted and reported rarely; or a spurious one.                         *)
HandleDevice ==
  /\ At("handler") /\ Top.vec \in Devices
  /\ \E yield \in BOOLEAN :
       /\ yield_on_return' = (yield_on_return \/ yield)
       /\ owed' = (owed \/ yield)
       /\ failed' = (failed \/ (yield /\ ~in_external_intr))
  /\ Goto("complete")
  /\ UNCHANGED <<running, IF_, resume, in_external_intr, in_service, cr2, unexpected_cnt,
                 messages>>

unexpected_interrupt ==
  /\ At("handler") /\ Top.vec \in Strays
  /\ unexpected_cnt' = [unexpected_cnt EXCEPT ![Top.vec] = @ + 1]
  /\ messages' = IF IsPowerOf2(unexpected_cnt'[Top.vec])
                 THEN [messages EXCEPT ![Top.vec] = @ + 1] ELSE messages
  /\ Goto("complete")
  /\ UNCHANGED <<running, IF_, resume, in_external_intr, yield_on_return, in_service, cr2,
                 owed, failed>>

HandleSpurious ==
  /\ At("handler") /\ Top.vec \in Spurious
  /\ Goto("complete")
  /\ UNCHANGED <<running, IF_, resume, in_external_intr, yield_on_return, in_service, cr2,
                 unexpected_cnt, messages, owed, failed>>

(* A variant that acknowledges the interrupt only after the yield. *)
CompleteExternal_late ==
  /\ At("complete")
  /\ failed' = (failed \/ IF_ \/ ~in_external_intr)
  /\ in_external_intr' = FALSE
  /\ Goto(IF yield_on_return THEN "yield" ELSE "iret")
  /\ in_service' = IF yield_on_return THEN in_service ELSE in_service \ {Top.vec}
  /\ UNCHANGED <<running, IF_, resume, yield_on_return, cr2, unexpected_cnt, messages, owed>>

(* The end of intr_handler for an external interrupt. *)
CompleteExternal ==
  /\ At("complete")
  /\ failed' = (failed \/ IF_ \/ ~in_external_intr)
  /\ in_external_intr' = FALSE
  /\ in_service' = in_service \ {Top.vec}       \* pic_end_of_interrupt
  /\ Goto(IF yield_on_return THEN "yield" ELSE "iret")
  /\ UNCHANGED <<running, IF_, resume, yield_on_return, cr2, unexpected_cnt, messages, owed>>

(* The thread switched to returns from its own thread_yield, which sets    *)
(* the level it had.                                                       *)
SwitchTo(t) == IF_' = resume[t]

(* thread_yield, called by intr_handler or by the thread itself. *)
thread_yield ==
  /\ At("yield") \/ InCode
  /\ failed' = (failed \/ in_external_intr)   \* ASSERT (!intr_context ())
  /\ owed' = FALSE
  /\ stack' = IF InCode THEN stack
              ELSE [stack EXCEPT ![running][Len(Frames)].pc = "iret"]
  /\ resume' = [resume EXCEPT ![running] = IF_]
  /\ \E t \in Threads : running' = t /\ IF t = running THEN IF_' = IF_ ELSE SwitchTo(t)
  /\ UNCHANGED <<in_external_intr, yield_on_return, in_service, cr2, unexpected_cnt, messages>>

(* intr_exit returns to the interrupted code. *)
Iret ==
  /\ At("iret")
  /\ IF_' = Top.saved
  /\ stack' = [stack EXCEPT ![running] = SubSeq(@, 1, Len(@) - 1)]
  /\ UNCHANGED <<running, resume, in_external_intr, yield_on_return, in_service, cr2,
                 unexpected_cnt, messages, owed, failed>>

(* exception_init: #PF is entered with INTR_OFF. *)
PageFaultLevel == IF_' = FALSE

(* A user program's access faults. *)
PageFault(addr) ==
  /\ InCode /\ IF_
  /\ cr2' = addr
  /\ Push(14, "page_fault", addr)
  /\ PageFaultLevel
  /\ UNCHANGED <<running, resume, in_external_intr, yield_on_return, in_service,
                 unexpected_cnt, messages, owed, failed>>

(* page_fault: reads CR2, then turns interrupts back on. *)
page_fault ==
  /\ At("page_fault")
  /\ stack' = [stack EXCEPT ![running][Len(Frames)].read = cr2,
                            ![running][Len(Frames)].pc = "kill"]
  /\ failed' = (failed \/ in_external_intr)
  /\ IF_' = TRUE
  /\ UNCHANGED <<running, resume, in_external_intr, yield_on_return, in_service, cr2,
                 unexpected_cnt, messages, owed>>

(* syscall_handler and the other exceptions go through trap gates. *)
Trap ==
  /\ InCode /\ IF_
  /\ Push(48, "kill", NULL)
  /\ UNCHANGED <<running, IF_, resume, in_external_intr, yield_on_return, in_service, cr2,
                 unexpected_cnt, messages, owed, failed>>

(* kill and syscall_handler end in thread_exit: the thread's stack is gone *)
(* and a later thread in its place starts with interrupts on.              *)
thread_exit ==
  /\ At("kill")
  /\ failed' = (failed \/ in_external_intr)
  /\ stack' = [stack EXCEPT ![running] = <<>>]
  /\ resume' = [resume EXCEPT ![running] = TRUE]
  /\ \E t \in Threads \ {running} : running' = t /\ SwitchTo(t)
  /\ UNCHANGED <<in_external_intr, yield_on_return, in_service, cr2, unexpected_cnt, messages,
                 owed>>

(* intr_disable and intr_set_level by the thread's own code. *)
SetLevel ==
  /\ InCode
  /\ IF_' = ~IF_
  /\ failed' = (failed \/ in_external_intr)
  /\ UNCHANGED <<running, stack, resume, in_external_intr, yield_on_return, in_service, cr2,
                 unexpected_cnt, messages, owed>>

Handler ==
  \/ HandleDevice \/ unexpected_interrupt \/ HandleSpurious \/ CompleteExternal
  \/ thread_yield \/ Iret \/ page_fault \/ thread_exit

Next ==
  \/ \E vec \in External : ExternalEntry(vec)
  \/ \E addr \in Addrs : PageFault(addr)
  \/ Trap
  \/ SetLevel
  \/ Handler

Spec == Init /\ [][Next]_vars

(***************************************************************************)
(* Properties.                                                             *)
(***************************************************************************)
(* "External interrupts run with interrupts turned off, so they never      *)
(* nest": over all stacks at most one external handler is unfinished, it   *)
(* is the top of the running thread, interrupts are off, and               *)
(* in_external_intr says so exactly then.                                  *)
ExternalNeverNests ==
  LET unfinished == {<<t, i>> \in Threads \X (1 .. 3) :
                       i <= Len(stack[t]) /\ stack[t][i].pc \in {"handler", "complete"}}
  IN  /\ in_external_intr <=> unfinished # {}
      /\ unfinished # {} => ~IF_ /\ unfinished = {<<running, Len(Frames)>>}

(* Whenever a thread runs with interrupts on, the PIC is waiting for no    *)
(* acknowledgement: "If we don't acknowledge the IRQ, it will never be     *)
(* delivered to us again".                                                 *)
NoIrqBlocked == IF_ => in_service = {}

(* page_fault reads the address of its own fault, although other threads   *)
(* fault too and CR2 is one register.                                      *)
FaultAddressOwn ==
  \A t \in Threads : \A i \in 1 .. Len(stack[t]) :
    stack[t][i].pc = "kill" => stack[t][i].read = stack[t][i].addr

(* A yield that a handler asked for is made before the interrupted code    *)
(* goes on, although the flag is shared by all interrupts.                 *)
YieldNotForgotten == owed => yield_on_return /\ (in_external_intr \/ At("yield"))

(* Unexpected interrupts are reported "fairly often" and never too often:  *)
(* with n of them there are as many messages as powers of 2 up to n.       *)
ReportsRare ==
  \A v \in Strays : messages[v] = Cardinality({k \in 0 .. 4 : 2 ^ k <= unexpected_cnt[v]})

(* None of the assertions of interrupt.c fails. *)
AssertionsHold == ~failed

=============================================================================
