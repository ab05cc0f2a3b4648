------------------------------ MODULE MCDevices ------------------------------
(***************************************************************************)
(* The drivers of devices/ and the console on small instances, side by     *)
(* side: subject names the one that a behaviour is about, and its          *)
(* variables are the first of v1 to v14.  The terminal appears twice, with *)
(* two writers and with two readers.                                       *)
(***************************************************************************)
EXTENDS Integers, Sequences, FiniteSets, TLC

CONSTANTS NULL, r1, r2, w1, w2, a, t1, t2, d1, d2, u1, u2

VARIABLES subject, v1, v2, v3, v4, v5, v6, v7, v8, v9, v10, v11, v12, v13, v14

vars == <<subject, v1, v2, v3, v4, v5, v6, v7, v8, v9, v10, v11, v12, v13, v14>>

(* Partition tables: partitions that fit, do not fit or wrap around, one   *)
(* that is not ours, and extended ones.                                    *)
Entry(type, offset, size) == [type |-> type, offset |-> offset, size |-> size]
None == Entry(0, 0, 0)
Entries == {None, Entry(33, 1, 3), Entry(131, 4, 2), Entry(34, 3, 14), Entry(32, 15, 2),
            Entry(5, 4, 2), Entry(15, 7, 1)}

T == INSTANCE Terminal WITH INTQ_BUFSIZE <- 2, Readers <- {r1}, Writers <- {w1, w2},
                            Keys <- {a}, Line <- 2, MaxOut <- 2, MaxKeys <- 2, mode <- v1,
                            buffer <- v2, txq <- v3, ier <- v4, rbr <- v5, thr <- v6,
                            console <- v7, pc <- v8, todo <- v9, halted <- v10, out <- v11,
                            sent <- v12, typed <- v13, got <- v14
R == INSTANCE Terminal WITH INTQ_BUFSIZE <- 3, Readers <- {r1, r2}, Writers <- {w1},
                            Keys <- {a}, Line <- 1, MaxOut <- 1, MaxKeys <- 3, mode <- v1,
                            buffer <- v2, txq <- v3, ier <- v4, rbr <- v5, thr <- v6,
                            console <- v7, pc <- v8, todo <- v9, halted <- v10, out <- v11,
                            sent <- v12, typed <- v13, got <- v14
K == INSTANCE Keyboard WITH KeyCodes <- {2, 30, 83}, held <- v1, mods <- v2, caps_lock <- v3,
                            input <- v4, rebooted <- v5
V == INSTANCE Vga WITH COL_CNT <- 3, ROW_CNT <- 2, TAB <- 2, MaxLines <- 4, fb <- v1,
                       cx <- v2, cy <- v3, hw <- v4, beeping <- v5, paper <- v6
I == INSTANCE Ide WITH Threads <- {t1, t2}, Disks <- {d1, d2}, Sectors <- {1, 2},
                       Values <- {u1, u2}, MaxCalls <- 3, media <- v1, device <- v2,
                       selected <- v3, irq <- v4, holder <- v5, expecting_interrupt <- v6,
                       completion_wait <- v7, call <- v8, calls <- v9, panicked <- v10
P == INSTANCE Partition WITH Word <- 16, DiskSizes <- {6},
                             MasterTables <- {<<e, f>> : e, f \in Entries} \cup {<<>>},
                             SubTables <- {<<>>, <<Entry(35, 1, 1), None>>},
                             MaxDepth <- 4, MaxAccesses <- 1, size <- v1, tables <- v2,
                             stack <- v3, part_nr <- v4, blocks <- v5, touched <- v6,
                             panicked <- v7
C == INSTANCE Clock WITH Units <- 12, MaxTicks <- 2,
                         RtcYears <- {0, 1, 37, 69, 70, 71, 72, 73, 99},
                         now <- v1, reader <- v2, ticked <- v3
D == INSTANCE Delay WITH Bits <- 3, Word <- 256, Kilo <- 10, TIMER_FREQ <- 3,
                         Speeds <- {5, 8, 9, 12, 15, 16, 23, 31, 32, 50, 100, 127},
                         Nums <- {0, 1, 2, 3, 7, 30, 31, 33}, Denoms <- {10, 100},
                         PIT_HZ <- 1193180,
                         Frequencies <- {1, 18, 19, 20, 100, 440, 1000, 20000}, speed <- v1,
                         loops_per_tick <- v2, high_bit <- v3, test_bit <- v4, pc <- v5,
                         asked <- v6, given <- v7

(* The variables from the given one on are not used. *)
Zero11 == v11 = 0 /\ v12 = 0 /\ v13 = 0 /\ v14 = 0
Zero8 == v8 = 0 /\ v9 = 0 /\ v10 = 0 /\ Zero11
Zero7 == v7 = 0 /\ Zero8
Zero6 == v6 = 0 /\ Zero7
Zero4 == v4 = 0 /\ v5 = 0 /\ Zero6

Same11 == UNCHANGED <<v11, v12, v13, v14>>
Same8 == UNCHANGED <<v8, v9, v10>> /\ Same11
Same7 == UNCHANGED v7 /\ Same8
Same6 == UNCHANGED v6 /\ Same7
Same4 == UNCHANGED <<v4, v5>> /\ Same6

Init ==
  \/ subject = "terminal" /\ T!Init
  \/ subject = "readers" /\ R!Init
  \/ subject = "keyboard" /\ K!Init /\ Zero6
  \/ subject = "vga" /\ V!Init /\ Zero7
  \/ subject = "ide" /\ I!Init /\ Zero11
  \/ subject = "partition" /\ P!Init /\ Zero8
  \/ subject = "clock" /\ C!CInit /\ Zero4
  \/ subject = "delay" /\ D!DInit /\ Zero8

Next ==
  /\ UNCHANGED subject
  /\ \/ subject = "terminal" /\ T!Next
     \/ subject = "readers" /\ R!Next
     \/ subject = "keyboard" /\ K!Next /\ Same6
     \/ subject = "vga" /\ V!Next /\ Same7
     \/ subject = "ide" /\ I!Next /\ Same11
     \/ subject = "partition" /\ P!Next /\ Same8
     \/ subject = "clock" /\ C!CNext /\ Same4
     \/ subject = "delay" /\ D!DNext /\ Same8

(* The fairness of Terminal and Ide: threads that are ready get to run,    *)
(* interrupts are taken, the UART sends and the disks answer.              *)
OnTerminal == subject = "terminal" /\ UNCHANGED subject
OnDisk == subject = "ide" /\ ~v10 /\ UNCHANGED subject /\ Same11

Fairness ==
  /\ WF_vars(OnTerminal /\ T!ReaderStep(r1))
  /\ \A w \in {w1, w2} : WF_vars(OnTerminal /\ T!WriterStep(w))
  /\ WF_vars(OnTerminal /\ \E n \in 0 .. 2 : T!SerialInterrupt(n))
  /\ WF_vars(OnTerminal /\ T!Transmitted)
  /\ WF_vars(OnTerminal /\ T!serial_init_queue)
  /\ \A t \in {t1, t2} : WF_vars(OnDisk /\ I!ThreadStep(t))
  /\ \A d \in {d1, d2} : WF_vars(OnDisk /\ I!DeviceStep(d))
  /\ WF_vars(OnDisk /\ I!interrupt_handler)

Spec == Init /\ [][Next]_vars /\ Fairness
-----------------------------------------------------------------------------

(* What is printed is sent, a received byte is taken from the UART, and    *)
(* every thread that prints gets its line out.                             *)
QueuesDrain ==
  /\ []<>(subject = "terminal" => T!AllSent)
  /\ []<>(subject = "terminal" => T!ByteTaken)
  /\ \A w \in {w1, w2} : <>(subject = "terminal" => T!Printed(w))

(* kbd.c knows which shift keys are down and reboots on Ctrl+Alt+Del only; *)
(* vga.c shows the end of what was printed with the cursor behind it.      *)
KeysAndScreenMatch ==
  /\ subject = "keyboard" => K!ModifiersMatchKeys /\ K!RebootOnlyOnRequest
  /\ subject = "vga" => V!ShowsEndOfPaper /\ V!CursorOnScreen

(* A key types the character that is meant by it and the keys held down    *)
(* with it, and releasing a key types nothing.                             *)
TypedAsMeant == [][subject = "keyboard" => K!TypedAsMeant]_vars

(* A transfer that ends has moved the right sector of the right disk, and  *)
(* no completion is left over for the next command; a partition lies on    *)
(* its disk whatever the table says, and accesses through it stay inside.  *)
DisksRight ==
  /\ subject = "ide" => I!TransfersRight /\ I!ChannelQuiet
  /\ subject = "partition" => P!PartitionsOnDisk /\ P!AccessesConfined

(* Every read and write of a disk returns, unless the kernel panics.       *)
CallsReturn == \A t \in {t1, t2} : []<>(subject = "ide" => I!Returned(t))

(* partition.c:36 of read_partition_table: "Reads the partition table in   *)
(* the given SECTOR of BLOCK".                                             *)
ReadsGivenSector == subject = "partition" => P!ReadsGivenSector

=============================================================================
