------------------------------- MODULE Delay -------------------------------
(***************************************************************************)
(* devices/timer.c: timer_calibrate searches for the number of loops in a  *)
(* tick, and real_time_delay turns a time into loops.  The starting bit 10 *)
(* and the factor 1000 are scaled down to Bits and Kilo.  Then             *)
(* devices/pit.c with the frequencies timer.c and speaker.c ask for.       *)
(***************************************************************************)
EXTENDS Integers, FiniteSets

CONSTANTS Bits, Word, Kilo, TIMER_FREQ,
          Speeds,        \* external: loops the machine really makes in a tick
          Nums, Denoms,  \* arguments of real_time_sleep
          PIT_HZ, Frequencies

VARIABLES speed, loops_per_tick, high_bit, test_bit, pc,
          asked,         \* the argument of real_time_sleep or pit_configure_channel
          given          \* the ticks slept or loops waited, or the count loaded

dvars == <<speed, loops_per_tick, high_bit, test_bit, pc, asked, given>>

NoCall == [num |-> 0, denom |-> 1]

DInit ==
  /\ speed \in Speeds
  /\ loops_per_tick = 2 ^ Bits
  /\ high_bit = 0 /\ test_bit = 0
  /\ pc = "double"
  /\ asked = NoCall /\ given = [ticks |-> 0, loops |-> 0, count |-> 0]

too_many_loops(loops) == loops > speed

(* The first loop of timer_calibrate; the shift loses the top bit. *)
Double ==
  /\ pc = "double"
  /\ LET twice == (2 * loops_per_tick) % Word
     IN  IF too_many_loops(twice)
         THEN /\ high_bit' = loops_per_tick /\ test_bit' = loops_per_tick \div 2
              /\ pc' = "refine" /\ UNCHANGED loops_per_tick
         ELSE /\ loops_per_tick' = twice
              /\ pc' = IF twice = 0 THEN "panic" ELSE "double"
              /\ UNCHANGED <<high_bit, test_bit>>
  /\ UNCHANGED <<speed, asked, given>>

RefinedBit(loops, bit) == IF too_many_loops(loops + bit) THEN loops ELSE loops + bit

(* The second loop. *)
Refine ==
  /\ pc = "refine"
  /\ IF test_bit # high_bit \div 2 ^ Bits
     THEN /\ loops_per_tick' = RefinedBit(loops_per_tick, test_bit)
          /\ test_bit' = test_bit \div 2 /\ pc' = pc
     ELSE pc' = "ready" /\ UNCHANGED <<loops_per_tick, test_bit>>
  /\ UNCHANGED <<speed, high_bit, asked, given>>

(* The loops of busy_wait. *)
real_time_delay(num, denom) ==
  (((loops_per_tick * num) \div Kilo) * TIMER_FREQ) \div (denom \div Kilo)

(* real_time_sleep: a sleep for whole ticks, a busy wait below that. *)
real_time_sleep(num, denom) ==
  LET ticks == (num * TIMER_FREQ) \div denom
  IN  /\ pc = "ready" /\ asked = NoCall
      /\ asked' = [num |-> num, denom |-> denom]
      /\ given' = [given EXCEPT !.ticks = ticks,
                                !.loops = IF ticks > 0 THEN 0 ELSE real_time_delay(num, denom)]
      /\ UNCHANGED <<speed, loops_per_tick, high_bit, test_bit, pc>>

(* The count of pit_configure_channel, 16 bits wide. *)
PitCount(f) ==
  IF f < 19 THEN 0
  ELSE IF f > PIT_HZ THEN 2
  ELSE ((PIT_HZ + (f \div 2)) \div f) % 65536

pit_configure_channel(f) ==
  /\ pc = "ready" /\ asked = NoCall
  /\ asked' = [num |-> f, denom |-> 0]
  /\ given' = [given EXCEPT !.count = PitCount(f)]
  /\ UNCHANGED <<speed, loops_per_tick, high_bit, test_bit, pc>>

DNext ==
  \/ Double \/ Refine
  \/ \E num \in Nums, denom \in Denoms : real_time_sleep(num, denom)
  \/ \E f \in Frequencies : pit_configure_channel(f)

DSpec == DInit /\ [][DNext]_dvars

(***************************************************************************)
(* Properties.                                                             *)
(***************************************************************************)
(* "Approximate loops_per_tick as the largest power-of-two still less than *)
(* one timer tick", then refine: the result is at most the machine's speed *)
(* and short of it by less than the last bit tried.                        *)
CalibratedBelow ==
  pc = "ready" /\ speed >= 2 ^ Bits =>
    /\ loops_per_tick <= speed
    /\ speed < loops_per_tick + high_bit \div 2 ^ (Bits - 1)

(* A delay below a tick never lasts longer than asked, and the rounding of *)
(* the scaled product loses less than one scaled unit and one loop.        *)
DelayClose ==
  asked.denom > 1 /\ given.ticks = 0 =>
    LET exact == loops_per_tick * asked.num * TIMER_FREQ
    IN  /\ given.loops * asked.denom <= exact
        /\ exact - given.loops * asked.denom < asked.denom + Kilo * TIMER_FREQ

(* The count loaded gives a frequency next to the one asked for, down to   *)
(* the lowest the 16-bit counter can do; 0 counts as 65536.                *)
PitFrequencyClose ==
  asked.denom = 0 =>
    LET count == IF given.count = 0 THEN 65536 ELSE given.count
    IN  IF asked.num < 19 THEN count = 65536
        ELSE 2 * asked.num * count \in 2 * PIT_HZ - asked.num .. 2 * PIT_HZ + asked.num

=============================================================================
