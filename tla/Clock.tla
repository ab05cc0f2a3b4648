------------------------------- MODULE Clock -------------------------------
(***************************************************************************)
(* devices/rtc.c: rtc_get_time reads the six time registers one by one     *)
(* while the clock goes on, until the seconds are the same before and      *)
(* after.  The clock counts to Units in each register before the next one  *)
(* moves on, and shows BCD.  Then the calendar: years and months to days.  *)
(***************************************************************************)
EXTENDS Integers, Sequences, FiniteSets
LOCAL INSTANCE SequencesExt

CONSTANTS Units, MaxTicks,
          RtcYears   \* values of the year register, from 0 to 99

VARIABLES now,       \* external: seconds passed on the clock
          reader,    \* rtc_get_time: what it has read, and where it is
          ticked     \* ticks during the present pass of the loop

cvars == <<now, reader, ticked>>

(* RTC_REG_SEC, MIN, HOUR, MDAY, MON and YEAR in the order they are read. *)
Registers == 1 .. 6

(* cmos_read: the register's two decimal digits, four bits each. *)
cmos_read(r) ==
  LET v == (now \div Units ^ (r - 1)) % Units
  IN  16 * (v \div 10) + (v % 10)

bcd_to_bin(x) == (x % 16) + (x \div 16) * 10

(* The call begins when some registers are about to wrap around, the       *)
(* moments at which a tick changes several of them.                        *)
CInit ==
  /\ now \in {Units ^ r - 1 : r \in Registers}
  /\ reader = [pc |-> "read", next |-> 1, v |-> [r \in Registers |-> 0], begun |-> now, passes |-> 0,
               year |-> 0, mon |-> 1, days |-> 0]
  /\ ticked = 0

(* external: the clock ticks, at most once while the registers are read. *)
Tick ==
  /\ ticked = 0 /\ reader.passes < MaxTicks /\ reader.pc \notin {"done", "converted"}
  /\ now' = now + 1 /\ ticked' = 1
  /\ UNCHANGED reader

(* One cmos_read, in the order of the code. *)
ReadRegister ==
  /\ reader.pc = "read"
  /\ reader' = [reader EXCEPT !.v[reader.next] = bcd_to_bin(cmos_read(reader.next)),
                              !.next = IF @ = 6 THEN 1 ELSE @ + 1,
                              !.pc = IF reader.next = 6 THEN "check" ELSE "read"]
  /\ UNCHANGED <<now, ticked>>


(* The condition of the loop. *)
Stable == reader.v[1] = bcd_to_bin(cmos_read(1))

(* The passes are counted to bound the ticks that come between them. *)
Check ==
  /\ reader.pc = "check"
  /\ reader' = IF Stable THEN [reader EXCEPT !.pc = "done"]
               ELSE [reader EXCEPT !.pc = "read", !.passes = IF @ < MaxTicks THEN @ + 1 ELSE @]
  /\ ticked' = 0
  /\ now' = now

(***************************************************************************)
(* The calendar.                                                           *)
(***************************************************************************)
DaysPerMonth == <<31, 28, 31, 30, 31, 30, 31, 31, 30, 31, 30, 31>>

(* The year register counts from 1900, or from 2000 below 70. *)
SinceEpoch(year) == (IF year < 70 THEN year + 100 ELSE year) - 70

LeapDay(year, mon) == IF mon > 2 /\ year % 4 = 2 THEN 1 ELSE 0

(* The days before the given one; year counts from 1970.                   *)
DaysBefore(year, mon, mday) ==
  year * 365 + (year + 1) \div 4
    + FoldLeft(LAMBDA a, b : a + b, 0, SubSeq(DaysPerMonth, 1, mon - 1))
    + LeapDay(year, mon) + mday - 1

IsLeap(year) == (1970 + year) % 4 = 0
MonthLength(year, mon) == DaysPerMonth[mon] + IF mon = 2 /\ IsLeap(year) THEN 1 ELSE 0

(* The rest of the function, on the year and month it read and the last    *)
(* day of that month.                                                      *)
Convert ==
  /\ reader.pc = "done"
  /\ \E y \in RtcYears, m \in 1 .. 12 :
       LET year == SinceEpoch(y)
       IN  reader' = [reader EXCEPT !.pc = "converted", !.year = year, !.mon = m,
                                    !.days = DaysBefore(year, m, MonthLength(year, m))]
  /\ UNCHANGED <<now, ticked>>

CNext == Tick \/ ReadRegister \/ Check \/ Convert

CSpec == CInit /\ [][CNext]_cvars /\ WF_cvars(ReadRegister \/ Check \/ Convert)

(***************************************************************************)
(* Properties.                                                             *)
(***************************************************************************)
(* The time that rtc_get_time puts together is one the clock showed during *)
(* the call, never a mixture of the registers before and after a tick.     *)
TimeWasShown ==
  reader.pc = "done" =>
    \E t \in reader.begun .. now :
      \A r \in Registers : reader.v[r] = (t \div Units ^ (r - 1)) % Units

(* The day after the last of a month has the next number, in every month   *)
(* and year, leap years included.                                          *)
DaysConsecutive ==
  reader.pc = "converted" =>
    LET y == reader.year
        m == reader.mon
    IN  reader.days + 1 = IF m = 12 THEN DaysBefore(y + 1, 1, 1) ELSE DaysBefore(y, m + 1, 1)

(* The loop ends once the clock leaves it alone for one pass. *)
ReadingEnds == <>(reader.pc = "converted")

=============================================================================
