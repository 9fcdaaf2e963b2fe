------------------------------ MODULE RtcCodec ------------------------------
(***************************************************************************)
(* The encoding of the calendar in the registers TR and DR of the RTC      *)
(* (RTC.h, RTC.c): what set_datetime_rtc, set_time_rtc and set_date_rtc    *)
(* write, and what get_datetime_rtc makes of it.                           *)
(*                                                                         *)
(* A register is the set of its bits that are 1, so that the | of the      *)
(* macros is a union and fields that overlap do what they do in the code.  *)
(* Time does not pass here: module Rtc is about the order of the accesses. *)
(***************************************************************************)
EXTENDS Integers

CONSTANTS
  Times,   \* the arguments of the calls: records of hour, minute and seconds
  Dates    \* and records of day, month, year and week, week as in DayOfWeek

\* uint16_t year
Years == 0 .. 65535

ASSUME TimesAssumption ==
  Times \subseteq [hour : 0 .. 23, minute : 0 .. 59, seconds : 0 .. 59]
ASSUME DatesAssumption ==
  Dates \subseteq [day : 1 .. 31, month : 1 .. 12, year : Years, week : 0 .. 273]

VARIABLES
  tr, dr,     \* the registers
  time, date, \* what the last call that wrote them asked for
  dateBy,     \* the call that wrote DR last, "reset" if none has
  status      \* what the last call returned

vars == <<tr, dr, time, date, dateBy, status>>

-----------------------------------------------------------------------------
(* Fields of a register.                                                   *)

\* The low bits of v, width of them, from bit pos of a register on.
Field(v, pos, width) ==
  {pos + i : i \in {j \in 0 .. width - 1 : (v \div 2^j) % 2 = 1}}

\* (reg >> pos) & mask
Value(reg, pos, width) ==
  LET sum[i \in 0 .. width] ==
        IF i = 0 THEN 0
        ELSE sum[i - 1] + (IF pos + i - 1 \in reg THEN 2^(i - 1) ELSE 0)
  IN sum[width]

\* SET_RTS_value and GET_RTS_value: the tens in a field of the given width, the
\* units in four bits.
SetBcd(v, tens, width, units) == Field(v \div 10, tens, width) \cup Field(v % 10, units, 4)
GetBcd(reg, tens, width, units) == Value(reg, tens, width) * 10 + Value(reg, units, 4)

\* The bits that TR and DR have; the others read as 0.
TrBits == (0 .. 6) \cup (8 .. 14) \cup (16 .. 22)
DrBits == (0 .. 5) \cup (8 .. 23)

BSD_START_YEAR == 1980
BSD_MAX_YEAR   == 99

\* Mutated TrOf: one bit for the tens of the hour, as for those of the month.
TrOfShortHour(t) ==
  TrBits \cap (SetBcd(t.hour, 20, 1, 16) \cup SetBcd(t.minute, 12, 3, 8)
                                         \cup SetBcd(t.seconds, 4, 3, 0))

TrOf(t) ==
  TrBits \cap (SetBcd(t.hour, 20, 2, 16) \cup SetBcd(t.minute, 12, 3, 8)
                                         \cup SetBcd(t.seconds, 4, 3, 0))

\* DR for a date of which the year is given apart.  The week is a uint8_t, which
\* cuts 0x100 off THURSDAY to SUNDAY, and is shifted without a mask.
DrOf(d, year) ==
  DrBits \cap (SetBcd(year, 20, 4, 16) \cup Field(d.week, 13, 8)
               \cup SetBcd(d.month, 12, 1, 8) \cup SetBcd(d.day, 4, 2, 0))

ReadTime ==
  [hour |-> GetBcd(tr, 20, 2, 16), minute |-> GetBcd(tr, 12, 3, 8),
   seconds |-> GetBcd(tr, 4, 3, 0)]

\* Mutated ReadWeek: the structure keeps all the bits.
ReadWeekWhole == Value(dr, 13, 11)

\* GET_RTS_WDU has no mask; the structure keeps eight bits of it.
ReadWeek == Value(dr, 13, 8)

ReadDate ==
  [day |-> GetBcd(dr, 4, 2, 0), month |-> GetBcd(dr, 12, 1, 8),
   year |-> GetBcd(dr, 20, 4, 16) + BSD_START_YEAR, week |-> ReadWeek]

-----------------------------------------------------------------------------
(* The calls.                                                              *)

\* Mutated YearOffset: the year as set_date_rtc writes it.
YearOffsetForgotten(year) == year % 256

\* uint8_t year = datetime->date.year - BSD_START_YEAR
YearOffset(year) == (year - BSD_START_YEAR) % 256

set_datetime_rtc(t, d) ==
  /\ YearOffset(d.year) <= BSD_MAX_YEAR
  /\ tr' = TrOf(t) /\ time' = t
  /\ dr' = DrOf(d, YearOffset(d.year)) /\ date' = d
  /\ dateBy' = "set_datetime_rtc" /\ status' = 0

set_time_rtc(t) ==
  /\ tr' = TrOf(t) /\ time' = t
  /\ status' = 0
  /\ UNCHANGED <<dr, date, dateBy>>

\* The test is of the year less BSD_START_YEAR, what is written is the year.
set_date_rtc(d) ==
  /\ d.year - BSD_START_YEAR \in 0 .. BSD_MAX_YEAR
  /\ dr' = DrOf(d, d.year) /\ date' = d
  /\ dateBy' = "set_date_rtc" /\ status' = 0
  /\ UNCHANGED <<tr, time>>

\* return -2, before anything is written.
Refused(d) ==
  /\ \/ YearOffset(d.year) > BSD_MAX_YEAR
     \/ d.year - BSD_START_YEAR \notin 0 .. BSD_MAX_YEAR
  /\ status' = -2
  /\ UNCHANGED <<tr, dr, time, date, dateBy>>

\* Midnight of January 1st: DR is 0x2101 after a reset of the backup domain.
Init ==
  /\ tr = {} /\ dr = {0, 8, 13}
  /\ time = [hour |-> 0, minute |-> 0, seconds |-> 0]
  /\ date = [day |-> 1, month |-> 1, year |-> BSD_START_YEAR, week |-> 1]
  /\ dateBy = "reset" /\ status = 0

Next ==
  \/ \E t \in Times, d \in Dates : set_datetime_rtc(t, d)
  \/ \E t \in Times : set_time_rtc(t)
  \/ \E d \in Dates : set_date_rtc(d)
  \/ \E d \in Dates : Refused(d)

Spec == Init /\ [][Next]_vars

-----------------------------------------------------------------------------
(* Properties.                                                             *)

\* What two digits read as, the tens in four bits.
ReadYears == BSD_START_YEAR .. BSD_START_YEAR + 165

\* The registers have no other bits, and what is read from them fits the
\* structures: two decimal digits, the tens as wide as their field.
TypeOK ==
  /\ tr \subseteq TrBits /\ dr \subseteq DrBits /\ status \in {0, -2}
  /\ ReadTime \in [hour : 0 .. 45, minute : 0 .. 85, seconds : 0 .. 85]
  /\ ReadDate \in [day : 0 .. 45, month : 0 .. 25, year : ReadYears, week : 0 .. 255]

\* Whatever was called in between, the time that is read is the last one set:
\* no field of TR is cut or runs into another.
TimeReadsBack == ReadTime = time

\* Day and month too, neither the week nor a year out of range reaches them; three
\* bits of the week, over which the units of the year are read with it (README.md:167
\* has week 41 for w=1 and 5 units); and a year that set_datetime_rtc accepts, if the
\* uint8_t does not wrap on the difference and the week fits its three bits.
DateReadsBack ==
  /\ ReadDate.day = date.day /\ ReadDate.month = date.month
  /\ ReadDate.week % 8 = date.week % 8
  /\ (/\ dateBy # "set_date_rtc" /\ date.week % 256 < 8
      /\ date.year \in BSD_START_YEAR .. BSD_START_YEAR + 255)
     => ReadDate.year = date.year

\* README.md:52: the third button sets the date: the year that set_date_rtc was
\* given is the year that is read.
DateSetReadsBack == dateBy = "set_date_rtc" => ReadDate.year = date.year
=============================================================================
