--------------------------- MODULE RealTimeClock ---------------------------
(***************************************************************************)
(* The time of the camera (gplib_calendar.c, drv_l1_rtc.c and the part of  *)
(* mini_dvr_api.c that reads time.txt).  A clock with a battery of its own *)
(* counts seconds to hours and a 12-bit day; one inside the chip is loaded *)
(* from it at start-up, with day_count stepped by its midnight interrupt,  *)
(* and everything reads that one.  A user sets the time with a file, which *)
(* is read once and then replaced by an example.                           *)
(*                                                                         *)
(* Both clocks tick together, at any point of the software.  A digit has   *)
(* few values; dates are real.  The two registers of the day are one.      *)
(***************************************************************************)
EXTENDS Integers, Sequences

CONSTANTS
  Secs, Mins, Hours, \* values of each digit of the time of day
  FileTimes,         \* <<date, time>> a user may have put into time.txt
  RunningDates,      \* dates a camera that runs on for long may have reached
  MaxTicks           \* bound: seconds that pass

ASSUME ClockAssumption ==
  {Secs, Mins, Hours} \subseteq Nat \ {0, 1} /\ MaxTicks \in Nat

VARIABLES
  battery,   \* gpx_rtc registers 0 to 4: sec, min, hour, day since LAST_JULIAN_DATE
  chip,      \* R_RTC_SEC, R_RTC_MIN, R_RTC_HOUR
  day_count, \* the Julian day, or Unset
  counting,  \* day_count_callback is registered
  file,      \* time.txt: kind ("none", "empty", "text", "query", "example", "user"), at
  cpc,       \* where rtc_time_get_and_start is
  t,         \* the digit it has read from the battery clock
  saves,     \* whether it will write the example
  result,    \* of a cal_time_get: pc, what it has read, the clock when it began
  civil,     \* history: the date and time a correct clock would show
  isSet,     \* history: the battery clock was set, with no carry lost
  torn,      \* history: the digit in t moved on before it was written
  used,      \* history: since power-on the file's time was set, or could not be read
  ticks      \* bound

clockVars == <<battery, chip, day_count, counting, file, cpc, t, saves, result,
               civil, isSet, torn, used, ticks>>
hardware  == <<battery, chip, day_count, civil, isSet, torn, ticks>>
software  == <<counting, file, cpc, t, saves, result, used>>

LAST_JULIAN_DATE == 2457388
Unset == -1
-----------------------------------------------------------------------------
(* Reference: the calendar.                                                *)
Leap(y) == y % 4 = 0 /\ (y % 100 # 0 \/ y % 400 = 0)

DaysIn(y, m) ==
  IF m = 2 THEN (IF Leap(y) THEN 29 ELSE 28) ELSE IF m \in {4, 6, 9, 11} THEN 30 ELSE 31

NextDate(d) ==
  IF d[3] < DaysIn(d[1], d[2]) THEN <<d[1], d[2], d[3] + 1>>
  ELSE IF d[2] < 12 THEN <<d[1], d[2] + 1, 1>> ELSE <<d[1] + 1, 1, 1>>

(* A day past the end of the month is the first of the next.               *)
Meant(d) == IF d[3] <= DaysIn(d[1], d[2]) THEN d ELSE NextDate(<<d[1], d[2], d[3] - 1>>)
-----------------------------------------------------------------------------
(* The conversions of gplib_calendar.c.                                    *)
monday == <<31, 29, 31, 30, 31, 30, 31, 31, 30, 31, 30, 31>>

Settable(d) == d[2] \in 1..12 /\ d[3] \in 1..monday[d[2]]

date_to_jd(d) ==
  LET m == IF d[2] > 2 THEN d[2] - 3 ELSE d[2] + 9
      y == IF d[2] > 2 THEN d[1] ELSE d[1] - 1
  IN  (146097 * (y \div 100)) \div 4 + (1461 * (y % 100)) \div 4
        + (153 * m + 2) \div 5 + d[3] + 1721119

(* Variant: the year of the first of March is rounded down.                *)
JdToDateRounded(jd) ==
  LET j == jd - 1721119
      c == (4 * j - 1) \div 146097
      a == (4 * j - 1 - 146097 * c) \div 4
      y == (4 * a) \div 1461
      e == (4 * a + 3 - 1461 * y + 4) \div 4
      m == (5 * e - 3) \div 153
      d == (5 * e - 3 - 153 * m + 5) \div 5
  IN  IF m < 10 THEN <<100 * c + y, m + 3, d>> ELSE <<100 * c + y + 1, m - 9, d>>

JdToDate(jd) ==
  LET j == jd - 1721119
      c == (4 * j - 1) \div 146097
      a == (4 * j - 1 - 146097 * c) \div 4
      y == (4 * a + 3) \div 1461
      e == (4 * a + 3 - 1461 * y + 4) \div 4
      m == (5 * e - 3) \div 153
      d == (5 * e - 3 - 153 * m + 5) \div 5
  IN  IF m < 10 THEN <<100 * c + y, m + 3, d>> ELSE <<100 * c + y + 1, m - 9, d>>
-----------------------------------------------------------------------------
Digits == [s : 0..(Secs - 1), m : 0..(Mins - 1), h : 0..(Hours - 1)]
Midnight == [s |-> 0, m |-> 0, h |-> 0]
LastSecond == [s |-> Secs - 1, m |-> Mins - 1, h |-> Hours - 1]

NextTime(c) ==
  LET m == IF c.s = Secs - 1 THEN c.m + 1 ELSE c.m
      h == IF m = Mins THEN c.h + 1 ELSE c.h
  IN  [s |-> (c.s + 1) % Secs, m |-> m % Mins, h |-> h % Hours]

Time(c) == [s |-> c.s, m |-> c.m, h |-> c.h]
Clock(c, d) == [s |-> c.s, m |-> c.m, h |-> c.h, day |-> d]

Seconds(c) == ((c.day * Hours + c.h) * Mins + c.m) * Secs + c.s

(* The file's ranges as they are parsed; a camera that has run for long    *)
(* has not yet run out of 12 bits of days.                                 *)
RealDate(d) == d \in (2016..2027) \X (1..12) \X (1..31) /\ d[3] <= DaysIn(d[1], d[2])

ASSUME DatesAssumption ==
  /\ FileTimes \subseteq ((2016..2026) \X (0..12) \X (0..31)) \X Digits
  /\ \A d \in RunningDates : RealDate(d) /\ date_to_jd(d) - LAST_JULIAN_DATE < 4096

NoResult == [pc |-> "idle", read |-> Clock(Midnight, 0), from |-> 0, carried |-> FALSE]
NoFile   == [kind |-> "none", at |-> <<<<2016, 1, 1>>, Midnight>>]

(* A camera that is off with a clock nobody ever set, or one that has run  *)
(* for long and is about to see midnight.                                  *)
ClockInit ==
  /\ t = 0 /\ saves = FALSE /\ result = NoResult /\ torn = FALSE /\ used = FALSE /\ ticks = 0
  /\ \/ /\ cpc = "off" /\ isSet = FALSE /\ counting = FALSE /\ day_count = Unset
        /\ battery = Clock(Midnight, 0) /\ chip = Midnight
        /\ civil = <<<<2016, 1, 1>>, Midnight>>
        /\ file \in {NoFile} \cup [kind : {"empty", "text", "query", "example"}, at : {NoFile.at}]
                      \cup [kind : {"user"}, at : FileTimes]
     \/ /\ cpc = "ready" /\ isSet = TRUE /\ counting = TRUE /\ file = [NoFile EXCEPT !.kind = "example"]
        /\ \E d \in RunningDates :
             /\ day_count = date_to_jd(d)
             /\ battery = Clock(LastSecond, day_count - LAST_JULIAN_DATE)
             /\ chip = LastSecond /\ civil = <<d, LastSecond>>

At(pc, next) == cpc = pc /\ cpc' = next
-----------------------------------------------------------------------------
(* The hardware.                                                           *)

(* What a carry changes while the software is between two registers: the   *)
(* digit to be set next loses it, the digit read but not written is stale. *)
Changed == [m |-> NextTime(battery).m # battery.m,
            h |-> NextTime(battery).h # battery.h, d |-> Time(battery) = LastSecond]

Lost ==
  (cpc = "setMin" /\ Changed.m) \/ (cpc = "setHour" /\ Changed.h) \/ (cpc = "setDay" /\ Changed.d)

Stale ==
  \/ cpc = "putSec"
  \/ (cpc = "putMin" /\ Changed.m) \/ (cpc = "putHour" /\ Changed.h) \/ (cpc = "putDay" /\ Changed.d)

Tick ==
  /\ ticks < MaxTicks /\ ticks' = ticks + 1
  /\ battery' = Clock(NextTime(battery),
       IF Changed.d THEN (battery.day + 1) % 4096 ELSE battery.day)
  /\ isSet' = (isSet /\ ~Lost /\ ~(Changed.d /\ battery.day = 4095))
  /\ torn' = (torn \/ Stale)
  /\ civil' = <<IF civil[2] = LastSecond THEN NextDate(civil[1]) ELSE civil[1], NextTime(civil[2])>>
  /\ IF cpc = "off" THEN UNCHANGED <<chip, day_count>>
     ELSE /\ chip' = NextTime(chip)
          /\ day_count' = IF chip = LastSecond /\ counting THEN day_count + 1 ELSE day_count
  /\ result' = [result EXCEPT !.carried = @ \/ (result.pc # "idle" /\ chip.s = Secs - 1)]
  /\ UNCHANGED <<counting, file, cpc, t, saves, used>>

(* What is not in the battery clock is lost, and a time that was only half *)
(* set with it.                                                            *)
LoseClock ==
  /\ isSet' = (isSet /\ cpc \notin {"setMin", "setHour", "setDay"})
  /\ chip' = Midnight /\ day_count' = Unset /\ counting' = FALSE
  /\ cpc' = "off" /\ t' = 0 /\ saves' = FALSE /\ result' = NoResult
  /\ torn' = FALSE /\ used' = FALSE
  /\ UNCHANGED <<battery, file, civil, ticks>>
-----------------------------------------------------------------------------
(* rtc_time_get_and_start.                                                 *)

(* Variant: the user's time is wiped out once it is read.                  *)
ParseFileSavesFirst ==
  /\ cpc = "parse" /\ file.kind = "user" /\ Settable(file.at[1])
  /\ cpc' = "setSec" /\ file' = [file EXCEPT !.kind = "empty"]
  /\ counting' = TRUE
  /\ UNCHANGED <<hardware, t, saves, used, result>>

(* The file cannot be opened, has no memory, or cannot be read; it is      *)
(* empty or no time; it is the example, or asks for another text.          *)
ParseFile ==
  /\ cpc = "parse"
  /\ \/ cpc' = "getSec" /\ saves' = TRUE /\ used' = TRUE /\ counting' = TRUE
     \/ /\ file.kind \in {"none", "empty", "text", "example"}
        /\ cpc' = "getSec" /\ saves' = (file.kind # "example")
        /\ counting' = TRUE /\ UNCHANGED used
     \/ file.kind = "query" /\ cpc' = "ready" /\ UNCHANGED <<saves, counting, used>>
     \/ /\ file.kind = "user"
        /\ cpc' = IF Settable(file.at[1]) THEN "setSec" ELSE "getSec"
        /\ saves' = TRUE /\ counting' = TRUE /\ UNCHANGED used
  /\ UNCHANGED <<hardware, file, t, result>>

(* cal_time_set: rtc_time_set, then cal_day_set.                           *)
SetSec ==
  /\ At("setSec", "setMin")
  /\ battery' = [battery EXCEPT !.s = file.at[2].s]
  /\ civil' = <<Meant(file.at[1]), file.at[2]>> /\ isSet' = TRUE
  /\ UNCHANGED <<chip, day_count, torn, ticks, counting, file, t, saves, result, used>>

SetMin ==
  /\ At("setMin", "setHour")
  /\ battery' = [battery EXCEPT !.m = file.at[2].m]
  /\ UNCHANGED <<chip, day_count, civil, isSet, torn, ticks, counting, file, t, saves, result, used>>

(* The chip's own digits follow; nothing reads them before the copy.       *)
SetHour ==
  /\ At("setHour", "setDay")
  /\ battery' = [battery EXCEPT !.h = file.at[2].h]
  /\ chip' = file.at[2]
  /\ UNCHANGED <<day_count, civil, isSet, torn, ticks, counting, file, t, saves, result, used>>

SetDay ==
  /\ At("setDay", "getSec")
  /\ battery' = [battery EXCEPT !.day = (date_to_jd(file.at[1]) - LAST_JULIAN_DATE) % 4096]
  /\ day_count' = date_to_jd(file.at[1])
  /\ used' = TRUE
  /\ UNCHANGED <<chip, civil, isSet, torn, ticks, counting, file, t, saves, result>>

(* F_TimeData_ext2int: each digit is read from the one clock and written   *)
(* to the other.                                                           *)
Get(pc, next, digit) ==
  /\ At(pc, next) /\ t' = digit
  /\ UNCHANGED <<hardware, counting, file, saves, result, used>>

Put(pc, next, c) ==
  /\ At(pc, next) /\ chip' = c
  /\ UNCHANGED <<battery, day_count, civil, isSet, torn, ticks, counting, file, t, saves, result, used>>

CopyTime ==
  \/ Get("getSec", "putSec", battery.s)    \/ Put("putSec", "getMin", [chip EXCEPT !.s = t])
  \/ Get("getMin", "putMin", battery.m)    \/ Put("putMin", "getHour", [chip EXCEPT !.m = t])
  \/ Get("getHour", "putHour", battery.h)  \/ Put("putHour", "getDay", [chip EXCEPT !.h = t])

(* A day of 0 is a clock that was never set: the first of May 2016.        *)
PutDay ==
  /\ At("putDay", IF saves THEN "save" ELSE "ready")
  /\ day_count' = LAST_JULIAN_DATE + (IF t = 0 THEN 122 ELSE t)
  /\ UNCHANGED <<battery, chip, civil, isSet, torn, ticks, counting, file, t, saves, result, used>>

CopyDay == Get("getDay", "putDay", battery.day) \/ PutDay

(* save_example_time_to_disk: the file is emptied, then written; either    *)
(* may fail, and so may the memory in between.                             *)
EmptyFile ==
  /\ cpc = "save"
  /\ \/ file' = [NoFile EXCEPT !.kind = "empty"] /\ cpc' \in {"write", "ready"}
     \/ UNCHANGED file /\ cpc' = "ready"
  /\ UNCHANGED <<hardware, counting, t, saves, result, used>>

WriteExample ==
  /\ At("write", "ready")
  /\ \/ file' = [NoFile EXCEPT !.kind = "example"]
     \/ UNCHANGED file
  /\ UNCHANGED <<hardware, counting, t, saves, result, used>>

SetClock == ParseFile \/ SetSec \/ SetMin \/ SetHour \/ SetDay \/ CopyTime \/ CopyDay
              \/ EmptyFile \/ WriteExample
-----------------------------------------------------------------------------
(* cal_time_get, for a stamp on a frame or the date of a file: the digits  *)
(* from seconds to hours and then day_count, while the clock goes on.      *)

(* Variant: the day is read first.                                         *)
TakeDayFirst(pc) ==
  CASE pc = "idle" -> <<"min",  Clock([Midnight EXCEPT !.s = chip.s], day_count)>>
    [] pc = "min"  -> <<"hour", [result.read EXCEPT !.m = chip.m]>>
    [] pc = "hour" -> <<"day",  [result.read EXCEPT !.h = chip.h]>>
    [] pc = "day"  -> <<"idle", result.read>>

Take(pc) ==
  CASE pc = "idle" -> <<"min",  Clock([Midnight EXCEPT !.s = chip.s], 0)>>
    [] pc = "min"  -> <<"hour", [result.read EXCEPT !.m = chip.m]>>
    [] pc = "hour" -> <<"day",  [result.read EXCEPT !.h = chip.h]>>
    [] pc = "day"  -> <<"idle", [result.read EXCEPT !.day = day_count]>>

ReadTime ==
  /\ cpc = "ready" /\ day_count # Unset
  /\ result' = [pc |-> Take(result.pc)[1], read |-> Take(result.pc)[2],
                from |-> IF result.pc = "idle" THEN Seconds(Clock(chip, day_count)) ELSE result.from,
                carried |-> result.pc # "idle" /\ result.carried]
  /\ UNCHANGED <<hardware, counting, file, cpc, t, saves, used>>
-----------------------------------------------------------------------------
(* Once the start is over the camera shows the time that was set, through  *)
(* ticks, midnights, ends of months, leap years and restarts - unless a    *)
(* carry came in the middle of setting or copying the digits (torn, ~isSet)*)
(* or the clock was not set to the end, or ran out of its 12 bits of days. *)
TimeIsRight ==
  cpc = "ready" /\ isSet /\ ~torn /\ day_count # Unset =>
    chip = civil[2] /\ JdToDate(day_count) = civil[1]

(* A time that was read is never earlier than when the reading began, nor  *)
(* later than when it ended unless a minute turned meanwhile: then it may  *)
(* be nearly a minute, an hour or a day ahead, as the digits are read low  *)
(* to high while the clock goes on.                                        *)
ReadIsHonest ==
  [][result.pc = "day" /\ result'.pc = "idle" /\ cpc' = "ready" =>
       /\ Seconds(result'.read) >= result.from
       /\ result.carried \/ Seconds(result'.read) <= Seconds(Clock(chip, day_count))]_clockVars

(* The user's time is not thrown away before it is in the clock, wherever  *)
(* the power is cut - unless it is a date no month has, or reading the     *)
(* file failed: then the example is written over it unseen.                *)
TimeFileKept ==
  [][file.kind = "user" /\ file' # file => used \/ ~Settable(file.at[1])]_clockVars
=============================================================================
