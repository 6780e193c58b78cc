------------------------------- MODULE Clock --------------------------------
(***************************************************************************)
(* The time of day: the clock chip is read register by register while it   *)
(* goes on, the date is turned into days since the seed date by the loops  *)
(* of mdate.cpp, the seconds into an unsigned word, and that word into a   *)
(* date again.  A pass of a loop is a step.                                *)
(***************************************************************************)
EXTENDS Integers, Sequences

CONSTANTS StartDates,        \* dates the chip may show at first
          MaxTicks,          \* bound on the seconds that pass while it is read
          SecondsPerMinute, MinutesPerHour, HoursPerDay,   \* 60, 60 and 24
          Word               \* 2^32, the range of a number of seconds

VARIABLES chipDate, chipSecond,  \* the chip: the date and the second of the day
          ticks, carried,        \* seconds passed, and whether one changed more than the seconds
          reads, rtcTime,        \* registers read so far, and what they said
          later, sooner, sign,   \* date1, date2 and switchSign
          year, month, segments, days,   \* y, m, the calls of SameYearDateDifference left, and res
          time,                  \* the seconds since the seed date
          back, left             \* the date that mdate_AddDays is at, and the days left
VARIABLES clockStart, clockStage

chipVars == <<chipDate, chipSecond, ticks, carried>>
countVars == <<later, sooner, sign, year, month, segments, days>>
backVars == <<time, back, left>>
clockVars == <<chipVars, reads, rtcTime, countVars, backVars, clockStart, clockStage>>

SecondsPerHour == SecondsPerMinute * MinutesPerHour
SecondsPerDay == SecondsPerHour * HoursPerDay

JANUARY == 1
DECEMBER == 12

\* seedDate: a Friday.
seedDate == [y |-> 1947, m |-> 8, d |-> 15]

Date == [y : Int, m : Int, d : Int]

-----------------------------------------------------------------------------
(* mdate.cpp *)

IsLeapYear(y) == y % 4 = 0
DaysInMonth(m, y) == IF m = 2 THEN IF IsLeapYear(y) THEN 29 ELSE 28
                     ELSE IF m \in {4, 6, 9, 11} THEN 30 ELSE 31
\* A bug: every year has 365 days.
CommonYear(y) == 365
DaysInYear(y) == IF IsLeapYear(y) THEN 366 ELSE 365

IsValid(a) == /\ a.y > 0 /\ a.y < 10000
              /\ JANUARY <= a.m /\ a.m <= DECEMBER
              /\ 1 <= a.d /\ a.d <= DaysInMonth(a.m, a.y)

IsLesser(a, b) == \/ a.y < b.y
                  \/ a.y = b.y /\ a.m < b.m
                  \/ a.y = b.y /\ a.m = b.m /\ a.d < b.d

\* The month after, and the day before its first one.
NextMonth(y, m) == IF m + 1 > DECEMBER THEN [y |-> y + 1, m |-> JANUARY, d |-> 0]
                   ELSE [y |-> y, m |-> m + 1, d |-> 0]

ASSUME ClockAssumption == /\ SecondsPerMinute \in Nat \ {0} /\ MinutesPerHour \in Nat \ {0}
                          /\ HoursPerDay \in Nat \ {0} /\ Word \in Nat \ {0}
                          /\ StartDates \subseteq {a \in Date : IsValid(a)}

-----------------------------------------------------------------------------
(* RTC *)

\* The chip keeps the same calendar.
NextDay(a) == IF a.d < DaysInMonth(a.m, a.y) THEN [a EXCEPT !.d = @ + 1] ELSE [NextMonth(a.y, a.m) EXCEPT !.d = 1]

RTCRegisters == <<"dayOfMonth", "month", "year", "century", "second", "minute", "hour">>
RegisterNames == {RTCRegisters[i] : i \in DOMAIN RTCRegisters}
Register == [r \in RegisterNames |->
               CASE r = "dayOfMonth" -> chipDate.d
                 [] r = "month" -> chipDate.m
                 [] r = "year" -> chipDate.y % 100
                 [] r = "century" -> chipDate.y \div 100
                 [] r = "second" -> chipSecond % SecondsPerMinute
                 [] r = "minute" -> (chipSecond \div SecondsPerMinute) % MinutesPerHour
                 [] r = "hour" -> chipSecond \div SecondsPerHour]

Tick == /\ clockStage = "read" /\ 0 < reads /\ ticks < MaxTicks
        /\ ticks' = ticks + 1
        /\ IF chipSecond + 1 = SecondsPerDay THEN chipSecond' = 0 /\ chipDate' = NextDay(chipDate)
           ELSE chipSecond' = chipSecond + 1 /\ UNCHANGED chipDate
        /\ carried' = (carried \/ (chipSecond + 1) % SecondsPerMinute = 0)
        /\ UNCHANGED <<reads, rtcTime, countVars, backVars, clockStart, clockStage>>

\* GetDateTime.  It does not look whether the chip is about to change its registers.
ReadRegister ==
  /\ clockStage = "read" /\ reads < Len(RTCRegisters)
  /\ reads' = reads + 1
  /\ rtcTime' = [rtcTime EXCEPT ![RTCRegisters[reads + 1]] = Register[RTCRegisters[reads + 1]]]
  /\ UNCHANGED <<chipVars, countVars, backVars, clockStart, clockStage>>

-----------------------------------------------------------------------------
(* SystemUtil_GetTimeOfDay *)

RtcDate == [y |-> rtcTime["century"] * 100 + rtcTime["year"], m |-> rtcTime["month"], d |-> rtcTime["dayOfMonth"]]
\* A bug: the minutes count as hours.
MinutesAsHours == rtcTime["hour"] * SecondsPerHour + rtcTime["minute"] * SecondsPerHour + rtcTime["second"]
RtcSecond == rtcTime["hour"] * SecondsPerHour + rtcTime["minute"] * SecondsPerMinute + rtcTime["second"]

\* What was read in two pieces need not be a date: the call fails.
InvalidTime == /\ clockStage = "read" /\ reads = Len(RTCRegisters) /\ ~IsValid(RtcDate)
               /\ clockStage' = "invalid"
               /\ UNCHANGED <<chipVars, reads, rtcTime, countVars, backVars, clockStart>>

\* mdate_DateDifference: the later date less the sooner one.  Within a year that is one call of
\* SameYearDateDifference, otherwise two, to the end of the one year and from the start of the
\* other, with a day between them and the years between.
DateDifference ==
  /\ clockStage = "read" /\ reads = Len(RTCRegisters) /\ IsValid(RtcDate)
  /\ LET a == IF IsLesser(RtcDate, seedDate) THEN seedDate ELSE RtcDate
         b == IF IsLesser(RtcDate, seedDate) THEN RtcDate ELSE seedDate
     IN  /\ later' = a /\ sooner' = b
         /\ sign' = IF IsLesser(RtcDate, seedDate) THEN -1 ELSE 1
         /\ IF a.y = b.y THEN year' = a.y /\ days' = 0 /\ segments' = <<[from |-> b, to |-> a]>>
            ELSE /\ year' = b.y + 1 /\ days' = 1
                 /\ segments' = <<[from |-> b, to |-> [y |-> b.y, m |-> DECEMBER, d |-> 31]],
                                  [from |-> [y |-> a.y, m |-> JANUARY, d |-> 1], to |-> a]>>
  /\ month' = 0
  /\ clockStage' = "count"
  /\ UNCHANGED <<chipVars, reads, rtcTime, backVars, clockStart>>

CountYear == /\ clockStage = "count" /\ year # later.y
             /\ days' = days + DaysInYear(year) /\ year' = year + 1
             /\ UNCHANGED <<chipVars, reads, rtcTime, later, sooner, sign, month, segments, backVars,
                            clockStart, clockStage>>

\* mdate_SameYearDateDifference: m is 0 before the loop.
Counting == clockStage = "count" /\ year = later.y /\ segments # <<>>
Segment == Head(segments)
CountWithinMonth == /\ Counting /\ month = 0 /\ Segment.from.m = Segment.to.m
                    /\ days' = days + (Segment.to.d - Segment.from.d)
                    /\ segments' = Tail(segments)
                    /\ UNCHANGED <<chipVars, reads, rtcTime, later, sooner, sign, year, month, backVars,
                                   clockStart, clockStage>>
CountFirstMonth == /\ Counting /\ month = 0 /\ Segment.from.m # Segment.to.m
                   /\ days' = days + (DaysInMonth(Segment.from.m, Segment.from.y) - Segment.from.d)
                   /\ month' = Segment.from.m + 1
                   /\ UNCHANGED <<chipVars, reads, rtcTime, later, sooner, sign, year, segments, backVars,
                                  clockStart, clockStage>>
CountMonth == /\ Counting /\ month # 0 /\ month # Segment.to.m
              /\ days' = days + DaysInMonth(month, Segment.from.y)
              /\ month' = month + 1
              /\ UNCHANGED <<chipVars, reads, rtcTime, later, sooner, sign, year, segments, backVars,
                             clockStart, clockStage>>
CountLastMonth == /\ Counting /\ month # 0 /\ month = Segment.to.m
                  /\ days' = days + Segment.to.d
                  /\ month' = 0 /\ segments' = Tail(segments)
                  /\ UNCHANGED <<chipVars, reads, rtcTime, later, sooner, sign, year, backVars,
                                 clockStart, clockStage>>

\* The product is one of int, the sum goes back as an unsigned word.  SystemUtil_GetRTCTimeFromTime
\* starts at the seed date.
GetTimeOfDay == /\ clockStage = "count" /\ year = later.y /\ segments = <<>>
                /\ LET t == (sign * days * SecondsPerDay + RtcSecond) % Word
                   IN  time' = t /\ left' = t \div SecondsPerDay
                /\ back' = seedDate
                /\ clockStage' = "back"
                /\ UNCHANGED <<chipVars, reads, rtcTime, countVars, clockStart>>

-----------------------------------------------------------------------------
(* SystemUtil_GetRTCTimeFromTime: mdate_AddDays *)

AddMonth == /\ clockStage = "back" /\ left > 0 /\ back.d + left > DaysInMonth(back.m, back.y)
            /\ left' = left - (DaysInMonth(back.m, back.y) - back.d)
            /\ back' = NextMonth(back.y, back.m)
            /\ UNCHANGED <<chipVars, reads, rtcTime, countVars, time, clockStart, clockStage>>

AddDays == /\ clockStage = "back" /\ left > 0 /\ back.d + left <= DaysInMonth(back.m, back.y)
           /\ back' = [back EXCEPT !.d = @ + left]
           /\ left' = 0
           /\ UNCHANGED <<chipVars, reads, rtcTime, countVars, time, clockStart, clockStage>>

GetRTCTimeFromTime ==
  /\ clockStage = "back" /\ left = 0
  /\ clockStage' = "done"
  /\ UNCHANGED <<chipVars, reads, rtcTime, countVars, backVars, clockStart>>

BackSecond == time % SecondsPerDay

ClockInit ==
  /\ chipDate \in StartDates /\ chipSecond \in 0 .. SecondsPerDay - 1
  /\ ticks = 0 /\ carried = FALSE
  /\ reads = 0 /\ rtcTime = [r \in RegisterNames |-> 0]
  /\ later = seedDate /\ sooner = seedDate /\ sign = 1 /\ year = seedDate.y /\ month = 0
  /\ segments = <<>> /\ days = 0
  /\ time = 0 /\ back = seedDate /\ left = 0
  /\ clockStart = [date |-> chipDate, second |-> chipSecond] /\ clockStage = "read"

ClockNext == \/ Tick \/ ReadRegister \/ InvalidTime \/ DateDifference
             \/ CountYear \/ CountWithinMonth \/ CountFirstMonth \/ CountMonth \/ CountLastMonth
             \/ GetTimeOfDay \/ AddMonth \/ AddDays \/ GetRTCTimeFromTime

ClockSpec == ClockInit /\ [][ClockNext]_clockVars

-----------------------------------------------------------------------------
(* A calendar without loops *)

\* The days before a year and, in it, before a month.
YearStart(y) == 365 * (y - 1) + (y - 1) \div 4
MonthStart(m, y) == LET common == <<0, 31, 59, 90, 120, 151, 181, 212, 243, 273, 304, 334>>
                    IN  common[m] + IF m > 2 /\ IsLeapYear(y) THEN 1 ELSE 0
DayNumber(a) == YearStart(a.y) + MonthStart(a.m, a.y) + a.d
DaysSinceSeed(a) == DayNumber(a) - DayNumber(seedDate)

ClockTypeOK ==
  /\ IsValid(chipDate) /\ chipSecond \in 0 .. SecondsPerDay - 1
  /\ ticks \in 0 .. MaxTicks /\ carried \in BOOLEAN
  /\ reads \in 0 .. Len(RTCRegisters)
  /\ IsValid(later) /\ IsValid(sooner) /\ sign \in {-1, 1}
  /\ month \in 0 .. DECEMBER /\ Len(segments) <= 2 /\ days \in Nat
  /\ time \in 0 .. Word - 1 /\ left \in 0 .. Word \div SecondsPerDay
  /\ IsValid([back EXCEPT !.d = IF @ = 0 THEN 1 ELSE @])
  /\ clockStage \in {"read", "invalid", "count", "back", "done"}

\* The days of a date that was counted are those of the calendar, before the seed date too.
DaysAreExact == clockStage \in {"back", "done"} => sign * days = DaysSinceSeed(RtcDate)

\* A date that was put together from a number of seconds has all of them.
DatesAreExact == clockStage \in {"back", "done"} => DaysSinceSeed(back) + left = time \div SecondsPerDay

\* The loops of mdate.cpp agree with the calendar in both directions.
DatesAreRight == DaysAreExact /\ DatesAreExact

\* Unless more than the seconds changed while the chip was read, the time told is one from the
\* start of the call to its end, as long as a word holds it, and becomes that date again.
Instant(date, second) == DaysSinceSeed(date) * SecondsPerDay + second
TimeIsTold ==
  clockStage = "done" /\ ~carried /\ ~IsLesser(RtcDate, seedDate)
    /\ DaysSinceSeed(RtcDate) < Word \div SecondsPerDay =>
      /\ Instant(clockStart.date, clockStart.second) <= time
      /\ time <= Instant(chipDate, chipSecond)
      /\ back = RtcDate /\ BackSecond = RtcSecond
=============================================================================
