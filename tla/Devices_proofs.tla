------------------------- MODULE Devices_proofs -------------------------
(***************************************************************************)
(* What is proved of the drivers whose other half is hardware.             *)
(*                                                                         *)
(* Clock: the loops of mdate.cpp agree with the calendar for every date of *)
(* the chip, before and after the seed date, and for clocks of any base.   *)
(* The invariant of a loop says what is still to come: the days counted    *)
(* and the days from where the loop is to its end are always those between *)
(* the two dates, and on the way back the date reached and the days left   *)
(* are those of the time.  What the registers say is what the chip shows   *)
(* but for the seconds, until one changes more than these.                 *)
(*                                                                         *)
(* ATA: drive and bus master are somewhere in the call, or quiet.          *)
(*                                                                         *)
(* Floppy: while the driver waits for a transfer the controller executes   *)
(* the one asked for or holds the reply to it, and the motor is left alone *)
(* from its start to the end of the transfer.                              *)
(***************************************************************************)
EXTENDS Devices, SequenceTheorems, TLAPS

-----------------------------------------------------------------------------
(* The calendar *)

\* A year starts where the one before it ends.
LEMMA YearsFollow ==
  ASSUME NEW y \in Int
  PROVE  /\ YearStart(y) \in Int
         /\ YearStart(y + 1) = YearStart(y) + DaysInYear(y)
BY DEF YearStart, DaysInYear, IsLeapYear

\* So does a month, and the last one ends with the year.
LEMMA MonthsFollow ==
  ASSUME NEW y \in Int, NEW m \in 1 .. 12
  PROVE  /\ MonthStart(m, y) \in Int /\ DaysInMonth(m, y) \in 28 .. 31
         /\ MonthStart(1, y) = 0
         /\ m < 12 => MonthStart(m + 1, y) = MonthStart(m, y) + DaysInMonth(m, y)
         /\ MonthStart(12, y) + 31 = DaysInYear(y)
<1>1. m \in {1, 2, 3, 4, 5, 6, 7, 8, 9, 10, 11, 12}
  OBVIOUS
<1>2. IsLeapYear(y) \in BOOLEAN
  BY DEF IsLeapYear
<1>3. DaysInMonth(m, y) \in 28 .. 31
  BY DEF DaysInMonth
<1>4. MonthStart(1, y) = 0 /\ MonthStart(12, y) + 31 = DaysInYear(y)
  BY DEF MonthStart, DaysInYear
<1>5. MonthStart(m, y) \in Int
  BY <1>1 DEF MonthStart
<1>6. ASSUME m < 12
      PROVE  MonthStart(m + 1, y) = MonthStart(m, y) + DaysInMonth(m, y)
  <2>1. CASE m = 1
    BY <2>1 DEF MonthStart, DaysInMonth
  <2>2. CASE m = 2
    BY <2>2 DEF MonthStart, DaysInMonth
  <2>3. CASE m \in {3, 4, 5, 6}
    BY <2>3 DEF MonthStart, DaysInMonth
  <2>4. CASE m \in {7, 8, 9, 10, 11}
    BY <2>4 DEF MonthStart, DaysInMonth
  <2> QED BY <1>1, <1>6, <2>1, <2>2, <2>3, <2>4
<1> QED BY <1>3, <1>4, <1>5, <1>6

LEMMA CalendarTypes ==
  ASSUME NEW y \in Int, NEW m \in 1 .. 12
  PROVE  YearStart(y) \in Int /\ MonthStart(m, y) \in Int /\ DaysInMonth(m, y) \in 28 .. 31
<1>1. YearStart(y) \in Int
  BY YearsFollow
<1> QED BY <1>1, MonthsFollow

\* A date of the calendar, also the day before the first of a month.
Good(a) == a \in Date /\ a.m \in 1 .. 12 /\ a.d >= 0

LEMMA ValidIsGood ==
  ASSUME NEW a \in Date, IsValid(a)
  PROVE  Good(a) /\ a.d >= 1 /\ a.d <= DaysInMonth(a.m, a.y)
BY DEF Good, IsValid, Date, JANUARY, DECEMBER

LEMMA DayNumbers ==
  ASSUME NEW a, Good(a)
  PROVE  /\ DayNumber(a) \in Int /\ YearStart(a.y) \in Int /\ MonthStart(a.m, a.y) \in Int
         /\ DayNumber(a) = YearStart(a.y) + MonthStart(a.m, a.y) + a.d
<1>1. a.y \in Int /\ a.m \in 1 .. 12 /\ a.d \in Int
  BY DEF Good, Date
<1>2. YearStart(a.y) \in Int /\ MonthStart(a.m, a.y) \in Int
  BY <1>1, CalendarTypes
<1> QED BY <1>1, <1>2 DEF DayNumber

\* The day before the first of a month is the last of the month before it.
LEMMA NextMonthFollows ==
  ASSUME NEW y \in Int, NEW m \in 1 .. 12
  PROVE  /\ Good(NextMonth(y, m))
         /\ DayNumber(NextMonth(y, m)) = YearStart(y) + MonthStart(m, y) + DaysInMonth(m, y)
<1>1. CASE m = 12
  <2>1. NextMonth(y, m) = [y |-> y + 1, m |-> 1, d |-> 0]
    BY <1>1 DEF NextMonth, DECEMBER, JANUARY
  <2>2. DaysInMonth(m, y) = 31
    BY <1>1 DEF DaysInMonth
  <2>3. Good(NextMonth(y, m))
    BY <2>1 DEF Good, Date
  <2>4. DayNumber(NextMonth(y, m)) = YearStart(y + 1) + MonthStart(1, y + 1)
    BY <2>1, YearsFollow, MonthsFollow, y + 1 \in Int DEF DayNumber
  <2>5. MonthStart(1, y + 1) = 0
    BY MonthsFollow, y + 1 \in Int
  <2>6. YearStart(y + 1) = YearStart(y) + DaysInYear(y) /\ MonthStart(12, y) + 31 = DaysInYear(y)
    BY YearsFollow, MonthsFollow
  <2>7. YearStart(y) \in Int /\ MonthStart(12, y) \in Int
    BY CalendarTypes, 12 \in 1 .. 12
  <2>8. DayNumber(NextMonth(y, m)) = YearStart(y) + MonthStart(12, y) + 31
    BY <2>4, <2>5, <2>6, <2>7
  <2> QED BY <1>1, <2>2, <2>3, <2>8
<1>2. CASE m # 12
  <2>1. NextMonth(y, m) = [y |-> y, m |-> m + 1, d |-> 0]
    BY <1>2 DEF NextMonth, DECEMBER, JANUARY
  <2>2. Good(NextMonth(y, m))
    BY <1>2, <2>1 DEF Good, Date
  <2>3. DayNumber(NextMonth(y, m)) = YearStart(y) + MonthStart(m + 1, y)
    <3>1. m + 1 \in 1 .. 12
      BY <1>2
    <3>2. YearStart(y) \in Int /\ MonthStart(m + 1, y) \in Int
      BY <3>1, CalendarTypes
    <3> QED BY <2>1, <3>2 DEF DayNumber
  <2>4. MonthStart(m + 1, y) = MonthStart(m, y) + DaysInMonth(m, y) /\ MonthStart(m, y) \in Int
    BY <1>2, MonthsFollow
  <2>5. YearStart(y) \in Int /\ DaysInMonth(m, y) \in 28 .. 31
    BY CalendarTypes
  <2> QED BY <2>2, <2>3, <2>4, <2>5
<1> QED BY <1>1, <1>2

-----------------------------------------------------------------------------
(* What is still to be counted *)

\* The dates of a segment are of one year, the sooner first.
Segments == [from : Date, to : Date]
GoodSegment(s) == /\ s \in Segments /\ Good(s.from) /\ Good(s.to)
                  /\ s.from.y = s.to.y /\ s.from.m <= s.to.m
Span(s) == DayNumber(s.to) - DayNumber(s.from)

\* Of a segment that the loop over its months is in, the months from m on.
Ahead(s, m) == IF m = 0 THEN Span(s) ELSE MonthStart(s.to.m, s.to.y) + s.to.d - MonthStart(m, s.from.y)

Remaining == (YearStart(later.y) - YearStart(year))
             + (IF segments = <<>> THEN 0 ELSE Ahead(segments[1], month))
             + (IF Len(segments) = 2 THEN Span(segments[2]) ELSE 0)

CountInv ==
  /\ later \in Date /\ sooner \in Date /\ sign \in {-1, 1}
  /\ year \in Int /\ days \in Int /\ month \in Int
  /\ segments \in Seq(Segments) /\ Len(segments) \in 0 .. 2
  /\ \A i \in 1 .. Len(segments) : GoodSegment(segments[i])
  /\ month # 0 => segments # <<>> /\ segments[1].from.m < month /\ month <= segments[1].to.m
  /\ sign * (days + Remaining) = DaysSinceSeed(RtcDate)

BackInv == /\ Good(back) /\ left \in Nat /\ time \in Nat
           /\ sign \in {-1, 1} /\ days \in Int
           /\ sign * days = DaysSinceSeed(RtcDate)
           /\ DaysSinceSeed(back) + left = time \div SecondsPerDay

ClockIInv ==
  /\ chipDate \in Date /\ chipSecond \in Int /\ reads \in Nat
  /\ rtcTime \in [RegisterNames -> Int]
  /\ clockStage \in {"read", "invalid", "count", "back", "done"}
  /\ clockStage = "count" => CountInv
  /\ clockStage \in {"back", "done"} => BackInv

-----------------------------------------------------------------------------
LEMMA ClockStarts == ClockInit => ClockIInv
<1> SUFFICES ASSUME ClockInit PROVE ClockIInv
  OBVIOUS
<1>1. chipDate \in Date /\ IsValid(chipDate)
  BY ClockAssumption DEF ClockInit
<1>2. SecondsPerDay \in Nat
  BY ClockAssumption DEF SecondsPerDay, SecondsPerHour
<1> QED BY <1>1, <1>2 DEF ClockInit, ClockIInv

\* What the registers say are numbers.
LEMMA RegistersAreNumbers ==
  ASSUME chipDate \in Date, chipSecond \in Int, NEW r \in RegisterNames
  PROVE  Register[r] \in Int
<1>1. chipDate.d \in Int /\ chipDate.m \in Int /\ chipDate.y \in Int
  BY DEF Date
<1>2. chipDate.y % 100 \in Int /\ chipDate.y \div 100 \in Int
  BY <1>1
<1>3. chipSecond % SecondsPerMinute \in Int /\ chipSecond \div SecondsPerMinute \in Int
  BY ClockAssumption
<1>4. (chipSecond \div SecondsPerMinute) % MinutesPerHour \in Int
  BY <1>3, ClockAssumption
<1>5. SecondsPerHour \in Nat \ {0}
  BY ClockAssumption DEF SecondsPerHour
<1>6. chipSecond \div SecondsPerHour \in Int
  BY <1>5
<1>7. r \in {"dayOfMonth", "month", "year", "century", "second", "minute", "hour"}
  BY DEF RegisterNames, RTCRegisters
<1> QED BY <1>1, <1>2, <1>3, <1>4, <1>6, <1>7 DEF Register

\* The numbers read are a date, a valid one or not.
LEMMA ReadIsDate ==
  ASSUME rtcTime \in [RegisterNames -> Int]
  PROVE  RtcDate \in Date
<1>1. {"dayOfMonth", "month", "year", "century"} \subseteq RegisterNames
  BY DEF RegisterNames, RTCRegisters
<1>2. rtcTime["century"] \in Int /\ rtcTime["year"] \in Int /\ rtcTime["month"] \in Int /\ rtcTime["dayOfMonth"] \in Int
  BY <1>1
<1> QED BY <1>2 DEF RtcDate, Date

LEMMA SeedIsValid == seedDate \in Date /\ IsValid(seedDate)
BY DEF seedDate, Date, IsValid, DaysInMonth, IsLeapYear, JANUARY, DECEMBER

\* What a count is of does not change once it is on.
LEMMA CountGoesOn ==
  ASSUME CountInv, clockStage = "count",
         UNCHANGED <<rtcTime, later, sooner, sign>>,
         year' \in Int, days' \in Int, month' \in Int,
         segments' \in Seq(Segments), Len(segments') \in 0 .. 2,
         \A i \in 1 .. Len(segments') : GoodSegment(segments'[i]),
         month' # 0 => segments' # <<>> /\ segments'[1].from.m < month' /\ month' <= segments'[1].to.m,
         days' + Remaining' = days + Remaining
  PROVE  CountInv'
<1>1. RtcDate' = RtcDate
  BY DEF RtcDate
<1>2. (sign * (days + Remaining))' = DaysSinceSeed(RtcDate')
  BY <1>1 DEF CountInv
<1>3. \A i \in 1 .. Len(segments') : GoodSegment(segments[i])'
  OBVIOUS
<1> QED BY <1>2, <1>3 DEF CountInv

\* Numbers of a segment.
LEMMA SegmentNumbers ==
  ASSUME NEW s, GoodSegment(s)
  PROVE  /\ Good(s.from) /\ Good(s.to) /\ s.from.y = s.to.y /\ s.from.m <= s.to.m
         /\ s.from.y \in Int /\ s.from.m \in 1 .. 12 /\ s.to.m \in 1 .. 12
         /\ s.from.d \in Int /\ s.to.d \in Int
         /\ MonthStart(s.from.m, s.from.y) \in Int /\ MonthStart(s.to.m, s.to.y) \in Int
         /\ Span(s) = MonthStart(s.to.m, s.to.y) + s.to.d - (MonthStart(s.from.m, s.from.y) + s.from.d)
         /\ Span(s) \in Int
<1>1. /\ Good(s.from) /\ Good(s.to) /\ s.from.y = s.to.y /\ s.from.m <= s.to.m
      /\ s.from.y \in Int /\ s.from.m \in 1 .. 12 /\ s.to.m \in 1 .. 12
      /\ s.from.d \in Int /\ s.to.d \in Int
  BY DEF GoodSegment, Good, Date
<1>2. /\ DayNumber(s.from) = YearStart(s.from.y) + MonthStart(s.from.m, s.from.y) + s.from.d
      /\ DayNumber(s.to) = YearStart(s.to.y) + MonthStart(s.to.m, s.to.y) + s.to.d
      /\ YearStart(s.from.y) \in Int /\ YearStart(s.to.y) \in Int
      /\ MonthStart(s.from.m, s.from.y) \in Int /\ MonthStart(s.to.m, s.to.y) \in Int
  BY <1>1, DayNumbers
<1> QED BY <1>1, <1>2 DEF Span

\* The first segment and the rest.
LEMMA FirstSegment ==
  ASSUME CountInv, segments # <<>>
  PROVE  /\ GoodSegment(segments[1]) /\ Head(segments) = segments[1] /\ Len(segments) \in 1 .. 2
         /\ Tail(segments) \in Seq(Segments) /\ Len(Tail(segments)) = Len(segments) - 1
         /\ Len(Tail(segments)) # 2
         /\ Len(segments) = 2 => /\ Tail(segments) # <<>> /\ Tail(segments)[1] = segments[2]
                                  /\ GoodSegment(segments[2])
         /\ Len(segments) = 1 => Tail(segments) = <<>>
<1>1. segments \in Seq(Segments) /\ Len(segments) \in 1 .. 2
  BY DEF CountInv
<1>2. \A i \in 1 .. Len(segments) : GoodSegment(segments[i])
  BY DEF CountInv
<1>3. GoodSegment(segments[1]) /\ (Len(segments) = 2 => GoodSegment(segments[2]))
  BY <1>1, <1>2
<1>4. Head(segments) = segments[1]
  BY <1>1
<1>5. Tail(segments) \in Seq(Segments) /\ Len(Tail(segments)) = Len(segments) - 1
  BY <1>1
<1>6. Len(<<>>) = 0 /\ (Tail(segments) # <<>> => Len(Tail(segments)) # 0)
  <2>1. \A seq \in Seq(Segments) : seq # <<>> => Len(seq) \in Nat \ {0}
    BY EmptySeq
  <2> QED BY <1>5, <2>1
<1>7. \A i \in 1 .. Len(Tail(segments)) : Tail(segments)[i] = segments[i + 1]
  BY <1>1, HeadTailProperties
<1>8. Len(segments) = 2 => Tail(segments)[1] = segments[2]
  <2>1. ASSUME Len(segments) = 2
        PROVE  1 \in 1 .. Len(Tail(segments))
    BY <1>5, <2>1
  <2>2. ASSUME Len(segments) = 2
        PROVE  Tail(segments)[1] = segments[1 + 1]
    BY <1>7, <2>1, <2>2
  <2> QED BY <2>2
<1>9. (Len(segments) = 2 => Tail(segments) # <<>>) /\ (Len(segments) = 1 => Tail(segments) = <<>>)
  <2>1. Len(segments) \in 1 .. 2 /\ Len(Tail(segments)) = Len(segments) - 1
    BY <1>1, <1>5
  <2>2. ASSUME Len(segments) = 2
        PROVE  Tail(segments) # <<>>
    <3>1. Len(Tail(segments)) = 1
      BY <2>1, <2>2
    <3>2. ASSUME Tail(segments) = <<>>
          PROVE  0 = 1
      BY <1>6, <3>1, <3>2, Zenon
    <3> QED BY <3>2
  <2>3. ASSUME Len(segments) = 1
        PROVE  Tail(segments) = <<>>
    <3>1. Len(Tail(segments)) = 0
      BY <2>1, <2>3
    <3> QED BY <1>6, <3>1
  <2> QED BY <2>2, <2>3
<1>10. Len(Tail(segments)) # 2
  <2>1. \A n \in 1 .. 2 : n - 1 # 2
    OBVIOUS
  <2> QED BY <1>1, <1>5, <2>1, Zenon
<1> QED BY <1>1, <1>3, <1>4, <1>5, <1>8, <1>9, <1>10

LEMMA RemainingIsNumber ==
  ASSUME CountInv
  PROVE  /\ YearStart(later.y) \in Int /\ YearStart(year) \in Int
         /\ segments # <<>> => Ahead(segments[1], month) \in Int
         /\ Len(segments) = 2 => Span(segments[2]) \in Int
         /\ Remaining \in Int
<1>1. YearStart(later.y) \in Int /\ YearStart(year) \in Int
  BY YearsFollow DEF CountInv, Date
<1>2. ASSUME segments # <<>>
      PROVE  Ahead(segments[1], month) \in Int
  <2>1. GoodSegment(segments[1])
    BY <1>2, FirstSegment
  <2>2. CASE month = 0
    BY <2>1, <2>2, SegmentNumbers DEF Ahead
  <2>3. CASE month # 0
    <3>1. month \in 1 .. 12
      <4>1. segments[1].from.m < month /\ month <= segments[1].to.m /\ month \in Int
        BY <2>3 DEF CountInv
      <4>2. segments[1].from.m \in 1 .. 12 /\ segments[1].to.m \in 1 .. 12
        BY <2>1, SegmentNumbers
      <4> QED BY <4>1, <4>2
    <3>2. MonthStart(month, segments[1].from.y) \in Int
      BY <2>1, <3>1, SegmentNumbers, CalendarTypes
    <3> QED BY <2>1, <2>3, <3>2, SegmentNumbers DEF Ahead
  <2> QED BY <2>2, <2>3
<1>3. Len(segments) = 2 => Span(segments[2]) \in Int
  BY SegmentNumbers, FirstSegment
<1> QED BY <1>1, <1>2, <1>3 DEF Remaining

\* The difference as it is split: the days between the years, and what is in the two of them.
LEMMA DifferenceBegins == ClockIInv /\ DateDifference => CountInv'
<1> SUFFICES ASSUME ClockIInv, DateDifference PROVE CountInv'
  OBVIOUS
<1> DEFINE before == IsLesser(RtcDate, seedDate)
           a == IF before THEN seedDate ELSE RtcDate
           b == IF before THEN RtcDate ELSE seedDate
           end == [y |-> b.y, m |-> DECEMBER, d |-> 31]
           start == [y |-> a.y, m |-> JANUARY, d |-> 1]
<1>1. RtcDate \in Date /\ IsValid(RtcDate) /\ RtcDate' = RtcDate
  BY ReadIsDate DEF ClockIInv, DateDifference, RtcDate
<1>2. a \in Date /\ b \in Date /\ IsValid(a) /\ IsValid(b) /\ Good(a) /\ Good(b)
  BY <1>1, SeedIsValid, ValidIsGood
<1>3. a.y \in Int /\ b.y \in Int /\ b.m \in 1 .. 12 /\ a.m \in 1 .. 12 /\ a.d \in Int /\ b.d \in Int
  BY <1>2 DEF Good, Date
<1>4. b.y <= a.y /\ (b.y = a.y => b.m <= a.m)
  <2>1. CASE before
    BY <1>3, <2>1 DEF IsLesser
  <2>2. CASE ~before
    BY <1>3, <2>2 DEF IsLesser
  <2> QED BY <2>1, <2>2
<1>5. /\ later' = a /\ sooner' = b /\ month' = 0
      /\ sign' = (IF before THEN -1 ELSE 1)
  BY DEF DateDifference
<1>6. sign' * (DayNumber(a) - DayNumber(b)) = DaysSinceSeed(RtcDate)
  <2>1. DayNumber(a) \in Int /\ DayNumber(b) \in Int
    BY <1>2, DayNumbers
  <2>2. CASE before
    BY <1>5, <2>1, <2>2 DEF DaysSinceSeed
  <2>3. CASE ~before
    BY <1>5, <2>1, <2>3 DEF DaysSinceSeed
  <2> QED BY <2>2, <2>3
<1>7. CASE a.y = b.y
  <2> DEFINE s == [from |-> b, to |-> a]
  <2>1. year' = a.y /\ days' = 0 /\ segments' = <<s>>
    BY <1>7 DEF DateDifference
  <2>2. GoodSegment(s)
    BY <1>2, <1>4, <1>7 DEF GoodSegment, Segments
  <2>3. Remaining' = (YearStart(a.y) - YearStart(a.y)) + Ahead(s, 0) + 0
    BY <1>5, <2>1 DEF Remaining
  <2>4. Ahead(s, 0) = DayNumber(a) - DayNumber(b)
    BY DEF Ahead, Span
  <2>5. YearStart(a.y) \in Int /\ DayNumber(a) \in Int /\ DayNumber(b) \in Int
    BY <1>2, DayNumbers
  <2>6. days' + Remaining' = DayNumber(a) - DayNumber(b)
    BY <2>1, <2>3, <2>4, <2>5
  <2>7. segments' \in Seq(Segments) /\ Len(segments') = 1 /\ segments'[1] = s
    BY <2>1, <2>2 DEF GoodSegment
  <2> QED BY <1>1, <1>2, <1>3, <1>5, <1>6, <2>1, <2>2, <2>6, <2>7 DEF CountInv
<1>8. CASE a.y # b.y
  <2> DEFINE s == [from |-> b, to |-> end]
             t == [from |-> start, to |-> a]
  <2>1. year' = b.y + 1 /\ days' = 1 /\ segments' = <<s, t>>
    BY <1>8 DEF DateDifference
  <2>2. Good(end) /\ Good(start)
    BY <1>3 DEF Good, Date, DECEMBER, JANUARY
  <2>3. GoodSegment(s) /\ GoodSegment(t)
    BY <1>2, <1>3, <2>2 DEF GoodSegment, Segments, DECEMBER, JANUARY, Good
  <2>4. Remaining' = (YearStart(a.y) - YearStart(b.y + 1)) + Ahead(s, 0) + Span(t)
    BY <1>5, <2>1 DEF Remaining
  <2>5. Ahead(s, 0) = DayNumber(end) - DayNumber(b) /\ Span(t) = DayNumber(a) - DayNumber(start)
    BY DEF Ahead, Span
  <2>6. /\ DayNumber(end) = YearStart(b.y) + MonthStart(12, b.y) + 31
        /\ DayNumber(start) = YearStart(a.y) + MonthStart(1, a.y) + 1
    BY <2>2, DayNumbers DEF DECEMBER, JANUARY
  <2>7. MonthStart(1, a.y) = 0 /\ MonthStart(12, b.y) + 31 = DaysInYear(b.y)
    BY <1>3, MonthsFollow, 1 \in 1 .. 12
  <2>8. YearStart(b.y + 1) = YearStart(b.y) + DaysInYear(b.y)
    BY <1>3, YearsFollow
  <2>9. /\ YearStart(a.y) \in Int /\ YearStart(b.y) \in Int /\ DayNumber(a) \in Int /\ DayNumber(b) \in Int
        /\ MonthStart(12, b.y) \in Int
    BY <1>2, <1>3, DayNumbers, CalendarTypes, 12 \in 1 .. 12
  <2>10. days' + Remaining' = DayNumber(a) - DayNumber(b)
    <3>1. DaysInYear(b.y) \in Int
      BY DEF DaysInYear
    <3> HIDE DEF s, t, a, b, end, start
    <3> QED BY <2>1, <2>4, <2>5, <2>6, <2>7, <2>8, <2>9, <3>1
  <2>11. segments' \in Seq(Segments) /\ Len(segments') = 2 /\ segments'[1] = s /\ segments'[2] = t
    BY <2>1, <2>3 DEF GoodSegment
  <2> QED BY <1>1, <1>2, <1>3, <1>5, <1>6, <2>1, <2>3, <2>10, <2>11 DEF CountInv
<1> QED BY <1>7, <1>8

\* A year more is counted and a year less is to come.
LEMMA YearIsCounted == ClockIInv /\ CountYear => CountInv'
<1> SUFFICES ASSUME ClockIInv, CountYear PROVE CountInv'
  OBVIOUS
<1>1. CountInv /\ clockStage = "count"
  BY DEF ClockIInv, CountYear
<1>2. /\ year' = year + 1 /\ days' = days + DaysInYear(year)
      /\ UNCHANGED <<rtcTime, later, sooner, sign, month, segments>>
  BY DEF CountYear
<1>3. year \in Int /\ days \in Int /\ DaysInYear(year) \in Int
  BY <1>1 DEF CountInv, DaysInYear
<1>4. YearStart(year') = YearStart(year) + DaysInYear(year)
  BY <1>2, <1>3, YearsFollow
<1>5. Ahead(segments[1], month)' = Ahead(segments[1], month) /\ Span(segments[2])' = Span(segments[2])
  BY <1>2 DEF Ahead, Span
<1>6. days' + Remaining' = days + Remaining
  <2> DEFINE x == IF segments = <<>> THEN 0 ELSE Ahead(segments[1], month)
             y == IF Len(segments) = 2 THEN Span(segments[2]) ELSE 0
  <2>1. x \in Int /\ y \in Int /\ YearStart(later.y) \in Int /\ YearStart(year) \in Int
    BY <1>1, RemainingIsNumber
  <2>2. Remaining = (YearStart(later.y) - YearStart(year)) + x + y
    BY DEF Remaining
  <2>3. Remaining' = (YearStart(later.y) - YearStart(year')) + x + y
    BY <1>2, <1>5 DEF Remaining
  <2> HIDE DEF x, y
  <2> QED BY <1>2, <1>3, <1>4, <2>1, <2>2, <2>3
<1>7. /\ segments' \in Seq(Segments) /\ Len(segments') \in 0 .. 2
      /\ \A i \in 1 .. Len(segments') : GoodSegment(segments'[i])
      /\ month' \in Int
      /\ month' # 0 => segments' # <<>> /\ segments'[1].from.m < month' /\ month' <= segments'[1].to.m
  BY <1>1, <1>2 DEF CountInv
<1>8. year' \in Int /\ days' \in Int
  BY <1>2, <1>3
<1> QED BY <1>1, <1>2, <1>6, <1>7, <1>8, CountGoesOn

\* A step inside the first segment that leaves it there.
LEMMA WithinSegment ==
  ASSUME CountInv, clockStage = "count", segments # <<>>,
         UNCHANGED <<rtcTime, later, sooner, sign, year, segments>>,
         days' \in Int, month' \in 1 .. 12,
         segments[1].from.m < month', month' <= segments[1].to.m,
         days' = days + (Ahead(segments[1], month) - Ahead(segments[1], month'))
  PROVE  CountInv'
<1>1. GoodSegment(segments[1])
  BY FirstSegment
<1>2. Ahead(segments[1], month') \in Int
  <2>1. MonthStart(month', segments[1].from.y) \in Int
    BY <1>1, SegmentNumbers, CalendarTypes
  <2> QED BY <1>1, <2>1, SegmentNumbers DEF Ahead
<1>3. Ahead(segments[1], month)' = Ahead(segments[1], month') /\ Span(segments[2])' = Span(segments[2])
  BY DEF Ahead, Span
<1>4. days' + Remaining' = days + Remaining
  <2> DEFINE x == Ahead(segments[1], month)
             z == Ahead(segments[1], month')
             y == IF Len(segments) = 2 THEN Span(segments[2]) ELSE 0
  <2>1. x \in Int /\ y \in Int /\ z \in Int /\ days \in Int /\ YearStart(later.y) \in Int /\ YearStart(year) \in Int
    BY <1>2, RemainingIsNumber DEF CountInv
  <2>2. Remaining = (YearStart(later.y) - YearStart(year)) + x + y
    BY DEF Remaining
  <2>3. Remaining' = (YearStart(later.y) - YearStart(year)) + z + y
    BY <1>3 DEF Remaining
  <2>4. days' = days + (x - z)
    OBVIOUS
  <2> DEFINE a == YearStart(later.y) - YearStart(year)
             r == Remaining
  <2>5. a \in Int
    BY <2>1
  <2>6. r = a + x + y /\ r' = a + z + y
    BY <2>2, <2>3
  <2> HIDE DEF x, y, z, a, r
  <2>7. days + (x - z) + (a + z + y) = days + (a + x + y)
    BY <2>1, <2>5
  <2>8. days' + r' = days + r
    BY <2>4, <2>6, <2>7
  <2> QED BY <2>8 DEF r
<1>5. /\ segments' \in Seq(Segments) /\ Len(segments') \in 0 .. 2
      /\ \A i \in 1 .. Len(segments') : GoodSegment(segments'[i])
      /\ year' \in Int
  BY DEF CountInv
<1> QED BY <1>4, <1>5, CountGoesOn

\* The segments after the first one stay.
SegmentGone == /\ Len(segments) \in 1 .. 2 /\ segments' \in Seq(Segments) /\ Len(segments') = Len(segments) - 1
               /\ Len(segments') # 2
               /\ Len(segments) = 2 => segments' # <<>> /\ segments'[1] = segments[2] /\ GoodSegment(segments[2])
               /\ Len(segments) = 1 => segments' = <<>>

\* A step that ends the first segment.
LEMMA SegmentEnds ==
  ASSUME CountInv, clockStage = "count", segments # <<>>,
         UNCHANGED <<rtcTime, later, sooner, sign, year>>,
         month' = 0,
         SegmentGone,
         days' \in Int, days' = days + Ahead(segments[1], month)
  PROVE  CountInv'
<1>1. /\ Len(segments) \in 1 .. 2 /\ segments' \in Seq(Segments) /\ Len(segments') = Len(segments) - 1
      /\ Len(segments') # 2
      /\ Len(segments) = 2 => segments' # <<>> /\ segments'[1] = segments[2] /\ GoodSegment(segments[2])
      /\ Len(segments) = 1 => segments' = <<>>
  BY DEF SegmentGone
<1>2. \A i \in 1 .. Len(segments') : GoodSegment(segments'[i])
  <2>1. CASE Len(segments) = 1
    BY <1>1, <2>1
  <2>2. CASE Len(segments) = 2
    <3>1. Len(segments') = 1
      BY <1>1, <2>2
    <3> QED BY <1>1, <2>2, <3>1
  <2> QED BY <1>1, <2>1, <2>2
<1>3. days' + Remaining' = days + Remaining
  <2> DEFINE x == Ahead(segments[1], month)
             y == IF Len(segments) = 2 THEN Span(segments[2]) ELSE 0
  <2>1. x \in Int /\ y \in Int /\ days \in Int /\ YearStart(later.y) \in Int /\ YearStart(year) \in Int
    BY RemainingIsNumber DEF CountInv
  <2>2. Remaining = (YearStart(later.y) - YearStart(year)) + x + y
    BY DEF Remaining
  <2>3. Remaining' = (YearStart(later.y) - YearStart(year)) + y
    <3>1. Len(segments') # 2
      BY <1>1, Zenon
    <3>2. CASE Len(segments) = 1
      BY <1>1, <2>1, <3>1, <3>2 DEF Remaining
    <3>3. CASE Len(segments) = 2
      <4>1. Ahead(segments'[1], month') = Span(segments[2])
        BY <1>1, <3>3 DEF Ahead
      <4>2. Remaining' = (YearStart(later.y) - YearStart(year)) + Ahead(segments'[1], month') + 0
        <5>1. Ahead(segments[1], month)' = Ahead(segments'[1], month')
          BY DEF Ahead, Span
        <5> DEFINE p == IF segments' = <<>> THEN 0 ELSE Ahead(segments'[1], month')
                   q == IF Len(segments') = 2 THEN Span(segments[2])' ELSE 0
        <5>2. Remaining' = (YearStart(later.y) - YearStart(year)) + p + q
          BY <5>1 DEF Remaining
        <5>3. segments' # <<>>
          BY <1>1, <3>3
        <5>4. p = Ahead(segments'[1], month')
          BY <5>3, Zenon
        <5>5. q = 0
          BY <3>1, Zenon
        <5> HIDE DEF p, q
        <5> QED BY <5>2, <5>4, <5>5
      <4> QED BY <2>1, <3>3, <4>1, <4>2
    <3> QED BY <1>1, <3>2, <3>3
  <2>4. days' = days + x
    OBVIOUS
  <2> DEFINE a == YearStart(later.y) - YearStart(year)
             r == Remaining
  <2>5. a \in Int /\ days' \in Int
    BY <2>1
  <2>6. r = a + x + y /\ r' = a + y
    BY <2>2, <2>3
  <2> HIDE DEF x, y, a, r
  <2>8. days + x + (a + y) = days + (a + x + y)
    BY <2>1, <2>5
  <2>9. days' + r' = days + r
    BY <2>4, <2>6, <2>8
  <2> QED BY <2>9 DEF r
<1>4. year' \in Int /\ Len(segments') \in 0 .. 2
  BY <1>1 DEF CountInv
<1> QED BY <1>1, <1>2, <1>3, <1>4, CountGoesOn

\* The passes of the loop over the months of a segment.
LEMMA MonthsAreCounted ==
  ClockIInv /\ (CountWithinMonth \/ CountFirstMonth \/ CountMonth \/ CountLastMonth) => CountInv'
<1> SUFFICES ASSUME ClockIInv, CountWithinMonth \/ CountFirstMonth \/ CountMonth \/ CountLastMonth
             PROVE  CountInv'
  OBVIOUS
<1> DEFINE s == segments[1]
<1>1. clockStage = "count" /\ segments # <<>>
  BY DEF CountWithinMonth, CountFirstMonth, CountMonth, CountLastMonth, Counting
<1>2. CountInv /\ days \in Int
  BY <1>1 DEF ClockIInv, CountInv
<1>3. GoodSegment(s) /\ Segment = s
  BY <1>1, <1>2, FirstSegment DEF Segment
<1>4. /\ s.from.y = s.to.y /\ s.from.m <= s.to.m /\ s.from.y \in Int
      /\ s.from.m \in 1 .. 12 /\ s.to.m \in 1 .. 12 /\ s.from.d \in Int /\ s.to.d \in Int
      /\ MonthStart(s.from.m, s.from.y) \in Int /\ MonthStart(s.to.m, s.to.y) \in Int
      /\ Span(s) = MonthStart(s.to.m, s.to.y) + s.to.d - (MonthStart(s.from.m, s.from.y) + s.from.d)
  BY <1>3, SegmentNumbers
<1>5. month # 0 => month \in 1 .. 12 /\ s.from.m < month /\ month <= s.to.m
  <2>1. month \in Int /\ (month # 0 => s.from.m < month /\ month <= s.to.m)
    BY <1>2 DEF CountInv
  <2> QED BY <1>4, <2>1
<1> HIDE DEF s
<1>6. CASE CountWithinMonth
  <2>1. days' = days + (s.to.d - s.from.d) /\ month = 0 /\ s.from.m = s.to.m
    BY <1>3, <1>6 DEF CountWithinMonth
  <2>2. Ahead(s, month) = s.to.d - s.from.d
    BY <1>4, <2>1 DEF Ahead
  <2>3. days' \in Int /\ days' = days + Ahead(s, month)
    BY <1>2, <1>4, <2>1, <2>2
  <2>4. /\ UNCHANGED <<rtcTime, later, sooner, sign, year>> /\ segments' = Tail(segments) /\ month' = 0
    BY <1>6 DEF CountWithinMonth
  <2>5. SegmentGone
    BY <1>1, <1>2, <2>4, FirstSegment DEF SegmentGone
  <2> QED BY <1>1, <1>2, <2>3, <2>4, <2>5, SegmentEnds DEF s
<1>7. CASE CountLastMonth
  <2>1. days' = days + s.to.d /\ month # 0 /\ month = s.to.m
    BY <1>3, <1>7 DEF CountLastMonth
  <2>2. Ahead(s, month) = s.to.d
    BY <1>4, <2>1 DEF Ahead
  <2>3. days' \in Int /\ days' = days + Ahead(s, month)
    BY <1>2, <1>4, <2>1, <2>2
  <2>4. /\ UNCHANGED <<rtcTime, later, sooner, sign, year>> /\ segments' = Tail(segments) /\ month' = 0
    BY <1>7 DEF CountLastMonth
  <2>5. SegmentGone
    BY <1>1, <1>2, <2>4, FirstSegment DEF SegmentGone
  <2> QED BY <1>1, <1>2, <2>3, <2>4, <2>5, SegmentEnds DEF s
<1>8. CASE CountFirstMonth
  <2>1. /\ days' = days + (DaysInMonth(s.from.m, s.from.y) - s.from.d) /\ month' = s.from.m + 1
        /\ month = 0 /\ s.from.m # s.to.m
    BY <1>3, <1>8 DEF CountFirstMonth
  <2>2. month' \in 1 .. 12 /\ s.from.m < month' /\ month' <= s.to.m /\ month' # 0 /\ s.from.m < 12
    BY <1>4, <2>1
  <2>3. MonthStart(month', s.from.y) = MonthStart(s.from.m, s.from.y) + DaysInMonth(s.from.m, s.from.y)
    BY <1>4, <2>1, <2>2, MonthsFollow
  <2>4. DaysInMonth(s.from.m, s.from.y) \in 28 .. 31
    BY <1>4, CalendarTypes
  <2>5. Ahead(s, month) = Span(s) /\ Ahead(s, month') = MonthStart(s.to.m, s.to.y) + s.to.d - MonthStart(month', s.from.y)
    BY <2>1, <2>2 DEF Ahead
  <2>6. days' \in Int /\ days' = days + (Ahead(s, month) - Ahead(s, month'))
    BY <1>2, <1>4, <2>1, <2>3, <2>4, <2>5
  <2>7. UNCHANGED <<rtcTime, later, sooner, sign, year, segments>>
    BY <1>8 DEF CountFirstMonth
  <2> QED BY <1>1, <1>2, <2>2, <2>6, <2>7, WithinSegment DEF s
<1>9. CASE CountMonth
  <2>1. /\ days' = days + DaysInMonth(month, s.from.y) /\ month' = month + 1
        /\ month # 0 /\ month # s.to.m
    BY <1>3, <1>9 DEF CountMonth
  <2>2. month \in 1 .. 12 /\ month < 12 /\ month' \in 1 .. 12 /\ s.from.m < month' /\ month' <= s.to.m /\ month' # 0
    BY <1>4, <1>5, <2>1
  <2>3. MonthStart(month', s.from.y) = MonthStart(month, s.from.y) + DaysInMonth(month, s.from.y)
    BY <1>4, <2>1, <2>2, MonthsFollow
  <2>4. DaysInMonth(month, s.from.y) \in 28 .. 31 /\ MonthStart(month, s.from.y) \in Int
    BY <1>4, <2>2, CalendarTypes
  <2>5. /\ Ahead(s, month) = MonthStart(s.to.m, s.to.y) + s.to.d - MonthStart(month, s.from.y)
        /\ Ahead(s, month') = MonthStart(s.to.m, s.to.y) + s.to.d - MonthStart(month', s.from.y)
    BY <2>1, <2>2 DEF Ahead
  <2>6. days' \in Int /\ days' = days + (Ahead(s, month) - Ahead(s, month'))
    BY <1>2, <1>4, <2>1, <2>3, <2>4, <2>5
  <2>7. UNCHANGED <<rtcTime, later, sooner, sign, year, segments>>
    BY <1>9 DEF CountMonth
  <2> QED BY <1>1, <1>2, <2>2, <2>6, <2>7, WithinSegment DEF s
<1> QED BY <1>6, <1>7, <1>8, <1>9

\* The time told has the days counted, and the way back starts at the seed date with all of them.
LEMMA TimeIsTaken == ClockIInv /\ GetTimeOfDay => BackInv'
<1> SUFFICES ASSUME ClockIInv, GetTimeOfDay PROVE BackInv'
  OBVIOUS
<1>1. CountInv /\ clockStage = "count" /\ year = later.y /\ segments = <<>>
  BY DEF ClockIInv, GetTimeOfDay
<1>2. Remaining = 0
  <2>1. Len(segments) = 0
    BY <1>1
  <2>2. YearStart(later.y) \in Int
    BY <1>1, RemainingIsNumber
  <2> QED BY <1>1, <2>1, <2>2 DEF Remaining
<1>3. sign \in {-1, 1} /\ days \in Int /\ sign * days = DaysSinceSeed(RtcDate)
  BY <1>1, <1>2 DEF CountInv
<1>4. UNCHANGED <<sign, days>> /\ RtcDate' = RtcDate
  BY DEF GetTimeOfDay, countVars, RtcDate
<1>5. SecondsPerDay \in Nat \ {0} /\ Word \in Nat \ {0} /\ SecondsPerHour \in Nat
  BY ClockAssumption DEF SecondsPerDay, SecondsPerHour
<1>6. RtcSecond \in Int
  <2>1. {"hour", "minute", "second"} \subseteq RegisterNames
    BY DEF RegisterNames, RTCRegisters
  <2>2. rtcTime["hour"] \in Int /\ rtcTime["minute"] \in Int /\ rtcTime["second"] \in Int
    BY <2>1 DEF ClockIInv
  <2> QED BY <1>5, <2>2, ClockAssumption DEF RtcSecond
<1>7. time' \in Nat /\ left' = time' \div SecondsPerDay /\ left' \in Nat
  <2> DEFINE n == sign * days * SecondsPerDay + RtcSecond
  <2>1. n \in Int
    BY <1>3, <1>5, <1>6
  <2>2. time' = n % Word /\ left' = time' \div SecondsPerDay
    BY DEF GetTimeOfDay
  <2> HIDE DEF n
  <2>3. time' \in Nat
    BY <1>5, <2>1, <2>2
  <2> QED BY <1>5, <2>2, <2>3
<1>8. Good(seedDate) /\ DaysSinceSeed(seedDate) = 0 /\ back' = seedDate
  <2>1. Good(seedDate)
    BY SeedIsValid, ValidIsGood
  <2> QED BY <2>1, DayNumbers DEF DaysSinceSeed, GetTimeOfDay
<1>9. Good(back')
  BY <1>8
<1>10. DaysSinceSeed(back') + left' = time' \div SecondsPerDay
  BY <1>7, <1>8
<1> QED BY <1>3, <1>4, <1>7, <1>9, <1>10 DEF BackInv, Good

\* The passes of mdate_AddDays.
LEMMA DaysAreAdded == ClockIInv /\ (AddMonth \/ AddDays) => BackInv'
<1> SUFFICES ASSUME ClockIInv, AddMonth \/ AddDays PROVE BackInv'
  OBVIOUS
<1>1. BackInv /\ left > 0 /\ left \in Nat /\ Good(back)
  BY DEF ClockIInv, AddMonth, AddDays, BackInv
<1>2. UNCHANGED <<sign, days, time>> /\ RtcDate' = RtcDate
  BY DEF AddMonth, AddDays, countVars, RtcDate
<1>3. back.y \in Int /\ back.m \in 1 .. 12 /\ back.d \in Nat /\ back = [y |-> back.y, m |-> back.m, d |-> back.d]
  BY <1>1 DEF Good, Date
<1>4. /\ DayNumber(back) = YearStart(back.y) + MonthStart(back.m, back.y) + back.d
      /\ YearStart(back.y) \in Int /\ MonthStart(back.m, back.y) \in Int /\ DayNumber(back) \in Int
      /\ DaysInMonth(back.m, back.y) \in 28 .. 31
  BY <1>1, <1>3, DayNumbers, CalendarTypes
<1>5. DayNumber(seedDate) \in Int
  BY SeedIsValid, ValidIsGood, DayNumbers
<1>6. Good(back') /\ left' \in Nat /\ DayNumber(back') + left' = DayNumber(back) + left
  <2>1. CASE AddMonth
    <3>1. back' = NextMonth(back.y, back.m) /\ left' = left - (DaysInMonth(back.m, back.y) - back.d)
      BY <2>1 DEF AddMonth
    <3>2. /\ Good(back')
          /\ DayNumber(back') = YearStart(back.y) + MonthStart(back.m, back.y) + DaysInMonth(back.m, back.y)
      BY <1>3, <3>1, NextMonthFollows
    <3>3. back.d + left > DaysInMonth(back.m, back.y)
      BY <2>1 DEF AddMonth
    <3>4. left' \in Nat
      BY <1>1, <1>3, <1>4, <3>1, <3>3
    <3>5. DayNumber(back') + left' = DayNumber(back) + left
      BY <1>1, <1>3, <1>4, <3>1, <3>2
    <3> QED BY <3>2, <3>4, <3>5
  <2>2. CASE AddDays
    <3>1. back' = [y |-> back.y, m |-> back.m, d |-> back.d + left] /\ left' = 0
      BY <1>3, <2>2 DEF AddDays
    <3>2. Good(back') /\ back'.y = back.y /\ back'.m = back.m /\ back'.d = back.d + left
      BY <1>1, <1>3, <3>1 DEF Good, Date
    <3>3. DayNumber(back') = YearStart(back.y) + MonthStart(back.m, back.y) + (back.d + left)
      BY <3>2 DEF DayNumber
    <3> QED BY <1>1, <1>3, <1>4, <3>1, <3>2, <3>3
  <2> QED BY <2>1, <2>2
<1>7. DaysSinceSeed(back') + left' = DaysSinceSeed(back) + left
  <2>1. DayNumber(back') \in Int
    BY <1>6, DayNumbers
  <2> QED BY <1>1, <1>4, <1>5, <1>6, <2>1 DEF DaysSinceSeed
<1> QED BY <1>1, <1>2, <1>6, <1>7 DEF BackInv, Good

\* While the chip is read nothing is counted.
LEMMA ReadingGoesOn == ClockIInv /\ (Tick \/ ReadRegister \/ InvalidTime) => ClockIInv'
<1> SUFFICES ASSUME ClockIInv, Tick \/ ReadRegister \/ InvalidTime PROVE ClockIInv'
  OBVIOUS
<1>1. clockStage' \in {"read", "invalid"}
  BY DEF Tick, ReadRegister, InvalidTime
<1>2. chipDate' \in Date /\ chipSecond' \in Int
  <2>1. CASE Tick
    <3>1. NextDay(chipDate) \in Date
      BY DEF ClockIInv, NextDay, NextMonth, Date, JANUARY
    <3> QED BY <2>1, <3>1 DEF Tick, ClockIInv
  <2>2. CASE ReadRegister \/ InvalidTime
    BY <2>2 DEF ReadRegister, InvalidTime, chipVars, ClockIInv
  <2> QED BY <2>1, <2>2
<1>3. reads' \in Nat /\ rtcTime' \in [RegisterNames -> Int]
  <2>1. CASE Tick \/ InvalidTime
    BY <2>1 DEF Tick, InvalidTime, ClockIInv
  <2>2. CASE ReadRegister
    <3>1. reads + 1 \in 1 .. 7 /\ reads' = reads + 1
      BY <2>2 DEF ReadRegister, RTCRegisters, ClockIInv
    <3>2. RTCRegisters[reads + 1] \in RegisterNames
      BY <3>1 DEF RegisterNames, RTCRegisters
    <3>3. Register[RTCRegisters[reads + 1]] \in Int
      BY <3>2, RegistersAreNumbers DEF ClockIInv, Register
    <3> QED BY <2>2, <3>1, <3>2, <3>3 DEF ReadRegister, ClockIInv
  <2> QED BY <2>1, <2>2
<1> QED BY <1>1, <1>2, <1>3 DEF ClockIInv

LEMMA ClockGoesOn == ClockIInv /\ [ClockNext]_clockVars => ClockIInv'
<1> SUFFICES ASSUME ClockIInv, [ClockNext]_clockVars PROVE ClockIInv'
  OBVIOUS
<1>1. CASE Tick \/ ReadRegister \/ InvalidTime
  BY <1>1, ReadingGoesOn
<1>2. CASE DateDifference
  <2>1. UNCHANGED <<chipDate, chipSecond, reads, rtcTime>> /\ clockStage' = "count"
    BY <1>2 DEF DateDifference, chipVars
  <2>2. CountInv'
    BY <1>2, DifferenceBegins
  <2> QED BY <2>1, <2>2 DEF ClockIInv
<1>3. CASE CountYear \/ CountWithinMonth \/ CountFirstMonth \/ CountMonth \/ CountLastMonth
  <2>1. UNCHANGED <<chipDate, chipSecond, reads, rtcTime>> /\ clockStage' = "count"
    BY <1>3 DEF CountYear, CountWithinMonth, CountFirstMonth, CountMonth, CountLastMonth, Counting, chipVars
  <2>2. CountInv'
    BY <1>3, YearIsCounted, MonthsAreCounted
  <2> QED BY <2>1, <2>2 DEF ClockIInv
<1>4. CASE GetTimeOfDay
  <2>1. UNCHANGED <<chipDate, chipSecond, reads, rtcTime>> /\ clockStage' = "back"
    BY <1>4 DEF GetTimeOfDay, chipVars
  <2>2. BackInv'
    BY <1>4, TimeIsTaken
  <2> QED BY <2>1, <2>2 DEF ClockIInv
<1>5. CASE AddMonth \/ AddDays
  <2>1. UNCHANGED <<chipDate, chipSecond, reads, rtcTime>> /\ clockStage' = "back"
    BY <1>5 DEF AddMonth, AddDays, chipVars
  <2>2. BackInv'
    BY <1>5, DaysAreAdded
  <2> QED BY <2>1, <2>2 DEF ClockIInv
<1>6. CASE GetRTCTimeFromTime
  <2>1. UNCHANGED <<chipDate, chipSecond, reads, rtcTime, countVars, backVars>> /\ clockStage' = "done" /\ clockStage = "back"
    BY <1>6 DEF GetRTCTimeFromTime, chipVars
  <2>2. BackInv'
    BY <2>1 DEF ClockIInv, BackInv, countVars, backVars, Good, DaysSinceSeed, RtcDate, DayNumber
  <2> QED BY <2>1, <2>2 DEF ClockIInv
<1>7. CASE UNCHANGED clockVars
  <2>1. UNCHANGED <<chipDate, chipSecond, reads, rtcTime, countVars, backVars, clockStage>>
    BY <1>7 DEF clockVars, chipVars
  <2>2. CountInv => CountInv'
    BY <2>1 DEF CountInv, countVars, Remaining, Ahead, Span, DaysSinceSeed, RtcDate, DayNumber, GoodSegment, Good
  <2>3. BackInv => BackInv'
    BY <2>1 DEF BackInv, countVars, backVars, Good, DaysSinceSeed, RtcDate, DayNumber
  <2> QED BY <2>1, <2>2, <2>3 DEF ClockIInv
<1> QED BY <1>1, <1>2, <1>3, <1>4, <1>5, <1>6, <1>7 DEF ClockNext

\* The days that mdate_DateDifference counts between a date and the seed date are those of the
\* calendar, and mdate_AddDays makes them a date again, whatever the dates and the clock's bases.
THEOREM CalendarIsKept == ClockSpec => []DatesAreRight
<1>1. ClockIInv => DatesAreRight
  BY DEF ClockIInv, BackInv, DatesAreRight, DaysAreExact, DatesAreExact
<1> QED BY <1>1, ClockStarts, ClockGoesOn, PTL DEF ClockSpec

-----------------------------------------------------------------------------
(* Quotients *)

\* A remainder is what a quotient leaves.
LEMMA QuotientAndRest ==
  ASSUME NEW n \in Nat, NEW d \in Nat \ {0}
  PROVE  n \div d \in Nat /\ n % d \in 0 .. d - 1 /\ n = (n \div d) * d + (n % d)
OBVIOUS

LEMMA QuotientIsOne ==
  ASSUME NEW d \in Nat \ {0}, NEW q \in Nat, NEW r \in 0 .. d - 1
  PROVE  (q * d + r) \div d = q
OBVIOUS

LEMMA RestIsSmall ==
  ASSUME NEW d \in Nat \ {0}, NEW q \in Nat, NEW r \in 0 .. d - 1
  PROVE  (q * d + r) % d = r
OBVIOUS

-----------------------------------------------------------------------------
(* Clock: the time told *)

LEMMA NextSecond ==
  ASSUME NEW c \in Nat, NEW d \in Nat \ {0}
  PROVE  (c + 1) % d # 0 => (c + 1) \div d = c \div d
<1> DEFINE q == c \div d
           r == c % d
<1>1. q \in Nat /\ r \in 0 .. d - 1 /\ c = q * d + r
  BY QuotientAndRest
<1> HIDE DEF q, r
<1>2. CASE r = d - 1
  <2>1. c + 1 = q * d + d /\ q * d + d = (q + 1) * d + 0
    BY <1>1, <1>2
  <2>2. (c + 1) % d = 0
    BY <1>1, <2>1, RestIsSmall
  <2> QED BY <2>2
<1>3. CASE r # d - 1
  <2>1. r + 1 \in 0 .. d - 1 /\ c + 1 = q * d + (r + 1)
    BY <1>1, <1>3
  <2>2. (c + 1) \div d = q
    BY <1>1, <2>1, QuotientIsOne
  <2> QED BY <2>2 DEF q
<1> QED BY <1>2, <1>3

LEMMA Bases ==
  /\ SecondsPerMinute \in Nat \ {0} /\ MinutesPerHour \in Nat \ {0} /\ HoursPerDay \in Nat \ {0} /\ Word \in Nat \ {0}
  /\ SecondsPerHour \in Nat \ {0} /\ SecondsPerDay \in Nat \ {0}
  /\ SecondsPerHour = SecondsPerMinute * MinutesPerHour
  /\ SecondsPerDay % SecondsPerMinute = 0
<1>1. SecondsPerHour \in Nat \ {0} /\ SecondsPerDay \in Nat \ {0}
  BY ClockAssumption DEF SecondsPerHour, SecondsPerDay
<1>2. SecondsPerDay = (MinutesPerHour * HoursPerDay) * SecondsPerMinute + 0
  BY ClockAssumption DEF SecondsPerHour, SecondsPerDay
<1>3. MinutesPerHour * HoursPerDay \in Nat
  BY ClockAssumption
<1>4. SecondsPerDay % SecondsPerMinute = 0
  BY <1>2, <1>3, ClockAssumption, RestIsSmall
<1> QED BY <1>1, <1>4, ClockAssumption DEF SecondsPerHour

\* Hours and minutes of a second of the day.
LEMMA HoursAndMinutes ==
  ASSUME NEW c \in Nat
  PROVE  (c \div SecondsPerHour) * SecondsPerHour + ((c \div SecondsPerMinute) % MinutesPerHour) * SecondsPerMinute
           = (c \div SecondsPerMinute) * SecondsPerMinute
<1> DEFINE q == c \div SecondsPerMinute
           r == c % SecondsPerMinute
           h == q \div MinutesPerHour
           m == q % MinutesPerHour
<1>1. q \in Nat /\ r \in 0 .. SecondsPerMinute - 1 /\ c = q * SecondsPerMinute + r
  BY Bases, QuotientAndRest
<1>2. h \in Nat /\ m \in 0 .. MinutesPerHour - 1 /\ q = h * MinutesPerHour + m
  BY <1>1, Bases, QuotientAndRest
<1> HIDE DEF q, r, h, m
<1>3. q * SecondsPerMinute = h * SecondsPerHour + m * SecondsPerMinute
  <2>1. q * SecondsPerMinute = (h * MinutesPerHour) * SecondsPerMinute + m * SecondsPerMinute
    BY <1>2, Bases
  <2>2. (h * MinutesPerHour) * SecondsPerMinute = h * (SecondsPerMinute * MinutesPerHour)
    BY <1>2, Bases
  <2> QED BY <2>1, <2>2, Bases
<1>4. c = h * SecondsPerHour + (m * SecondsPerMinute + r)
  <2>1. h * SecondsPerHour \in Nat /\ m * SecondsPerMinute \in Nat
    BY <1>2, Bases
  <2> QED BY <1>1, <1>3, <2>1
<1>5. m * SecondsPerMinute + r \in 0 .. SecondsPerHour - 1
  <2>1. (m + 1) * SecondsPerMinute <= MinutesPerHour * SecondsPerMinute
    BY <1>2, Bases
  <2>2. (m + 1) * SecondsPerMinute = m * SecondsPerMinute + SecondsPerMinute
    BY <1>2, Bases
  <2>3. MinutesPerHour * SecondsPerMinute = SecondsPerHour
    BY Bases
  <2>4. m * SecondsPerMinute \in Nat
    BY <1>2, Bases
  <2> QED BY <1>1, <2>1, <2>2, <2>3, <2>4, Bases
<1>6. c \div SecondsPerHour = h
  BY <1>2, <1>4, <1>5, Bases, QuotientIsOne
<1>7. h * SecondsPerHour + m * SecondsPerMinute = q * SecondsPerMinute
  BY <1>3
<1>8. (c \div SecondsPerHour) * SecondsPerHour + m * SecondsPerMinute = q * SecondsPerMinute
  BY <1>6, <1>7
<1> QED BY <1>8 DEF q, m

-----------------------------------------------------------------------------
(* The order of dates *)

\* The months of a year in numbers.
LEMMA MonthsInOrder ==
  ASSUME NEW y \in Int, NEW m \in 1 .. 12, NEW n \in 1 .. 12, m < n
  PROVE  MonthStart(m, y) + DaysInMonth(m, y) <= MonthStart(n, y)
<1>1. IsLeapYear(y) \in BOOLEAN
  BY DEF IsLeapYear
<1>2. \A k \in 1 .. 12 : MonthStart(k, y) \in Int /\ DaysInMonth(k, y) \in 28 .. 31
  BY CalendarTypes
<1>3. \A k \in 1 .. 11 : MonthStart(k + 1, y) = MonthStart(k, y) + DaysInMonth(k, y)
  <2> TAKE k \in 1 .. 11
  <2>1. k \in 1 .. 12 /\ k < 12
    OBVIOUS
  <2> QED BY <2>1, MonthsFollow
<1>4. \A k \in 1 .. 11 : k \in 1 .. 12 /\ k + 1 \in 1 .. 12
  OBVIOUS
<1>5. \A k \in 1 .. 11 : MonthStart(k, y) < MonthStart(k + 1, y)
  BY <1>2, <1>3, <1>4
<1>6. /\ MonthStart(1, y) < MonthStart(2, y) /\ MonthStart(2, y) < MonthStart(3, y) /\ MonthStart(3, y) < MonthStart(4, y)
      /\ MonthStart(4, y) < MonthStart(5, y) /\ MonthStart(5, y) < MonthStart(6, y) /\ MonthStart(6, y) < MonthStart(7, y)
      /\ MonthStart(7, y) < MonthStart(8, y) /\ MonthStart(8, y) < MonthStart(9, y) /\ MonthStart(9, y) < MonthStart(10, y)
      /\ MonthStart(10, y) < MonthStart(11, y) /\ MonthStart(11, y) < MonthStart(12, y)
  BY <1>5
<1>7. \A k, l \in 1 .. 12 : k <= l => MonthStart(k, y) <= MonthStart(l, y)
  <2> SUFFICES ASSUME NEW k \in 1 .. 12, NEW l \in 1 .. 12, k <= l PROVE MonthStart(k, y) <= MonthStart(l, y)
    OBVIOUS
  <2>1. /\ k \in {1, 2, 3, 4, 5, 6, 7, 8, 9, 10, 11, 12} /\ l \in {1, 2, 3, 4, 5, 6, 7, 8, 9, 10, 11, 12}
    OBVIOUS
  <2> QED BY <2>1, <1>2, <1>6
<1>8. MonthStart(m + 1, y) <= MonthStart(n, y) /\ MonthStart(m + 1, y) = MonthStart(m, y) + DaysInMonth(m, y)
  <2>1. m \in 1 .. 11 /\ m + 1 \in 1 .. 12 /\ m + 1 <= n
    OBVIOUS
  <2> QED BY <2>1, <1>3, <1>7
<1> QED BY <1>8

\* A day that is on the calendar.
OnCalendar(a) == Good(a) /\ 1 <= a.d /\ a.d <= DaysInMonth(a.m, a.y)

LEMMA DaysInOrder ==
  ASSUME NEW a, NEW b, OnCalendar(a), OnCalendar(b), IsLesser(a, b)
  PROVE  DayNumber(a) < DayNumber(b)
<1>1. /\ a.y \in Int /\ a.m \in 1 .. 12 /\ a.d \in Int /\ b.y \in Int /\ b.m \in 1 .. 12 /\ b.d \in Int
      /\ 1 <= a.d /\ a.d <= DaysInMonth(a.m, a.y) /\ 1 <= b.d /\ b.d <= DaysInMonth(b.m, b.y)
  BY DEF OnCalendar, Good, Date
<1>2. /\ DayNumber(a) = YearStart(a.y) + MonthStart(a.m, a.y) + a.d
      /\ DayNumber(b) = YearStart(b.y) + MonthStart(b.m, b.y) + b.d
      /\ YearStart(a.y) \in Int /\ MonthStart(a.m, a.y) \in Int
      /\ YearStart(b.y) \in Int /\ MonthStart(b.m, b.y) \in Int
  BY DayNumbers DEF OnCalendar
<1>3. /\ DaysInMonth(a.m, a.y) \in 28 .. 31 /\ DaysInMonth(b.m, b.y) \in 28 .. 31
  BY <1>1, CalendarTypes
<1>4. CASE a.y < b.y
  <2>1. MonthStart(a.m, a.y) + a.d <= DaysInYear(a.y)
    <3>1. MonthStart(12, a.y) + 31 = DaysInYear(a.y) /\ MonthStart(12, a.y) \in Int
      BY <1>1, MonthsFollow, CalendarTypes, 12 \in 1 .. 12
    <3>2. CASE a.m = 12
      BY <1>1, <1>2, <1>3, <3>1, <3>2
    <3>3. CASE a.m # 12
      <4>1. a.m < 12 /\ 12 \in 1 .. 12
        BY <1>1, <3>3
      <4>2. MonthStart(a.m, a.y) + DaysInMonth(a.m, a.y) <= MonthStart(12, a.y)
        BY <1>1, <4>1, MonthsInOrder
      <4> QED BY <1>1, <1>2, <1>3, <3>1, <4>2
    <3> QED BY <3>2, <3>3
  <2>2. YearStart(a.y) + DaysInYear(a.y) <= YearStart(b.y)
    <3>1. YearStart(a.y + 1) = YearStart(a.y) + DaysInYear(a.y)
      BY <1>1, YearsFollow
    <3>2. YearStart(a.y + 1) <= YearStart(b.y)
      BY <1>1, <1>4 DEF YearStart
    <3> QED BY <3>1, <3>2
  <2>3. 0 <= MonthStart(b.m, b.y)
    <3>1. MonthStart(1, b.y) = 0
      BY <1>1, MonthsFollow
    <3>2. CASE b.m = 1
      BY <3>1, <3>2
    <3>3. CASE b.m # 1
      <4>1. 1 < b.m /\ 1 \in 1 .. 12
        BY <1>1, <3>3
      <4>2. MonthStart(1, b.y) + DaysInMonth(1, b.y) <= MonthStart(b.m, b.y) /\ DaysInMonth(1, b.y) \in 28 .. 31
        BY <1>1, <4>1, MonthsInOrder, CalendarTypes
      <4> QED BY <1>2, <3>1, <4>2
    <3> QED BY <3>2, <3>3
  <2>4. DaysInYear(a.y) \in Int
    BY DEF DaysInYear
  <2> QED BY <1>1, <1>2, <2>1, <2>2, <2>3, <2>4
<1>5. CASE a.y = b.y /\ a.m < b.m
  <2>1. MonthStart(a.m, a.y) + DaysInMonth(a.m, a.y) <= MonthStart(b.m, b.y)
    BY <1>1, <1>5, MonthsInOrder
  <2> QED BY <1>1, <1>2, <1>3, <1>5, <2>1
<1>6. CASE a.y = b.y /\ a.m = b.m /\ a.d < b.d
  BY <1>1, <1>2, <1>6
<1> QED BY <1>4, <1>5, <1>6 DEF IsLesser

\* Two days of the calendar with the same number are the same.
LEMMA OneDayEach ==
  ASSUME NEW a, NEW b, OnCalendar(a), OnCalendar(b), DayNumber(a) = DayNumber(b)
  PROVE  a = b
<1>1. a \in Date /\ b \in Date
  BY DEF OnCalendar, Good
<1>2. DayNumber(a) \in Int /\ DayNumber(b) \in Int
  BY DayNumbers DEF OnCalendar
<1>3. ~IsLesser(a, b) /\ ~IsLesser(b, a)
  BY <1>2, DaysInOrder
<1>4. a.y = b.y /\ a.m = b.m /\ a.d = b.d
  BY <1>1, <1>3 DEF IsLesser, Date
<1> QED BY <1>1, <1>4 DEF Date

\* The hour changes with a minute.
LEMMA NotTheHour ==
  ASSUME NEW c \in Nat, c % SecondsPerMinute # 0
  PROVE  c % SecondsPerHour # 0
<1> SUFFICES ASSUME c % SecondsPerHour = 0 PROVE FALSE
  OBVIOUS
<1> DEFINE h == c \div SecondsPerHour
           q == h * MinutesPerHour
<1>1. h \in Nat /\ c = h * SecondsPerHour + 0
  BY Bases, QuotientAndRest
<1> HIDE DEF h
<1>2. q \in Nat /\ c = q * SecondsPerMinute + 0
  BY <1>1, Bases
<1> HIDE DEF q
<1>3. 0 \in 0 .. SecondsPerMinute - 1
  BY Bases
<1>4. (q * SecondsPerMinute + 0) % SecondsPerMinute = 0
  BY <1>2, <1>3, Bases, RestIsSmall
<1> QED BY <1>2, <1>4

-----------------------------------------------------------------------------
(* From the chip to the time *)

\* What was read while only the seconds changed is what the chip shows, but for the seconds: these
\* are from some moment since the start.
InStep ==
  /\ clockStart.date = chipDate /\ clockStart.second <= chipSecond
  /\ reads >= 1 => rtcTime["dayOfMonth"] = chipDate.d
  /\ reads >= 2 => rtcTime["month"] = chipDate.m
  /\ reads >= 3 => rtcTime["year"] = chipDate.y % 100
  /\ reads >= 4 => rtcTime["century"] = chipDate.y \div 100
  /\ reads >= 5 => LET s == (chipSecond \div SecondsPerMinute) * SecondsPerMinute + rtcTime["second"]
                   IN  clockStart.second <= s /\ s <= chipSecond
  /\ reads >= 6 => rtcTime["minute"] = (chipSecond \div SecondsPerMinute) % MinutesPerHour
  /\ reads >= 7 => rtcTime["hour"] = chipSecond \div SecondsPerHour

WasRead == ~carried => /\ RtcDate = chipDate /\ clockStart.date = chipDate
                       /\ clockStart.second <= RtcSecond /\ RtcSecond <= chipSecond

TimeIInv ==
  /\ ClockIInv
  /\ chipSecond \in 0 .. SecondsPerDay - 1 /\ carried \in BOOLEAN
  /\ clockStart.second \in Nat
  /\ clockStage = "read" /\ ~carried => InStep
  /\ clockStage \in {"count", "back", "done"} =>
       /\ IsValid(RtcDate) /\ WasRead
       /\ sign = IF IsLesser(RtcDate, seedDate) THEN -1 ELSE 1
  /\ clockStage \in {"back", "done"} =>
       /\ back.d <= DaysInMonth(back.m, back.y) /\ (back.d >= 1 \/ left > 0)
       /\ time = (sign * days * SecondsPerDay + RtcSecond) % Word
  /\ clockStage = "done" => left = 0

LEMMA TimeStarts == ClockInit => TimeIInv
<1> SUFFICES ASSUME ClockInit PROVE TimeIInv
  OBVIOUS
<1>1. ClockIInv
  BY ClockStarts
<1>2. /\ chipSecond \in 0 .. SecondsPerDay - 1 /\ carried = FALSE /\ reads = 0 /\ clockStage = "read"
      /\ clockStart = [date |-> chipDate, second |-> chipSecond]
  BY DEF ClockInit
<1>3. InStep
  BY <1>2, Bases DEF InStep
<1>4. clockStart.second \in Nat /\ carried \in BOOLEAN
  <2>1. chipSecond \in Nat
    BY <1>2, Bases
  <2>2. clockStart.second = chipSecond
    BY <1>2
  <2> QED BY <1>2, <2>1, <2>2
<1> QED BY <1>1, <1>2, <1>3, <1>4 DEF TimeIInv

\* A second later nothing else has changed, or it is noted.
LEMMA SecondsPass == TimeIInv /\ Tick => TimeIInv'
<1> SUFFICES ASSUME TimeIInv, Tick PROVE TimeIInv'
  OBVIOUS
<1>1. ClockIInv'
  BY ClockGoesOn DEF TimeIInv, ClockNext
<1>2. /\ clockStage = "read" /\ clockStage' = "read" /\ UNCHANGED <<reads, rtcTime, clockStart>>
      /\ carried' = (carried \/ (chipSecond + 1) % SecondsPerMinute = 0)
  BY DEF Tick
<1>3. chipSecond \in 0 .. SecondsPerDay - 1 /\ chipSecond' \in 0 .. SecondsPerDay - 1
  BY Bases DEF Tick, TimeIInv
<1>4. ASSUME ~carried' PROVE InStep'
  <2>1. ~carried /\ InStep /\ (chipSecond + 1) % SecondsPerMinute # 0
    BY <1>2, <1>4 DEF TimeIInv
  <2>2. chipSecond + 1 # SecondsPerDay
    BY <2>1, Bases
  <2>3. chipSecond' = chipSecond + 1 /\ chipDate' = chipDate
    BY <2>2 DEF Tick
  <2>4. chipSecond' \div SecondsPerMinute = chipSecond \div SecondsPerMinute
    <3>1. chipSecond \in Nat /\ SecondsPerMinute \in Nat \ {0}
      BY <1>3, Bases
    <3>2. (chipSecond + 1) \div SecondsPerMinute = chipSecond \div SecondsPerMinute
      BY <2>1, <3>1, NextSecond
    <3> QED BY <2>3, <3>2
  <2>5. chipSecond' \div SecondsPerHour = chipSecond \div SecondsPerHour
    <3>1. chipSecond \in Nat /\ chipSecond + 1 \in Nat /\ SecondsPerHour \in Nat \ {0}
      BY <1>3, Bases
    <3>2. (chipSecond + 1) % SecondsPerHour # 0
      BY <2>1, <3>1, NotTheHour
    <3>3. (chipSecond + 1) \div SecondsPerHour = chipSecond \div SecondsPerHour
      BY <3>1, <3>2, NextSecond
    <3> QED BY <2>3, <3>3
  <2>6. /\ clockStart.second \in Nat /\ chipSecond \in Nat
        /\ reads >= 5 => (chipSecond \div SecondsPerMinute) * SecondsPerMinute + rtcTime["second"] \in Int
    <3>1. rtcTime["second"] \in Int
      <4>1. "second" \in RegisterNames
        BY DEF RegisterNames, RTCRegisters
      <4> QED BY <4>1 DEF TimeIInv, ClockIInv
    <3>2. chipSecond \div SecondsPerMinute \in Nat
      BY <1>3, Bases
    <3> QED BY <1>3, <3>1, <3>2, Bases DEF TimeIInv
  <2>7. clockStart'.date = chipDate' /\ clockStart'.second <= chipSecond'
    BY <1>2, <2>1, <2>3, <2>6 DEF InStep
  <2>8. reads >= 5 => LET s == (chipSecond \div SecondsPerMinute) * SecondsPerMinute + rtcTime["second"]
                      IN  clockStart.second <= s /\ s <= chipSecond'
    BY <2>1, <2>3, <2>6 DEF InStep
  <2> QED BY <1>2, <2>1, <2>3, <2>4, <2>5, <2>7, <2>8 DEF InStep
<1>5. carried' \in BOOLEAN /\ clockStart'.second \in Nat
  BY <1>2 DEF TimeIInv
<1> QED BY <1>1, <1>2, <1>3, <1>4, <1>5 DEF TimeIInv

\* A register says what the chip shows at that moment.
LEMMA RegistersAreRead == TimeIInv /\ ReadRegister => TimeIInv'
<1> SUFFICES ASSUME TimeIInv, ReadRegister PROVE TimeIInv'
  OBVIOUS
<1>1. ClockIInv'
  BY ClockGoesOn DEF TimeIInv, ClockNext
<1>2. /\ clockStage = "read" /\ clockStage' = "read" /\ UNCHANGED <<chipDate, chipSecond, carried, clockStart>>
      /\ reads' = reads + 1
      /\ rtcTime' = [rtcTime EXCEPT ![RTCRegisters[reads + 1]] = Register[RTCRegisters[reads + 1]]]
  BY DEF ReadRegister, chipVars
<1>3. reads \in 0 .. 6 /\ rtcTime \in [RegisterNames -> Int] /\ chipSecond \in 0 .. SecondsPerDay - 1
      /\ clockStart.second \in Nat
  BY DEF ReadRegister, RTCRegisters, TimeIInv, ClockIInv
<1>4. ASSUME ~carried PROVE InStep'
  <2>1. InStep
    BY <1>2, <1>4 DEF TimeIInv
  <2>2. RegisterNames = {"dayOfMonth", "month", "year", "century", "second", "minute", "hour"}
    BY DEF RegisterNames, RTCRegisters
  <2>3. (chipSecond \div SecondsPerMinute) * SecondsPerMinute + (chipSecond % SecondsPerMinute) = chipSecond
    BY <1>3, Bases, QuotientAndRest
  <2>4. CASE reads = 0
    <3>1. rtcTime' = [rtcTime EXCEPT !["dayOfMonth"] = chipDate.d]
      BY <1>2, <2>2, <2>4 DEF RTCRegisters, Register
    <3> QED BY <1>2, <1>3, <2>1, <2>2, <2>4, <3>1 DEF InStep
  <2>5. CASE reads = 1
    <3>1. rtcTime' = [rtcTime EXCEPT !["month"] = chipDate.m]
      BY <1>2, <2>2, <2>5 DEF RTCRegisters, Register
    <3> QED BY <1>2, <1>3, <2>1, <2>2, <2>5, <3>1 DEF InStep
  <2>6. CASE reads = 2
    <3>1. rtcTime' = [rtcTime EXCEPT !["year"] = chipDate.y % 100]
      BY <1>2, <2>2, <2>6 DEF RTCRegisters, Register
    <3> QED BY <1>2, <1>3, <2>1, <2>2, <2>6, <3>1 DEF InStep
  <2>7. CASE reads = 3
    <3>1. rtcTime' = [rtcTime EXCEPT !["century"] = chipDate.y \div 100]
      BY <1>2, <2>2, <2>7 DEF RTCRegisters, Register
    <3> QED BY <1>2, <1>3, <2>1, <2>2, <2>7, <3>1 DEF InStep
  <2>8. CASE reads = 4
    <3>1. rtcTime' = [rtcTime EXCEPT !["second"] = chipSecond % SecondsPerMinute]
      BY <1>2, <2>2, <2>8 DEF RTCRegisters, Register
    <3>2. rtcTime'["second"] = chipSecond % SecondsPerMinute /\ clockStart.second <= chipSecond
      BY <1>3, <2>1, <2>2, <3>1 DEF InStep
    <3>3. LET s == (chipSecond \div SecondsPerMinute) * SecondsPerMinute + rtcTime'["second"]
          IN  clockStart.second <= s /\ s <= chipSecond
      BY <1>3, <2>3, <3>2
    <3> QED BY <1>2, <1>3, <2>1, <2>2, <2>8, <3>1, <3>3 DEF InStep
  <2>9. CASE reads = 5
    <3>1. rtcTime' = [rtcTime EXCEPT !["minute"] = (chipSecond \div SecondsPerMinute) % MinutesPerHour]
      BY <1>2, <2>2, <2>9 DEF RTCRegisters, Register
    <3> QED BY <1>2, <1>3, <2>1, <2>2, <2>9, <3>1 DEF InStep
  <2>10. CASE reads = 6
    <3>1. rtcTime' = [rtcTime EXCEPT !["hour"] = chipSecond \div SecondsPerHour]
      BY <1>2, <2>2, <2>10 DEF RTCRegisters, Register
    <3> QED BY <1>2, <1>3, <2>1, <2>2, <2>10, <3>1 DEF InStep
  <2> QED BY <1>3, <2>4, <2>5, <2>6, <2>7, <2>8, <2>9, <2>10
<1> QED BY <1>1, <1>2, <1>3, <1>4 DEF TimeIInv

\* When all registers are read the date is the chip's, and the second one from the start until now.
LEMMA AllIsRead ==
  ASSUME TimeIInv, clockStage = "read", reads = 7, ~carried
  PROVE  WasRead
<1>1. /\ InStep /\ rtcTime \in [RegisterNames -> Int] /\ chipDate \in Date /\ chipSecond \in Nat
  BY Bases DEF TimeIInv, ClockIInv
<1>2. RtcDate = chipDate
  <2>1. chipDate.y \in Int /\ chipDate = [y |-> chipDate.y, m |-> chipDate.m, d |-> chipDate.d]
    BY <1>1 DEF Date
  <2>2. (chipDate.y \div 100) * 100 + (chipDate.y % 100) = chipDate.y
    BY <2>1
  <2>3. RtcDate = [y |-> chipDate.y, m |-> chipDate.m, d |-> chipDate.d]
    BY <1>1, <2>2 DEF InStep, RtcDate
  <2> QED BY <2>1, <2>3
<1>3. RtcSecond = (chipSecond \div SecondsPerMinute) * SecondsPerMinute + rtcTime["second"]
  <2> DEFINE h == (chipSecond \div SecondsPerHour) * SecondsPerHour
             m == ((chipSecond \div SecondsPerMinute) % MinutesPerHour) * SecondsPerMinute
             t == (chipSecond \div SecondsPerMinute) * SecondsPerMinute
  <2>1. RtcSecond = h + m + rtcTime["second"]
    BY <1>1 DEF InStep, RtcSecond
  <2>2. h + m = t
    BY <1>1, HoursAndMinutes
  <2> HIDE DEF h, m, t
  <2>3. RtcSecond = t + rtcTime["second"]
    BY <2>1, <2>2
  <2> QED BY <2>3 DEF t
<1>4. clockStart.second <= RtcSecond /\ RtcSecond <= chipSecond /\ clockStart.date = chipDate
  BY <1>1, <1>3 DEF InStep
<1> QED BY <1>2, <1>4 DEF WasRead

\* What is counted stays as it was read.
LEMMA TimeIsKept == TimeIInv /\ [ClockNext]_clockVars => TimeIInv'
<1> SUFFICES ASSUME TimeIInv, [ClockNext]_clockVars PROVE TimeIInv'
  OBVIOUS
<1>1. ClockIInv /\ ClockIInv'
  BY ClockGoesOn DEF TimeIInv
<1>2. CASE Tick
  BY <1>2, SecondsPass
<1>3. CASE ReadRegister
  BY <1>3, RegistersAreRead
<1>4. CASE InvalidTime
  BY <1>1, <1>4 DEF InvalidTime, TimeIInv, chipVars
<1>5. CASE DateDifference
  <2>1. /\ clockStage = "read" /\ reads = 7 /\ IsValid(RtcDate) /\ clockStage' = "count"
        /\ UNCHANGED <<chipDate, chipSecond, carried, rtcTime, clockStart>>
        /\ sign' = IF IsLesser(RtcDate, seedDate) THEN -1 ELSE 1
    BY <1>5 DEF DateDifference, chipVars, RTCRegisters
  <2>2. WasRead
    BY <2>1, AllIsRead DEF WasRead
  <2>3. RtcDate' = RtcDate /\ RtcSecond' = RtcSecond
    BY <2>1 DEF RtcDate, RtcSecond
  <2>4. WasRead'
    BY <2>1, <2>2, <2>3 DEF WasRead
  <2> QED BY <1>1, <2>1, <2>3, <2>4 DEF TimeIInv
<1>6. CASE CountYear \/ CountWithinMonth \/ CountFirstMonth \/ CountMonth \/ CountLastMonth
  <2>1. /\ clockStage = "count" /\ clockStage' = "count"
        /\ UNCHANGED <<chipDate, chipSecond, carried, rtcTime, clockStart, sign>>
    BY <1>6 DEF CountYear, CountWithinMonth, CountFirstMonth, CountMonth, CountLastMonth, Counting, chipVars
  <2>2. RtcDate' = RtcDate /\ RtcSecond' = RtcSecond
    BY <2>1 DEF RtcDate, RtcSecond
  <2> QED BY <1>1, <2>1, <2>2 DEF TimeIInv, WasRead
<1>7. CASE GetTimeOfDay
  <2>1. /\ clockStage = "count" /\ clockStage' = "back"
        /\ UNCHANGED <<chipDate, chipSecond, carried, rtcTime, clockStart, sign, days>>
        /\ back' = seedDate /\ time' = (sign * days * SecondsPerDay + RtcSecond) % Word
    BY <1>7 DEF GetTimeOfDay, chipVars, countVars
  <2>2. RtcDate' = RtcDate /\ RtcSecond' = RtcSecond
    BY <2>1 DEF RtcDate, RtcSecond
  <2>3. back'.d <= DaysInMonth(back'.m, back'.y) /\ back'.d >= 1
    BY <2>1, SeedIsValid, ValidIsGood
  <2> QED BY <1>1, <2>1, <2>2, <2>3 DEF TimeIInv, WasRead
<1>8. CASE AddMonth \/ AddDays
  <2>1. /\ clockStage = "back" /\ clockStage' = "back" /\ left > 0
        /\ UNCHANGED <<chipDate, chipSecond, carried, rtcTime, clockStart, sign, days, time>>
    BY <1>8 DEF AddMonth, AddDays, chipVars, countVars
  <2>2. RtcDate' = RtcDate /\ RtcSecond' = RtcSecond
    BY <2>1 DEF RtcDate, RtcSecond
  <2>3. /\ back \in Date /\ back.y \in Int /\ back.m \in 1 .. 12 /\ back.d \in Nat /\ left \in Nat
        /\ DaysInMonth(back.m, back.y) \in 28 .. 31
    <3>1. Good(back) /\ left \in Nat
      BY <1>1, <2>1 DEF ClockIInv, BackInv
    <3>2. back \in Date /\ back.y \in Int /\ back.m \in 1 .. 12 /\ back.d \in Nat
      BY <3>1 DEF Good, Date
    <3> QED BY <3>1, <3>2, CalendarTypes
  <2>4. back'.d <= DaysInMonth(back'.m, back'.y) /\ (back'.d >= 1 \/ left' > 0)
    <3>1. CASE AddMonth
      <4>1. Good(back') /\ back'.d = 0
        BY <2>3, <3>1, NextMonthFollows DEF AddMonth, NextMonth
      <4>2. DaysInMonth(back'.m, back'.y) \in 28 .. 31
        BY <4>1, CalendarTypes DEF Good, Date
      <4>3. left' > 0
        BY <2>3, <3>1 DEF AddMonth
      <4> QED BY <4>1, <4>2, <4>3
    <3>2. CASE AddDays
      <4>1. back'.m = back.m /\ back'.y = back.y /\ back'.d = back.d + left
        BY <2>3, <3>2 DEF AddDays, Date
      <4> QED BY <2>1, <2>3, <3>2, <4>1 DEF AddDays
    <3> QED BY <1>8, <3>1, <3>2
  <2> QED BY <1>1, <2>1, <2>2, <2>4 DEF TimeIInv, WasRead
<1>9. CASE GetRTCTimeFromTime
  <2>1. /\ clockStage = "back" /\ clockStage' = "done" /\ left = 0
        /\ UNCHANGED <<chipDate, chipSecond, carried, rtcTime, clockStart, sign, days, time, back, left>>
    BY <1>9 DEF GetRTCTimeFromTime, chipVars, countVars, backVars
  <2>2. RtcDate' = RtcDate /\ RtcSecond' = RtcSecond
    BY <2>1 DEF RtcDate, RtcSecond
  <2> QED BY <1>1, <2>1, <2>2 DEF TimeIInv, WasRead
<1>10. CASE UNCHANGED clockVars
  <2>1. UNCHANGED <<chipDate, chipSecond, carried, reads, rtcTime, clockStart, sign, days, time, back, left, clockStage>>
    BY <1>10 DEF clockVars, chipVars, countVars, backVars
  <2>2. RtcDate' = RtcDate /\ RtcSecond' = RtcSecond
    BY <2>1 DEF RtcDate, RtcSecond
  <2>3. InStep => InStep'
    BY <2>1 DEF InStep
  <2> QED BY <1>1, <2>1, <2>2, <2>3 DEF TimeIInv, WasRead
<1> QED BY <1>2, <1>3, <1>4, <1>5, <1>6, <1>7, <1>8, <1>9, <1>10 DEF ClockNext

\* What a word holds is not cut.
LEMMA WordHolds ==
  ASSUME NEW D \in Nat, NEW s \in 0 .. SecondsPerDay - 1, D < Word \div SecondsPerDay
  PROVE  /\ (D * SecondsPerDay + s) % Word = D * SecondsPerDay + s
         /\ (D * SecondsPerDay + s) \div SecondsPerDay = D
         /\ (D * SecondsPerDay + s) % SecondsPerDay = s
<1> DEFINE q == Word \div SecondsPerDay
           r == Word % SecondsPerDay
<1>1. q \in Nat /\ r \in 0 .. SecondsPerDay - 1 /\ Word = q * SecondsPerDay + r
  BY Bases, QuotientAndRest
<1>2. D + 1 <= q
  BY <1>1
<1> HIDE DEF q, r
<1>3. D * SecondsPerDay + s \in 0 .. Word - 1
  <2>1. (D + 1) * SecondsPerDay <= q * SecondsPerDay
    BY <1>1, <1>2, Bases
  <2>2. (D + 1) * SecondsPerDay = D * SecondsPerDay + SecondsPerDay /\ D * SecondsPerDay \in Nat
        /\ q * SecondsPerDay \in Nat
    BY <1>1, Bases
  <2> QED BY <1>1, <2>1, <2>2, Bases
<1>4. (D * SecondsPerDay + s) % Word = D * SecondsPerDay + s
  BY <1>3, Bases
<1> QED BY <1>4, Bases, QuotientIsOne, RestIsSmall

\* Unless more than the seconds of the chip change while it is read, the time told is one between
\* the start of the call and its end, and becomes the date and second it was read as again, for
\* clocks of any base and words of any length that hold it.
THEOREM TheTimeIsTold == ClockSpec => []TimeIsTold
<1>1. TimeIInv => TimeIsTold
  <2> SUFFICES ASSUME TimeIInv, clockStage = "done", ~carried, ~IsLesser(RtcDate, seedDate),
                      DaysSinceSeed(RtcDate) < Word \div SecondsPerDay
               PROVE  /\ Instant(clockStart.date, clockStart.second) <= time
                      /\ time <= Instant(chipDate, chipSecond)
                      /\ back = RtcDate /\ BackSecond = RtcSecond
    BY DEF TimeIsTold
  <2> DEFINE D == DaysSinceSeed(RtcDate)
  <2>1. /\ BackInv /\ left = 0 /\ sign = 1 /\ IsValid(RtcDate) /\ WasRead /\ rtcTime \in [RegisterNames -> Int]
        /\ back.d <= DaysInMonth(back.m, back.y) /\ back.d >= 1
        /\ time = (sign * days * SecondsPerDay + RtcSecond) % Word
        /\ chipSecond \in 0 .. SecondsPerDay - 1 /\ clockStart.second \in Nat
    BY DEF TimeIInv, ClockIInv, BackInv
  <2>2. OnCalendar(RtcDate) /\ OnCalendar(seedDate) /\ OnCalendar(back)
    BY <2>1, ReadIsDate, SeedIsValid, ValidIsGood DEF OnCalendar, BackInv
  <2>3. DayNumber(RtcDate) \in Int /\ DayNumber(seedDate) \in Int /\ DayNumber(back) \in Int
    BY <2>2, DayNumbers DEF OnCalendar
  <2>4. D \in Nat
    <3>1. CASE IsLesser(seedDate, RtcDate)
      <4>1. DayNumber(seedDate) < DayNumber(RtcDate)
        BY <2>2, <3>1, DaysInOrder
      <4> QED BY <2>3, <4>1 DEF DaysSinceSeed
    <3>2. CASE ~IsLesser(seedDate, RtcDate)
      <4>1. RtcDate \in Date /\ seedDate \in Date
        BY <2>2 DEF OnCalendar, Good
      <4>2. RtcDate.y = seedDate.y /\ RtcDate.m = seedDate.m /\ RtcDate.d = seedDate.d
        BY <3>2, <4>1 DEF IsLesser, Date
      <4>3. DayNumber(RtcDate) = DayNumber(seedDate)
        BY <4>2 DEF DayNumber
      <4> QED BY <2>3, <4>3 DEF DaysSinceSeed
    <3> QED BY <3>1, <3>2
  <2>5. days = D
    BY <2>1 DEF BackInv
  <2>6. DaysSinceSeed(clockStart.date) = D /\ DaysSinceSeed(chipDate) = D
    BY <2>1 DEF WasRead
  <2>7. RtcSecond \in 0 .. SecondsPerDay - 1
    <3>1. {"hour", "minute", "second"} \subseteq RegisterNames
      BY DEF RegisterNames, RTCRegisters
    <3>2. rtcTime["hour"] \in Int /\ rtcTime["minute"] \in Int /\ rtcTime["second"] \in Int
      BY <2>1, <3>1
    <3>3. RtcSecond \in Int
      BY <3>2, Bases DEF RtcSecond
    <3> QED BY <2>1, <3>3, Bases DEF WasRead
  <2>8. D < Word \div SecondsPerDay /\ DaysSinceSeed(back) = DayNumber(back) - DayNumber(seedDate)
        /\ D = DayNumber(RtcDate) - DayNumber(seedDate) /\ DaysSinceSeed(back) + left = time \div SecondsPerDay
    BY <2>1 DEF DaysSinceSeed, BackInv
  <2> HIDE DEF D
  <2>9. sign * days = D
    BY <2>1, <2>4, <2>5
  <2>10. time = D * SecondsPerDay + RtcSecond /\ time \div SecondsPerDay = D /\ time % SecondsPerDay = RtcSecond
    BY <2>1, <2>4, <2>7, <2>8, <2>9, WordHolds
  <2>11. DayNumber(back) = DayNumber(RtcDate)
    BY <2>1, <2>3, <2>8, <2>10
  <2>12. back = RtcDate
    BY <2>2, <2>11, OneDayEach
  <2>13. /\ D * SecondsPerDay + clockStart.second <= time
         /\ time <= D * SecondsPerDay + chipSecond
    <3> DEFINE n == D * SecondsPerDay
    <3>1. n \in Nat
      BY <2>4, Bases
    <3>2. clockStart.second <= RtcSecond /\ RtcSecond <= chipSecond
      BY <2>1 DEF WasRead
    <3>3. clockStart.second \in Int /\ RtcSecond \in Int /\ chipSecond \in Int /\ time = n + RtcSecond
      BY <2>1, <2>7, <2>10, Bases
    <3> HIDE DEF n
    <3>4. n + clockStart.second <= time /\ time <= n + chipSecond
      BY <3>1, <3>2, <3>3
    <3> QED BY <3>4 DEF n
  <2> QED BY <2>6, <2>10, <2>12, <2>13 DEF Instant, BackSecond
<1> QED BY <1>1, TimeStarts, TimeIsKept, PTL DEF ClockSpec

-----------------------------------------------------------------------------
(* A transfer of an ATA disk *)

\* The first k sectors of the call, at their places.
Partial(k) == {<<call.first + i, i>> : i \in 0 .. k - 1}

Jobs == [dma : BOOLEAN, lba : Int, left : 0 .. MaxSectors, off : Int]
Engines == [running : BOOLEAN, irq : BOOLEAN, error : BOOLEAN]
Calls == [write : BOOLEAN, first : Nat, n : 0 .. MaxSectors, sector : Nat, done : 0 .. MaxSectors]

\* A command takes the whole call, so that nothing is done before it ends.
OneChunk == at \in {"command", "dma", "interrupt", "pio"} =>
              call.n >= 1 /\ call.done = 0 /\ call.sector = call.first

TransferTypes == /\ at \in {"command", "dma", "interrupt", "pio", "ok", "failed"}
                 /\ retry \in 0 .. MaxRetries - 1 /\ signals \in Nat
                 /\ speed \in {"dma", "pio"} /\ foreign \in BOOLEAN
                 /\ job \in Jobs /\ engine \in Engines /\ call \in Calls
                 /\ OneChunk

\* The drive has done k sectors of the call.
Done(k) == /\ k \in 0 .. call.n
           /\ job.lba = call.first + k /\ job.off = k /\ job.left = call.n - k
           /\ Partial(k) \subseteq moved

Quiet == signals = 0 /\ ~engine.running
Idle == Quiet /\ ~job.dma /\ job.left = 0

\* What drive, bus master and interrupt line are doing, by where the process is.
InCall ==
  /\ at \in {"command", "failed", "ok"} => Idle
  /\ at = "pio" => Quiet /\ ~job.dma /\ job.left > 0 /\ \E k \in 0 .. call.n : Done(k)
  /\ at = "dma" => Quiet /\ ~engine.irq /\ ((job.dma /\ Done(0)) \/ (~job.dma /\ job.left = 0))
  /\ at = "interrupt" =>
       \/ /\ signals = 0 /\ ~engine.irq /\ engine.running
          /\ (job.dma /\ \E k \in 0 .. call.n : Done(k)) \/ (~job.dma /\ job.left = 0)
       \/ /\ signals = 1 /\ engine.irq /\ ~job.dma /\ job.left = 0
          /\ ~engine.error => Partial(call.n) \subseteq moved
  /\ at # "failed" => moved \subseteq Partial(call.n)
  /\ at = "ok" => Partial(call.n) \subseteq moved
  /\ at = "ok" => lost \subseteq {<<call.first + call.n - 1, call.n - 1>>}
  /\ at # "ok" => lost = {}

TransferIInv == TransferTypes /\ (~foreign => InCall)

LEMMA TransferStarts == TransferInit => TransferIInv
<1> SUFFICES ASSUME TransferInit PROVE TransferIInv
  OBVIOUS
<1>1. call.n = 0 /\ call.first = 0 /\ Partial(call.n) = {}
  BY DEF TransferInit, Partial
<1>2. TransferTypes
  <2>1. MaxSectors \in Nat /\ MaxRetries \in Nat /\ MaxRetries >= 1
    BY CallersFit
  <2>2. call \in Calls /\ job \in Jobs
    BY <2>1 DEF TransferInit, Calls, Jobs, NoJob
  <2>3. engine \in Engines
    BY DEF TransferInit, Engines
  <2>4. retry \in 0 .. MaxRetries - 1 /\ signals \in Nat
    BY <2>1 DEF TransferInit
  <2>5. at = "ok" /\ speed \in {"dma", "pio"} /\ foreign \in BOOLEAN
    BY DEF TransferInit
  <2> QED BY <2>2, <2>3, <2>4, <2>5 DEF TransferTypes, OneChunk
<1>3. InCall
  BY <1>1 DEF TransferInit, InCall, Idle, Quiet, NoJob
<1> QED BY <1>2, <1>3 DEF TransferIInv

LEMMA TransferConstants == /\ ChunkSectors \in Nat /\ MaxSectors \in Nat /\ Sectors \in Nat /\ MaxRetries \in Nat
                           /\ MaxRetries >= 1 /\ MaxSectors <= ChunkSectors /\ MaxSectors <= Sectors
BY CallersFit

\* A chunk is the call.
LEMMA ChunkIsAll ==
  ASSUME TransferTypes, call.done = 0
  PROVE  Chunk(call.n - call.done) = call.n /\ call.n \in 0 .. MaxSectors /\ call.first \in Nat
<1>1. call.n \in 0 .. MaxSectors /\ call.first \in Nat
  BY DEF TransferTypes, Calls
<1> QED BY <1>1, TransferConstants DEF Chunk

LEMMA ChunkDoneIsAll ==
  ASSUME TransferTypes, call.done = 0, ChunkDone
  PROVE  /\ at' = "ok" /\ call' \in Calls
         /\ call'.n = call.n /\ call'.first = call.first /\ call'.write = call.write
<1>1. Chunk(call.n - call.done) = call.n /\ call.n \in 0 .. MaxSectors
  BY ChunkIsAll
<1>2. call \in Calls /\ call.sector \in Nat
  BY DEF TransferTypes, Calls
<1>3. NextChunk(call) = [write |-> call.write, first |-> call.first, n |-> call.n,
                            sector |-> call.sector + 1, done |-> call.n]
  <2>1. call.done + Chunk(call.n - call.done) = call.n
    BY <1>1
  <2> QED BY <2>1 DEF NextChunk
<1>4. NextChunk(call) \in Calls /\ NextChunk(call).n = call.n /\ NextChunk(call).done = call.n
      /\ NextChunk(call).first = call.first /\ NextChunk(call).write = call.write
  BY <1>1, <1>2, <1>3 DEF Calls
<1>5. at' = IF NextChunk(call).done < call.n THEN "command" ELSE "ok"
  BY DEF ChunkDone
<1>6. ~(NextChunk(call).done < call.n)
  BY <1>1, <1>4
<1> QED BY <1>4, <1>5, <1>6 DEF ChunkDone

LEMMA TypesGoOn ==
  TransferTypes /\ [TransferNext]_transferVars => TransferTypes'
<1> SUFFICES ASSUME TransferTypes, [TransferNext]_transferVars PROVE TransferTypes'
  OBVIOUS
<1> USE TransferConstants DEF TransferTypes
<1>1. CASE Call
  BY <1>1 DEF Call, OneChunk, Calls
<1>2. CASE Busy
  BY <1>2 DEF Busy, OneChunk
<1>3. CASE Command
  <2>1. Chunk(call.n - call.done) \in 0 .. MaxSectors
    BY <1>3, ChunkIsAll DEF Command, OneChunk
  <2>2. job' \in Jobs
    BY <1>3, <2>1 DEF Command, Registers, Dma, Jobs, Calls
  <2> QED BY <1>3, <2>2 DEF Command, OneChunk, Engines
<1>4. CASE StartDMA
  <2>1. engine' \in Engines
    BY <1>4 DEF StartDMA, Engines
  <2>2. job' \in Jobs
    BY <1>4 DEF StartDMA, Jobs, Calls
  <2> QED BY <1>4, <2>1, <2>2 DEF StartDMA, OneChunk
<1>5. CASE Interrupt
  <2>1. signals' \in Nat /\ engine' \in Engines /\ job' \in Jobs /\ foreign' \in BOOLEAN
    BY <1>5 DEF Interrupt, Engines
  <2>2. CASE Succeeded /\ ChunkDone /\ UNCHANGED <<retry, speed>>
    <3>1. at' = "ok" /\ call' \in Calls
      BY <1>5, <2>2, ChunkDoneIsAll DEF Interrupt, OneChunk
    <3> QED BY <2>1, <2>2, <3>1 DEF OneChunk
  <2>3. CASE ~Succeeded /\ call' = call /\ at' \in {"dma", "command"} /\ retry' \in 0 .. MaxRetries - 1
             /\ speed' \in {"dma", "pio"}
    BY <1>5, <2>1, <2>3 DEF Interrupt, OneChunk
  <2> QED BY <1>5, <2>2, <2>3 DEF Interrupt
<1>6. CASE Pio
  <2>1. job' \in Jobs
    BY <1>6 DEF Pio, Move, Jobs
  <2>2. CASE job.left = 1
    <3>1. at' = "ok" /\ call' \in Calls
      BY <1>6, <2>2, ChunkDoneIsAll DEF Pio, OneChunk
    <3> QED BY <1>6, <2>1, <3>1 DEF Pio, OneChunk
  <2>3. CASE job.left # 1
    BY <1>6, <2>1, <2>3 DEF Pio, OneChunk
  <2> QED BY <2>2, <2>3
<1>7. CASE PioFails
  BY <1>7 DEF PioFails, OneChunk, NoJob, Jobs
<1>8. CASE DmaMoves
  <2>1. job' \in Jobs
    BY <1>8 DEF DmaMoves, Move, Jobs
  <2> QED BY <1>8, <2>1 DEF DmaMoves, OneChunk
<1>9. CASE DmaEnds
  <2>1. engine' \in Engines
    BY <1>9 DEF DmaEnds, Engines
  <2> QED BY <1>9, <2>1 DEF DmaEnds, OneChunk, NoJob, Jobs
<1>10. CASE OtherDisk
  BY <1>10 DEF OtherDisk, OneChunk
<1>11. CASE WriteIsLost
  BY <1>11 DEF WriteIsLost, OneChunk
<1>12. CASE UNCHANGED transferVars
  BY <1>12 DEF transferVars, OneChunk
<1> QED BY <1>1, <1>2, <1>3, <1>4, <1>5, <1>6, <1>7, <1>8, <1>9, <1>10, <1>11, <1>12 DEF TransferNext

\* One more sector of the call.
LEMMA MoveGoesOn ==
  ASSUME TransferTypes, Move, job.left > 0, NEW k \in 0 .. call.n, Done(k),
         moved \subseteq Partial(call.n), call' = call
  PROVE  /\ k + 1 \in 0 .. call.n /\ Done(k + 1)' /\ moved' \subseteq Partial(call.n)'
         /\ job'.dma = job.dma /\ job'.left = job.left - 1
         /\ job.left = 1 => k + 1 = call.n
<1>1. /\ call.n \in Nat /\ call.first \in Nat /\ k \in Int
      /\ job.lba = call.first + k /\ job.off = k /\ job.left = call.n - k /\ Partial(k) \subseteq moved
      /\ job \in Jobs
  BY DEF TransferTypes, Calls, Done
<1>2. /\ job'.lba = call.first + (k + 1) /\ job'.off = k + 1 /\ job'.left = job.left - 1
      /\ job'.dma = job.dma
  BY <1>1 DEF Move, Jobs
<1>3. moved' = moved \cup {<<call.first + k, k>>}
  BY <1>1 DEF Move
<1>4. k < call.n
  BY <1>1
<1>5. <<call.first + k, k>> \in Partial(call.n)
  BY <1>1, <1>4 DEF Partial
<1>6. Partial(k + 1) = Partial(k) \cup {<<call.first + k, k>>}
  <2>1. 0 .. (k + 1) - 1 = (0 .. k - 1) \cup {k}
    BY <1>1
  <2> QED BY <2>1 DEF Partial
<1>7. \A j : Partial(j)' = Partial(j)'
  OBVIOUS
<1>8. Partial(k + 1)' = Partial(k + 1) /\ Partial(call.n)' = Partial(call.n)
  BY DEF Partial
<1>9. k + 1 \in 0 .. call.n /\ job'.left = call.n - (k + 1)
  BY <1>1, <1>2, <1>4
<1>10. Done(k + 1)'
  BY <1>1, <1>2, <1>3, <1>6, <1>8, <1>9 DEF Done, Partial
<1> QED BY <1>1, <1>2, <1>3, <1>4, <1>5, <1>8, <1>9, <1>10

\* What a call of the process or a step of the drive keeps, as long as the other disk is quiet.
LEMMA CallsBegin == TransferTypes /\ InCall /\ Call => InCall'
<1> SUFFICES ASSUME TransferTypes, InCall, Call PROVE InCall'
  OBVIOUS
<1>1. Idle /\ at' = "command" /\ moved' = {} /\ lost' = {} /\ UNCHANGED <<job, engine, signals>>
  BY DEF Call, InCall
<1> QED BY <1>1 DEF InCall, Idle, Quiet

LEMMA BusyEnds == TransferTypes /\ InCall /\ Busy => InCall'
BY DEF Busy, InCall, Idle, Quiet

LEMMA CommandsStart == TransferTypes /\ InCall /\ Command => InCall'
<1> SUFFICES ASSUME TransferTypes, InCall, Command PROVE InCall'
  OBVIOUS
<1>1. /\ at = "command" /\ Idle /\ moved \subseteq Partial(call.n) /\ lost = {}
      /\ UNCHANGED <<call, moved, lost, signals>> /\ call.done = 0 /\ call.n >= 1 /\ call.sector = call.first
  BY DEF Command, InCall, TransferTypes, OneChunk
<1>2. Chunk(call.n - call.done) = call.n /\ call.n \in 0 .. MaxSectors /\ call.first \in Nat
  BY <1>1, ChunkIsAll
<1>3. job' = [dma |-> Dma, lba |-> call.first, left |-> call.n, off |-> 0]
  BY <1>1, <1>2 DEF Command, Registers
<1>4. Quiet' /\ ~(engine.running)'
  BY <1>1 DEF Command, Idle, Quiet
<1>5. Done(0)'
  <2>1. Partial(0)' = {}
    BY <1>1, <1>2 DEF Partial
  <2> QED BY <1>1, <1>2, <1>3, <2>1 DEF Done
<1>6. Partial(call.n)' = Partial(call.n)
  BY <1>1 DEF Partial
<1>7. CASE Dma
  BY <1>1, <1>3, <1>4, <1>5, <1>6, <1>7 DEF Command, InCall
<1>8. CASE ~Dma
  <2>1. at' = "pio" /\ ~job'.dma /\ job'.left > 0 /\ 0 \in 0 .. call'.n
    BY <1>1, <1>2, <1>3, <1>8 DEF Command
  <2> QED BY <1>1, <1>4, <1>5, <1>6, <2>1 DEF InCall
<1> QED BY <1>7, <1>8

LEMMA TransfersStart == TransferTypes /\ InCall /\ StartDMA => InCall'
<1> SUFFICES ASSUME TransferTypes, InCall, StartDMA PROVE InCall'
  OBVIOUS
<1>1. /\ at = "dma" /\ at' = "interrupt" /\ Quiet /\ ~engine.irq /\ lost = {} /\ moved \subseteq Partial(call.n)
      /\ (job.dma /\ Done(0)) \/ (~job.dma /\ job.left = 0)
      /\ UNCHANGED <<call, moved, lost, signals>> /\ call.done = 0
      /\ call \in Calls /\ job \in Jobs /\ engine \in Engines
  BY DEF StartDMA, InCall, TransferTypes, OneChunk
<1>2. engine'.running /\ engine'.irq = engine.irq /\ job' = [job EXCEPT !.off = 0]
  BY <1>1 DEF StartDMA, Engines
<1>3. job'.dma = job.dma /\ job'.left = job.left /\ job'.lba = job.lba /\ job'.off = 0
  BY <1>1, <1>2 DEF Jobs
<1>4. Partial(call.n)' = Partial(call.n) /\ Partial(0)' = Partial(0)
  BY <1>1 DEF Partial
<1>5. Done(0) => Done(0)'
  BY <1>1, <1>3, <1>4 DEF Done, Partial
<1> QED BY <1>1, <1>2, <1>3, <1>4, <1>5 DEF InCall, Quiet, Calls

LEMMA InterruptsCount == TransferTypes /\ InCall /\ Interrupt => InCall'
<1> SUFFICES ASSUME TransferTypes, InCall, Interrupt PROVE InCall'
  OBVIOUS
<1>1. /\ at = "interrupt" /\ signals > 0 /\ lost = {} /\ moved \subseteq Partial(call.n)
      /\ call.done = 0 /\ call \in Calls
  BY DEF Interrupt, InCall, TransferTypes, OneChunk
<1>2. /\ signals = 1 /\ engine.irq /\ ~job.dma /\ job.left = 0
      /\ ~engine.error => Partial(call.n) \subseteq moved
  BY <1>1 DEF InCall
<1>3. signals' = 0 /\ engine' = [running |-> FALSE, irq |-> FALSE, error |-> FALSE] /\ UNCHANGED <<job, moved, lost>>
  BY <1>2 DEF Interrupt
<1>4. Idle'
  BY <1>2, <1>3 DEF Idle, Quiet
<1>5. CASE Succeeded /\ ChunkDone
  <2>1. at' = "ok" /\ call'.n = call.n /\ call'.first = call.first
    BY <1>1, <1>5, ChunkDoneIsAll
  <2>2. Partial(call.n)' = Partial(call.n)
    BY <2>1 DEF Partial
  <2>3. Partial(call.n) \subseteq moved
    BY <1>2, <1>5 DEF Succeeded
  <2> QED BY <1>1, <1>3, <1>4, <2>1, <2>2, <2>3 DEF InCall
<1>6. CASE call' = call /\ at' \in {"dma", "command"}
  <2>1. Partial(call.n)' = Partial(call.n)
    BY <1>6 DEF Partial
  <2> QED BY <1>1, <1>2, <1>3, <1>4, <1>6, <2>1 DEF InCall, Idle
<1> QED BY <1>5, <1>6 DEF Interrupt

LEMMA SectorsMove == TransferTypes /\ InCall /\ Pio => InCall'
<1> SUFFICES ASSUME TransferTypes, InCall, Pio PROVE InCall'
  OBVIOUS
<1>1. /\ at = "pio" /\ Quiet /\ ~job.dma /\ job.left > 0 /\ lost = {} /\ moved \subseteq Partial(call.n) /\ Move
      /\ UNCHANGED <<lost, engine, signals>> /\ call.done = 0 /\ call \in Calls /\ job \in Jobs
  BY DEF Pio, InCall, TransferTypes, OneChunk
<1>2. PICK k \in 0 .. call.n : Done(k)
  BY <1>1 DEF InCall
<1>3. /\ call.n \in Nat /\ call.first \in Nat /\ job.lba = call.first + k /\ job.off = k /\ job.left = call.n - k
      /\ Partial(k) \subseteq moved
  BY <1>1, <1>2 DEF Done, Calls
<1>4. Quiet'
  BY <1>1 DEF Quiet
<1>5. CASE job.left # 1
  <2>1. UNCHANGED <<call, at>>
    BY <1>5 DEF Pio
  <2>2. /\ k + 1 \in 0 .. call.n /\ Done(k + 1)' /\ moved' \subseteq Partial(call.n)'
        /\ job'.dma = job.dma /\ job'.left = job.left - 1
    BY <1>1, <1>2, <2>1, MoveGoesOn
  <2>3. job'.left > 0
    BY <1>1, <1>3, <1>5, <2>2
  <2> QED BY <1>1, <1>4, <2>1, <2>2, <2>3 DEF InCall
<1>6. CASE job.left = 1
  <2>1. at' = "ok" /\ call'.n = call.n /\ call'.first = call.first
    BY <1>1, <1>6, ChunkDoneIsAll DEF Pio
  <2>2. Partial(call.n)' = Partial(call.n)
    BY <2>1 DEF Partial
  <2>3. moved' = moved \cup {<<call.first + k, k>>} /\ call.n = k + 1
    BY <1>1, <1>3, <1>6 DEF Move
  <2>4. Partial(call.n) = Partial(k) \cup {<<call.first + k, k>>}
    <3>1. 0 .. call.n - 1 = (0 .. k - 1) \cup {k}
      BY <1>3, <2>3
    <3> QED BY <3>1 DEF Partial
  <2>5. moved' = Partial(call.n)
    BY <1>1, <1>3, <2>3, <2>4
  <2>6. job'.left = 0 /\ job'.dma = job.dma
    BY <1>1, <1>6 DEF Move, Jobs
  <2> QED BY <1>1, <1>4, <2>1, <2>2, <2>5, <2>6 DEF InCall, Idle
<1> QED BY <1>5, <1>6

LEMMA PioEnds == TransferTypes /\ InCall /\ PioFails => InCall'
BY DEF PioFails, InCall, Idle, Quiet, NoJob

LEMMA DriveMoves == TransferTypes /\ InCall /\ DmaMoves => InCall'
<1> SUFFICES ASSUME TransferTypes, InCall, DmaMoves PROVE InCall'
  OBVIOUS
<1>1. /\ job.dma /\ job.left > 0 /\ engine.running /\ Move
      /\ UNCHANGED <<call, at, retry, speed, lost, engine, signals, transfers, faults, foreign>>
  BY DEF DmaMoves
<1>2. at = "interrupt" /\ signals = 0 /\ ~engine.irq /\ lost = {} /\ moved \subseteq Partial(call.n)
  BY <1>1 DEF InCall, Idle, Quiet, TransferTypes
<1>3. PICK k \in 0 .. call.n : Done(k)
  BY <1>1, <1>2 DEF InCall
<1>4. k + 1 \in 0 .. call.n /\ Done(k + 1)' /\ moved' \subseteq Partial(call.n)' /\ job'.dma = job.dma
  BY <1>1, <1>2, <1>3, MoveGoesOn
<1> QED BY <1>1, <1>2, <1>4 DEF InCall

LEMMA DriveEnds == TransferTypes /\ InCall /\ DmaEnds => InCall'
<1> SUFFICES ASSUME TransferTypes, InCall, DmaEnds PROVE InCall'
  OBVIOUS
<1>1. /\ job.dma /\ engine.running /\ job' = NoJob /\ signals' = signals + 1 /\ engine \in Engines
      /\ UNCHANGED <<call, at, retry, speed, moved, lost, transfers, foreign>> /\ call \in Calls
  BY DEF DmaEnds, TransferTypes
<1>2. at = "interrupt" /\ signals = 0 /\ ~engine.irq /\ lost = {} /\ moved \subseteq Partial(call.n)
  BY <1>1 DEF InCall, Idle, Quiet, TransferTypes
<1>3. PICK k \in 0 .. call.n : Done(k)
  BY <1>1, <1>2 DEF InCall
<1>4. engine'.irq /\ (~engine'.error => job.left = 0)
  BY <1>1 DEF DmaEnds, Engines
<1>5. ~engine'.error => Partial(call.n) \subseteq moved
  <2> SUFFICES ASSUME job.left = 0 PROVE Partial(call.n) \subseteq moved
    BY <1>4
  <2>1. k = call.n
    BY <1>1, <1>3 DEF Done, Calls
  <2> QED BY <1>3, <2>1 DEF Done
<1>6. Partial(call.n)' = Partial(call.n) /\ signals' = 1 /\ ~job'.dma /\ job'.left = 0
  BY <1>1, <1>2 DEF Partial, NoJob
<1> QED BY <1>1, <1>2, <1>4, <1>5, <1>6 DEF InCall

LEMMA LossIsTheLast == TransferTypes /\ InCall /\ WriteIsLost => InCall'
<1> SUFFICES ASSUME TransferTypes, InCall, WriteIsLost PROVE InCall'
  OBVIOUS
<1>1. /\ at = "ok" /\ Idle /\ moved = Partial(call.n) /\ call \in Calls
      /\ lost' = {m \in moved : \A o \in moved : o[2] <= m[2]}
      /\ UNCHANGED <<call, at, retry, speed, job, moved, engine, signals, transfers, foreign>>
  BY DEF WriteIsLost, InCall, TransferTypes
<1>2. call.n \in Nat /\ call.first \in Nat
  BY <1>1 DEF Calls
<1>3. lost' \subseteq {<<call.first + call.n - 1, call.n - 1>>}
  <2> SUFFICES ASSUME NEW m \in moved, \A o \in moved : o[2] <= m[2]
               PROVE  m = <<call.first + call.n - 1, call.n - 1>>
    BY <1>1
  <2>1. PICK i \in 0 .. call.n - 1 : m = <<call.first + i, i>>
    BY <1>1 DEF Partial
  <2>2. <<call.first + (call.n - 1), call.n - 1>> \in moved
    BY <1>1, <1>2, <2>1 DEF Partial
  <2>3. call.n - 1 <= i
    BY <2>1, <2>2
  <2>4. i = call.n - 1
    BY <1>2, <2>1, <2>3
  <2> QED BY <1>2, <2>1, <2>4
<1>4. Partial(call.n)' = Partial(call.n)
  BY <1>1 DEF Partial
<1> QED BY <1>1, <1>3, <1>4 DEF InCall, Idle, Quiet

LEMMA TransferGoesOn == TransferIInv /\ [TransferNext]_transferVars => TransferIInv'
<1> SUFFICES ASSUME TransferIInv, [TransferNext]_transferVars PROVE TransferIInv'
  OBVIOUS
<1>1. TransferTypes /\ TransferTypes'
  BY TypesGoOn DEF TransferIInv
<1>2. ASSUME ~foreign' PROVE InCall'
  <2>1. CASE UNCHANGED transferVars
    <3>1. ~foreign /\ InCall
      BY <1>2, <2>1 DEF transferVars, TransferIInv
    <3>2. Partial(call.n)' = Partial(call.n)
      BY <2>1 DEF transferVars, Partial
    <3>3. \A k : Done(k) => Done(k)'
      BY <2>1 DEF transferVars, Done, Partial
    <3> QED BY <2>1, <3>1, <3>2, <3>3 DEF transferVars, InCall, Idle, Quiet
  <2>2. CASE TransferNext
    <3>1. ~OtherDisk
      BY <1>2 DEF OtherDisk
    <3>2. foreign' = foreign
      BY <2>2, <3>1 DEF TransferNext, Call, Busy, Command, StartDMA, Interrupt, Pio, PioFails, DmaMoves, DmaEnds,
                        WriteIsLost
    <3>3. InCall
      BY <1>2, <3>2 DEF TransferIInv
    <3> QED BY <1>1, <2>2, <3>1, <3>3, CallsBegin, BusyEnds, CommandsStart, TransfersStart, InterruptsCount,
               SectorsMove, PioEnds, DriveMoves, DriveEnds, LossIsTheLast DEF TransferNext
  <2> QED BY <2>1, <2>2
<1> QED BY <1>1, <1>2 DEF TransferIInv

\* A read or write of an ATA disk that succeeds has moved each of its sectors to or from its place,
\* whatever was retried or fell back to the data port, for all sizes and numbers of faults.
THEOREM SectorsMoveAsAsked == TransferSpec => []MovedAsAsked
<1>1. TransferIInv => MovedAsAsked
  <2> SUFFICES ASSUME TransferIInv, at = "ok", ~foreign PROVE MovedAsAsked
    BY DEF MovedAsAsked
  <2>1. InCall /\ moved = Partial(call.n)
    BY DEF TransferIInv, InCall
  <2> QED BY <2>1 DEF InCall, MovedAsAsked, Partial, Idle, Quiet
<1> QED BY <1>1, TransferStarts, TransferGoesOn, PTL DEF TransferSpec

-----------------------------------------------------------------------------
(* Floppy: a transfer that is reported good *)

Answers(r) == r.op = "rw" /\ (r.normal => r.moved = wanted.start .. wanted.end - 1)
AsksForAll(cmd, bytes) == /\ cmd = [cyl |-> Flop!Track, head |-> Flop!HeadNo, sector |-> Flop!Sector]
                          /\ bytes = (wanted.end - wanted.start) * SectorBytes /\ bytes - 1 <= DmaWord

FloppyTypes ==
  /\ step \in [op : {"init", "idle", "motor", "recal", "seek", "rw"},
               does : {"reset", "sense", "complete", "judge", "next", "wait", "start", "send"}]
  /\ step.op = "idle" => step.does = "wait"
  /\ step.op = "motor" => step.does = "start"
  /\ step.op = "rw" => step.does # "sense"
  /\ wanted \in [start : Nat, end : Nat]
  /\ raced \in BOOLEAN /\ motorOn \in BOOLEAN /\ spinning \in BOOLEAN /\ requestMotorOff \in BOOLEAN

\* While the driver waits for a transfer, the controller executes it or holds the reply to it.
InTransfer ==
  /\ step.op \in {"motor", "recal", "seek", "rw"} => wanted.start < wanted.end
  /\ step.op = "rw" /\ step.does \in {"wait", "complete"} =>
       \/ fdc.phase = "execute" /\ AsksForAll(fdc.reply, dmaBytes)
       \/ fdc.phase = "result" /\ fdc.bytes = 7 /\ Answers(fdc.reply)
  /\ step.op = "rw" /\ step.does = "judge" => Answers(replyBuffer)
  /\ outcome = "good" => step.op = "idle" /\ Answers(replyBuffer)

\* Between the start of the motor and the end of a transfer the task leaves the motor alone.
MotorRuns ==
  ~raced => /\ motorTask # "rest" => ~motorOn
            /\ motorOn => spinning
            /\ step.op \in {"recal", "seek", "rw"} => motorTask = "rest" /\ ~requestMotorOff /\ motorOn

FloppyIInv == FloppyTypes /\ InTransfer /\ MotorRuns

LEMMA FloppyConstants ==
  /\ SectorsPerTrack \in Nat \ {0} /\ NoOfHeads \in Nat \ {0} /\ SectorBytes \in Nat \ {0, 1}
  /\ DmaWord \in Nat \ {0} /\ DmaWord % SectorBytes = 0
BY FloppyAssumption

\* The first sector the controller comes to is the one that was asked for.
LEMMA SectorIsAsked ==
  ASSUME NEW n \in Nat
  PROVE  (((n \div SectorsPerTrack) \div NoOfHeads) * NoOfHeads + ((n \div SectorsPerTrack) % NoOfHeads))
           * SectorsPerTrack + ((n % SectorsPerTrack) + 1) - 1 = n
<1> DEFINE raw == n \div SectorsPerTrack
           rest == n % SectorsPerTrack
<1>1. raw \in Nat /\ rest \in Nat /\ n = raw * SectorsPerTrack + rest
  BY FloppyConstants, QuotientAndRest
<1>2. raw = (raw \div NoOfHeads) * NoOfHeads + (raw % NoOfHeads)
  BY <1>1, FloppyConstants, QuotientAndRest
<1> HIDE DEF raw, rest
<1>3. \A a \in Nat : n = a + rest => a + (rest + 1) - 1 = n
  BY <1>1
<1>4. raw * SectorsPerTrack \in Nat
  BY <1>1, FloppyConstants
<1>5. raw * SectorsPerTrack + (rest + 1) - 1 = n
  BY <1>1, <1>3, <1>4
<1>6. ((raw \div NoOfHeads) * NoOfHeads + (raw % NoOfHeads)) * SectorsPerTrack + (rest + 1) - 1 = n
  BY <1>2, <1>5
<1> QED BY <1>6 DEF raw, rest

\* The DMA channel's count holds every number of sectors that is let through, and the controller
\* makes that number of sectors of it.
LEMMA CountFits ==
  ASSUME NEW n \in Nat \ {0}, n * SectorBytes - 1 <= DmaWord
  PROVE  /\ ((n * SectorBytes - 1) % DmaWord) + 1 = n * SectorBytes
         /\ (n * SectorBytes + SectorBytes - 1) \div SectorBytes = n
<1> DEFINE k == DmaWord \div SectorBytes
<1>1. k \in Nat /\ DmaWord = k * SectorBytes
  BY FloppyConstants, QuotientAndRest
<1> HIDE DEF k
<1>2. SectorBytes \in Nat /\ SectorBytes > 1
  BY FloppyConstants
<1>3. n <= k
  <2> SUFFICES ASSUME n >= k + 1 PROVE FALSE
    BY <1>1
  <2>1. n * SectorBytes >= (k + 1) * SectorBytes
    BY <1>1, <1>2
  <2>2. (k + 1) * SectorBytes = k * SectorBytes + SectorBytes
    BY <1>1, <1>2
  <2>3. n * SectorBytes \in Nat /\ k * SectorBytes \in Nat
    BY <1>1, <1>2
  <2> QED BY <1>1, <1>2, <2>1, <2>2, <2>3
<1>4. n * SectorBytes <= DmaWord
  BY <1>1, <1>2, <1>3
<1>5. n * SectorBytes \in Nat /\ n * SectorBytes > 0
  BY <1>2
<1>6. (n * SectorBytes - 1) % DmaWord = n * SectorBytes - 1
  BY <1>4, <1>5, FloppyConstants
<1>7. (n * SectorBytes + (SectorBytes - 1)) \div SectorBytes = n
  BY <1>2, QuotientIsOne
<1>8. n * SectorBytes + SectorBytes - 1 = n * SectorBytes + (SectorBytes - 1)
  BY <1>2, <1>5
<1> QED BY <1>5, <1>6, <1>7, <1>8

LEMMA FloppyStarts == Flop!FloppyInit => FloppyIInv
<1> SUFFICES ASSUME Flop!FloppyInit PROVE FloppyIInv
  OBVIOUS
<1>1. /\ step = [op |-> "init", does |-> "reset"] /\ wanted = [start |-> 0, end |-> 0] /\ outcome = "uninitialized"
      /\ motorOn = FALSE /\ spinning = FALSE /\ requestMotorOff = FALSE /\ raced = FALSE
  BY DEF Flop!FloppyInit
<1> QED BY <1>1 DEF FloppyIInv, FloppyTypes, InTransfer, MotorRuns

\* The range of a request that is not refused is not empty.
LEMMA RequestsBegin ==
  FloppyIInv /\ (\E t \in Transfers : Flop!Request(t[1], t[2])) => FloppyIInv'
<1> SUFFICES ASSUME FloppyIInv, NEW t \in Transfers, Flop!Request(t[1], t[2]) PROVE FloppyIInv'
  OBVIOUS
<1>1. t[1] \in Nat /\ t[2] \in Nat
  BY DEF Transfers
<1> DEFINE s == t[1]
           e == t[2]
<1>2. /\ wanted' = [start |-> s, end |-> e] /\ step.op = "idle" /\ UNCHANGED <<fdc, dmaBytes, replyBuffer>>
      /\ UNCHANGED <<raced, motorOn, spinning, motorTask>>
  BY DEF Flop!Request, Flop!At, Flop!fdcVars, Flop!EndWith, Flop!motorVars
<1>3. CASE Flop!Refused(s, e)
  <2>1. /\ outcome' = "refused" /\ step' = [op |-> "idle", does |-> "wait"] /\ requestMotorOff' = TRUE
    BY <1>3 DEF Flop!Request, Flop!EndWith, Flop!Then
  <2> QED BY <1>1, <1>2, <2>1 DEF FloppyIInv, FloppyTypes, InTransfer, MotorRuns
<1>4. CASE ~Flop!Refused(s, e)
  <2>1. /\ outcome' = "none" /\ step' = [op |-> "motor", does |-> "start"] /\ UNCHANGED requestMotorOff
    BY <1>4 DEF Flop!Request, Flop!Then, Flop!motorVars
  <2>2. s < e
    BY <1>1, <1>4 DEF Flop!Refused
  <2> QED BY <1>1, <1>2, <2>1, <2>2 DEF FloppyIInv, FloppyTypes, InTransfer, MotorRuns
<1> QED BY <1>3, <1>4

\* What an exception leads to.
LEMMA ThrowsGoOn ==
  ASSUME FloppyIInv, Flop!Throw, wanted' = wanted, replyBuffer' = replyBuffer, step.op # "idle", step.op # "motor"
  PROVE  FloppyIInv'
<1>1. \/ UNCHANGED <<spinning, motorOn, requestMotorOff, motorTask, raced, outcome>>
         /\ \/ step.op = "init" /\ step' = [op |-> "init", does |-> "next"]
            \/ step.op # "init" /\ step' = [op |-> "rw", does |-> "send"]
            \/ step.op # "init" /\ step' = [op |-> "recal", does |-> "send"]
      \/ step' = [op |-> "idle", does |-> "wait"] /\ outcome' = "failed" /\ requestMotorOff' = TRUE
         /\ UNCHANGED <<spinning, motorOn, motorTask, raced>>
  BY DEF Flop!Throw, Flop!NextSeekTry, Flop!EndWith, Flop!Then, Flop!motorVars
<1>2. step.op \in {"init", "recal", "seek", "rw"}
  BY DEF FloppyIInv, FloppyTypes
<1>3. outcome # "good" /\ (step.op # "init" => wanted.start < wanted.end)
  BY <1>2 DEF FloppyIInv, InTransfer
<1>4. FloppyTypes'
  <2>1. /\ step' \in {[op |-> "init", does |-> "next"], [op |-> "rw", does |-> "send"], [op |-> "recal", does |-> "send"],
                     [op |-> "idle", does |-> "wait"]}
        /\ requestMotorOff' \in BOOLEAN
    BY <1>1 DEF FloppyIInv, FloppyTypes
  <2>2. raced' \in BOOLEAN /\ motorOn' \in BOOLEAN /\ spinning' \in BOOLEAN
    BY <1>1 DEF FloppyIInv, FloppyTypes
  <2>3. wanted' \in [start : Nat, end : Nat]
    BY DEF FloppyIInv, FloppyTypes
  <2> QED BY <2>1, <2>2, <2>3 DEF FloppyTypes
<1>5. InTransfer'
  BY <1>1, <1>3 DEF InTransfer
<1>6. MotorRuns'
  BY <1>1, <1>2 DEF FloppyIInv, MotorRuns
<1> QED BY <1>4, <1>5, <1>6 DEF FloppyIInv

LEMMA TransferStays ==
  ASSUME InTransfer, UNCHANGED <<step, wanted, fdc, dmaBytes, replyBuffer, outcome>>
  PROVE  InTransfer'
<1>1. \A r : Answers(r) <=> Answers(r)'
  BY DEF Answers
<1>2. \A cmd, bytes : AsksForAll(cmd, bytes) <=> AsksForAll(cmd, bytes)'
  BY DEF AsksForAll, Flop!Track, Flop!HeadNo, Flop!Sector, Flop!RawTrack
<1> QED BY <1>1, <1>2 DEF InTransfer, Answers, AsksForAll, Flop!Track, Flop!HeadNo, Flop!Sector, Flop!RawTrack

\* The controller replies normally to what it was asked with the sectors that were wanted.
LEMMA TransferIsAnswered == FloppyIInv /\ Flop!TransferEnds => FloppyIInv'
<1> SUFFICES ASSUME FloppyIInv, Flop!TransferEnds PROVE FloppyIInv'
  OBVIOUS
<1>1. /\ fdc.phase = "execute"
      /\ UNCHANGED <<step, wanted, dmaBytes, replyBuffer, outcome, raced, motorOn, spinning, requestMotorOff, motorTask>>
  BY DEF Flop!TransferEnds, Flop!motorVars, Flop!tryVars, Flop!resultVars
<1>2. FloppyTypes' /\ MotorRuns'
  BY <1>1 DEF FloppyIInv, FloppyTypes, MotorRuns
<1>3. \A r : Answers(r) <=> Answers(r)'
  BY <1>1 DEF Answers
<1>4. ASSUME step.op = "rw", step.does \in {"wait", "complete"}
      PROVE  fdc'.phase = "result" /\ fdc'.bytes = 7 /\ Answers(fdc'.reply)
  <2>1. AsksForAll(fdc.reply, dmaBytes)
    BY <1>1, <1>4 DEF FloppyIInv, InTransfer
  <2> DEFINE n == wanted.end - wanted.start
             first == (fdc.reply.cyl * NoOfHeads + fdc.reply.head) * SectorsPerTrack + fdc.reply.sector - 1
             asked == (dmaBytes + SectorBytes - 1) \div SectorBytes
  <2>2. wanted.start \in Nat /\ wanted.end \in Nat /\ wanted.start < wanted.end
    BY <1>4 DEF FloppyIInv, FloppyTypes, InTransfer
  <2>3. first = wanted.start
    <3>1. /\ fdc.reply.cyl = (wanted.start \div SectorsPerTrack) \div NoOfHeads
          /\ fdc.reply.head = (wanted.start \div SectorsPerTrack) % NoOfHeads
          /\ fdc.reply.sector = (wanted.start % SectorsPerTrack) + 1
      BY <2>1 DEF AsksForAll, Flop!Track, Flop!HeadNo, Flop!Sector, Flop!RawTrack
    <3>2. (((wanted.start \div SectorsPerTrack) \div NoOfHeads) * NoOfHeads + ((wanted.start \div SectorsPerTrack) % NoOfHeads))
             * SectorsPerTrack + ((wanted.start % SectorsPerTrack) + 1) - 1 = wanted.start
      BY <2>2, SectorIsAsked
    <3>3. first = (((wanted.start \div SectorsPerTrack) \div NoOfHeads) * NoOfHeads
                      + ((wanted.start \div SectorsPerTrack) % NoOfHeads))
                    * SectorsPerTrack + ((wanted.start % SectorsPerTrack) + 1) - 1
      BY <3>1, Zenon
    <3> HIDE DEF first
    <3> QED BY <3>2, <3>3
  <2>4. CASE fdc' = Flop!ResultPhase(7, Flop!Reply("rw", cylinder, TRUE, first .. first + asked - 1))
    <3>1. asked = n
      <4>1. dmaBytes = n * SectorBytes /\ n \in Nat \ {0}
        BY <2>1, <2>2 DEF AsksForAll
      <4>2. n * SectorBytes - 1 <= DmaWord
        BY <2>1, <4>1 DEF AsksForAll
      <4> QED BY <4>1, <4>2, CountFits
    <3>2. first .. first + asked - 1 = wanted.start .. wanted.end - 1
      BY <2>2, <2>3, <3>1
    <3> QED BY <2>4, <3>2 DEF Flop!ResultPhase, Flop!Reply, Answers
  <2>5. CASE \E m \in 0 .. asked : fdc' = Flop!ResultPhase(7, Flop!Reply("rw", cylinder, FALSE, first .. first + m - 1))
    BY <2>5 DEF Flop!ResultPhase, Flop!Reply, Answers
  <2> QED BY <2>4, <2>5 DEF Flop!TransferEnds
<1>5. InTransfer'
  BY <1>1, <1>3, <1>4 DEF FloppyIInv, InTransfer, Answers
<1> QED BY <1>2, <1>5 DEF FloppyIInv

LEMMA TransfersAreSent == FloppyIInv /\ Flop!SendTransfer => FloppyIInv'
<1> SUFFICES ASSUME FloppyIInv, Flop!SendTransfer PROVE FloppyIInv'
  OBVIOUS
<1>1. /\ step.op = "rw" /\ Flop!DmaCount <= DmaWord /\ dmaBytes' = (Flop!DmaCount % DmaWord) + 1
      /\ fdc' = [phase |-> "execute", bytes |-> 0,
                 reply |-> [cyl |-> Flop!Track, head |-> Flop!HeadNo, sector |-> Flop!Sector]]
      /\ step' = [op |-> "rw", does |-> "wait"]
      /\ UNCHANGED <<wanted, replyBuffer, outcome, raced, motorOn, spinning, requestMotorOff, motorTask>>
  BY DEF Flop!SendTransfer, Flop!At, Flop!Then, Flop!motorVars, Flop!tryVars, Flop!resultVars
<1> DEFINE n == wanted.end - wanted.start
<1>2. n \in Nat \ {0} /\ wanted.start < wanted.end
  BY <1>1 DEF FloppyIInv, FloppyTypes, InTransfer
<1>3. n * SectorBytes - 1 <= DmaWord /\ dmaBytes' = ((n * SectorBytes - 1) % DmaWord) + 1
  BY <1>1 DEF Flop!DmaCount
<1>4. dmaBytes' = n * SectorBytes /\ dmaBytes' - 1 <= DmaWord
  BY <1>2, <1>3, CountFits
<1>5. AsksForAll(fdc.reply, dmaBytes)'
  BY <1>1, <1>4 DEF AsksForAll, Flop!Track, Flop!HeadNo, Flop!Sector, Flop!RawTrack
<1>6. InTransfer'
  BY <1>1, <1>2, <1>5 DEF FloppyIInv, InTransfer
<1>7. FloppyTypes' /\ MotorRuns'
  BY <1>1 DEF FloppyIInv, FloppyTypes, MotorRuns
<1> QED BY <1>6, <1>7 DEF FloppyIInv

\* The driver takes a reply it has waited for.
LEMMA RepliesAreTaken ==
  FloppyIInv /\ (Flop!CompleteResultPhase \/ Flop!JudgeTransfer) => FloppyIInv'
<1>1. ASSUME FloppyIInv, Flop!CompleteResultPhase PROVE FloppyIInv'
  <2>1. /\ step.does = "complete" /\ fdc.phase = "result" /\ replyBuffer' = fdc.reply
        /\ step' = [op |-> step.op, does |-> "judge"]
        /\ UNCHANGED <<wanted, outcome, raced, motorOn, spinning, requestMotorOff, motorTask>>
    BY <1>1 DEF Flop!CompleteResultPhase, Flop!Then, Flop!motorVars, Flop!tryVars
  <2>2. step.op # "idle"
    BY <1>1, <2>1 DEF FloppyIInv, FloppyTypes
  <2>3. step.op = "rw" => Answers(replyBuffer)'
    BY <1>1, <2>1 DEF FloppyIInv, InTransfer, Answers
  <2>4. outcome # "good"
    BY <1>1, <2>2 DEF FloppyIInv, InTransfer
  <2> QED BY <1>1, <2>1, <2>2, <2>3, <2>4 DEF FloppyIInv, FloppyTypes, InTransfer, MotorRuns
<1>2. ASSUME FloppyIInv, Flop!JudgeTransfer PROVE FloppyIInv'
  <2>1. step.op = "rw" /\ step.does = "judge" /\ UNCHANGED <<fdc, dmaBytes, wanted, replyBuffer>>
    BY <1>2 DEF Flop!JudgeTransfer, Flop!At, Flop!fdcVars
  <2>2. CASE Flop!EndWith("good")
    <3>1. /\ outcome' = "good" /\ step' = [op |-> "idle", does |-> "wait"] /\ requestMotorOff' = TRUE
          /\ UNCHANGED <<spinning, motorOn, motorTask, raced>>
      BY <2>2 DEF Flop!EndWith, Flop!Then
    <3>2. Answers(replyBuffer)'
      BY <1>2, <2>1 DEF FloppyIInv, InTransfer, Answers
    <3> QED BY <1>2, <2>1, <3>1, <3>2 DEF FloppyIInv, FloppyTypes, InTransfer, MotorRuns
  <2>3. CASE Flop!Throw
    BY <1>2, <2>1, <2>3, ThrowsGoOn
  <2> QED BY <1>2, <2>2, <2>3 DEF Flop!JudgeTransfer
<1> QED BY <1>1, <1>2

\* Steps that neither send a transfer nor take a reply.
LEMMA StepsGoOn ==
  FloppyIInv /\ (Flop!SendSeek \/ Flop!WaitOnInterrupt \/ Flop!SenseInterruptStatus \/ Flop!Reset \/ Flop!NextSense)
    => FloppyIInv'
<1> SUFFICES ASSUME FloppyIInv,
                    Flop!SendSeek \/ Flop!WaitOnInterrupt \/ Flop!SenseInterruptStatus \/ Flop!Reset \/ Flop!NextSense
             PROVE  FloppyIInv'
  OBVIOUS
<1>1. CASE Flop!SendSeek
  <2>1. /\ step.op \in {"recal", "seek"} /\ step' = [op |-> step.op, does |-> "wait"]
        /\ UNCHANGED <<fdc, dmaBytes, wanted, replyBuffer, outcome, raced, motorOn, spinning, requestMotorOff, motorTask>>
    BY <1>1 DEF Flop!SendSeek, Flop!At, Flop!Then, Flop!motorVars, Flop!tryVars, Flop!resultVars
  <2> QED BY <2>1 DEF FloppyIInv, FloppyTypes, InTransfer, MotorRuns
<1>2. CASE Flop!WaitOnInterrupt
  <2>1. /\ step.op \in {"recal", "seek", "rw"} /\ step.does = "wait"
        /\ step' = [op |-> step.op, does |-> IF step.op = "rw" THEN "complete" ELSE "sense"]
        /\ UNCHANGED <<fdc, dmaBytes, wanted, replyBuffer, outcome, raced, motorOn, spinning, requestMotorOff, motorTask>>
    BY <1>2 DEF Flop!WaitOnInterrupt, Flop!Then, Flop!fdcVars, Flop!motorVars, Flop!tryVars, Flop!resultVars
  <2>2. InTransfer'
    BY <2>1 DEF FloppyIInv, InTransfer, Answers, AsksForAll, Flop!Track, Flop!HeadNo, Flop!Sector, Flop!RawTrack
  <2> QED BY <2>1, <2>2 DEF FloppyIInv, FloppyTypes, MotorRuns
<1>3. CASE Flop!SenseInterruptStatus
  <2>1. /\ step.does = "sense" /\ step' = [op |-> step.op, does |-> "complete"]
        /\ UNCHANGED <<dmaBytes, wanted, replyBuffer, outcome, raced, motorOn, spinning, requestMotorOff, motorTask>>
    BY <1>3 DEF Flop!SenseInterruptStatus, Flop!Then, Flop!motorVars, Flop!tryVars, Flop!resultVars
  <2> QED BY <2>1 DEF FloppyIInv, FloppyTypes, InTransfer, MotorRuns
<1>4. CASE Flop!Reset
  <2>1. /\ step.op = "init" /\ step' = [op |-> "init", does |-> "sense"]
        /\ UNCHANGED <<dmaBytes, wanted, replyBuffer, outcome, raced, motorOn, spinning, requestMotorOff, motorTask>>
    BY <1>4 DEF Flop!Reset, Flop!At, Flop!Then, Flop!motorVars, Flop!tryVars, Flop!resultVars
  <2> QED BY <2>1 DEF FloppyIInv, FloppyTypes, InTransfer, MotorRuns
<1>5. CASE Flop!NextSense
  <2>1. /\ step.op = "init" /\ step' \in {[op |-> "init", does |-> "sense"], [op |-> "idle", does |-> "wait"]}
        /\ outcome' \in {outcome, "none", "uninitialized"}
        /\ UNCHANGED <<fdc, dmaBytes, wanted, replyBuffer, raced, motorOn, spinning, requestMotorOff, motorTask>>
    BY <1>5 DEF Flop!NextSense, Flop!Then, Flop!fdcVars, Flop!motorVars
  <2> QED BY <2>1 DEF FloppyIInv, FloppyTypes, InTransfer, MotorRuns
<1> QED BY <1>1, <1>2, <1>3, <1>4, <1>5

\* Steps that may end with an exception.
LEMMA TriesGoOn ==
  FloppyIInv /\ (Flop!DmaRefused \/ Flop!SendTimesOut \/ Flop!Underrun \/ Flop!NotCompleted \/ Flop!JudgeSeek)
    => FloppyIInv'
<1>1. ASSUME FloppyIInv, Flop!JudgeSeek PROVE FloppyIInv'
  <2>1. /\ step.op \in {"recal", "seek"} /\ UNCHANGED <<fdc, dmaBytes, wanted, replyBuffer>>
    BY <1>1 DEF Flop!JudgeSeek, Flop!fdcVars
  <2>2. CASE Flop!Sought
    <3>1. /\ step' \in {[op |-> "seek", does |-> "send"], [op |-> "rw", does |-> "send"]}
          /\ UNCHANGED <<outcome, raced, motorOn, spinning, requestMotorOff, motorTask>>
      BY <1>1, <2>2 DEF Flop!JudgeSeek, Flop!Then, Flop!motorVars
    <3> QED BY <1>1, <2>1, <3>1 DEF FloppyIInv, FloppyTypes, InTransfer, MotorRuns
  <2>3. CASE Flop!Throw
    BY <1>1, <2>1, <2>3, ThrowsGoOn
  <2> QED BY <1>1, <2>2, <2>3 DEF Flop!JudgeSeek
<1>2. ASSUME FloppyIInv, Flop!DmaRefused \/ Flop!SendTimesOut \/ Flop!Underrun \/ Flop!NotCompleted
      PROVE  FloppyIInv'
  <2>1. Flop!Throw /\ UNCHANGED <<wanted, replyBuffer>> /\ step.does \in {"send", "sense", "complete"}
    BY <1>2 DEF Flop!DmaRefused, Flop!SendTimesOut, Flop!Underrun, Flop!NotCompleted, Flop!At
  <2>2. step.op # "idle" /\ step.op # "motor"
    BY <1>2, <2>1 DEF FloppyIInv, FloppyTypes
  <2> QED BY <1>2, <2>1, <2>2, ThrowsGoOn
<1> QED BY <1>1, <1>2

LEMMA MotorGoesOn == FloppyIInv /\ (Flop!StartMotor \/ Flop!MotorTask) => FloppyIInv'
<1>1. ASSUME FloppyIInv, Flop!StartMotor PROVE FloppyIInv'
  <2>1. /\ step.op = "motor" /\ step' = [op |-> "seek", does |-> "send"]
        /\ requestMotorOff' = FALSE /\ motorOn' = TRUE /\ spinning' = (spinning \/ ~motorOn)
        /\ raced' = (raced \/ motorTask # "rest")
        /\ UNCHANGED <<fdc, dmaBytes, wanted, replyBuffer, outcome, motorTask>>
    BY <1>1 DEF Flop!StartMotor, Flop!At, Flop!Then, Flop!fdcVars, Flop!tryVars, Flop!resultVars
  <2>2. FloppyTypes' /\ InTransfer'
    BY <1>1, <2>1 DEF FloppyIInv, FloppyTypes, InTransfer
  <2>3. MotorRuns'
    BY <1>1, <2>1 DEF FloppyIInv, FloppyTypes, MotorRuns
  <2> QED BY <2>2, <2>3 DEF FloppyIInv
<1>2. ASSUME FloppyIInv, Flop!MotorTask PROVE FloppyIInv'
  <2>1. UNCHANGED <<step, fdc, dmaBytes, wanted, replyBuffer, outcome, raced>>
    BY <1>2 DEF Flop!MotorTask, Flop!fdcVars, Flop!tryVars, Flop!resultVars
  <2>2. InTransfer'
    BY <1>2, <2>1, TransferStays DEF FloppyIInv
  <2>3. \/ requestMotorOff /\ motorTask = "rest" /\ motorTask' = "off" /\ motorOn' = FALSE /\ UNCHANGED <<requestMotorOff, spinning>>
        \/ motorTask = "off" /\ motorTask' = "disable" /\ requestMotorOff' = FALSE /\ UNCHANGED <<motorOn, spinning>>
        \/ motorTask = "disable" /\ motorTask' = "rest" /\ spinning' = FALSE /\ UNCHANGED <<motorOn, requestMotorOff>>
    BY <1>2 DEF Flop!MotorTask
  <2>4. FloppyTypes'
    BY <1>2, <2>1, <2>3 DEF FloppyIInv, FloppyTypes
  <2>5. MotorRuns'
    BY <1>2, <2>1, <2>3 DEF FloppyIInv, FloppyTypes, MotorRuns
  <2> QED BY <2>2, <2>4, <2>5 DEF FloppyIInv
<1> QED BY <1>1, <1>2

LEMMA FloppyGoesOn == FloppyIInv /\ [Flop!FloppyNext]_(Flop!floppyVars) => FloppyIInv'
<1>1. ASSUME FloppyIInv, UNCHANGED Flop!floppyVars \/ Flop!SeekEnds PROVE FloppyIInv'
  <2>1. UNCHANGED <<step, wanted, fdc, dmaBytes, replyBuffer, outcome, raced, motorOn, spinning, requestMotorOff,
                    motorTask>>
    BY <1>1 DEF Flop!floppyVars, Flop!SeekEnds, Flop!fdcVars, Flop!motorVars, Flop!tryVars, Flop!resultVars
  <2> QED BY <1>1, <2>1, TransferStays DEF FloppyIInv, FloppyTypes, MotorRuns
<1> QED BY <1>1, TransferIsAnswered, RequestsBegin, MotorGoesOn, StepsGoOn, TransfersAreSent, TriesGoOn, RepliesAreTaken
        DEF Flop!FloppyNext

\* A floppy transfer that is reported good was replied to by the controller, and if normally, with
\* the sectors asked for and no others; between the start of the motor and the end of a transfer the
\* disk turns, unless the motor task was overtaken; for disks and DMA channels of all sizes.
THEOREM FloppyMoves == Flop!FloppySpec => []Flop!FloppyMovesAsAsked
<1>1. FloppyIInv => Flop!FloppyMovesAsAsked
  BY DEF FloppyIInv, InTransfer, MotorRuns, Answers, Flop!FloppyMovesAsAsked
<1> QED BY <1>1, FloppyStarts, FloppyGoesOn, PTL DEF Flop!FloppySpec

-----------------------------------------------------------------------------
(* The devices together *)

\* A behaviour of the devices is one of the transfer, one of the clock and one of the floppy.
THEOREM DevicesBehave == DevicesSpec => TransferSpec /\ ClockSpec /\ Flop!FloppySpec
<1>1. DevicesInit => TransferInit /\ ClockInit /\ Flop!FloppyInit
  BY DEF DevicesInit
<1>2. [DevicesNext]_devicesVars => [TransferNext]_transferVars /\ [ClockNext]_clockVars
  BY DEF DevicesNext, devicesVars, restVars
<1>3. [DevicesNext]_devicesVars => [Flop!FloppyNext]_(Flop!floppyVars)
  <2>1. UNCHANGED floppyVars => UNCHANGED Flop!floppyVars
    BY DEF floppyVars, Flop!floppyVars, Flop!fdcVars, Flop!motorVars, Flop!tryVars, Flop!resultVars
  <2>2. [DevicesNext]_devicesVars => Flop!FloppyNext \/ UNCHANGED floppyVars
    BY DEF DevicesNext, devicesVars, restVars
  <2> QED BY <2>1, <2>2
<1> QED BY <1>1, <1>2, <1>3, PTL DEF DevicesSpec, TransferSpec, ClockSpec, Flop!FloppySpec
=============================================================================
