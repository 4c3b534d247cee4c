------------------------------- MODULE TimeText -------------------------------
(***************************************************************************)
(* The text ArgFormatter writes for one specification of a std::tm, a      *)
(* record with the members of std::tm.  A text is a sequence of strings:    *)
(* digits and signs are one character, letter i of the name of month 4 is   *)
(* "month 4.i".  In the code each Format... operator here appends to buffer *)
(* at valueSize; its Write... twin does the same and flushes the buffer.    *)
(***************************************************************************)
EXTENDS Integers, Sequences, TLC

CONSTANTS
    UtcOffsetHours,    \* the whole hours of serenity::globals::UtcOffset()
    TZAbbrev           \* the name of the zone, a text

ASSUME UtcOffsetHoursAssumption == UtcOffsetHours \in -14 .. 14
ASSUME TZAbbrevAssumption == TZAbbrev \in Seq(STRING)

CharOf(n) ==
    IF n \in 0 .. 9 THEN <<"0", "1", "2", "3", "4", "5", "6", "7", "8", "9">>[n + 1]
    ELSE "char " \o ToString(n)
Letters(name, n) == [i \in 1 .. n |-> name \o "." \o ToString(i)]

MonthLength == <<7, 8, 5, 5, 3, 4, 4, 6, 9, 7, 8, 8>>
WeekdayLength == <<6, 6, 7, 9, 8, 6, 8>>

\* The tables short_months and short_weekdays; behind the last month lies other memory.
FormatShortMonth(mon) ==
    IF mon \in 0 .. 11 THEN Letters("month " \o ToString(mon), 3) ELSE Letters("past", 3)
FormatShortWeekday(wday) == Letters("weekday " \o ToString(wday), 3)
FormatLongWeekday(wday) == Letters("weekday " \o ToString(wday), WeekdayLength[wday + 1])
FormatLongMonth(mon) == Letters("month " \o ToString(mon), MonthLength[mon + 1])

\* Faulty variant: nine and ten change sides.
TwoDigitLate(val) == <<IF val > 10 THEN CharOf(val \div 10) ELSE "0", CharOf(val % 10)>>

TwoDigitToBuff(val) == <<IF val > 9 THEN CharOf(val \div 10) ELSE "0", CharOf(val % 10)>>
FormatSpacePaddedDay(day) == <<IF day > 9 THEN CharOf(day \div 10) ELSE " ", CharOf(day % 10)>>

FormatDayOfYear(yday) ==
    LET day == yday + 1 IN
    <<IF day > 99 THEN CharOf(day \div 100) ELSE "0",
      IF day > 99 THEN CharOf((day \div 10) % 10) ELSE IF day > 9 THEN CharOf(day \div 10) ELSE "0",
      CharOf(day % 10)>>

\* C++ divides towards zero.
Quotient(n, d) == IF n < 0 THEN -((-n) \div d) ELSE n \div d
Remainder(n, d) == IF n < 0 THEN -((-n) % d) ELSE n % d
FormatShortYear(year) ==
    LET y == Remainder(year, 100) IN <<CharOf(Quotient(y, 10)), CharOf(Remainder(y, 10))>>
FormatLongYear(year) ==
    LET y == year + 1900 IN
    <<CharOf(y \div 1000), CharOf((y \div 100) % 10),
      CharOf((y % 100) \div 10), CharOf((y % 100) % 10)>>
FormatTruncatedYear(year) ==
    LET y == (year + 1900) \div 100 IN <<CharOf(y \div 10), CharOf(y % 10)>>

FormatAMPM(hour) == <<IF hour >= 12 THEN "P" ELSE "A", "M">>
FormatWeekdayDec(wday) == <<CharOf(wday)>>
FormatIsoWeekDec(wday) == <<CharOf(IF wday # 0 THEN wday ELSE 7)>>

Format24HM(hour, min) == TwoDigitToBuff(hour) \o <<":">> \o TwoDigitToBuff(min)

\* With a precision, a point and as many digits of the time since the epoch.
FormatSubseconds(precision) == <<".">> \o Letters("epoch", precision)

Format24HourTime(hour, min, sec, precision) ==
    Format24HM(hour, min) \o <<":">> \o TwoDigitToBuff(sec)
    \o (IF precision = 0 THEN <<>> ELSE FormatSubseconds(precision))

TwelveHour(hour) == IF hour > 12 THEN hour - 12 ELSE hour
Format12HourTime(hour, min, sec, precision) ==
    Format24HourTime(TwelveHour(hour), min, sec, precision) \o FormatAMPM(hour)

FormatTimeDate(tm) ==
    FormatShortWeekday(tm.wday) \o <<" ">> \o FormatShortMonth(tm.mon) \o <<" ">>
    \o TwoDigitToBuff(tm.mday) \o <<" ">> \o Format24HourTime(tm.hour, tm.min, tm.sec, 0)
    \o <<" ">> \o FormatLongYear(tm.year)

FormatMMDDYY(mon, mday, year) ==
    FormatShortMonth(mon + 1) \o <<"/">> \o TwoDigitToBuff(mday) \o <<"/">> \o FormatShortYear(year)
FormatYYYYMMDD(year, mon, mday) ==
    FormatLongYear(year + 1900) \o <<"-">> \o FormatShortMonth(mon + 1) \o <<"-">>
    \o TwoDigitToBuff(mday)

\* The minutes are a sixth of the hours, which the code cuts from hours * 0.166.
FormatUtcOffset ==
    LET hours == IF UtcOffsetHours < 0 THEN -UtcOffsetHours ELSE UtcOffsetHours IN
    <<IF UtcOffsetHours >= 0 THEN "+" ELSE "-">> \o Format24HM(hours, (hours * 166) \div 1000)

-----------------------------------------------------------------------------
WeeksOf(year) ==
    LET leaps(y) == Quotient(y, 4) - Quotient(y, 100) - Quotient(y, 400)
    IN IF leaps(year) = 4 \/ leaps(year - 1) = 3 THEN 53 ELSE 52
WeekOf(yday, wday) == (10 + yday - wday) \div 7
MondayWeek(yday, wday) == (yday + 7 - (IF wday = 0 THEN 6 ELSE wday - 1)) \div 7

IsoYear(year, yday, wday) ==
    IF WeekOf(yday, wday) < 1 THEN year - 1
    ELSE IF WeekOf(yday, wday) > WeeksOf(year + 1900) THEN year + 1 ELSE year

FormatIsoWeekNumber(year, yday, wday) ==
    IF WeekOf(yday, wday) < 1 THEN TwoDigitToBuff(WeeksOf(year - 1))
    ELSE IF WeekOf(yday, wday) > WeeksOf(year) THEN <<CharOf(-47)>>
         ELSE TwoDigitToBuff(WeekOf(yday, wday))

-----------------------------------------------------------------------------
(* What FormatCTime appends for one character of the specification.         *)
SpecText(char, tm, precision) ==
    CASE char = "a" -> FormatShortWeekday(tm.wday)
      [] char \in {"b", "h"} -> FormatShortMonth(tm.mon)
      [] char = "c" -> FormatTimeDate(tm)
      [] char = "d" -> TwoDigitToBuff(tm.mday)
      [] char = "e" -> FormatSpacePaddedDay(tm.mday)
      [] char = "g" -> FormatShortYear(IsoYear(tm.year, tm.yday, tm.wday))
      [] char = "j" -> FormatDayOfYear(tm.yday)
      [] char = "m" -> TwoDigitToBuff(tm.mon + 1)
      [] char = "p" -> FormatAMPM(tm.hour)
      [] char = "r" -> Format12HourTime(tm.hour, tm.min, tm.sec, precision)
      [] char = "w" -> FormatWeekdayDec(tm.wday)
      [] char = "u" -> FormatIsoWeekDec(tm.wday)
      [] char \in {"D", "x"} -> FormatMMDDYY(tm.mon, tm.mday, tm.year)
      [] char = "y" -> FormatShortYear(tm.year)
      [] char = "z" -> FormatUtcOffset
      [] char = "A" -> FormatLongWeekday(tm.wday)
      [] char = "B" -> FormatLongMonth(tm.mon)
      [] char = "C" -> FormatTruncatedYear(tm.year)
      [] char = "F" -> FormatYYYYMMDD(tm.year, tm.mon, tm.mday)
      [] char = "G" -> FormatLongYear(IsoYear(tm.year, tm.yday, tm.wday))
      [] char = "H" -> TwoDigitToBuff(tm.hour)
      [] char = "I" -> TwoDigitToBuff(TwelveHour(tm.hour))
      [] char = "M" -> TwoDigitToBuff(tm.min)
      [] char = "R" -> Format24HM(tm.hour, tm.min)
      [] char = "S" -> TwoDigitToBuff(tm.sec)
      [] char \in {"T", "X"} -> Format24HourTime(tm.hour, tm.min, tm.sec, precision)
      [] char = "U" -> TwoDigitToBuff(WeekOf(tm.yday, tm.wday))
      [] char = "V" -> FormatIsoWeekNumber(tm.year, tm.yday, tm.wday)
      [] char = "W" -> TwoDigitToBuff(MondayWeek(tm.yday, tm.wday))
      [] char = "Y" -> FormatLongYear(tm.year)
      [] char = "Z" -> TZAbbrev
      [] OTHER -> <<char>>

(* The single specification of WriteSimpleCTime differs in r: Write12HourTime
   leaves AM and PM out.                                                     *)
SimpleText(char, tm) ==
    IF char = "r" THEN Format24HourTime(TwelveHour(tm.hour), tm.min, tm.sec, 0)
    ELSE SpecText(char, tm, 0)

Specs == {"a", "b", "c", "d", "e", "g", "h", "j", "m", "p", "r", "u", "w", "x", "y", "z", "A", "B",
          "C", "D", "F", "G", "H", "I", "M", "R", "S", "T", "U", "V", "W", "X", "Y", "Z"}
=============================================================================
