----------------------------- MODULE TimeFields -----------------------------
(***************************************************************************)
(* The formatter classes of FormatterArgs.cpp.  A field of a pattern is an  *)
(* object of one of them, named for the letter of its flag: the value given *)
(* to its constructor, and for a class that caches, the key it remembers    *)
(* (a part of the time, or the level) and the text it made of it.  A text   *)
(* is a sequence of tokens, a number of two digits being one of them.       *)
(* info is what the references to Message_Info lead to: tm, level, name,    *)
(* message, source and zone.                                                *)
(***************************************************************************)
EXTENDS Integers, Sequences, TLC

short_weekdays == <<"Sun", "Mon", "Tue", "Wed", "Thu", "Fri", "Sat">>
long_weekdays == <<"Sunday", "Monday", "Tuesday", "Wednesday", "Thursday", "Friday", "Saturday">>
short_months == <<"Jan", "Feb", "Mar", "Apr", "May", "Jun", "Jul", "Aug", "Sep", "Oct", "Nov", "Dec">>
long_months == <<"January", "February", "March", "April", "May", "June", "July", "August",
                 "September", "October", "November", "December">>
LevelToShortView == <<"T", "I", "D", "W", "E", "F", "">>
LevelToLongView == <<"Trace", "Info", "Debug", "Warn", "Error", "Fatal", "">>

\* The table has a hundred entries, and other memory behind them.
numberStr(n) == IF n \in 0 .. 99 THEN ToString(n) ELSE "past"
ShortYear(year) == numberStr(year - 100)
LongYear(year) == ToString(1900 + year)
Hour12(hour) == IF hour > 12 THEN numberStr(hour - 12) ELSE numberStr(hour)

-----------------------------------------------------------------------------
\* Text that depends on nothing but the key.
KeyText(class, key) ==
    CASE class = "a" -> <<short_weekdays[key + 1]>>
      [] class = "A" -> <<long_weekdays[key + 1]>>
      [] class = "b" -> <<short_months[key + 1]>>
      [] class = "B" -> <<long_months[key + 1]>>
      [] class \in {"d", "m", "H", "M", "S"} -> <<numberStr(key)>>
      [] class = "I" -> <<Hour12(key)>>
      [] class = "p" -> <<IF key >= 12 THEN "PM" ELSE "AM">>
      [] class = "w" -> <<"0", ToString(key), "nul">>     \* all three characters of buff
      [] class = "y" -> <<ShortYear(key)>>
      [] class = "Y" -> <<IF key # 0 THEN ShortYear(key) ELSE LongYear(key)>>
      [] class = "C" -> <<numberStr(key % 100)>>
      [] class = "l" -> <<LevelToShortView[key + 1]>>
      [] class = "L" -> <<LevelToLongView[key + 1]>>
      [] class = "T" -> <<numberStr(key[1]), ":", numberStr(key[2])>>

DayText(class, tm) ==
    CASE class = "n" -> <<numberStr(tm.mday), short_months[tm.mon + 1], ShortYear(tm.year)>>
      [] class = "D" -> <<numberStr(tm.mon + 1), "/", numberStr(tm.mday), "/", ShortYear(tm.year)>>
      [] class = "F" -> <<LongYear(tm.year), "-", numberStr(tm.mon + 1), "-", numberStr(tm.mday)>>

KeyClasses == {"a", "A", "b", "B", "d", "m", "H", "M", "S", "I", "p", "w", "y", "Y", "C", "l", "L", "T"}
DayClasses == {"n", "D", "F"}
Cached == KeyClasses \union DayClasses

\* What a class compares with the key it has remembered.
Compared(class, info) ==
    CASE class \in {"a", "A", "w", "b"} -> info.tm.wday
      [] class \in {"m", "B"} -> info.tm.mon
      [] class \in {"d", "n", "D", "F"} -> info.tm.mday
      [] class \in {"H", "I", "p"} -> info.tm.hour
      [] class = "M" -> info.tm.min
      [] class = "S" -> info.tm.sec
      [] class \in {"y", "Y", "C"} -> info.tm.year
      [] class \in {"l", "L"} -> info.level
      [] class = "T" -> <<info.tm.hour, info.tm.min>>

\* What it remembers: %b compares the month with the weekday, %m with the next month.
Remembered(class, info) ==
    CASE class = "b" -> info.tm.mon
      [] class = "m" -> info.tm.mon + 1
      [] OTHER -> Compared(class, info)

\* Faulty variant: the key is not brought up to date with the text.
UpdateTextOnly(f, info) ==
    [f EXCEPT !.text = IF f.class \in DayClasses THEN DayText(f.class, info.tm)
                       ELSE KeyText(f.class, Remembered(f.class, info))]

UpdateInternalView(f, info) ==
    LET key == Remembered(f.class, info) IN
    [f EXCEPT !.key = key,
              !.text = IF f.class \in DayClasses THEN DayText(f.class, info.tm)
                       ELSE KeyText(f.class, key)]

-----------------------------------------------------------------------------
(* %r keeps hour and minute, two empty views until the minute is another
   than the last one, which starts as 0.                                     *)
UpdateTwelveHour(f, info) ==
    IF info.tm.min = f.key THEN f
    ELSE [f EXCEPT !.key = info.tm.min, !.text = <<Hour12(info.tm.hour), numberStr(info.tm.min)>>]

Field(class, value) == [class |-> class, value |-> value, key |-> 0, text |-> <<>>]

Construct(class, value, info) ==
    LET f == Field(class, value) IN
    CASE class = "b" -> [f EXCEPT !.key = info.tm.mon]
      [] class = "T" -> [f EXCEPT !.key = <<info.tm.hour, info.tm.min>>,
                                  !.text = KeyText("T", <<info.tm.hour, info.tm.min>>) \o <<":">>]
      [] class = "r" -> UpdateTwelveHour([f EXCEPT !.text = <<"", "">>], info)
      [] class = "Z" -> [f EXCEPT !.text = <<info.zone.abbrev>>]
      [] class = "char" -> [f EXCEPT !.text = value]
      [] class \in Cached \ {"b", "T"} -> UpdateInternalView(f, info)
      [] OTHER -> f

\* Faulty variant: %L and %p are formatted once and for all.
AfterKept(f, info) ==
    CASE f.class \in Cached ->
             IF Compared(f.class, info) = f.key \/ f.class \in {"L", "p"} THEN f
             ELSE UpdateInternalView(f, info)
      [] f.class = "r" -> UpdateTwelveHour(f, info)
      [] f.class = "z" -> [f EXCEPT !.key = info.tm.min]
      [] OTHER -> f

\* The object after a line was formatted with it.
After(f, info) ==
    CASE f.class \in Cached ->
             IF Compared(f.class, info) = f.key THEN f ELSE UpdateInternalView(f, info)
      [] f.class = "r" -> UpdateTwelveHour(f, info)
      [] f.class = "z" -> [f EXCEPT !.key = info.tm.min]
      [] OTHER -> f

SourceText(spec, source) ==
    LET line == source.line  column == source.column  file == source.file
        function == source.function
    IN CASE spec = {} -> <<>>
         [] spec = {"line"} -> <<line>>
         [] spec = {"column"} -> <<column>>
         [] spec = {"line", "column"} -> <<line, ":", column>>
         [] spec = {"file"} -> <<file>>
         [] spec = {"file", "line"} -> <<file, " ", line>>
         [] spec = {"file", "line", "column"} -> <<file, "(", line, ":", column, ")">>
         [] spec = {"function"} -> <<function>>
         [] spec = {"function", "line"} -> <<function, " ", line>>
         [] spec = {"function", "line", "column"} -> <<function, line, ":", column, ")">>
         [] spec = {"function", "file"} -> <<file, " ", function>>
         [] OTHER -> <<"[ ", file, "(", line, ":", column, ") ", function, " ]">>

\* The offset is left out of every line but the first of a minute.
OffsetText(f, info) ==
    LET hours == info.zone.hours
        size == IF hours < 0 THEN -hours ELSE hours
    IN IF info.tm.min = f.key THEN <<>>
       ELSE <<IF hours >= 0 THEN "+" ELSE "-", numberStr(size), ":", numberStr(size \div 60)>>

\* FormatUserPattern: what the object adds to a line.
Shown(f, info) ==
    LET tm == info.tm  now == After(f, info) IN
    CASE f.class = "T" -> now.text \o <<numberStr(tm.sec)>>
      [] f.class \in (Cached \ {"T"}) \union {"Z", "char"} -> now.text
      [] f.class = "r" -> <<now.text[1], ":", now.text[2], ":", numberStr(tm.sec), " ",
                            IF tm.hour >= 12 THEN "pm" ELSE "am">>
      [] f.class = "c" -> <<short_weekdays[tm.wday + 1], " ", short_months[tm.mon + 1], " ",
                            numberStr(tm.mday), " ", numberStr(tm.hour), ":", numberStr(tm.min), ":",
                            numberStr(tm.sec), " ", LongYear(tm.year)>>
      [] f.class = "R" -> <<numberStr(tm.hour), ":", numberStr(tm.min)>>
      [] f.class = "z" -> OffsetText(f, info)
      [] f.class = "e" -> <<"subsecond digits", ToString(f.value)>>
      [] f.class = "t" -> <<"thread id digits", ToString(IF f.value = 0 THEN 10 ELSE f.value)>>
      [] f.class = "s" -> SourceText(f.value, info.source)
      [] f.class = "N" -> <<info.name>>
      [] f.class = "+" -> info.message
=============================================================================
