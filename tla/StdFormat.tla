------------------------------ MODULE StdFormat ------------------------------
(***************************************************************************)
(* What std::format promises, the reference of tests/FormattingArgsTest.cpp *)
(* and of the class comment of ArgFormatter.  A format string is given by   *)
(* its structure: a sequence of items that are a character of text, a field *)
(* or (raw) characters that are no well-formed field.  Render writes it     *)
(* down, Meaning is the text std::format makes of it and the arguments.     *)
(***************************************************************************)
EXTENDS FieldText

Automatic == -1           \* the index of a field that names no position

Text(char) == [char |-> char]
Raw(chars) == [raw |-> chars]
\* {} or {index}
Plain(index) == [index |-> index]
\* {index:spec}
WithSpec(index, spec) == [index |-> index, spec |-> spec]

IsText(item) == "char" \in DOMAIN item
IsRaw(item) == "raw" \in DOMAIN item
IsField(item) == "index" \in DOMAIN item
HasSpec(item) == "spec" \in DOMAIN item

NoItemSpec == [fill |-> "", align |-> "", sign |-> "", alt |-> FALSE, zero |-> FALSE, width |-> 0,
               precision |-> 0, localize |-> FALSE, type |-> "", times |-> <<>>]

\* What calls are made of.  A text has no brackets; Raw is for anything else.
Char == STRING \ {"", NoChar, Past, Nul}
ItemSpecs ==
    [fill : Char \union {""}, align : {"", "<", ">", "^"}, sign : {"", "+", "-", " "}, alt : BOOLEAN,
     zero : BOOLEAN, width : Nat, precision : Nat, localize : BOOLEAN, type : STRING, times : Seq(STRING)]
Positions == Nat \union {Automatic}
Items == [char : Char \ {"{", "}"}] \union [raw : Seq(STRING)]
         \union [index : Positions] \union [index : Positions, spec : ItemSpecs]
\* Years have four digits.
Times == [year : -900 .. 8099, mon : 0 .. 11, mday : 1 .. 31, wday : 0 .. 6, yday : 0 .. 365,
          hour : 0 .. 23, min : 0 .. 59, sec : 0 .. 60]
Arguments ==
    [type : {"int"}, n : Int] \union [type : {"pointer"}, n : Nat]
    \union [type : {"float"}, neg : BOOLEAN, whole : Nat \ {0}, fraction : Nat, nibbles : Nat, power : Nat]
    \union [type : {"bool"}, b : BOOLEAN] \union [type : {"char"}, char : Char, code : Nat]
    \union [type : Texts, text : Seq(Char)] \union [type : {"time"}, tm : Times] \union [type : {"custom"}]

Optional(char) == IF char = "" THEN <<>> ELSE <<char>>
OptionalIf(condition, chars) == IF condition THEN chars ELSE <<>>

RenderSpec(spec) ==
    Optional(spec.fill) \o Optional(spec.align) \o Optional(spec.sign)
    \o OptionalIf(spec.alt, <<"#">>) \o OptionalIf(spec.zero, <<"0">>)
    \o OptionalIf(spec.width # 0, ToChars(spec.width, 10))
    \o OptionalIf(spec.precision # 0, <<".">> \o ToChars(spec.precision, 10))
    \o OptionalIf(spec.localize, <<"L">>) \o Optional(spec.type)
    \o FlattenSeq([i \in 1 .. Len(spec.times) |-> <<"%", spec.times[i]>>])

RenderItem(item) ==
    IF IsText(item) THEN <<item.char>>
    ELSE IF IsRaw(item) THEN item.raw
    ELSE <<"{">> \o OptionalIf(item.index # Automatic, ToChars(item.index, 10))
         \o OptionalIf(HasSpec(item), <<":">> \o RenderSpec(item.spec)) \o <<"}">>

Render(items) == FlattenSeq([i \in 1 .. Len(items) |-> RenderItem(items[i])])

-----------------------------------------------------------------------------
Grouped(digits, k) ==
    LET n == Len(digits) IN
    FlattenSeq([i \in 1 .. n |->
        IF i < n /\ (n - i) % k = 0 THEN <<digits[i], Separator>> ELSE <<digits[i]>>])

SignText(spec, negative) ==
    IF negative THEN <<"-">> ELSE IF spec.sign \in {"+", " "} THEN <<spec.sign>> ELSE <<>>

Padded(spec, text, align) ==
    LET missing == IF spec.width > Len(text) THEN spec.width - Len(text) ELSE 0
        fill == IF spec.fill = "" THEN " " ELSE spec.fill
        before == CASE align = "<" -> 0 [] align = ">" -> missing [] OTHER -> missing \div 2
    IN Filled(fill, before) \o text \o Filled(fill, missing - before)

AlignOr(spec, default) == IF spec.align = "" THEN default ELSE spec.align

IntMeaning(spec, n) ==
    LET base == BaseOf(spec.type)
        digits == ToChars(IF n < 0 THEN -n ELSE n, base)
        shown == IF spec.type = "X" THEN BufferToUpper(digits) ELSE digits
        prefix == IF ~spec.alt THEN <<>>
                  ELSE CASE spec.type \in {"b", "B", "x", "X"} -> <<"0", spec.type>>
                         [] spec.type = "o" /\ n # 0 -> <<"0">>
                         [] OTHER -> <<>>
        head == SignText(spec, n < 0) \o prefix
        body == IF spec.localize THEN Grouped(shown, Grouping[1]) ELSE shown
        zeros == IF spec.zero /\ spec.align = "" /\ spec.width > Len(head) + Len(body)
                 THEN Filled("0", spec.width - Len(head) - Len(body)) ELSE <<>>
    IN Padded(spec, head \o zeros \o body, AlignOr(spec, ">"))

FloatNotation(spec) ==
    CASE spec.type \in {"a", "A"} -> "p"
      [] spec.type \in {"e", "f", "g"} -> spec.type
      [] spec.type = "E" -> "e" [] spec.type = "F" -> "f" [] spec.type = "G" -> "g"
      [] OTHER -> IF spec.precision = 0 THEN "s" ELSE "g"
FloatPrecision(spec) ==
    IF spec.precision = 0 /\ FloatNotation(spec) \in {"e", "f", "g"} THEN 6 ELSE spec.precision
FloatShape(spec, value) == FloatParts(value, FloatNotation(spec), FloatPrecision(spec))
FloatUpper(spec) == spec.type \in {"A", "E", "F", "G"}

\* The decimal point of the locale.
Pointed(text) == [i \in 1 .. Len(text) |-> IF text[i] = "." THEN Point ELSE text[i]]

FloatMeaning(spec, value) ==
    LET parts == FloatShape(spec, value)
        digits == IF spec.localize THEN Grouped(WholeDigits(parts), Grouping[1]) \o Pointed(Fraction(parts))
                  ELSE WholeDigits(parts) \o Fraction(parts)
        text == SignText(spec, value.neg) \o digits
    IN Padded(spec, IF FloatUpper(spec) THEN BufferToUpper(text) ELSE text, AlignOr(spec, ">"))

TextMeaning(spec, text) ==
    Padded(spec, IF spec.precision # 0 /\ spec.precision < Len(text)
                 THEN SubSeq(text, 1, spec.precision) ELSE text, AlignOr(spec, "<"))

-----------------------------------------------------------------------------
(* std::put_time in the C locale, for the specifications of one field.      *)
Two(n) == <<CharOf(n \div 10), CharOf(n % 10)>>
Clock(h, m) == Two(h) \o <<":">> \o Two(m)
YearOf(tm) == tm.year + 1900
IsLeap(y) == y % 4 = 0 /\ (y % 100 # 0 \/ y % 400 = 0)

\* Weeks that begin on the given weekday; days before the first are in week 0.
WeekNumber(tm, begin) == (tm.yday + 7 - ((tm.wday - begin + 7) % 7)) \div 7

\* The week of an ISO year is the one its Thursday lies in.
Thursday(tm) == tm.yday - ((tm.wday + 6) % 7) + 3
DaysIn(y) == IF IsLeap(y) THEN 366 ELSE 365
IsoYearOf(tm) == CASE Thursday(tm) < 0 -> YearOf(tm) - 1
                   [] Thursday(tm) >= DaysIn(YearOf(tm)) -> YearOf(tm) + 1
                   [] OTHER -> YearOf(tm)
IsoWeekOf(tm) ==
    LET day == CASE Thursday(tm) < 0 -> Thursday(tm) + DaysIn(YearOf(tm) - 1)
                 [] Thursday(tm) >= DaysIn(YearOf(tm)) -> Thursday(tm) - DaysIn(YearOf(tm))
                 [] OTHER -> Thursday(tm)
    IN day \div 7 + 1

Hour12(h) == IF h % 12 = 0 THEN 12 ELSE h % 12
Name(kind, n, length) == Letters(kind \o ToString(n), length)

SpacedDay(tm) == IF tm.mday < 10 THEN <<" ", CharOf(tm.mday)>> ELSE Two(tm.mday)

TimeMeaning(char, tm) ==
    CASE char = "a" -> Name("weekday ", tm.wday, 3)
      [] char = "A" -> Name("weekday ", tm.wday, WeekdayLength[tm.wday + 1])
      [] char \in {"b", "h"} -> Name("month ", tm.mon, 3)
      [] char = "B" -> Name("month ", tm.mon, MonthLength[tm.mon + 1])
      [] char = "c" -> Name("weekday ", tm.wday, 3) \o <<" ">> \o Name("month ", tm.mon, 3) \o <<" ">>
                       \o SpacedDay(tm) \o <<" ">> \o Clock(tm.hour, tm.min) \o <<":">> \o Two(tm.sec)
                       \o <<" ">> \o Two(YearOf(tm) \div 100) \o Two(YearOf(tm) % 100)
      [] char = "d" -> Two(tm.mday)
      [] char = "e" -> SpacedDay(tm)
      [] char = "j" -> <<CharOf((tm.yday + 1) \div 100)>> \o Two((tm.yday + 1) % 100)
      [] char = "m" -> Two(tm.mon + 1)
      [] char = "p" -> <<IF tm.hour < 12 THEN "A" ELSE "P", "M">>
      [] char = "u" -> <<CharOf(((tm.wday + 6) % 7) + 1)>>
      [] char = "w" -> <<CharOf(tm.wday)>>
      [] char \in {"D", "x"} -> Two(tm.mon + 1) \o <<"/">> \o Two(tm.mday) \o <<"/">> \o Two(YearOf(tm) % 100)
      [] char = "F" -> Two(YearOf(tm) \div 100) \o Two(YearOf(tm) % 100) \o <<"-">> \o Two(tm.mon + 1)
                       \o <<"-">> \o Two(tm.mday)
      [] char = "y" -> Two(YearOf(tm) % 100)
      [] char = "Y" -> Two(YearOf(tm) \div 100) \o Two(YearOf(tm) % 100)
      [] char = "C" -> Two(YearOf(tm) \div 100)
      [] char = "g" -> Two(IsoYearOf(tm) % 100)
      [] char = "G" -> Two(IsoYearOf(tm) \div 100) \o Two(IsoYearOf(tm) % 100)
      [] char = "H" -> Two(tm.hour)
      [] char = "I" -> Two(Hour12(tm.hour))
      [] char = "M" -> Two(tm.min)
      [] char = "S" -> Two(tm.sec)
      [] char = "R" -> Clock(tm.hour, tm.min)
      [] char \in {"T", "X"} -> Clock(tm.hour, tm.min) \o <<":">> \o Two(tm.sec)
      [] char = "r" -> Clock(Hour12(tm.hour), tm.min) \o <<":">> \o Two(tm.sec)
                       \o <<" ", IF tm.hour < 12 THEN "A" ELSE "P", "M">>
      [] char = "U" -> Two(WeekNumber(tm, 0))
      [] char = "W" -> Two(WeekNumber(tm, 1))
      [] char = "V" -> Two(IsoWeekOf(tm))
      [] char = "z" -> <<IF UtcOffsetHours < 0 THEN "-" ELSE "+">>
                       \o Two(IF UtcOffsetHours < 0 THEN -UtcOffsetHours ELSE UtcOffsetHours) \o <<"0", "0">>
      [] char = "Z" -> TZAbbrev
      [] char = "n" -> <<"newline">>
      [] char = "t" -> <<"tab">>
      [] OTHER -> <<char>>

TimesMeaning(times, tm) == FlattenSeq([i \in 1 .. Len(times) |-> TimeMeaning(times[i], tm)])

FieldMeaning(spec, arg) ==
    CASE arg.type = "int" -> IntMeaning(spec, arg.n)
      [] arg.type = "float" -> FloatMeaning(spec, arg)
      [] arg.type = "bool" -> IF spec.type \in {"", "s"} THEN TextMeaning(spec, BoolText(arg.b))
                              ELSE IntMeaning(spec, IF arg.b THEN 1 ELSE 0)
      [] arg.type = "char" -> IF spec.type \in {"", "c"} THEN TextMeaning(spec, <<arg.char>>)
                              ELSE IntMeaning(spec, arg.code)
      [] arg.type = "pointer" -> Padded(spec, PointerText(arg.n), AlignOr(spec, ">"))
      [] arg.type \in Texts -> TextMeaning(spec, arg.text)
      [] arg.type = "time" -> Padded(spec, TimesMeaning(spec.times, arg.tm), AlignOr(spec, "<"))

\* The argument of item i: its position, or the number of fields before it.
ArgumentOf(items, i) ==
    IF items[i].index # Automatic THEN items[i].index
    ELSE Cardinality({k \in 1 .. i - 1 : IsField(items[k])})

Meaning(items, args) ==
    FlattenSeq([i \in 1 .. Len(items) |->
        IF IsText(items[i]) THEN <<items[i].char>>
        ELSE FieldMeaning(IF HasSpec(items[i]) THEN items[i].spec ELSE NoItemSpec,
                          args[ArgumentOf(items, i) + 1])])

IntegerTypes == {"b", "B", "d", "o", "x", "X"}

\* The specifications std::format has for a type.
ValidSpec(spec, type) ==
    LET numeric == \/ type \in Numbers
                   \/ type \in {"bool", "char"} /\ spec.type \in IntegerTypes
    IN /\ spec.fill = "" \/ (spec.align # "" /\ spec.fill \notin {"{", "}"})
       /\ numeric \/ (spec.sign = "" /\ ~spec.alt /\ ~spec.zero)
       /\ spec.precision = 0 \/ type \in Texts \union {"float"}
       /\ ~spec.localize \/ type \in Numbers \union {"bool", "time"}
       /\ (spec.times # <<>>) = (type = "time")
       /\ Range(spec.times) \subseteq Specs \union {"n", "t", "%"}
       /\ spec.type \in {""} \union
              CASE type = "int" -> IntegerTypes \union {"c"}
                [] type = "float" -> {"a", "A", "e", "E", "f", "F", "g", "G"}
                [] type = "bool" -> IntegerTypes \union {"s"}
                [] type = "char" -> IntegerTypes \union {"c"}
                [] type \in Texts -> {"s"}
                [] type = "pointer" -> {"p"}
                [] OTHER -> {}

(* A call std::format accepts: fields all automatic or all with a position,
   and an argument for each.                                                *)
WellFormed(items, args) ==
    LET fields == {i \in 1 .. Len(items) : IsField(items[i])} IN
    /\ \A i \in 1 .. Len(items) : ~IsRaw(items[i])
    /\ \A i \in fields :
           /\ ArgumentOf(items, i) < Len(args)
           /\ LET type == args[ArgumentOf(items, i) + 1].type IN
              /\ type # "custom"
              /\ IF HasSpec(items[i]) THEN ValidSpec(items[i].spec, type) ELSE type # "time"
    /\ \/ \A i \in fields : items[i].index = Automatic
       \/ \A i \in fields : items[i].index # Automatic
=============================================================================
