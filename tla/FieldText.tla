------------------------------ MODULE FieldText ------------------------------
(***************************************************************************)
(* How ArgFormatter turns one argument and its specification into text.  A *)
(* buffer is a record of the characters in the member buffer and valueSize; *)
(* the operators answer the buffer they leave.  An argument is a record of  *)
(* its type and its value: n for int and pointer (the integer types differ  *)
(* only in their range), char and its code for char, b for bool, text for   *)
(* string and cstring, tm for time.  A float is its sign neg, the number of *)
(* digits before (whole) and behind (fraction) its point, of its digits     *)
(* behind the point in base 16 (nibbles) and of its binary exponent (power). *)
(***************************************************************************)
EXTENDS TimeText, SpecParser, SequencesExt

CONSTANTS
    Grouping,      \* std::numpunct::grouping() of the locale
    PlainLocale    \* whether the locale is one LocalizeCTime leaves to FormatCTime

ASSUME GroupingAssumption ==
    /\ Len(Grouping) \in 1 .. 3
    /\ \A i \in 1 .. Len(Grouping) : Grouping[i] \in Nat \ {0}

Nul == "nul"
Separator == ","
Point == ";"       \* decimal_point() of the locale
BufferSize == 66   \* SERENITY_ARG_BUFFER_SIZE
EmptyBuffer == [text |-> <<>>, size |-> 0]

\* The first n characters of a text, zeros behind its end.
Prefix(text, n) == [i \in 1 .. n |-> IF i <= Len(text) THEN text[i] ELSE Nul]
\* The same for a string_view, behind whose end lies other memory.
View(text, n) == [i \in 1 .. n |-> IF i <= Len(text) THEN text[i] ELSE Past]
Filled(char, n) == [i \in 1 .. n |-> char]
Over(old, new) == new \o SubSeq(old, Len(new) + 1, Len(old))

Whole(text) == [text |-> text, size |-> Len(text)]
\* Nothing is left to rely on once a text is longer than the buffer.
AppendText(b, new) ==
    LET text == Prefix(b.text, b.size) \o new IN
    IF Len(text) > BufferSize THEN Whole(Filled(Past, Len(text)))
    ELSE [text |-> Over(b.text, text), size |-> Len(text)]

-----------------------------------------------------------------------------
HexDigit == <<"0", "1", "2", "3", "4", "5", "6", "7", "8", "9", "a", "b", "c", "d", "e", "f">>

\* What is left of n without its last k digits.
Quotients(n, base) ==
    LET left[k \in 0 .. n + 1] == IF k = 0 THEN n ELSE left[k - 1] \div base IN left

\* std::to_chars for an integer.
ToChars(value, base) ==
    LET n == IF value < 0 THEN -value ELSE value
        left == Quotients(n, base)
        places == CHOOSE k \in 1 .. n + 1 : left[k] = 0 /\ \A j \in 1 .. k - 1 : left[j] # 0
    IN (IF value < 0 THEN <<"-">> ELSE <<>>)
       \o [i \in 1 .. places |-> HexDigit[(left[places - i] % base) + 1]]

(* std::to_chars for a float of at least 1 whose last digits, rounded or not,
   are no zeros.  A digit is a token for the side of the point it is on; the
   notations are p (hex), e, f, g, and s for the shortest.                   *)
FloatParts(value, notation, precision) ==
    LET all == value.whole + value.fraction
        places == IF precision < 0 THEN 6 ELSE precision
        fixed == \/ notation \in {"f", "s"}
                 \/ notation = "g" /\ value.whole <= (IF places = 0 THEN 6 ELSE places)
        whole == IF fixed THEN value.whole ELSE 1
    IN [whole |-> whole,
        fraction |-> CASE notation = "p" /\ places = 0 -> value.nibbles
                       [] notation = "g" /\ places # 0 -> (IF places < all THEN places ELSE all) - whole
                       [] notation \in {"e", "f", "p"} /\ places # 0 -> places
                       [] OTHER -> all - whole,
        exponent |-> IF fixed THEN <<>>
                     ELSE IF notation = "p" THEN <<"p", "+">> \o Filled("exponent", value.power)
                     ELSE <<"e", "+", "exponent", "exponent">>]
WholeDigits(parts) == Filled("digit", parts.whole)
Fraction(parts) ==
    (IF parts.fraction = 0 THEN <<>> ELSE <<".">> \o Filled("decimal", parts.fraction)) \o parts.exponent
FloatToChars(value, notation, precision) ==
    LET parts == FloatParts(value, notation, precision)
    IN (IF value.neg THEN <<"-">> ELSE <<>>) \o (WholeDigits(parts) \o Fraction(parts))

UpperOf == [c \in {"a", "b", "c", "d", "e", "f", "p", "x"} |->
    CASE c = "a" -> "A" [] c = "b" -> "B" [] c = "c" -> "C" [] c = "d" -> "D" [] c = "e" -> "E"
      [] c = "f" -> "F" [] c = "p" -> "P" [] OTHER -> "X"]
BufferToUpper(text) ==
    [i \in 1 .. Len(text) |-> IF text[i] \in DOMAIN UpperOf THEN UpperOf[text[i]] ELSE text[i]]

WriteSign(spec, negative) ==
    CASE spec.sign = "Plus" -> <<"+">>
      [] spec.sign = "Space" /\ ~negative -> <<" ">>
      [] OTHER -> <<>>

BaseOf(type) == CASE type \in {"b", "B"} -> 2 [] type = "o" -> 8
                  [] type \in {"x", "X"} -> 16 [] OTHER -> 10
SetIntegralFormat(spec) == [base |-> BaseOf(spec.type), upper |-> spec.type \in {"B", "X"}]

\* std::to_chars leaves nothing to rely on in a buffer that is too small.
FormatIntegerType(spec, value) ==
    LET format == SetIntegralFormat(spec)
        text == WriteSign(spec, value < 0) \o spec.pre \o ToChars(value, format.base)
    IN Whole(IF Len(text) > BufferSize THEN Filled(Past, BufferSize)
             ELSE IF format.upper THEN BufferToUpper(text) ELSE text)

\* Any other type leaves the std::chars_format without one of its values.
NotationOf(spec, precision) ==
    CASE spec.type \in {"a", "A"} -> "p"
      [] spec.type \in {"e", "E"} -> "e"
      [] spec.type \in {"f", "F"} -> "f"
      [] spec.type \in {"g", "G"} -> "g"
      [] spec.type = NoChar /\ spec.alt /\ precision = 0 -> "e"
      [] spec.type = NoChar /\ ~(spec.alt /\ precision = 0) ->
             IF ~spec.localize /\ spec.width = 0 /\ precision = 0 /\ spec.sign = "Empty"
             THEN "f" ELSE "g"
      [] OTHER -> "none"
SetFloatingFormat(spec, precision) ==
    [notation |-> NotationOf(spec, precision),
     precision |-> IF precision <= 0 /\ spec.type \in {"e", "E", "f", "F", "g", "G"} THEN 6
                   ELSE precision,
     upper |-> spec.type \in {"A", "E", "F", "G"}]

FormatFloatType(spec, value, precision) ==
    LET format == SetFloatingFormat(spec, precision)
        text == WriteSign(spec, value.neg)
                \o FloatToChars(value, format.notation, format.precision)
    IN Whole(IF format.notation = "none" \/ Len(text) > BufferSize THEN Filled(Past, BufferSize)
             ELSE IF format.upper THEN BufferToUpper(text) ELSE text)

BoolText(value) == IF value THEN <<"t", "r", "u", "e">> ELSE <<"f", "a", "l", "s", "e">>
WriteBool(b, value) ==
    [text |-> Over(b.text, BoolText(value)), size |-> Len(BoolText(value))]
FormatBoolType(spec, b, value) ==
    IF spec.type \notin {NoChar, "s"} THEN FormatIntegerType(spec, IF value THEN 1 ELSE 0)
    ELSE WriteBool(b, value)

WriteChar(b, value) == [text |-> Over(b.text, <<value.char>>), size |-> 1]
FormatCharType(spec, b, value) ==
    IF spec.type \notin {NoChar, "c"} THEN FormatIntegerType(spec, value.code)
    ELSE WriteChar(b, value)

PointerText(value) == <<"0", "x">> \o ToChars(value, 16)
FormatPointerType(b, value) ==
    [text |-> Over(b.text, PointerText(value)), size |-> Len(PointerText(value))]

FormatArgument(spec, b, arg, precision) ==
    CASE arg.type = "int" -> FormatIntegerType(spec, arg.n)
      [] arg.type = "float" -> FormatFloatType(spec, arg, precision)
      [] arg.type = "bool" -> FormatBoolType(spec, b, arg.b)
      [] arg.type = "char" -> FormatCharType(spec, b, arg)
      [] arg.type = "pointer" -> FormatPointerType(b, arg.n)
      [] OTHER -> b

-----------------------------------------------------------------------------
(* Grouping digits inside the buffer.  text holds 66 characters, left counts
   those not moved yet, space is where the next group ends.                  *)
MoveGroup(s, k) ==
    LET moved == [i \in 1 .. Len(s.text) |->
                      IF i \in s.space - k + 1 .. s.space THEN s.text[i - s.space + s.left]
                      ELSE s.text[i]]
    IN [s EXCEPT !.text = [moved EXCEPT ![s.space - k] = Separator],
                 !.space = @ - k - 1, !.left = @ - k]
MoveNext(s, k) == IF s.done \/ s.left <= k THEN [s EXCEPT !.done = TRUE] ELSE MoveGroup(s, k)
MoveRest(s, k, groups) ==
    LET after[i \in 0 .. groups] == IF i = 0 THEN s ELSE MoveNext(after[i - 1], k) IN after[groups]

GroupCount(n, k) == (n \div k) + (n % k)

(* The number of groups is n / k + n % k in the code, one too many when the
   leading group has two digits of three.                                    *)
FormatIntegralGrouping(b, end) ==
    LET first == Grouping[1]
        start(space) == [text |-> Prefix(b.text, BufferSize), left |-> end, space |-> space,
                         done |-> FALSE]
        fits(space) == space \in 1 .. BufferSize
        rest == b.size - first - (IF Len(Grouping) = 3 THEN Grouping[2] ELSE 0)
        last == Grouping[Len(Grouping)]
        groups == IF Len(Grouping) = 1 THEN GroupCount(b.size, first) ELSE GroupCount(rest, last)
        total == b.size + groups + Len(Grouping) - 2
        moved == CASE Len(Grouping) = 1 -> MoveRest(start(total), first, groups)
                   [] Len(Grouping) = 2 -> MoveRest(MoveGroup(start(total), first), last, groups)
                   [] OTHER -> MoveRest(MoveGroup(MoveGroup(start(total), first), Grouping[2]),
                                        last, groups)
    IN IF end <= first THEN b
       ELSE IF rest < 0 \/ ~fits(total) THEN Whole(<<Past>>)
       ELSE [text |-> moved.text, size |-> total]

LocalizeFloatingPoint(b) ==
    LET points == {i \in 1 .. b.size : b.text[i] = "."}
        at == Min(points)
        grouped == FormatIntegralGrouping(b, at - 1)
    IN IF points = {} THEN FormatIntegralGrouping(b, b.size)
       ELSE [grouped EXCEPT !.text = Over(@, Prefix(@, at - 1) \o <<Point>>)]

\* The view of a name whose string is gone when it is copied.
LocalizeBool(b, value) ==
    LET size == Len(BoolText(value)) IN [text |-> Over(b.text, Filled(Past, size)), size |-> size]

LocalizeArgument(spec, b, arg, precision) ==
    LET plain == FormatArgument(spec, b, arg, precision) IN
    CASE arg.type = "int" -> FormatIntegralGrouping(plain, plain.size)
      [] arg.type = "float" -> LocalizeFloatingPoint(plain)
      [] arg.type = "bool" -> LocalizeBool(b, arg.b)
      [] OTHER -> b

-----------------------------------------------------------------------------
(* Writing to the container: every operator answers what is written (out)
   and the buffer.                                                           *)
Written(out, b) == [out |-> out, buffer |-> b]
WriteBufferToContainer(b) == Written(Prefix(b.text, b.size), b)

\* The simple writers fill the buffer but leave valueSize as it was.
WriteSimpleValue(b, arg) ==
    LET digits(text) == Written(text, [b EXCEPT !.text = text]) IN
    CASE arg.type \in Texts -> Written(arg.text, b)
      [] arg.type = "int" -> digits(ToChars(arg.n, 10))
      [] arg.type = "float" -> digits(FloatToChars(arg, "s", 0))
      [] arg.type = "pointer" -> digits(PointerText(arg.n))
      [] arg.type = "bool" -> Written(BoolText(arg.b), b)
      [] arg.type = "char" -> Written(<<arg.char>>, b)
      [] OTHER -> Written(<<>>, b)

IsSimpleSubstitution(spec, type, precision) ==
    LET bare == ~spec.alt /\ spec.type = NoChar
        plain == bare /\ spec.sign = "Empty" /\ ~spec.localize
    IN CASE type \in Texts -> precision = 0
         [] type = "int" -> plain
         [] type = "float" -> plain /\ precision = 0
         [] type = "bool" -> ~spec.alt /\ spec.type \in {NoChar, "s"}
         [] type = "char" -> ~spec.alt /\ spec.type \in {NoChar, "c"}
         [] OTHER -> type = "pointer"

\* A buffer without an alignment (a time, no argument) is written itself where
\* the padding should be.
FormatAlignment(spec, b, width) ==
    LET fill == width - b.size
        value == Prefix(b.text, b.size)
    IN CASE width < 0 -> <<Past>>                   \* more than any valueSize, unsigned
         [] width >= 0 /\ fill <= 0 -> value
         [] fill > 0 /\ spec.align = "AlignLeft" -> value \o Filled(spec.fill, fill)
         [] fill > 0 /\ spec.align = "AlignRight" -> Filled(spec.fill, fill) \o value
         [] fill > 0 /\ spec.align = "AlignCenter" ->
                Filled(spec.fill, fill \div 2) \o value \o Filled(spec.fill, fill - fill \div 2)
         [] OTHER -> Prefix(b.text, fill)

\* For a text, precision cuts what is written but not what fill is counted from.
AlignText(spec, text, width, precision) ==
    LET size == Len(text)
        shown == IF precision = 0 \/ precision > size THEN size ELSE precision
        fill == width - size
        behind(n) == Filled(spec.fill, n) \o Prefix(text, shown)
                     \o Filled(spec.fill, width - n - shown)
    IN CASE fill <= 0 -> Prefix(text, shown)
         [] fill > 0 /\ spec.align = "AlignLeft" -> behind(0)
         [] fill > 0 /\ spec.align = "AlignRight" -> behind(fill)
         [] OTHER -> behind(fill \div 2)

PrecisionOf(spec, nested) == IF spec.precisionArg # 0 THEN nested[spec.precisionArg] ELSE spec.precision
WidthOf(spec, nested) == IF spec.widthArg # 0 THEN nested[spec.widthArg] ELSE spec.width

(* Format: nested[i] is int_state(i), the argument that a width or precision
   in brackets names; position 0 stands for none.                            *)
Format(spec, b, arg, nested) ==
    LET precision == PrecisionOf(spec, nested)
        width == WidthOf(spec, nested)
        formatted == IF spec.localize THEN LocalizeArgument(spec, b, arg, precision)
                     ELSE FormatArgument(spec, b, arg, precision)
    IN CASE width = 0 /\ IsSimpleSubstitution(spec, arg.type, precision) -> WriteSimpleValue(b, arg)
         [] width = 0 /\ ~IsSimpleSubstitution(spec, arg.type, precision) ->
                IF arg.type \in Texts THEN Written(View(arg.text, precision), b)
                ELSE WriteBufferToContainer(formatted)
         [] OTHER ->
                IF arg.type \in Texts
                THEN Written(AlignText(spec, arg.text, width, precision), b)
                ELSE Written(FormatAlignment(spec, formatted, width), formatted)

-----------------------------------------------------------------------------
FormatCTime(b, times, tm, precision) ==
    LET after[i \in 0 .. Len(times)] ==
            IF i = 0 THEN b ELSE AppendText(after[i - 1], SpecText(times[i].char, tm, precision))
    IN after[Len(times)]

\* std::put_time in the locale, one token for each specification.
PutTime(times) == [i \in 1 .. Len(times) |-> "put " \o times[i].char]

\* One specification: appended to what the buffer holds, and all of it flushed.
WriteSimpleCTime(spec, b, times, tm) ==
    LET char == IF times = <<>> THEN Nul ELSE times[1].char
        c == AppendText(b, SimpleText(char, tm))
    IN IF char \notin Specs THEN Written(<<char>>, b)
       ELSE Written(IF spec.localize THEN View(<<>>, c.size) ELSE Prefix(c.text, c.size), c)

\* A single specification is taken from the container, where the last ones (kept) are.
FormatTimeField(spec, b, times, kept, tm, nested) ==
    LET precision == PrecisionOf(spec, nested)
        width == WidthOf(spec, nested)
        put == spec.localize /\ ~PlainLocale
        c == IF put THEN [b EXCEPT !.size = Len(times)] ELSE FormatCTime(b, times, tm, precision)
    IN CASE width = 0 /\ precision = 0 /\ Len(times) < 2 -> WriteSimpleCTime(spec, b, kept, tm)
         [] width = 0 /\ ~(precision = 0 /\ Len(times) < 2) ->
                IF put THEN Written(PutTime(times), c) ELSE WriteBufferToContainer(c)
         [] OTHER -> Written(FormatAlignment(spec, c, width), c)
=============================================================================
