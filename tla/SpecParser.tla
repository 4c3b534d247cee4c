------------------------------ MODULE SpecParser ------------------------------
(***************************************************************************)
(* How ArgFormatter reads one replacement field of a format string.  A     *)
(* string is a sequence of one-character strings; positions count from 0   *)
(* as in the code.  The parser is a record p that each Verify... operator  *)
(* advances: sv the text of the field behind its opening bracket, pos, the *)
(* members counter (argCounter) and mode (m_indexMode) that live for the   *)
(* whole format string, the specification read so far, what the last       *)
(* positional field answered (more) and the first error reported.          *)
(***************************************************************************)
EXTENDS Naturals, Sequences, FiniteSetsExt

CONSTANT MaxArgCount      \* MAX_ARG_COUNT, the entries of the argument arrays

\* A position has at most two digits.
ASSUME MaxArgCountAssumption == MaxArgCount \in 1 .. 100

NoChar == "none"          \* the character '\0' of an unset member
Past == "past"            \* what a read behind the end of the field returns
NoError == "ok"

Decimals == <<"0", "1", "2", "3", "4", "5", "6", "7", "8", "9">>
Digits == {Decimals[i] : i \in 1 .. 10}
DigitValue == [c \in Digits |-> CHOOSE n \in 0 .. 9 : Decimals[n + 1] = c]

\* The ASCII code less 48 that se_from_chars stores for a character that is no
\* digit; of the others only ':' and '}' can be followed by a valid position.
CodeOf(c) == IF c \in Digits THEN DigitValue[c] ELSE IF c = ":" THEN 10 ELSE 77

At(sv, pos) == IF pos < Len(sv) THEN sv[pos + 1] ELSE Past

NoSpec == [argPosition |-> 0, width |-> 0, precision |-> 0, widthArg |-> 0, precisionArg |-> 0,
           align |-> "Empty", fill |-> NoChar, sign |-> "Empty", alt |-> FALSE, pre |-> <<>>,
           localize |-> FALSE, type |-> NoChar]

Parser(sv, pos, counter, mode) ==
    [sv |-> sv, pos |-> pos, counter |-> counter, mode |-> mode, spec |-> NoSpec,
     more |-> FALSE, times |-> <<>>, error |-> NoError]

Fail(p, error) == [p EXCEPT !.error = error]
Skip(p, n) == [p EXCEPT !.pos = @ + n]
Ended(p) == p.error # NoError \/ p.pos >= Len(p.sv)

\* One step of a parser after the other: Step is applied to what p has become.
Then(p, Step(_)) == CHOOSE q \in {Step(r) : r \in {p}} : TRUE

-----------------------------------------------------------------------------
(* At most two digits; a first character that is no digit is passed over,
   and the next one is taken as a digit whatever it is.                     *)
se_from_chars(sv, pos) ==
    LET first == IF At(sv, pos) \in Digits THEN pos ELSE pos + 1 IN
    IF first >= Len(sv) THEN [count |-> 0, value |-> 0]
    ELSE IF At(sv, first + 1) \in Digits
         THEN [count |-> 2, value |-> 10 * CodeOf(At(sv, first)) + CodeOf(At(sv, first + 1))]
         ELSE [count |-> 1, value |-> CodeOf(At(sv, first))]

\* field is the member that names an argument: of the value, its width or precision.
Placed(p, field, n) ==
    CASE field = "argPosition" -> [p EXCEPT !.spec.argPosition = n]
      [] field = "widthArg" -> [p EXCEPT !.spec.widthArg = n]
      [] OTHER -> [p EXCEPT !.spec.precisionArg = n]

AutomaticPosition(p, field, moved, more) ==
    [Placed(Skip(p, moved), field, p.counter) EXCEPT !.counter = @ + 1, !.more = more]

\* Where no digit is read the member stays 0.
ManualPosition(p, field) ==
    LET read == se_from_chars(p.sv, p.pos)
        at == p.pos + read.count
        place == IF read.count = 0 THEN 0 ELSE read.value
        q == Placed([p EXCEPT !.mode = "manual", !.pos = at], field, place)
    IN CASE at = 0 -> Fail(p, "position_field_mode")
         [] at # 0 /\ place >= MaxArgCount -> Fail(q, "index out of bounds")
         [] at # 0 /\ place < MaxArgCount /\ At(p.sv, at) = ":" ->
                [Skip(q, 1) EXCEPT !.counter = @ + 1, !.more = TRUE]
         [] at # 0 /\ place < MaxArgCount /\ At(p.sv, at) = "}" ->
                [Skip(q, 1) EXCEPT !.more = FALSE]
         [] OTHER -> Fail(q, "position_field_mode")

VerifyPositionalField(p, field) ==
    LET ch == At(p.sv, p.pos)
        texts == {i \in p.pos .. Len(p.sv) - 1 : At(p.sv, i) # " "}
        next == IF texts = {} THEN Len(p.sv) ELSE Min(texts) + 1
    IN CASE p.mode = "manual" \/ ch \in Digits -> ManualPosition(p, field)
         [] p.mode = "automatic" /\ ch = "}" -> AutomaticPosition(p, field, 0, FALSE)
         [] p.mode = "automatic" /\ ch = ":" -> AutomaticPosition(p, field, 1, TRUE)
         [] p.mode = "automatic" /\ ch = " " ->
                IF At(p.sv, next) \in {":", "}"}
                THEN AutomaticPosition(p, field, next + 1 - p.pos, TRUE)
                ELSE Fail(p, "position_field_spec")
         [] OTHER -> Fail(p, "none")

-----------------------------------------------------------------------------
Numbers == {"int", "float"}
Texts == {"string", "cstring"}
Aligns == [c \in {"<", ">", "^"} |->
               CASE c = "<" -> "AlignLeft" [] c = ">" -> "AlignRight" [] OTHER -> "AlignCenter"]
Signs == [c \in {"+", "-", " "} |-> CASE c = "+" -> "Plus" [] c = "-" -> "Minus" [] OTHER -> "Space"]

OnAlign(p, fill, align) ==
    LET q == [Skip(p, 2) EXCEPT !.spec.align = align] IN
    IF fill \in {"{", "}"} THEN Fail(q, "invalid_fill_character")
    ELSE [q EXCEPT !.spec.fill = IF fill = ":" THEN " " ELSE fill]

OnAlignDefault(p, type) ==
    [p EXCEPT !.spec.align = IF type \in Numbers THEN "AlignRight" ELSE "AlignLeft",
              !.spec.fill = " "]

VerifyFillAlignField(p, type) ==
    LET ch == At(p.sv, p.pos)
        next == At(p.sv, p.pos + 1)
    IN IF type = "mono"
       THEN [Skip(p, IF next \in DOMAIN Aligns THEN 2 ELSE 1) EXCEPT !.spec.fill = ch]
       ELSE IF next \in DOMAIN Aligns THEN OnAlign(p, ch, Aligns[next])
            ELSE OnAlignDefault(p, type)

ParseSign(p) ==
    IF Ended(p) \/ At(p.sv, p.pos) \notin DOMAIN Signs THEN p
    ELSE [Skip(p, 1) EXCEPT !.spec.sign = Signs[At(p.sv, p.pos)]]

VerifyAltField(p, type) ==
    IF Ended(p) \/ At(p.sv, p.pos) # "#" THEN p
    ELSE IF type \in Numbers \union {"char", "bool"}
         THEN [Skip(p, 1) EXCEPT !.spec.alt = TRUE]
         ELSE Fail(p, "invalid_alt_type")

ParseZero(p) ==
    IF Ended(p) \/ At(p.sv, p.pos) # "0" THEN p
    ELSE [Skip(p, 1) EXCEPT !.spec.fill = IF @ = NoChar THEN "0" ELSE @]

VerifyWidthField(p) ==
    LET read == se_from_chars(p.sv, p.pos) IN
    CASE Ended(p) -> p
      [] ~Ended(p) /\ At(p.sv, p.pos) = "{" -> VerifyPositionalField(Skip(p, 1), "widthArg")
      [] ~Ended(p) /\ At(p.sv, p.pos) \in Digits \ {"0"} ->
             [Skip(p, read.count) EXCEPT !.spec.width = read.value]
      [] OTHER -> p

\* The digits of a precision also advance argCounter.
PrecisionAt(p) ==
    LET q == Skip(p, 1)
        read == se_from_chars(q.sv, q.pos)
        ch == At(q.sv, q.pos)
    IN CASE ch \in Digits -> [Skip(q, read.count) EXCEPT !.spec.precision = read.value,
                                                         !.counter = @ + 1]
         [] ch = "{" -> VerifyPositionalField(Skip(q, 1), "precisionArg")
         [] ch = "}" -> VerifyPositionalField(q, "precisionArg")
         [] OTHER -> Fail(q, "missing_bracket")

VerifyPrecisionField(p, type) ==
    IF Ended(p) \/ At(p.sv, p.pos) # "." THEN p
    ELSE IF type \in Texts \union {"float"} THEN PrecisionAt(p)
         ELSE Fail(p, "invalid_precision_type")

VerifyTimePrecisionField(p) ==
    IF Ended(p) \/ At(p.sv, p.pos) # "." THEN p ELSE PrecisionAt(p)

VerifyLocaleField(p, type) ==
    IF Ended(p) \/ At(p.sv, p.pos) # "L" THEN p
    ELSE IF type \in {"char", "pointer", "mono", "string"} THEN Fail(p, "invalid_locale_type")
         ELSE [Skip(p, 1) EXCEPT !.spec.localize = TRUE]

TypeSpecs == {"a", "A", "b", "B", "c", "d", "e", "E", "f", "F", "g", "G", "o", "p", "s", "x", "X"}
PreAltForm == [c \in {"b", "B", "o", "x", "X"} |-> IF c = "o" THEN <<"0">> ELSE <<"0", c>>]

OnValidTypeSpec(p, type, ch) ==
    LET prefixed == p.spec.alt /\ type \in {"int", "bool", "char"} /\ ch \in DOMAIN PreAltForm IN
    [p EXCEPT !.spec.type = ch, !.spec.pre = IF prefixed THEN PreAltForm[ch] ELSE @]

OnInvalidTypeSpec(p, type) ==
    IF type \in {"mono", "custom", "time"} THEN p ELSE Fail(p, "invalid spec for " \o type)

HandlePotentialTypeField(p, type) ==
    LET ch == At(p.sv, p.pos) IN
    CASE Ended(p) \/ ch = "}" -> p
      [] ~Ended(p) /\ ch \in TypeSpecs -> OnValidTypeSpec(p, type, ch)
      [] OTHER -> OnInvalidTypeSpec(p, type)

(* The part of a field behind its ':'.  Each step is skipped once an error is
   reported or the text of the field is used up.                             *)
Parse(p, type) ==
    LET filled == Then(p, LAMBDA q : VerifyFillAlignField(q, type))
        prefixed == Then(Then(filled, ParseSign), LAMBDA q : VerifyAltField(q, type))
        wide == Then(Then(prefixed, ParseZero), VerifyWidthField)
        precise == Then(wide, LAMBDA q : VerifyPrecisionField(q, type))
        local == Then(precise, LAMBDA q : VerifyLocaleField(q, type))
    IN Then(local, LAMBDA q : HandlePotentialTypeField(q, type))

-----------------------------------------------------------------------------
EModified == {"c", "x", "y", "C", "X", "Y"}
OModified == {"d", "e", "m", "u", "w", "y", "H", "I", "M", "S", "U", "V", "W"}

MaxTimeSpecs == 25        \* the entries of timeSpecContainer

(* Everything up to the closing bracket is a time specification: a letter, a
   letter behind E or O for the locale's form, or a character written as is.
   One turn of the loop reads one of them.                                   *)
ReadTimeSpec(sv, s) ==
    LET modified == At(sv, s.at) \in {"E", "O"}
        last == IF modified THEN s.at + 1 ELSE s.at
        valid == \/ ~modified
                 \/ At(sv, s.at) = "E" /\ At(sv, last) \in EModified
                 \/ At(sv, s.at) = "O" /\ At(sv, last) \in OModified
        next == At(sv, last + 1)
        behind == IF next = "%" THEN last + 2 ELSE last + 1
        ended == next \in {"}", Past}
        cut == ~ended /\ behind >= Len(sv)
    IN CASE s.done -> s
         [] ~s.done /\ ~valid -> [s EXCEPT !.done = TRUE, !.error = "invalid_ctime_spec"]
         [] OTHER -> [at |-> behind, done |-> ended \/ cut,
                      times |-> Append(s.times, [char |-> At(sv, last), localized |-> modified]),
                      error |-> IF cut THEN "missing_ctime_spec" ELSE NoError]

\* What is written behind the end of the container is not there to be read.
VerifyTimeSpec(p) ==
    LET begin == [at |-> p.pos, done |-> FALSE, times |-> <<>>, error |-> NoError]
        after[k \in 0 .. Len(p.sv)] == IF k = 0 THEN begin ELSE ReadTimeSpec(p.sv, after[k - 1])
        read == after[Len(p.sv)]
        lost == [i \in 1 .. Len(read.times) |-> [char |-> Past, localized |-> FALSE]]
    IN IF p.error # NoError THEN p
       ELSE [p EXCEPT !.times = IF Len(read.times) > MaxTimeSpecs THEN lost ELSE read.times,
                      !.error = read.error]

VerifyFillAlignTimeField(p) ==
    LET next == At(p.sv, p.pos + 1) IN
    IF At(p.sv, p.pos) = "%" THEN p
    ELSE IF next \in DOMAIN Aligns THEN OnAlign(p, At(p.sv, p.pos), Aligns[next])
         ELSE [p EXCEPT !.spec.fill = " "]

VerifyTimeLocale(p) ==
    IF Ended(p) \/ At(p.sv, p.pos) # "L" THEN p ELSE [Skip(p, 1) EXCEPT !.spec.localize = TRUE]

ParseTimeField(p) ==
    LET wide == Then(Then(p, VerifyFillAlignTimeField), VerifyWidthField)
        local == Then(Then(wide, VerifyTimePrecisionField), VerifyTimeLocale)
    IN Then(local, LAMBDA q : IF Ended(q) THEN q ELSE VerifyTimeSpec(Skip(q, 1)))
=============================================================================
