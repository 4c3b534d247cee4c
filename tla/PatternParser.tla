---------------------------- MODULE PatternParser ----------------------------
(***************************************************************************)
(* How Message_Formatter reads what stands behind a flag of a pattern, and  *)
(* which class it builds for the flag.  Text is a sequence of characters;   *)
(* source_flag, a bit mask, is the set of its bits.                         *)
(***************************************************************************)
EXTENDS Naturals, Sequences, SequencesExt

Digits == <<"0", "1", "2", "3", "4", "5", "6", "7", "8", "9">>
Letters == {"a", "b", "c", "d", "e", "f", "g", "h", "i", "j", "k", "l", "m",
            "n", "o", "p", "q", "r", "s", "t", "u", "v", "w", "x", "y", "z",
            "A", "B", "C", "D", "E", "F", "G", "H", "I", "J", "K", "L", "M",
            "N", "O", "P", "Q", "R", "S", "T", "U", "V", "W", "X", "Y", "Z"}

(* The character behind '%' of each flag, in the order of the table.  One
   entry is written with a space before its '%': no flag ever equals it.     *)
allValidFlags ==
    <<"a", "b", "c", "d", "e", "h", "l", "m", "n", "p", "r", "s", "t", "w", "x", "y", "z", "A",
      " %B", "C", "D", "F", "H", "I", "L", "M", "N", "R", "S", "T", "X", "Y", "Z", "+">>

IsValidFlag(letter) == \E i \in DOMAIN allValidFlags : allValidFlags[i] = letter
IndexOf(letter) == (CHOOSE i \in DOMAIN allValidFlags : allValidFlags[i] = letter) - 1

\* FlagFormatter: the class built for each index, named for its letter.
FlagFormatter ==
    <<"a", "b", "c", "d", "e", "b", "l", "m", "n", "p", "r", "s", "t", "w", "D", "y", "z", "A",
      "B", "C", "D", "F", "H", "I", "L", "M", "N", "R", "S", "T", "Y", "T", "Z", "+">>
ClassAt(index) == FlagFormatter[index + 1]

-----------------------------------------------------------------------------
DefaultSubSecondPrecision == 3
DefaultThreadIdLength == 10
SubSecondIndex == 4
ThreadIndex == 10       \* the index the code looks for; that of %t is 12
SourceIndex == 11

validCharSpecs == {"l", "c", "f", "F"}
SourceBit == [l |-> "line", c |-> "column", f |-> "file", F |-> "function"]

CountLeading(text, chars) ==
    Max({n \in 0 .. Len(text) : \A i \in 1 .. n : text[i] \in chars})
NumberOf(digits) ==
    LET value[n \in 0 .. Len(digits)] ==
            IF n = 0 THEN 0 ELSE 10 * value[n - 1] + (CHOOSE d \in 0 .. 9 : Digits[d + 1] = digits[n])
    IN value[Len(digits)]

ValidateUserPrecisionSpec(index, value) ==
    IF index = SubSecondIndex /\ value > 9 THEN DefaultSubSecondPrecision
    ELSE IF index = ThreadIndex /\ value > 10 THEN DefaultThreadIdLength
    ELSE value

ValidateUserCharSpec(index, flag, specs) ==
    IF index # SourceIndex THEN flag ELSE flag \union {SourceBit[c] : c \in specs}

\* What is left behind the specification, its value, and the source flag.
SpecRead(rest, value, flag) == [rest |-> rest, value |-> value, flag |-> flag, thrown |-> FALSE]

\* Neither a precision nor a letter was read.
DefaultSpec(rest, index, flag) ==
    CASE index = SubSecondIndex -> SpecRead(rest, DefaultSubSecondPrecision, flag)
      [] index = ThreadIndex -> SpecRead(rest, DefaultThreadIdLength, flag)
      [] index = SourceIndex -> SpecRead(rest, 0, {"all"})
      [] OTHER -> SpecRead(rest, 0, flag)

(* ':' and a digit or a letter are taken for a specification behind any flag;
   at(1) throws when ':' is the last character.                              *)
ParseUserPatternForSpec(parseStr, index, flag) ==
    LET spec == Tail(parseStr)
        digits == CountLeading(spec, Range(Digits))
        chars == CountLeading(spec, validCharSpecs)
        value == ValidateUserPrecisionSpec(index, NumberOf(SubSeq(spec, 1, digits)))
        behind(n) == SubSeq(spec, n + 1, Len(spec))
    IN CASE parseStr = <<>> -> SpecRead(parseStr, 0, flag)
         [] parseStr = <<":">> -> [SpecRead(parseStr, 0, flag) EXCEPT !.thrown = TRUE]
         [] Len(parseStr) > 1 /\ Head(parseStr) = ":" /\ digits > 0 ->
                IF value = 0 THEN DefaultSpec(behind(digits), index, flag)
                ELSE SpecRead(behind(digits), value, flag)
         [] Len(parseStr) > 1 /\ Head(parseStr) = ":" /\ spec[1] \in Letters ->
                IF chars = 0 THEN DefaultSpec(spec, index, flag)
                ELSE SpecRead(behind(chars), 0,
                          ValidateUserCharSpec(index, flag, Range(SubSeq(spec, 1, chars))))
         [] OTHER -> DefaultSpec(parseStr, index, flag)
=============================================================================
