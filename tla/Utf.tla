---------------------------------- MODULE Utf ----------------------------------
(***************************************************************************)
(* The conversions of UtfHelper.h, one after another on the same text, as    *)
(* the demonstration in Sandbox.cpp chains them.  A text is a sequence of    *)
(* units: bytes, char16_t or char32_t.  One step is a turn of a conversion's *)
(* loop; from UTF-8, one step for each byte and one to write.                *)
(***************************************************************************)
EXTENDS Integers, Sequences, SequencesExt

CONSTANTS
    Texts,          \* texts, as sequences of code points
    Malformed,      \* units that encode no text: [encoding, units]
    WCharSize,      \* sizeof(wchar_t)
    MaxConversions  \* how many conversions are made of one text

UTF_MAX_CODEPOINT == 17 * 65536 - 1     \* 0x10FFFF
UTF16_SURROGATE_CLAMP == 65536          \* 0x10000
UTF16_HIGH_SURROGATE_MIN == 55296       \* 0xD800
UTF16_HIGH_SURROGATE_MAX == 56319       \* 0xDBFF
UTF16_LOW_SURROGATE_MIN == 56320        \* 0xDC00
UTF16_LOW_SURROGATE_MAX == 57343        \* 0xDFFF
WIDE_ENCODING_TO_UTF8_2 == 2047
WIDE_ENCODING_TO_UTF8_3 == 65535
REPLACEMENT_CHARACTER == <<65501>>      \* 0xFFDD
UTF8_REPLACEMENT_CHARACTER == <<255, 221>>

Units(encoding) ==
    CASE encoding = "u8" -> 0 .. 255
      [] encoding = "u16" -> 0 .. 65535
      [] encoding = "u32" -> Nat
Encodings == {"u8", "u16", "u32"}
Scalars == 0 .. UTF_MAX_CODEPOINT

ASSUME UtfAssumption ==
    /\ Texts \subseteq Seq(Scalars)
    /\ \A m \in Malformed : m.encoding \in Encodings /\ m.units \in Seq(Units(m.encoding))
    /\ WCharSize \in {2, 4} /\ MaxConversions \in Nat

Conversions == {"U16ToU8", "U16ToU32", "U32ToU8", "U32ToU16", "U8ToU16", "U8ToU32"}
From(conversion) ==
    CASE conversion \in {"U16ToU8", "U16ToU32"} -> "u16"
      [] conversion \in {"U32ToU8", "U32ToU16"} -> "u32"
      [] conversion \in {"U8ToU16", "U8ToU32"} -> "u8"
To(conversion) ==
    CASE conversion \in {"U16ToU8", "U32ToU8"} -> "u8"
      [] conversion \in {"U8ToU16", "U32ToU16"} -> "u16"
      [] conversion \in {"U8ToU32", "U16ToU32"} -> "u32"

-----------------------------------------------------------------------------
(* Single characters.                                                        *)
Trail(n) == 128 + (n % 64)

\* Faulty variant: a character of three bytes begins one earlier.
EncodeU8Early(ch) ==
    CASE ch <= 127 -> <<ch>>
      [] ch > 127 /\ ch < WIDE_ENCODING_TO_UTF8_2 -> <<192 + ch \div 64, Trail(ch)>>
      [] ch >= WIDE_ENCODING_TO_UTF8_2 /\ ch <= WIDE_ENCODING_TO_UTF8_3 ->
             <<224 + ch \div 4096, Trail(ch \div 64), Trail(ch)>>
      [] ch > WIDE_ENCODING_TO_UTF8_3 /\ ch <= UTF_MAX_CODEPOINT ->
             <<240 + ch \div (64 * 4096), Trail(ch \div 4096), Trail(ch \div 64), Trail(ch)>>
      [] OTHER -> UTF8_REPLACEMENT_CHARACTER

EncodeU8(ch) ==
    CASE ch <= 127 -> <<ch>>
      [] ch > 127 /\ ch <= WIDE_ENCODING_TO_UTF8_2 -> <<192 + ch \div 64, Trail(ch)>>
      [] ch > WIDE_ENCODING_TO_UTF8_2 /\ ch <= WIDE_ENCODING_TO_UTF8_3 ->
             <<224 + ch \div 4096, Trail(ch \div 64), Trail(ch)>>
      [] ch > WIDE_ENCODING_TO_UTF8_3 /\ ch <= UTF_MAX_CODEPOINT ->
             <<240 + ch \div (64 * 4096), Trail(ch \div 4096), Trail(ch \div 64), Trail(ch)>>
      [] OTHER -> UTF8_REPLACEMENT_CHARACTER

(* What is taken off before the pair is made is 0x10000 as a char16_t, 0;
   and 0x10000 itself is written as one unit, 0.                             *)
EncodeU16(cp) ==
    CASE cp > UTF_MAX_CODEPOINT -> REPLACEMENT_CHARACTER
      [] cp > UTF16_SURROGATE_CLAMP /\ cp <= UTF_MAX_CODEPOINT ->
             <<UTF16_HIGH_SURROGATE_MIN + cp \div 1024, UTF16_LOW_SURROGATE_MIN + (cp % 1024)>>
      [] OTHER -> <<cp % UTF16_SURROGATE_CLAMP>>

EncodeU32(cp) == IF cp > UTF_MAX_CODEPOINT THEN REPLACEMENT_CHARACTER ELSE <<cp>>

Pair(high, low) == UTF16_SURROGATE_CLAMP + (high % 1024) * 1024 + (low % 1024)

CheckTrailingByte(byte) == byte \in 128 .. 191

\* How many bytes follow a leading byte, and its own bits.
IsLead(byte) == byte \in 0 .. 127 \union 192 .. 247
Following(byte) ==
    CASE byte < 128 -> 0 [] byte \in 192 .. 223 -> 1 [] byte \in 224 .. 239 -> 2 [] byte \in 240 .. 247 -> 3
LeadBits(byte) ==
    CASE byte < 128 -> byte [] byte \in 192 .. 223 -> byte % 32 [] byte \in 224 .. 239 -> byte % 16
      [] byte \in 240 .. 247 -> byte % 8
Joined(cp, byte) == cp * 64 + (byte % 64)

\* Faulty variant: the branch of three bytes is missing.
ReservedShort(ch) ==
    CASE ch <= 127 -> 1
      [] ch > 127 /\ ch <= WIDE_ENCODING_TO_UTF8_3 -> 2
      [] ch > WIDE_ENCODING_TO_UTF8_3 /\ ch <= UTF_MAX_CODEPOINT -> 4
      [] OTHER -> 2

Reserved(ch) ==
    CASE ch <= 127 -> 1
      [] ch > 127 /\ ch <= WIDE_ENCODING_TO_UTF8_2 -> 2
      [] ch > WIDE_ENCODING_TO_UTF8_2 /\ ch <= WIDE_ENCODING_TO_UTF8_3 -> 3
      [] ch > WIDE_ENCODING_TO_UTF8_3 /\ ch <= UTF_MAX_CODEPOINT -> 4
      [] OTHER -> 2
\* Of a text of char32_t.
ReserveLengthForU8(sv) ==
    LET size[k \in 0 .. Len(sv)] == IF k = 0 THEN 0 ELSE size[k - 1] + Reserved(sv[k])
    IN size[Len(sv)]

-----------------------------------------------------------------------------
VARIABLES
    text,           \* the code points the first text stands for, or none if it is malformed
    encoding,       \* of the text in out
    source, out,    \* what is converted, and what has been written of the result
    path,           \* the conversions made, the last being under way unless pc is "ready"
    pos,            \* units taken
    cp, cpLength,   \* U8ToU16, U8ToU32: the code point, and the trailing bytes to come
    pc              \* "ready", "turn", "trail", "encode" or "overread"

vars == <<text, encoding, source, out, path, pos, cp, cpLength, pc>>
Conversion == path[Len(path)]

(* The standard's encoding of a code point, and of a text.                   *)
StandardU8(c) ==
    LET size == IF c < 128 THEN 1 ELSE IF c < 2048 THEN 2 ELSE IF c < 65536 THEN 3 ELSE 4
        lead == <<0, 192, 224, 240>>[size]
        weight(i) == <<1, 64, 4096, 64 * 4096>>[size - i + 1]
    IN [i \in 1 .. size |-> (IF i = 1 THEN lead ELSE 128)
                            + ((c \div weight(i)) % (IF i = 1 THEN 128 ELSE 64))]
StandardU16(c) ==
    IF c < 65536 THEN <<c>> ELSE <<55296 + (c - 65536) \div 1024, 56320 + ((c - 65536) % 1024)>>
StandardCharacter(enc, c) ==
    CASE enc = "u8" -> StandardU8(c) [] enc = "u16" -> StandardU16(c) [] enc = "u32" -> <<c>>
Standard(enc, cps) == FlattenSeq([i \in 1 .. Len(cps) |-> StandardCharacter(enc, cps[i])])

NoText == [codePoints |-> <<>>, known |-> FALSE]
Init ==
    /\ \/ \E t \in Texts, e \in Encodings :
              text = [codePoints |-> t, known |-> TRUE] /\ encoding = e /\ out = Standard(e, t)
       \/ \E m \in Malformed : text = NoText /\ encoding = m.encoding /\ out = m.units
    /\ source = <<>> /\ path = <<>>
    /\ pos = 0 /\ cp = 0 /\ cpLength = 0 /\ pc = "ready"

Convert(conversion) ==
    /\ pc = "ready" /\ From(conversion) = encoding /\ Len(path) < MaxConversions
    /\ path' = Append(path, conversion) /\ encoding' = To(conversion)
    /\ source' = out /\ out' = <<>>
    /\ pos' = 0 /\ cp' = 0 /\ cpLength' = 0 /\ pc' = "turn"
    /\ UNCHANGED text

-----------------------------------------------------------------------------
Under(conversions) == pc = "turn" /\ pos < Len(source) /\ Conversion \in conversions
Unit(i) == source[i + 1]
Write(units) == out' = out \o units
Unchanged == UNCHANGED <<text, encoding, source, path>>

Return ==
    /\ pc = "turn" /\ pos >= Len(source)
    /\ pc' = "ready"
    /\ UNCHANGED <<text, encoding, source, out, path, pos, cp, cpLength>>

Turn(units, taken) ==
    /\ Write(units) /\ pos' = pos + taken
    /\ UNCHANGED <<cp, cpLength, pc>> /\ Unchanged

U32ToU8 == Under({"U32ToU8"}) /\ Turn(EncodeU8(Unit(pos)), 1)
U32ToU16 == Under({"U32ToU16"}) /\ Turn(EncodeU16(Unit(pos)), 1)

(* The low surrogate is compared with the largest high one: no pair passes;
   and a unit behind a high one that is no surrogate is dropped with it.     *)
AfterHigh(high, low) ==
    CASE low < UTF16_LOW_SURROGATE_MIN -> <<>>
      [] low >= UTF16_LOW_SURROGATE_MIN /\ low > UTF16_HIGH_SURROGATE_MAX -> UTF8_REPLACEMENT_CHARACTER
      [] OTHER -> EncodeU8(Pair(high, low))

IsHigh(unit) == unit \in UTF16_HIGH_SURROGATE_MIN .. UTF16_HIGH_SURROGATE_MAX
U16ToU8 ==
    /\ Under({"U16ToU8"})
    /\ \/ Unit(pos) < UTF16_HIGH_SURROGATE_MIN /\ Turn(EncodeU8(Unit(pos)), 1)
       \/ Unit(pos) > UTF16_HIGH_SURROGATE_MAX /\ Turn(UTF8_REPLACEMENT_CHARACTER, 1)
       \/ IsHigh(Unit(pos)) /\ pos + 1 = Len(source) /\ Turn(UTF8_REPLACEMENT_CHARACTER, 2)
       \/ IsHigh(Unit(pos)) /\ pos + 1 < Len(source) /\ Turn(AfterHigh(Unit(pos), Unit(pos + 1)), 2)

IsLow(unit) == unit >= UTF16_LOW_SURROGATE_MIN /\ unit <= UTF16_LOW_SURROGATE_MAX

U16ToU32 ==
    /\ Under({"U16ToU32"})
    /\ \/ (WCharSize = 4 \/ Unit(pos) < UTF16_HIGH_SURROGATE_MIN) /\ Turn(<<Unit(pos)>>, 1)
       \/ WCharSize = 2 /\ Unit(pos) > UTF16_HIGH_SURROGATE_MAX /\ Turn(REPLACEMENT_CHARACTER, 1)
       \/ /\ WCharSize = 2 /\ IsHigh(Unit(pos))
          /\ Turn(IF pos + 1 < Len(source) /\ IsLow(Unit(pos + 1))
                  THEN EncodeU32(Pair(Unit(pos), Unit(pos + 1))) ELSE REPLACEMENT_CHARACTER, 2)

(* U8ToU16 and U8ToU32 differ only in what they write.  An illegal or
   incomplete sequence leaves cpLength as it has become.                     *)
LeadByte ==
    /\ Under({"U8ToU16", "U8ToU32"})
    /\ LET byte == Unit(pos)
           length == cpLength + Following(byte)
       IN IF ~IsLead(byte) THEN Write(REPLACEMENT_CHARACTER) /\ UNCHANGED <<cp, cpLength, pc>>
          ELSE /\ cp' = LeadBits(byte) /\ cpLength' = length
               /\ IF pos + length >= Len(source) THEN Write(REPLACEMENT_CHARACTER) /\ UNCHANGED pc
                  ELSE pc' = (IF length > 0 THEN "trail" ELSE "encode") /\ UNCHANGED out
    /\ pos' = pos + 1 /\ Unchanged

\* Faulty variant: a byte that is no trailing byte is neither skipped nor counted.
TrailingByteAgain ==
    /\ pc = "trail" /\ pos < Len(source)
    /\ IF CheckTrailingByte(Unit(pos))
       THEN /\ cp' = Joined(cp, Unit(pos)) /\ pos' = pos + 1
            /\ cpLength' = cpLength - 1
            /\ pc' = IF cpLength = 1 THEN "encode" ELSE "trail"
       ELSE UNCHANGED <<pos, cp, cpLength, pc>>
    /\ UNCHANGED out /\ Unchanged

\* Faulty variant: the loop goes on while cpLength >= 0.
TrailingByteMore ==
    /\ pc = "trail" /\ pos < Len(source)
    /\ IF CheckTrailingByte(Unit(pos))
       THEN cp' = Joined(cp, Unit(pos)) /\ pos' = pos + 1 /\ UNCHANGED out
       ELSE Write(REPLACEMENT_CHARACTER) /\ pos' = pos + 1 + cpLength /\ UNCHANGED cp
    /\ cpLength' = cpLength - 1
    /\ pc' = IF cpLength = 0 THEN "encode" ELSE "trail"
    /\ Unchanged

TrailingByte ==
    /\ pc = "trail" /\ pos < Len(source)
    /\ IF CheckTrailingByte(Unit(pos))
       THEN cp' = Joined(cp, Unit(pos)) /\ pos' = pos + 1 /\ UNCHANGED out
       ELSE Write(REPLACEMENT_CHARACTER) /\ pos' = pos + 1 + cpLength /\ UNCHANGED cp
    /\ cpLength' = cpLength - 1
    /\ pc' = IF cpLength = 1 THEN "encode" ELSE "trail"
    /\ Unchanged

\* What lies behind the text is read.
Overread ==
    /\ pc = "trail" /\ pos >= Len(source)
    /\ pc' = "overread"
    /\ UNCHANGED <<text, encoding, source, out, path, pos, cp, cpLength>>

EncodePoint ==
    /\ pc = "encode"
    /\ Write(IF Conversion = "U8ToU16" THEN EncodeU16(cp) ELSE EncodeU32(cp))
    /\ pc' = "turn"
    /\ UNCHANGED <<pos, cp, cpLength>> /\ Unchanged

Terminated == pc \in {"ready", "overread"} /\ UNCHANGED vars

Step ==
    Return \/ U32ToU8 \/ U32ToU16 \/ U16ToU8 \/ U16ToU32 \/ LeadByte \/ TrailingByte \/ Overread \/ EncodePoint
Next ==
    \/ \E conversion \in Conversions : Convert(conversion)
    \/ Return \/ U32ToU8 \/ U32ToU16 \/ U16ToU8 \/ U16ToU32
    \/ LeadByte \/ TrailingByte \/ Overread \/ EncodePoint
    \/ Terminated

\* A conversion that was called goes on.
Spec == Init /\ [][Next]_vars /\ WF_vars(Step)

-----------------------------------------------------------------------------
\* Every unit written fits its encoding (no unit of UTF-16 is wider than 16 bits),
\* and trailing bytes are read only while some are due (the loops of UtfHelper.h).
TypeOK ==
    /\ text \in [codePoints : Seq(Scalars), known : BOOLEAN]
    /\ encoding \in Encodings /\ path \in Seq(Conversions)
    /\ out \in Seq(Units(encoding))
    /\ path # <<>> => encoding = To(Conversion) /\ source \in Seq(Units(From(Conversion)))
    /\ pos \in Nat /\ cp \in Nat /\ cpLength \in Nat
    /\ pc \in {"ready", "turn", "trail", "encode", "overread"}
    /\ pc = "trail" => cpLength > 0
    /\ pc \in {"trail", "encode", "overread"} => Conversion \in {"U8ToU16", "U8ToU32"}
    /\ pc # "ready" => path # <<>>

(* Where the conversions are known to be wrong: in and out of UTF-16 every
   character behind the first 0xFFFF, and out of it every one behind 0xD7FF.  *)
Through(encodings) ==
    \E i \in 1 .. Len(path) : From(path[i]) \in encodings
Into16 == \E i \in 1 .. Len(path) : To(path[i]) = "u16"
Diverges ==
    \E i \in 1 .. Len(text.codePoints) :
        LET c == text.codePoints[i] IN
        \/ c >= UTF16_SURROGATE_CLAMP /\ Into16
        \/ c >= UTF16_HIGH_SURROGATE_MIN /\ Through({"u16"})

\* However often a text is converted, and from which encoding, the result is the
\* standard's encoding of the same code points, and nothing behind the text is
\* read (the loops of U16ToU8, U16ToU32, U32ToU8, U32ToU16, U8ToU16, U8ToU32).
AsUnicode ==
    text.known /\ ~Diverges =>
        /\ pc # "overread"
        /\ pc = "ready" => out = Standard(encoding, text.codePoints)

\* ReserveLengthForU8 reserves exactly what U32ToU8 writes, whatever it is given.
ReserveExact ==
    pc = "ready" /\ path # <<>> /\ Conversion = "U32ToU8" => Len(out) = ReserveLengthForU8(source)

\* Every conversion comes to an end or runs over the end, malformed text included.
ConversionEnds == pc \in {"turn", "trail", "encode"} ~> pc \in {"ready", "overread"}
=============================================================================
