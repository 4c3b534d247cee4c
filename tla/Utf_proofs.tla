------------------------------ MODULE Utf_proofs ------------------------------
(***************************************************************************)
(* What the conversions of Utf do with a single character, for every code   *)
(* point; the units they write, for every text and every malformed one; and *)
(* what whole texts become: how much of a text a conversion has done with,  *)
(* and that what it has written encodes exactly that part (FaithfulInv).    *)
(***************************************************************************)
EXTENDS Utf, InductionLemmas, TLAPS

\* What LeadByte and TrailingByte make of a whole sequence of bytes.
LegalSequence(b) ==
    /\ Len(b) \in 1 .. 4 /\ IsLead(b[1]) /\ Following(b[1]) = Len(b) - 1
    /\ \A i \in 2 .. Len(b) : CheckTrailingByte(b[i])
Decoded(b) ==
    CASE Len(b) = 1 -> LeadBits(b[1])
      [] Len(b) = 2 -> Joined(LeadBits(b[1]), b[2])
      [] Len(b) = 3 -> Joined(Joined(LeadBits(b[1]), b[2]), b[3])
      [] Len(b) = 4 -> Joined(Joined(Joined(LeadBits(b[1]), b[2]), b[3]), b[4])

\* A byte behind the first carries six bits (UTF8_TRAIL_BASE | (ch & UTF_NIBBLE_6)).
LEMMA TrailCarries ==
    ASSUME NEW n \in Nat
    PROVE  /\ Trail(n) \in 128 .. 191 /\ CheckTrailingByte(Trail(n))
           /\ \A k \in Nat : n = k * 64 + (n % 64) => Joined(k, Trail(n)) = n
BY SMT DEF Trail, CheckTrailingByte, Joined

\* The bounds of the branches (WIDE_ENCODING_TO_UTF8_2 to UTF_MAX_CODEPOINT).
LEMMA Bounds ==
    /\ WIDE_ENCODING_TO_UTF8_2 \in Nat /\ WIDE_ENCODING_TO_UTF8_3 \in Nat
    /\ UTF_MAX_CODEPOINT \in Nat /\ Scalars \subseteq Nat
    /\ \A c \in Scalars : c <= UTF_MAX_CODEPOINT
<1>1. UTF_MAX_CODEPOINT \in Nat
  BY SMT DEF UTF_MAX_CODEPOINT
<1>. QED BY <1>1, SMT DEF WIDE_ENCODING_TO_UTF8_2, WIDE_ENCODING_TO_UTF8_3, Scalars

\* The branches of U32ToU8 exclude one another.
LEMMA Shape ==
    ASSUME NEW c \in Nat
    PROVE  /\ c <= 127 => EncodeU8(c) = <<c>>
           /\ c > 127 /\ c <= WIDE_ENCODING_TO_UTF8_2 => EncodeU8(c) = <<192 + (c \div 64), Trail(c)>>
           /\ c > WIDE_ENCODING_TO_UTF8_2 /\ c <= WIDE_ENCODING_TO_UTF8_3 =>
                EncodeU8(c) = <<224 + (c \div 4096), Trail(c \div 64), Trail(c)>>
           /\ c > WIDE_ENCODING_TO_UTF8_3 /\ c <= UTF_MAX_CODEPOINT =>
                EncodeU8(c) = <<240 + (c \div (64 * 4096)), Trail(c \div 4096), Trail(c \div 64), Trail(c)>>
           /\ c > UTF_MAX_CODEPOINT => EncodeU8(c) = UTF8_REPLACEMENT_CHARACTER
BY SMT DEF EncodeU8, WIDE_ENCODING_TO_UTF8_2, WIDE_ENCODING_TO_UTF8_3, UTF_MAX_CODEPOINT

\* The branch of U32ToU8 for one byte, read back.
LEMMA OneByte ==
    ASSUME NEW c \in Nat, c <= 127
    PROVE  LegalSequence(EncodeU8(c)) /\ Decoded(EncodeU8(c)) = c
<1>1. EncodeU8(c) = <<c>>
  BY Shape, SMT
<1>2. IsLead(c) /\ Following(c) = 0 /\ LeadBits(c) = c
  BY SMT DEF IsLead, Following, LeadBits
<1>. QED BY <1>1, <1>2, SMT DEF LegalSequence, Decoded

\* The branch of U32ToU8 for two bytes, read back.
LEMMA TwoBytes ==
    ASSUME NEW c \in Nat, c > 127, c <= WIDE_ENCODING_TO_UTF8_2
    PROVE  LegalSequence(EncodeU8(c)) /\ Decoded(EncodeU8(c)) = c
<1>. DEFINE lead == 192 + (c \div 64)
<1>1. EncodeU8(c) = <<lead, Trail(c)>>
  BY Shape, SMT
<1>2. c \div 64 \in 2 .. 31 /\ c = (c \div 64) * 64 + (c % 64)
  BY SMT DEF WIDE_ENCODING_TO_UTF8_2
<1>3. IsLead(lead) /\ Following(lead) = 1 /\ LeadBits(lead) = c \div 64
  BY <1>2, SMT DEF IsLead, Following, LeadBits
<1>. HIDE DEF lead
<1>4. LegalSequence(EncodeU8(c))
  BY <1>1, <1>3, TrailCarries, SMT DEF LegalSequence
<1>5. Decoded(EncodeU8(c)) = Joined(c \div 64, Trail(c))
  BY <1>1, <1>3, SMT DEF Decoded
<1>. QED BY <1>2, <1>4, <1>5, TrailCarries, SMT

\* The branch of U32ToU8 for three bytes, read back.
LEMMA ThreeBytes ==
    ASSUME NEW c \in Nat, c > WIDE_ENCODING_TO_UTF8_2, c <= WIDE_ENCODING_TO_UTF8_3
    PROVE  LegalSequence(EncodeU8(c)) /\ Decoded(EncodeU8(c)) = c
<1>. DEFINE lead == 224 + (c \div 4096)
            middle == c \div 64
<1>1. EncodeU8(c) = <<lead, Trail(middle), Trail(c)>>
  BY Shape, SMT
<1>2. middle \in Nat /\ c = middle * 64 + (c % 64) /\ c \div 4096 \in 0 .. 15
  BY SMT DEF WIDE_ENCODING_TO_UTF8_2, WIDE_ENCODING_TO_UTF8_3
<1>3. middle = (c \div 4096) * 64 + (middle % 64)
  BY SMT DEF WIDE_ENCODING_TO_UTF8_2, WIDE_ENCODING_TO_UTF8_3
<1>4. IsLead(lead) /\ Following(lead) = 2 /\ LeadBits(lead) = c \div 4096
  BY <1>2, SMT DEF IsLead, Following, LeadBits
<1>. HIDE DEF lead, middle
<1>5. LegalSequence(EncodeU8(c))
  BY <1>1, <1>2, <1>4, TrailCarries, SMT DEF LegalSequence
<1>6. Decoded(EncodeU8(c)) = Joined(Joined(c \div 4096, Trail(middle)), Trail(c))
  BY <1>1, <1>4, SMT DEF Decoded
<1>7. Joined(c \div 4096, Trail(middle)) = middle
  BY <1>2, <1>3, TrailCarries, SMT
<1>. QED BY <1>2, <1>5, <1>6, <1>7, TrailCarries, SMT

\* The branch of U32ToU8 for four bytes, read back.
LEMMA FourBytes ==
    ASSUME NEW c \in Nat, c > WIDE_ENCODING_TO_UTF8_3, c <= UTF_MAX_CODEPOINT
    PROVE  LegalSequence(EncodeU8(c)) /\ Decoded(EncodeU8(c)) = c
<1>. DEFINE top == c \div (64 * 4096)
            upper == c \div 4096
            lower == c \div 64
<1>1. EncodeU8(c) = <<240 + top, Trail(upper), Trail(lower), Trail(c)>>
  BY Shape, SMT
<1>2. upper \in Nat /\ lower \in Nat /\ top \in 0 .. 4
  BY SMT DEF WIDE_ENCODING_TO_UTF8_3, UTF_MAX_CODEPOINT
<1>3. c = lower * 64 + (c % 64) /\ lower = upper * 64 + (lower % 64) /\ upper = top * 64 + (upper % 64)
  BY SMT
<1>4. IsLead(240 + top) /\ Following(240 + top) = 3 /\ LeadBits(240 + top) = top
  BY <1>2, SMT DEF IsLead, Following, LeadBits
<1>. HIDE DEF top, upper, lower
<1>5. LegalSequence(EncodeU8(c))
  BY <1>1, <1>2, <1>4, TrailCarries, SMT DEF LegalSequence
<1>6. Decoded(EncodeU8(c)) = Joined(Joined(Joined(top, Trail(upper)), Trail(lower)), Trail(c))
  BY <1>1, <1>4, SMT DEF Decoded
<1>7. Joined(top, Trail(upper)) = upper
  BY <1>2, <1>3, TrailCarries, SMT
<1>8. Joined(upper, Trail(lower)) = lower
  BY <1>2, <1>3, TrailCarries, SMT
<1>. QED BY <1>2, <1>3, <1>5, <1>6, <1>7, <1>8, TrailCarries, SMT

\* What U32ToU8 writes for a code point is one legal sequence, from which U8ToU16
\* and U8ToU32 collect the same code point again, whatever it is.
THEOREM CharacterU8 ==
    ASSUME NEW c \in Scalars
    PROVE  LegalSequence(EncodeU8(c)) /\ Decoded(EncodeU8(c)) = c
BY Bounds, OneByte, TwoBytes, ThreeBytes, FourBytes, SMT

-----------------------------------------------------------------------------
(* What is reserved, and what UTF-16 loses.                                  *)
\* ReserveLengthForU8 counts for each unit of UTF-32 what U32ToU8 writes for it,
\* those that encode nothing included.
THEOREM ReservedEach ==
    ASSUME NEW ch \in Nat
    PROVE  Len(EncodeU8(ch)) = Reserved(ch)
BY SMT DEF EncodeU8, Reserved, UTF8_REPLACEMENT_CHARACTER,
        WIDE_ENCODING_TO_UTF8_2, WIDE_ENCODING_TO_UTF8_3, UTF_MAX_CODEPOINT

\* No code point behind 0xFFFF is written to UTF-16 as the standard says, since
\* U8ToU16 and U32ToU16 subtract 0x10000 as a char16_t; every other one is.
THEOREM PairsDiffer ==
    ASSUME NEW c \in Scalars
    PROVE  EncodeU16(c) = StandardU16(c) <=> c < UTF16_SURROGATE_CLAMP
<1>. c \in Nat /\ c <= UTF_MAX_CODEPOINT /\ UTF_MAX_CODEPOINT \in Nat
  BY Bounds
<1>1. CASE c < UTF16_SURROGATE_CLAMP
  BY <1>1, SMT DEF EncodeU16, StandardU16, UTF16_SURROGATE_CLAMP
<1>2. CASE c = UTF16_SURROGATE_CLAMP
  <2>1. EncodeU16(c) = <<0>>
    BY <1>2, SMT DEF EncodeU16, UTF16_SURROGATE_CLAMP
  <2>2. StandardU16(c) = <<55296, 56320>>
    BY <1>2, SMT DEF StandardU16, UTF16_SURROGATE_CLAMP
  <2>. QED BY <1>2, <2>1, <2>2, SMT DEF UTF16_SURROGATE_CLAMP
<1>3. CASE c > UTF16_SURROGATE_CLAMP
  <2>1. EncodeU16(c)[1] = 55296 + (c \div 1024)
    BY <1>3, SMT DEF EncodeU16, UTF16_SURROGATE_CLAMP, UTF16_HIGH_SURROGATE_MIN
  <2>2. StandardU16(c)[1] = 55296 + ((c - 65536) \div 1024)
    BY <1>3, SMT DEF StandardU16, UTF16_SURROGATE_CLAMP
  <2>3. c \div 1024 # (c - 65536) \div 1024
    BY <1>3, SMT DEF UTF16_SURROGATE_CLAMP
  <2>. QED BY <1>3, <2>1, <2>2, <2>3, SMT DEF UTF16_SURROGATE_CLAMP
<1>. QED BY <1>1, <1>2, <1>3, SMT DEF UTF16_SURROGATE_CLAMP

-----------------------------------------------------------------------------
(* The units written.                                                        *)
Byte == 0 .. 255
Word == 0 .. 65535

\* The next unit of a text is a unit.
LEMMA NextUnit ==
    ASSUME NEW S, NEW s \in Seq(S), NEW i \in Nat, i < Len(s)
    PROVE  s[i + 1] \in S
OBVIOUS

\* Sequences of up to four units.
LEMMA UpToFour ==
    ASSUME NEW S, NEW a \in S, NEW b \in S, NEW c \in S, NEW d \in S
    PROVE  /\ <<>> \in Seq(S) /\ <<a>> \in Seq(S) /\ <<a, b>> \in Seq(S)
           /\ <<a, b, c>> \in Seq(S) /\ <<a, b, c, d>> \in Seq(S)
OBVIOUS

\* Whatever is given to them, the encoders write units of their encoding.
LEMMA Encoded ==
    ASSUME NEW ch \in Nat
    PROVE  /\ EncodeU8(ch) \in Seq(Byte)
           /\ EncodeU16(ch) \in Seq(Word)
           /\ EncodeU32(ch) \in Seq(Nat)
<1>1. EncodeU8(ch) \in Seq(Byte)
  <2>1. Trail(ch) \in Byte /\ Trail(ch \div 64) \in Byte /\ Trail(ch \div 4096) \in Byte
    BY SMT DEF Trail, Byte
  <2>2. ch <= 127 => ch \in Byte
    BY SMT DEF Byte
  <2>3. ch <= WIDE_ENCODING_TO_UTF8_2 => 192 + (ch \div 64) \in Byte
    BY SMT DEF Byte, WIDE_ENCODING_TO_UTF8_2
  <2>4. ch <= WIDE_ENCODING_TO_UTF8_3 => 224 + (ch \div 4096) \in Byte
    BY SMT DEF Byte, WIDE_ENCODING_TO_UTF8_3
  <2>5. ch <= UTF_MAX_CODEPOINT => 240 + (ch \div (64 * 4096)) \in Byte
    BY SMT DEF Byte, UTF_MAX_CODEPOINT
  <2>6. 255 \in Byte /\ 221 \in Byte
    BY SMT DEF Byte
  <2>7. \/ ch <= 127
        \/ ch > 127 /\ ch <= WIDE_ENCODING_TO_UTF8_2
        \/ ch > WIDE_ENCODING_TO_UTF8_2 /\ ch <= WIDE_ENCODING_TO_UTF8_3
        \/ ch > WIDE_ENCODING_TO_UTF8_3 /\ ch <= UTF_MAX_CODEPOINT
        \/ ch > UTF_MAX_CODEPOINT
    BY Bounds, SMT
  <2>8. CASE ch <= 127
    <3>1. EncodeU8(ch) = <<ch>>
      BY <2>8, Shape, SMT
    <3>. QED BY <2>2, <2>8, <3>1, UpToFour, SMT
  <2>9. CASE ch > 127 /\ ch <= WIDE_ENCODING_TO_UTF8_2
    <3>1. EncodeU8(ch) = <<192 + (ch \div 64), Trail(ch)>>
      BY <2>9, Shape, SMT
    <3>. QED BY <2>1, <2>3, <2>9, <3>1, UpToFour, SMT
  <2>10. CASE ch > WIDE_ENCODING_TO_UTF8_2 /\ ch <= WIDE_ENCODING_TO_UTF8_3
    <3>1. EncodeU8(ch) = <<224 + (ch \div 4096), Trail(ch \div 64), Trail(ch)>>
      BY <2>10, Shape, SMT
    <3>. QED BY <2>1, <2>4, <2>10, <3>1, UpToFour, SMT
  <2>11. CASE ch > WIDE_ENCODING_TO_UTF8_3 /\ ch <= UTF_MAX_CODEPOINT
    <3>1. EncodeU8(ch) = <<240 + (ch \div (64 * 4096)), Trail(ch \div 4096), Trail(ch \div 64), Trail(ch)>>
      BY <2>11, Shape, SMT
    <3>. QED BY <2>1, <2>5, <2>11, <3>1, UpToFour, SMT
  <2>12. CASE ch > UTF_MAX_CODEPOINT
    <3>1. EncodeU8(ch) = <<255, 221>>
      BY <2>12, Shape, SMT DEF UTF8_REPLACEMENT_CHARACTER
    <3>. QED BY <2>6, <2>12, <3>1, UpToFour, SMT
  <2>. QED BY <2>7, <2>8, <2>9, <2>10, <2>11, <2>12, SMT
<1>2. EncodeU16(ch) \in Seq(Word)
  <2>1. ch % UTF16_SURROGATE_CLAMP \in Word
    BY SMT DEF Word, UTF16_SURROGATE_CLAMP
  <2>2. ch <= UTF_MAX_CODEPOINT => UTF16_HIGH_SURROGATE_MIN + (ch \div 1024) \in Word
    BY SMT DEF Word, UTF_MAX_CODEPOINT, UTF16_HIGH_SURROGATE_MIN
  <2>3. UTF16_LOW_SURROGATE_MIN + (ch % 1024) \in Word
    <3>1. ch % 1024 \in 0 .. 1023
      BY SMT
    <3>2. \A k \in 0 .. 1023 : UTF16_LOW_SURROGATE_MIN + k \in Word
      BY SMT DEF Word, UTF16_LOW_SURROGATE_MIN
    <3>. QED BY <3>1, <3>2, Zenon
  <2>4. 65501 \in Word
    BY SMT DEF Word
  <2>5. CASE ch > UTF_MAX_CODEPOINT
    <3>1. EncodeU16(ch) = <<65501>>
      BY <2>5, Bounds, SMT DEF EncodeU16, REPLACEMENT_CHARACTER
    <3>. QED BY <2>4, <3>1, UpToFour, SMT
  <2>6. CASE ch > UTF16_SURROGATE_CLAMP /\ ch <= UTF_MAX_CODEPOINT
    <3>1. EncodeU16(ch) = <<UTF16_HIGH_SURROGATE_MIN + (ch \div 1024), UTF16_LOW_SURROGATE_MIN + (ch % 1024)>>
      BY <2>6, Bounds, SMT DEF EncodeU16
    <3>. QED BY <2>2, <2>3, <2>6, <3>1, UpToFour, SMT
  <2>7. CASE ~(ch > UTF16_SURROGATE_CLAMP) /\ ~(ch > UTF_MAX_CODEPOINT)
    <3>1. EncodeU16(ch) = <<ch % UTF16_SURROGATE_CLAMP>>
      BY <2>7, SMT DEF EncodeU16
    <3>. QED BY <2>1, <3>1, UpToFour, SMT
  <2>8. ch > UTF_MAX_CODEPOINT \/ ch <= UTF_MAX_CODEPOINT
    BY Bounds, SMT
  <2>. QED BY <2>5, <2>6, <2>7, <2>8, SMT
<1>3. EncodeU32(ch) \in Seq(Nat)
  BY SMT DEF EncodeU32, REPLACEMENT_CHARACTER
<1>. QED BY <1>1, <1>2, <1>3

\* The units of the encodings, and the replacement characters among them.
LEMMA UnitsAre ==
    /\ Units("u8") = Byte /\ Units("u16") = Word /\ Units("u32") = Nat
    /\ UTF8_REPLACEMENT_CHARACTER \in Seq(Byte)
    /\ REPLACEMENT_CHARACTER \in Seq(Word) /\ REPLACEMENT_CHARACTER \in Seq(Nat)
<1>1. Units("u8") = Byte /\ Units("u16") = Word /\ Units("u32") = Nat
  BY SMT DEF Units, Byte, Word
<1>2. 255 \in Byte /\ 221 \in Byte /\ 65501 \in Word /\ 65501 \in Nat
  BY SMT DEF Byte, Word
<1>. QED BY <1>1, <1>2, UpToFour, SMT DEF UTF8_REPLACEMENT_CHARACTER, REPLACEMENT_CHARACTER

\* Units are numbers.
LEMMA UnitNumbers == Byte \subseteq Nat /\ Word \subseteq Nat
BY SMT DEF Byte, Word

\* A pair of units, surrogates or not, is the number of some character.
LEMMA PairBound ==
    ASSUME NEW high \in Word, NEW low \in Word
    PROVE  Pair(high, low) \in Nat
BY SMT DEF Pair, UTF16_SURROGATE_CLAMP, Word

\* What U16ToU8 writes for a high surrogate and the unit behind it.
LEMMA AfterHighBytes ==
    ASSUME NEW high \in Word, NEW low \in Word
    PROVE  AfterHigh(high, low) \in Seq(Byte)
<1>1. EncodeU8(Pair(high, low)) \in Seq(Byte) /\ <<>> \in Seq(Byte)
  BY PairBound, Encoded, SMT
<1>. QED BY <1>1, UnitsAre, SMT DEF AfterHigh, UTF16_LOW_SURROGATE_MIN, UTF16_HIGH_SURROGATE_MAX

\* What each conversion reads and writes.
LEMMA Signatures ==
    /\ From("U16ToU8") = "u16" /\ To("U16ToU8") = "u8"
    /\ From("U16ToU32") = "u16" /\ To("U16ToU32") = "u32"
    /\ From("U32ToU8") = "u32" /\ To("U32ToU8") = "u8"
    /\ From("U32ToU16") = "u32" /\ To("U32ToU16") = "u16"
    /\ From("U8ToU16") = "u8" /\ To("U8ToU16") = "u16"
    /\ From("U8ToU32") = "u8" /\ To("U8ToU32") = "u32"
BY DEF From, To

\* The conversion under way, what it reads and what it writes.
LEMMA Underway ==
    ASSUME TypeOK, pc # "ready"
    PROVE  /\ path # <<>> /\ Conversion \in Conversions
           /\ encoding = To(Conversion) /\ source \in Seq(Units(From(Conversion)))
BY SMT DEF TypeOK, Conversion

\* A turn of a loop writes units of the conversion's encoding.
LEMMA TurnTypes ==
    ASSUME TypeOK, pc = "turn", path # <<>>,
           NEW units \in Seq(Units(encoding)), NEW taken \in Nat, Turn(units, taken)
    PROVE  TypeOK'
BY SMT DEF TypeOK, Turn, Write, Unchanged, Conversion

-----------------------------------------------------------------------------
(* The standard's encoding of a text.                                        *)
\* The standard's encoding of a code point is what U32ToU8 writes for it.
LEMMA StandardIsU8 ==
    ASSUME NEW c \in Scalars
    PROVE  StandardU8(c) = EncodeU8(c)
<1>. c \in Nat /\ c <= UTF_MAX_CODEPOINT
  BY Bounds
<1>1. CASE c <= 127
  <2>1. EncodeU8(c) = <<c>>
    BY <1>1, Shape, SMT
  <2>2. c % 128 = c
    BY <1>1, SMT
  <2>3. StandardU8(c) = <<c>>
    BY <1>1, <2>2, SMT DEF StandardU8
  <2>. QED BY <2>1, <2>3
<1>2. CASE c > 127 /\ c <= WIDE_ENCODING_TO_UTF8_2
  <2>1. EncodeU8(c) = <<192 + (c \div 64), Trail(c)>>
    BY <1>2, Shape, SMT
  <2>2. (c \div 64) % 128 = c \div 64
    BY <1>2, SMT DEF WIDE_ENCODING_TO_UTF8_2
  <2>3. StandardU8(c) = <<192 + ((c \div 64) % 128), 128 + (c % 64)>>
    BY <1>2, SMT DEF StandardU8, WIDE_ENCODING_TO_UTF8_2
  <2>. QED BY <2>1, <2>2, <2>3, SMT DEF Trail
<1>3. CASE c > WIDE_ENCODING_TO_UTF8_2 /\ c <= WIDE_ENCODING_TO_UTF8_3
  <2>1. EncodeU8(c) = <<224 + (c \div 4096), Trail(c \div 64), Trail(c)>>
    BY <1>3, Shape, SMT
  <2>2. (c \div 4096) % 128 = c \div 4096
    BY <1>3, SMT DEF WIDE_ENCODING_TO_UTF8_3
  <2>3. StandardU8(c) = <<224 + ((c \div 4096) % 128), 128 + ((c \div 64) % 64), 128 + (c % 64)>>
    BY <1>3, SMT DEF StandardU8, WIDE_ENCODING_TO_UTF8_2, WIDE_ENCODING_TO_UTF8_3
  <2>. QED BY <2>1, <2>2, <2>3, SMT DEF Trail
<1>4. CASE c > WIDE_ENCODING_TO_UTF8_3
  <2>1. EncodeU8(c) = <<240 + (c \div (64 * 4096)), Trail(c \div 4096), Trail(c \div 64), Trail(c)>>
    BY <1>4, Shape, SMT
  <2>2. (c \div (64 * 4096)) % 128 = c \div (64 * 4096)
    BY <1>4, SMT DEF UTF_MAX_CODEPOINT
  <2>3. StandardU8(c) = <<240 + ((c \div (64 * 4096)) % 128), 128 + ((c \div 4096) % 64),
                          128 + ((c \div 64) % 64), 128 + (c % 64)>>
    BY <1>4, SMT DEF StandardU8, WIDE_ENCODING_TO_UTF8_3
  <2>. QED BY <2>1, <2>2, <2>3, SMT DEF Trail
<1>. QED BY <1>1, <1>2, <1>3, <1>4, SMT DEF WIDE_ENCODING_TO_UTF8_2, WIDE_ENCODING_TO_UTF8_3

\* A number of up to 16 bits is a unit of UTF-16.
LEMMA InWord ==
    ASSUME NEW y \in Nat, y <= 65535
    PROVE  y \in Word
<1>. DEFINE last == 65535
<1>1. last \in Nat /\ y <= last
  OBVIOUS
<1>. HIDE DEF last
<1>2. y \in 0 .. last
  BY <1>1
<1>. QED BY <1>2, SMT DEF last, Word

\* Surrogates are units of UTF-16.
LEMMA SurrogateWords ==
    ASSUME NEW x \in Nat, x < 1024
    PROVE  55296 + x \in Word /\ 56320 + x \in Word
<1>1. /\ 55296 + x \in Nat /\ 55296 + x <= 65535
      /\ 56320 + x \in Nat /\ 56320 + x <= 65535
  BY SMT
<1>. QED BY <1>1, InWord, SMT

\* The standard's encoding of a code point is a unit or more.
LEMMA CharacterUnits ==
    ASSUME NEW c \in Scalars, NEW enc \in Encodings
    PROVE  StandardCharacter(enc, c) \in Seq(Units(enc)) /\ Len(StandardCharacter(enc, c)) > 0
<1>. c \in Nat /\ c <= UTF_MAX_CODEPOINT
  BY Bounds
<1>1. CASE enc = "u8"
  <2>1. StandardCharacter(enc, c) = EncodeU8(c)
    BY <1>1, StandardIsU8 DEF StandardCharacter
  <2>2. Len(EncodeU8(c)) > 0
    BY CharacterU8, SMT DEF LegalSequence
  <2>. QED BY <1>1, <2>1, <2>2, Encoded, UnitsAre
<1>2. CASE enc = "u16"
  <2>1. StandardCharacter(enc, c) = StandardU16(c) /\ Units(enc) = Word
    BY <1>2, UnitsAre DEF StandardCharacter
  <2>2. CASE c < 65536
    <3>1. StandardU16(c) = <<c>> /\ c \in Word /\ Len(<<c>>) > 0
      BY <2>2, SMT DEF StandardU16, Word
    <3>2. <<c>> \in Seq(Word)
      BY <3>1, UpToFour, Zenon
    <3>. QED BY <2>1, <3>1, <3>2, Zenon
  <2>3. CASE ~(c < 65536)
    <3>. DEFINE high == 55296 + ((c - 65536) \div 1024)
                low == 56320 + ((c - 65536) % 1024)
    <3>1. StandardU16(c) = <<high, low>>
      BY <2>3, SMT DEF StandardU16
    <3>2. high \in Word /\ low \in Word
      <4>1. c - 65536 \in Nat /\ c - 65536 < 1024 * 1024
        BY <2>3, SMT DEF UTF_MAX_CODEPOINT
      <4>2. /\ (c - 65536) \div 1024 \in Nat /\ (c - 65536) \div 1024 < 1024
            /\ (c - 65536) % 1024 \in Nat /\ (c - 65536) % 1024 < 1024
        BY <4>1, SMT
      <4>. QED BY <4>2, SurrogateWords
    <3>. HIDE DEF high, low
    <3>3. <<high, low>> \in Seq(Word) /\ Len(<<high, low>>) > 0
      <4>1. Len(<<high, low>>) > 0
        BY SMT
      <4>. QED BY <3>2, <4>1, UpToFour, Zenon
    <3>. QED BY <2>1, <3>1, <3>3, Zenon
  <2>. QED BY <2>2, <2>3
<1>3. CASE enc = "u32"
  <2>1. StandardCharacter(enc, c) = <<c>> /\ Units(enc) = Nat
    BY <1>3, UnitsAre DEF StandardCharacter
  <2>2. <<c>> \in Seq(Nat) /\ Len(<<c>>) > 0
    BY SMT
  <2>. QED BY <2>1, <2>2, Zenon
<1>. QED BY <1>1, <1>2, <1>3 DEF Encodings

\* What the standard writes of the first k code points, for each k.
Parts(enc, cps) ==
    CHOOSE g \in [0 .. Len(cps) -> Seq(Units(enc))] :
        /\ g[0] = <<>> /\ g[Len(cps)] = Standard(enc, cps)
        /\ \A k \in 1 .. Len(cps) : g[k] = g[k - 1] \o StandardCharacter(enc, cps[k])

\* The text grows by one character at a time.
LEMMA PartsGrow ==
    ASSUME NEW enc \in Encodings, NEW cps \in Seq(Scalars)
    PROVE  /\ Parts(enc, cps) \in [0 .. Len(cps) -> Seq(Units(enc))]
           /\ Parts(enc, cps)[0] = <<>> /\ Parts(enc, cps)[Len(cps)] = Standard(enc, cps)
           /\ \A k \in 1 .. Len(cps) :
                Parts(enc, cps)[k] = Parts(enc, cps)[k - 1] \o StandardCharacter(enc, cps[k])
<1>. DEFINE texts == [i \in 1 .. Len(cps) |-> StandardCharacter(enc, cps[i])]
            Right(g) == /\ g[0] = <<>> /\ g[Len(cps)] = Standard(enc, cps)
                        /\ \A k \in 1 .. Len(cps) : g[k] = g[k - 1] \o StandardCharacter(enc, cps[k])
<1>1. \A i \in 1 .. Len(cps) : StandardCharacter(enc, cps[i]) \in Seq(Units(enc))
  <2>1. \A i \in 1 .. Len(cps) : cps[i] \in Scalars
    OBVIOUS
  <2>. QED BY <2>1, CharacterUnits
<1>2. texts \in Seq(Seq(Units(enc))) /\ Len(texts) = Len(cps)
  BY <1>1
<1>3. \E g \in [0 .. Len(cps) -> Seq(Units(enc))] : Right(g)
  <2>1. PICK g \in [0 .. Len(texts) -> Seq(Units(enc))] :
            /\ g[0] = <<>> /\ g[Len(texts)] = FlattenSeq(texts)
            /\ \A k \in 1 .. Len(texts) : g[k] = g[k - 1] \o texts[k]
    <3>. HIDE DEF texts
    <3>. QED BY <1>2, Flattened
  <2>2. \A k \in 1 .. Len(cps) : texts[k] = StandardCharacter(enc, cps[k])
    OBVIOUS
  <2>3. FlattenSeq(texts) = Standard(enc, cps)
    BY DEF Standard
  <2>. HIDE DEF texts
  <2>. QED BY <1>2, <2>1, <2>2, <2>3
<1>. HIDE DEF Right
<1>4. Parts(enc, cps) = CHOOSE g \in [0 .. Len(cps) -> Seq(Units(enc))] : Right(g)
  BY DEF Parts, Right
<1>5. Parts(enc, cps) \in [0 .. Len(cps) -> Seq(Units(enc))] /\ Right(Parts(enc, cps))
  BY <1>3, <1>4, Zenon
<1>. QED BY <1>5 DEF Right

\* The standard's encoding of a text is made of units of the encoding.
LEMMA StandardUnits ==
    ASSUME NEW enc \in Encodings, NEW cps \in Seq(Scalars)
    PROVE  Standard(enc, cps) \in Seq(Units(enc))
<1>. DEFINE g == Parts(enc, cps)
<1>1. g \in [0 .. Len(cps) -> Seq(Units(enc))] /\ g[Len(cps)] = Standard(enc, cps)
  BY PartsGrow
<1>2. Len(cps) \in 0 .. Len(cps)
  OBVIOUS
<1>. HIDE DEF g
<1>3. g[Len(cps)] \in Seq(Units(enc))
  BY <1>1, <1>2
<1>. QED BY <1>1, <1>3

\* One text behind another: the second begins where the first ends.
LEMMA Appended ==
    ASSUME NEW S, NEW s \in Seq(S), NEW t \in Seq(S)
    PROVE  /\ s \o t \in Seq(S) /\ Len(s \o t) = Len(s) + Len(t)
           /\ \A i \in 1 .. Len(s) : (s \o t)[i] = s[i]
           /\ \A i \in 1 .. Len(t) : (s \o t)[Len(s) + i] = t[i]
OBVIOUS

\* The character behind the first k ones is found behind what they take.
LEMMA NextCharacter ==
    ASSUME NEW enc \in Encodings, NEW cps \in Seq(Scalars), NEW k \in Nat, k < Len(cps)
    PROVE  LET s == Standard(enc, cps)
               taken == Len(Parts(enc, cps)[k])
               char == StandardCharacter(enc, cps[k + 1])
           IN /\ char \in Seq(Units(enc)) /\ Len(char) > 0
              /\ Parts(enc, cps)[k + 1] = Parts(enc, cps)[k] \o char
              /\ taken \in Nat /\ Len(Parts(enc, cps)[k + 1]) = taken + Len(char)
              /\ taken + Len(char) <= Len(s)
              /\ \A i \in 1 .. Len(char) : s[taken + i] = char[i]
<1>. DEFINE n == Len(cps)
            U == Units(enc)
            g == Parts(enc, cps)
            char(i) == StandardCharacter(enc, cps[i])
<1>1. n \in Nat /\ k + 1 \in 1 .. n /\ k \in 0 .. n /\ k + 1 \in 0 .. n
  BY SMT
<1>2. \A i \in 1 .. n : char(i) \in Seq(U) /\ Len(char(i)) > 0
  <2>1. \A i \in 1 .. n : cps[i] \in Scalars
    OBVIOUS
  <2>. QED BY <2>1, CharacterUnits
<1>3. /\ g \in [0 .. n -> Seq(U)] /\ g[n] = Standard(enc, cps)
      /\ \A i \in 1 .. n : g[i] = g[i - 1] \o char(i)
  BY PartsGrow
<1>. HIDE DEF n, U, g, char
<1>4. g[k] \in Seq(U) /\ g[k + 1] = g[k] \o char(k + 1) /\ g[k + 1] \in Seq(U)
  BY <1>1, <1>3, SMT
<1>5. /\ Len(g[k + 1]) = Len(g[k]) + Len(char(k + 1)) /\ Len(g[k]) \in Nat
      /\ \A i \in 1 .. Len(char(k + 1)) : g[k + 1][Len(g[k]) + i] = char(k + 1)[i]
  <2>1. char(k + 1) \in Seq(U)
    BY <1>1, <1>2
  <2>. DEFINE s == g[k]
              t == char(k + 1)
              st == g[k + 1]
  <2>2. s \in Seq(U) /\ t \in Seq(U) /\ st = s \o t
    BY <1>4, <2>1
  <2>. HIDE DEF s, t, st
  <2>3. Len(st) = Len(s) + Len(t) /\ Len(s) \in Nat /\ \A i \in 1 .. Len(t) : st[Len(s) + i] = t[i]
    BY <2>2, Appended, SMT
  <2>. QED BY <2>3 DEF s, t, st
<1>. DEFINE first == g[k + 1]
            Begins(t) == Len(first) <= Len(t) /\ \A i \in 1 .. Len(first) : t[i] = first[i]
            Extends == {j \in 0 .. n : j > k => Begins(g[j])}
<1>6. 0 \in Extends
  BY <1>1, SMT
<1>7. ASSUME NEW j \in 0 .. n - 1, j \in Extends PROVE j + 1 \in Extends
  <2>1. /\ j \in Nat /\ j \in 0 .. n /\ j + 1 \in 0 .. n /\ j + 1 \in 1 .. n /\ (j + 1) - 1 = j
    BY <1>1, SMT
  <2>2. CASE j < k
    BY <1>1, <2>1, <2>2, SMT
  <2>3. CASE j = k
    <3>1. g[j + 1] = first
      BY <2>3
    <3>2. Begins(first)
      BY <1>4, SMT
    <3>. QED BY <2>1, <3>1, <3>2
  <2>4. CASE j > k
    <3>1. Begins(g[j])
      BY <1>7, <2>4
    <3>2. g[j] \in Seq(U) /\ char(j + 1) \in Seq(U) /\ g[j + 1] = g[j] \o char(j + 1)
      BY <1>2, <1>3, <2>1
    <3>3. first \in Seq(U)
      BY <1>4
    <3>. HIDE DEF first
    <3>4. Len(g[j + 1]) = Len(g[j]) + Len(char(j + 1)) /\ \A i \in 1 .. Len(g[j]) : g[j + 1][i] = g[j][i]
      <4>. DEFINE s == g[j]
                  t == char(j + 1)
                  st == g[j + 1]
      <4>1. s \in Seq(U) /\ t \in Seq(U) /\ st = s \o t
        BY <3>2
      <4>. HIDE DEF s, t, st
      <4>2. Len(st) = Len(s) + Len(t) /\ \A i \in 1 .. Len(s) : st[i] = s[i]
        BY <4>1, Appended, SMT
      <4>. QED BY <4>2 DEF s, t, st
    <3>5. Len(g[j]) \in Nat /\ Len(char(j + 1)) \in Nat /\ Len(first) \in Nat
      BY <3>2, <3>3, SMT
    <3>6. \A i \in 1 .. Len(first) : i \in 1 .. Len(g[j])
      BY <3>1, <3>5, SMT
    <3>7. \A i \in 1 .. Len(first) : g[j + 1][i] = first[i]
      BY <3>1, <3>4, <3>6, Zenon
    <3>8. Len(first) <= Len(g[j + 1])
      <4>. DEFINE a == Len(g[j])
                  b == Len(char(j + 1))
                  c == Len(g[j + 1])
                  d == Len(first)
      <4>1. a \in Nat /\ b \in Nat /\ d \in Nat /\ d <= a /\ c = a + b
        BY <3>1, <3>4, <3>5
      <4>. HIDE DEF a, b, c, d
      <4>2. d <= c
        BY <4>1, SMT
      <4>. QED BY <4>2 DEF c, d
    <3>9. Begins(g[j + 1])
      BY <3>7, <3>8
    <3>. QED BY <2>1, <3>9
  <2>. QED BY <1>1, <2>1, <2>2, <2>3, <2>4, SMT
<1>8. Begins(g[n])
  <2>. HIDE DEF Extends
  <2>1. \A j \in 0 .. n : j \in Extends
    BY <1>1, <1>6, <1>7, InductionUpTo
  <2>2. n \in Extends /\ n > k
    BY <1>1, <2>1, SMT
  <2>. QED BY <2>2 DEF Extends
<1>9. \A i \in 1 .. Len(char(k + 1)) : g[n][Len(g[k]) + i] = char(k + 1)[i]
  <2>1. char(k + 1) \in Seq(U)
    BY <1>1, <1>2
  <2>2. \A i \in 1 .. Len(char(k + 1)) : Len(g[k]) + i \in 1 .. Len(first)
    <3>1. Len(first) = Len(g[k]) + Len(char(k + 1)) /\ Len(g[k]) \in Nat /\ Len(char(k + 1)) \in Nat
      BY <1>5, <2>1
    <3>. DEFINE a == Len(g[k])
                b == Len(char(k + 1))
                c == Len(first)
    <3>2. a \in Nat /\ b \in Nat /\ c = a + b
      BY <3>1
    <3>. HIDE DEF a, b, c
    <3>3. \A i \in 1 .. b : a + i \in 1 .. c
      BY <3>2, SMT
    <3>. QED BY <3>3 DEF a, b, c
  <2>. QED BY <1>5, <1>8, <2>2
<1>. QED BY <1>1, <1>2, <1>3, <1>4, <1>5, <1>8, <1>9 DEF g, U, char

-----------------------------------------------------------------------------
(* Types.                                                                    *)
\* Texts are handed over in units of their encoding.
LEMMA InitTypes == Init => TypeOK
<1>. SUFFICES ASSUME Init PROVE TypeOK
  OBVIOUS
<1>1. text \in [codePoints : Seq(Scalars), known : BOOLEAN]
  <2>1. <<>> \in Seq(Scalars) /\ Texts \subseteq Seq(Scalars)
    BY UtfAssumption
  <2>2. CASE text = NoText
    BY <2>1, <2>2, SMT DEF NoText
  <2>3. CASE \E t \in Texts : text = [codePoints |-> t, known |-> TRUE]
    BY <2>1, <2>3, SMT
  <2>. QED BY <2>2, <2>3, Zenon DEF Init
<1>2. encoding \in Encodings /\ out \in Seq(Units(encoding))
  <2>1. ASSUME NEW t \in Texts, NEW e \in Encodings PROVE Standard(e, t) \in Seq(Units(e))
    <3>1. t \in Seq(Scalars)
      BY UtfAssumption
    <3>. QED BY <3>1, StandardUnits
  <2>. QED BY <2>1, UtfAssumption, Zenon DEF Init
<1>. QED BY <1>1, <1>2, SMT DEF Init, TypeOK

\* Every turn of every loop writes units of the encoding it writes to.
LEMMA StepTypes == TypeOK /\ [Next]_vars => TypeOK'
<1>. SUFFICES ASSUME TypeOK, [Next]_vars PROVE TypeOK'
  OBVIOUS
<1>1. ASSUME NEW conversion \in Conversions, Convert(conversion) PROVE TypeOK'
  <2>1. path' \in Seq(Conversions) /\ path' # <<>> /\ path'[Len(path')] = conversion
    BY <1>1, SMT DEF Convert, TypeOK
  <2>2. To(conversion) \in Encodings
    BY SMT DEF To, Conversions, Encodings
  <2>3. source' \in Seq(Units(From(conversion))) /\ out' = <<>> /\ encoding' = To(conversion)
    BY <1>1, SMT DEF Convert, TypeOK
  <2>. QED BY <1>1, <2>1, <2>2, <2>3, SMT DEF Convert, TypeOK, Conversion
<1>2. CASE Return
  BY <1>2, SMT DEF Return, TypeOK, Conversion
<1>3. CASE U32ToU8
  <2>1. pc = "turn" /\ pos \in Nat /\ pos < Len(source) /\ Conversion = "U32ToU8"
    BY <1>3, SMT DEF U32ToU8, Under, TypeOK
  <2>2. path # <<>> /\ encoding = "u8" /\ source \in Seq(Nat)
    BY <2>1, Underway, Signatures, UnitsAre, SMT
  <2>3. Unit(pos) \in Nat
    BY <2>1, <2>2, NextUnit DEF Unit
  <2>4. EncodeU8(Unit(pos)) \in Seq(Units(encoding))
    BY <2>2, <2>3, Encoded, UnitsAre
  <2>5. Turn(EncodeU8(Unit(pos)), 1) /\ 1 \in Nat
    BY <1>3 DEF U32ToU8
  <2>. QED BY <2>1, <2>2, <2>4, <2>5, TurnTypes, Zenon
<1>4. CASE U32ToU16
  <2>1. pc = "turn" /\ pos \in Nat /\ pos < Len(source) /\ Conversion = "U32ToU16"
    BY <1>4, SMT DEF U32ToU16, Under, TypeOK
  <2>2. path # <<>> /\ encoding = "u16" /\ source \in Seq(Nat)
    BY <2>1, Underway, Signatures, UnitsAre, SMT
  <2>3. Unit(pos) \in Nat
    BY <2>1, <2>2, NextUnit DEF Unit
  <2>4. EncodeU16(Unit(pos)) \in Seq(Units(encoding))
    BY <2>2, <2>3, Encoded, UnitsAre
  <2>5. Turn(EncodeU16(Unit(pos)), 1) /\ 1 \in Nat
    BY <1>4 DEF U32ToU16
  <2>. QED BY <2>1, <2>2, <2>4, <2>5, TurnTypes, Zenon
<1>5. CASE U16ToU8
  <2>1. pc = "turn" /\ pos \in Nat /\ pos < Len(source) /\ Conversion = "U16ToU8"
    BY <1>5, SMT DEF U16ToU8, Under, TypeOK
  <2>2. path # <<>> /\ encoding = "u8" /\ source \in Seq(Word)
    BY <2>1, Underway, Signatures, UnitsAre, SMT
  <2>3. Unit(pos) \in Word /\ (pos + 1 # Len(source) => Unit(pos + 1) \in Word)
    BY <2>1, <2>2, NextUnit, SMT DEF Unit
  <2>4. EncodeU8(Unit(pos)) \in Seq(Units(encoding)) /\ UTF8_REPLACEMENT_CHARACTER \in Seq(Units(encoding))
    BY <2>2, <2>3, Encoded, UnitsAre, UnitNumbers, Zenon
  <2>5. pos + 1 # Len(source) => AfterHigh(Unit(pos), Unit(pos + 1)) \in Seq(Units(encoding))
    BY <2>2, <2>3, AfterHighBytes, UnitsAre
  <2>6. 1 \in Nat /\ 2 \in Nat
    OBVIOUS
  <2>7. \/ Turn(EncodeU8(Unit(pos)), 1) \/ Turn(UTF8_REPLACEMENT_CHARACTER, 1)
        \/ Turn(UTF8_REPLACEMENT_CHARACTER, 2)
        \/ pos + 1 # Len(source) /\ Turn(AfterHigh(Unit(pos), Unit(pos + 1)), 2)
    BY <1>5, SMT DEF U16ToU8
  <2>. QED BY <2>1, <2>2, <2>4, <2>5, <2>6, <2>7, TurnTypes, Zenon
<1>6. CASE U16ToU32
  <2>1. pc = "turn" /\ pos \in Nat /\ pos < Len(source) /\ Conversion = "U16ToU32"
    BY <1>6, SMT DEF U16ToU32, Under, TypeOK
  <2>2. path # <<>> /\ encoding = "u32" /\ source \in Seq(Word)
    BY <2>1, Underway, Signatures, UnitsAre, SMT
  <2>3. Unit(pos) \in Word /\ (pos + 1 < Len(source) => Unit(pos + 1) \in Word)
    BY <2>1, <2>2, NextUnit, SMT DEF Unit
  <2>4. <<Unit(pos)>> \in Seq(Units(encoding)) /\ REPLACEMENT_CHARACTER \in Seq(Units(encoding))
    BY <2>2, <2>3, UnitNumbers, UnitsAre, UpToFour, Zenon
  <2>5. pos + 1 < Len(source) => EncodeU32(Pair(Unit(pos), Unit(pos + 1))) \in Seq(Units(encoding))
    BY <2>2, <2>3, PairBound, Encoded, UnitsAre, Zenon
  <2>6. 1 \in Nat /\ 2 \in Nat
    OBVIOUS
  <2>7. \/ Turn(<<Unit(pos)>>, 1) \/ Turn(REPLACEMENT_CHARACTER, 1)
        \/ Turn(IF pos + 1 < Len(source) /\ IsLow(Unit(pos + 1))
                THEN EncodeU32(Pair(Unit(pos), Unit(pos + 1))) ELSE REPLACEMENT_CHARACTER, 2)
    BY <1>6, Zenon DEF U16ToU32
  <2>8. CASE Turn(<<Unit(pos)>>, 1)
    BY <2>1, <2>2, <2>4, <2>6, <2>8, TurnTypes, Zenon
  <2>9. CASE Turn(REPLACEMENT_CHARACTER, 1)
    BY <2>1, <2>2, <2>4, <2>6, <2>9, TurnTypes, Zenon
  <2>10. CASE Turn(IF pos + 1 < Len(source) /\ IsLow(Unit(pos + 1))
                   THEN EncodeU32(Pair(Unit(pos), Unit(pos + 1))) ELSE REPLACEMENT_CHARACTER, 2)
    <3>. DEFINE written == IF pos + 1 < Len(source) /\ IsLow(Unit(pos + 1))
                           THEN EncodeU32(Pair(Unit(pos), Unit(pos + 1))) ELSE REPLACEMENT_CHARACTER
    <3>1. written \in Seq(Units(encoding))
      BY <2>4, <2>5
    <3>2. Turn(written, 2)
      BY <2>10
    <3>. HIDE DEF written
    <3>. QED BY <2>1, <2>2, <2>6, <3>1, <3>2, TurnTypes, Zenon
  <2>. QED BY <2>7, <2>8, <2>9, <2>10
<1>7. CASE LeadByte
  <2>1. /\ pc = "turn" /\ pos \in Nat /\ pos < Len(source) /\ Conversion \in {"U8ToU16", "U8ToU32"}
        /\ cp \in Nat /\ cpLength \in Nat /\ out \in Seq(Units(encoding))
    BY <1>7, SMT DEF LeadByte, Under, TypeOK
  <2>2. path # <<>> /\ encoding \in {"u16", "u32"} /\ source \in Seq(Byte)
    BY <2>1, Underway, Signatures, UnitsAre, SMT
  <2>3. Unit(pos) \in Byte
    BY <2>1, <2>2, NextUnit DEF Unit
  <2>4. out \o REPLACEMENT_CHARACTER \in Seq(Units(encoding))
    BY <2>1, <2>2, UnitsAre, SMT
  <2>5. IsLead(Unit(pos)) => LeadBits(Unit(pos)) \in Nat /\ Following(Unit(pos)) \in 0 .. 3
    BY <2>3, SMT DEF IsLead, LeadBits, Following
  <2>6. pos' = pos + 1 /\ UNCHANGED <<text, encoding, source, path>>
    BY <1>7, SMT DEF LeadByte, Unchanged
  <2>7. CASE ~IsLead(Unit(pos))
    <3>1. out' = out \o REPLACEMENT_CHARACTER /\ UNCHANGED <<cp, cpLength, pc>>
      BY <1>7, <2>7, SMT DEF LeadByte, Write
    <3>. QED BY <2>1, <2>2, <2>4, <2>6, <3>1, SMT DEF TypeOK, Conversion
  <2>8. CASE IsLead(Unit(pos))
    <3>. DEFINE length == cpLength + Following(Unit(pos))
    <3>1. /\ cp' = LeadBits(Unit(pos)) /\ cpLength' = length
          /\ IF pos + length >= Len(source)
             THEN out' = out \o REPLACEMENT_CHARACTER /\ pc' = pc
             ELSE pc' = (IF length > 0 THEN "trail" ELSE "encode") /\ out' = out
      BY <1>7, <2>8, SMT DEF LeadByte, Write
    <3>2. length \in Nat
      BY <2>1, <2>5, <2>8, SMT
    <3>. HIDE DEF length
    <3>3. out' \in Seq(Units(encoding))
      BY <2>1, <2>4, <3>1, Zenon
    <3>4. pc' \in {"turn", "trail", "encode"} /\ (pc' = "trail" => length > 0)
      BY <2>1, <3>1, <3>2, SMT
    <3>. QED BY <2>1, <2>2, <2>5, <2>6, <2>8, <3>1, <3>2, <3>3, <3>4, SMT DEF TypeOK, Conversion
  <2>. QED BY <2>7, <2>8
<1>8. CASE TrailingByte
  <2>1. /\ pc = "trail" /\ pos \in Nat /\ pos < Len(source) /\ path # <<>>
        /\ cp \in Nat /\ cpLength \in Nat /\ cpLength > 0 /\ out \in Seq(Units(encoding))
        /\ Conversion \in {"U8ToU16", "U8ToU32"}
    BY <1>8, SMT DEF TrailingByte, TypeOK
  <2>2. source \in Seq(Byte) /\ encoding \in {"u16", "u32"}
    BY <2>1, Underway, Signatures, UnitsAre, SMT
  <2>3. Unit(pos) \in Nat
    <3>1. Unit(pos) \in Byte
      BY <2>1, <2>2, NextUnit DEF Unit
    <3>. QED BY <3>1, UnitNumbers
  <2>4. Joined(cp, Unit(pos)) \in Nat
    BY <2>1, <2>3, SMT DEF Joined
  <2>5. out \o REPLACEMENT_CHARACTER \in Seq(Units(encoding))
    BY <2>1, <2>2, UnitsAre, SMT
  <2>6. /\ cpLength' = cpLength - 1 /\ pc' = IF cpLength = 1 THEN "encode" ELSE "trail"
    BY <1>8, SMT DEF TrailingByte
  <2>7. UNCHANGED <<text, encoding, source, path>>
    BY <1>8, SMT DEF TrailingByte, Unchanged
  <2>8. pos' \in Nat /\ cp' \in Nat /\ out' \in Seq(Units(encoding))
    <3>1. CASE CheckTrailingByte(Unit(pos))
      <4>1. cp' = Joined(cp, Unit(pos)) /\ pos' = pos + 1 /\ out' = out
        BY <1>8, <3>1, Zenon DEF TrailingByte
      <4>. QED BY <2>1, <2>4, <4>1, SMT
    <3>2. CASE ~CheckTrailingByte(Unit(pos))
      <4>1. out' = out \o REPLACEMENT_CHARACTER /\ pos' = pos + 1 + cpLength /\ cp' = cp
        BY <1>8, <3>2, Zenon DEF TrailingByte, Write
      <4>. QED BY <2>1, <2>5, <4>1, SMT
    <3>. QED BY <3>1, <3>2
  <2>. QED BY <2>1, <2>6, <2>7, <2>8, SMT DEF TypeOK, Conversion
<1>9. CASE Overread
  BY <1>9, SMT DEF Overread, TypeOK, Conversion
<1>10. CASE EncodePoint
  <2>1. /\ pc = "encode" /\ path # <<>> /\ cp \in Nat /\ out \in Seq(Units(encoding))
        /\ Conversion \in {"U8ToU16", "U8ToU32"}
    BY <1>10, SMT DEF EncodePoint, TypeOK
  <2>2. encoding = To(Conversion)
    BY <2>1, Underway, SMT
  <2>3. (IF Conversion = "U8ToU16" THEN EncodeU16(cp) ELSE EncodeU32(cp)) \in Seq(Units(encoding))
    BY <2>1, <2>2, Signatures, Encoded, UnitsAre, Zenon
  <2>4. out' \in Seq(Units(encoding)) /\ pc' = "turn" /\ UNCHANGED <<text, encoding, source, path, pos, cp, cpLength>>
    BY <1>10, <2>1, <2>3, SMT DEF EncodePoint, Write, Unchanged
  <2>. QED BY <2>1, <2>4, SMT DEF TypeOK, Conversion
<1>11. CASE Terminated \/ UNCHANGED vars
  BY <1>11, SMT DEF Terminated, vars, TypeOK, Conversion
<1>. QED BY <1>1, <1>2, <1>3, <1>4, <1>5, <1>6, <1>7, <1>8, <1>9, <1>10, <1>11 DEF Next

\* Whatever is converted, malformed text included: the units written fit their
\* encoding, and trailing bytes are read only while some are due (UtfHelper.h).
THEOREM Types == Spec => []TypeOK
BY InitTypes, StepTypes, PTL DEF Spec

-----------------------------------------------------------------------------
(* A conversion under way.                                                   *)
Cps == text.codePoints

\* The code point as far as the first j bytes give it.
Collected(b, j) ==
    CASE j = 1 -> LeadBits(b[1])
      [] j = 2 -> Joined(LeadBits(b[1]), b[2])
      [] j = 3 -> Joined(Joined(LeadBits(b[1]), b[2]), b[3])
      [] j = 4 -> Joined(Joined(Joined(LeadBits(b[1]), b[2]), b[3]), b[4])

\* The first k characters are taken; so many are written.
Taken(k) == Len(Parts(From(Conversion), Cps)[k])
IsWritten(k) == out = Parts(To(Conversion), Cps)[k]

\* Between two characters, between two bytes of one, and at the end of one.
Between(k) == k \in 0 .. Len(Cps) /\ pos = Taken(k) /\ IsWritten(k) /\ cpLength = 0
Inside(k, j) ==
    LET b == StandardU8(Cps[k + 1]) IN
    /\ k \in 0 .. Len(Cps) - 1 /\ j \in 1 .. Len(b) - 1
    /\ pos = Taken(k) + j /\ cpLength = Len(b) - j /\ cp = Collected(b, j) /\ IsWritten(k)
Behind(k) ==
    /\ k \in 0 .. Len(Cps) - 1
    /\ pos = Taken(k + 1) /\ cpLength = 0 /\ cp = Cps[k + 1] /\ IsWritten(k)

\* What is taken and what is written are the same characters.
Follows ==
    /\ pc # "overread"
    /\ pc = "ready" => out = Standard(encoding, Cps)
    /\ pc # "ready" => source = Standard(From(Conversion), Cps)
    /\ pc = "turn" => \E k \in Nat : Between(k)
    /\ pc = "trail" => \E k, j \in Nat : Inside(k, j)
    /\ pc = "encode" => \E k \in Nat : Behind(k)
Faithful == text.known /\ ~Diverges
FaithfulInv == Faithful => Follows

\* The text is a text, and a conversion goes from an encoding to an encoding.
LEMMA Known ==
    ASSUME TypeOK
    PROVE  /\ Cps \in Seq(Scalars) /\ Len(Cps) \in Nat
           /\ \A i \in 1 .. Len(Cps) : Cps[i] \in Scalars
           /\ encoding \in Encodings
           /\ pc # "ready" =>
                /\ From(Conversion) \in Encodings /\ To(Conversion) \in Encodings
                /\ encoding = To(Conversion)
<1>1. Cps \in Seq(Scalars) /\ encoding \in Encodings
  BY SMT DEF TypeOK, Cps
<1>2. \A c \in Conversions : From(c) \in Encodings /\ To(c) \in Encodings
  BY Signatures, SMT DEF Conversions, Encodings
<1>3. pc # "ready" => Conversion \in Conversions /\ encoding = To(Conversion)
  BY Underway, SMT
<1>. QED BY <1>1, <1>2, <1>3, SMT

\* What AsUnicode leaves out: no character behind 0xFFFF goes into UTF-16, and
\* none behind 0xD7FF comes out of it.
LEMMA InReach ==
    ASSUME TypeOK, Faithful, pc # "ready", NEW i \in 1 .. Len(Cps)
    PROVE  /\ To(Conversion) = "u16" => Cps[i] < UTF16_SURROGATE_CLAMP
           /\ From(Conversion) = "u16" => Cps[i] < UTF16_HIGH_SURROGATE_MIN
<1>1. path \in Seq(Conversions) /\ path # <<>>
  BY Underway, SMT DEF TypeOK
<1>2. Len(path) \in 1 .. Len(path)
  BY <1>1, SMT
<1>3. Cps[i] \in Nat
  BY Known, Bounds
<1>4. To(Conversion) = "u16" => Into16
  BY <1>2, Zenon DEF Into16, Conversion
<1>5. From(Conversion) = "u16" => Through({"u16"})
  BY <1>2, SMT DEF Through, Conversion
<1>6. /\ ~(Cps[i] >= UTF16_SURROGATE_CLAMP /\ Into16)
      /\ ~(Cps[i] >= UTF16_HIGH_SURROGATE_MIN /\ Through({"u16"}))
  BY Zenon DEF Faithful, Diverges, Cps
<1>. QED BY <1>3, <1>4, <1>5, <1>6, SMT DEF UTF16_SURROGATE_CLAMP, UTF16_HIGH_SURROGATE_MIN

\* The next character is in front of the conversion, whole.
LEMMA Ahead ==
    ASSUME TypeOK, Faithful, Follows, pc # "ready", NEW k \in Nat, k < Len(Cps)
    PROVE  LET char == StandardCharacter(From(Conversion), Cps[k + 1]) IN
           /\ Cps[k + 1] \in Scalars /\ Len(char) \in Nat /\ Len(char) > 0
           /\ Taken(k) \in Nat /\ Taken(k + 1) = Taken(k) + Len(char)
           /\ Taken(k) + Len(char) <= Len(source)
           /\ \A i \in 1 .. Len(char) : source[Taken(k) + i] = char[i]
<1>1. /\ Cps \in Seq(Scalars) /\ From(Conversion) \in Encodings /\ Cps[k + 1] \in Scalars
      /\ source = Standard(From(Conversion), Cps)
  BY Known, SMT DEF Follows
<1>2. \A s : \A t \in Seq(s) : Len(t) \in Nat
  OBVIOUS
<1>. QED BY <1>1, <1>2, NextCharacter DEF Taken

\* The loop has come to the end of the text when every character is taken.
LEMMA AtTheEnd ==
    ASSUME TypeOK, Faithful, Follows, pc # "ready", NEW k \in 0 .. Len(Cps)
    PROVE  Taken(k) >= Len(source) <=> k = Len(Cps)
<1>1. CASE k < Len(Cps)
  <2>1. k \in Nat /\ k # Len(Cps) /\ Len(Cps) \in Nat
    BY <1>1, Known, SMT
  <2>. DEFINE a == Taken(k)
              b == Len(StandardCharacter(From(Conversion), Cps[k + 1]))
              c == Len(source)
  <2>2. a \in Nat /\ b \in Nat /\ b > 0 /\ a + b <= c
    BY <1>1, <2>1, Ahead
  <2>3. c \in Nat
    BY Underway, SMT
  <2>. HIDE DEF a, b, c
  <2>4. ~(a >= c)
    BY <2>2, <2>3, SMT
  <2>. QED BY <2>1, <2>4 DEF a, c
<1>2. CASE k = Len(Cps)
  <2>1. Taken(k) = Len(source) /\ Len(source) \in Nat
    <3>1. Len(source) \in Nat
      BY Underway, SMT
    <3>2. Cps \in Seq(Scalars) /\ From(Conversion) \in Encodings
      BY Known
    <3>3. Parts(From(Conversion), Cps)[Len(Cps)] = Standard(From(Conversion), Cps)
      BY <3>2, PartsGrow
    <3>4. source = Standard(From(Conversion), Cps)
      BY DEF Follows
    <3>. QED BY <1>2, <3>1, <3>3, <3>4 DEF Taken
  <2>. QED BY <1>2, <2>1, SMT
<1>. QED BY <1>1, <1>2, Known, SMT

-----------------------------------------------------------------------------
(* The loops.                                                                *)
\* At the head of a loop that goes on, between two characters.
LEMMA NextTurn ==
    ASSUME TypeOK, Faithful, Follows, pc = "turn", pos < Len(source)
    PROVE  \E k \in Nat : k < Len(Cps) /\ Between(k)
<1>1. PICK k \in Nat : Between(k)
  BY SMT DEF Follows
<1>2. k \in 0 .. Len(Cps) /\ pos = Taken(k)
  BY <1>1 DEF Between
<1>3. Len(Cps) \in Nat /\ Len(source) \in Nat /\ pos \in Nat
  BY Known, Underway, SMT DEF TypeOK
<1>4. ~(Taken(k) >= Len(source))
  BY <1>2, <1>3, SMT
<1>5. k # Len(Cps)
  BY <1>2, <1>4, AtTheEnd
<1>. QED BY <1>1, <1>2, <1>3, <1>5, SMT

\* What a step that keeps the text and the conversion leaves as it was.
LEMMA SameText ==
    ASSUME Unchanged
    PROVE  /\ Faithful' <=> Faithful
           /\ Cps' = Cps /\ Conversion' = Conversion /\ source' = source
           /\ \A k : Taken(k)' = Taken(k)
BY Zenon DEF Unchanged, Faithful, Diverges, Into16, Through, Cps, Conversion, Taken

\* A character is written as the standard says and taken: the conversion is
\* between two characters again.
LEMMA CharacterDone ==
    ASSUME TypeOK, Faithful, Follows, pc # "ready", Unchanged,
           NEW k \in Nat, k < Len(Cps), IsWritten(k),
           out' = out \o StandardCharacter(To(Conversion), Cps[k + 1]),
           pos' = Taken(k + 1), cpLength' = 0, pc' = "turn"
    PROVE  Follows'
<1>1. Cps \in Seq(Scalars) /\ Len(Cps) \in Nat /\ To(Conversion) \in Encodings
  BY Known
<1>2. /\ Cps' = Cps /\ Conversion' = Conversion /\ source' = source
      /\ Taken(k + 1)' = Taken(k + 1)
  BY SameText
<1>3. Parts(To(Conversion), Cps)[k + 1] = out'
  BY <1>1, NextCharacter DEF IsWritten
<1>4. IsWritten(k + 1)'
  BY <1>2, <1>3 DEF IsWritten
<1>5. k + 1 \in Nat /\ k + 1 \in 0 .. Len(Cps)
  BY <1>1, SMT
<1>6. Between(k + 1)'
  BY <1>2, <1>4, <1>5 DEF Between
<1>7. source' = Standard(From(Conversion)', Cps')
  BY <1>2 DEF Follows
<1>. QED BY <1>5, <1>6, <1>7 DEF Follows

\* So does a turn of a loop that takes a whole character and writes it.
LEMMA TurnDone ==
    ASSUME TypeOK, Faithful, Follows, pc = "turn", NEW k \in Nat, k < Len(Cps), Between(k),
           NEW units, NEW taken, Turn(units, taken),
           units = StandardCharacter(To(Conversion), Cps[k + 1]),
           taken = Len(StandardCharacter(From(Conversion), Cps[k + 1]))
    PROVE  Follows'
<1>1. pc # "ready"
  OBVIOUS
<1>2. /\ Unchanged /\ out' = out \o units /\ pos' = pos + taken
      /\ cpLength' = cpLength /\ pc' = "turn"
  BY Zenon DEF Turn, Write
<1>3. pos = Taken(k) /\ IsWritten(k) /\ cpLength = 0
  BY DEF Between
<1>4. Taken(k + 1) = Taken(k) + taken
  BY <1>1, Ahead
<1>. QED BY <1>1, <1>2, <1>3, <1>4, CharacterDone

\* One unit of UTF-32, or of UTF-16 in front of the surrogates, is a character.
LEMMA OneUnit ==
    ASSUME TypeOK, Faithful, Follows, pc = "turn", pos < Len(source),
           From(Conversion) \in {"u16", "u32"}
    PROVE  \E k \in Nat :
              /\ k < Len(Cps) /\ Between(k) /\ Cps[k + 1] \in Scalars /\ Unit(pos) = Cps[k + 1]
              /\ 1 = Len(StandardCharacter(From(Conversion), Cps[k + 1]))
              /\ To(Conversion) = "u16" => Cps[k + 1] < UTF16_SURROGATE_CLAMP
              /\ From(Conversion) = "u16" => Cps[k + 1] < UTF16_HIGH_SURROGATE_MIN
<1>1. PICK k \in Nat : k < Len(Cps) /\ Between(k)
  BY NextTurn
<1>. DEFINE c == Cps[k + 1]
<1>2. k + 1 \in 1 .. Len(Cps)
  BY <1>1, Known, SMT
<1>3. c \in Scalars /\ c \in Nat
  BY <1>2, Known, Bounds
<1>4. /\ To(Conversion) = "u16" => c < UTF16_SURROGATE_CLAMP
      /\ From(Conversion) = "u16" => c < UTF16_HIGH_SURROGATE_MIN
  BY <1>2, InReach
<1>5. StandardCharacter(From(Conversion), c) = <<c>>
  <2>1. From(Conversion) = "u16" => StandardU16(c) = <<c>>
    BY <1>3, <1>4, SMT DEF StandardU16, UTF16_HIGH_SURROGATE_MIN
  <2>. QED BY <2>1 DEF StandardCharacter
<1>6. Len(<<c>>) = 1 /\ <<c>>[1] = c /\ 1 \in 1 .. Len(<<c>>)
  BY SMT
<1>7. source[Taken(k) + 1] = c
  BY <1>1, <1>5, <1>6, Ahead
<1>8. Unit(pos) = c
  BY <1>1, <1>7 DEF Between, Unit
<1>. QED BY <1>1, <1>3, <1>4, <1>5, <1>6, <1>8

\* A unit in front of the surrogates is not behind them nor among them.
LEMMA BeforeSurrogates ==
    ASSUME NEW c \in Nat, c < UTF16_HIGH_SURROGATE_MIN
    PROVE  ~(c > UTF16_HIGH_SURROGATE_MAX) /\ ~IsHigh(c)
<1>1. /\ UTF16_HIGH_SURROGATE_MIN \in Nat /\ UTF16_HIGH_SURROGATE_MAX \in Nat
      /\ UTF16_HIGH_SURROGATE_MIN < UTF16_HIGH_SURROGATE_MAX
  BY SMT DEF UTF16_HIGH_SURROGATE_MIN, UTF16_HIGH_SURROGATE_MAX
<1>. QED BY <1>1, SMT DEF IsHigh

\* U32ToU8, U32ToU16, U16ToU8 and U16ToU32 write the character they take.
LEMMA UnitsConverted ==
    ASSUME TypeOK, Faithful, Follows, U32ToU8 \/ U32ToU16 \/ U16ToU8 \/ U16ToU32
    PROVE  Follows'
<1>1. /\ pc = "turn" /\ pos < Len(source)
      /\ Conversion \in {"U32ToU8", "U32ToU16", "U16ToU8", "U16ToU32"}
  BY Zenon DEF U32ToU8, U32ToU16, U16ToU8, U16ToU32, Under
<1>2. From(Conversion) \in {"u16", "u32"}
  BY <1>1, Signatures
<1>3. PICK k \in Nat :
        /\ k < Len(Cps) /\ Between(k) /\ Cps[k + 1] \in Scalars /\ Unit(pos) = Cps[k + 1]
        /\ 1 = Len(StandardCharacter(From(Conversion), Cps[k + 1]))
        /\ To(Conversion) = "u16" => Cps[k + 1] < UTF16_SURROGATE_CLAMP
        /\ From(Conversion) = "u16" => Cps[k + 1] < UTF16_HIGH_SURROGATE_MIN
  BY <1>1, <1>2, OneUnit
<1>4. \A units : Turn(units, 1) /\ units = StandardCharacter(To(Conversion), Cps[k + 1]) => Follows'
  BY <1>1, <1>3, TurnDone
<1>. DEFINE c == Cps[k + 1]
<1>5. c \in Nat /\ c \in Scalars /\ Unit(pos) = c
  BY <1>3, Bounds
<1>6. CASE U32ToU8
  <2>1. To(Conversion) = "u8"
    BY <1>6, Signatures DEF U32ToU8, Under
  <2>2. EncodeU8(c) = StandardCharacter(To(Conversion), c)
    BY <1>5, <2>1, StandardIsU8 DEF StandardCharacter
  <2>3. Turn(EncodeU8(c), 1)
    BY <1>5, <1>6 DEF U32ToU8
  <2>. QED BY <1>4, <2>2, <2>3
<1>7. CASE U32ToU16
  <2>1. To(Conversion) = "u16"
    BY <1>7, Signatures DEF U32ToU16, Under
  <2>2. EncodeU16(c) = StandardCharacter(To(Conversion), c)
    BY <1>3, <1>5, <2>1, PairsDiffer DEF StandardCharacter
  <2>3. Turn(EncodeU16(c), 1)
    BY <1>5, <1>7 DEF U32ToU16
  <2>. QED BY <1>4, <2>2, <2>3
<1>8. CASE U16ToU8
  <2>1. To(Conversion) = "u8" /\ From(Conversion) = "u16"
    BY <1>8, Signatures DEF U16ToU8, Under
  <2>2. EncodeU8(c) = StandardCharacter(To(Conversion), c)
    BY <1>5, <2>1, StandardIsU8 DEF StandardCharacter
  <2>3. c < UTF16_HIGH_SURROGATE_MIN /\ ~(c > UTF16_HIGH_SURROGATE_MAX) /\ ~IsHigh(c)
    BY <1>3, <1>5, <2>1, BeforeSurrogates
  <2>4. Turn(EncodeU8(c), 1)
    BY <1>5, <1>8, <2>3, Zenon DEF U16ToU8
  <2>. QED BY <1>4, <2>2, <2>4
<1>9. CASE U16ToU32
  <2>1. To(Conversion) = "u32" /\ From(Conversion) = "u16"
    BY <1>9, Signatures DEF U16ToU32, Under
  <2>2. <<c>> = StandardCharacter(To(Conversion), c)
    BY <2>1 DEF StandardCharacter
  <2>3. c < UTF16_HIGH_SURROGATE_MIN /\ ~(c > UTF16_HIGH_SURROGATE_MAX) /\ ~IsHigh(c)
    BY <1>3, <1>5, <2>1, BeforeSurrogates
  <2>4. Turn(<<c>>, 1)
    BY <1>5, <1>9, <2>3, Zenon DEF U16ToU32
  <2>. QED BY <1>4, <2>2, <2>4
<1>. QED BY <1>6, <1>7, <1>8, <1>9

\* The bytes of a character, as LeadByte and TrailingByte come upon them.
LEMMA Bytes ==
    ASSUME NEW c \in Scalars
    PROVE  LET b == StandardU8(c) IN
           /\ Len(b) \in 1 .. 4 /\ IsLead(b[1]) /\ Following(b[1]) = Len(b) - 1
           /\ \A i \in 2 .. Len(b) : CheckTrailingByte(b[i])
           /\ Collected(b, 1) = LeadBits(b[1]) /\ Collected(b, Len(b)) = c
           /\ \A j \in 1 .. 3 : Collected(b, j + 1) = Joined(Collected(b, j), b[j + 1])
<1>. DEFINE b == StandardU8(c)
<1>1. LegalSequence(b) /\ Decoded(b) = c
  BY StandardIsU8, CharacterU8
<1>. HIDE DEF b
<1>2. Len(b) \in 1 .. 4
  BY <1>1 DEF LegalSequence
<1>3. Collected(b, Len(b)) = Decoded(b)
  BY <1>2, SMT DEF Collected, Decoded
<1>4. \A j \in 1 .. 3 : Collected(b, j + 1) = Joined(Collected(b, j), b[j + 1])
  BY SMT DEF Collected
<1>5. Collected(b, 1) = LeadBits(b[1])
  BY SMT DEF Collected
<1>. QED BY <1>1, <1>2, <1>3, <1>4, <1>5 DEF LegalSequence, b

\* The bytes of the next character, and what is written of it.
LEMMA FromU8 ==
    ASSUME TypeOK, Faithful, Follows, Conversion \in {"U8ToU16", "U8ToU32"}, pc # "ready",
           NEW k \in 0 .. Len(Cps) - 1
    PROVE  LET b == StandardU8(Cps[k + 1]) IN
           /\ k \in Nat /\ k < Len(Cps) /\ Cps[k + 1] \in Scalars
           /\ Len(b) \in 1 .. 4 /\ Taken(k) \in Nat /\ Taken(k + 1) = Taken(k) + Len(b)
           /\ Taken(k) + Len(b) <= Len(source)
           /\ \A i \in 1 .. Len(b) : source[Taken(k) + i] = b[i]
           /\ StandardCharacter(To(Conversion), Cps[k + 1]) =
                IF Conversion = "U8ToU16" THEN EncodeU16(Cps[k + 1]) ELSE EncodeU32(Cps[k + 1])
<1>. DEFINE c == Cps[k + 1]
<1>1. k \in Nat /\ k < Len(Cps) /\ k + 1 \in 1 .. Len(Cps)
  BY Known, SMT
<1>2. c \in Scalars /\ c \in Nat /\ c <= UTF_MAX_CODEPOINT /\ UTF_MAX_CODEPOINT \in Nat
  BY <1>1, Known, Bounds
<1>3. StandardCharacter(From(Conversion), c) = StandardU8(c)
  BY Signatures DEF StandardCharacter
<1>4. Len(StandardU8(c)) \in 1 .. 4
  BY <1>2, Bytes
<1>5. CASE Conversion = "U8ToU16"
  <2>1. To(Conversion) = "u16" /\ c < UTF16_SURROGATE_CLAMP
    BY <1>1, <1>5, Signatures, InReach
  <2>. QED BY <1>1, <1>2, <1>3, <1>4, <1>5, <2>1, Ahead, PairsDiffer DEF StandardCharacter
<1>6. CASE Conversion = "U8ToU32"
  <2>1. To(Conversion) = "u32"
    BY <1>6, Signatures
  <2>2. EncodeU32(c) = <<c>>
    BY <1>2, SMT DEF EncodeU32
  <2>. QED BY <1>1, <1>2, <1>3, <1>4, <1>6, <2>1, <2>2, Ahead DEF StandardCharacter
<1>. QED BY <1>5, <1>6

\* A leading byte is found, since the loop is between two characters.
LEMMA LeadFollows ==
    ASSUME TypeOK, Faithful, Follows, LeadByte
    PROVE  Follows'
<1>1. /\ pc = "turn" /\ pos < Len(source) /\ pos \in Nat
      /\ Conversion \in {"U8ToU16", "U8ToU32"} /\ Unchanged
  BY SMT DEF LeadByte, Under, TypeOK
<1>2. PICK k \in Nat : k < Len(Cps) /\ Between(k)
  BY <1>1, NextTurn
<1>. DEFINE c == Cps[k + 1]
            b == StandardU8(c)
<1>3. k \in 0 .. Len(Cps) - 1
  BY <1>2, Known, SMT
<1>4. /\ c \in Scalars /\ Len(b) \in 1 .. 4
      /\ Taken(k) \in Nat /\ Taken(k + 1) = Taken(k) + Len(b) /\ Taken(k) + Len(b) <= Len(source)
      /\ \A i \in 1 .. Len(b) : source[Taken(k) + i] = b[i]
  BY <1>1, <1>3, FromU8
<1>5. /\ IsLead(b[1]) /\ Following(b[1]) = Len(b) - 1
      /\ Collected(b, 1) = LeadBits(b[1]) /\ Collected(b, Len(b)) = c
  BY <1>4, Bytes
<1>6. pos = Taken(k) /\ IsWritten(k) /\ cpLength = 0
  BY <1>2 DEF Between
<1>. HIDE DEF c, b
<1>7. Unit(pos) = b[1]
  BY <1>4, <1>6, SMT DEF Unit
<1>8. Len(source) \in Nat
  BY <1>1, Underway, SMT
<1>9. cpLength + Following(b[1]) = Len(b) - 1 /\ ~(pos + (Len(b) - 1) >= Len(source))
  BY <1>4, <1>5, <1>6, <1>8, SMT
<1>10. /\ cp' = LeadBits(b[1]) /\ cpLength' = Len(b) - 1 /\ pos' = pos + 1 /\ out' = out
       /\ pc' = IF Len(b) - 1 > 0 THEN "trail" ELSE "encode"
  BY <1>5, <1>7, <1>9, Zenon DEF LeadByte
<1>11. /\ Cps' = Cps /\ Conversion' = Conversion /\ source' = source
       /\ Taken(k)' = Taken(k) /\ Taken(k + 1)' = Taken(k + 1)
  BY <1>1, SameText
<1>12. source' = Standard(From(Conversion)', Cps') /\ IsWritten(k)'
  BY <1>1, <1>6, <1>10, <1>11 DEF Follows, IsWritten
<1>13. CASE Len(b) = 1
  <2>1. pc' = "encode" /\ cpLength' = 0 /\ cp' = c /\ pos' = Taken(k + 1)
    BY <1>4, <1>5, <1>6, <1>10, <1>13, SMT
  <2>2. Behind(k)'
    BY <1>3, <1>11, <1>12, <2>1 DEF Behind, c
  <2>. QED BY <1>2, <1>12, <2>1, <2>2 DEF Follows
<1>14. CASE Len(b) # 1
  <2>1. pc' = "trail" /\ 1 \in 1 .. Len(b) - 1
    <3>. DEFINE n == Len(b)
    <3>1. n \in 1 .. 4 /\ n # 1 /\ pc' = IF n - 1 > 0 THEN "trail" ELSE "encode"
      BY <1>4, <1>10, <1>14
    <3>. HIDE DEF n
    <3>2. pc' = "trail" /\ 1 \in 1 .. n - 1
      BY <3>1, SMT
    <3>. QED BY <3>2 DEF n
  <2>2. Inside(k, 1)'
    BY <1>3, <1>5, <1>6, <1>10, <1>11, <1>12, <2>1 DEF Inside, b, c
  <2>. QED BY <1>2, <1>12, <2>1, <2>2 DEF Follows
<1>. QED BY <1>13, <1>14

\* Inside a character the bytes behind the first are trailing bytes, and the
\* text does not end.
LEMMA TrailFollows ==
    ASSUME TypeOK, Faithful, Follows, TrailingByte \/ Overread
    PROVE  Follows'
<1>1. pc = "trail" /\ pos \in Nat /\ Conversion \in {"U8ToU16", "U8ToU32"}
  BY SMT DEF TrailingByte, Overread, TypeOK
<1>2. PICK k, j \in Nat : Inside(k, j)
  BY <1>1 DEF Follows
<1>. DEFINE c == Cps[k + 1]
            b == StandardU8(c)
<1>3. /\ k \in 0 .. Len(Cps) - 1 /\ j \in 1 .. Len(b) - 1 /\ pos = Taken(k) + j
      /\ cpLength = Len(b) - j /\ cp = Collected(b, j) /\ IsWritten(k)
  BY <1>2 DEF Inside
<1>4. /\ c \in Scalars /\ Len(b) \in 1 .. 4
      /\ Taken(k) \in Nat /\ Taken(k + 1) = Taken(k) + Len(b) /\ Taken(k) + Len(b) <= Len(source)
      /\ \A i \in 1 .. Len(b) : source[Taken(k) + i] = b[i]
  BY <1>1, <1>3, FromU8
<1>5. /\ Collected(b, Len(b)) = c /\ \A i \in 2 .. Len(b) : CheckTrailingByte(b[i])
      /\ \A i \in 1 .. 3 : Collected(b, i + 1) = Joined(Collected(b, i), b[i + 1])
  BY <1>4, Bytes
<1>. HIDE DEF c, b
<1>6. /\ j \in 1 .. 3 /\ j + 1 \in 2 .. Len(b) /\ j + 1 \in 1 .. Len(b)
      /\ Taken(k) + (j + 1) = pos + 1
  <2>. DEFINE n == Len(b)
              a == Taken(k)
  <2>1. n \in 1 .. 4 /\ j \in 1 .. n - 1 /\ a \in Nat /\ pos = a + j
    BY <1>3, <1>4
  <2>. HIDE DEF n, a
  <2>2. j \in 1 .. 3 /\ j + 1 \in 2 .. n /\ j + 1 \in 1 .. n /\ a + (j + 1) = pos + 1
    BY <2>1, SMT
  <2>. QED BY <2>2 DEF n, a
<1>7. Len(source) \in Nat
  BY <1>1, Underway, SMT
<1>8. ~(pos >= Len(source))
  BY <1>3, <1>4, <1>6, <1>7, SMT
<1>9. TrailingByte /\ Unchanged
  BY <1>8, Zenon DEF Overread, TrailingByte
<1>10. Unit(pos) = b[j + 1] /\ CheckTrailingByte(Unit(pos))
  BY <1>4, <1>5, <1>6 DEF Unit
<1>11. /\ cp' = Joined(cp, Unit(pos)) /\ pos' = pos + 1 /\ out' = out
       /\ cpLength' = cpLength - 1 /\ pc' = IF cpLength = 1 THEN "encode" ELSE "trail"
  BY <1>9, <1>10, Zenon DEF TrailingByte
<1>12. cp' = Collected(b, j + 1)
  BY <1>3, <1>5, <1>6, <1>10, <1>11
<1>13. /\ Cps' = Cps /\ Conversion' = Conversion /\ source' = source
       /\ Taken(k)' = Taken(k) /\ Taken(k + 1)' = Taken(k + 1)
  BY <1>9, SameText
<1>14. source' = Standard(From(Conversion)', Cps') /\ IsWritten(k)'
  BY <1>1, <1>3, <1>11, <1>13 DEF Follows, IsWritten
<1>15. CASE j + 1 = Len(b)
  <2>1. pc' = "encode" /\ cpLength' = 0 /\ pos' = Taken(k + 1)
    BY <1>3, <1>4, <1>6, <1>11, <1>15, SMT
  <2>2. Behind(k)'
    BY <1>3, <1>5, <1>12, <1>13, <1>14, <1>15, <2>1 DEF Behind, c
  <2>. QED BY <1>2, <1>14, <2>1, <2>2 DEF Follows
<1>16. CASE j + 1 # Len(b)
  <2>1. /\ pc' = "trail" /\ j + 1 \in 1 .. Len(b) - 1 /\ cpLength' = Len(b) - (j + 1)
        /\ pos' = Taken(k) + (j + 1) /\ j + 1 \in Nat
    BY <1>3, <1>4, <1>6, <1>11, <1>16, SMT
  <2>2. Inside(k, j + 1)'
    BY <1>3, <1>12, <1>13, <1>14, <2>1 DEF Inside, b, c
  <2>. QED BY <1>2, <1>14, <2>1, <2>2 DEF Follows
<1>. QED BY <1>15, <1>16

\* The code point collected is written as the standard says.
LEMMA EncodeFollows ==
    ASSUME TypeOK, Faithful, Follows, EncodePoint
    PROVE  Follows'
<1>1. pc = "encode" /\ Conversion \in {"U8ToU16", "U8ToU32"} /\ Unchanged
  BY SMT DEF EncodePoint, TypeOK
<1>2. PICK k \in Nat : Behind(k)
  BY <1>1 DEF Follows
<1>3. k \in 0 .. Len(Cps) - 1 /\ pos = Taken(k + 1) /\ cpLength = 0 /\ cp = Cps[k + 1] /\ IsWritten(k)
  BY <1>2 DEF Behind
<1>4. /\ k < Len(Cps)
      /\ StandardCharacter(To(Conversion), Cps[k + 1]) =
           IF Conversion = "U8ToU16" THEN EncodeU16(Cps[k + 1]) ELSE EncodeU32(Cps[k + 1])
  BY <1>1, <1>3, FromU8
<1>5. /\ out' = out \o (IF Conversion = "U8ToU16" THEN EncodeU16(cp) ELSE EncodeU32(cp))
      /\ pos' = pos /\ cpLength' = cpLength /\ pc' = "turn"
  BY Zenon DEF EncodePoint, Write
<1>6. out' = out \o StandardCharacter(To(Conversion), Cps[k + 1])
  BY <1>3, <1>4, <1>5
<1>7. pc # "ready"
  BY <1>1
<1>. QED BY <1>1, <1>2, <1>3, <1>4, <1>5, <1>6, <1>7, CharacterDone

\* When a conversion returns, every character is taken and written.
LEMMA ReturnFollows ==
    ASSUME TypeOK, Faithful, Follows, Return
    PROVE  Follows'
<1>1. /\ pc = "turn" /\ pos >= Len(source) /\ pc' = "ready"
      /\ UNCHANGED <<text, encoding, source, out, path, pos, cp, cpLength>>
  BY DEF Return
<1>2. PICK k \in Nat : Between(k)
  BY <1>1 DEF Follows
<1>3. k \in 0 .. Len(Cps) /\ pos = Taken(k) /\ out = Parts(To(Conversion), Cps)[k]
  BY <1>2 DEF Between, IsWritten
<1>4. k = Len(Cps)
  BY <1>1, <1>3, AtTheEnd
<1>5. Cps \in Seq(Scalars) /\ To(Conversion) \in Encodings /\ encoding = To(Conversion)
  BY <1>1, Known
<1>6. out = Standard(encoding, Cps)
  BY <1>3, <1>4, <1>5, PartsGrow
<1>. QED BY <1>1, <1>6 DEF Follows, Cps

\* A conversion takes what the one before has written.
LEMMA ConvertFollows ==
    ASSUME TypeOK, FaithfulInv, NEW conversion \in Conversions, Convert(conversion)
    PROVE  FaithfulInv'
<1>1. /\ pc = "ready" /\ From(conversion) = encoding
      /\ path' = Append(path, conversion) /\ source' = out /\ out' = <<>>
      /\ pos' = 0 /\ cpLength' = 0 /\ pc' = "turn" /\ text' = text
  BY DEF Convert
<1>2. path \in Seq(Conversions) /\ encoding \in Encodings /\ To(conversion) \in Encodings
  BY Signatures, SMT DEF TypeOK, Conversions, Encodings
<1>3. /\ Len(path') \in Nat /\ path'[Len(path')] = conversion
      /\ \A i \in 1 .. Len(path) : i \in 1 .. Len(path') /\ path'[i] = path[i]
  BY <1>1, <1>2, SMT
<1>4. Conversion' = conversion /\ Cps' = Cps
  BY <1>1, <1>3 DEF Conversion, Cps
<1>5. SUFFICES ASSUME Faithful' PROVE Follows'
  BY DEF FaithfulInv
<1>6. (Into16 => Into16') /\ (Through({"u16"}) => Through({"u16"})')
  BY <1>3, Zenon DEF Into16, Through
<1>7. Faithful
  <2>1. text'.known /\ ~Diverges'
    BY <1>5 DEF Faithful
  <2>2. Diverges => Diverges'
    BY <1>1, <1>6, Zenon DEF Diverges
  <2>. QED BY <1>1, <2>1, <2>2 DEF Faithful
<1>8. out = Standard(encoding, Cps)
  BY <1>1, <1>7 DEF FaithfulInv, Follows
<1>9. Cps \in Seq(Scalars) /\ Len(Cps) \in Nat
  BY Known
<1>10. /\ Parts(From(conversion), Cps)[0] = <<>> /\ Parts(To(conversion), Cps)[0] = <<>>
  BY <1>1, <1>2, <1>9, PartsGrow
<1>11. Between(0)'
  <2>1. Len(<<>>) = 0 /\ 0 \in 0 .. Len(Cps)
    BY <1>9, SMT
  <2>. QED BY <1>1, <1>4, <1>10, <2>1 DEF Between, Taken, IsWritten
<1>12. source' = Standard(From(Conversion)', Cps')
  BY <1>1, <1>4, <1>8
<1>13. 0 \in Nat /\ pc' = "turn"
  BY <1>1
<1>. QED BY <1>11, <1>12, <1>13 DEF Follows

\* At the start the text is handed over as the standard encodes it.
LEMMA InitFollows == Init => FaithfulInv
<1>. SUFFICES ASSUME Init, text.known PROVE Follows
  BY DEF FaithfulInv, Faithful
<1>1. ~NoText.known
  BY SMT DEF NoText
<1>2. PICK t \in Texts, e \in Encodings :
        text = [codePoints |-> t, known |-> TRUE] /\ encoding = e /\ out = Standard(e, t)
  BY <1>1, Zenon DEF Init
<1>3. Cps = t
  BY <1>2 DEF Cps
<1>4. pc = "ready"
  BY DEF Init
<1>. QED BY <1>2, <1>3, <1>4 DEF Follows

\* Every step keeps to the text.
LEMMA StepFollows == TypeOK /\ FaithfulInv /\ [Next]_vars => FaithfulInv'
<1>. SUFFICES ASSUME TypeOK, FaithfulInv, [Next]_vars PROVE FaithfulInv'
  OBVIOUS
<1>1. ASSUME NEW conversion \in Conversions, Convert(conversion) PROVE FaithfulInv'
  BY <1>1, ConvertFollows
<1>2. CASE U32ToU8 \/ U32ToU16 \/ U16ToU8 \/ U16ToU32
  <2>1. Unchanged
    BY <1>2, Zenon DEF U32ToU8, U32ToU16, U16ToU8, U16ToU32, Turn
  <2>. QED BY <1>2, <2>1, SameText, UnitsConverted DEF FaithfulInv
<1>3. CASE LeadByte
  <2>1. Unchanged
    BY <1>3 DEF LeadByte
  <2>. QED BY <1>3, <2>1, SameText, LeadFollows DEF FaithfulInv
<1>4. CASE TrailingByte \/ Overread
  <2>1. Unchanged
    BY <1>4, Zenon DEF TrailingByte, Overread, Unchanged
  <2>. QED BY <1>4, <2>1, SameText, TrailFollows DEF FaithfulInv
<1>5. CASE EncodePoint
  <2>1. Unchanged
    BY <1>5 DEF EncodePoint
  <2>. QED BY <1>5, <2>1, SameText, EncodeFollows DEF FaithfulInv
<1>6. CASE Return
  <2>1. Unchanged
    BY <1>6 DEF Return, Unchanged
  <2>. QED BY <1>6, <2>1, SameText, ReturnFollows DEF FaithfulInv
<1>7. CASE Terminated \/ UNCHANGED vars
  <2>1. UNCHANGED vars
    BY <1>7 DEF Terminated
  <2>2. Unchanged
    BY <2>1 DEF vars, Unchanged
  <2>3. Follows' <=> Follows
    BY <2>1 DEF vars, Follows, Cps, Conversion, Between, Inside, Behind, Taken, IsWritten
  <2>. QED BY <2>2, <2>3, SameText DEF FaithfulInv
<1>. QED BY <1>1, <1>2, <1>3, <1>4, <1>5, <1>6, <1>7 DEF Next

\* However often a text is converted, and from which encoding, the result is the
\* standard's encoding of the same code points and nothing behind the text is read
\* (the loops of U16ToU8, U16ToU32, U32ToU8, U32ToU16, U8ToU16, U8ToU32).
THEOREM ConvertsAsUnicode == Spec => []AsUnicode
<1>1. TypeOK /\ FaithfulInv => AsUnicode
  BY DEF FaithfulInv, Faithful, Follows, AsUnicode, Cps
<1>. QED BY <1>1, InitFollows, StepFollows, Types, PTL DEF Spec

-----------------------------------------------------------------------------
(* What is reserved for UTF-8.                                               *)
\* What is reserved for the first k units, for each k.
Sizes(sv) ==
    CHOOSE g \in [0 .. Len(sv) -> Nat] :
        /\ g[0] = 0 /\ g[Len(sv)] = ReserveLengthForU8(sv)
        /\ \A k \in 1 .. Len(sv) : g[k] = g[k - 1] + Reserved(sv[k])

\* ReserveLengthForU8 counts one unit after the other.
LEMMA SizesGrow ==
    ASSUME NEW sv \in Seq(Nat)
    PROVE  /\ Sizes(sv) \in [0 .. Len(sv) -> Nat]
           /\ Sizes(sv)[0] = 0 /\ Sizes(sv)[Len(sv)] = ReserveLengthForU8(sv)
           /\ \A k \in 1 .. Len(sv) : Sizes(sv)[k] = Sizes(sv)[k - 1] + Reserved(sv[k])
<1>. DEFINE n == Len(sv)
            each(k) == Reserved(sv[k])
            step == [p \in Nat \X (1 .. n) |-> p[1] + each(p[2])]
            Counts(g) == g = [k \in 0 .. n |-> IF k = 0 THEN 0 ELSE g[k - 1] + each(k)]
            size == CHOOSE g : Counts(g)
            Right(g) == /\ g[0] = 0 /\ g[n] = ReserveLengthForU8(sv)
                        /\ \A k \in 1 .. n : g[k] = g[k - 1] + each(k)
<1>1. n \in Nat /\ 0 \in Nat /\ \A k \in 1 .. n : each(k) \in Nat
  <2>1. \A k \in 1 .. n : sv[k] \in Nat
    OBVIOUS
  <2>2. \A ch \in Nat : Reserved(ch) \in Nat
    BY SMT DEF Reserved
  <2>3. n \in Nat /\ 0 \in Nat
    OBVIOUS
  <2>. QED BY <2>1, <2>2, <2>3, Zenon
<1>2. ReserveLengthForU8(sv) = size[n]
  BY DEF ReserveLengthForU8
<1>. HIDE DEF n, each
<1>3. PICK g : Iterates(g, n, Nat, 0, step)
  <2>1. step \in [Nat \X (1 .. n) -> Nat]
    BY <1>1, SMT
  <2>. HIDE DEF step
  <2>. QED BY <1>1, <2>1, RecursionUpTo
<1>4. /\ g \in [0 .. n -> Nat] /\ g[0] = 0
      /\ \A k \in 1 .. n : g[k] = g[k - 1] + each(k)
  <2>1. /\ g \in [0 .. n -> Nat] /\ g[0] = 0
        /\ \A k \in 1 .. n : g[k] = step[<<g[k - 1], k>>]
    BY <1>3 DEF Iterates
  <2>2. ASSUME NEW k \in 1 .. n PROVE step[<<g[k - 1], k>>] = g[k - 1] + each(k)
    <3>1. k - 1 \in 0 .. n
      BY <1>1, SMT
    <3>2. <<g[k - 1], k>> \in Nat \X (1 .. n)
      BY <2>1, <3>1, Zenon
    <3>. QED BY <3>2, Zenon
  <2>. QED BY <2>1, <2>2
<1>5. Counts(g)
  <2>1. \A k \in 0 .. n : k # 0 => k \in 1 .. n
    BY <1>1, SMT
  <2>2. \A k \in 0 .. n : g[k] = IF k = 0 THEN 0 ELSE g[k - 1] + each(k)
    BY <1>4, <2>1, Zenon
  <2>. QED BY <1>4, <2>2, Zenon
<1>6. Counts(size)
  <2>. HIDE DEF Counts
  <2>. QED BY <1>5, Zenon
<1>. HIDE DEF size
<1>7. \A k \in 0 .. n : size[k] = IF k = 0 THEN 0 ELSE size[k - 1] + each(k)
  BY <1>6, Zenon
<1>. DEFINE Same == {k \in 0 .. n : size[k] = g[k]}
<1>8. 0 \in Same
  BY <1>1, <1>4, <1>7, SMT
<1>9. ASSUME NEW k \in 0 .. n - 1, k \in Same PROVE k + 1 \in Same
  <2>1. k + 1 \in 0 .. n /\ k + 1 \in 1 .. n /\ (k + 1) - 1 = k /\ k + 1 # 0
    BY <1>1, SMT
  <2>2. size[k + 1] = size[k] + each(k + 1) /\ g[k + 1] = g[k] + each(k + 1)
    BY <1>4, <1>7, <2>1, Zenon
  <2>. QED BY <1>9, <2>1, <2>2
<1>10. size[n] = g[n]
  <2>. HIDE DEF Same
  <2>1. \A k \in 0 .. n : k \in Same
    BY <1>1, <1>8, <1>9, InductionUpTo
  <2>2. n \in Same
    BY <1>1, <2>1, SMT
  <2>. QED BY <2>2 DEF Same
<1>11. g \in [0 .. n -> Nat] /\ Right(g)
  BY <1>2, <1>4, <1>10
<1>. HIDE DEF Right
<1>12. Sizes(sv) = CHOOSE f \in [0 .. n -> Nat] : Right(f)
  BY DEF Sizes, Right, n, each
<1>13. Sizes(sv) \in [0 .. n -> Nat] /\ Right(Sizes(sv))
  BY <1>11, <1>12, Zenon
<1>. QED BY <1>13 DEF Right, n, each

\* As much is written as is reserved for the units taken.
ReserveInv ==
    /\ pc = "turn" /\ Conversion = "U32ToU8" =>
            pos <= Len(source) /\ Len(out) = Sizes(source)[pos]
    /\ ReserveExact

\* Every turn of U32ToU8 writes what is reserved for its unit.
LEMMA StepReserves == TypeOK /\ ReserveInv /\ [Next]_vars => ReserveInv'
<1>. SUFFICES ASSUME TypeOK, ReserveInv, [Next]_vars PROVE ReserveInv'
  OBVIOUS
<1>1. ASSUME NEW conversion \in Conversions, Convert(conversion) PROVE ReserveInv'
  <2>1. pc' = "turn" /\ pos' = 0 /\ out' = <<>> /\ source' = out /\ path' = Append(path, conversion)
        /\ From(conversion) = encoding
    BY <1>1 DEF Convert
  <2>2. Conversion' = conversion
    BY <2>1, SMT DEF TypeOK, Conversion
  <2>3. CASE conversion = "U32ToU8"
    <3>1. source' \in Seq(Nat)
      BY <2>1, <2>3, Signatures, UnitsAre, SMT DEF TypeOK
    <3>2. Sizes(source')[0] = 0 /\ Len(source') \in Nat
      BY <3>1, SizesGrow
    <3>3. Len(<<>>) = 0
      BY SMT
    <3>. QED BY <2>1, <3>2, <3>3, SMT DEF ReserveInv, ReserveExact
  <2>. QED BY <2>1, <2>2, <2>3 DEF ReserveInv, ReserveExact
<1>2. CASE U32ToU8
  <2>1. /\ pc = "turn" /\ pos \in Nat /\ pos < Len(source) /\ Conversion = "U32ToU8"
        /\ out' = out \o EncodeU8(Unit(pos)) /\ pos' = pos + 1 /\ pc' = pc
        /\ source' = source /\ path' = path
    BY <1>2, SMT DEF U32ToU8, Under, Turn, Write, Unchanged, TypeOK
  <2>2. source \in Seq(Nat) /\ out \in Seq(Byte)
    BY <2>1, Underway, Signatures, UnitsAre, SMT DEF TypeOK
  <2>3. Unit(pos) \in Nat /\ Unit(pos) = source[pos + 1]
    BY <2>1, <2>2, NextUnit DEF Unit
  <2>4. EncodeU8(Unit(pos)) \in Seq(Byte) /\ Len(EncodeU8(Unit(pos))) = Reserved(Unit(pos))
    BY <2>3, Encoded, ReservedEach
  <2>5. Len(out') = Len(out) + Reserved(Unit(pos))
    <3>. DEFINE t == EncodeU8(Unit(pos))
    <3>1. t \in Seq(Byte) /\ out' = out \o t
      BY <2>1, <2>4
    <3>. HIDE DEF t
    <3>2. Len(out') = Len(out) + Len(t)
      BY <2>2, <3>1, SMT
    <3>. QED BY <2>4, <3>2 DEF t
  <2>6. pos + 1 \in 1 .. Len(source) /\ (pos + 1) - 1 = pos /\ pos' <= Len(source')
    BY <2>1, <2>2, SMT
  <2>7. Sizes(source)[pos + 1] = Sizes(source)[pos] + Reserved(source[pos + 1])
    BY <2>2, <2>6, SizesGrow
  <2>8. Len(out) = Sizes(source)[pos]
    BY <2>1 DEF ReserveInv
  <2>. QED BY <2>1, <2>3, <2>5, <2>6, <2>7, <2>8 DEF ReserveInv, ReserveExact, Conversion
<1>3. CASE Return
  <2>1. /\ pc = "turn" /\ pos >= Len(source) /\ pc' = "ready" /\ UNCHANGED <<source, out, path, pos>>
    BY <1>3 DEF Return
  <2>2. Conversion' = Conversion
    BY <2>1 DEF Conversion
  <2>3. CASE Conversion = "U32ToU8"
    <3>1. source \in Seq(Nat) /\ pos \in Nat
      BY <2>1, <2>3, Underway, Signatures, UnitsAre, SMT DEF TypeOK
    <3>2. pos = Len(source) /\ Len(out) = Sizes(source)[pos]
      BY <2>1, <2>3, <3>1, SMT DEF ReserveInv
    <3>3. Sizes(source)[Len(source)] = ReserveLengthForU8(source)
      BY <3>1, SizesGrow
    <3>. QED BY <2>1, <3>2, <3>3 DEF ReserveInv, ReserveExact
  <2>. QED BY <2>1, <2>2, <2>3 DEF ReserveInv, ReserveExact
<1>4. CASE U32ToU16 \/ U16ToU8 \/ U16ToU32 \/ LeadByte \/ TrailingByte \/ Overread \/ EncodePoint
  <2>1. Conversion # "U32ToU8" /\ path' = path /\ pc' # "ready"
    BY <1>4, SMT DEF U32ToU16, U16ToU8, U16ToU32, LeadByte, TrailingByte, Overread, EncodePoint,
                     Under, Turn, Unchanged, TypeOK
  <2>2. Conversion' = Conversion
    BY <2>1 DEF Conversion
  <2>. QED BY <2>1, <2>2 DEF ReserveInv, ReserveExact
<1>5. CASE Terminated \/ UNCHANGED vars
  BY <1>5 DEF Terminated, vars, ReserveInv, ReserveExact, Conversion
<1>. QED BY <1>1, <1>2, <1>3, <1>4, <1>5 DEF Next

\* ReserveLengthForU8 reserves exactly what U32ToU8 writes, whatever it is given.
THEOREM ReservesExactly == Spec => []ReserveExact
<1>1. Init => ReserveInv
  BY DEF Init, ReserveInv, ReserveExact
<1>2. ReserveInv => ReserveExact
  BY DEF ReserveInv
<1>. QED BY <1>1, <1>2, StepReserves, Types, PTL DEF Spec
=============================================================================
