--------------------------- MODULE ArgFormat_proofs ---------------------------
(****************************************************************************)
(* A call that std::format accepts is not refused, whatever the formatter   *)
(* did before it: each part of a field is read back as it was rendered, so  *)
(* that a turn of the loop of ParseFormatString meets the next field of the *)
(* call, with its argument. And whatever the format string is, well-formed  *)
(* or not, every turn of the loop uses up a part of it.                     *)
(****************************************************************************)
EXTENDS ArgFormat, InductionLemmas, FiniteSetTheorems

(****************************************************************************)
(* Texts, and the order in which ArgFormatter::Parse reads a specification. *)
(****************************************************************************)

\* Two texts of one length with the same characters are the same.
LEMMA SameText ==
    ASSUME NEW S, NEW T, NEW s \in Seq(S), NEW t \in Seq(T), Len(s) = Len(t),
           \A i \in 1 .. Len(s) : s[i] = t[i]
    PROVE  s = t
OBVIOUS

\* Texts put together in either order.
LEMMA ConcatAssoc ==
    ASSUME NEW S, NEW a \in Seq(S), NEW b \in Seq(S), NEW c \in Seq(S)
    PROVE  (a \o b) \o c = a \o (b \o c)
OBVIOUS

\* What follows the same text is the same.
LEMMA Cancel ==
    ASSUME NEW S, NEW a \in Seq(S), NEW b \in Seq(S), NEW c \in Seq(S), a \o b = a \o c
    PROVE  b = c
<1>1. Len(b) = Len(c)
  OBVIOUS
<1>2. ASSUME NEW i \in 1 .. Len(b) PROVE b[i] = c[i]
  <2>1. (a \o b)[Len(a) + i] = b[i] /\ (a \o c)[Len(a) + i] = c[i]
    BY <1>1
  <2>. QED BY <2>1
<1>. QED BY <1>1, <1>2, SameText

\* ArgFormatter::Parse reads the parts of a specification in this order.
LEMMA ParseSteps ==
    ASSUME NEW p, NEW type
    PROVE  LET aligned == VerifyFillAlignField(p, type)
               altered == VerifyAltField(ParseSign(aligned), type)
               sized == VerifyPrecisionField(VerifyWidthField(ParseZero(altered)), type)
           IN Parse(p, type) = HandlePotentialTypeField(VerifyLocaleField(sized, type), type)
BY Zenon DEF Then, Parse

\* An item of a format string is a character, something malformed, or a field.
LEMMA ItemKinds ==
    ASSUME NEW item \in Items
    PROVE  IsText(item) \/ IsRaw(item)
          \/ (IsField(item) /\ item.index \in Positions /\ (HasSpec(item) => item.spec \in ItemSpecs))
BY DEF Items, IsText, IsRaw, IsField, HasSpec

------------------------------------------------------------------------------
(****************************************************************************)
(* Numbers as to_chars writes them, of one or two digits for the parser.    *)
(****************************************************************************)

\* The bases to_chars is called with, and the digits of a number in one of
\* them.
Bases == {2, 8, 10, 16}

\* A quotient by a base is smaller, a remainder is a digit.
LEMMA Divided ==
    ASSUME NEW n \in Nat, NEW base \in Bases
    PROVE  /\ n \div base \in Nat /\ (n > 0 => n \div base < n)
           /\ n % base \in 0 .. base - 1 /\ n % base \in 0 .. 15
           /\ (n < base => n \div base = 0 /\ n % base = n)
<1>1. CASE base = 2
  BY <1>1, SMT
<1>2. CASE base = 8
  BY <1>2, SMT
<1>3. CASE base = 10
  BY <1>3, SMT
<1>4. CASE base = 16
  BY <1>4, SMT
<1>. QED BY <1>1, <1>2, <1>3, <1>4 DEF Bases

\* What is left of a number, digit by digit (std::to_chars).
LEMMA QuotientsOf ==
    ASSUME NEW n \in Nat, NEW base \in Bases
    PROVE  /\ Quotients(n, base) \in [0 .. n + 1 -> Nat] /\ Quotients(n, base)[0] = n
           /\ \A k \in 1 .. n + 1 : Quotients(n, base)[k] = Quotients(n, base)[k - 1] \div base
<1>. DEFINE Leaves(f) == f = [k \in 0 .. n + 1 |-> IF k = 0 THEN n ELSE f[k - 1] \div base]
            m == n + 1
            step == [p \in Nat \X (1 .. m) |-> p[1] \div base]
            left == CHOOSE f : Leaves(f)
<1>1. m \in Nat /\ step \in [Nat \X (1 .. m) -> Nat]
  <2>1. \A x \in Nat : x \div base \in Nat
    BY Divided
  <2>. QED BY <2>1, Zenon, SMT
<1>2. PICK f : Iterates(f, m, Nat, n, step)
  <2>. HIDE DEF m, step
  <2>. QED BY <1>1, RecursionUpTo
<1>3. f \in [0 .. m -> Nat] /\ f[0] = n /\ \A k \in 1 .. m : f[k] = f[k - 1] \div base
  <2>1. f \in [0 .. m -> Nat] /\ f[0] = n /\ \A k \in 1 .. m : f[k] = step[<<f[k - 1], k>>]
    BY <1>2 DEF Iterates
  <2>2. ASSUME NEW k \in 1 .. m PROVE f[k] = f[k - 1] \div base
    <3>1. k - 1 \in 0 .. m
      BY <1>1, SMT
    <3>2. <<f[k - 1], k>> \in Nat \X (1 .. m)
      BY <2>1, <3>1, Zenon
    <3>. QED BY <2>1, <3>2, Zenon
  <2>. QED BY <2>1, <2>2
<1>4. Leaves(f)
  <2>1. \A k \in 0 .. m : f[k] = IF k = 0 THEN n ELSE f[k - 1] \div base
    BY <1>1, <1>3, SMT
  <2>. QED BY <1>3, <2>1, Zenon
<1>5. Leaves(left)
  <2>. HIDE DEF Leaves
  <2>. QED BY <1>4, Zenon
<1>6. left = Quotients(n, base)
  BY Zenon DEF Quotients
<1>. HIDE DEF left
<1>7. left[0] = n /\ \A k \in 1 .. m : left[k] = left[k - 1] \div base
  BY <1>1, <1>5, SMT
<1>8. \A k \in 0 .. m : k \in {j \in 0 .. m : left[j] = f[j]}
  <2>. DEFINE Same == {j \in 0 .. m : left[j] = f[j]}
  <2>1. 0 \in Same
    BY <1>1, <1>3, <1>7, SMT
  <2>2. ASSUME NEW k \in 0 .. m - 1, k \in Same PROVE k + 1 \in Same
    <3>1. k + 1 \in 1 .. m /\ k + 1 \in 0 .. m /\ (k + 1) - 1 = k
      BY <1>1, SMT
    <3>2. left[k + 1] = left[k] \div base /\ f[k + 1] = f[k] \div base
      BY <1>3, <1>7, <3>1, Zenon
    <3>. QED BY <2>2, <3>1, <3>2, Zenon
  <2>. HIDE DEF Same, m
  <2>3. \A k \in 0 .. m : k \in Same
    BY <1>1, <2>1, <2>2, InductionUpTo
  <2>. QED BY <2>3 DEF Same
<1>9. left \in [0 .. m -> Nat]
  <2>1. \A k \in 0 .. m : left[k] \in Nat
    BY <1>3, <1>8
  <2>. QED BY <1>5, <2>1, Zenon
<1>. QED BY <1>6, <1>7, <1>9

Hexes == {HexDigit[i] : i \in 1 .. 16}

PlacesOf(n, base) ==
    CHOOSE k \in 1 .. n + 1 : Quotients(n, base)[k] = 0
       /\ \A j \in 1 .. k - 1 : Quotients(n, base)[j] # 0

DigitsOf(n, base) ==
    [i \in 1 .. PlacesOf(n, base) |-> HexDigit[(Quotients(n, base)[PlacesOf(n, base) - i] % base) + 1]]

\* A number has digits.
LEMMA PlacesExist ==
    ASSUME NEW n \in Nat, NEW base \in Bases
    PROVE  /\ PlacesOf(n, base) \in 1 .. n + 1 /\ Quotients(n, base)[PlacesOf(n, base)] = 0
           /\ \A j \in 1 .. PlacesOf(n, base) - 1 : Quotients(n, base)[j] # 0
<1>. DEFINE left == Quotients(n, base)
            m == n + 1
            Small == {k \in 0 .. m : left[k] = 0 \/ left[k] + k <= n}
            Zeroes == {k \in 1 .. m : left[k] = 0}
<1>1. left \in [0 .. m -> Nat] /\ left[0] = n /\ \A k \in 1 .. m : left[k] = left[k - 1] \div base
  BY QuotientsOf
<1>. HIDE DEF left
<1>2. 0 \in Small
  BY <1>1, SMT
<1>3. ASSUME NEW k \in 0 .. m - 1, k \in Small PROVE k + 1 \in Small
  <2>1. k + 1 \in 1 .. m /\ k + 1 \in 0 .. m /\ (k + 1) - 1 = k /\ k \in Nat /\ k \in 0 .. m
    BY SMT
  <2>2. left[k + 1] = left[k] \div base /\ left[k] \in Nat
    BY <1>1, <2>1, Zenon
  <2>3. left[k + 1] \in Nat /\ (left[k] > 0 => left[k + 1] < left[k])
        /\ (left[k] = 0 => left[k + 1] = 0)
    <3>1. left[k] = 0 => left[k] < base /\ 0 \div base = 0
      BY Divided, SMT DEF Bases
    <3>. QED BY <2>2, <3>1, Divided
  <2>. QED BY <1>3, <2>1, <2>2, <2>3, SMT
<1>4. left[m] = 0
  <2>1. m \in Nat /\ m \in 0 .. m
    BY SMT
  <2>2. m \in Small
    <3>. HIDE DEF Small, m
    <3>. QED BY <1>2, <1>3, <2>1, InductionUpTo
  <2>3. left[m] \in Nat
    BY <1>1, <2>1
  <2>. QED BY <2>2, <2>3, SMT
<1>5. m \in Zeroes /\ Zeroes \in SUBSET Nat
  BY <1>4, SMT
<1>6. PICK k \in Zeroes : \A j \in Zeroes : k <= j
  BY <1>5, SmallestExists
<1>7. k \in 1 .. n + 1 /\ left[k] = 0 /\ \A j \in 1 .. k - 1 : left[j] # 0
  BY <1>6, SMT
<1>. QED BY <1>7, Zenon DEF PlacesOf, left

\* Its digits.
LEMMA DigitsInside ==
    ASSUME NEW n \in Nat, NEW base \in Bases
    PROVE  /\ DigitsOf(n, base) \in Seq(Hexes) /\ DigitsOf(n, base) # <<>>
           /\ base = 2 => DigitsOf(n, base) \in Seq({"0", "1"})
           /\ base = 10 => DigitsOf(n, base) \in Seq(Digits)
<1>. DEFINE left == Quotients(n, base)
            places == PlacesOf(n, base)
            digit(i) == HexDigit[(left[places - i] % base) + 1]
<1>1. left \in [0 .. n + 1 -> Nat] /\ places \in 1 .. n + 1
  BY QuotientsOf, PlacesExist
<1>2. DigitsOf(n, base) = [i \in 1 .. places |-> digit(i)]
  BY DEF DigitsOf
<1>. HIDE DEF left, places
<1>3. ASSUME NEW i \in 1 .. places
      PROVE  digit(i) \in Hexes /\ (base = 2 => digit(i) \in {"0", "1"})
             /\ (base = 10 => digit(i) \in Digits)
  <2>1. places - i \in 0 .. n + 1
    BY <1>1, SMT
  <2>2. left[places - i] \in Nat
    BY <1>1, <2>1
  <2>3. PICK d \in 0 .. 15 : d = left[places - i] % base /\ d \in 0 .. base - 1
    BY <2>2, Divided
  <2>4. d + 1 \in 1 .. 16 /\ digit(i) = HexDigit[d + 1]
    BY <2>3, SMT
  <2>5. digit(i) \in Hexes
    BY <2>4 DEF Hexes
  <2>6. base = 2 => digit(i) \in {"0", "1"}
    BY <2>3, <2>4, SMT DEF HexDigit
  <2>7. base = 10 => digit(i) \in Digits
    <3>. SUFFICES ASSUME base = 10 PROVE digit(i) \in Digits
      OBVIOUS
    <3>1. d + 1 \in 1 .. 10
      BY <2>3, SMT
    <3>2. \A k \in 1 .. 10 : HexDigit[k] = Decimals[k]
      BY SMT DEF HexDigit, Decimals
    <3>. QED BY <2>4, <3>1, <3>2, Zenon DEF Digits
  <2>. QED BY <2>5, <2>6, <2>7
<1>. HIDE DEF digit
<1>. QED BY <1>1, <1>2, <1>3, SMT

\* to_chars writes a minus and the digits.
LEMMA NumberText ==
    ASSUME NEW value \in Int, NEW base \in Bases
    PROVE  ToChars(value, base) = (IF value < 0 THEN <<"-">> ELSE <<>>)
                                  \o DigitsOf(IF value < 0 THEN -value ELSE value, base)
BY Zenon DEF ToChars, DigitsOf, PlacesOf

\* A number and the same one with a minus have the same digits.
LEMMA NaturalText ==
    ASSUME NEW n \in Nat, NEW base \in Bases
    PROVE  /\ ToChars(n, base) = DigitsOf(n, base)
           /\ n > 0 => ToChars(-n, base) = <<"-">> \o DigitsOf(n, base)
<1>1. n \in Int /\ -n \in Int /\ ~(n < 0) /\ (n > 0 => -n < 0 /\ -(-n) = n)
  BY SMT
<1>2. DigitsOf(n, base) \in Seq(Hexes)
  BY DigitsInside
<1>3. <<>> \o DigitsOf(n, base) = DigitsOf(n, base)
  BY <1>2, SMT
<1>4. ToChars(n, base) = <<>> \o DigitsOf(n, base)
  BY <1>1, NumberText, Zenon
<1>5. ASSUME n > 0 PROVE ToChars(-n, base) = <<"-">> \o DigitsOf(n, base)
  BY <1>1, <1>5, NumberText, Zenon
<1>. QED BY <1>3, <1>4, <1>5

\* A number of one or two digits.
TwoDigits(n) ==
    IF n < 10 THEN <<Decimals[n + 1]>> ELSE <<Decimals[(n \div 10) + 1], Decimals[(n % 10) + 1]>>

\* A number below 100 is written with one or two digits.
LEMMA ShortNumber ==
    ASSUME NEW n \in 0 .. 99
    PROVE  ToChars(n, 10) = TwoDigits(n)
<1>. DEFINE left == Quotients(n, 10)
            places == PlacesOf(n, 10)
<1>1. n \in Nat /\ 10 \in Bases
  BY SMT DEF Bases
<1>2. left \in [0 .. n + 1 -> Nat] /\ left[0] = n /\ \A k \in 1 .. n + 1 : left[k] = left[k - 1] \div 10
  BY <1>1, QuotientsOf
<1>3. places \in 1 .. n + 1 /\ left[places] = 0 /\ \A j \in 1 .. places - 1 : left[j] # 0
  BY <1>1, PlacesExist
<1>4. ToChars(n, 10) = [i \in 1 .. places |-> HexDigit[(left[places - i] % 10) + 1]]
  BY <1>1, NaturalText, Zenon DEF DigitsOf
<1>5. \A k \in 1 .. 10 : HexDigit[k] = Decimals[k]
  BY SMT DEF HexDigit, Decimals
<1>. HIDE DEF left, places
<1>6. left[1] = n \div 10 /\ left[0] = n
  <2>1. 1 \in 1 .. n + 1 /\ 1 - 1 = 0
    BY SMT
  <2>2. left[1] = left[1 - 1] \div 10
    BY <1>2, <2>1, Zenon
  <2>. QED BY <1>2, <2>1, <2>2
<1>7. CASE n < 10
  <2>1. left[1] = 0
    BY <1>6, <1>7, SMT
  <2>2. places = 1
    BY <1>3, <2>1, SMT
  <2>3. left[places - 1] = n /\ n % 10 = n
    <3>1. places - 1 = 0 /\ n % 10 = n
      BY <1>7, <2>2, SMT
    <3>. QED BY <1>6, <3>1
  <2>4. ToChars(n, 10) = <<HexDigit[n + 1]>>
    BY <1>4, <2>2, <2>3, SMT
  <2>5. HexDigit[n + 1] = Decimals[n + 1]
    BY <1>5, <1>7, SMT
  <2>. QED BY <1>7, <2>4, <2>5 DEF TwoDigits
<1>8. CASE n >= 10
  <2>1. left[1] # 0 /\ left[1] \in 1 .. 9
    BY <1>6, <1>8, SMT
  <2>2. left[2] = 0
    <3>1. 2 \in 1 .. n + 1 /\ left[2] = left[1] \div 10
      BY <1>2, <1>8, SMT
    <3>. QED BY <2>1, <3>1, SMT
  <2>3. places = 2
    BY <1>3, <1>8, <2>1, <2>2, SMT
  <2>4. left[places - 1] = n \div 10 /\ left[places - 2] = n /\ (n \div 10) % 10 = n \div 10
    <3>1. places - 1 = 1 /\ places - 2 = 0 /\ (n \div 10) % 10 = n \div 10
      BY <1>8, <2>3, SMT
    <3>. QED BY <1>6, <3>1
  <2>5. ToChars(n, 10) = <<HexDigit[(n \div 10) + 1], HexDigit[(n % 10) + 1]>>
    BY <1>4, <2>3, <2>4, SMT
  <2>6. HexDigit[(n \div 10) + 1] = Decimals[(n \div 10) + 1]
        /\ HexDigit[(n % 10) + 1] = Decimals[(n % 10) + 1]
    BY <1>5, <1>8, SMT
  <2>. QED BY <1>8, <2>5, <2>6 DEF TwoDigits
<1>. QED BY <1>7, <1>8, SMT

------------------------------------------------------------------------------
(****************************************************************************)
(* What a parser has in front of it: the marks of which format strings are  *)
(* made, and numbers read back from them.                                   *)
(****************************************************************************)

\* What texts are made of.
Names ==
    {"past", "epoch"} \union {"weekday " \o ToString(n) : n \in Int}
    \union {"month " \o ToString(n) : n \in Int}

Counted ==
    {"char " \o ToString(n) : n \in Int} \union {name \o "." \o ToString(i) : name \in Names, i \in Nat}

Fixed ==
    {"{", "}", ":", "#", ".", "L", "%", "<", ">", "^", "+", "-", " ", "/",
     Separator, Point, Nul, Past, NoChar, "newline", "tab", "custom", "digit",
     "decimal", "exponent"}
    \union {"t", "r", "u", "e", "f", "a", "l", "s", "x", "X", "b", "c", "d", "o", "B", "E", "F", "C",
       "D", "G", "p", "g",
            "A", "P", "M"}
    \union {"h", "j", "m", "n", "u", "w", "y", "z", "H", "I", "R", "S", "T", "U", "V", "W", "Y", "Z"}

Marks == STRING \union Digits \union Hexes \union Fixed \union {ToString(n) : n \in Int} \union Counted

\* The characters of strings, the digits and the tokens are among the marks.
LEMMA MarksInclude ==
    STRING \subseteq Marks /\ Digits \subseteq Marks /\ Hexes \subseteq Marks /\ Fixed \subseteq Marks
    /\ Counted \subseteq Marks /\ \A n \in Int : ToString(n) \in Marks
<1>. DEFINE T == {ToString(n) : n \in Int}
<1>1. Marks = STRING \union Digits \union Hexes \union Fixed \union T \union Counted
  BY DEF Marks
<1>2. \A n \in Int : ToString(n) \in T
  OBVIOUS
<1>. HIDE DEF T
<1>. QED BY <1>1, <1>2

\* What a parser has in front of it.
Ahead(p, text) ==
    /\ p.sv \in Seq(Marks) /\ p.pos \in Nat /\ text \in Seq(Marks)
    /\ Len(p.sv) = p.pos + Len(text) /\ \A i \in 1 .. Len(text) : p.sv[p.pos + i] = text[i]

\* The parser looks at the first characters of what is in front of it.
LEMMA AtAhead ==
    ASSUME NEW p, NEW text, Ahead(p, text)
    PROVE  /\ Len(text) >= 1 => At(p.sv, p.pos) = text[1] /\ ~(p.pos >= Len(p.sv))
           /\ Len(text) >= 2 => At(p.sv, p.pos + 1) = text[2]
           /\ Len(text) = 1 => At(p.sv, p.pos + 1) = Past
<1>1. Len(text) \in Nat /\ p.pos \in Nat /\ Len(p.sv) = p.pos + Len(text)
  BY DEF Ahead
<1>2. ASSUME NEW i \in 0 .. Len(text) - 1
      PROVE  At(p.sv, p.pos + i) = text[i + 1]
  <2>1. p.pos + i < Len(p.sv) /\ i + 1 \in 1 .. Len(text) /\ p.pos + i + 1 = p.pos + (i + 1)
    BY <1>1, SMT
  <2>2. p.sv[p.pos + (i + 1)] = text[i + 1]
    BY <2>1, Zenon DEF Ahead
  <2>. QED BY <2>1, <2>2, Zenon DEF At
<1>3. ASSUME Len(text) >= 1 PROVE At(p.sv, p.pos) = text[1] /\ ~(p.pos >= Len(p.sv))
  <2>1. 0 \in 0 .. Len(text) - 1 /\ p.pos + 0 = p.pos /\ 0 + 1 = 1 /\ ~(p.pos >= Len(p.sv))
    BY <1>1, <1>3, SMT DEF Ahead
  <2>. QED BY <1>2, <2>1, Zenon
<1>4. ASSUME Len(text) >= 2 PROVE At(p.sv, p.pos + 1) = text[2]
  <2>1. 1 \in 0 .. Len(text) - 1 /\ 1 + 1 = 2
    BY <1>1, <1>4, SMT
  <2>. QED BY <1>2, <2>1, Zenon
<1>5. ASSUME Len(text) = 1 PROVE At(p.sv, p.pos + 1) = Past
  BY <1>1, <1>5, SMT DEF Ahead, At
<1>. QED BY <1>3, <1>4, <1>5

\* Moving on by the length of a text leaves what follows it.
LEMMA SkipAhead ==
    ASSUME NEW p, NEW q, NEW a \in Seq(Marks), NEW b \in Seq(Marks), Ahead(p, a \o b),
           q.sv = p.sv, q.pos = p.pos + Len(a)
    PROVE  Ahead(q, b)
<1>1. Len(a) \in Nat /\ Len(b) \in Nat /\ Len(a \o b) = Len(a) + Len(b) /\ p.pos \in Nat
  BY DEF Ahead
<1>2. ASSUME NEW i \in 1 .. Len(b) PROVE q.sv[q.pos + i] = b[i]
  <2>1. Len(a) + i \in 1 .. Len(a \o b) /\ p.pos + (Len(a) + i) = q.pos + i
    BY <1>1, SMT
  <2>2. p.sv[p.pos + (Len(a) + i)] = (a \o b)[Len(a) + i]
    BY <2>1, Zenon DEF Ahead
  <2>3. (a \o b)[Len(a) + i] = b[i]
    BY <1>1, SMT
  <2>. QED BY <2>1, <2>2, <2>3
<1>. QED BY <1>1, <1>2, SMT DEF Ahead

\* The digits.
LEMMA DecimalDigits ==
    /\ \A d \in 0 .. 9 : Decimals[d + 1] \in Digits /\ CodeOf(Decimals[d + 1]) = d
    /\ \A d \in 1 .. 9 : Decimals[d + 1] # "0"
    /\ Digits = {"0", "1", "2", "3", "4", "5", "6", "7", "8", "9"}
<1>1. Digits = {"0", "1", "2", "3", "4", "5", "6", "7", "8", "9"}
  BY SMT DEF Digits, Decimals
<1>2. \A d \in 1 .. 9 : Decimals[d + 1] # "0"
  BY SMT DEF Decimals
<1>3. ASSUME NEW d \in 0 .. 9 PROVE Decimals[d + 1] \in Digits /\ CodeOf(Decimals[d + 1]) = d
  <2>1. d + 1 \in 1 .. 10
    BY SMT
  <2>2. Decimals[d + 1] \in Digits
    BY <2>1, Zenon DEF Digits
  <2>3. \A n \in 0 .. 9 : Decimals[n + 1] = Decimals[d + 1] => n = d
    BY SMT DEF Decimals
  <2>4. (CHOOSE n \in 0 .. 9 : Decimals[n + 1] = Decimals[d + 1]) = d
    BY <2>3
  <2>. QED BY <2>2, <2>4, Zenon DEF CodeOf, DigitValue
<1>. QED BY <1>1, <1>2, <1>3

\* A number of one or two digits is read back.
LEMMA NumberRead ==
    ASSUME NEW p, NEW n \in 0 .. 99, NEW rest \in Seq(Marks), Ahead(p, ToChars(n, 10) \o rest),
           rest # <<>>, rest[1] \notin Digits
    PROVE  /\ ToChars(n, 10) \in Seq(Digits) /\ ToChars(n, 10) # <<>>
           /\ se_from_chars(p.sv, p.pos) = [count |-> Len(ToChars(n, 10)), value |-> n]
           /\ At(p.sv, p.pos) \in Digits /\ (n # 0 => At(p.sv, p.pos) # "0")
           /\ At(p.sv, p.pos + Len(ToChars(n, 10))) = rest[1]
<1>1. ToChars(n, 10) = TwoDigits(n) /\ Digits \subseteq Marks
  <2>1. ToChars(n, 10) = TwoDigits(n)
    BY ShortNumber
  <2>2. Digits \subseteq Marks
    BY MarksInclude
  <2>. QED BY <2>1, <2>2
<1>2. Ahead(p, TwoDigits(n) \o rest)
  BY <1>1
<1>3. CASE n < 10
  <2>. DEFINE d == Decimals[n + 1]
  <2>1. n \in 0 .. 9
    BY <1>3, SMT
  <2>2. d \in Digits /\ CodeOf(d) = n /\ (n # 0 => d # "0") /\ d \in Marks
    <3>1. n # 0 => n \in 1 .. 9
      BY <2>1, SMT
    <3>. QED BY <1>1, <2>1, <3>1, DecimalDigits
  <2>3. TwoDigits(n) = <<d>>
    BY <1>3 DEF TwoDigits
  <2>. HIDE DEF d
  <2>4. Len(<<d>> \o rest) >= 2 /\ (<<d>> \o rest)[1] = d /\ (<<d>> \o rest)[2] = rest[1]
    BY <2>2, SMT
  <2>5. At(p.sv, p.pos) = d /\ At(p.sv, p.pos + 1) = rest[1] /\ ~(p.pos >= Len(p.sv))
    <3>1. Ahead(p, <<d>> \o rest) /\ Len(<<d>> \o rest) >= 1
      BY <1>2, <2>3, <2>4, SMT
    <3>. QED BY <2>4, <3>1, AtAhead
  <2>6. se_from_chars(p.sv, p.pos) = [count |-> 1, value |-> n]
    BY <2>2, <2>5, Zenon DEF se_from_chars
  <2>7. <<d>> \in Seq(Digits) /\ <<d>> # <<>> /\ Len(<<d>>) = 1
    BY <2>2, SMT
  <2>. QED BY <1>1, <2>2, <2>3, <2>5, <2>6, <2>7, Zenon
<1>4. CASE n >= 10
  <2>. DEFINE c == Decimals[(n \div 10) + 1]
              d == Decimals[(n % 10) + 1]
  <2>1. n \div 10 \in 0 .. 9 /\ n % 10 \in 0 .. 9 /\ n \div 10 \in 1 .. 9
        /\ n = 10 * (n \div 10) + (n % 10)
    BY <1>4, SMT
  <2>2. c \in Digits /\ d \in Digits /\ CodeOf(c) = n \div 10 /\ CodeOf(d) = n % 10 /\ c # "0"
        /\ c \in Marks /\ d \in Marks
    BY <1>1, <2>1, DecimalDigits
  <2>3. TwoDigits(n) = <<c, d>>
    BY <1>4, SMT DEF TwoDigits
  <2>. HIDE DEF c, d
  <2>4. /\ Len(<<c, d>> \o rest) >= 2 /\ (<<c, d>> \o rest)[1] = c /\ (<<c, d>> \o rest)[2] = d
        /\ <<c, d>> \in Seq(Marks) /\ Len(<<c, d>>) = 2
    BY <2>2, SMT
  <2>5. At(p.sv, p.pos) = c /\ At(p.sv, p.pos + 1) = d /\ ~(p.pos >= Len(p.sv))
    <3>1. Ahead(p, <<c, d>> \o rest) /\ Len(<<c, d>> \o rest) >= 1
      BY <1>2, <2>3, <2>4, SMT
    <3>. QED BY <2>4, <3>1, AtAhead
  <2>6. At(p.sv, p.pos + 2) = rest[1]
    <3>. DEFINE q == [sv |-> p.sv, pos |-> p.pos + 2]
    <3>1. Ahead(p, <<c, d>> \o rest)
      BY <1>2, <2>3
    <3>2. q.sv = p.sv /\ q.pos = p.pos + Len(<<c, d>>)
      BY <2>4
    <3>. HIDE DEF q
    <3>3. Ahead(q, rest)
      BY <2>4, <3>1, <3>2, SkipAhead
    <3>4. Len(rest) >= 1
      BY SMT
    <3>. QED BY <2>4, <3>2, <3>3, <3>4, AtAhead, Zenon
  <2>7. se_from_chars(p.sv, p.pos) = [count |-> 2, value |-> n]
    BY <2>1, <2>2, <2>5, Zenon DEF se_from_chars
  <2>8. <<c, d>> \in Seq(Digits) /\ <<c, d>> # <<>>
    BY <2>2, SMT
  <2>. QED BY <1>1, <2>2, <2>3, <2>4, <2>5, <2>6, <2>7, <2>8, Zenon
<1>. QED BY <1>3, <1>4, SMT

------------------------------------------------------------------------------
(****************************************************************************)
(* The parts of a specification, one behind the other.                      *)
(****************************************************************************)

\* What a field is made of, from behind its fill, sign, ... on to its end.
LocaleTail(spec, rest) == OptionalIf(spec.localize, <<"L">>) \o rest

PrecisionTail(spec, rest) ==
    OptionalIf(spec.precision # 0, <<".">> \o ToChars(spec.precision, 10)) \o LocaleTail(spec, rest)

WidthTail(spec, rest) ==
    OptionalIf(spec.width # 0, ToChars(spec.width, 10)) \o PrecisionTail(spec, rest)

ZeroTail(spec, rest) == OptionalIf(spec.zero, <<"0">>) \o WidthTail(spec, rest)

AltTail(spec, rest) == OptionalIf(spec.alt, <<"#">>) \o ZeroTail(spec, rest)

SignTail(spec, rest) == Optional(spec.sign) \o AltTail(spec, rest)

FillTail(spec, rest) == Optional(spec.fill) \o (Optional(spec.align) \o SignTail(spec, rest))

TimesTail(times) == FlattenSeq([i \in 1 .. Len(times) |-> <<"%", times[i]>>])

EndChars == TypeSpecs \union {"}", "%"}

Inner == Marks \ {"<", ">", "^", "{"}

\* A specification whose numbers have at most two digits, with a fill where there is an alignment.
Short(spec) ==
    /\ spec \in ItemSpecs /\ spec.width \in 0 .. 99 /\ spec.precision \in 0 .. 99
    /\ (spec.align = "") = (spec.fill = "") /\ spec.fill \notin {"{", "}"}

\* A specification that is valid for a type, as the parser sees it, and what it reads.
Suits(spec, type) ==
    /\ Short(spec) /\ spec.type \in TypeSpecs \union {""} /\ type # "mono"
    /\ spec.alt => type \in Numbers \union {"char", "bool"}
    /\ spec.precision # 0 => type \in Texts \union {"float"}
    /\ spec.localize => type \notin {"char", "pointer", "mono", "string"}

FillFor(spec) == IF spec.fill \in {"", ":"} THEN " " ELSE spec.fill

AlignFor(spec, type) ==
    IF spec.align # "" THEN Aligns[spec.align] ELSE IF type \in Numbers THEN "AlignRight"
         ELSE "AlignLeft"

SignFor(spec) == IF spec.sign = "" THEN "Empty" ELSE Signs[spec.sign]

PrefixFor(spec, type) ==
    IF spec.alt /\ type \in {"int", "bool", "char"}
       /\ spec.type \in DOMAIN PreAltForm THEN PreAltForm[spec.type] ELSE <<>>

TypeFor(spec) == IF spec.type = "" THEN NoChar ELSE spec.type

CounterFor(spec, counter) == IF spec.precision # 0 THEN counter + 1 ELSE counter

Ends(rest) == rest \in Seq(Inner) /\ rest # <<>> /\ rest[1] \in EndChars

\* A text with or without one more character in front.
LEMMA Opened ==
    ASSUME NEW S, NEW x \in S, NEW rest \in Seq(S), rest # <<>>,
           NEW all, all = <<x>> \o rest \/ all = <<>> \o rest
    PROVE  all \in Seq(S) /\ all # <<>> /\ all[1] \in {x, rest[1]}
<1>1. CASE all = <<x>> \o rest
  BY <1>1
<1>2. CASE all = <<>> \o rest
  <2>1. <<>> \o rest = rest
    OBVIOUS
  <2>. QED BY <1>2, <2>1
<1>. QED BY <1>1, <1>2

\* A width that is given is not 0.
LEMMA Positive == ASSUME NEW n \in 0 .. 99, n # 0 PROVE n \in 1 .. 99
OBVIOUS

\* A text over some characters is one over more of them.
LEMMA Bigger ==
    ASSUME NEW S, NEW T, S \subseteq T, NEW s \in Seq(S)
    PROVE  s \in Seq(T)
OBVIOUS

\* A text in front of another one brings the first character.
LEMMA MoreOpened ==
    ASSUME NEW S, NEW a \in Seq(S), a # <<>>, NEW rest \in Seq(S)
    PROVE  a \o rest \in Seq(S) /\ a \o rest # <<>> /\ (a \o rest)[1] = a[1]
OBVIOUS

\* The characters of a specification behind its alignment.
LEMMA InnerMarks ==
    /\ Inner \subseteq Marks /\ Digits \subseteq Inner
    /\ \A c \in {"L", ".", "0", "#", "+", "-", " ", "}", "%", ":"} : c \in Inner
<1>1. Inner \subseteq Marks
  BY DEF Inner
<1>2. Digits \subseteq Inner
  BY MarksInclude, DecimalDigits DEF Inner
<1>3. "0" \in Digits
  BY DecimalDigits
<1>4. \A c \in {"L", ".", "#", "+", "-", " ", "}", "%", ":"} : c \in Fixed
  BY DEF Fixed
<1>. QED BY <1>1, <1>2, <1>3, <1>4, MarksInclude DEF Inner

\* How each of them begins.
LEMMA TailsBegin ==
    ASSUME NEW spec, Short(spec), NEW rest, Ends(rest)
    PROVE  /\ LocaleTail(spec, rest) \in Seq(Inner) /\ LocaleTail(spec, rest) # <<>>
           /\ LocaleTail(spec, rest)[1] \in EndChars \union {"L"}
           /\ PrecisionTail(spec, rest) \in Seq(Inner) /\ PrecisionTail(spec, rest) # <<>>
           /\ PrecisionTail(spec, rest)[1] \in EndChars \union {"L", "."}
           /\ WidthTail(spec, rest) \in Seq(Inner) /\ WidthTail(spec, rest) # <<>>
           /\ WidthTail(spec, rest)[1] \in EndChars \union {"L", "."} \union (Digits \ {"0"})
           /\ ZeroTail(spec, rest) \in Seq(Inner) /\ ZeroTail(spec, rest) # <<>>
           /\ ZeroTail(spec, rest)[1] \in EndChars \union {"L", "."} \union Digits
           /\ AltTail(spec, rest) \in Seq(Inner) /\ AltTail(spec, rest) # <<>>
           /\ AltTail(spec, rest)[1] \in EndChars \union {"L", ".", "#"} \union Digits
           /\ SignTail(spec, rest) \in Seq(Inner) /\ SignTail(spec, rest) # <<>>
<1>. DEFINE L == LocaleTail(spec, rest)
            P == PrecisionTail(spec, rest)
            W == WidthTail(spec, rest)
            Z == ZeroTail(spec, rest)
            A == AltTail(spec, rest)
            N == SignTail(spec, rest)
<1>1. rest \in Seq(Inner) /\ rest # <<>> /\ rest[1] \in EndChars
  BY DEF Ends
<1>2. /\ spec.localize \in BOOLEAN /\ spec.zero \in BOOLEAN /\ spec.alt \in BOOLEAN
      /\ spec.sign \in {"", "+", "-", " "} /\ spec.width \in 0 .. 99 /\ spec.precision \in 0 .. 99
  BY DEF Short, ItemSpecs
<1>3. ASSUME NEW n \in 1 .. 99
      PROVE  /\ ToChars(n, 10) \in Seq(Inner) /\ ToChars(n, 10) # <<>>
             /\ ToChars(n, 10)[1] \in Digits \ {"0"}
  <2>1. ToChars(n, 10) = TwoDigits(n)
    BY ShortNumber
  <2>2. TwoDigits(n) \in Seq(Digits) /\ TwoDigits(n) # <<>> /\ TwoDigits(n)[1] \in Digits \ {"0"}
    <3>1. CASE n < 10
      <4>1. n \in 0 .. 9 /\ n \in 1 .. 9
        BY <3>1, SMT
      <4>2. Decimals[n + 1] \in Digits /\ Decimals[n + 1] # "0"
        BY <4>1, DecimalDigits
      <4>3. TwoDigits(n) = <<Decimals[n + 1]>>
        BY <3>1 DEF TwoDigits
      <4>. QED BY <4>2, <4>3
    <3>2. CASE n >= 10
      <4>1. n \div 10 \in 0 .. 9 /\ n \div 10 \in 1 .. 9 /\ n % 10 \in 0 .. 9
        BY <3>2, SMT
      <4>2. Decimals[(n \div 10) + 1] \in Digits /\ Decimals[(n \div 10) + 1] # "0"
            /\ Decimals[(n % 10) + 1] \in Digits
        BY <4>1, DecimalDigits
      <4>3. TwoDigits(n) = <<Decimals[(n \div 10) + 1], Decimals[(n % 10) + 1]>>
        BY <3>2, SMT DEF TwoDigits
      <4>. QED BY <4>2, <4>3
    <3>. QED BY <3>1, <3>2, SMT
  <2>. QED BY <2>1, <2>2, InnerMarks, Bigger
<1>4. L \in Seq(Inner) /\ L # <<>> /\ L[1] \in EndChars \union {"L"}
  <2>1. "L" \in Inner
    BY InnerMarks
  <2>2. L = <<"L">> \o rest \/ L = <<>> \o rest
    BY Zenon DEF LocaleTail, OptionalIf
  <2>3. L \in Seq(Inner) /\ L # <<>> /\ L[1] \in {"L", rest[1]}
    BY <1>1, <2>1, <2>2, Opened
  <2>. QED BY <1>1, <2>1, <2>3
<1>. HIDE DEF L
<1>5. P \in Seq(Inner) /\ P # <<>> /\ P[1] \in EndChars \union {"L", "."}
  <2>1. CASE spec.precision = 0
    <3>1. P = <<>> \o L /\ <<>> \o L = L
      BY <1>4, <2>1, SMT DEF PrecisionTail, OptionalIf, L
    <3>. QED BY <1>4, <3>1
  <2>2. CASE spec.precision # 0
    <3>. DEFINE D == ToChars(spec.precision, 10)
    <3>1. D \in Seq(Inner) /\ <<".">> \in Seq(Inner)
      <4>1. spec.precision \in 1 .. 99
        BY <1>2, <2>2, Positive, Zenon
      <4>2. "." \in Inner
        BY InnerMarks
      <4>3. D \in Seq(Inner)
        BY <1>3, <4>1, Zenon
      <4>. QED BY <4>2, <4>3
    <3>2. P = (<<".">> \o D) \o L
      BY <2>2 DEF PrecisionTail, OptionalIf, L
    <3>. HIDE DEF D
    <3>3. <<".">> \o D \in Seq(Inner) /\ <<".">> \o D # <<>> /\ (<<".">> \o D)[1] = "."
      BY <3>1, MoreOpened
    <3>4. P \in Seq(Inner) /\ P # <<>> /\ P[1] = "."
      BY <1>4, <3>2, <3>3, MoreOpened
    <3>. QED BY <3>4
  <2>. QED BY <2>1, <2>2
<1>. HIDE DEF P
<1>6. W \in Seq(Inner) /\ W # <<>> /\ W[1] \in EndChars \union {"L", "."} \union (Digits \ {"0"})
  <2>1. CASE spec.width = 0
    <3>1. W = <<>> \o P /\ <<>> \o P = P
      BY <1>5, <2>1, SMT DEF WidthTail, OptionalIf, P
    <3>. QED BY <1>5, <3>1
  <2>2. CASE spec.width # 0
    <3>. DEFINE D == ToChars(spec.width, 10)
    <3>1. D \in Seq(Inner) /\ D # <<>> /\ D[1] \in Digits \ {"0"}
      <4>1. spec.width \in 1 .. 99
        BY <1>2, <2>2, Positive, Zenon
      <4>. QED BY <1>3, <4>1, Zenon
    <3>2. W = D \o P
      BY <2>2 DEF WidthTail, OptionalIf, P
    <3>. HIDE DEF D
    <3>. QED BY <1>5, <3>1, <3>2, MoreOpened
  <2>. QED BY <2>1, <2>2
<1>. HIDE DEF W
<1>7. Z \in Seq(Inner) /\ Z # <<>> /\ Z[1] \in EndChars \union {"L", "."} \union Digits
  <2>1. "0" \in Inner /\ "0" \in Digits
    BY InnerMarks, DecimalDigits
  <2>2. Z = <<"0">> \o W \/ Z = <<>> \o W
    BY Zenon DEF ZeroTail, OptionalIf, W
  <2>3. Z \in Seq(Inner) /\ Z # <<>> /\ Z[1] \in {"0", W[1]}
    BY <1>6, <2>1, <2>2, Opened
  <2>. QED BY <1>6, <2>1, <2>3
<1>. HIDE DEF Z
<1>8. A \in Seq(Inner) /\ A # <<>> /\ A[1] \in EndChars \union {"L", ".", "#"} \union Digits
  <2>1. "#" \in Inner
    BY InnerMarks
  <2>2. A = <<"#">> \o Z \/ A = <<>> \o Z
    BY Zenon DEF AltTail, OptionalIf, Z
  <2>3. A \in Seq(Inner) /\ A # <<>> /\ A[1] \in {"#", Z[1]}
    BY <1>7, <2>1, <2>2, Opened
  <2>. QED BY <1>7, <2>3
<1>. HIDE DEF A
<1>9. N \in Seq(Inner) /\ N # <<>>
  <2>1. CASE spec.sign = ""
    <3>1. N = <<>> \o A
      BY <2>1 DEF SignTail, Optional, A
    <3>2. <<>> \o A = A
      BY <1>8, SMT
    <3>. QED BY <1>8, <3>1, <3>2
  <2>2. CASE spec.sign # ""
    <3>1. N = <<spec.sign>> \o A /\ spec.sign \in Inner
      BY <1>2, <2>2, InnerMarks, Zenon DEF SignTail, Optional, A
    <3>. QED BY <1>8, <3>1, MoreOpened
  <2>. QED BY <2>1, <2>2
<1>. QED BY <1>4, <1>5, <1>6, <1>7, <1>8, <1>9 DEF L, P, W, Z, A

------------------------------------------------------------------------------
(****************************************************************************)
(* Each part is read as it was written.                                     *)
(****************************************************************************)

\* The specifications and parsers there are (SpecFormatting, the members of
\* ArgFormatter).
SpecStates ==
    [argPosition : Nat, width : Nat, precision : Nat, widthArg : Nat, precisionArg : Nat,
     align : {"Empty", "AlignLeft", "AlignRight", "AlignCenter"}, fill : Marks,
     sign : {"Empty", "Plus", "Minus", "Space"}, alt : BOOLEAN, pre : Seq(Marks), localize : BOOLEAN,
        type : Marks]

ParserStates ==
    [sv : Seq(Marks), pos : Nat, counter : Nat, mode : {"automatic", "manual"}, spec : SpecStates,
       more : BOOLEAN,
     times : Seq([char : Marks, localized : BOOLEAN]), error : {NoError}]

\* The parser went on from p to q and has rest in front of it.
Goes(p, q, rest) ==
    q \in ParserStates /\ Ahead(q, rest) /\ q.mode = p.mode /\ q.times = p.times

\* A parser with a text in front of it has not ended, and looks at its first
\* character.
LEMMA NotEnded ==
    ASSUME NEW p \in ParserStates, NEW rest, Ahead(p, rest), rest # <<>>
    PROVE  ~Ended(p) /\ At(p.sv, p.pos) = rest[1]
<1>1. Len(rest) >= 1
  BY DEF Ahead
<1>2. At(p.sv, p.pos) = rest[1] /\ ~(p.pos >= Len(p.sv))
  BY <1>1, AtAhead
<1>3. p.error = NoError
  BY DEF ParserStates
<1>. QED BY <1>2, <1>3 DEF Ended

\* A parser that passes over the first characters.
LEMMA Passes ==
    ASSUME NEW p \in ParserStates, NEW a \in Seq(Marks), NEW rest \in Seq(Marks), Ahead(p, a \o rest),
           NEW spec \in SpecStates
    PROVE  Goes(p, [p EXCEPT !.pos = @ + Len(a), !.spec = spec], rest)
<1>. DEFINE q == [p EXCEPT !.pos = @ + Len(a), !.spec = spec]
<1>1. q.sv = p.sv /\ q.pos = p.pos + Len(a) /\ q \in ParserStates /\ q.mode = p.mode
      /\ q.times = p.times
  <2>1. p.pos + Len(a) \in Nat
    <3>1. Len(a) \in Nat /\ p.pos \in Nat
      BY DEF ParserStates
    <3>. QED BY <3>1, SMT
  <2>. DEFINE pos == p.pos + Len(a)
  <2>2. pos \in Nat
    BY <2>1
  <2>3. q = [p EXCEPT !.pos = pos, !.spec = spec]
    BY DEF ParserStates
  <2>. HIDE DEF pos, q
  <2>4. q.sv = p.sv /\ q.pos = pos /\ q \in ParserStates /\ q.mode = p.mode /\ q.times = p.times
    BY <2>2, <2>3 DEF ParserStates
  <2>. QED BY <2>4 DEF pos
<1>. HIDE DEF q
<1>2. Ahead(q, rest)
  BY <1>1, SkipAhead
<1>. QED BY <1>1, <1>2 DEF q, Goes

\* A parser that passes over one character.
LEMMA PassesOne ==
    ASSUME NEW p \in ParserStates, NEW x \in Marks, NEW rest \in Seq(Marks), Ahead(p, <<x>> \o rest),
           NEW spec \in SpecStates
    PROVE  Goes(p, [p EXCEPT !.pos = @ + 1, !.spec = spec], rest)
<1>1. <<x>> \in Seq(Marks) /\ Len(<<x>>) = 1
  OBVIOUS
<1>. QED BY <1>1, Passes

\* A parser that passes over nothing.
LEMMA Stays ==
    ASSUME NEW p \in ParserStates, NEW rest, Ahead(p, <<>> \o rest) \/ Ahead(p, rest),
           rest \in Seq(Marks)
    PROVE  Goes(p, p, rest)
<1>1. <<>> \o rest = rest
  OBVIOUS
<1>. QED BY <1>1 DEF Goes

Aligned == {"Empty", "AlignLeft", "AlignRight", "AlignCenter"}

\* Specifications stay specifications when one member is assigned.
LEMMA SpecUpdates ==
    ASSUME NEW s \in SpecStates
    PROVE  /\ (\A n \in Nat : [s EXCEPT !.width = n] \in SpecStates)
              /\ (\A n \in Nat : [s EXCEPT !.precision = n] \in SpecStates)
           /\ (\A b \in BOOLEAN : [s EXCEPT !.alt = b] \in SpecStates)
              /\ (\A b \in BOOLEAN : [s EXCEPT !.localize = b] \in SpecStates)
           /\ (\A c \in Marks : [s EXCEPT !.type = c] \in SpecStates)
              /\ (\A c \in Marks, t \in Seq(Marks) : [s EXCEPT !.type = c, !.pre = t] \in SpecStates)
           /\ (\A c \in Marks : [s EXCEPT !.fill = c] \in SpecStates)
              /\ (\A c \in Marks, a \in Aligned : [s EXCEPT !.fill = c, !.align = a] \in SpecStates)
           /\ (\A n \in Nat : [s EXCEPT !.argPosition = n] \in SpecStates)
<1>1. \A n \in Nat : [s EXCEPT !.width = n] \in SpecStates
  BY DEF SpecStates, Aligned
<1>2. \A n \in Nat : [s EXCEPT !.precision = n] \in SpecStates
  BY DEF SpecStates, Aligned
<1>3. \A b \in BOOLEAN : [s EXCEPT !.alt = b] \in SpecStates
  BY DEF SpecStates, Aligned
<1>4. \A b \in BOOLEAN : [s EXCEPT !.localize = b] \in SpecStates
  BY DEF SpecStates, Aligned
<1>5. \A c \in Marks : [s EXCEPT !.type = c] \in SpecStates
  BY DEF SpecStates, Aligned
<1>6. \A c \in Marks, t \in Seq(Marks) : [s EXCEPT !.type = c, !.pre = t] \in SpecStates
  BY DEF SpecStates, Aligned
<1>7. \A c \in Marks : [s EXCEPT !.fill = c] \in SpecStates
  BY DEF SpecStates, Aligned
<1>8. \A c \in Marks, a \in Aligned : [s EXCEPT !.fill = c, !.align = a] \in SpecStates
  BY DEF SpecStates, Aligned
<1>9. \A n \in Nat : [s EXCEPT !.argPosition = n] \in SpecStates
  BY DEF SpecStates, Aligned
<1>. QED BY <1>1, <1>2, <1>3, <1>4, <1>5, <1>6, <1>7, <1>8, <1>9

\* Assigning to a member what it holds changes nothing.
LEMMA SpecSame ==
    ASSUME NEW s \in SpecStates
    PROVE  /\ s = [s EXCEPT !.width = s.width] /\ s = [s EXCEPT !.precision = s.precision]
           /\ s = [s EXCEPT !.alt = s.alt] /\ s = [s EXCEPT !.localize = s.localize]
           /\ s = [s EXCEPT !.type = s.type] /\ s = [s EXCEPT !.sign = s.sign]
              /\ s = [s EXCEPT !.fill = s.fill]
BY DEF SpecStates

\* The sign of a field (ArgFormatter::Parse).
LEMMA SignRead ==
    ASSUME NEW p \in ParserStates, NEW spec, Short(spec), NEW rest, Ends(rest),
           Ahead(p, SignTail(spec, rest)),
           p.spec.sign = "Empty"
    PROVE  /\ Goes(p, ParseSign(p), AltTail(spec, rest)) /\ ParseSign(p).counter = p.counter
           /\ ParseSign(p).spec = [p.spec EXCEPT !.sign = SignFor(spec)]
<1>. DEFINE T == AltTail(spec, rest)
<1>1. T \in Seq(Marks) /\ T # <<>> /\ T[1] \in EndChars \union {"L", ".", "#"} \union Digits
  BY TailsBegin, InnerMarks, Bigger
<1>2. DOMAIN Signs = {"+", "-", " "}
  BY DEF Signs
<1>3. SignTail(spec, rest) = Optional(spec.sign) \o T
  BY DEF SignTail
<1>. HIDE DEF T
<1>4. p.spec \in SpecStates
  BY DEF ParserStates
<1>5. CASE spec.sign = ""
  <2>1. Ahead(p, <<>> \o T)
    BY <1>3, <1>5 DEF Optional
  <2>2. Goes(p, p, T)
    BY <1>1, <2>1, Stays
  <2>3. At(p.sv, p.pos) = T[1]
    BY <1>1, <2>2, NotEnded DEF Goes
  <2>4. T[1] \notin DOMAIN Signs
    BY <1>1, <1>2, DecimalDigits DEF EndChars, TypeSpecs
  <2>5. ParseSign(p) = p
    BY <2>3, <2>4, Zenon DEF ParseSign
  <2>6. p.spec = [p.spec EXCEPT !.sign = "Empty"]
    BY <1>4, SMT DEF SpecStates
  <2>. QED BY <1>5, <2>2, <2>5, <2>6 DEF T, SignFor
<1>6. CASE spec.sign # ""
  <2>1. spec.sign \in {"+", "-", " "} /\ spec.sign \in Marks
    BY <1>6, InnerMarks DEF Short, ItemSpecs
  <2>2. Ahead(p, <<spec.sign>> \o T)
    BY <1>3, <1>6 DEF Optional
  <2>3. ~Ended(p) /\ At(p.sv, p.pos) = spec.sign
    <3>1. <<spec.sign>> \o T # <<>> /\ (<<spec.sign>> \o T)[1] = spec.sign
      <4>. DEFINE x == spec.sign
      <4>1. x \in Marks
        BY <2>1
      <4>. HIDE DEF x
      <4>2. <<x>> \o T # <<>> /\ (<<x>> \o T)[1] = x
        BY <1>1, <4>1
      <4>. QED BY <4>2 DEF x
    <3>. QED BY <2>2, <3>1, NotEnded
  <2>4. Signs[spec.sign] \in {"Plus", "Minus", "Space"}
    BY <2>1 DEF Signs
  <2>. DEFINE s == [p.spec EXCEPT !.sign = Signs[spec.sign]]
  <2>5. s \in SpecStates
    BY <1>4, <2>4, SMT DEF SpecStates
  <2>6. ParseSign(p) = [p EXCEPT !.pos = @ + 1, !.spec = s]
    <3>1. ParseSign(p) = [Skip(p, 1) EXCEPT !.spec.sign = Signs[At(p.sv, p.pos)]]
      BY <1>2, <2>1, <2>3, Zenon DEF ParseSign
    <3>. QED BY <2>3, <3>1, SMT DEF Skip, ParserStates
  <2>. HIDE DEF s
  <2>7. Goes(p, ParseSign(p), T)
    BY <1>1, <2>1, <2>2, <2>5, <2>6, PassesOne
  <2>8. ParseSign(p).counter = p.counter /\ ParseSign(p).spec = s
    BY <2>5, <2>6, SMT DEF ParserStates
  <2>. QED BY <1>6, <2>7, <2>8 DEF T, s, SignFor
<1>. QED BY <1>5, <1>6

\* How a character that a field has or has not is read.
LEMMA Begun ==
    ASSUME NEW p \in ParserStates, NEW x \in Marks, NEW rest \in Seq(Marks), Ahead(p, <<x>> \o rest)
    PROVE  ~Ended(p) /\ At(p.sv, p.pos) = x /\ Len(<<x>> \o rest) >= 1 + Len(rest)
<1>1. <<x>> \o rest # <<>> /\ (<<x>> \o rest)[1] = x /\ Len(<<x>> \o rest) >= 1 + Len(rest)
  OBVIOUS
<1>. QED BY <1>1, NotEnded

\* Numbers of two digits are natural.
LEMMA Natural == ASSUME NEW n \in 0 .. 99 PROVE n \in Nat
OBVIOUS

\* The alternative form (VerifyAltField).
LEMMA AltRead ==
    ASSUME NEW p \in ParserStates, NEW spec, NEW type, Suits(spec, type), NEW rest, Ends(rest),
           Ahead(p, AltTail(spec, rest)),
           p.spec.alt = FALSE
    PROVE  /\ Goes(p, VerifyAltField(p, type), ZeroTail(spec, rest))
              /\ VerifyAltField(p, type).counter = p.counter
           /\ VerifyAltField(p, type).spec = [p.spec EXCEPT !.alt = spec.alt]
<1>. DEFINE T == ZeroTail(spec, rest)
            q == VerifyAltField(p, type)
<1>0. Short(spec) /\ (spec.alt => type \in Numbers \union {"char", "bool"})
  BY DEF Suits
<1>1. T \in Seq(Marks) /\ T # <<>> /\ T[1] \in EndChars \union {"L", "."} \union Digits
  BY <1>0, TailsBegin, InnerMarks, Bigger
<1>2. AltTail(spec, rest) = OptionalIf(spec.alt, <<"#">>) \o T
  BY DEF AltTail
<1>. HIDE DEF T
<1>3. p.spec \in SpecStates
  BY DEF ParserStates
<1>4. spec.alt \in BOOLEAN
  BY <1>0 DEF Short, ItemSpecs
<1>5. CASE ~spec.alt
  <2>1. Ahead(p, <<>> \o T)
    BY <1>2, <1>5 DEF OptionalIf
  <2>2. Goes(p, p, T)
    BY <1>1, <2>1, Stays
  <2>3. At(p.sv, p.pos) = T[1]
    BY <1>1, <2>2, NotEnded DEF Goes
  <2>4. T[1] # "#"
    BY <1>1, DecimalDigits DEF EndChars, TypeSpecs
  <2>5. q = p
    BY <2>3, <2>4, Zenon DEF VerifyAltField
  <2>6. p.spec = [p.spec EXCEPT !.alt = FALSE]
    BY <1>3, SpecSame, Zenon
  <2>. QED BY <1>4, <1>5, <2>2, <2>5, <2>6 DEF T
<1>6. CASE spec.alt
  <2>1. Ahead(p, <<"#">> \o T) /\ "#" \in Marks
    BY <1>2, <1>6, InnerMarks DEF OptionalIf
  <2>2. ~Ended(p) /\ At(p.sv, p.pos) = "#"
    BY <1>1, <2>1, Begun
  <2>. DEFINE s == [p.spec EXCEPT !.alt = TRUE]
  <2>3. s \in SpecStates
    BY <1>3, SpecUpdates, Zenon
  <2>4. q = [p EXCEPT !.pos = @ + 1, !.spec = s]
    <3>1. q = [Skip(p, 1) EXCEPT !.spec.alt = TRUE]
      BY <1>0, <1>6, <2>2, Zenon DEF VerifyAltField
    <3>. QED BY <3>1, SMT DEF Skip, ParserStates
  <2>. HIDE DEF s, q
  <2>5. Goes(p, q, T)
    BY <1>1, <2>1, <2>3, <2>4, PassesOne
  <2>6. q.counter = p.counter /\ q.spec = s
    BY <2>3, <2>4, SMT DEF ParserStates
  <2>. QED BY <1>4, <1>6, <2>5, <2>6 DEF T, s, q
<1>. QED BY <1>4, <1>5, <1>6

\* A zero that has a fill in front of it (ArgFormatter::Parse).
LEMMA ZeroRead ==
    ASSUME NEW p \in ParserStates, NEW spec, Short(spec), NEW rest, Ends(rest),
           Ahead(p, ZeroTail(spec, rest)),
           p.spec.fill # NoChar
    PROVE  /\ Goes(p, ParseZero(p), WidthTail(spec, rest)) /\ ParseZero(p).counter = p.counter
           /\ ParseZero(p).spec = p.spec
<1>. DEFINE T == WidthTail(spec, rest)
            q == ParseZero(p)
<1>1. T \in Seq(Marks) /\ T # <<>> /\ T[1] \in EndChars \union {"L", "."} \union (Digits \ {"0"})
  BY TailsBegin, InnerMarks, Bigger
<1>2. ZeroTail(spec, rest) = OptionalIf(spec.zero, <<"0">>) \o T
  BY DEF ZeroTail
<1>. HIDE DEF T
<1>3. p.spec \in SpecStates
  BY DEF ParserStates
<1>4. spec.zero \in BOOLEAN
  BY DEF Short, ItemSpecs
<1>5. CASE ~spec.zero
  <2>1. Ahead(p, <<>> \o T)
    BY <1>2, <1>5 DEF OptionalIf
  <2>2. Goes(p, p, T)
    BY <1>1, <2>1, Stays
  <2>3. At(p.sv, p.pos) = T[1]
    BY <1>1, <2>2, NotEnded DEF Goes
  <2>4. T[1] # "0"
    BY <1>1, DecimalDigits DEF EndChars, TypeSpecs
  <2>5. q = p
    BY <2>3, <2>4, Zenon DEF ParseZero
  <2>. QED BY <1>5, <2>2, <2>5 DEF T
<1>6. CASE spec.zero
  <2>1. Ahead(p, <<"0">> \o T) /\ "0" \in Marks
    BY <1>2, <1>6, InnerMarks DEF OptionalIf
  <2>2. ~Ended(p) /\ At(p.sv, p.pos) = "0"
    BY <1>1, <2>1, Begun
  <2>3. q = [p EXCEPT !.pos = @ + 1, !.spec = p.spec]
    <3>1. q = [Skip(p, 1) EXCEPT !.spec.fill = IF @ = NoChar THEN "0" ELSE @]
      BY <2>2, Zenon DEF ParseZero
    <3>. DEFINE s == [p.spec EXCEPT !.fill = p.spec.fill]
    <3>2. q = [p EXCEPT !.pos = @ + 1, !.spec = s]
      BY <3>1, SMT DEF Skip, ParserStates
    <3>3. s = p.spec
      BY <1>3, SpecSame, Zenon
    <3>. QED BY <3>2, <3>3
  <2>. HIDE DEF q
  <2>4. Goes(p, q, T)
    BY <1>1, <1>3, <2>1, <2>3, PassesOne
  <2>5. q.counter = p.counter /\ q.spec = p.spec
    BY <2>3, SMT DEF ParserStates
  <2>. QED BY <2>4, <2>5 DEF T, q
<1>. QED BY <1>4, <1>5, <1>6

\* The width (VerifyWidthField).
LEMMA WidthRead ==
    ASSUME NEW p \in ParserStates, NEW spec, Short(spec), NEW rest, Ends(rest),
           Ahead(p, WidthTail(spec, rest)),
           p.spec.width = 0
    PROVE  /\ Goes(p, VerifyWidthField(p), PrecisionTail(spec, rest))
              /\ VerifyWidthField(p).counter = p.counter
           /\ VerifyWidthField(p).spec = [p.spec EXCEPT !.width = spec.width]
<1>. DEFINE T == PrecisionTail(spec, rest)
            q == VerifyWidthField(p)
            D == ToChars(spec.width, 10)
<1>1. T \in Seq(Marks) /\ T # <<>> /\ T[1] \in EndChars \union {"L", "."}
  BY TailsBegin, InnerMarks, Bigger
<1>2. WidthTail(spec, rest) = OptionalIf(spec.width # 0, D) \o T
  BY DEF WidthTail
<1>. HIDE DEF T
<1>3. p.spec \in SpecStates
  BY DEF ParserStates
<1>4. spec.width \in 0 .. 99
  BY DEF Short
<1>5. T[1] \notin Digits /\ T[1] # "{"
  BY <1>1, DecimalDigits DEF EndChars, TypeSpecs
<1>6. CASE spec.width = 0
  <2>1. Ahead(p, <<>> \o T)
    BY <1>2, <1>6 DEF OptionalIf
  <2>2. Goes(p, p, T)
    BY <1>1, <2>1, Stays
  <2>3. At(p.sv, p.pos) = T[1] /\ ~Ended(p)
    BY <1>1, <2>2, NotEnded DEF Goes
  <2>4. q = p
    BY <1>5, <2>3, Zenon DEF VerifyWidthField
  <2>5. p.spec = [p.spec EXCEPT !.width = 0]
    BY <1>3, SMT DEF SpecStates
  <2>. QED BY <1>6, <2>2, <2>4, <2>5 DEF T
<1>7. CASE spec.width # 0
  <2>1. Ahead(p, D \o T)
    BY <1>2, <1>7 DEF OptionalIf
  <2>2. /\ D \in Seq(Digits) /\ D # <<>>
           /\ se_from_chars(p.sv, p.pos) = [count |-> Len(D), value |-> spec.width]
        /\ At(p.sv, p.pos) \in Digits /\ At(p.sv, p.pos) # "0"
    BY <1>1, <1>4, <1>5, <1>7, <2>1, NumberRead, Zenon
  <2>3. ~Ended(p) /\ At(p.sv, p.pos) # "{"
    <3>1. D \o T # <<>>
      BY <1>1, <2>2, MarksInclude
    <3>. QED BY <2>1, <2>2, <3>1, NotEnded, DecimalDigits
  <2>. DEFINE s == [p.spec EXCEPT !.width = spec.width]
  <2>4. s \in SpecStates
    <3>1. spec.width \in Nat
      BY <1>4, Natural
    <3>. QED BY <1>3, <3>1, SpecUpdates, Zenon
  <2>5. q = [p EXCEPT !.pos = @ + Len(D), !.spec = s]
    <3>. HIDE DEF D
    <3>1. At(p.sv, p.pos) \in Digits \ {"0"} /\ se_from_chars(p.sv, p.pos).count = Len(D)
          /\ se_from_chars(p.sv, p.pos).value = spec.width
      BY <2>2
    <3>2. q = [Skip(p, Len(D)) EXCEPT !.spec.width = spec.width]
      BY <2>3, <3>1, Zenon DEF VerifyWidthField
    <3>. QED BY <3>2, SMT DEF Skip, ParserStates
  <2>6. D \in Seq(Marks)
    BY <2>2, MarksInclude, Bigger
  <2>. HIDE DEF s, q, D
  <2>7. Goes(p, q, T)
    BY <1>1, <2>1, <2>4, <2>5, <2>6, Passes
  <2>8. q.counter = p.counter /\ q.spec = s
    BY <2>4, <2>5, SMT DEF ParserStates
  <2>. QED BY <2>7, <2>8 DEF T, s, q
<1>. QED BY <1>6, <1>7

\* Another counter leaves a parser a parser.
LEMMA CounterKept ==
    ASSUME NEW q \in ParserStates, NEW c \in Nat
    PROVE  [q EXCEPT !.counter = c] \in ParserStates
BY DEF ParserStates

\* One character put behind nothing.
LEMMA Single ==
    ASSUME NEW S, NEW x \in S
    PROVE  <<>> \o <<x>> = <<x>>
OBVIOUS

\* One character put behind another one.
LEMMA Pair ==
    ASSUME NEW S, NEW x \in S, NEW y \in S
    PROVE  <<y>> \o <<x>> = <<y, x>>
<1>1. \A s \in Seq(S) : Len(s) = 2 /\ s[1] = y /\ s[2] = x => s = <<y, x>>
  OBVIOUS
<1>2. <<y>> \o <<x>> \in Seq(S) /\ Len(<<y>> \o <<x>>) = 2 /\ (<<y>> \o <<x>>)[1] = y
      /\ (<<y>> \o <<x>>)[2] = x
  OBVIOUS
<1>. QED BY <1>1, <1>2

\* A text of one character.
LEMMA One ==
    ASSUME NEW S, NEW x \in S
    PROVE  <<x>> \in Seq(S) /\ <<x>> # <<>> /\ <<x>>[1] = x
OBVIOUS

\* A text of two characters.
LEMMA TwoText ==
    ASSUME NEW S, NEW x \in S, NEW y \in S
    PROVE  <<y, x>> \in Seq(S) /\ <<y, x>> # <<>> /\ <<y, x>>[1] = y
OBVIOUS

\* A parser that passes over the first characters and counts.
LEMMA Counts ==
    ASSUME NEW p \in ParserStates, NEW a \in Seq(Marks), NEW rest \in Seq(Marks), Ahead(p, a \o rest),
           NEW spec \in SpecStates,
           NEW counter \in Nat
    PROVE  Goes(p, [p EXCEPT !.pos = @ + Len(a), !.spec = spec, !.counter = counter], rest)
<1>. DEFINE q == [p EXCEPT !.pos = @ + Len(a), !.spec = spec]
            r == [p EXCEPT !.pos = @ + Len(a), !.spec = spec, !.counter = counter]
<1>1. Goes(p, q, rest)
  BY Passes
<1>2. r = [q EXCEPT !.counter = counter]
  BY SMT DEF ParserStates
<1>. HIDE DEF q, r
<1>3. q \in ParserStates /\ Ahead(q, rest) /\ q.mode = p.mode /\ q.times = p.times
  BY <1>1 DEF Goes
<1>4. r \in ParserStates /\ r.sv = q.sv /\ r.pos = q.pos /\ r.mode = q.mode /\ r.times = q.times
  <2>1. r \in ParserStates
    BY <1>2, <1>3, CounterKept
  <2>. QED BY <1>2, <1>3, <2>1, SMT DEF ParserStates
<1>5. Ahead(r, rest)
  BY <1>3, <1>4 DEF Ahead
<1>6. Goes(p, r, rest)
  BY <1>3, <1>4, <1>5 DEF Goes
<1>. QED BY <1>6 DEF r

\* The precision, which is counted (VerifyPrecisionField).
LEMMA PrecisionRead ==
    ASSUME NEW p \in ParserStates, NEW spec, NEW type, Suits(spec, type), NEW rest, Ends(rest),
           Ahead(p, PrecisionTail(spec, rest)),
           p.spec.precision = 0
    PROVE  /\ Goes(p, VerifyPrecisionField(p, type), LocaleTail(spec, rest))
           /\ VerifyPrecisionField(p, type).counter = CounterFor(spec, p.counter)
           /\ VerifyPrecisionField(p, type).spec = [p.spec EXCEPT !.precision = spec.precision]
<1>. DEFINE T == LocaleTail(spec, rest)
            q == VerifyPrecisionField(p, type)
            D == ToChars(spec.precision, 10)
<1>0. Short(spec) /\ (spec.precision # 0 => type \in Texts \union {"float"})
  BY DEF Suits
<1>1. T \in Seq(Marks) /\ T # <<>> /\ T[1] \in EndChars \union {"L"}
  BY <1>0, TailsBegin, InnerMarks, Bigger
<1>2. PrecisionTail(spec, rest) = OptionalIf(spec.precision # 0, <<".">> \o D) \o T
  BY DEF PrecisionTail
<1>. HIDE DEF T
<1>3. p.spec \in SpecStates /\ p.counter + 1 \in Nat
  BY DEF ParserStates
<1>4. spec.precision \in 0 .. 99
  BY <1>0 DEF Short
<1>5. T[1] \notin Digits /\ T[1] # "."
  BY <1>1, DecimalDigits DEF EndChars, TypeSpecs
<1>6. CASE spec.precision = 0
  <2>1. Ahead(p, <<>> \o T)
    BY <1>2, <1>6 DEF OptionalIf
  <2>2. Goes(p, p, T)
    BY <1>1, <2>1, Stays
  <2>3. At(p.sv, p.pos) = T[1] /\ ~Ended(p)
    BY <1>1, <2>2, NotEnded DEF Goes
  <2>4. q = p
    BY <1>5, <2>3, Zenon DEF VerifyPrecisionField
  <2>5. p.spec = [p.spec EXCEPT !.precision = 0]
    BY <1>3, SMT DEF SpecStates
  <2>. QED BY <1>6, <2>2, <2>4, <2>5 DEF T, CounterFor
<1>7. CASE spec.precision # 0
  <2>. DEFINE r == Skip(p, 1)
  <2>1. D \in Seq(Digits) /\ D # <<>>
    <3>1. Ahead([sv |-> D \o T, pos |-> 0], D \o T)
      <4>1. D = TwoDigits(spec.precision)
        BY <1>4, ShortNumber
      <4>2. D \in Seq(Digits)
        <5>1. spec.precision \in Nat /\ 10 \in Bases
          BY <1>4, Natural, SMT DEF Bases
        <5>. QED BY <5>1, NaturalText, DigitsInside
      <4>. DEFINE w == D \o T
      <4>3. w \in Seq(Marks)
        BY <1>1, <4>2, MarksInclude, Bigger
      <4>. HIDE DEF w
      <4>4. Ahead([sv |-> w, pos |-> 0], w)
        BY <4>3 DEF Ahead
      <4>. QED BY <4>4 DEF w
    <3>. QED BY <1>1, <1>4, <1>5, <3>1, NumberRead, Zenon
  <2>2. D \in Seq(Marks) /\ "." \in Marks /\ D \o T \in Seq(Marks) /\ <<".">> \in Seq(Marks)
    <3>1. D \in Seq(Marks) /\ "." \in Marks
      BY <2>1, MarksInclude, InnerMarks, Bigger
    <3>. QED BY <1>1, <3>1, SMT
  <2>3. Ahead(p, <<".">> \o (D \o T))
    <3>1. Ahead(p, (<<".">> \o D) \o T)
      BY <1>2, <1>7 DEF OptionalIf
    <3>. HIDE DEF D
    <3>2. (<<".">> \o D) \o T = <<".">> \o (D \o T)
      BY <1>1, <2>2, ConcatAssoc
    <3>. QED BY <3>1, <3>2
  <2>4. ~Ended(p) /\ At(p.sv, p.pos) = "."
    BY <2>2, <2>3, Begun
  <2>5. r.sv = p.sv /\ r.pos = p.pos + 1 /\ r \in ParserStates /\ Ahead(r, D \o T)
    <3>1. r.sv = p.sv /\ r.pos = p.pos + 1 /\ r \in ParserStates
      BY SMT DEF Skip, ParserStates
    <3>2. Len(<<".">>) = 1
      OBVIOUS
    <3>. HIDE DEF r, D
    <3>. QED BY <2>2, <2>3, <3>1, <3>2, SkipAhead
  <2>6. /\ se_from_chars(r.sv, r.pos) = [count |-> Len(D), value |-> spec.precision]
        /\ At(r.sv, r.pos) \in Digits
    BY <1>1, <1>4, <1>5, <2>5, NumberRead, Zenon
  <2>. DEFINE s == [p.spec EXCEPT !.precision = spec.precision]
              c == p.counter + 1
  <2>7. s \in SpecStates
    <3>1. spec.precision \in Nat
      BY <1>4, Natural
    <3>. QED BY <1>3, <3>1, SpecUpdates, Zenon
  <2>8. r = [p EXCEPT !.pos = @ + 1] /\ r.spec = p.spec /\ r.counter = p.counter /\ r.mode = p.mode
        /\ r.times = p.times
    BY SMT DEF Skip, ParserStates
  <2>9. q = [r EXCEPT !.pos = @ + Len(D), !.spec = s, !.counter = c]
    <3>. HIDE DEF D
    <3>1. se_from_chars(r.sv, r.pos).count = Len(D) /\ se_from_chars(r.sv, r.pos).value = spec.precision
      BY <2>6
    <3>2. q = PrecisionAt(p)
      BY <1>0, <1>7, <2>4, Zenon DEF VerifyPrecisionField
    <3>3. q = [Skip(r, Len(D)) EXCEPT !.spec.precision = spec.precision, !.counter = @ + 1]
      <4>1. At(r.sv, r.pos) # "{" /\ At(r.sv, r.pos) # "}"
        BY <2>6, DecimalDigits
      <4>. QED BY <2>6, <3>1, <3>2, <4>1, Zenon DEF PrecisionAt
    <3>. HIDE DEF r, q
    <3>. QED BY <2>5, <2>8, <3>3, SMT DEF Skip, ParserStates
  <2>. HIDE DEF s, q, D, c, r
  <2>10. c \in Nat
    BY <1>3 DEF c
  <2>11. Goes(r, q, T)
    BY <1>1, <2>2, <2>5, <2>7, <2>9, <2>10, Counts
  <2>12. q.counter = c /\ q.spec = s
    BY <2>5, <2>7, <2>9, SMT DEF ParserStates
  <2>13. Goes(p, q, T)
    BY <2>8, <2>11 DEF Goes
  <2>. QED BY <1>7, <2>12, <2>13 DEF T, s, q, c, CounterFor
<1>. QED BY <1>6, <1>7

\* The locale's form (VerifyLocaleField).
LEMMA LocaleRead ==
    ASSUME NEW p \in ParserStates, NEW spec, NEW type, Suits(spec, type), NEW rest, Ends(rest),
           Ahead(p, LocaleTail(spec, rest)),
           p.spec.localize = FALSE
    PROVE  /\ Goes(p, VerifyLocaleField(p, type), rest)
              /\ VerifyLocaleField(p, type).counter = p.counter
           /\ VerifyLocaleField(p, type).spec = [p.spec EXCEPT !.localize = spec.localize]
<1>. DEFINE q == VerifyLocaleField(p, type)
<1>0. Short(spec) /\ (spec.localize => type \notin {"char", "pointer", "mono", "string"})
  BY DEF Suits
<1>1. rest \in Seq(Marks) /\ rest # <<>> /\ rest[1] \in EndChars
  BY InnerMarks, Bigger DEF Ends
<1>2. LocaleTail(spec, rest) = OptionalIf(spec.localize, <<"L">>) \o rest
  BY DEF LocaleTail
<1>3. p.spec \in SpecStates
  BY DEF ParserStates
<1>4. spec.localize \in BOOLEAN
  BY <1>0 DEF Short, ItemSpecs
<1>5. CASE ~spec.localize
  <2>1. Ahead(p, <<>> \o rest)
    BY <1>2, <1>5 DEF OptionalIf
  <2>2. Goes(p, p, rest)
    BY <1>1, <2>1, Stays
  <2>3. At(p.sv, p.pos) = rest[1]
    BY <1>1, <2>2, NotEnded DEF Goes
  <2>4. rest[1] # "L"
    BY <1>1 DEF EndChars, TypeSpecs
  <2>5. q = p
    BY <2>3, <2>4, Zenon DEF VerifyLocaleField
  <2>6. p.spec = [p.spec EXCEPT !.localize = FALSE]
    BY <1>3, SpecSame, Zenon
  <2>. QED BY <1>4, <1>5, <2>2, <2>5, <2>6
<1>6. CASE spec.localize
  <2>1. Ahead(p, <<"L">> \o rest) /\ "L" \in Marks
    BY <1>2, <1>6, InnerMarks DEF OptionalIf
  <2>2. ~Ended(p) /\ At(p.sv, p.pos) = "L"
    BY <1>1, <2>1, Begun
  <2>. DEFINE s == [p.spec EXCEPT !.localize = TRUE]
  <2>3. s \in SpecStates
    BY <1>3, SpecUpdates, Zenon
  <2>4. q = [p EXCEPT !.pos = @ + 1, !.spec = s]
    <3>1. q = [Skip(p, 1) EXCEPT !.spec.localize = TRUE]
      BY <1>0, <1>6, <2>2, Zenon DEF VerifyLocaleField
    <3>. QED BY <3>1, SMT DEF Skip, ParserStates
  <2>. HIDE DEF s, q
  <2>5. Goes(p, q, rest)
    BY <1>1, <2>1, <2>3, <2>4, PassesOne
  <2>6. q.counter = p.counter /\ q.spec = s
    BY <2>3, <2>4, SMT DEF ParserStates
  <2>. QED BY <1>4, <1>6, <2>5, <2>6 DEF s, q
<1>. QED BY <1>4, <1>5, <1>6

\* What is left of a field behind all of these.
TypeTail(spec) == Optional(spec.type) \o <<"}">>

\* The letters of the presentations are characters of a specification.
LEMMA TypeMarks == TypeSpecs \subseteq Inner /\ TypeSpecs \subseteq Marks /\ "}" \in Inner
<1>1. TypeSpecs \subseteq Fixed
  BY DEF Fixed, TypeSpecs
<1>2. \A c \in TypeSpecs : c \notin {"<", ">", "^", "{"}
  BY DEF TypeSpecs
<1>. QED BY <1>1, <1>2, InnerMarks, MarksInclude DEF Inner

\* The presentation or the bracket ends what is read before it.
LEMMA TypeEnds ==
    ASSUME NEW spec, spec.type \in TypeSpecs \union {""}
    PROVE  Ends(TypeTail(spec))
<1>1. TypeSpecs \subseteq Inner /\ "}" \in Inner
  BY TypeMarks
<1>2. CASE spec.type = ""
  <2>1. TypeTail(spec) = <<>> \o <<"}">>
    BY <1>2 DEF TypeTail, Optional
  <2>2. TypeTail(spec) = <<"}">>
    BY <1>1, <2>1, Single
  <2>3. <<"}">> \in Seq(Inner) /\ <<"}">> # <<>> /\ <<"}">>[1] = "}"
    BY <1>1, One
  <2>. QED BY <2>2, <2>3 DEF Ends, EndChars
<1>3. CASE spec.type # ""
  <2>. DEFINE x == spec.type
  <2>1. TypeTail(spec) = <<x>> \o <<"}">> /\ x \in TypeSpecs /\ x \in Inner
    BY <1>1, <1>3 DEF TypeTail, Optional
  <2>. HIDE DEF x
  <2>2. TypeTail(spec) = <<x, "}">>
    BY <1>1, <2>1, Pair
  <2>3. <<x, "}">> \in Seq(Inner) /\ <<x, "}">> # <<>> /\ <<x, "}">>[1] = x
    BY <1>1, <2>1, TwoText
  <2>. QED BY <2>1, <2>2, <2>3 DEF Ends, EndChars
<1>. QED BY <1>2, <1>3

\* Another specification leaves the rest of a parser alone.
LEMMA Respecified ==
    ASSUME NEW p \in ParserStates, NEW s \in SpecStates
    PROVE  LET q == [p EXCEPT !.spec = s] IN
           /\ q \in ParserStates /\ q.spec = s /\ q.sv = p.sv /\ q.pos = p.pos /\ q.mode = p.mode
              /\ q.counter = p.counter
           /\ q.times = p.times
BY SMT DEF ParserStates

\* Two members of the specification assigned at once.
LEMMA SpecPairs ==
    ASSUME NEW p \in ParserStates, NEW x, NEW y
    PROVE  /\ [p EXCEPT !.spec.type = x, !.spec.pre = y]
                = [p EXCEPT !.spec = [p.spec EXCEPT !.type = x, !.pre = y]]
           /\ [p EXCEPT !.spec.align = x, !.spec.fill = y]
                = [p EXCEPT !.spec = [p.spec EXCEPT !.fill = y, !.align = x]]
<1>1. [p EXCEPT !.spec.type = x, !.spec.pre = y]
        = [p EXCEPT !.spec = [p.spec EXCEPT !.type = x, !.pre = y]]
  BY DEF ParserStates
<1>2. [p EXCEPT !.spec.align = x, !.spec.fill = y]
        = [p EXCEPT !.spec = [p.spec EXCEPT !.align = x, !.fill = y]]
  BY DEF ParserStates
<1>4. \A s \in SpecStates : [s EXCEPT !.align = x, !.fill = y] = [s EXCEPT !.fill = y, !.align = x]
  BY DEF SpecStates
<1>5. p.spec \in SpecStates
  BY DEF ParserStates
<1>. QED BY <1>1, <1>2, <1>4, <1>5

\* Skip moves on and leaves the rest of a parser alone.
LEMMA Skipped ==
    ASSUME NEW p \in ParserStates, NEW n \in Nat
    PROVE  /\ Skip(p, n) \in ParserStates /\ Skip(p, n).spec = p.spec
              /\ Skip(p, n) = [p EXCEPT !.pos = @ + n]
           /\ Skip(p, n).sv = p.sv /\ Skip(p, n).pos = p.pos + n /\ Skip(p, n).counter = p.counter
           /\ Skip(p, n).mode = p.mode /\ Skip(p, n).times = p.times
<1>. DEFINE pos == p.pos + n
            q == Skip(p, n)
<1>1. pos \in Nat
  BY SMT DEF ParserStates
<1>2. q = [p EXCEPT !.pos = @ + n] /\ q = [p EXCEPT !.pos = pos]
  BY DEF Skip, ParserStates
<1>. HIDE DEF q, pos
<1>3. /\ q \in ParserStates /\ q.spec = p.spec /\ q.sv = p.sv /\ q.pos = pos /\ q.counter = p.counter
         /\ q.mode = p.mode
      /\ q.times = p.times
  BY <1>1, <1>2, SMT DEF ParserStates
<1>. QED BY <1>2, <1>3 DEF q, pos

\* Where OnAlign leaves the parser.
AlignedTo(p, fill, align) ==
    [p EXCEPT !.pos = @ + 2,
       !.spec = [p.spec EXCEPT !.fill = IF fill = ":" THEN " " ELSE fill, !.align = align]]

\* The order of the assignments to fill and alignment does not matter.
LEMMA SpecAligns ==
    ASSUME NEW s \in SpecStates, NEW align \in Aligned, NEW c
    PROVE  /\ [s EXCEPT !.align = align] \in SpecStates
           /\ [[s EXCEPT !.align = align] EXCEPT !.fill = c] = [s EXCEPT !.fill = c, !.align = align]
BY DEF SpecStates, Aligned

\* OnAlign stores fill and alignment and passes over both (OnAlignLeft,
\* OnAlignRight, OnAlignCenter).
LEMMA Aligning ==
    ASSUME NEW p \in ParserStates, NEW fill, NEW align \in Aligned, fill \notin {"{", "}"}
    PROVE  OnAlign(p, fill, align) = AlignedTo(p, fill, align)
<1>. DEFINE r == Skip(p, 2)
            c == IF fill = ":" THEN " " ELSE fill
            s == [r.spec EXCEPT !.align = align]
            q == [r EXCEPT !.spec.align = align]
<1>1. r \in ParserStates /\ r.spec = p.spec /\ r = [p EXCEPT !.pos = @ + 2]
  BY Skipped
<1>2. OnAlign(p, fill, align) = [q EXCEPT !.spec.fill = c]
  BY Zenon DEF OnAlign
<1>. HIDE DEF r, c
<1>3. s \in SpecStates
  <2>1. r.spec \in SpecStates
    BY <1>1 DEF ParserStates
  <2>. QED BY <2>1, SpecAligns, Zenon
<1>4. q = [r EXCEPT !.spec = s]
  BY <1>1 DEF ParserStates
<1>. HIDE DEF q
<1>5. q \in ParserStates /\ q.spec = s
  BY <1>1, <1>3, <1>4, Respecified
<1>6. [q EXCEPT !.spec.fill = c] = [q EXCEPT !.spec = [q.spec EXCEPT !.fill = c]]
  BY <1>5 DEF ParserStates
<1>7. [q EXCEPT !.spec.fill = c] = [r EXCEPT !.spec = [s EXCEPT !.fill = c]]
  <2>. HIDE DEF s
  <2>. QED BY <1>1, <1>4, <1>5, <1>6 DEF ParserStates
<1>8. [s EXCEPT !.fill = c] = [p.spec EXCEPT !.fill = c, !.align = align]
  <2>1. p.spec \in SpecStates
    BY DEF ParserStates
  <2>2. [[p.spec EXCEPT !.align = align] EXCEPT !.fill = c]
          = [p.spec EXCEPT !.fill = c, !.align = align]
    BY <2>1, SpecAligns
  <2>. QED BY <1>1, <2>2
<1>9. OnAlign(p, fill, align)
        = [p EXCEPT !.pos = @ + 2, !.spec = [p.spec EXCEPT !.fill = c, !.align = align]]
  BY <1>1, <1>2, <1>7, <1>8
<1>. QED BY <1>9 DEF c, AlignedTo

\* A text that begins with two known characters.
TwoFirst(x, y, t) ==
    /\ Len(<<x>> \o (<<y>> \o t)) >= 2 /\ Len(<<x>> \o (<<y>> \o t)) >= 1
    /\ (<<x>> \o (<<y>> \o t))[1] = x /\ (<<x>> \o (<<y>> \o t))[2] = y
    /\ <<x, y>> \in Seq(Marks) /\ Len(<<x, y>>) = 2 /\ <<x, y>> \o t = <<x>> \o (<<y>> \o t)

\* A longer text has a second character.
LEMMA Second == ASSUME NEW S, NEW t \in Seq(S), t # <<>>, Len(t) # 1 PROVE Len(t) >= 2 /\ t[2] \in S
<1>. DEFINE n == Len(t)
<1>1. n \in Nat
  OBVIOUS
<1>2. n # 0 /\ n # 1
  OBVIOUS
<1>. HIDE DEF n
<1>3. n >= 2
  BY <1>1, <1>2
<1>. QED BY <1>3 DEF n

\* Two characters in front of a text are its first ones.
LEMMA TwoBehind ==
    ASSUME NEW x \in Marks, NEW y \in Marks, NEW t \in Seq(Marks)
    PROVE  TwoFirst(x, y, t)
<1>1. <<x>> \in Seq(Marks) /\ <<y>> \in Seq(Marks) /\ <<x, y>> \in Seq(Marks) /\ Len(<<x, y>>) = 2
  OBVIOUS
<1>2. <<y>> \o t \in Seq(Marks) /\ Len(<<y>> \o t) >= 1 /\ (<<y>> \o t)[1] = y
  OBVIOUS
<1>3. \A u \in Seq(Marks) : Len(u) >= 1 => /\ Len(<<x>> \o u) >= 2 /\ Len(<<x>> \o u) >= 1
                                            /\ (<<x>> \o u)[1] = x /\ (<<x>> \o u)[2] = u[1]
  OBVIOUS
<1>4. <<x>> \o <<y>> = <<x, y>>
  BY Pair
<1>5. (<<x>> \o <<y>>) \o t = <<x>> \o (<<y>> \o t)
  BY <1>1, ConcatAssoc
<1>. QED BY <1>1, <1>2, <1>3, <1>4, <1>5 DEF TwoFirst

\* The presentation of a field (HandlePotentialTypeField).
SpecTyped(s, c, t) == [s EXCEPT !.type = c, !.pre = t]

SpecFilled(s, c, a) == [s EXCEPT !.fill = c, !.align = a]

\* The presentation is stored, with its prefix where # is given
\* (HandlePotentialTypeField).
LEMMA TypeRead ==
    ASSUME NEW p \in ParserStates, NEW spec, spec.type \in TypeSpecs \union {""},
           Ahead(p, TypeTail(spec)),
           p.spec.type = NoChar, p.spec.pre = <<>>, p.spec.alt = spec.alt, NEW type
    PROVE  /\ HandlePotentialTypeField(p, type) \in ParserStates
              /\ HandlePotentialTypeField(p, type).mode = p.mode
           /\ HandlePotentialTypeField(p, type).counter = p.counter
           /\ HandlePotentialTypeField(p, type).spec
                = SpecTyped(p.spec, TypeFor(spec), PrefixFor(spec, type))
<1>. DEFINE q == HandlePotentialTypeField(p, type)
            T == TypeTail(spec)
            prefixed == p.spec.alt /\ type \in {"int", "bool", "char"}
               /\ spec.type \in DOMAIN PreAltForm
            pre == PrefixFor(spec, type)
<1>0. pre = IF prefixed THEN PreAltForm[spec.type] ELSE p.spec.pre
  BY DEF PrefixFor
<1>1. p.spec \in SpecStates
  BY DEF ParserStates
<1>2. TypeSpecs \subseteq Inner /\ TypeSpecs \subseteq Marks /\ "}" \in Inner
  BY TypeMarks
<1>3. DOMAIN PreAltForm = {"b", "B", "o", "x", "X"}
  BY DEF PreAltForm
<1>4. CASE spec.type = ""
  <2>1. T = <<"}">>
    <3>1. T = <<>> \o <<"}">>
      BY <1>4 DEF TypeTail, Optional
    <3>. QED BY <1>2, <3>1, Single
  <2>2. At(p.sv, p.pos) = "}"
    <3>1. <<"}">> # <<>> /\ <<"}">>[1] = "}"
      BY <1>2, One
    <3>. QED BY <2>1, <3>1, NotEnded
  <2>3. q = p
    BY <2>2, Zenon DEF HandlePotentialTypeField, TypeSpecs
  <2>4. ~prefixed
    BY <1>3, <1>4
  <2>5. p.spec = [p.spec EXCEPT !.type = NoChar, !.pre = p.spec.pre]
    BY <1>1, SpecSame, Zenon
  <2>6. pre = p.spec.pre /\ TypeFor(spec) = NoChar
    BY <1>0, <1>4, <2>4 DEF TypeFor
  <2>. HIDE DEF q, pre, prefixed
  <2>. QED BY <2>3, <2>5, <2>6 DEF q, pre, SpecTyped
<1>5. CASE spec.type # ""
  <2>. DEFINE x == spec.type
  <2>1. T = <<x>> \o <<"}">> /\ x \in TypeSpecs /\ x \in Inner /\ x \in Marks
    BY <1>2, <1>5 DEF TypeTail, Optional
  <2>2. ~Ended(p) /\ At(p.sv, p.pos) = x
    <3>1. <<"}">> \in Seq(Marks)
      BY <1>2, InnerMarks, One, Bigger
    <3>. HIDE DEF x
    <3>. QED BY <2>1, <3>1, Begun
  <2>3. pre \in Seq(Marks)
    <3>1. CASE ~prefixed
      <4>1. p.spec.pre \in Seq(Marks)
        BY <1>1 DEF SpecStates
      <4>. HIDE DEF pre
      <4>. QED BY <1>0, <3>1, <4>1
    <3>2. CASE prefixed
      <4>1. x \in {"b", "B", "o", "x", "X"} /\ "0" \in Marks
        BY <1>3, <3>2, InnerMarks
      <4>2. PreAltForm[x] = IF x = "o" THEN <<"0">> ELSE <<"0", x>>
        BY <1>3, <4>1 DEF PreAltForm
      <4>3. <<"0">> \in Seq(Marks) /\ <<"0", x>> \in Seq(Marks)
        <5>. HIDE DEF x
        <5>. QED BY <2>1, <4>1, One, TwoText
      <4>. HIDE DEF pre
      <4>. QED BY <1>0, <3>2, <4>2, <4>3
    <3>. QED BY <3>1, <3>2
  <2>4. q = OnValidTypeSpec(p, type, x)
    <3>1. x # "}"
      BY <2>1 DEF TypeSpecs
    <3>. QED BY <2>1, <2>2, <3>1, Zenon DEF HandlePotentialTypeField
  <2>. DEFINE s == [p.spec EXCEPT !.type = x, !.pre = pre]
  <2>5. s \in SpecStates
    <3>. HIDE DEF x, pre
    <3>. QED BY <1>1, <2>1, <2>3, SpecUpdates, Zenon
  <2>6. q = [p EXCEPT !.spec = s]
    <3>1. q = [p EXCEPT !.spec.type = x, !.spec.pre = pre]
      <4>. HIDE DEF pre, q
      <4>. QED BY <1>0, <2>4, Zenon DEF OnValidTypeSpec
    <3>. HIDE DEF x, pre, q
    <3>. QED BY <3>1, SpecPairs
  <2>7. q.spec = s /\ q \in ParserStates /\ q.mode = p.mode /\ q.counter = p.counter
    <3>. HIDE DEF q, s
    <3>. QED BY <2>5, <2>6, Respecified
  <2>. HIDE DEF q
  <2>8. TypeFor(spec) = x
    BY <1>5 DEF TypeFor
  <2>. HIDE DEF pre, x
  <2>. QED BY <2>7, <2>8 DEF q, pre, SpecTyped
<1>. QED BY <1>4, <1>5

\* The fill and the alignment (VerifyFillAlignField).
LEMMA FillRead ==
    ASSUME NEW p \in ParserStates, NEW spec, Short(spec), NEW rest, Ends(rest),
           Ahead(p, FillTail(spec, rest)),
           NEW type, type # "mono"
    PROVE  /\ Goes(p, VerifyFillAlignField(p, type), SignTail(spec, rest))
           /\ VerifyFillAlignField(p, type).counter = p.counter
           /\ VerifyFillAlignField(p, type).spec
                = SpecFilled(p.spec, FillFor(spec), AlignFor(spec, type))
<1>. DEFINE q == VerifyFillAlignField(p, type)
            T == SignTail(spec, rest)
            fill == FillFor(spec)
            align == AlignFor(spec, type)
            s == [p.spec EXCEPT !.fill = fill, !.align = align]
<1>1. T \in Seq(Inner) /\ T # <<>> /\ T \in Seq(Marks)
  BY TailsBegin, InnerMarks, Bigger
<1>2. p.spec \in SpecStates
  BY DEF ParserStates
<1>3. DOMAIN Aligns = {"<", ">", "^"}
  BY DEF Aligns
<1>4. spec.fill \in Char \union {""} /\ spec.align \in {"", "<", ">", "^"}
      /\ ((spec.align = "") = (spec.fill = ""))
      /\ spec.fill \notin {"{", "}"}
  BY DEF Short, ItemSpecs
<1>5. fill \in Marks /\ " " \in Marks
  BY <1>4, MarksInclude, InnerMarks DEF Char, FillFor
<1>6. align \in Aligned
  BY <1>4 DEF Aligned, Aligns, AlignFor
<1>7. s \in SpecStates
  <2>. HIDE DEF fill, align
  <2>. QED BY <1>2, <1>5, <1>6, SpecUpdates, Zenon
<1>8. FillTail(spec, rest) = Optional(spec.fill) \o (Optional(spec.align) \o T)
  BY DEF FillTail
<1>. HIDE DEF T
<1>9. CASE spec.align = ""
  <2>1. Ahead(p, T)
    <3>1. FillTail(spec, rest) = <<>> \o (<<>> \o T)
      BY <1>4, <1>8, <1>9 DEF Optional
    <3>2. <<>> \o (<<>> \o T) = T
      BY <1>1
    <3>. QED BY <3>1, <3>2
  <2>2. At(p.sv, p.pos + 1) \notin DOMAIN Aligns
    <3>1. CASE Len(T) = 1
      <4>1. At(p.sv, p.pos + 1) = Past
        BY <2>1, <3>1, AtAhead
      <4>. QED BY <1>3, <4>1 DEF Past
    <3>2. CASE Len(T) # 1
      <4>1. Len(T) >= 2 /\ T[2] \in Inner
        BY <1>1, <3>2, Second
      <4>2. At(p.sv, p.pos + 1) = T[2]
        BY <2>1, <4>1, AtAhead
      <4>. QED BY <1>3, <4>1, <4>2 DEF Inner
    <3>. QED BY <3>1, <3>2
  <2>3. q = OnAlignDefault(p, type)
    BY <2>2, Zenon DEF VerifyFillAlignField
  <2>4. q = [p EXCEPT !.spec = s]
    <3>1. q = [p EXCEPT !.spec.align = align, !.spec.fill = fill]
      BY <1>4, <1>9, <2>3, Zenon DEF OnAlignDefault, FillFor, AlignFor
    <3>. HIDE DEF q, align, fill
    <3>. QED BY <3>1, SpecPairs
  <2>. HIDE DEF q, s
  <2>5. q.spec = s /\ q \in ParserStates /\ q.sv = p.sv /\ q.pos = p.pos /\ q.mode = p.mode
        /\ q.counter = p.counter /\ q.times = p.times
    BY <1>7, <2>4, SMT DEF ParserStates
  <2>6. Goes(p, q, T)
    BY <2>1, <2>5 DEF Goes, Ahead
  <2>. QED BY <2>5, <2>6 DEF q, s, T, SpecFilled
<1>10. CASE spec.align # ""
  <2>. DEFINE f == spec.fill
              a == spec.align
  <2>1. f # "" /\ f \in Marks /\ a \in Marks /\ a \in DOMAIN Aligns
    <3>1. a \in Fixed
      BY <1>4, <1>10 DEF Fixed
    <3>. QED BY <1>3, <1>4, <1>10, <3>1, MarksInclude DEF Char
  <2>2. Ahead(p, <<f>> \o (<<a>> \o T))
    BY <1>8, <1>10, <2>1 DEF Optional
  <2>3. /\ Len(<<f>> \o (<<a>> \o T)) >= 2 /\ Len(<<f>> \o (<<a>> \o T)) >= 1
           /\ (<<f>> \o (<<a>> \o T))[1] = f /\ (<<f>> \o (<<a>> \o T))[2] = a
        /\ <<f, a>> \in Seq(Marks) /\ Len(<<f, a>>) = 2 /\ <<f, a>> \o T = <<f>> \o (<<a>> \o T)
    <3>. HIDE DEF f, a
    <3>1. f \in Marks /\ a \in Marks /\ T \in Seq(Marks)
      BY <1>1, <2>1
    <3>2. TwoFirst(f, a, T)
      BY <3>1, TwoBehind
    <3>. QED BY <3>2 DEF TwoFirst
  <2>4. At(p.sv, p.pos) = f /\ At(p.sv, p.pos + 1) = a
    <3>. HIDE DEF f, a
    <3>. QED BY <2>2, <2>3, AtAhead
  <2>5. q = OnAlign(p, f, Aligns[a])
    BY <2>1, <2>4, Zenon DEF VerifyFillAlignField
  <2>6. q = [p EXCEPT !.pos = @ + 2, !.spec = s]
    <3>1. q = [p EXCEPT !.pos = @ + 2,
          !.spec = [p.spec EXCEPT !.fill = IF f = ":" THEN " " ELSE f, !.align = Aligns[a]]]
      <4>1. f \notin {"{", "}"} /\ Aligns[a] \in Aligned
        BY <1>4, <1>6, <1>10 DEF AlignFor
      <4>2. q = AlignedTo(p, f, Aligns[a])
        BY <2>5, <4>1, Aligning, Zenon
      <4>. QED BY <4>2, Zenon DEF AlignedTo
    <3>2. fill = (IF f = ":" THEN " " ELSE f) /\ align = Aligns[a]
      BY <1>10, <2>1 DEF FillFor, AlignFor
    <3>. HIDE DEF q, align, fill, f, a
    <3>. QED BY <3>1, <3>2
  <2>. HIDE DEF q, s, f, a
  <2>7. Goes(p, q, T)
    <3>1. <<f, a>> \in Seq(Marks) /\ Len(<<f, a>>) = 2 /\ Ahead(p, <<f, a>> \o T)
      BY <2>2, <2>3
    <3>2. q = [p EXCEPT !.pos = @ + Len(<<f, a>>), !.spec = s]
      BY <2>6, <3>1
    <3>. QED BY <1>1, <1>7, <3>1, <3>2, Passes
  <2>8. q.counter = p.counter /\ q.spec = s
    BY <1>7, <2>6, SMT DEF ParserStates
  <2>. QED BY <2>7, <2>8 DEF q, s, T, SpecFilled
<1>. QED BY <1>9, <1>10

------------------------------------------------------------------------------
(****************************************************************************)
(* A whole specification is read as it was written.                         *)
(****************************************************************************)

\* A specification by its members.
SpecOf(n, width, precision, align, fill, sign, alt, pre, localize, type) ==
    [argPosition |-> n, width |-> width, precision |-> precision, widthArg |-> 0, precisionArg |-> 0,
     align |-> align, fill |-> fill, sign |-> sign, alt |-> alt, pre |-> pre, localize |-> localize,
        type |-> type]

\* The specification of a parser from stage to stage.
AtBegin(n) == SpecOf(n, 0, 0, "Empty", NoChar, "Empty", FALSE, <<>>, FALSE, NoChar)

AfterFill(n, spec, type) ==
    SpecOf(n, 0, 0, AlignFor(spec, type), FillFor(spec), "Empty", FALSE, <<>>, FALSE, NoChar)

AfterSign(n, spec, type) ==
    SpecOf(n, 0, 0, AlignFor(spec, type), FillFor(spec), SignFor(spec), FALSE, <<>>, FALSE, NoChar)

AfterAlt(n, spec, type) ==
    SpecOf(n, 0, 0, AlignFor(spec, type), FillFor(spec), SignFor(spec), spec.alt, <<>>, FALSE, NoChar)

AfterWidth(n, spec, type) ==
    SpecOf(n, spec.width, 0, AlignFor(spec, type), FillFor(spec), SignFor(spec), spec.alt, <<>>, FALSE,
       NoChar)

AfterPrecision(n, spec, type) ==
    SpecOf(n, spec.width, spec.precision, AlignFor(spec, type), FillFor(spec), SignFor(spec), spec.alt,
       <<>>, FALSE, NoChar)

AfterLocale(n, spec, type) ==
    SpecOf(n, spec.width, spec.precision, AlignFor(spec, type), FillFor(spec), SignFor(spec), spec.alt,
       <<>>, spec.localize, NoChar)

AfterType(n, spec, type) ==
    SpecOf(n, spec.width, spec.precision, AlignFor(spec, type), FillFor(spec), SignFor(spec), spec.alt,
       PrefixFor(spec, type), spec.localize, TypeFor(spec))

\* Only fill and alignment change when they are read.
LEMMA FillChanges ==
    ASSUME NEW n, NEW a, NEW c, NEW x, NEW y,
           x = SpecOf(n, 0, 0, "Empty", NoChar, "Empty", FALSE, <<>>, FALSE, NoChar),
              y = SpecFilled(x, c, a)
    PROVE  y = SpecOf(n, 0, 0, a, c, "Empty", FALSE, <<>>, FALSE, NoChar)
BY Zenon DEF SpecOf, SpecFilled, SpecTyped

\* Only the sign changes.
LEMMA SignChanges ==
    ASSUME NEW n, NEW a, NEW c, NEW s, NEW x, NEW y,
           x = SpecOf(n, 0, 0, a, c, "Empty", FALSE, <<>>, FALSE, NoChar), y = [x EXCEPT !.sign = s]
    PROVE  y = SpecOf(n, 0, 0, a, c, s, FALSE, <<>>, FALSE, NoChar)
BY Zenon DEF SpecOf, SpecFilled, SpecTyped

\* Only the alternative form changes.
LEMMA AltChanges ==
    ASSUME NEW n, NEW a, NEW c, NEW s, NEW b, NEW x, NEW y,
           x = SpecOf(n, 0, 0, a, c, s, FALSE, <<>>, FALSE, NoChar), y = [x EXCEPT !.alt = b]
    PROVE  y = SpecOf(n, 0, 0, a, c, s, b, <<>>, FALSE, NoChar)
BY Zenon DEF SpecOf, SpecFilled, SpecTyped

\* Only the presentation and its prefix change.
LEMMA TypeChanges ==
    ASSUME NEW n, NEW w, NEW d, NEW a, NEW c, NEW s, NEW b, NEW t, NEW l, NEW k, NEW x, NEW y,
           x = SpecOf(n, w, d, a, c, s, b, <<>>, l, NoChar), y = SpecTyped(x, k, t)
    PROVE  y = SpecOf(n, w, d, a, c, s, b, t, l, k)
BY Zenon DEF SpecOf, SpecFilled, SpecTyped

\* The first stage: the parser is behind fill and alignment
\* (VerifyFillAlignField).
LEMMA FillStep ==
    ASSUME NEW p \in ParserStates, NEW spec, NEW type, Suits(spec, type), NEW rest, Ends(rest), NEW n,
           p.spec = AtBegin(n), Ahead(p, FillTail(spec, rest))
    PROVE  /\ Goes(p, VerifyFillAlignField(p, type), SignTail(spec, rest))
              /\ VerifyFillAlignField(p, type).counter = p.counter
           /\ VerifyFillAlignField(p, type).spec = AfterFill(n, spec, type)
<1>1. Short(spec) /\ type # "mono"
  BY DEF Suits
<1>3. /\ Goes(p, VerifyFillAlignField(p, type), SignTail(spec, rest))
         /\ VerifyFillAlignField(p, type).counter = p.counter
      /\ VerifyFillAlignField(p, type).spec = SpecFilled(p.spec, FillFor(spec), AlignFor(spec, type))
  BY <1>1, FillRead
<1>. DEFINE x == p.spec
            y == VerifyFillAlignField(p, type).spec
<1>4. x = AtBegin(n) /\ y = SpecFilled(x, FillFor(spec), AlignFor(spec, type))
  BY <1>3
<1>. HIDE DEF x, y
<1>5. y = AfterFill(n, spec, type)
  BY <1>4, FillChanges DEF AtBegin, AfterFill
<1>. QED BY <1>3, <1>5 DEF y

\* The next stage: it is behind the sign (ArgFormatter::Parse).
LEMMA SignStep ==
    ASSUME NEW p \in ParserStates, NEW spec, NEW type, Suits(spec, type), NEW rest, Ends(rest), NEW n,
           p.spec = AfterFill(n, spec, type), Ahead(p, SignTail(spec, rest))
    PROVE  /\ Goes(p, ParseSign(p), AltTail(spec, rest)) /\ ParseSign(p).counter = p.counter
           /\ ParseSign(p).spec = AfterSign(n, spec, type)
<1>1. Short(spec) /\ type # "mono"
  BY DEF Suits
<1>2. p.spec.sign = "Empty"
  BY DEF SpecOf, AfterFill
<1>3. /\ Goes(p, ParseSign(p), AltTail(spec, rest)) /\ ParseSign(p).counter = p.counter
      /\ ParseSign(p).spec = [p.spec EXCEPT !.sign = SignFor(spec)]
  BY <1>1, <1>2, SignRead
<1>. DEFINE x == p.spec
            y == ParseSign(p).spec
<1>4. x = AfterFill(n, spec, type) /\ y = [x EXCEPT !.sign = SignFor(spec)]
  BY <1>3
<1>. HIDE DEF x, y
<1>5. y = AfterSign(n, spec, type)
  BY <1>4, SignChanges DEF AfterFill, AfterSign
<1>. QED BY <1>3, <1>5 DEF y

\* It is behind # (VerifyAltField).
LEMMA AltStep ==
    ASSUME NEW p \in ParserStates, NEW spec, NEW type, Suits(spec, type), NEW rest, Ends(rest), NEW n,
           p.spec = AfterSign(n, spec, type), Ahead(p, AltTail(spec, rest))
    PROVE  /\ Goes(p, VerifyAltField(p, type), ZeroTail(spec, rest))
              /\ VerifyAltField(p, type).counter = p.counter
           /\ VerifyAltField(p, type).spec = AfterAlt(n, spec, type)
<1>1. Short(spec) /\ type # "mono"
  BY DEF Suits
<1>2. p.spec.alt = FALSE
  BY DEF SpecOf, AfterSign
<1>3. /\ Goes(p, VerifyAltField(p, type), ZeroTail(spec, rest))
         /\ VerifyAltField(p, type).counter = p.counter
      /\ VerifyAltField(p, type).spec = [p.spec EXCEPT !.alt = spec.alt]
  BY <1>1, <1>2, AltRead
<1>. DEFINE x == p.spec
            y == VerifyAltField(p, type).spec
<1>4. x = AfterSign(n, spec, type) /\ y = [x EXCEPT !.alt = spec.alt]
  BY <1>3
<1>. HIDE DEF x, y
<1>5. y = AfterAlt(n, spec, type)
  BY <1>4, AltChanges DEF AfterSign, AfterAlt
<1>. QED BY <1>3, <1>5 DEF y

\* It is behind the 0, which is not stored (ArgFormatter::Parse).
LEMMA ZeroStep ==
    ASSUME NEW p \in ParserStates, NEW spec, NEW type, Suits(spec, type), NEW rest, Ends(rest), NEW n,
           p.spec = AfterAlt(n, spec, type), Ahead(p, ZeroTail(spec, rest))
    PROVE  /\ Goes(p, ParseZero(p), WidthTail(spec, rest)) /\ ParseZero(p).counter = p.counter
           /\ ParseZero(p).spec = AfterAlt(n, spec, type)
<1>1. Short(spec) /\ type # "mono"
  BY DEF Suits
<1>2. p.spec.fill # NoChar
  <2>1. p.spec.fill = FillFor(spec)
    BY DEF SpecOf, AfterAlt
  <2>2. spec.fill \in Char \union {""}
    BY <1>1 DEF Short, ItemSpecs
  <2>. QED BY <2>1, <2>2 DEF Char, NoChar, FillFor
<1>. QED BY <1>1, <1>2, ZeroRead

\* It is behind the width (VerifyWidthField).
LEMMA WidthStep ==
    ASSUME NEW p \in ParserStates, NEW spec, NEW type, Suits(spec, type), NEW rest, Ends(rest), NEW n,
           p.spec = AfterAlt(n, spec, type), Ahead(p, WidthTail(spec, rest))
    PROVE  /\ Goes(p, VerifyWidthField(p), PrecisionTail(spec, rest))
              /\ VerifyWidthField(p).counter = p.counter
           /\ VerifyWidthField(p).spec = AfterWidth(n, spec, type)
<1>1. Short(spec) /\ type # "mono"
  BY DEF Suits
<1>2. p.spec.width = 0
  BY DEF SpecOf, AfterAlt
<1>3. /\ Goes(p, VerifyWidthField(p), PrecisionTail(spec, rest))
         /\ VerifyWidthField(p).counter = p.counter
      /\ VerifyWidthField(p).spec = [p.spec EXCEPT !.width = spec.width]
  BY <1>1, <1>2, WidthRead
<1>. DEFINE x == p.spec
            y == VerifyWidthField(p).spec
<1>4. x = AfterAlt(n, spec, type) /\ y = [x EXCEPT !.width = spec.width]
  BY <1>3
<1>. HIDE DEF x, y
<1>5. y = AfterWidth(n, spec, type)
  BY <1>4, Zenon DEF SpecOf, AfterAlt, AfterWidth
<1>. QED BY <1>3, <1>5 DEF y

\* It is behind the precision and has counted it (VerifyPrecisionField).
LEMMA PrecisionStep ==
    ASSUME NEW p \in ParserStates, NEW spec, NEW type, Suits(spec, type), NEW rest, Ends(rest), NEW n,
           p.spec = AfterWidth(n, spec, type), Ahead(p, PrecisionTail(spec, rest))
    PROVE  /\ Goes(p, VerifyPrecisionField(p, type), LocaleTail(spec, rest))
              /\ VerifyPrecisionField(p, type).counter = CounterFor(spec, p.counter)
           /\ VerifyPrecisionField(p, type).spec = AfterPrecision(n, spec, type)
<1>1. Short(spec) /\ type # "mono"
  BY DEF Suits
<1>2. p.spec.precision = 0
  BY DEF SpecOf, AfterWidth
<1>3. /\ Goes(p, VerifyPrecisionField(p, type), LocaleTail(spec, rest))
         /\ VerifyPrecisionField(p, type).counter = CounterFor(spec, p.counter)
      /\ VerifyPrecisionField(p, type).spec = [p.spec EXCEPT !.precision = spec.precision]
  BY <1>1, <1>2, PrecisionRead
<1>. DEFINE x == p.spec
            y == VerifyPrecisionField(p, type).spec
<1>4. x = AfterWidth(n, spec, type) /\ y = [x EXCEPT !.precision = spec.precision]
  BY <1>3
<1>. HIDE DEF x, y
<1>5. y = AfterPrecision(n, spec, type)
  BY <1>4, Zenon DEF SpecOf, AfterWidth, AfterPrecision
<1>. QED BY <1>3, <1>5 DEF y

\* It is behind L (VerifyLocaleField).
LEMMA LocaleStep ==
    ASSUME NEW p \in ParserStates, NEW spec, NEW type, Suits(spec, type), NEW rest, Ends(rest), NEW n,
           p.spec = AfterPrecision(n, spec, type), Ahead(p, LocaleTail(spec, rest))
    PROVE  /\ Goes(p, VerifyLocaleField(p, type), rest)
              /\ VerifyLocaleField(p, type).counter = p.counter
           /\ VerifyLocaleField(p, type).spec = AfterLocale(n, spec, type)
<1>1. Short(spec) /\ type # "mono"
  BY DEF Suits
<1>2. p.spec.localize = FALSE
  BY DEF SpecOf, AfterPrecision
<1>3. /\ Goes(p, VerifyLocaleField(p, type), rest) /\ VerifyLocaleField(p, type).counter = p.counter
      /\ VerifyLocaleField(p, type).spec = [p.spec EXCEPT !.localize = spec.localize]
  BY <1>1, <1>2, LocaleRead
<1>. DEFINE x == p.spec
            y == VerifyLocaleField(p, type).spec
<1>4. x = AfterPrecision(n, spec, type) /\ y = [x EXCEPT !.localize = spec.localize]
  BY <1>3
<1>. HIDE DEF x, y
<1>5. y = AfterLocale(n, spec, type)
  BY <1>4, Zenon DEF SpecOf, AfterPrecision, AfterLocale
<1>. QED BY <1>3, <1>5 DEF y

\* The last stage: it is behind the presentation (HandlePotentialTypeField).
LEMMA TypeStep ==
    ASSUME NEW p \in ParserStates, NEW spec, NEW type, Suits(spec, type), NEW n,
           p.spec = AfterLocale(n, spec, type), Ahead(p, TypeTail(spec))
    PROVE  /\ HandlePotentialTypeField(p, type) \in ParserStates
              /\ HandlePotentialTypeField(p, type).mode = p.mode
           /\ HandlePotentialTypeField(p, type).counter = p.counter
           /\ HandlePotentialTypeField(p, type).spec = AfterType(n, spec, type)
<1>1. spec.type \in TypeSpecs \union {""}
  BY DEF Suits
<1>2. p.spec.type = NoChar /\ p.spec.pre = <<>> /\ p.spec.alt = spec.alt
  BY DEF SpecOf, AfterLocale
<1>3. /\ HandlePotentialTypeField(p, type) \in ParserStates
         /\ HandlePotentialTypeField(p, type).mode = p.mode
      /\ HandlePotentialTypeField(p, type).counter = p.counter
      /\ HandlePotentialTypeField(p, type).spec
           = SpecTyped(p.spec, TypeFor(spec), PrefixFor(spec, type))
  BY <1>1, <1>2, TypeRead
<1>. DEFINE x == p.spec
            y == HandlePotentialTypeField(p, type).spec
<1>4. x = AfterLocale(n, spec, type) /\ y = SpecTyped(x, TypeFor(spec), PrefixFor(spec, type))
  BY <1>3
<1>. HIDE DEF x, y
<1>5. y = AfterType(n, spec, type)
  BY <1>4, TypeChanges DEF AfterLocale, AfterType
<1>. QED BY <1>3, <1>5 DEF y

\* A specification is read as it was written (ArgFormatter::Parse).
LEMMA SpecRead ==
    ASSUME NEW p \in ParserStates, NEW n, p.spec = AtBegin(n), NEW type,
           NEW spec, Suits(spec, type), Ahead(p, FillTail(spec, TypeTail(spec)))
    PROVE  /\ Parse(p, type).error = NoError /\ Parse(p, type).mode = p.mode
           /\ Parse(p, type).spec = AfterType(n, spec, type)
              /\ Parse(p, type).counter = CounterFor(spec, p.counter)
<1>. DEFINE rest == TypeTail(spec)
            q1 == VerifyFillAlignField(p, type)
            q2 == ParseSign(q1)
            q3 == VerifyAltField(q2, type)
            q4 == ParseZero(q3)
            q5 == VerifyWidthField(q4)
            q6 == VerifyPrecisionField(q5, type)
            q7 == VerifyLocaleField(q6, type)
            q8 == HandlePotentialTypeField(q7, type)
<1>1. Ends(rest) /\ Ahead(p, FillTail(spec, rest))
  BY TypeEnds DEF Suits
<1>. HIDE DEF rest
<1>3. /\ Goes(p, q1, SignTail(spec, rest)) /\ q1.counter = p.counter
      /\ q1.spec = AfterFill(n, spec, type)
  BY <1>1, FillStep
<1>. HIDE DEF q1
<1>4. /\ Goes(q1, q2, AltTail(spec, rest)) /\ q2.counter = p.counter
      /\ q2.spec = AfterSign(n, spec, type)
  <2>1. q1 \in ParserStates /\ Ahead(q1, SignTail(spec, rest))
    BY <1>3 DEF Goes
  <2>. QED BY <1>1, <1>3, <2>1, SignStep
<1>. HIDE DEF q2
<1>5. /\ Goes(q2, q3, ZeroTail(spec, rest)) /\ q3.counter = p.counter
      /\ q3.spec = AfterAlt(n, spec, type)
  <2>1. q2 \in ParserStates /\ Ahead(q2, AltTail(spec, rest))
    BY <1>4 DEF Goes
  <2>. QED BY <1>1, <1>4, <2>1, AltStep
<1>. HIDE DEF q3
<1>6. /\ Goes(q3, q4, WidthTail(spec, rest)) /\ q4.counter = p.counter
      /\ q4.spec = AfterAlt(n, spec, type)
  <2>1. q3 \in ParserStates /\ Ahead(q3, ZeroTail(spec, rest))
    BY <1>5 DEF Goes
  <2>. QED BY <1>1, <1>5, <2>1, ZeroStep
<1>. HIDE DEF q4
<1>7. /\ Goes(q4, q5, PrecisionTail(spec, rest)) /\ q5.counter = p.counter
      /\ q5.spec = AfterWidth(n, spec, type)
  <2>1. q4 \in ParserStates /\ Ahead(q4, WidthTail(spec, rest))
    BY <1>6 DEF Goes
  <2>. QED BY <1>1, <1>6, <2>1, WidthStep
<1>. HIDE DEF q5
<1>8. /\ Goes(q5, q6, LocaleTail(spec, rest)) /\ q6.counter = CounterFor(spec, p.counter)
      /\ q6.spec = AfterPrecision(n, spec, type)
  <2>1. q5 \in ParserStates /\ Ahead(q5, PrecisionTail(spec, rest))
    BY <1>7 DEF Goes
  <2>. QED BY <1>1, <1>7, <2>1, PrecisionStep
<1>. HIDE DEF q6
<1>9. /\ Goes(q6, q7, rest) /\ q7.counter = CounterFor(spec, p.counter)
      /\ q7.spec = AfterLocale(n, spec, type)
  <2>1. q6 \in ParserStates /\ Ahead(q6, LocaleTail(spec, rest))
    BY <1>8 DEF Goes
  <2>. QED BY <1>1, <1>8, <2>1, LocaleStep
<1>. HIDE DEF q7
<1>10. /\ q8 \in ParserStates /\ q8.mode = q7.mode /\ q8.counter = CounterFor(spec, p.counter)
       /\ q8.spec = AfterType(n, spec, type)
  <2>1. q7 \in ParserStates /\ Ahead(q7, TypeTail(spec))
    BY <1>9 DEF Goes, rest
  <2>. QED BY <1>9, <2>1, TypeStep
<1>11. q8 = Parse(p, type)
  BY ParseSteps DEF q1, q2, q3, q4, q5, q6, q7
<1>12. q8.mode = p.mode
  BY <1>3, <1>4, <1>5, <1>6, <1>7, <1>8, <1>9, <1>10 DEF Goes
<1>. HIDE DEF q8
<1>13. q8.error = NoError
  BY <1>10 DEF ParserStates
<1>. QED BY <1>10, <1>11, <1>12, <1>13

------------------------------------------------------------------------------
(****************************************************************************)
(* A format string as it is rendered.                                       *)
(****************************************************************************)

\* The same as \o on the texts, for proofs about many of them.
MarkTexts == Seq(Marks)

Cat(s, t) == s \o t

\* Two texts put together to the right instead of to the left.
LEMMA Shift ==
    ASSUME NEW l \in MarkTexts, NEW x \in MarkTexts, NEW r \in MarkTexts
    PROVE  Cat(Cat(l, x), r) = Cat(l, Cat(x, r)) /\ Cat(l, x) \in MarkTexts
<1>1. (l \o x) \o r = l \o (x \o r)
  BY ConcatAssoc DEF MarkTexts
<1>2. l \o x \in Seq(Marks)
  BY DEF MarkTexts
<1>. QED BY <1>1, <1>2 DEF Cat, MarkTexts

\* Three texts put together to the right instead of to the left.
ThreeShifted(x, a, b, c, r) ==
    /\ Cat(Cat(Cat(Cat(x, a), b), c), r) = Cat(x, Cat(a, Cat(b, Cat(c, r))))
    /\ Cat(Cat(Cat(x, a), b), c) \in MarkTexts
    /\ Cat(a, Cat(b, Cat(c, r))) \in MarkTexts

\* They are the same.
LEMMA ThreeTexts ==
    ASSUME NEW x \in MarkTexts, NEW a \in MarkTexts, NEW b \in MarkTexts, NEW c \in MarkTexts,
           NEW r \in MarkTexts
    PROVE  ThreeShifted(x, a, b, c, r)
<1>1. Cat(x, a) \in MarkTexts /\ Cat(c, r) \in MarkTexts
  BY Shift
<1>2. Cat(Cat(x, a), b) \in MarkTexts /\ Cat(b, Cat(c, r)) \in MarkTexts
  BY <1>1, Shift
<1>3. Cat(Cat(Cat(Cat(x, a), b), c), r) = Cat(Cat(Cat(x, a), b), Cat(c, r))
  BY <1>2, Shift
<1>4. Cat(Cat(Cat(x, a), b), Cat(c, r)) = Cat(Cat(x, a), Cat(b, Cat(c, r)))
  BY <1>1, Shift
<1>5. Cat(Cat(x, a), Cat(b, Cat(c, r))) = Cat(x, Cat(a, Cat(b, Cat(c, r))))
  BY <1>2, Shift
<1>6. Cat(Cat(Cat(x, a), b), c) \in MarkTexts /\ Cat(a, Cat(b, Cat(c, r))) \in MarkTexts
  BY <1>2, Shift
<1>. QED BY <1>3, <1>4, <1>5, <1>6 DEF ThreeShifted

\* Eleven texts put together from the left and from the right are the same.
TenRegrouped(f, a, s, b, z, w, d, l, k, t, e) ==
    /\ (((((((((f \o a) \o s) \o b) \o z) \o w) \o d) \o l) \o k) \o t) \o e
       = f \o (a \o (s \o (b \o (z \o (w \o (d \o (l \o (k \o (t \o e)))))))))
    /\ ((((((((f \o a) \o s) \o b) \o z) \o w) \o d) \o l) \o k) \o t \in MarkTexts

\* Put together from the left, as the specification is rendered, or from the
\* right, as it is read.
LEMMA TenTexts ==
    ASSUME NEW f \in MarkTexts, NEW a \in MarkTexts, NEW s \in MarkTexts, NEW b \in MarkTexts,
           NEW z \in MarkTexts, NEW w \in MarkTexts, NEW d \in MarkTexts, NEW l \in MarkTexts,
           NEW k \in MarkTexts, NEW t \in MarkTexts, NEW e \in MarkTexts
    PROVE  TenRegrouped(f, a, s, b, z, w, d, l, k, t, e)
<1>. DEFINE left1 == Cat(Cat(Cat(f, a), s), b)
            left2 == Cat(Cat(Cat(left1, z), w), d)
            left3 == Cat(Cat(Cat(left2, l), k), t)
            right3 == Cat(l, Cat(k, Cat(t, e)))
            right2 == Cat(z, Cat(w, Cat(d, right3)))
<1>1. left1 \in MarkTexts
  <2>1. ThreeShifted(f, a, s, b, e)
    BY ThreeTexts
  <2>. QED BY <2>1 DEF ThreeShifted
<1>. HIDE DEF left1
<1>2. left2 \in MarkTexts
  <2>1. ThreeShifted(left1, z, w, d, e)
    BY <1>1, ThreeTexts
  <2>. QED BY <2>1 DEF ThreeShifted
<1>. HIDE DEF left2
<1>3. ThreeShifted(left2, l, k, t, e)
  BY <1>2, ThreeTexts
<1>4. Cat(left3, e) = Cat(left2, right3) /\ left3 \in MarkTexts /\ right3 \in MarkTexts
  BY <1>3, Zenon DEF ThreeShifted
<1>. HIDE DEF left3, right3
<1>5. ThreeShifted(left1, z, w, d, right3)
  BY <1>1, <1>4, ThreeTexts
<1>6. Cat(left2, right3) = Cat(left1, right2) /\ right2 \in MarkTexts
  BY <1>5, Zenon DEF ThreeShifted, left2
<1>. HIDE DEF right2
<1>7. ThreeShifted(f, a, s, b, right2)
  BY <1>6, ThreeTexts
<1>8. Cat(left1, right2) = Cat(f, Cat(a, Cat(s, Cat(b, right2))))
  BY <1>7, Zenon DEF ThreeShifted, left1
<1>9. Cat(left3, e) = Cat(f, Cat(a, Cat(s, Cat(b, right2))))
  BY <1>4, <1>6, <1>8
<1>. QED BY <1>4, <1>9, Zenon DEF Cat, TenRegrouped, left1, left2, left3, right2, right3

\* What the members of a specification can be.
LEMMA SpecChars ==
    ASSUME NEW spec \in ItemSpecs
    PROVE  /\ spec.fill \in Marks \union {""} /\ spec.align \in {"", "<", ">", "^"}
              /\ spec.sign \in {"", "+", "-", " "}
           /\ spec.alt \in BOOLEAN /\ spec.zero \in BOOLEAN /\ spec.localize \in BOOLEAN
           /\ spec.width \in Nat /\ spec.precision \in Nat /\ spec.type \in STRING
              /\ spec.times \in Seq(STRING)
           /\ spec.fill \in Char \union {""}
<1>1. spec.fill \in Char \union {""}
  BY DEF ItemSpecs
<1>3. spec.fill \in Marks \union {""}
  BY <1>1, MarksInclude DEF Char
<1>. QED BY <1>1, <1>3 DEF ItemSpecs

\* A character is a text.
LEMMA OneMark ==
    ASSUME NEW x \in Marks PROVE <<x>> \in MarkTexts
BY DEF MarkTexts

\* The empty text is a text.
LEMMA NoMarks == <<>> \in MarkTexts
BY DEF MarkTexts

\* A number is written in marks.
LEMMA NumberMarks ==
    ASSUME NEW n \in Nat, NEW base \in Bases PROVE ToChars(n, base) \in MarkTexts
<1>1. DigitsOf(n, base) \in Seq(Hexes) /\ ToChars(n, base) = DigitsOf(n, base)
  BY DigitsInside, NaturalText
<1>. QED BY <1>1, MarksInclude, Bigger DEF MarkTexts

\* Texts one after the other are a text.
LEMMA FlattenedMarks ==
    ASSUME NEW texts \in Seq(Seq(Marks)) PROVE FlattenSeq(texts) \in Seq(Marks)
<1>1. \E g \in [0 .. Len(texts) -> Seq(Marks)] :
         /\ g[0] = <<>> /\ g[Len(texts)] = FlattenSeq(texts)
         /\ \A k \in 1 .. Len(texts) : g[k] = g[k - 1] \o texts[k]
  BY Flattened
<1>2. PICK g \in [0 .. Len(texts) -> Seq(Marks)] : g[Len(texts)] = FlattenSeq(texts)
  BY <1>1, Zenon
<1>3. Len(texts) \in 0 .. Len(texts)
  OBVIOUS
<1>4. g[Len(texts)] \in Seq(Marks)
  BY <1>3
<1>. QED BY <1>2, <1>4

\* The members of an item that is no field.
LEMMA ItemMembers ==
    ASSUME NEW item \in Items
    PROVE  /\ IsText(item) => item.char \in Char \ {"{", "}"}
           /\ IsRaw(item) => item.raw \in Seq(STRING)
<1>1. CASE item \in [char : Char \ {"{", "}"}]
  BY <1>1 DEF IsText, IsRaw
<1>2. CASE item \in [raw : Seq(STRING)]
  BY <1>2 DEF IsText, IsRaw
<1>3. CASE item \in [index : Positions]
  BY <1>3 DEF IsText, IsRaw
<1>4. CASE item \in [index : Positions, spec : ItemSpecs]
  BY <1>4 DEF IsText, IsRaw
<1>. QED BY <1>1, <1>2, <1>3, <1>4 DEF Items

\* The specifications of a time are written in marks.
LEMMA TimesMarks ==
    ASSUME NEW times \in Seq(STRING) PROVE TimesTail(times) \in MarkTexts
<1>. DEFINE texts == [i \in 1 .. Len(times) |-> <<"%", times[i]>>]
<1>1. Len(times) \in Nat /\ \A i \in 1 .. Len(times) : times[i] \in Marks
  <2>1. Len(times) \in Nat /\ \A i \in 1 .. Len(times) : times[i] \in STRING
    OBVIOUS
  <2>. QED BY <2>1, MarksInclude
<1>2. "%" \in Marks
  BY InnerMarks
<1>3. \A i \in 1 .. Len(times) : <<"%", times[i]>> \in Seq(Marks)
  BY <1>1, <1>2
<1>4. texts \in Seq(Seq(Marks))
  BY <1>1, <1>3
<1>5. TimesTail(times) = FlattenSeq(texts)
  BY Zenon DEF TimesTail
<1>. HIDE DEF texts
<1>. QED BY <1>4, <1>5, FlattenedMarks DEF MarkTexts

\* The parts of a specification.
LEMMA SpecParts ==
    ASSUME NEW spec \in ItemSpecs
    PROVE  /\ Optional(spec.fill) \in MarkTexts /\ Optional(spec.align) \in MarkTexts
              /\ Optional(spec.sign) \in MarkTexts
           /\ OptionalIf(spec.alt, <<"#">>) \in MarkTexts
              /\ OptionalIf(spec.zero, <<"0">>) \in MarkTexts
           /\ OptionalIf(spec.width # 0, ToChars(spec.width, 10)) \in MarkTexts
           /\ OptionalIf(spec.precision # 0, <<".">> \o ToChars(spec.precision, 10)) \in MarkTexts
           /\ OptionalIf(spec.localize, <<"L">>) \in MarkTexts /\ Optional(spec.type) \in MarkTexts
           /\ TimesTail(spec.times) \in MarkTexts
<1>1. \A x \in Marks \union {""} : Optional(x) \in MarkTexts
  BY OneMark, NoMarks DEF Optional
<1>2. \A c \in BOOLEAN, t \in MarkTexts : OptionalIf(c, t) \in MarkTexts
  BY NoMarks DEF OptionalIf
<1>3. spec.fill \in Marks \union {""} /\ spec.type \in Marks
  BY SpecChars, MarksInclude
<1>4. spec.align \in Marks \union {""} /\ spec.sign \in Marks \union {""}
  <2>1. \A c \in {"<", ">", "^", "+", "-", " "} : c \in Fixed
    BY DEF Fixed
  <2>. QED BY <2>1, SpecChars, MarksInclude
<1>5. <<"#">> \in MarkTexts /\ <<"0">> \in MarkTexts /\ <<"L">> \in MarkTexts /\ <<".">> \in MarkTexts
  BY InnerMarks, OneMark
<1>6. ToChars(spec.width, 10) \in MarkTexts /\ ToChars(spec.precision, 10) \in MarkTexts
  <2>1. 10 \in Bases /\ spec.width \in Nat /\ spec.precision \in Nat
    BY SpecChars DEF Bases
  <2>. QED BY <2>1, NumberMarks
<1>7. <<".">> \o ToChars(spec.precision, 10) \in MarkTexts
  BY <1>5, <1>6, Shift DEF Cat
<1>8. TimesTail(spec.times) \in MarkTexts
  BY SpecChars, TimesMarks
<1>9. Optional(spec.fill) \in MarkTexts /\ Optional(spec.align) \in MarkTexts
      /\ Optional(spec.sign) \in MarkTexts
      /\ Optional(spec.type) \in MarkTexts
  BY <1>1, <1>3, <1>4
<1>10. OptionalIf(spec.alt, <<"#">>) \in MarkTexts /\ OptionalIf(spec.zero, <<"0">>) \in MarkTexts
       /\ OptionalIf(spec.localize, <<"L">>) \in MarkTexts
  BY <1>2, <1>5, SpecChars
<1>11. OptionalIf(spec.width # 0, ToChars(spec.width, 10)) \in MarkTexts
  BY <1>6, NoMarks DEF OptionalIf
<1>12. OptionalIf(spec.precision # 0, <<".">> \o ToChars(spec.precision, 10)) \in MarkTexts
  BY <1>7, NoMarks DEF OptionalIf
<1>. QED BY <1>8, <1>9, <1>10, <1>11, <1>12

\* A specification that is written down, the parts one by one.
LEMMA SpecRendered ==
    ASSUME NEW spec \in ItemSpecs, NEW e \in MarkTexts
    PROVE  /\ RenderSpec(spec) \in MarkTexts
           /\ RenderSpec(spec) \o e
                = FillTail(spec, Optional(spec.type) \o (TimesTail(spec.times) \o e))
<1>. DEFINE f == Optional(spec.fill)
            a == Optional(spec.align)
            s == Optional(spec.sign)
            b == OptionalIf(spec.alt, <<"#">>)
            z == OptionalIf(spec.zero, <<"0">>)
            w == OptionalIf(spec.width # 0, ToChars(spec.width, 10))
            d == OptionalIf(spec.precision # 0, <<".">> \o ToChars(spec.precision, 10))
            l == OptionalIf(spec.localize, <<"L">>)
            k == Optional(spec.type)
            t == TimesTail(spec.times)
<1>1. /\ f \in MarkTexts /\ a \in MarkTexts /\ s \in MarkTexts /\ b \in MarkTexts /\ z \in MarkTexts
         /\ w \in MarkTexts
      /\ d \in MarkTexts /\ l \in MarkTexts /\ k \in MarkTexts /\ t \in MarkTexts
  BY SpecParts
<1>2. RenderSpec(spec) = ((((((((f \o a) \o s) \o b) \o z) \o w) \o d) \o l) \o k) \o t
  BY Zenon DEF RenderSpec, TimesTail
<1>3. FillTail(spec, k \o (t \o e)) = f
        \o (a \o (s \o (b \o (z \o (w \o (d \o (l \o (k \o (t \o e)))))))))
  BY Zenon DEF FillTail, SignTail, AltTail, ZeroTail, WidthTail, PrecisionTail, LocaleTail
<1>. HIDE DEF f, a, s, b, z, w, d, l, k, t
<1>4. /\ (((((((((f \o a) \o s) \o b) \o z) \o w) \o d) \o l) \o k) \o t) \o e
         = f \o (a \o (s \o (b \o (z \o (w \o (d \o (l \o (k \o (t \o e)))))))))
      /\ ((((((((f \o a) \o s) \o b) \o z) \o w) \o d) \o l) \o k) \o t \in MarkTexts
  <2>1. TenRegrouped(f, a, s, b, z, w, d, l, k, t, e)
    BY <1>1, TenTexts
  <2>. QED BY <2>1, Zenon DEF TenRegrouped
<1>. QED BY <1>2, <1>3, <1>4 DEF k, t

\* An item of a format string.
LEMMA ItemRendered ==
    ASSUME NEW item \in Items PROVE RenderItem(item) \in MarkTexts
<1>1. CASE IsText(item)
  <2>1. item.char \in STRING
    BY <1>1, ItemMembers DEF Char
  <2>. QED BY <1>1, <2>1, MarksInclude, OneMark DEF RenderItem
<1>2. CASE ~IsText(item) /\ IsRaw(item)
  <2>1. item.raw \in Seq(STRING)
    BY <1>2, ItemMembers
  <2>2. item.raw \in MarkTexts
    BY <2>1, MarksInclude, Bigger DEF MarkTexts
  <2>. QED BY <1>2, <2>2 DEF RenderItem
<1>3. CASE ~IsText(item) /\ ~IsRaw(item)
  <2>. DEFINE n == OptionalIf(item.index # Automatic, ToChars(item.index, 10))
              s == OptionalIf(HasSpec(item), <<":">> \o RenderSpec(item.spec))
  <2>0. IsField(item) /\ item.index \in Positions /\ (HasSpec(item) => item.spec \in ItemSpecs)
    BY <1>3, ItemKinds
  <2>1. n \in MarkTexts
    <3>1. CASE item.index = Automatic
      BY <3>1, NoMarks DEF OptionalIf
    <3>2. CASE item.index # Automatic
      <4>1. item.index \in Nat /\ 10 \in Bases
        BY <2>0, <3>2 DEF Positions, Bases
      <4>2. ToChars(item.index, 10) \in MarkTexts
        BY <4>1, NumberMarks
      <4>. QED BY <3>2, <4>2 DEF OptionalIf
    <3>. QED BY <3>1, <3>2
  <2>2. s \in MarkTexts
    <3>1. CASE ~HasSpec(item)
      BY <3>1, NoMarks DEF OptionalIf
    <3>2. CASE HasSpec(item)
      <4>1. RenderSpec(item.spec) \in MarkTexts
        BY <2>0, <3>2, NoMarks, SpecRendered
      <4>2. <<":">> \in MarkTexts
        BY InnerMarks, OneMark
      <4>3. <<":">> \o RenderSpec(item.spec) \in MarkTexts
        BY <4>1, <4>2, Shift DEF Cat
      <4>. QED BY <3>2, <4>3 DEF OptionalIf
    <3>. QED BY <3>1, <3>2
  <2>3. <<"{">> \in MarkTexts /\ <<"}">> \in MarkTexts
    <3>1. "{" \in Fixed /\ "}" \in Fixed
      BY DEF Fixed
    <3>. QED BY <3>1, MarksInclude, OneMark
  <2>4. RenderItem(item) = ((<<"{">> \o n) \o s) \o <<"}">>
    BY <1>3, Zenon DEF RenderItem
  <2>. HIDE DEF n, s
  <2>5. ((<<"{">> \o n) \o s) \o <<"}">> \in MarkTexts
    BY <2>1, <2>2, <2>3, Shift DEF Cat
  <2>. QED BY <2>4, <2>5
<1>. QED BY <1>1, <1>2, <1>3

\* A format string is made of marks.
LEMMA Rendered ==
    ASSUME NEW items \in Seq(Items)
    PROVE  /\ [i \in 1 .. Len(items) |-> RenderItem(items[i])] \in Seq(Seq(Marks))
           /\ Render(items) \in Seq(Marks)
<1>. DEFINE texts == [i \in 1 .. Len(items) |-> RenderItem(items[i])]
<1>1. Len(items) \in Nat /\ \A i \in 1 .. Len(items) : items[i] \in Items
  OBVIOUS
<1>2. \A i \in 1 .. Len(items) : RenderItem(items[i]) \in Seq(Marks)
  BY <1>1, ItemRendered DEF MarkTexts
<1>3. texts \in Seq(Seq(Marks))
  BY <1>1, <1>2
<1>4. Render(items) = FlattenSeq(texts)
  BY Zenon DEF Render
<1>. HIDE DEF texts
<1>5. Render(items) \in Seq(Marks)
  BY <1>3, <1>4, FlattenedMarks
<1>. QED BY <1>3, <1>5 DEF texts

------------------------------------------------------------------------------
(****************************************************************************)
(* The position of a field.                                                 *)
(****************************************************************************)

\* A parser that knows its argument, and nothing else of the specification.
StandsAt(p, text, pos, counter, mode, n) ==
    /\ p \in ParserStates /\ p.sv = text /\ p.pos = pos /\ p.counter = counter /\ p.mode = mode
    /\ p.spec = AtBegin(n) /\ p.times = <<>>

\* A specification that knows its argument is one.
LEMMA SpecBegins ==
    ASSUME NEW n \in Nat
    PROVE  AtBegin(n) \in SpecStates
<1>1. NoChar \in Marks /\ <<>> \in Seq(Marks) /\ 0 \in Nat
  <2>1. NoChar \in Fixed
    BY DEF Fixed
  <2>2. NoChar \in Marks
    BY <2>1, MarksInclude
  <2>. QED BY <2>2
<1>. HIDE DEF NoChar
<1>. QED BY <1>1 DEF AtBegin, SpecOf, SpecStates

\* ResetSpecs leaves argument 0 and nothing else.
LEMMA NoSpecBegins == NoSpec = AtBegin(0)
BY Zenon DEF AtBegin, SpecOf, NoSpec

\* A field begins with a specification that is reset.
LEMMA ParserBegins ==
    ASSUME NEW text \in Seq(Marks), NEW pos \in Nat, NEW counter \in Nat,
           NEW mode \in {"automatic", "manual"}
    PROVE  StandsAt(Parser(text, pos, counter, mode), text, pos, counter, mode, 0)
<1>. DEFINE s == AtBegin(0)
            p == Parser(text, pos, counter, mode)
<1>1. s \in SpecStates /\ <<>> \in Seq([char : Marks, localized : BOOLEAN])
  BY SpecBegins
<1>2. p = [sv |-> text, pos |-> pos, counter |-> counter, mode |-> mode, spec |-> s,
           more |-> FALSE, times |-> <<>>, error |-> NoError]
  BY NoSpecBegins, Zenon DEF Parser
<1>. HIDE DEF s, p
<1>3. /\ p \in ParserStates /\ p.sv = text /\ p.pos = pos /\ p.counter = counter /\ p.mode = mode
      /\ p.spec = s /\ p.times = <<>>
  BY <1>1, <1>2 DEF ParserStates
<1>. QED BY <1>3 DEF s, p, StandsAt

\* Only the argument changes when the position is stored.
LEMMA SpecPlaced ==
    ASSUME NEW k, NEW n, NEW x, NEW y, x = AtBegin(k), y = [x EXCEPT !.argPosition = n]
    PROVE  y = AtBegin(n)
BY Zenon DEF AtBegin, SpecOf

\* How it changes.
LEMMA StandsSkipped ==
    ASSUME NEW p, NEW text, NEW pos, NEW counter, NEW mode, NEW k,
           StandsAt(p, text, pos, counter, mode, k), NEW n \in Nat
    PROVE  StandsAt(Skip(p, n), text, pos + n, counter, mode, k)
BY Skipped DEF StandsAt

\* Reading a position makes the indexing manual.
LEMMA StandsMoved ==
    ASSUME NEW p, NEW text, NEW pos, NEW counter, NEW mode, NEW k,
           StandsAt(p, text, pos, counter, mode, k), NEW at \in Nat
    PROVE  StandsAt([p EXCEPT !.mode = "manual", !.pos = at], text, at, counter, "manual", k)
<1>. DEFINE q == [p EXCEPT !.mode = "manual", !.pos = at]
<1>1. p \in ParserStates
  BY DEF StandsAt
<1>2. q \in ParserStates /\ q.sv = p.sv /\ q.pos = at /\ q.mode = "manual" /\ q.counter = p.counter
      /\ q.spec = p.spec
      /\ q.times = p.times
  BY <1>1 DEF ParserStates
<1>. HIDE DEF q
<1>3. StandsAt(q, text, at, counter, "manual", k)
  BY <1>2 DEF StandsAt
<1>. QED BY <1>3 DEF q

\* An automatic position counts the argument.
LEMMA StandsCounted ==
    ASSUME NEW p, NEW text, NEW pos, NEW counter, NEW mode, NEW k,
           StandsAt(p, text, pos, counter, mode, k), NEW more \in BOOLEAN
    PROVE  LET q == [p EXCEPT !.counter = @ + 1, !.more = more] IN
           StandsAt(q, text, pos, counter + 1, mode, k) /\ q.more = more
<1>. DEFINE q == [p EXCEPT !.counter = @ + 1, !.more = more]
            c == p.counter + 1
<1>1. p \in ParserStates
  BY DEF StandsAt
<1>2. c \in Nat /\ q = [p EXCEPT !.counter = c, !.more = more]
  BY <1>1 DEF ParserStates
<1>. HIDE DEF c, q
<1>3. q \in ParserStates /\ q.sv = p.sv /\ q.pos = p.pos /\ q.mode = p.mode /\ q.counter = c
      /\ q.spec = p.spec
      /\ q.times = p.times /\ q.more = more
  BY <1>1, <1>2 DEF ParserStates
<1>4. StandsAt(q, text, pos, counter + 1, mode, k) /\ q.more = more
  BY <1>3 DEF StandsAt, c
<1>. QED BY <1>4 DEF q

\* Whether a specification follows is noted.
LEMMA StandsEnded ==
    ASSUME NEW p, NEW text, NEW pos, NEW counter, NEW mode, NEW k,
           StandsAt(p, text, pos, counter, mode, k), NEW more \in BOOLEAN
    PROVE  LET q == [p EXCEPT !.more = more] IN
           StandsAt(q, text, pos, counter, mode, k) /\ q.more = more
<1>. DEFINE q == [p EXCEPT !.more = more]
<1>1. p \in ParserStates
  BY DEF StandsAt
<1>3. q \in ParserStates /\ q.sv = p.sv /\ q.pos = p.pos /\ q.mode = p.mode /\ q.counter = p.counter
      /\ q.spec = p.spec
      /\ q.times = p.times /\ q.more = more
  BY <1>1, SMT DEF ParserStates
<1>. HIDE DEF q
<1>4. StandsAt(q, text, pos, counter, mode, k) /\ q.more = more
  BY <1>3 DEF StandsAt
<1>. QED BY <1>4 DEF q

\* The position is stored (argPosition).
LEMMA StandsPlaced ==
    ASSUME NEW p, NEW text, NEW pos, NEW counter, NEW mode, NEW k,
           StandsAt(p, text, pos, counter, mode, k), NEW n \in Nat
    PROVE  StandsAt(Placed(p, "argPosition", n), text, pos, counter, mode, n)
<1>. DEFINE q == Placed(p, "argPosition", n)
            s == p.spec
            t == [s EXCEPT !.argPosition = n]
<1>1. p \in ParserStates /\ s = AtBegin(k)
  BY DEF StandsAt
<1>2. q = [p EXCEPT !.spec.argPosition = n]
  BY DEF Placed
<1>3. t = AtBegin(n)
  <2>1. t = [s EXCEPT !.argPosition = n]
    OBVIOUS
  <2>. HIDE DEF s, t
  <2>. QED BY <1>1, <2>1, SpecPlaced
<1>4. q = [p EXCEPT !.spec = t]
  <2>. HIDE DEF q
  <2>. QED BY <1>1, <1>2 DEF ParserStates
<1>5. t \in SpecStates
  BY <1>3, SpecBegins
<1>. HIDE DEF q, t, s
<1>6. q \in ParserStates /\ q.spec = t /\ q.sv = p.sv /\ q.pos = p.pos /\ q.mode = p.mode
      /\ q.counter = p.counter
      /\ q.times = p.times
  BY <1>1, <1>4, <1>5, Respecified
<1>7. StandsAt(q, text, pos, counter, mode, n)
  BY <1>3, <1>6 DEF StandsAt
<1>. QED BY <1>7 DEF q

\* What follows the position of a field, which may be left out.
OpenTail(more, rest) == IF more THEN <<":">> \o rest ELSE <<"}">>

PositionText(index) == OptionalIf(index # Automatic, ToChars(index, 10))

\* A field whose position is read.
FieldOpened(q, index, counter, more, rest) ==
    /\ q \in ParserStates /\ q.times = <<>> /\ q.error = NoError /\ q.more = more
    /\ q.spec = AtBegin(IF index = Automatic THEN counter ELSE index)
    /\ q.mode = IF index = Automatic THEN "automatic" ELSE "manual"
    /\ index = Automatic => q.counter = counter + 1
    /\ more => Ahead(q, rest)

\* A colon follows if there is a specification, the bracket if there is none.
LEMMA OpenTailBegins ==
    ASSUME NEW more \in BOOLEAN, NEW rest \in MarkTexts
    PROVE  /\ OpenTail(more, rest) \in Seq(Marks) /\ OpenTail(more, rest) # <<>>
           /\ more => OpenTail(more, rest)[1] = ":" /\ OpenTail(more, rest) = <<":">> \o rest
           /\ ~more => OpenTail(more, rest)[1] = "}" /\ OpenTail(more, rest) = <<"}">>
<1>. DEFINE T == OpenTail(more, rest)
<1>1. ":" \in Marks /\ "}" \in Marks
  <2>1. ":" \in Fixed /\ "}" \in Fixed
    BY DEF Fixed
  <2>. QED BY <2>1, MarksInclude
<1>2. more => T = <<":">> \o rest
  BY DEF OpenTail
<1>3. ~more => T = <<"}">>
  BY DEF OpenTail
<1>. HIDE DEF T
<1>4. rest \in Seq(Marks)
  BY DEF MarkTexts
<1>5. <<":">> \o rest \in Seq(Marks) /\ <<":">> \o rest # <<>> /\ (<<":">> \o rest)[1] = ":"
  <2>1. <<":">> \in Seq(Marks) /\ <<":">> # <<>> /\ <<":">>[1] = ":"
    BY <1>1, One
  <2>. QED BY <1>4, <2>1, MoreOpened
<1>6. <<"}">> \in Seq(Marks) /\ <<"}">> # <<>> /\ <<"}">>[1] = "}"
  BY <1>1, One
<1>7. CASE more
  BY <1>2, <1>5, <1>7 DEF T
<1>8. CASE ~more
  BY <1>3, <1>6, <1>8 DEF T
<1>. QED BY <1>7, <1>8

\* A parser at the beginning of a text.
LEMMA StandsAhead ==
    ASSUME NEW p, NEW text \in Seq(Marks), NEW counter, NEW mode, NEW n,
           StandsAt(p, text, 0, counter, mode, n)
    PROVE  Ahead(p, text)
<1>1. p.sv = text /\ p.pos = 0 /\ 0 \in Nat
  BY DEF StandsAt
<1>2. Len(text) = 0 + Len(text) /\ \A i \in 1 .. Len(text) : text[0 + i] = text[i]
  OBVIOUS
<1>. QED BY <1>1, <1>2 DEF Ahead

\* One behind the beginning, and behind the next character.
LEMMA StandsBehind ==
    ASSUME NEW p, NEW a \in Seq(Marks), NEW x \in Marks, NEW rest \in Seq(Marks), NEW text,
           text = a \o (<<x>> \o rest),
           NEW counter, NEW mode, NEW n, NEW pos, pos = Len(a) + 1,
              StandsAt(p, text, pos, counter, mode, n)
    PROVE  Ahead(p, rest)
<1>1. p.sv = text /\ p.pos = pos
  BY DEF StandsAt
<1>2. pos \in Nat /\ Len(text) = pos + Len(rest) /\ text \in Seq(Marks)
  <2>1. <<x>> \o rest \in Seq(Marks) /\ Len(<<x>> \o rest) = 1 + Len(rest) /\ Len(a) \in Nat
        /\ Len(rest) \in Nat
    OBVIOUS
  <2>. DEFINE b == <<x>> \o rest
  <2>2. b \in Seq(Marks) /\ Len(b) = 1 + Len(rest) /\ text = a \o b
    BY <2>1
  <2>. HIDE DEF b
  <2>3. Len(text) = Len(a) + Len(b) /\ text \in Seq(Marks)
    BY <2>2
  <2>. QED BY <2>1, <2>2, <2>3
<1>3. ASSUME NEW i \in 1 .. Len(rest) PROVE text[pos + i] = rest[i]
  <2>. DEFINE b == <<x>> \o rest
  <2>1. b \in Seq(Marks) /\ Len(b) = 1 + Len(rest) /\ text = a \o b /\ b[1 + i] = rest[i]
        /\ 1 + i \in 1 .. Len(b)
    OBVIOUS
  <2>. HIDE DEF b
  <2>2. (a \o b)[Len(a) + (1 + i)] = b[1 + i] /\ Len(a) + (1 + i) = pos + i
    BY <2>1
  <2>. QED BY <2>1, <2>2
<1>. QED BY <1>1, <1>2, <1>3 DEF Ahead

\* Nothing in front of a text.
LEMMA NothingBefore ==
    ASSUME NEW t \in Seq(Marks) PROVE <<>> \o t = t
OBVIOUS

\* Two texts are a text.
LEMMA Joined ==
    ASSUME NEW s \in Seq(Marks), NEW t \in Seq(Marks) PROVE s \o t \in Seq(Marks) /\ Len(s) \in Nat
           /\ (s # <<>> => Len(s) # 0)
OBVIOUS

\* What the automatic branch leaves is a field that is opened.
LEMMA OpenedAutomatic ==
    ASSUME NEW q, NEW text, NEW pos, NEW counter, NEW more \in BOOLEAN, NEW rest,
           StandsAt(q, text, pos, counter + 1, "automatic", counter), q.more = more, more
              => Ahead(q, rest)
    PROVE  FieldOpened(q, Automatic, counter, more, rest)
<1>1. q.error = NoError
  BY DEF StandsAt, ParserStates
<1>. QED BY <1>1 DEF FieldOpened, StandsAt

\* What the manual branch leaves is one as well.
LEMMA OpenedManual ==
    ASSUME NEW q, NEW text, NEW pos, NEW counter, NEW c, NEW more \in BOOLEAN, NEW rest, NEW index,
           index # Automatic,
           StandsAt(q, text, pos, c, "manual", index), q.more = more, more => Ahead(q, rest)
    PROVE  FieldOpened(q, index, counter, more, rest)
<1>1. q.error = NoError
  BY DEF StandsAt, ParserStates
<1>. QED BY <1>1 DEF FieldOpened, StandsAt

\* The position of a field is read as it was written (VerifyPositionalField).
LEMMA PositionRead ==
    ASSUME NEW index \in Positions, NEW mode \in {"automatic", "manual"}, index = Automatic
           => mode = "automatic",
           index # Automatic => index < MaxArgCount, NEW counter \in Nat, NEW more \in BOOLEAN,
              NEW rest \in MarkTexts,
           NEW text, text = PositionText(index) \o OpenTail(more, rest)
    PROVE  FieldOpened(VerifyPositionalField(Parser(text, 0, counter, mode), "argPosition"), index,
           counter, more, rest)
<1>. DEFINE p == Parser(text, 0, counter, mode)
            T == OpenTail(more, rest)
            q == VerifyPositionalField(p, "argPosition")
            first == IF more THEN ":" ELSE "}"
<1>1. T \in Seq(Marks) /\ T # <<>> /\ T[1] = first /\ first \notin Digits /\ first \in {":", "}"}
  BY OpenTailBegins, DecimalDigits
<1>2. more => T = <<":">> \o rest
  BY OpenTailBegins
<1>3. rest \in Seq(Marks) /\ ":" \in Marks
  BY InnerMarks DEF MarkTexts
<1>4. CASE index = Automatic
  <2>1. text = T /\ mode = "automatic"
    <3>1. text = <<>> \o T
      BY <1>4 DEF PositionText, OptionalIf
    <3>. HIDE DEF T
    <3>2. <<>> \o T = T
      BY <1>1, NothingBefore
    <3>. QED BY <1>4, <3>1, <3>2
  <2>. HIDE DEF T
  <2>2. StandsAt(p, text, 0, counter, mode, 0)
    BY <1>1, <2>1, ParserBegins
  <2>. HIDE DEF p, first
  <2>3. Ahead(p, T) /\ p \in ParserStates /\ p.mode = "automatic" /\ p.counter = counter
    BY <1>1, <2>1, <2>2, StandsAhead DEF StandsAt
  <2>4. At(p.sv, p.pos) = first
    BY <1>1, <2>3, NotEnded
  <2>. DEFINE r(moved) == Placed(Skip(p, moved), "argPosition", counter)
              s(moved) == [r(moved) EXCEPT !.counter = @ + 1, !.more = more]
  <2>5. ASSUME NEW moved \in Nat
        PROVE  StandsAt(s(moved), text, 0 + moved, counter + 1, mode, counter) /\ s(moved).more = more
    <3>1. StandsAt(Skip(p, moved), text, 0 + moved, counter, mode, 0)
      BY <2>2, StandsSkipped
    <3>2. StandsAt(r(moved), text, 0 + moved, counter, mode, counter)
      BY <3>1, StandsPlaced
    <3>. HIDE DEF r
    <3>. QED BY <3>2, StandsCounted
  <2>6. CASE more
    <3>1. q = AutomaticPosition(p, "argPosition", 1, TRUE)
      BY <1>1, <2>3, <2>4, <2>6, Zenon DEF VerifyPositionalField, first
    <3>2. q = s(1)
      BY <2>3, <2>6, <3>1 DEF AutomaticPosition
    <3>. HIDE DEF s, q
    <3>3. StandsAt(q, text, 1, counter + 1, mode, counter) /\ q.more = more
      <4>1. 1 \in Nat /\ 0 + 1 = 1
        OBVIOUS
      <4>. QED BY <2>5, <3>2, <4>1
    <3>4. Ahead(q, rest)
      <4>1. text = <<>> \o (<<":">> \o rest)
        <5>1. text = <<":">> \o rest /\ text \in Seq(Marks)
          BY <1>1, <1>2, <2>1, <2>6
        <5>. QED BY <5>1
      <4>2. <<>> \in Seq(Marks) /\ 1 = Len(<<>>) + 1
        OBVIOUS
      <4>. QED BY <1>3, <3>3, <4>1, <4>2, StandsBehind
    <3>8. StandsAt(q, text, 1, counter + 1, "automatic", counter) /\ q.more = more
      BY <2>1, <3>3
    <3>9. FieldOpened(q, Automatic, counter, more, rest)
      BY <3>8, <3>4, OpenedAutomatic
    <3>. QED BY <1>4, <3>9 DEF q, p
  <2>7. CASE ~more
    <3>1. q = AutomaticPosition(p, "argPosition", 0, FALSE)
      BY <1>1, <2>3, <2>4, <2>7, Zenon DEF VerifyPositionalField, first
    <3>2. q = s(0)
      BY <2>3, <2>7, <3>1 DEF AutomaticPosition
    <3>. HIDE DEF s, q
    <3>3. StandsAt(q, text, 0, counter + 1, mode, counter) /\ q.more = more
      <4>1. 0 \in Nat /\ 0 + 0 = 0
        OBVIOUS
      <4>. QED BY <2>5, <3>2, <4>1
    <3>8. StandsAt(q, text, 0, counter + 1, "automatic", counter) /\ q.more = more
      BY <2>1, <3>3
    <3>9. FieldOpened(q, Automatic, counter, more, rest)
      BY <3>8, <2>7, OpenedAutomatic
    <3>. QED BY <1>4, <3>9 DEF q, p
  <2>. QED BY <2>6, <2>7
<1>5. CASE index # Automatic
  <2>. DEFINE D == ToChars(index, 10)
              k == Len(D)
  <2>0. index \in 0 .. 99 /\ index \in Nat /\ index < MaxArgCount
    BY <1>5, MaxArgCountAssumption DEF Positions
  <2>1. text = D \o T
    BY <1>5 DEF PositionText, OptionalIf
  <2>2. D \in Seq(Marks) /\ D # <<>>
    <3>1. 10 \in Bases
      BY DEF Bases
    <3>2. D = DigitsOf(index, 10) /\ DigitsOf(index, 10) # <<>> /\ D \in MarkTexts
      BY <2>0, <3>1, NaturalText, DigitsInside, NumberMarks
    <3>. QED BY <3>2 DEF MarkTexts
  <2>. HIDE DEF T
  <2>3. text \in Seq(Marks) /\ k \in Nat /\ k # 0
    <3>. QED BY <1>1, <2>1, <2>2, Joined DEF k
  <2>4. StandsAt(p, text, 0, counter, mode, 0)
    BY <2>3, ParserBegins
  <2>. HIDE DEF p, first
  <2>5. Ahead(p, text) /\ p \in ParserStates /\ p.pos = 0
    BY <2>3, <2>4, StandsAhead DEF StandsAt
  <2>6. /\ se_from_chars(p.sv, p.pos) = [count |-> k, value |-> index]
        /\ At(p.sv, p.pos) \in Digits /\ At(p.sv, p.pos + k) = first
    BY <1>1, <2>0, <2>1, <2>5, NumberRead
  <2>7. se_from_chars(p.sv, p.pos).count = k /\ se_from_chars(p.sv, p.pos).value = index
    <3>. DEFINE read == se_from_chars(p.sv, p.pos)
    <3>1. read = [count |-> k, value |-> index]
      BY <2>6
    <3>. HIDE DEF k, read
    <3>2. read.count = k /\ read.value = index
      BY <3>1
    <3>. QED BY <3>2 DEF read
  <2>. HIDE DEF k, D
  <2>8. p.pos + k = k /\ 0 + k = k /\ At(p.sv, k) = first /\ ~(index >= MaxArgCount)
    BY <2>0, <2>3, <2>5, <2>6, MaxArgCountAssumption
  <2>. DEFINE m == [p EXCEPT !.mode = "manual", !.pos = k]
              r == Placed(m, "argPosition", index)
              s == Skip(r, 1)
  <2>9. StandsAt(s, text, k + 1, counter, "manual", index)
    <3>1. StandsAt(m, text, k, counter, "manual", 0)
      BY <2>3, <2>4, StandsMoved
    <3>. HIDE DEF m
    <3>2. StandsAt(r, text, k, counter, "manual", index)
      BY <2>0, <3>1, StandsPlaced
    <3>. HIDE DEF r
    <3>. QED BY <3>2, StandsSkipped
  <2>10. q = ManualPosition(p, "argPosition")
    <3>1. At(p.sv, p.pos) \notin {"}", ":", " "}
      BY <2>6, DecimalDigits
    <3>. QED BY <2>6, <3>1, Zenon DEF VerifyPositionalField
  <2>11. CASE more
    <3>1. first = ":"
      BY <2>11 DEF first
    <3>2. q = [s EXCEPT !.counter = @ + 1, !.more = TRUE]
      BY <2>3, <2>7, <2>8, <2>10, <3>1, <2>0, Zenon DEF ManualPosition
    <3>3. q = [s EXCEPT !.counter = @ + 1, !.more = more]
      BY <2>11, <3>2
    <3>. HIDE DEF q, s
    <3>4. StandsAt(q, text, k + 1, counter + 1, "manual", index) /\ q.more = more
      BY <2>9, <3>3, StandsCounted
    <3>5. Ahead(q, rest)
      <4>1. text = D \o (<<":">> \o rest) /\ k + 1 = Len(D) + 1
        BY <1>2, <2>1, <2>11 DEF k
      <4>. QED BY <1>3, <2>2, <3>4, <4>1, StandsBehind
    <3>9. FieldOpened(q, index, counter, more, rest)
      BY <1>5, <3>4, <3>5, OpenedManual
    <3>. QED BY <3>9 DEF q, p
  <2>12. CASE ~more
    <3>1. first = "}"
      BY <2>12 DEF first
    <3>2. q = [s EXCEPT !.more = FALSE]
      BY <2>3, <2>7, <2>8, <2>10, <3>1, <2>0, Zenon DEF ManualPosition
    <3>3. q = [s EXCEPT !.more = more]
      BY <2>12, <3>2
    <3>. HIDE DEF q, s
    <3>4. StandsAt(q, text, k + 1, counter, "manual", index) /\ q.more = more
      BY <2>9, <3>3, StandsEnded
    <3>9. FieldOpened(q, index, counter, more, rest)
      BY <1>5, <2>12, <3>4, OpenedManual
    <3>. QED BY <3>9 DEF q, p
  <2>. QED BY <2>11, <2>12
<1>. QED BY <1>4, <1>5

------------------------------------------------------------------------------
(****************************************************************************)
(* A specification of a time: pairs of characters, read turn by turn.       *)
(****************************************************************************)

\* The characters a time specification may have, and what it looks like in the
\* field.
TimeChars == Specs \union {"n", "t", "%"}

TimeTail(times) == TimesTail(times) \o <<"}">>

\* A specification of a time that is valid and is read as it is written.
TimeSuits(spec) ==
    /\ Short(spec) /\ spec.sign = "" /\ ~spec.alt /\ ~spec.zero /\ spec.precision = 0 /\ spec.type = ""
       /\ spec.fill # "%"
    /\ spec.times # <<>> /\ Len(spec.times) <= MaxTimeSpecs
       /\ \A i \in 1 .. Len(spec.times) : spec.times[i] \in TimeChars

TimeAlignFor(spec) == IF spec.align = "" THEN "Empty" ELSE Aligns[spec.align]

TimeFillFor(spec) ==
    IF spec.align # "" THEN FillFor(spec) ELSE IF spec.width = 0 /\ ~spec.localize THEN NoChar ELSE " "

\* They are characters of a field, and none of them is a modifier or ends it.
LEMMA TimeCharsInside ==
    TimeChars \subseteq Inner /\ \A c \in TimeChars : c \notin {"E", "O", "}", Past, "{"}
<1>1. \A c \in TimeChars : c \notin {"E", "O", "}", Past, "{", "<", ">", "^"}
  BY DEF TimeChars, Specs, Past
<1>2. TimeChars \subseteq Marks
  <2>1. TimeChars \subseteq Fixed
    BY DEF TimeChars, Specs, Fixed
  <2>. QED BY <2>1, MarksInclude
<1>. QED BY <1>1, <1>2 DEF Inner

\* Putting texts one after the other, text by text.
LEMMA FlattenedIn ==
    ASSUME NEW S, NEW texts \in Seq(Seq(S))
    PROVE  \E g \in [0 .. Len(texts) -> Seq(S)] :
              /\ g[0] = <<>> /\ g[Len(texts)] = FlattenSeq(texts)
              /\ \A k \in 1 .. Len(texts) : g[k] = g[k - 1] \o texts[k]
BY Flattened

\* A number the provers ask for.
LEMMA AtLeastOne == 1 >= 1
OBVIOUS

\* A text with another one behind it, by its characters.
Lengthened(t, s, e, n, S) ==
    /\ Len(t) = n + Len(e) /\ t \in Seq(S) /\ \A i \in 1 .. n : t[i] = s[i]
    /\ Len(e) >= 1 => t[n + 1] = e[1]
    /\ Len(e) >= 2 => t[n + 2] = e[2]

\* A text with up to two characters behind it.
LEMMA ExtendedBy ==
    ASSUME NEW S, NEW s \in Seq(S), NEW e \in Seq(S), NEW n \in Nat, Len(s) = n
    PROVE  Lengthened(s \o e, s, e, n, S)
BY DEF Lengthened

\* A text of pairs with a pair behind it.
LEMMA Extended ==
    ASSUME NEW S, NEW s \in Seq(S), NEW x \in S, NEW y \in S, NEW k \in Nat, Len(s) = 2 * k
    PROVE  LET t == s \o <<x, y>> IN
           /\ Len(t) = 2 * (k + 1) /\ t[2 * (k + 1) - 1] = x /\ t[2 * (k + 1)] = y
           /\ \A i \in 1 .. 2 * k : t[i] = s[i]
<1>1. <<x, y>> \in Seq(S) /\ Len(<<x, y>>) = 2 /\ <<x, y>>[1] = x /\ <<x, y>>[2] = y
  OBVIOUS
<1>2. 2 * k \in Nat /\ 2 * (k + 1) = 2 * k + 2 /\ 2 * (k + 1) - 1 = 2 * k + 1 /\ 2 >= 1 /\ 2 >= 2
  OBVIOUS
<1>3. \A e \in Seq(S) : Len(e) = 2 /\ e[1] = x /\ e[2] = y =>
         /\ Len(s \o e) = 2 * k + 2 /\ (s \o e)[2 * k + 1] = x /\ (s \o e)[2 * k + 2] = y
         /\ \A i \in 1 .. 2 * k : (s \o e)[i] = s[i]
  <2>. TAKE e \in Seq(S)
  <2>. HAVE Len(e) = 2 /\ e[1] = x /\ e[2] = y
  <2>. DEFINE n == 2 * k
  <2>1. n \in Nat /\ Len(s) = n
    BY <1>2
  <2>. HIDE DEF n
  <2>2. Lengthened(s \o e, s, e, n, S)
    BY <2>1, ExtendedBy
  <2>. QED BY <2>2 DEF n, Lengthened
<1>. QED BY <1>1, <1>2, <1>3

\* The specifications stand in pairs of % and a character.
LEMMA TimesLaid ==
    ASSUME NEW times \in Seq(TimeChars)
    PROVE  LET t == TimesTail(times) IN
           /\ t \in Seq(Inner) /\ Len(t) = 2 * Len(times)
           /\ \A i \in 1 .. Len(times) : t[2 * i - 1] = "%" /\ t[2 * i] = times[i]
<1>. DEFINE texts == [i \in 1 .. Len(times) |-> <<"%", times[i]>>]
            n == Len(times)
<1>1. n \in Nat /\ \A i \in 1 .. n : times[i] \in TimeChars
  OBVIOUS
<1>2. "%" \in Inner /\ \A i \in 1 .. n : times[i] \in Inner
  BY <1>1, InnerMarks, TimeCharsInside
<1>3. texts \in Seq(Seq(Inner)) /\ Len(texts) = n /\ \A i \in 1 .. n : texts[i] = <<"%", times[i]>>
  <2>1. \A i \in 1 .. n : <<"%", times[i]>> \in Seq(Inner)
    BY <1>2
  <2>. QED BY <1>1, <2>1
<1>4. TimesTail(times) = FlattenSeq(texts)
  BY Zenon DEF TimesTail
<1>. HIDE DEF texts, n
<1>5. \E g \in [0 .. Len(texts) -> Seq(Inner)] :
              /\ g[0] = <<>> /\ g[Len(texts)] = FlattenSeq(texts)
              /\ \A k \in 1 .. Len(texts) : g[k] = g[k - 1] \o texts[k]
  BY <1>3, FlattenedIn
<1>6. PICK g \in [0 .. n -> Seq(Inner)] :
              /\ g[0] = <<>> /\ g[n] = FlattenSeq(texts)
              /\ \A k \in 1 .. n : g[k] = g[k - 1] \o texts[k]
  BY <1>3, <1>5
<1>. DEFINE Laid == {k \in 0 .. n : Len(g[k]) = 2 * k /\ \A i \in 1 .. k : g[k][2 * i - 1] = "%"
            /\ g[k][2 * i] = times[i]}
<1>7. 0 \in Laid
  BY <1>1, <1>6
<1>8. ASSUME NEW k \in 0 .. n - 1, k \in Laid PROVE k + 1 \in Laid
  <2>1. k \in Nat /\ k \in 0 .. n /\ k + 1 \in 1 .. n /\ k + 1 \in 0 .. n /\ (k + 1) - 1 = k
    BY <1>1
  <2>. DEFINE s == g[k]
              x == times[k + 1]
              t == s \o <<"%", x>>
  <2>2. s \in Seq(Inner) /\ x \in Inner
    BY <1>2, <1>6, <2>1
  <2>3. g[k + 1] = t
    BY <1>3, <1>6, <2>1
  <2>4. Len(s) = 2 * k /\ \A i \in 1 .. k : s[2 * i - 1] = "%" /\ s[2 * i] = times[i]
    BY <1>8
  <2>. HIDE DEF s, x
  <2>5. /\ Len(t) = 2 * (k + 1) /\ t[2 * (k + 1) - 1] = "%" /\ t[2 * (k + 1)] = x
        /\ \A i \in 1 .. 2 * k : t[i] = s[i]
    BY <1>2, <2>1, <2>2, <2>4, Extended
  <2>. HIDE DEF t
  <2>6. \A i \in 1 .. k + 1 : t[2 * i - 1] = "%" /\ t[2 * i] = times[i]
    <3>1. ASSUME NEW i \in 1 .. k + 1 PROVE t[2 * i - 1] = "%" /\ t[2 * i] = times[i]
      <4>1. CASE i = k + 1
        BY <2>5, <4>1 DEF x
      <4>2. CASE i # k + 1
        <5>1. i \in 1 .. k /\ 2 * i - 1 \in 1 .. 2 * k /\ 2 * i \in 1 .. 2 * k
          BY <2>1, <4>2
        <5>. QED BY <2>4, <2>5, <5>1
      <4>. QED BY <4>1, <4>2
    <3>. QED BY <3>1
  <2>. QED BY <2>1, <2>3, <2>5, <2>6
<1>9. n \in Laid
  <2>. HIDE DEF Laid
  <2>1. \A k \in 0 .. n : k \in Laid
    BY <1>1, <1>7, <1>8, InductionUpTo
  <2>. QED BY <1>1, <2>1
<1>10. g[n] \in Seq(Inner)
  BY <1>1, <1>6
<1>. QED BY <1>4, <1>6, <1>9, <1>10 DEF n

\* The same with the bracket behind them.
LEMMA TimeTailLaid ==
    ASSUME NEW times \in Seq(TimeChars), times # <<>>
    PROVE  LET t == TimeTail(times)
               n == Len(times)
           IN /\ t \in Seq(Inner) /\ Len(t) = 2 * n + 1 /\ n \in Nat /\ n >= 1 /\ t[1] = "%"
              /\ t[2 * n + 1] = "}" /\ Ends(t)
              /\ \A i \in 1 .. n : t[2 * i - 1] = "%" /\ t[2 * i] = times[i]
<1>. DEFINE s == TimesTail(times)
            n == Len(times)
            t == s \o <<"}">>
<1>1. n \in Nat /\ n # 0
  OBVIOUS
<1>2. "}" \in Inner
  BY InnerMarks
<1>3. s \in Seq(Inner) /\ Len(s) = 2 * n /\ \A i \in 1 .. n : s[2 * i - 1] = "%" /\ s[2 * i] = times[i]
  BY TimesLaid
<1>. HIDE DEF s, n
<1>4. n >= 1 /\ 2 * n + 1 # 0
  BY <1>1
<1>5. t \in Seq(Inner) /\ Len(t) = 2 * n + 1 /\ t[2 * n + 1] = "}" /\ \A i \in 1 .. 2 * n : t[i] = s[i]
  <2>1. <<"}">> \in Seq(Inner) /\ Len(<<"}">>) = 1 /\ <<"}">>[1] = "}"
    <3>1. <<"}">> \in Seq(Inner) /\ <<"}">>[1] = "}"
      BY <1>2, One
    <3>2. Len(<<"}">>) = 1
      OBVIOUS
    <3>. QED BY <3>1, <3>2
  <2>2. 2 * n \in Nat /\ Len(s) = 2 * n
    BY <1>1, <1>3
  <2>3. \A e \in Seq(Inner) : Len(e) = 1 /\ e[1] = "}" =>
           /\ s \o e \in Seq(Inner) /\ Len(s \o e) = 2 * n + 1 /\ (s \o e)[2 * n + 1] = "}"
           /\ \A i \in 1 .. 2 * n : (s \o e)[i] = s[i]
    <3>. TAKE e \in Seq(Inner)
    <3>. HAVE Len(e) = 1 /\ e[1] = "}"
    <3>. DEFINE m == 2 * n
    <3>1. m \in Nat /\ Len(s) = m
      BY <2>2
    <3>. HIDE DEF m
    <3>2. Lengthened(s \o e, s, e, m, Inner)
      BY <1>3, <3>1, ExtendedBy
    <3>3. 1 >= 1
      BY AtLeastOne
    <3>4. s \o e \in Seq(Inner) /\ Len(s \o e) = m + 1 /\ (s \o e)[m + 1] = "}"
          /\ \A i \in 1 .. m : (s \o e)[i] = s[i]
      <4>. DEFINE w == s \o e
      <4>. HIDE DEF w
      <4>1. Lengthened(w, s, e, m, Inner)
        BY <3>2 DEF w
      <4>2. Len(w) = m + 1 /\ w \in Seq(Inner) /\ w[m + 1] = e[1] /\ \A i \in 1 .. m : w[i] = s[i]
        BY <3>3, <4>1 DEF Lengthened
      <4>. QED BY <4>2 DEF w
    <3>. QED BY <3>4 DEF m
  <2>. QED BY <2>1, <2>3
<1>. HIDE DEF t
<1>6. ASSUME NEW i \in 1 .. n PROVE t[2 * i - 1] = "%" /\ t[2 * i] = times[i]
  <2>1. 2 * i - 1 \in 1 .. 2 * n /\ 2 * i \in 1 .. 2 * n
    BY <1>1
  <2>. QED BY <1>3, <1>5, <2>1
<1>7. t[1] = "%"
  <2>1. 1 \in 1 .. n /\ 2 * 1 - 1 = 1
    BY <1>1, <1>4
  <2>. QED BY <1>6, <2>1
<1>8. Ends(t)
  <2>1. t # <<>>
    <3>1. Len(t) # 0
      BY <1>4, <1>5
    <3>. QED BY <3>1
  <2>. QED BY <1>5, <1>7, <2>1 DEF Ends, EndChars
<1>. QED BY <1>1, <1>4, <1>5, <1>6, <1>7, <1>8 DEF TimeTail, t, s, n

\* What the loop over the time specifications has read after k turns, and where it is.
TimeRead(char) == [char |-> char, localized |-> FALSE]

TurnsRead(times, k) == [i \in 1 .. k |-> TimeRead(times[i])]

TimesRead(times) == TurnsRead(times, Len(times))

TimeTurn(times, pos, k) ==
    IF k < Len(times) THEN [at |-> pos + 2 * k, done |-> FALSE, times |-> TurnsRead(times, k),
       error |-> NoError]
    ELSE [at |-> pos + 2 * Len(times) - 1, done |-> TRUE, times |-> TimesRead(times), error |-> NoError]

TimesAhead(text, pos, times) ==
    /\ times \in Seq(TimeChars) /\ times # <<>> /\ Len(text) = pos + 2 * Len(times) /\ pos \in Nat
    /\ \A i \in 1 .. Len(times) : text[pos + 2 * i - 1] = times[i]
    /\ \A i \in 1 .. Len(times) - 1 : text[pos + 2 * i] = "%"
    /\ text[pos + 2 * Len(times)] = "}"

\* A turn appends what it has read.
LEMMA TurnAppended ==
    ASSUME NEW times, NEW k \in Nat
    PROVE  Append(TurnsRead(times, k), TimeRead(times[k + 1])) = TurnsRead(times, k + 1)
<1>. DEFINE S == {TimeRead(times[i]) : i \in Nat}
            s == TurnsRead(times, k)
            x == TimeRead(times[k + 1])
            t == TurnsRead(times, k + 1)
<1>1. s \in Seq(S) /\ Len(s) = k /\ x \in S /\ t \in Seq(S) /\ Len(t) = k + 1 /\ t[k + 1] = x
      /\ \A i \in 1 .. k : t[i] = s[i]
  BY DEF TurnsRead
<1>. HIDE DEF s, x, t, S
<1>2. Append(s, x) \in Seq(S) /\ Len(Append(s, x)) = k + 1 /\ Append(s, x)[k + 1] = x
      /\ \A i \in 1 .. k : Append(s, x)[i] = s[i]
  BY <1>1
<1>3. \A i \in 1 .. k + 1 : Append(s, x)[i] = t[i]
  <2>1. ASSUME NEW i \in 1 .. k + 1 PROVE Append(s, x)[i] = t[i]
    <3>1. i = k + 1 \/ i \in 1 .. k
      OBVIOUS
    <3>. QED BY <1>1, <1>2, <3>1
  <2>. QED BY <2>1
<1>4. Append(s, x) = t
  <2>. DEFINE u == Append(s, x)
  <2>1. u \in Seq(S) /\ Len(u) = k + 1 /\ \A i \in 1 .. k + 1 : u[i] = t[i]
    BY <1>2, <1>3
  <2>. HIDE DEF u
  <2>2. u = t
    BY <1>1, <2>1, SameText
  <2>. QED BY <2>2 DEF u
<1>. QED BY <1>4 DEF s, x, t

\* What a turn of the loop leaves.
TurnResult(s, at, done, char, error) ==
    [at |-> at, done |-> done, times |-> Append(s.times, [char |-> char, localized |-> FALSE]),
       error |-> error]

\* What a turn does where no modifier stands (VerifyTimeSpec).
LEMMA TurnCases ==
    ASSUME NEW text, NEW s, ~s.done, At(text, s.at) \notin {"E", "O"}
    PROVE  ReadTimeSpec(text, s) =
             LET next == At(text, s.at + 1)
                 behind == IF next = "%" THEN s.at + 2 ELSE s.at + 1
                 ended == next \in {"}", Past}
                 cut == ~ended /\ behind >= Len(text)
             IN TurnResult(s, behind, ended \/ cut, At(text, s.at),
                IF cut THEN "missing_ctime_spec" ELSE NoError)
<1>. DEFINE char == At(text, s.at)
            modified == char \in {"E", "O"}
            last == IF modified THEN s.at + 1 ELSE s.at
            valid == \/ ~modified
                     \/ char = "E" /\ At(text, last) \in EModified
                     \/ char = "O" /\ At(text, last) \in OModified
            next == At(text, last + 1)
            behind == IF next = "%" THEN last + 2 ELSE last + 1
            ended == next \in {"}", Past}
            cut == ~ended /\ behind >= Len(text)
            read == [at |-> behind, done |-> ended \/ cut,
                     times |-> Append(s.times, [char |-> At(text, last), localized |-> modified]),
                     error |-> IF cut THEN "missing_ctime_spec" ELSE NoError]
<1>1. ReadTimeSpec(text, s) = CASE s.done -> s
         [] ~s.done /\ ~valid -> [s EXCEPT !.done = TRUE, !.error = "invalid_ctime_spec"]
         [] OTHER -> read
  BY Zenon DEF ReadTimeSpec
<1>2. modified = FALSE /\ last = s.at /\ valid
  OBVIOUS
<1>3. ReadTimeSpec(text, s) = read
  <2>. HIDE DEF modified, valid, read
  <2>. QED BY <1>1, <1>2
<1>4. read = TurnResult(s, behind, ended \/ cut, At(text, s.at),
      IF cut THEN "missing_ctime_spec" ELSE NoError)
  <2>. HIDE DEF behind, ended, cut, modified, last
  <2>. QED BY <1>2, Zenon DEF TurnResult
<1>. QED BY <1>2, <1>3, <1>4

\* The turn in front of the bracket is the last one.
LEMMA LastRead ==
    ASSUME NEW text, NEW s, ~s.done, At(text, s.at) \notin {"E", "O"}, At(text, s.at + 1) = "}"
    PROVE  ReadTimeSpec(text, s) = TurnResult(s, s.at + 1, TRUE, At(text, s.at), NoError)
BY TurnCases

\* A turn in front of another % goes on behind it.
LEMMA NextRead ==
    ASSUME NEW text, NEW s, ~s.done, At(text, s.at) \notin {"E", "O"}, At(text, s.at + 1) = "%",
           ~(s.at + 2 >= Len(text))
    PROVE  ReadTimeSpec(text, s) = TurnResult(s, s.at + 2, FALSE, At(text, s.at), NoError)
<1>1. "%" \notin {"}", Past}
  BY DEF Past
<1>. QED BY <1>1, TurnCases

\* A turn of the loop (ArgFormatter::VerifyTimeSpec).
LEMMA TurnTaken ==
    ASSUME NEW text, NEW pos, NEW times, TimesAhead(text, pos, times), NEW k \in Nat
    PROVE  ReadTimeSpec(text, TimeTurn(times, pos, k)) = TimeTurn(times, pos, k + 1)
<1>. DEFINE n == Len(times)
            s == TimeTurn(times, pos, k)
            at == pos + 2 * k
<1>1. /\ n \in Nat /\ pos \in Nat /\ n >= 1 /\ Len(text) = pos + 2 * n
         /\ \A i \in 1 .. n : times[i] \in TimeChars
  <2>0. times \in Seq(TimeChars) /\ times # <<>>
    BY DEF TimesAhead
  <2>1. n \in Nat /\ n # 0 /\ \A i \in 1 .. n : times[i] \in TimeChars
    BY <2>0
  <2>. HIDE DEF n
  <2>2. n >= 1
    BY <2>1
  <2>. QED BY <2>1, <2>2 DEF TimesAhead, n
<1>2. \A i \in 1 .. n : text[pos + 2 * i - 1] = times[i]
  BY DEF TimesAhead
<1>3. \A i \in 1 .. n - 1 : text[pos + 2 * i] = "%"
  BY DEF TimesAhead
<1>4. text[pos + 2 * n] = "}"
  BY DEF TimesAhead
<1>5. CASE ~(k < n)
  <2>1. s.done /\ ~(k + 1 < n)
    BY <1>1, <1>5 DEF TimeTurn
  <2>2. ReadTimeSpec(text, s) = s
    <3>. HIDE DEF s
    <3>. QED BY <2>1, Zenon DEF ReadTimeSpec
  <2>3. s = TimeTurn(times, pos, k + 1)
    BY <1>5, <2>1 DEF TimeTurn
  <2>. QED BY <2>2, <2>3
<1>6. CASE k < n
  <2>. DEFINE c == times[k + 1]
              next == IF k + 1 = n THEN "}" ELSE "%"
              r == TurnsRead(times, k)
  <2>1. s = [at |-> at, done |-> FALSE, times |-> r, error |-> NoError]
    BY <1>6 DEF TimeTurn
  <2>2. k + 1 \in 1 .. n /\ at \in Nat /\ at < Len(text) /\ at + 1 = pos + 2 * (k + 1) - 1
        /\ at + 1 < Len(text)
        /\ at + 1 + 1 = pos + 2 * (k + 1)
    BY <1>1, <1>6
  <2>3. At(text, at) = c
    <3>1. text[at + 1] = c
      BY <1>2, <2>2
    <3>. QED BY <2>2, <3>1, Zenon DEF At
  <2>4. At(text, at + 1) = next
    <3>1. text[pos + 2 * (k + 1)] = next
      <4>1. CASE k + 1 = n
        BY <1>4, <4>1
      <4>2. CASE k + 1 # n
        <5>1. k + 1 \in 1 .. n - 1
          BY <1>1, <2>2, <4>2
        <5>. QED BY <1>3, <4>2, <5>1
      <4>. QED BY <4>1, <4>2
    <3>. HIDE DEF next
    <3>. QED BY <2>2, <3>1, Zenon DEF At
  <2>5. c \notin {"E", "O"}
    BY <1>1, <2>2, TimeCharsInside
  <2>6. Append(r, TimeRead(c)) = TurnsRead(times, k + 1)
    BY TurnAppended
  <2>. HIDE DEF c, r, at
  <2>7. s.at = at /\ ~s.done /\ s.times = r
    BY <2>1
  <2>. HIDE DEF s
  <2>8. CASE k + 1 = n
    <3>1. next = "}"
      BY <2>8
    <3>. HIDE DEF next
    <3>2. ReadTimeSpec(text, s)
            = [at |-> at + 1, done |-> TRUE, times |-> TurnsRead(times, k + 1), error |-> NoError]
      <4>. DEFINE w == Append(s.times, [char |-> c, localized |-> FALSE])
      <4>1. w = TurnsRead(times, k + 1)
        BY <2>6, <2>7 DEF TimeRead
      <4>2. ReadTimeSpec(text, s) = [at |-> at + 1, done |-> TRUE, times |-> w, error |-> NoError]
        <5>1. At(text, s.at) \notin {"E", "O"} /\ At(text, s.at + 1) = "}" /\ ~s.done
          BY <2>3, <2>4, <2>5, <2>7, <3>1
        <5>2. ReadTimeSpec(text, s) = TurnResult(s, s.at + 1, TRUE, At(text, s.at), NoError)
          BY <5>1, LastRead
        <5>3. TurnResult(s, s.at + 1, TRUE, At(text, s.at), NoError)
                = [at |-> at + 1, done |-> TRUE, times |-> w, error |-> NoError]
          BY <2>3, <2>7, Zenon DEF TurnResult
        <5>. QED BY <5>2, <5>3
      <4>. QED BY <4>1, <4>2
    <3>3. at + 1 = pos + 2 * n - 1 /\ ~(k + 1 < n)
      BY <1>1, <2>2, <2>8
    <3>4. TimeTurn(times, pos, k + 1)
            = [at |-> at + 1, done |-> TRUE, times |-> TurnsRead(times, k + 1), error |-> NoError]
      BY <2>8, <3>3 DEF TimeTurn, TimesRead
    <3>. QED BY <3>2, <3>4 DEF s
  <2>9. CASE k + 1 # n
    <3>1. next = "%"
      BY <2>9
    <3>. HIDE DEF next
    <3>2. at + 2 < Len(text) /\ k + 1 < n /\ at + 2 = pos + 2 * (k + 1)
      BY <1>1, <1>6, <2>2, <2>9
    <3>3. ReadTimeSpec(text, s)
            = [at |-> at + 2, done |-> FALSE, times |-> TurnsRead(times, k + 1), error |-> NoError]
      <4>. DEFINE w == Append(s.times, [char |-> c, localized |-> FALSE])
      <4>1. w = TurnsRead(times, k + 1)
        BY <2>6, <2>7 DEF TimeRead
      <4>2. ~(at + 2 >= Len(text)) /\ "%" \notin {"}", Past}
        BY <1>1, <2>2, <3>2 DEF Past
      <4>3. ReadTimeSpec(text, s) = [at |-> at + 2, done |-> FALSE, times |-> w, error |-> NoError]
        <5>1. At(text, s.at) \notin {"E", "O"} /\ At(text, s.at + 1) = "%" /\ ~s.done
              /\ ~(s.at + 2 >= Len(text))
          BY <2>3, <2>4, <2>5, <2>7, <3>1, <4>2
        <5>2. ReadTimeSpec(text, s) = TurnResult(s, s.at + 2, FALSE, At(text, s.at), NoError)
          BY <5>1, NextRead
        <5>3. TurnResult(s, s.at + 2, FALSE, At(text, s.at), NoError)
                = [at |-> at + 2, done |-> FALSE, times |-> w, error |-> NoError]
          BY <2>3, <2>7, Zenon DEF TurnResult
        <5>. QED BY <5>2, <5>3
      <4>. QED BY <4>1, <4>3
    <3>4. TimeTurn(times, pos, k + 1)
            = [at |-> at + 2, done |-> FALSE, times |-> TurnsRead(times, k + 1), error |-> NoError]
      BY <3>2 DEF TimeTurn
    <3>. QED BY <3>3, <3>4 DEF s
  <2>. QED BY <2>8, <2>9
<1>. QED BY <1>5, <1>6

\* The turns of the loop as the recursive function of the model, and as any
\* function with its equations.
TurnsOf(f, text, n, first) ==
    f = [k \in 0 .. n |-> IF k = 0 THEN first ELSE ReadTimeSpec(text, f[k - 1])]

Turns(g, text, n, first) == g[0] = first /\ \A k \in 0 .. n - 1 : g[k + 1] = ReadTimeSpec(text, g[k])

\* Both are the same, turn by turn.
LEMMA TimeLoop ==
    ASSUME NEW text, NEW n \in Nat, NEW first, NEW f, TurnsOf(f, text, n, first), NEW g,
           Turns(g, text, n, first)
    PROVE  f[n] = g[n]
<1>0. /\ f = [k \in 0 .. n |-> IF k = 0 THEN first ELSE ReadTimeSpec(text, f[k - 1])]
      /\ g[0] = first /\ \A k \in 0 .. n - 1 : g[k + 1] = ReadTimeSpec(text, g[k])
  BY DEF TurnsOf, Turns
<1>. DEFINE Same == {k \in 0 .. n : f[k] = g[k]}
<1>1. 0 \in 0 .. n /\ n \in 0 .. n
  OBVIOUS
<1>2. 0 \in Same
  <2>1. f[0] = first
    BY <1>0, <1>1, Zenon
  <2>. QED BY <1>0, <1>1, <2>1
<1>3. ASSUME NEW k \in 0 .. n - 1, k \in Same PROVE k + 1 \in Same
  <2>1. k + 1 \in 0 .. n /\ k + 1 # 0 /\ (k + 1) - 1 = k
    OBVIOUS
  <2>2. f[k + 1] = ReadTimeSpec(text, f[k])
    BY <1>0, <2>1, Zenon
  <2>. QED BY <1>0, <1>3, <2>1, <2>2, Zenon
<1>. HIDE DEF Same
<1>4. \A k \in 0 .. n : k \in Same
  BY <1>2, <1>3, InductionUpTo
<1>5. n \in Same
  BY <1>1, <1>4
<1>. QED BY <1>5 DEF Same

\* What a specification of a time leaves of the parser.
TimesEnded(q, p, times) ==
    q.error = NoError /\ q.mode = p.mode /\ q.counter = p.counter /\ q.spec = p.spec
       /\ q.times = TimesRead(times)

\* What the loop has read is stored.
LEMMA TimesPut ==
    ASSUME NEW p \in ParserStates, NEW times
    PROVE  TimesEnded([p EXCEPT !.times = TimesRead(times), !.error = NoError], p, times)
<1>. DEFINE t == TimesRead(times)
            q == [p EXCEPT !.times = t, !.error = NoError]
<1>1. q.error = NoError /\ q.mode = p.mode /\ q.counter = p.counter /\ q.spec = p.spec /\ q.times = t
  <2>. HIDE DEF t
  <2>. QED BY DEF ParserStates
<1>. HIDE DEF q
<1>2. TimesEnded(q, p, times)
  BY <1>1 DEF TimesEnded
<1>. QED BY <1>2 DEF q

\* The time specifications of a field (ArgFormatter::VerifyTimeSpec).
LEMMA TimesVerified ==
    ASSUME NEW p \in ParserStates, NEW times, TimesAhead(p.sv, p.pos, times), Len(times) <= MaxTimeSpecs
    PROVE  TimesEnded(VerifyTimeSpec(p), p, times)
<1>. DEFINE n == Len(times)
            m == Len(p.sv)
            first == [at |-> p.pos, done |-> FALSE, times |-> <<>>, error |-> NoError]
            Loops(h) == TurnsOf(h, p.sv, m, first)
            f == CHOOSE h : Loops(h)
            g == [k \in 0 .. m |-> TimeTurn(times, p.pos, k)]
<1>0. times \in Seq(TimeChars) /\ times # <<>>
  BY DEF TimesAhead
<1>1. n \in Nat /\ n # 0
  BY <1>0
<1>2. m \in Nat /\ p.pos \in Nat /\ m = p.pos + 2 * n
  <2>1. p.sv \in Seq(Marks) /\ p.pos \in Nat
    BY DEF ParserStates
  <2>2. m \in Nat
    BY <2>1
  <2>3. m = p.pos + 2 * n
    BY DEF TimesAhead
  <2>. QED BY <2>1, <2>2, <2>3
<1>. HIDE DEF m, n
<1>3. g[0] = first
  <2>1. 0 \in 0 .. m /\ 0 < n /\ p.pos + 2 * 0 = p.pos
    BY <1>1, <1>2
  <2>2. TurnsRead(times, 0) = <<>>
    BY DEF TurnsRead
  <2>3. TimeTurn(times, p.pos, 0) = first
    BY <2>1, <2>2, Zenon DEF TimeTurn, n
  <2>. QED BY <2>1, <2>3
<1>4. \A k \in 0 .. m - 1 : g[k + 1] = ReadTimeSpec(p.sv, g[k])
  <2>1. ASSUME NEW k \in 0 .. m - 1 PROVE g[k + 1] = ReadTimeSpec(p.sv, g[k])
    <3>1. k \in Nat /\ k \in 0 .. m /\ k + 1 \in 0 .. m
      BY <1>2
    <3>2. ReadTimeSpec(p.sv, TimeTurn(times, p.pos, k)) = TimeTurn(times, p.pos, k + 1)
      BY <3>1, TurnTaken
    <3>. QED BY <3>1, <3>2
  <2>. QED BY <2>1
<1>5. Loops(g)
  <2>1. ASSUME NEW k \in 0 .. m PROVE g[k] = IF k = 0 THEN first ELSE ReadTimeSpec(p.sv, g[k - 1])
    <3>1. CASE k = 0
      BY <1>3, <3>1
    <3>2. CASE k # 0
      <4>1. k - 1 \in 0 .. m - 1 /\ (k - 1) + 1 = k
        BY <1>2, <3>2
      <4>. HIDE DEF g
      <4>. QED BY <1>4, <3>2, <4>1
    <3>. QED BY <3>1, <3>2
  <2>2. g = [k \in 0 .. m |-> IF k = 0 THEN first ELSE ReadTimeSpec(p.sv, g[k - 1])]
    BY <2>1, Zenon
  <2>. QED BY <2>2 DEF TurnsOf
<1>6. Loops(f)
  <2>. HIDE DEF Loops
  <2>. QED BY <1>5, Zenon
<1>7. f[m] = TimeTurn(times, p.pos, m)
  <2>. HIDE DEF f, g, first
  <2>1. f[m] = g[m]
    <3>1. Turns(g, p.sv, m, first)
      BY <1>3, <1>4 DEF Turns
    <3>. QED BY <1>2, <1>6, <3>1, TimeLoop
  <2>2. m \in 0 .. m
    BY <1>2
  <2>. QED BY <2>1, <2>2 DEF g
<1>8. f[m].times = TimesRead(times) /\ f[m].error = NoError
  <2>1. ~(m < n)
    BY <1>1, <1>2
  <2>. QED BY <1>7, <2>1 DEF TimeTurn, n
<1>9. VerifyTimeSpec(p) = [p EXCEPT !.times = IF Len(f[m].times) > MaxTimeSpecs
                                              THEN [i \in 1 .. Len(f[m].times) |-> [char |-> Past,
       localized |-> FALSE]]
                                              ELSE f[m].times,
                                    !.error = f[m].error]
  <2>1. p.error = NoError
    BY DEF ParserStates
  <2>. QED BY <2>1, Zenon DEF VerifyTimeSpec, m, TurnsOf
<1>. HIDE DEF f
<1>10. ~(Len(f[m].times) > MaxTimeSpecs)
  <2>1. Len(TimesRead(times)) = n
    BY <1>1 DEF TimesRead, TurnsRead, n
  <2>2. ~(n > MaxTimeSpecs)
    BY <1>1 DEF MaxTimeSpecs, n
  <2>. QED BY <1>8, <2>1, <2>2
<1>11. VerifyTimeSpec(p) = [p EXCEPT !.times = TimesRead(times), !.error = NoError]
  BY <1>8, <1>9, <1>10
<1>. QED BY <1>11, TimesPut

------------------------------------------------------------------------------
(****************************************************************************)
(* Its alignment, width and locale.                                         *)
(****************************************************************************)

\* Behind the first character of a specification without alignment stands no
\* alignment.
LEMMA NoAlignNext ==
    ASSUME NEW p \in ParserStates, NEW T \in Seq(Inner), T # <<>>, Ahead(p, T)
    PROVE  At(p.sv, p.pos + 1) \notin DOMAIN Aligns
<1>1. DOMAIN Aligns = {"<", ">", "^"}
  BY DEF Aligns
<1>2. CASE Len(T) = 1
  <2>1. At(p.sv, p.pos + 1) = Past
    BY <1>2, AtAhead
  <2>. QED BY <1>1, <2>1 DEF Past
<1>3. CASE Len(T) # 1
  <2>1. Len(T) >= 2 /\ T[2] \in Inner
    BY <1>3, Second
  <2>2. At(p.sv, p.pos + 1) = T[2]
    BY <2>1, AtAhead
  <2>. QED BY <1>1, <2>1, <2>2 DEF Inner
<1>. QED BY <1>2, <1>3

\* A parser that passes over two characters.
LEMMA PassesTwo ==
    ASSUME NEW p \in ParserStates, NEW x \in Marks, NEW y \in Marks, NEW T \in Seq(Marks),
           Ahead(p, <<x>> \o (<<y>> \o T)),
           NEW s \in SpecStates
    PROVE  /\ At(p.sv, p.pos) = x /\ At(p.sv, p.pos + 1) = y
           /\ Goes(p, [p EXCEPT !.pos = @ + 2, !.spec = s], T)
<1>1. TwoFirst(x, y, T)
  BY TwoBehind
<1>2. /\ Len(<<x>> \o (<<y>> \o T)) >= 2 /\ Len(<<x>> \o (<<y>> \o T)) >= 1
      /\ (<<x>> \o (<<y>> \o T))[1] = x /\ (<<x>> \o (<<y>> \o T))[2] = y
  BY <1>1 DEF TwoFirst
<1>3. At(p.sv, p.pos) = x /\ At(p.sv, p.pos + 1) = y
  BY <1>2, AtAhead
<1>4. <<x, y>> \in Seq(Marks) /\ Len(<<x, y>>) = 2 /\ Ahead(p, <<x, y>> \o T)
  BY <1>1 DEF TwoFirst
<1>. DEFINE q == [p EXCEPT !.pos = @ + 2, !.spec = s]
<1>5. q = [p EXCEPT !.pos = @ + Len(<<x, y>>), !.spec = s]
  BY <1>4
<1>. HIDE DEF q
<1>6. Goes(p, q, T)
  BY <1>4, <1>5, Passes
<1>. QED BY <1>3, <1>6 DEF q

\* The specification of a time from stage to stage.
TimeAfterFill(n, spec) ==
    SpecOf(n, 0, 0, TimeAlignFor(spec), TimeFillFor(spec), "Empty", FALSE, <<>>, FALSE, NoChar)

TimeAfterWidth(n, spec) ==
    SpecOf(n, spec.width, 0, TimeAlignFor(spec), TimeFillFor(spec), "Empty", FALSE, <<>>, FALSE, NoChar)

TimeAfterLocale(n, spec) ==
    SpecOf(n, spec.width, 0, TimeAlignFor(spec), TimeFillFor(spec), "Empty", FALSE, <<>>, spec.localize,
       NoChar)

\* How a specification of a time begins.
TimeSpecBegins(spec, rest) ==
    LET W == WidthTail(spec, rest) IN
    /\ Ends(rest) /\ rest[1] = "%"
    /\ W \in Seq(Inner) /\ W \in Seq(Marks) /\ W # <<>>
       /\ FillTail(spec, rest) = Optional(spec.fill) \o (Optional(spec.align) \o W)
    /\ spec.width = 0 /\ ~spec.localize => W = rest
    /\ spec.width # 0 \/ spec.localize => W[1] # "%"

\* A width begins with a digit.
LEMMA DigitsBegin ==
    ASSUME NEW n \in 1 .. 99, NEW rest \in Seq(Marks)
    PROVE  (ToChars(n, 10) \o rest)[1] \in Digits
<1>. DEFINE D == ToChars(n, 10)
<1>1. D \in Seq(Digits) /\ D # <<>>
  <2>1. n \in Nat /\ 10 \in Bases
    BY DEF Bases
  <2>. QED BY <2>1, NaturalText, DigitsInside
<1>. HIDE DEF D
<1>2. D \in Seq(Marks) /\ D[1] \in Digits
  <2>1. D \in Seq(Marks)
    BY <1>1, MarksInclude, Bigger
  <2>. QED BY <1>1, <2>1
<1>3. (D \o rest)[1] = D[1]
  BY <1>1, <1>2, MoreOpened
<1>. QED BY <1>2, <1>3 DEF D

\* A text whose characters are others' is a text over those.
LEMMA Retyped ==
    ASSUME NEW S, NEW T, NEW s \in Seq(S), \A i \in 1 .. Len(s) : s[i] \in T
    PROVE  s \in Seq(T)
OBVIOUS

\* A specification of a time begins with its alignment, its width, L or %.
LEMMA TimeBegins ==
    ASSUME NEW spec, TimeSuits(spec), NEW rest, rest = TimeTail(spec.times)
    PROVE  TimeSpecBegins(spec, rest)
<1>. DEFINE W == WidthTail(spec, rest)
            P == PrecisionTail(spec, rest)
            L == LocaleTail(spec, rest)
<1>0. /\ Short(spec) /\ spec.sign = "" /\ ~spec.alt /\ ~spec.zero /\ spec.precision = 0
         /\ spec.times # <<>>
      /\ \A i \in 1 .. Len(spec.times) : spec.times[i] \in TimeChars
  BY DEF TimeSuits
<1>1. spec.times \in Seq(TimeChars)
  <2>1. spec.times \in Seq(STRING)
    BY <1>0 DEF Short, ItemSpecs
  <2>. QED BY <1>0, <2>1, Retyped
<1>2. Ends(rest) /\ rest[1] = "%"
  BY <1>0, <1>1, TimeTailLaid
<1>3. W \in Seq(Inner) /\ W # <<>> /\ P \in Seq(Inner) /\ L \in Seq(Inner) /\ rest \in Seq(Inner)
  BY <1>0, <1>2, TailsBegin DEF Ends
<1>4. W \in Seq(Marks) /\ P \in Seq(Marks) /\ L \in Seq(Marks) /\ rest \in Seq(Marks)
  BY <1>3, InnerMarks, Bigger
<1>5. P = L
  <2>1. P = <<>> \o L
    BY <1>0, Zenon DEF PrecisionTail, OptionalIf
  <2>. QED BY <1>4, <2>1, NothingBefore
<1>6. SignTail(spec, rest) = W
  <2>1. SignTail(spec, rest) = <<>> \o (<<>> \o (<<>> \o W))
    BY <1>0, Zenon DEF SignTail, AltTail, ZeroTail, Optional, OptionalIf
  <2>. HIDE DEF W
  <2>. QED BY <1>4, <2>1, NothingBefore
<1>7. FillTail(spec, rest) = Optional(spec.fill) \o (Optional(spec.align) \o W)
  BY <1>6, Zenon DEF FillTail
<1>8. spec.width \in 0 .. 99 /\ spec.localize \in BOOLEAN
  BY <1>0 DEF Short, ItemSpecs
<1>9. spec.width = 0 => W = P
  <2>. SUFFICES ASSUME spec.width = 0 PROVE W = P
    OBVIOUS
  <2>1. W = <<>> \o P
    BY Zenon DEF WidthTail, OptionalIf
  <2>. HIDE DEF P
  <2>. QED BY <1>4, <2>1, NothingBefore
<1>10. ~spec.localize => L = rest
  <2>. SUFFICES ASSUME ~spec.localize PROVE L = rest
    OBVIOUS
  <2>1. L = <<>> \o rest
    BY Zenon DEF LocaleTail, OptionalIf
  <2>. QED BY <1>4, <2>1, NothingBefore
<1>11. spec.width # 0 => W[1] # "%"
  <2>. SUFFICES ASSUME spec.width # 0 PROVE W[1] # "%"
    OBVIOUS
  <2>1. W = ToChars(spec.width, 10) \o P
    BY Zenon DEF WidthTail, OptionalIf
  <2>2. spec.width \in 1 .. 99
    BY <1>8, Positive
  <2>. HIDE DEF W, P
  <2>3. W[1] \in Digits
    BY <1>4, <2>1, <2>2, DigitsBegin
  <2>. QED BY <2>3, DecimalDigits
<1>12. spec.localize => L[1] # "%"
  <2>. SUFFICES ASSUME spec.localize PROVE L[1] # "%"
    OBVIOUS
  <2>1. L = <<"L">> \o rest
    BY Zenon DEF LocaleTail, OptionalIf
  <2>2. <<"L">> \in Seq(Marks) /\ <<"L">> # <<>> /\ <<"L">>[1] = "L"
    <3>1. "L" \in Marks
      BY InnerMarks
    <3>. QED BY <3>1, One
  <2>. HIDE DEF L
  <2>3. L[1] = "L"
    BY <1>4, <2>1, <2>2, MoreOpened
  <2>. QED BY <2>3
<1>. HIDE DEF W, P, L
<1>13. spec.width # 0 \/ spec.localize => W[1] # "%"
  BY <1>5, <1>9, <1>11, <1>12
<1>14. spec.width = 0 /\ ~spec.localize => W = rest
  BY <1>5, <1>9, <1>10
<1>. QED BY <1>2, <1>3, <1>4, <1>7, <1>13, <1>14 DEF TimeSpecBegins, W

\* The fill and the alignment of a time (VerifyFillAlignTimeField).
LEMMA TimeFillRead ==
    ASSUME NEW p \in ParserStates, NEW spec, TimeSuits(spec), NEW rest, TimeSpecBegins(spec, rest),
           Ahead(p, FillTail(spec, rest)),
           NEW n, p.spec = AtBegin(n)
    PROVE  /\ Goes(p, VerifyFillAlignTimeField(p), WidthTail(spec, rest))
              /\ VerifyFillAlignTimeField(p).counter = p.counter
           /\ VerifyFillAlignTimeField(p).spec = TimeAfterFill(n, spec)
<1>. DEFINE q == VerifyFillAlignTimeField(p)
            W == WidthTail(spec, rest)
            fill == TimeFillFor(spec)
            align == TimeAlignFor(spec)
<1>1. /\ rest[1] = "%" /\ W \in Seq(Inner) /\ W \in Seq(Marks) /\ W # <<>>
         /\ FillTail(spec, rest) = Optional(spec.fill) \o (Optional(spec.align) \o W)
      /\ (spec.width = 0 /\ ~spec.localize => W = rest)
         /\ (spec.width # 0 \/ spec.localize => W[1] # "%")
  BY DEF TimeSpecBegins
<1>. HIDE DEF W
<1>2. p.spec \in SpecStates
  BY DEF ParserStates
<1>3. DOMAIN Aligns = {"<", ">", "^"}
  BY DEF Aligns
<1>4. spec.fill \in Char \union {""} /\ spec.align \in {"", "<", ">", "^"}
      /\ ((spec.align = "") = (spec.fill = ""))
      /\ spec.fill \notin {"{", "}"} /\ spec.fill # "%"
  BY DEF TimeSuits, Short, ItemSpecs
<1>5. CASE spec.align = ""
  <2>1. Ahead(p, W)
    <3>1. FillTail(spec, rest) = <<>> \o (<<>> \o W)
      BY <1>1, <1>4, <1>5 DEF Optional
    <3>2. <<>> \o (<<>> \o W) = W
      BY <1>1, NothingBefore
    <3>. QED BY <3>1, <3>2
  <2>2. At(p.sv, p.pos + 1) \notin DOMAIN Aligns /\ At(p.sv, p.pos) = W[1]
    BY <1>1, <2>1, NoAlignNext, NotEnded
  <2>3. align = "Empty"
    BY <1>5 DEF TimeAlignFor
  <2>4. CASE spec.width = 0 /\ ~spec.localize
    <3>1. q = p
      BY <1>1, <2>2, <2>4, Zenon DEF VerifyFillAlignTimeField
    <3>2. fill = NoChar
      BY <1>5, <2>4 DEF TimeFillFor
    <3>3. TimeAfterFill(n, spec) = AtBegin(n)
      <4>. HIDE DEF fill, align
      <4>1. TimeAfterFill(n, spec) = SpecOf(n, 0, 0, align, fill, "Empty", FALSE, <<>>, FALSE, NoChar)
        BY Zenon DEF TimeAfterFill, fill, align
      <4>2. AtBegin(n) = SpecOf(n, 0, 0, "Empty", NoChar, "Empty", FALSE, <<>>, FALSE, NoChar)
        BY Zenon DEF AtBegin
      <4>. QED BY <2>3, <3>2, <4>1, <4>2
    <3>4. Goes(p, p, W)
      BY <1>1, <2>1, Stays
    <3>. QED BY <3>1, <3>3, <3>4 DEF W
  <2>5. CASE spec.width # 0 \/ spec.localize
    <3>1. q = [p EXCEPT !.spec.fill = " "]
      BY <1>1, <2>2, <2>5, Zenon DEF VerifyFillAlignTimeField
    <3>. DEFINE s == [p.spec EXCEPT !.fill = " "]
    <3>2. q = [p EXCEPT !.spec = s]
      <4>. HIDE DEF q
      <4>. QED BY <3>1 DEF ParserStates
    <3>3. s \in SpecStates
      <4>1. " " \in Marks
        BY InnerMarks
      <4>. QED BY <1>2, <4>1, SpecUpdates, Zenon
    <3>4. fill = " "
      BY <1>5, <2>5 DEF TimeFillFor
    <3>5. s = TimeAfterFill(n, spec)
      <4>. DEFINE x == p.spec
      <4>1. x = AtBegin(n) /\ s = [x EXCEPT !.fill = " "]
        OBVIOUS
      <4>2. TimeAfterFill(n, spec) = SpecOf(n, 0, 0, "Empty", " ", "Empty", FALSE, <<>>, FALSE, NoChar)
        <5>. HIDE DEF fill, align
        <5>1. TimeAfterFill(n, spec) = SpecOf(n, 0, 0, align, fill, "Empty", FALSE, <<>>, FALSE, NoChar)
          BY Zenon DEF TimeAfterFill, fill, align
        <5>. QED BY <2>3, <3>4, <5>1
      <4>. HIDE DEF x, s
      <4>3. s = SpecOf(n, 0, 0, "Empty", " ", "Empty", FALSE, <<>>, FALSE, NoChar)
        BY <4>1, Zenon DEF AtBegin, SpecOf
      <4>. QED BY <4>2, <4>3
    <3>. HIDE DEF q, s
    <3>6. q.spec = s /\ q \in ParserStates /\ q.sv = p.sv /\ q.pos = p.pos /\ q.mode = p.mode
          /\ q.counter = p.counter /\ q.times = p.times
      BY <3>2, <3>3, Respecified
    <3>7. Goes(p, q, W)
      BY <2>1, <3>6 DEF Goes, Ahead
    <3>. QED BY <3>5, <3>6, <3>7 DEF q, W
  <2>6. (spec.width = 0 /\ ~spec.localize) \/ spec.width # 0 \/ spec.localize
    OBVIOUS
  <2>. QED BY <2>4, <2>5, <2>6
<1>6. CASE spec.align # ""
  <2>. DEFINE f == spec.fill
              a == spec.align
  <2>1. f # "" /\ f \in Marks /\ a \in Marks /\ a \in DOMAIN Aligns
    <3>1. a \in Fixed
      BY <1>4, <1>6 DEF Fixed
    <3>. QED BY <1>3, <1>4, <1>6, <3>1, MarksInclude DEF Char
  <2>2. Ahead(p, <<f>> \o (<<a>> \o W))
    BY <1>1, <1>6, <2>1 DEF Optional
  <2>3. fill = (IF f = ":" THEN " " ELSE f) /\ align = Aligns[a]
    BY <1>6, <2>1 DEF TimeFillFor, TimeAlignFor, FillFor
  <2>4. fill \in Marks /\ align \in Aligned
    <3>1. " " \in Marks
      BY InnerMarks
    <3>2. Aligns[a] \in Aligned
      BY <1>4, <1>6 DEF Aligns, Aligned
    <3>. HIDE DEF fill, align
    <3>. QED BY <2>1, <2>3, <3>1, <3>2
  <2>. DEFINE s == [p.spec EXCEPT !.fill = fill, !.align = align]
  <2>5. s \in SpecStates
    <3>. HIDE DEF fill, align
    <3>. QED BY <1>2, <2>4, SpecUpdates, Zenon
  <2>6. At(p.sv, p.pos) = f /\ At(p.sv, p.pos + 1) = a
        /\ Goes(p, [p EXCEPT !.pos = @ + 2, !.spec = s], W)
    <3>. HIDE DEF f, a, s
    <3>. QED BY <1>1, <2>1, <2>2, <2>5, PassesTwo
  <2>7. q = OnAlign(p, f, Aligns[a])
    BY <1>4, <2>1, <2>6, Zenon DEF VerifyFillAlignTimeField
  <2>8. q = [p EXCEPT !.pos = @ + 2, !.spec = s]
    <3>1. q = AlignedTo(p, f, Aligns[a])
      <4>1. f \notin {"{", "}"} /\ Aligns[a] \in Aligned
        BY <1>4, <2>3, <2>4
      <4>. QED BY <2>7, <4>1, Aligning, Zenon
    <3>2. q = [p EXCEPT !.pos = @ + 2,
          !.spec = [p.spec EXCEPT !.fill = IF f = ":" THEN " " ELSE f, !.align = Aligns[a]]]
      BY <3>1, Zenon DEF AlignedTo
    <3>. HIDE DEF q, align, fill, f, a
    <3>. QED BY <2>3, <3>2
  <2>9. s = TimeAfterFill(n, spec)
    <3>. DEFINE x == p.spec
    <3>1. x = AtBegin(n) /\ s = SpecFilled(x, fill, align)
      BY DEF SpecFilled
    <3>. HIDE DEF x, s
    <3>2. s = SpecOf(n, 0, 0, align, fill, "Empty", FALSE, <<>>, FALSE, NoChar)
      <4>. HIDE DEF fill, align
      <4>. QED BY <3>1, FillChanges DEF AtBegin
    <3>. QED BY <3>2, Zenon DEF TimeAfterFill
  <2>. HIDE DEF q, s
  <2>10. q.counter = p.counter /\ q.spec = s
    BY <2>5, <2>8, SMT DEF ParserStates
  <2>. QED BY <2>6, <2>8, <2>9, <2>10 DEF q, W
<1>. QED BY <1>5, <1>6

\* ArgFormatter::ParseTimeField reads the parts of it in this order.
LEMMA TimeSteps ==
    ASSUME NEW p
    PROVE  LET q == VerifyTimeLocale(VerifyTimePrecisionField(VerifyWidthField(VerifyFillAlignTimeField(p)))) IN
           ParseTimeField(p) = IF Ended(q) THEN q ELSE VerifyTimeSpec(Skip(q, 1))
<1>1. Then(p, VerifyFillAlignTimeField) = VerifyFillAlignTimeField(p)
  BY DEF Then
<1>. DEFINE q1 == VerifyFillAlignTimeField(p)
<1>2. Then(q1, VerifyWidthField) = VerifyWidthField(q1)
  BY DEF Then
<1>. DEFINE q2 == VerifyWidthField(q1)
<1>3. Then(q2, VerifyTimePrecisionField) = VerifyTimePrecisionField(q2)
  BY DEF Then
<1>. DEFINE q3 == VerifyTimePrecisionField(q2)
<1>4. Then(q3, VerifyTimeLocale) = VerifyTimeLocale(q3)
  BY DEF Then
<1>. DEFINE q4 == VerifyTimeLocale(q3)
<1>5. Then(q4, LAMBDA q : IF Ended(q) THEN q ELSE VerifyTimeSpec(Skip(q, 1))) = IF Ended(q4) THEN q4
        ELSE VerifyTimeSpec(Skip(q4, 1))
  BY DEF Then
<1>6. ParseTimeField(p) = Then(Then(Then(Then(Then(p, VerifyFillAlignTimeField), VerifyWidthField),
      VerifyTimePrecisionField), VerifyTimeLocale),
                               LAMBDA q : IF Ended(q) THEN q ELSE VerifyTimeSpec(Skip(q, 1)))
  BY DEF ParseTimeField
<1>. QED BY <1>1, <1>2, <1>3, <1>4, <1>5, <1>6

\* The stage of the width (VerifyWidthField).
LEMMA TimeWidthStep ==
    ASSUME NEW p \in ParserStates, NEW spec, TimeSuits(spec), NEW rest, Ends(rest), NEW n,
           p.spec = TimeAfterFill(n, spec), Ahead(p, WidthTail(spec, rest))
    PROVE  /\ Goes(p, VerifyWidthField(p), PrecisionTail(spec, rest))
              /\ VerifyWidthField(p).counter = p.counter
           /\ VerifyWidthField(p).spec = TimeAfterWidth(n, spec)
<1>1. Short(spec)
  BY DEF TimeSuits
<1>2. p.spec.width = 0
  BY DEF SpecOf, TimeAfterFill
<1>3. /\ Goes(p, VerifyWidthField(p), PrecisionTail(spec, rest))
         /\ VerifyWidthField(p).counter = p.counter
      /\ VerifyWidthField(p).spec = [p.spec EXCEPT !.width = spec.width]
  BY <1>1, <1>2, WidthRead
<1>. DEFINE x == p.spec
            y == VerifyWidthField(p).spec
<1>4. x = TimeAfterFill(n, spec) /\ y = [x EXCEPT !.width = spec.width]
  BY <1>3
<1>. HIDE DEF x, y
<1>5. y = TimeAfterWidth(n, spec)
  BY <1>4, Zenon DEF SpecOf, TimeAfterFill, TimeAfterWidth
<1>. QED BY <1>3, <1>5 DEF y

\* The stage of the precision, of which a time has none
\* (VerifyTimePrecisionField).
LEMMA TimePrecisionStep ==
    ASSUME NEW p \in ParserStates, NEW spec, TimeSuits(spec), NEW rest, Ends(rest),
           Ahead(p, PrecisionTail(spec, rest))
    PROVE  /\ Goes(p, VerifyTimePrecisionField(p), LocaleTail(spec, rest))
              /\ VerifyTimePrecisionField(p) = p
<1>. DEFINE L == LocaleTail(spec, rest)
<1>1. Short(spec) /\ spec.precision = 0
  BY DEF TimeSuits
<1>2. L \in Seq(Marks) /\ L # <<>> /\ L[1] \in EndChars \union {"L"}
  BY <1>1, TailsBegin, InnerMarks, Bigger
<1>3. Ahead(p, <<>> \o L)
  BY <1>1, Zenon DEF PrecisionTail, OptionalIf
<1>. HIDE DEF L
<1>4. Goes(p, p, L)
  BY <1>2, <1>3, Stays
<1>5. At(p.sv, p.pos) = L[1]
  BY <1>2, <1>4, NotEnded DEF Goes
<1>6. L[1] # "."
  BY <1>2 DEF EndChars, TypeSpecs
<1>7. VerifyTimePrecisionField(p) = p
  BY <1>5, <1>6, Zenon DEF VerifyTimePrecisionField
<1>. QED BY <1>4, <1>7 DEF L

\* The stage of L (ArgFormatter::ParseTimeField).
LEMMA TimeLocaleStep ==
    ASSUME NEW p \in ParserStates, NEW spec, TimeSuits(spec), NEW rest, Ends(rest), NEW n,
           p.spec = TimeAfterWidth(n, spec), Ahead(p, LocaleTail(spec, rest))
    PROVE  /\ Goes(p, VerifyTimeLocale(p), rest) /\ VerifyTimeLocale(p).counter = p.counter
           /\ VerifyTimeLocale(p).spec = TimeAfterLocale(n, spec)
<1>. DEFINE q == VerifyTimeLocale(p)
<1>1. spec.localize \in BOOLEAN
  BY DEF TimeSuits, Short, ItemSpecs
<1>2. p.spec \in SpecStates /\ p.spec.localize = FALSE
  <2>1. p.spec \in SpecStates
    BY DEF ParserStates
  <2>2. p.spec.localize = FALSE
    BY DEF SpecOf, TimeAfterWidth
  <2>. QED BY <2>1, <2>2
<1>3. rest \in Seq(Marks) /\ rest # <<>> /\ rest[1] \in EndChars
  BY InnerMarks, Bigger DEF Ends
<1>4. LocaleTail(spec, rest) = OptionalIf(spec.localize, <<"L">>) \o rest
  BY DEF LocaleTail
<1>5. Goes(p, q, rest) /\ q.counter = p.counter /\ q.spec = [p.spec EXCEPT !.localize = spec.localize]
  <2>1. CASE ~spec.localize
    <3>1. Ahead(p, <<>> \o rest)
      BY <1>4, <2>1 DEF OptionalIf
    <3>2. Goes(p, p, rest)
      BY <1>3, <3>1, Stays
    <3>3. At(p.sv, p.pos) = rest[1]
      BY <1>3, <3>2, NotEnded DEF Goes
    <3>4. rest[1] # "L"
      BY <1>3 DEF EndChars, TypeSpecs
    <3>5. q = p
      BY <3>3, <3>4, Zenon DEF VerifyTimeLocale
    <3>6. p.spec = [p.spec EXCEPT !.localize = FALSE]
      BY <1>2, SpecSame, Zenon
    <3>. QED BY <1>1, <2>1, <3>2, <3>5, <3>6
  <2>2. CASE spec.localize
    <3>1. Ahead(p, <<"L">> \o rest) /\ "L" \in Marks
      BY <1>4, <2>2, InnerMarks DEF OptionalIf
    <3>2. ~Ended(p) /\ At(p.sv, p.pos) = "L"
      BY <1>3, <3>1, Begun
    <3>. DEFINE s == [p.spec EXCEPT !.localize = TRUE]
    <3>3. s \in SpecStates
      BY <1>2, SpecUpdates, Zenon
    <3>4. q = [p EXCEPT !.pos = @ + 1, !.spec = s]
      <4>1. q = [Skip(p, 1) EXCEPT !.spec.localize = TRUE]
        BY <3>2, Zenon DEF VerifyTimeLocale
      <4>. HIDE DEF q
      <4>. QED BY <4>1 DEF Skip, ParserStates
    <3>. HIDE DEF s, q
    <3>5. Goes(p, q, rest)
      BY <1>3, <3>1, <3>3, <3>4, PassesOne
    <3>6. q.counter = p.counter /\ q.spec = s
      BY <3>3, <3>4, SMT DEF ParserStates
    <3>. QED BY <1>1, <2>2, <3>5, <3>6 DEF s
  <2>. QED BY <2>1, <2>2
<1>. DEFINE x == p.spec
            y == q.spec
<1>6. x = TimeAfterWidth(n, spec) /\ y = [x EXCEPT !.localize = spec.localize]
  BY <1>5
<1>. HIDE DEF x, y
<1>7. y = TimeAfterLocale(n, spec)
  BY <1>6, Zenon DEF SpecOf, TimeAfterWidth, TimeAfterLocale
<1>. QED BY <1>5, <1>7 DEF y

\* A parser in front of the specifications of a time, behind the first character.
LEMMA TimesBehind ==
    ASSUME NEW p \in ParserStates, NEW times \in Seq(TimeChars), times # <<>>, Ahead(p, TimeTail(times))
    PROVE  TimesAhead(Skip(p, 1).sv, Skip(p, 1).pos, times)
<1>. DEFINE t == TimeTail(times)
            n == Len(times)
            q == Skip(p, 1)
<1>1. t \in Seq(Inner) /\ Len(t) = 2 * n + 1 /\ n \in Nat /\ n >= 1 /\ t[1] = "%" /\ t[2 * n + 1] = "}"
      /\ \A i \in 1 .. n : t[2 * i - 1] = "%" /\ t[2 * i] = times[i]
  BY TimeTailLaid
<1>2. q.sv = p.sv /\ q.pos = p.pos + 1 /\ q.pos \in Nat
  <2>1. q \in ParserStates /\ q.sv = p.sv /\ q.pos = p.pos + 1
    BY Skipped
  <2>. HIDE DEF q
  <2>2. q.pos \in Nat
    BY <2>1 DEF ParserStates
  <2>. QED BY <2>1, <2>2
<1>3. p.pos \in Nat /\ Len(p.sv) = p.pos + Len(t) /\ \A i \in 1 .. Len(t) : p.sv[p.pos + i] = t[i]
  BY DEF Ahead
<1>. DEFINE text == p.sv
            pos == p.pos
<1>4. pos \in Nat /\ Len(text) = pos + (2 * n + 1) /\ \A i \in 1 .. 2 * n + 1 : text[pos + i] = t[i]
  BY <1>1, <1>3
<1>. HIDE DEF t, q, text, pos, n
<1>0. pos \in Nat /\ n \in Nat /\ n >= 1 /\ Len(text) = pos + (2 * n + 1)
  BY <1>1, <1>4
<1>5. Len(text) = (pos + 1) + 2 * n
  BY <1>0
<1>6. ASSUME NEW i \in 1 .. n PROVE text[(pos + 1) + 2 * i - 1] = times[i]
  <2>1. 2 * i \in 1 .. 2 * n + 1 /\ (pos + 1) + 2 * i - 1 = pos + 2 * i
    BY <1>0
  <2>. QED BY <1>1, <1>4, <2>1
<1>7. ASSUME NEW i \in 1 .. n - 1 PROVE text[(pos + 1) + 2 * i] = "%"
  <2>1. 2 * i + 1 \in 1 .. 2 * n + 1 /\ (pos + 1) + 2 * i = pos + (2 * i + 1) /\ i + 1 \in 1 .. n
        /\ 2 * (i + 1) - 1 = 2 * i + 1
    BY <1>0
  <2>2. t[2 * (i + 1) - 1] = "%"
    BY <1>1, <2>1
  <2>. QED BY <1>4, <2>1, <2>2
<1>8. text[(pos + 1) + 2 * n] = "}"
  <2>1. 2 * n + 1 \in 1 .. 2 * n + 1 /\ (pos + 1) + 2 * n = pos + (2 * n + 1)
    BY <1>0
  <2>. QED BY <1>1, <1>4, <2>1
<1>9. q.sv = text /\ q.pos = pos + 1 /\ pos + 1 \in Nat
  BY <1>2, <1>4 DEF text, pos
<1>10. TimesAhead(text, pos + 1, times)
  BY <1>5, <1>6, <1>7, <1>8, <1>9 DEF TimesAhead, n
<1>. QED BY <1>9, <1>10 DEF q

\* A specification of a time is read as it was written (ArgFormatter::ParseTimeField).
LEMMA TimeSpecRead ==
    ASSUME NEW p \in ParserStates, NEW n, p.spec = AtBegin(n), NEW spec, TimeSuits(spec),
           Ahead(p, FillTail(spec, TimeTail(spec.times)))
    PROVE  /\ ParseTimeField(p).error = NoError /\ ParseTimeField(p).mode = p.mode
              /\ ParseTimeField(p).counter = p.counter
           /\ ParseTimeField(p).spec = TimeAfterLocale(n, spec)
              /\ ParseTimeField(p).times = TimesRead(spec.times)
<1>. DEFINE rest == TimeTail(spec.times)
            q1 == VerifyFillAlignTimeField(p)
            q2 == VerifyWidthField(q1)
            q3 == VerifyTimePrecisionField(q2)
            q4 == VerifyTimeLocale(q3)
            q5 == Skip(q4, 1)
            q6 == VerifyTimeSpec(q5)
<1>1. TimeSpecBegins(spec, rest) /\ Ends(rest) /\ rest # <<>>
  BY TimeBegins DEF TimeSpecBegins, Ends
<1>2. spec.times \in Seq(TimeChars) /\ spec.times # <<>> /\ Len(spec.times) <= MaxTimeSpecs
  <2>1. spec.times \in Seq(STRING) /\ \A i \in 1 .. Len(spec.times) : spec.times[i] \in TimeChars
    BY DEF TimeSuits, Short, ItemSpecs
  <2>2. spec.times \in Seq(TimeChars)
    BY <2>1, Retyped
  <2>. QED BY <2>2 DEF TimeSuits
<1>. HIDE DEF rest
<1>3. Ahead(p, FillTail(spec, rest))
  BY DEF rest
<1>4. Goes(p, q1, WidthTail(spec, rest)) /\ q1.counter = p.counter /\ q1.spec = TimeAfterFill(n, spec)
  BY <1>1, <1>3, TimeFillRead
<1>. HIDE DEF q1
<1>5. Goes(q1, q2, PrecisionTail(spec, rest)) /\ q2.counter = q1.counter
      /\ q2.spec = TimeAfterWidth(n, spec)
  <2>1. q1 \in ParserStates /\ Ahead(q1, WidthTail(spec, rest))
    BY <1>4 DEF Goes
  <2>. QED BY <1>1, <1>4, <2>1, TimeWidthStep
<1>. HIDE DEF q2
<1>6. Goes(q2, q3, LocaleTail(spec, rest)) /\ q3 = q2
  <2>1. q2 \in ParserStates /\ Ahead(q2, PrecisionTail(spec, rest))
    BY <1>5 DEF Goes
  <2>. QED BY <1>1, <2>1, TimePrecisionStep
<1>. HIDE DEF q3
<1>7. Goes(q3, q4, rest) /\ q4.counter = q3.counter /\ q4.spec = TimeAfterLocale(n, spec)
  <2>1. q3 \in ParserStates /\ Ahead(q3, LocaleTail(spec, rest)) /\ q3.spec = TimeAfterWidth(n, spec)
    BY <1>5, <1>6 DEF Goes
  <2>. QED BY <1>1, <2>1, TimeLocaleStep
<1>. HIDE DEF q4
<1>8. q4 \in ParserStates /\ Ahead(q4, rest)
  BY <1>7 DEF Goes
<1>9. ~Ended(q4)
  BY <1>1, <1>8, NotEnded
<1>10. TimesAhead(q5.sv, q5.pos, spec.times)
  BY <1>2, <1>8, TimesBehind DEF rest
<1>11. q5 \in ParserStates /\ q5.mode = q4.mode /\ q5.counter = q4.counter /\ q5.spec = q4.spec
  BY <1>8, Skipped
<1>. HIDE DEF q5
<1>12. TimesEnded(q6, q5, spec.times)
  BY <1>2, <1>10, <1>11, TimesVerified
<1>13. q6 = ParseTimeField(p)
  BY <1>9, TimeSteps DEF q1, q2, q3, q4, q5
<1>. HIDE DEF q6
<1>14. q6.error = NoError /\ q6.mode = q5.mode /\ q6.counter = q5.counter /\ q6.spec = q5.spec
       /\ q6.times = TimesRead(spec.times)
  BY <1>12 DEF TimesEnded
<1>15. q6.mode = p.mode /\ q6.counter = p.counter /\ q6.spec = TimeAfterLocale(n, spec)
  BY <1>4, <1>5, <1>6, <1>7, <1>11, <1>14 DEF Goes
<1>. QED BY <1>13, <1>14, <1>15

------------------------------------------------------------------------------
(****************************************************************************)
(* What is left of a format string behind each of its items.                *)
(****************************************************************************)

\* What is left of a format string behind each of its items.
RenderedItems(items) == [i \in 1 .. Len(items) |-> RenderItem(items[i])]

IsSuffixes(r, texts) ==
    /\ r \in [0 .. Len(texts) -> Seq(Marks)] /\ r[0] = FlattenSeq(texts) /\ r[Len(texts)] = <<>>
    /\ \A k \in 1 .. Len(texts) : r[k - 1] = texts[k] \o r[k]

RestOf(items, k) == (CHOOSE r : IsSuffixes(r, RenderedItems(items)))[k]

\* Texts one after the other, text by text from the front.
LEMMA FlattenedPrefixes ==
    ASSUME NEW texts \in Seq(Seq(Marks))
    PROVE  \E g \in [0 .. Len(texts) -> Seq(Marks)] :
              /\ g[0] = <<>> /\ g[Len(texts)] = FlattenSeq(texts)
              /\ \A k \in 1 .. Len(texts) : g[k] = g[k - 1] \o texts[k]
BY Flattened

\* Texts put together in either order, and with nothing.
LEMMA MarkAssoc ==
    ASSUME NEW a \in Seq(Marks), NEW b \in Seq(Marks), NEW c \in Seq(Marks)
    PROVE  (a \o b) \o c = a \o (b \o c) /\ a \o b \in Seq(Marks) /\ a \o <<>> = a /\ <<>> \o a = a
<1>1. (a \o b) \o c = a \o (b \o c)
  BY ConcatAssoc
<1>2. a \o b \in Seq(Marks) /\ a \o <<>> = a /\ <<>> \o a = a
  OBVIOUS
<1>. QED BY <1>1, <1>2

\* What follows the same text is the same.
LEMMA MarkCancel ==
    ASSUME NEW a \in Seq(Marks), NEW b \in Seq(Marks), NEW c \in Seq(Marks), a \o b = a \o c
    PROVE  b = c
BY Cancel

\* Texts one after the other, text by text from the back: what is left behind
\* each of them.
LEMMA SuffixesExist ==
    ASSUME NEW texts \in Seq(Seq(Marks))
    PROVE  \E r : IsSuffixes(r, texts)
<1>. DEFINE n == Len(texts)
            all == FlattenSeq(texts)
<1>1. n \in Nat /\ all \in Seq(Marks) /\ \A k \in 1 .. n : texts[k] \in Seq(Marks)
  BY FlattenedMarks
<1>2. PICK g \in [0 .. n -> Seq(Marks)] : g[0] = <<>> /\ g[n] = all
      /\ \A k \in 1 .. n : g[k] = g[k - 1] \o texts[k]
  BY FlattenedPrefixes
<1>. HIDE DEF n, all
<1>. DEFINE Followed(k) == \E s \in Seq(Marks) : g[k] \o s = all
            Reached == {j \in 0 .. n : Followed(n - j)}
            r == [k \in 0 .. n |-> CHOOSE s \in Seq(Marks) : g[k] \o s = all]
<1>3. 0 \in Reached
  <2>1. g[n] \o <<>> = all /\ <<>> \in Seq(Marks)
    BY <1>1, <1>2, MarkAssoc
  <2>2. n - 0 = n /\ 0 \in 0 .. n
    BY <1>1
  <2>3. Followed(n - 0)
    BY <2>1, <2>2
  <2>. HIDE DEF Followed
  <2>. QED BY <2>2, <2>3
<1>4. ASSUME NEW j \in 0 .. n - 1, j \in Reached PROVE j + 1 \in Reached
  <2>. DEFINE k == n - j
  <2>1. k \in 1 .. n /\ k - 1 \in 0 .. n /\ k \in 0 .. n /\ n - (j + 1) = k - 1 /\ j + 1 \in 0 .. n
    BY <1>1
  <2>2. PICK s \in Seq(Marks) : g[k] \o s = all
    BY <1>4
  <2>. HIDE DEF k
  <2>3. g[k] = g[k - 1] \o texts[k] /\ g[k - 1] \in Seq(Marks) /\ texts[k] \in Seq(Marks)
    BY <1>1, <1>2, <2>1
  <2>. DEFINE u == texts[k] \o s
              a == g[k - 1]
              b == texts[k]
  <2>4. (a \o b) \o s = a \o (b \o s) /\ b \o s \in Seq(Marks)
    <3>1. a \in Seq(Marks) /\ b \in Seq(Marks)
      BY <2>3
    <3>. HIDE DEF a, b
    <3>. QED BY <3>1, MarkAssoc
  <2>5. g[k - 1] \o u = all /\ u \in Seq(Marks)
    BY <2>2, <2>3, <2>4
  <2>. HIDE DEF u
  <2>6. Followed(k - 1)
    BY <2>5
  <2>. HIDE DEF Followed
  <2>. QED BY <2>1, <2>6
<1>5. \A k \in 0 .. n : Followed(k)
  <2>. HIDE DEF Followed
  <2>1. \A j \in 0 .. n : j \in Reached
    <3>. HIDE DEF Reached
    <3>. QED BY <1>1, <1>3, <1>4, InductionUpTo
  <2>2. ASSUME NEW k \in 0 .. n PROVE Followed(k)
    <3>1. n - k \in 0 .. n /\ n - (n - k) = k
      BY <1>1
    <3>2. Followed(n - (n - k))
      BY <2>1, <3>1
    <3>. QED BY <3>1, <3>2
  <2>. QED BY <2>2
<1>6. \A k \in 0 .. n : r[k] \in Seq(Marks) /\ g[k] \o r[k] = all
  <2>1. ASSUME NEW k \in 0 .. n PROVE r[k] \in Seq(Marks) /\ g[k] \o r[k] = all
    <3>1. r[k] = CHOOSE s \in Seq(Marks) : g[k] \o s = all
      OBVIOUS
    <3>. HIDE DEF r
    <3>. QED BY <1>5, <3>1
  <2>. QED BY <2>1
<1>7. r \in [0 .. n -> Seq(Marks)]
  <2>1. \A k \in 0 .. n : (CHOOSE s \in Seq(Marks) : g[k] \o s = all) \in Seq(Marks)
    BY <1>5, Zenon
  <2>. QED BY <2>1, Zenon
<1>. HIDE DEF r
<1>9. r[0] = all /\ r[n] = <<>>
  <2>1. 0 \in 0 .. n /\ n \in 0 .. n
    BY <1>1
  <2>2. <<>> \o r[0] = all /\ r[0] \in Seq(Marks)
    BY <1>2, <1>6, <2>1
  <2>3. all \o r[n] = all /\ r[n] \in Seq(Marks)
    BY <1>2, <1>6, <2>1
  <2>4. all \o <<>> = all /\ <<>> \in Seq(Marks)
    BY <1>1, MarkAssoc
  <2>5. r[n] = <<>>
    BY <1>1, <2>3, <2>4, MarkCancel
  <2>. QED BY <2>2, <2>5, MarkAssoc
<1>10. ASSUME NEW k \in 1 .. n PROVE r[k - 1] = texts[k] \o r[k]
  <2>1. k - 1 \in 0 .. n /\ k \in 0 .. n
    BY <1>1
  <2>2. g[k - 1] \o r[k - 1] = all /\ g[k] \o r[k] = all /\ g[k] = g[k - 1] \o texts[k]
        /\ g[k - 1] \in Seq(Marks) /\ texts[k] \in Seq(Marks) /\ r[k] \in Seq(Marks)
           /\ r[k - 1] \in Seq(Marks)
    BY <1>1, <1>2, <1>6, <2>1
  <2>. DEFINE a == g[k - 1]
              b == texts[k]
              c == r[k]
              d == r[k - 1]
  <2>3. a \in Seq(Marks) /\ b \in Seq(Marks) /\ c \in Seq(Marks) /\ d \in Seq(Marks) /\ a \o d = all
        /\ (a \o b) \o c = all
    BY <2>2
  <2>. HIDE DEF a, b, c, d
  <2>4. (a \o b) \o c = a \o (b \o c) /\ b \o c \in Seq(Marks)
    <3>1. a \in Seq(Marks) /\ b \in Seq(Marks) /\ c \in Seq(Marks)
      BY <2>3
    <3>2. (a \o b) \o c = a \o (b \o c)
      BY <3>1, MarkAssoc
    <3>3. b \o c \in Seq(Marks)
      BY <3>1, MarkAssoc
    <3>. QED BY <3>2, <3>3
  <2>5. d = b \o c
    <3>1. a \o d = a \o (b \o c)
      BY <2>3, <2>4
    <3>. QED BY <2>3, <2>4, <3>1, MarkCancel
  <2>. QED BY <2>5 DEF b, c, d
<1>11. IsSuffixes(r, texts)
  BY <1>7, <1>9, <1>10 DEF IsSuffixes, n, all
<1>. QED BY <1>11

\* The rest behind the first k items.
LEMMA RestsOf ==
    ASSUME NEW items \in Seq(Items)
    PROVE  /\ \A k \in 0 .. Len(items) : RestOf(items, k) \in Seq(Marks)
           /\ RestOf(items, 0) = Render(items) /\ RestOf(items, Len(items)) = <<>>
           /\ \A k \in 1 .. Len(items) : RestOf(items, k - 1) = RenderItem(items[k]) \o RestOf(items, k)
<1>. DEFINE texts == RenderedItems(items)
            r == CHOOSE r : IsSuffixes(r, texts)
<1>1. texts \in Seq(Seq(Marks))
  BY Rendered DEF RenderedItems
<1>2. Len(texts) = Len(items) /\ \A k \in 1 .. Len(items) : texts[k] = RenderItem(items[k])
  BY DEF RenderedItems
<1>3. Render(items) = FlattenSeq(texts)
  BY Zenon DEF Render, RenderedItems
<1>. HIDE DEF texts
<1>4. IsSuffixes(r, texts)
  BY <1>1, SuffixesExist
<1>5. \A k : RestOf(items, k) = r[k]
  BY Zenon DEF RestOf, texts
<1>. HIDE DEF r
<1>6. /\ r \in [0 .. Len(items) -> Seq(Marks)] /\ r[0] = FlattenSeq(texts) /\ r[Len(items)] = <<>>
      /\ \A k \in 1 .. Len(items) : r[k - 1] = texts[k] \o r[k]
  BY <1>2, <1>4 DEF IsSuffixes
<1>. QED BY <1>2, <1>3, <1>5, <1>6

------------------------------------------------------------------------------
(****************************************************************************)
(* The brackets of the first field are found, and taken off.                *)
(****************************************************************************)

\* The characters that are no brackets.
Unbracketed == Marks \ {"{", "}"}

\* A text with a field in it: what is in front of it, inside and behind.
FieldLaid(s, L, I, R) ==
    /\ s \in Seq(Marks) /\ L \in Seq(Unbracketed) /\ I \in Seq(Unbracketed) /\ R \in Seq(Marks)
    /\ Len(s) = Len(L) + 2 + Len(I) + Len(R)
    /\ \A i \in 1 .. Len(L) : s[i] = L[i]
    /\ s[Len(L) + 1] = "{"
    /\ \A i \in 1 .. Len(I) : s[Len(L) + 1 + i] = I[i]
    /\ s[Len(L) + 2 + Len(I)] = "}"
    /\ \A i \in 1 .. Len(R) : s[Len(L) + 2 + Len(I) + i] = R[i]

\* A text behind another one, character by character.
LaidBehind(s, a, b) ==
    /\ s \in Seq(Marks) /\ Len(s) = Len(a) + Len(b) /\ Len(a) \in Nat /\ Len(b) \in Nat
    /\ \A i \in 1 .. Len(a) : s[i] = a[i]
    /\ \A i \in 1 .. Len(b) : s[Len(a) + i] = b[i]

\* Two texts put together, by their characters.
LEMMA Laid ==
    ASSUME NEW a \in Seq(Marks), NEW b \in Seq(Marks)
    PROVE  LaidBehind(a \o b, a, b)
<1>1. a \o b \in Seq(Marks) /\ Len(a \o b) = Len(a) + Len(b) /\ Len(a) \in Nat /\ Len(b) \in Nat
  OBVIOUS
<1>2. \A i \in 1 .. Len(a) : (a \o b)[i] = a[i]
  OBVIOUS
<1>3. \A i \in 1 .. Len(b) : (a \o b)[Len(a) + i] = b[i]
  OBVIOUS
<1>. QED BY <1>1, <1>2, <1>3 DEF LaidBehind

\* The brackets are marks.
LEMMA BracketMarks == "{" \in Marks /\ "}" \in Marks /\ Unbracketed \subseteq Marks
<1>1. "{" \in Fixed /\ "}" \in Fixed
  BY DEF Fixed
<1>. QED BY <1>1, MarksInclude DEF Unbracketed

\* A text without brackets is a text.
LEMMA UnbracketedMarks ==
    ASSUME NEW t \in Seq(Unbracketed) PROVE t \in Seq(Marks)
BY BracketMarks, Bigger

\* A text of one character.
LEMMA OneLong ==
    ASSUME NEW x \in Marks PROVE <<x>> \in Seq(Marks) /\ Len(<<x>>) = 1 /\ <<x>>[1] = x
OBVIOUS

\* A text, the inside of a field between brackets, and the rest.
LEMMA FieldIsLaid ==
    ASSUME NEW L \in Seq(Unbracketed), NEW I \in Seq(Unbracketed), NEW R \in Seq(Marks)
    PROVE  FieldLaid(L \o (<<"{">> \o (I \o (<<"}">> \o R))), L, I, R)
<1>. DEFINE o == <<"{">>
            c == <<"}">>
            d == c \o R
            e == I \o d
            f == o \o e
            s == L \o f
<1>1. L \in Seq(Marks) /\ I \in Seq(Marks)
  BY UnbracketedMarks
<1>2. o \in Seq(Marks) /\ Len(o) = 1 /\ o[1] = "{" /\ c \in Seq(Marks) /\ Len(c) = 1 /\ c[1] = "}"
  BY BracketMarks, OneLong
<1>. HIDE DEF o, c
<1>3. LaidBehind(d, c, R)
  BY <1>2, Laid
<1>4. d \in Seq(Marks)
  BY <1>3 DEF LaidBehind
<1>. HIDE DEF d
<1>5. LaidBehind(e, I, d)
  BY <1>1, <1>4, Laid
<1>6. e \in Seq(Marks)
  BY <1>5 DEF LaidBehind
<1>. HIDE DEF e
<1>7. LaidBehind(f, o, e)
  BY <1>2, <1>6, Laid
<1>8. f \in Seq(Marks)
  BY <1>7 DEF LaidBehind
<1>. HIDE DEF f
<1>9. LaidBehind(s, L, f)
  BY <1>1, <1>8, Laid
<1>. HIDE DEF s
<1>10. /\ Len(R) \in Nat /\ Len(I) \in Nat /\ Len(L) \in Nat /\ s \in Seq(Marks)
       /\ Len(d) = 1 + Len(R) /\ Len(e) = Len(I) + Len(d) /\ Len(f) = 1 + Len(e)
          /\ Len(s) = Len(L) + Len(f)
  BY <1>2, <1>3, <1>5, <1>7, <1>9 DEF LaidBehind
<1>11. \A i \in 1 .. Len(L) : s[i] = L[i]
  BY <1>9 DEF LaidBehind
<1>12. s[Len(L) + 1] = "{"
  <2>1. 1 \in 1 .. Len(f) /\ 1 \in 1 .. Len(o)
    <3>1. Len(o) = 1 /\ Len(f) = 1 + Len(e) /\ Len(e) = Len(I) + Len(d) /\ Len(d) = 1 + Len(R)
          /\ Len(I) \in Nat /\ Len(R) \in Nat
      BY <1>2, <1>10, Zenon
    <3>. HIDE DEF f, e, d, o
    <3>. QED BY <3>1
  <2>2. s[Len(L) + 1] = f[1] /\ f[1] = o[1]
    BY <1>7, <1>9, <2>1 DEF LaidBehind
  <2>. QED BY <1>2, <2>2
<1>13. ASSUME NEW i \in 1 .. Len(e) PROVE s[Len(L) + 1 + i] = e[i]
  <2>1. 1 + i \in 1 .. Len(f) /\ Len(L) + (1 + i) = Len(L) + 1 + i
    BY <1>10
  <2>2. s[Len(L) + (1 + i)] = f[1 + i]
    BY <1>9, <2>1 DEF LaidBehind
  <2>3. f[1 + i] = e[i]
    BY <1>2, <1>7 DEF LaidBehind
  <2>. QED BY <2>1, <2>2, <2>3
<1>14. \A i \in 1 .. Len(I) : s[Len(L) + 1 + i] = I[i]
  <2>1. \A i \in 1 .. Len(I) : i \in 1 .. Len(e)
    BY <1>10
  <2>2. \A i \in 1 .. Len(I) : e[i] = I[i]
    BY <1>5 DEF LaidBehind
  <2>. QED BY <1>13, <2>1, <2>2
<1>15. ASSUME NEW i \in 1 .. Len(d) PROVE s[Len(L) + 1 + Len(I) + i] = d[i]
  <2>1. Len(I) + i \in 1 .. Len(e) /\ Len(L) + 1 + (Len(I) + i) = Len(L) + 1 + Len(I) + i
    BY <1>10
  <2>2. e[Len(I) + i] = d[i]
    BY <1>5 DEF LaidBehind
  <2>3. s[Len(L) + 1 + (Len(I) + i)] = e[Len(I) + i]
    BY <1>13, <2>1
  <2>. QED BY <2>1, <2>2, <2>3
<1>16. s[Len(L) + 2 + Len(I)] = "}"
  <2>1. 1 \in 1 .. Len(d) /\ 1 \in 1 .. Len(c) /\ Len(L) + 1 + Len(I) + 1 = Len(L) + 2 + Len(I)
    <3>1. Len(c) = 1 /\ Len(d) = 1 + Len(R) /\ Len(I) \in Nat /\ Len(R) \in Nat /\ Len(L) \in Nat
      BY <1>2, <1>10, Zenon
    <3>. QED BY <3>1
  <2>2. d[1] = c[1]
    BY <1>3, <2>1 DEF LaidBehind
  <2>. QED BY <1>2, <1>15, <2>1, <2>2
<1>17. ASSUME NEW i \in 1 .. Len(R) PROVE s[Len(L) + 2 + Len(I) + i] = R[i]
  <2>1. 1 + i \in 1 .. Len(d) /\ Len(L) + 1 + Len(I) + (1 + i) = Len(L) + 2 + Len(I) + i
    BY <1>10
  <2>2. d[1 + i] = R[i]
    BY <1>2, <1>3 DEF LaidBehind
  <2>. QED BY <1>15, <2>1, <2>2
<1>18. Len(s) = Len(L) + 2 + Len(I) + Len(R)
  BY <1>10
<1>19. FieldLaid(s, L, I, R)
  BY <1>10, <1>11, <1>12, <1>14, <1>16, <1>17, <1>18 DEF FieldLaid
<1>. QED BY <1>19 DEF s, f, e, d, c, o

\* The length and the characters of a text.
LEMMA MarkLength ==
    ASSUME NEW t \in Seq(Marks) PROVE Len(t) \in Nat /\ \A i \in 1 .. Len(t) : t[i] \in Marks
OBVIOUS

\* The same for one without brackets.
LEMMA UnbracketedLength ==
    ASSUME NEW t \in Seq(Unbracketed) PROVE Len(t) \in Nat
           /\ \A i \in 1 .. Len(t) : t[i] \in Unbracketed
OBVIOUS

\* The lengths of the parts around a field.
LEMMA LaidLengths ==
    ASSUME NEW s, NEW L, NEW I, NEW R, FieldLaid(s, L, I, R)
    PROVE  Len(L) \in Nat /\ Len(I) \in Nat /\ Len(R) \in Nat /\ Len(s) = Len(L) + 2 + Len(I) + Len(R)
<1>1. L \in Seq(Unbracketed) /\ I \in Seq(Unbracketed) /\ R \in Seq(Marks)
      /\ Len(s) = Len(L) + 2 + Len(I) + Len(R)
  BY Zenon DEF FieldLaid
<1>. QED BY <1>1, MarkLength, UnbracketedLength, Zenon

\* Where its brackets stand.
LEMMA LaidBrackets ==
    ASSUME NEW s, NEW L, NEW I, NEW R, FieldLaid(s, L, I, R)
    PROVE  s[Len(L) + 1] = "{" /\ s[Len(L) + 2 + Len(I)] = "}"
BY Zenon DEF FieldLaid

\* There is no bracket in front of it.
LEMMA LaidFront ==
    ASSUME NEW s, NEW L, NEW I, NEW R, FieldLaid(s, L, I, R), NEW i \in 1 .. Len(L)
    PROVE  s[i] \in Unbracketed
<1>1. L \in Seq(Unbracketed) /\ s[i] = L[i]
  BY Zenon DEF FieldLaid
<1>. QED BY <1>1, UnbracketedLength, Zenon

\* There is none inside.
LEMMA LaidInside ==
    ASSUME NEW s, NEW L, NEW I, NEW R, FieldLaid(s, L, I, R), NEW i \in 1 .. Len(I)
    PROVE  s[Len(L) + 1 + i] \in Unbracketed
<1>1. I \in Seq(Unbracketed) /\ s[Len(L) + 1 + i] = I[i]
  BY Zenon DEF FieldLaid
<1>. QED BY <1>1, UnbracketedLength, Zenon

\* A text whose first brackets are an opening one and a closing one.
Bracketed(s, b, e) ==
    /\ b < e /\ e < Len(s) /\ At(s, b) = "{" /\ At(s, e) = "}"
    /\ \A i \in 0 .. Len(s) - 1 : i < b \/ (b < i /\ i < e) => At(s, i) \notin {"{", "}"}

\* The brackets of the field are the first ones of the text.
LEMMA LaidBracketed ==
    ASSUME NEW s, NEW L, NEW I, NEW R, FieldLaid(s, L, I, R), NEW b \in Nat, NEW e \in Nat,
           NEW n \in Nat,
           b = Len(L), e = Len(L) + 1 + Len(I), n = Len(s)
    PROVE  Bracketed(s, b, e)
<1>. DEFINE m == Len(I)
            r == Len(R)
<1>1. m \in Nat /\ r \in Nat /\ n = b + 2 + m + r
  BY LaidLengths
<1>. HIDE DEF m, r
<1>2. e = b + 1 + m
  BY DEF m
<1>3. b < e /\ e < n /\ b < n /\ e + 1 = b + 2 + m
  BY <1>1, <1>2
<1>4. s[b + 1] = "{" /\ s[b + 2 + m] = "}"
  BY LaidBrackets DEF m
<1>5. At(s, b) = "{" /\ At(s, e) = "}"
  BY <1>3, <1>4, Zenon DEF At
<1>6. ASSUME NEW i \in 0 .. n - 1, i < b PROVE At(s, i) \notin {"{", "}"}
  <2>1. i + 1 \in 1 .. b /\ i < n
    BY <1>6
  <2>2. s[i + 1] \in Unbracketed
    BY <2>1, LaidFront
  <2>3. At(s, i) = s[i + 1]
    BY <2>1, Zenon DEF At
  <2>. QED BY <2>2, <2>3, Zenon DEF Unbracketed
<1>7. ASSUME NEW i \in 0 .. n - 1, b < i, i < e PROVE At(s, i) \notin {"{", "}"}
  <2>1. i - b \in 1 .. m /\ b + 1 + (i - b) = i + 1 /\ i < n
    BY <1>1, <1>2, <1>7
  <2>2. s[b + 1 + (i - b)] \in Unbracketed
    BY <2>1, LaidInside DEF m
  <2>3. At(s, i) = s[i + 1]
    BY <2>1, Zenon DEF At
  <2>. QED BY <2>1, <2>2, <2>3, Zenon DEF Unbracketed
<1>. QED BY <1>3, <1>5, <1>6, <1>7 DEF Bracketed

\* The smallest of a set of numbers.
LEMMA MinIs ==
    ASSUME NEW S \in SUBSET Nat, NEW m \in S, \A x \in S : m <= x
    PROVE  Min(S) = m
<1>1. \A x \in S : (\A y \in S : x <= y) => x = m
  OBVIOUS
<1>2. \E x \in S : \A y \in S : x <= y
  OBVIOUS
<1>. QED BY <1>1, <1>2, Zenon DEF Min

\* The brackets of the first field, and nothing else, are found.
LEMMA FieldFound ==
    ASSUME NEW s, NEW b \in Nat, NEW e \in Nat, NEW n \in Nat, n = Len(s), Bracketed(s, b, e)
    PROVE  FindBrackets(s) = [begin |-> b, end |-> e]
<1>. DEFINE at(chars, from) == {i \in from .. Len(s) - 1 : At(s, i) \in chars}
            begin == Min(at({"{"}, 0))
            next == Min(at({"{", "}"}, begin + 1))
            closing == Min(at({"}"}, next + 1))
            end == Min(at({"}"}, closing + 1))
<1>0. FindBrackets(s) = CASE at({"{"}, 0) = {} -> NoBrackets
                [] at({"{"}, 0) # {} /\ at({"{", "}"}, begin + 1) = {} -> Unclosed
                [] OTHER ->
                     IF At(s, next) = "}" THEN [begin |-> begin, end |-> next]
                     ELSE IF at({"}"}, next + 1) = {} \/ at({"}"}, closing + 1) = {} THEN Unclosed
                          ELSE [begin |-> begin, end |-> end]
  BY DEF FindBrackets
<1>1. At(s, b) = "{" /\ At(s, e) = "}"
  BY Zenon DEF Bracketed
<1>9. b < e /\ e < n
  BY Zenon DEF Bracketed
<1>2. ASSUME NEW i \in 0 .. n - 1, i < b \/ (b < i /\ i < e) PROVE At(s, i) \notin {"{", "}"}
  BY <1>2, Zenon DEF Bracketed
<1>3. ASSUME NEW chars, NEW from \in Nat, NEW m \in from .. n - 1, At(s, m) \in chars,
             \A i \in from .. n - 1 : i < m => At(s, i) \notin chars
      PROVE  at(chars, from) # {} /\ Min(at(chars, from)) = m
  <2>1. m \in at(chars, from)
    BY <1>3, Zenon
  <2>2. at(chars, from) \subseteq from .. n - 1 /\ \A i \in at(chars, from) : At(s, i) \in chars
    BY Zenon
  <2>. HIDE DEF at
  <2>3. from .. n - 1 \subseteq Nat
    OBVIOUS
  <2>4. \A i \in at(chars, from) : m <= i
    <3>1. \A i \in at(chars, from) : i \in from .. n - 1 /\ ~(i < m)
      BY <1>3, <2>2, Zenon
    <3>. QED BY <3>1
  <2>. QED BY <2>1, <2>2, <2>3, <2>4, MinIs
<1>. HIDE DEF at
<1>5. at({"{"}, 0) # {} /\ begin = b
  <2>1. b \in 0 .. n - 1 /\ 0 \in Nat
    BY <1>9
  <2>2. \A i \in 0 .. n - 1 : i < b => At(s, i) \notin {"{"}
    BY <1>2
  <2>. QED BY <1>1, <1>3, <2>1, <2>2
<1>6. at({"{", "}"}, b + 1) # {} /\ Min(at({"{", "}"}, b + 1)) = e
  <2>1. e \in b + 1 .. n - 1 /\ b + 1 \in Nat
    BY <1>9
  <2>2. ASSUME NEW i \in b + 1 .. n - 1, i < e PROVE At(s, i) \notin {"{", "}"}
    <3>1. i \in 0 .. n - 1 /\ b < i
      OBVIOUS
    <3>. QED BY <1>2, <2>2, <3>1
  <2>3. At(s, e) \in {"{", "}"}
    BY <1>1
  <2>. QED BY <1>3, <2>1, <2>2, <2>3
<1>7. next = e /\ at({"{", "}"}, begin + 1) # {}
  BY <1>5, <1>6
<1>. HIDE DEF begin, next, closing, end
<1>8. FindBrackets(s) = [begin |-> begin, end |-> next]
  BY <1>0, <1>1, <1>5, <1>7, Zenon
<1>. QED BY <1>5, <1>7, <1>8

\* Without a bracket there is nothing to find.
LEMMA NoneFound ==
    ASSUME NEW s \in Seq(Unbracketed)
    PROVE  FindBrackets(s) = NoBrackets
<1>. DEFINE at(chars, from) == {i \in from .. Len(s) - 1 : At(s, i) \in chars}
<1>1. ASSUME NEW i \in 0 .. Len(s) - 1 PROVE At(s, i) \notin {"{"}
  <2>1. i + 1 \in 1 .. Len(s) /\ i < Len(s)
    OBVIOUS
  <2>2. s[i + 1] \in Unbracketed /\ At(s, i) = s[i + 1]
    BY <2>1 DEF At
  <2>. QED BY <2>2 DEF Unbracketed
<1>2. at({"{"}, 0) = {}
  BY <1>1
<1>. HIDE DEF at
<1>. QED BY <1>2, Zenon DEF FindBrackets, at

\* A part of a text, by its characters (remove_prefix, substr).
LEMMA Part ==
    ASSUME NEW s \in Seq(Marks), NEW m \in 1 .. Len(s) + 1, NEW n \in m - 1 .. Len(s)
    PROVE  /\ SubSeq(s, m, n) \in Seq(Marks) /\ Len(SubSeq(s, m, n)) = n - m + 1
           /\ \A i \in 1 .. n - m + 1 : SubSeq(s, m, n)[i] = s[m - 1 + i]
OBVIOUS

\* Two texts with the same characters are the same.
LEMMA SameMarks ==
    ASSUME NEW s \in Seq(Marks), NEW t \in Seq(Marks), Len(s) = Len(t),
           \A i \in 1 .. Len(s) : s[i] = t[i]
    PROVE  s = t
BY SameText

\* The parts around a field are texts.
LEMMA LaidText ==
    ASSUME NEW s, NEW L, NEW I, NEW R, FieldLaid(s, L, I, R)
    PROVE  s \in Seq(Marks) /\ L \in Seq(Marks) /\ I \in Seq(Marks) /\ R \in Seq(Marks)
<1>1. s \in Seq(Marks) /\ L \in Seq(Unbracketed) /\ I \in Seq(Unbracketed) /\ R \in Seq(Marks)
  BY Zenon DEF FieldLaid
<1>. QED BY <1>1, UnbracketedMarks

\* The characters of the parts.
LEMMA LaidParts ==
    ASSUME NEW s, NEW L, NEW I, NEW R, FieldLaid(s, L, I, R)
    PROVE  /\ \A i \in 1 .. Len(L) : s[i] = L[i]
           /\ \A i \in 1 .. Len(I) : s[Len(L) + 1 + i] = I[i]
           /\ \A i \in 1 .. Len(R) : s[Len(L) + 2 + Len(I) + i] = R[i]
BY Zenon DEF FieldLaid

\* What is taken off around the brackets.
FieldTaken(s, b, e, L, I, R) ==
    /\ SubSeq(s, 1, b) = L /\ SubSeq(s, e + 2, Len(s)) = R /\ SubSeq(s, b + 2, e + 1) = I \o <<"}">>

\* The parts the loop takes off around the brackets are those of the field.
LEMMA LaidTaken ==
    ASSUME NEW s, NEW L, NEW I, NEW R, FieldLaid(s, L, I, R), NEW b \in Nat, NEW e \in Nat,
           b = Len(L), e = Len(L) + 1 + Len(I)
    PROVE  FieldTaken(s, b, e, L, I, R)
<1>. DEFINE n == Len(s)
            m == Len(I)
            r == Len(R)
            c == <<"}">>
            j == I \o c
<1>1. n \in Nat /\ m \in Nat /\ r \in Nat /\ n = b + 2 + m + r
  BY LaidLengths
<1>2. s \in Seq(Marks) /\ L \in Seq(Marks) /\ I \in Seq(Marks) /\ R \in Seq(Marks)
  BY LaidText
<1>3. c \in Seq(Marks) /\ Len(c) = 1 /\ c[1] = "}"
  BY BracketMarks, OneLong
<1>4. s[b + 2 + m] = "}"
  BY LaidBrackets
<1>5. /\ \A i \in 1 .. b : s[i] = L[i]
      /\ \A i \in 1 .. m : s[b + 1 + i] = I[i]
      /\ \A i \in 1 .. r : s[b + 2 + m + i] = R[i]
  <2>1. \A i \in 1 .. b : s[i] = L[i]
    BY LaidParts
  <2>2. \A i \in 1 .. m : s[b + 1 + i] = I[i]
    BY LaidParts
  <2>3. \A i \in 1 .. r : s[b + 2 + m + i] = R[i]
    BY LaidParts
  <2>. QED BY <2>1, <2>2, <2>3
<1>6. e = b + 1 + m
  OBVIOUS
<1>. HIDE DEF c
<1>7. LaidBehind(j, I, c)
  BY <1>2, <1>3, Laid
<1>8. j \in Seq(Marks) /\ Len(j) = m + 1 /\ (\A i \in 1 .. m : j[i] = I[i]) /\ j[m + 1] = "}"
  <2>1. j \in Seq(Marks) /\ Len(j) = m + Len(c) /\ (\A i \in 1 .. m : j[i] = I[i])
        /\ \A i \in 1 .. Len(c) : j[m + i] = c[i]
    BY <1>7, Zenon DEF LaidBehind
  <2>2. 1 \in 1 .. 1
    OBVIOUS
  <2>3. j[m + 1] = c[1]
    BY <1>3, <2>1, <2>2
  <2>. QED BY <1>3, <2>1, <2>3
<1>. HIDE DEF n, m, r, j
<1>9. SubSeq(s, 1, b) = L
  <2>. DEFINE t == SubSeq(s, 1, b)
  <2>1. 1 \in 1 .. n + 1 /\ b \in 1 - 1 .. n /\ b - 1 + 1 = b
    BY <1>1
  <2>2. t \in Seq(Marks) /\ Len(t) = b /\ \A i \in 1 .. b : t[i] = s[1 - 1 + i]
    BY <1>2, <2>1, Part DEF n
  <2>. HIDE DEF t
  <2>3. \A i \in 1 .. b : 1 - 1 + i = i
    BY <1>1
  <2>4. \A i \in 1 .. b : t[i] = L[i]
    BY <1>5, <2>2, <2>3
  <2>. QED BY <1>2, <2>2, <2>4, SameMarks DEF t
<1>10. SubSeq(s, e + 2, n) = R
  <2>. DEFINE t == SubSeq(s, e + 2, n)
  <2>1. e + 2 \in 1 .. n + 1 /\ n \in e + 2 - 1 .. n /\ n - (e + 2) + 1 = r
    BY <1>1, <1>6
  <2>2. t \in Seq(Marks) /\ Len(t) = r /\ \A i \in 1 .. r : t[i] = s[e + 2 - 1 + i]
    BY <1>2, <2>1, Part DEF n
  <2>. HIDE DEF t
  <2>3. \A i \in 1 .. r : e + 2 - 1 + i = b + 2 + m + i
    BY <1>1, <1>6
  <2>4. \A i \in 1 .. r : t[i] = R[i]
    BY <1>5, <2>2, <2>3
  <2>. QED BY <1>2, <2>2, <2>4, SameMarks DEF t, r
<1>11. SubSeq(s, b + 2, e + 1) = j
  <2>. DEFINE t == SubSeq(s, b + 2, e + 1)
  <2>1. b + 2 \in 1 .. n + 1 /\ e + 1 \in b + 2 - 1 .. n /\ e + 1 - (b + 2) + 1 = m + 1
    BY <1>1, <1>6
  <2>2. t \in Seq(Marks) /\ Len(t) = m + 1 /\ \A i \in 1 .. m + 1 : t[i] = s[b + 2 - 1 + i]
    BY <1>2, <2>1, Part DEF n
  <2>. HIDE DEF t
  <2>3. \A i \in 1 .. m + 1 : b + 2 - 1 + i = b + 1 + i
    BY <1>1
  <2>4. \A i \in 1 .. m : t[i] = j[i]
    <3>1. \A i \in 1 .. m : i \in 1 .. m + 1
      BY <1>1
    <3>. QED BY <1>5, <1>8, <2>2, <2>3, <3>1
  <2>5. t[m + 1] = j[m + 1]
    <3>1. m + 1 \in 1 .. m + 1 /\ b + 1 + (m + 1) = b + 2 + m
      BY <1>1
    <3>. QED BY <1>4, <1>8, <2>2, <2>3, <3>1
  <2>6. \A i \in 1 .. m + 1 : t[i] = j[i]
    <3>1. \A i \in 1 .. m + 1 : i \in 1 .. m \/ i = m + 1
      BY <1>1
    <3>. QED BY <2>4, <2>5, <3>1
  <2>. QED BY <1>8, <2>2, <2>6, SameMarks DEF t
<1>. QED BY <1>9, <1>10, <1>11, Zenon DEF FieldTaken, n, j, c

\* The characters of the texts a formatter reads: a run of d characters behind the first k items.
RunOf(items, k, d) == [i \in 1 .. d |-> items[k + i].char]

IsRun(items, k, d) == \A i \in 1 .. d : IsText(items[k + i])

\* A character is rendered as itself, and is no bracket.
LEMMA TextChar ==
    ASSUME NEW item \in Items, IsText(item)
    PROVE  item.char \in Unbracketed /\ item.char \in Marks /\ RenderItem(item) = <<item.char>>
<1>1. item.char \in STRING /\ item.char \notin {"{", "}"}
  BY ItemMembers DEF Char
<1>2. item.char \in Marks
  BY <1>1, MarksInclude
<1>. QED BY <1>1, <1>2 DEF Unbracketed, RenderItem

\* A run with one more character.
LEMMA LongerRun ==
    ASSUME NEW t \in Seq(Marks), NEW c \in Marks, NEW r \in Seq(Marks), NEW u \in Seq(Marks),
           u = Append(t, c)
    PROVE  t \o (<<c>> \o r) = u \o r
<1>1. u = t \o <<c>> /\ <<c>> \in Seq(Marks)
  OBVIOUS
<1>. DEFINE o == <<c>>
<1>2. u = t \o o /\ o \in Seq(Marks)
  BY <1>1
<1>. HIDE DEF o
<1>3. (t \o o) \o r = t \o (o \o r)
  BY <1>2, MarkAssoc
<1>. QED BY <1>2, <1>3 DEF o

\* Text is taken as it is.
LEMMA RunLaid ==
    ASSUME NEW items \in Seq(Items), NEW texts \in Seq(Seq(Marks)), Len(texts) = Len(items),
           \A i \in 1 .. Len(items) : IsText(items[i]) => texts[i] = <<items[i].char>>,
           NEW r, IsSuffixes(r, texts), NEW k \in 0 .. Len(items), NEW m \in 0 .. Len(items) - k,
              IsRun(items, k, m)
    PROVE  RunOf(items, k, m) \in Seq(Unbracketed) /\ r[k] = RunOf(items, k, m) \o r[k + m]
<1>. DEFINE n == Len(items)
            t(d) == RunOf(items, k, d)
            Reached == {d \in 0 .. m : r[k] = t(d) \o r[k + d]}
<1>1. n \in Nat /\ k \in Nat /\ m \in Nat /\ k + m <= n /\ k <= n
  OBVIOUS
<1>2. (\A i \in 0 .. n : r[i] \in Seq(Marks)) /\ \A i \in 1 .. n : r[i - 1] = texts[i] \o r[i]
  BY DEF IsSuffixes
<1>3. ASSUME NEW i \in 1 .. m
      PROVE  items[k + i].char \in Unbracketed /\ items[k + i].char \in Marks
             /\ texts[k + i] = <<items[k + i].char>>
  <2>1. k + i \in 1 .. n
    BY <1>1
  <2>2. items[k + i] \in Items
    BY <2>1
  <2>3. IsText(items[k + i])
    BY Zenon DEF IsRun
  <2>. QED BY <2>1, <2>2, <2>3, TextChar
<1>4. ASSUME NEW d \in 0 .. m PROVE t(d) \in Seq(Unbracketed) /\ t(d) \in Seq(Marks)
  <2>1. \A i \in 1 .. d : i \in 1 .. m
    BY <1>1
  <2>2. \A i \in 1 .. d : items[k + i].char \in Unbracketed
    BY <1>3, <2>1
  <2>3. t(d) \in Seq(Unbracketed)
    BY <2>2 DEF RunOf
  <2>. QED BY <2>3, UnbracketedMarks
<1>5. 0 \in Reached
  <2>1. t(0) = <<>>
    BY DEF RunOf
  <2>2. r[k] \in Seq(Marks) /\ k + 0 = k /\ 0 \in 0 .. m
    BY <1>1, <1>2
  <2>. HIDE DEF t
  <2>3. <<>> \o r[k] = r[k]
    BY <2>2, MarkAssoc
  <2>. QED BY <2>1, <2>2, <2>3
<1>6. ASSUME NEW d \in 0 .. m - 1, d \in Reached PROVE d + 1 \in Reached
  <2>. DEFINE c == items[k + (d + 1)].char
              u == t(d + 1)
              a == t(d)
              s == r[k + (d + 1)]
  <2>1. d + 1 \in 1 .. m /\ d + 1 \in 0 .. m /\ d \in 0 .. m /\ k + (d + 1) \in 1 .. n
        /\ (k + (d + 1)) - 1 = k + d
        /\ k + (d + 1) \in 0 .. n
    BY <1>1
  <2>2. r[k + d] = <<c>> \o s /\ c \in Marks
    <3>1. r[(k + (d + 1)) - 1] = texts[k + (d + 1)] \o r[k + (d + 1)]
      BY <1>2, <2>1, Zenon
    <3>. QED BY <1>3, <2>1, <3>1
  <2>3. u = Append(a, c)
    BY <2>1, SMTT(30) DEF RunOf
  <2>4. a \in Seq(Marks) /\ u \in Seq(Marks) /\ s \in Seq(Marks)
    BY <1>2, <1>4, <2>1
  <2>5. r[k] = a \o r[k + d]
    BY <1>6
  <2>. HIDE DEF t, c, u, a, s
  <2>6. a \o (<<c>> \o s) = u \o s
    BY <2>2, <2>3, <2>4, LongerRun
  <2>7. r[k] = u \o s
    BY <2>2, <2>5, <2>6
  <2>. QED BY <2>1, <2>7 DEF u, s
<1>7. m \in Reached
  <2>. HIDE DEF Reached
  <2>1. \A d \in 0 .. m : d \in Reached
    BY <1>1, <1>5, <1>6, InductionUpTo
  <2>. QED BY <1>1, <2>1
<1>. QED BY <1>1, <1>4, <1>7

\* A run of characters is what the format string begins with.
LEMMA RunRead ==
    ASSUME NEW items \in Seq(Items), NEW k \in 0 .. Len(items), NEW m \in 0 .. Len(items) - k,
           IsRun(items, k, m)
    PROVE  /\ RunOf(items, k, m) \in Seq(Unbracketed)
           /\ RestOf(items, k) = RunOf(items, k, m) \o RestOf(items, k + m)
<1>. DEFINE texts == RenderedItems(items)
            r == CHOOSE x : IsSuffixes(x, texts)
<1>1. texts \in Seq(Seq(Marks))
  BY Rendered DEF RenderedItems
<1>2. Len(texts) = Len(items) /\ \A i \in 1 .. Len(items) : texts[i] = RenderItem(items[i])
  BY DEF RenderedItems
<1>. HIDE DEF texts
<1>3. ASSUME NEW i \in 1 .. Len(items), IsText(items[i]) PROVE texts[i] = <<items[i].char>>
  <2>1. items[i] \in Items
    OBVIOUS
  <2>. QED BY <1>2, <1>3, <2>1, TextChar, Zenon
<1>4. IsSuffixes(r, texts)
  BY <1>1, SuffixesExist
<1>. HIDE DEF r
<1>5. RunOf(items, k, m) \in Seq(Unbracketed) /\ r[k] = RunOf(items, k, m) \o r[k + m]
  BY <1>1, <1>2, <1>3, <1>4, RunLaid
<1>. QED BY <1>5, Zenon DEF RestOf, r, texts

------------------------------------------------------------------------------
(****************************************************************************)
(* What stands between the brackets of a field.                             *)
(****************************************************************************)

\* What stands between the brackets of a field.
InsideOf(item) ==
    PositionText(item.index) \o OptionalIf(HasSpec(item), <<":">> \o RenderSpec(item.spec))

\* The members of a field.
LEMMA FieldMembers ==
    ASSUME NEW item \in Items, IsField(item)
    PROVE  /\ ~IsText(item) /\ ~IsRaw(item) /\ item.index \in Positions
              /\ (HasSpec(item) => item.spec \in ItemSpecs)
           /\ ~HasSpec(item) => item = Plain(item.index)
<1>1. CASE item \in [char : Char \ {"{", "}"}]
  <2>. DEFINE C == Char \ {"{", "}"}
  <2>1. item \in [char : C]
    BY <1>1
  <2>. HIDE DEF C
  <2>2. ~IsField(item)
    BY <2>1 DEF IsField
  <2>. QED BY <2>2
<1>2. CASE item \in [raw : Seq(STRING)]
  <2>2. ~IsField(item)
    BY <1>2 DEF IsField
  <2>. QED BY <2>2
<1>3. CASE item \in [index : Positions]
  BY <1>3 DEF IsField, IsText, IsRaw, HasSpec, Plain
<1>4. CASE item \in [index : Positions, spec : ItemSpecs]
  BY <1>4 DEF IsField, IsText, IsRaw, HasSpec
<1>. QED BY <1>1, <1>2, <1>3, <1>4 DEF Items

\* A field is rendered as its brackets around its inside.
LEMMA FieldRendered ==
    ASSUME NEW item \in Items, IsField(item), NEW rest \in Seq(Marks)
    PROVE  /\ PositionText(item.index) \in MarkTexts /\ InsideOf(item) \in MarkTexts
           /\ RenderItem(item) \o rest = <<"{">> \o (InsideOf(item) \o (<<"}">> \o rest))
<1>. DEFINE n == PositionText(item.index)
            s == OptionalIf(HasSpec(item), <<":">> \o RenderSpec(item.spec))
            o == <<"{">>
            c == <<"}">>
<1>1. ~IsText(item) /\ ~IsRaw(item) /\ item.index \in Positions
      /\ (HasSpec(item) => item.spec \in ItemSpecs)
  BY FieldMembers
<1>2. n \in MarkTexts
  <2>1. CASE item.index = Automatic
    BY <2>1, NoMarks DEF PositionText, OptionalIf
  <2>2. CASE item.index # Automatic
    <3>1. item.index \in Nat /\ 10 \in Bases
      BY <1>1, <2>2 DEF Positions, Bases
    <3>2. ToChars(item.index, 10) \in MarkTexts
      BY <3>1, NumberMarks
    <3>. QED BY <2>2, <3>2 DEF PositionText, OptionalIf
  <2>. QED BY <2>1, <2>2
<1>3. s \in MarkTexts
  <2>1. CASE ~HasSpec(item)
    BY <2>1, NoMarks DEF OptionalIf
  <2>2. CASE HasSpec(item)
    <3>1. RenderSpec(item.spec) \in MarkTexts
      BY <1>1, <2>2, NoMarks, SpecRendered
    <3>2. <<":">> \in MarkTexts
      BY InnerMarks, OneMark
    <3>3. <<":">> \o RenderSpec(item.spec) \in MarkTexts
      BY <3>1, <3>2, Shift DEF Cat
    <3>. QED BY <2>2, <3>3 DEF OptionalIf
  <2>. QED BY <2>1, <2>2
<1>4. o \in MarkTexts /\ c \in MarkTexts /\ rest \in MarkTexts
  BY BracketMarks, OneMark DEF MarkTexts
<1>5. RenderItem(item) = ((o \o n) \o s) \o c
  BY <1>1, Zenon DEF RenderItem, PositionText
<1>6. InsideOf(item) = n \o s
  BY Zenon DEF InsideOf
<1>. HIDE DEF n, s, o, c
<1>7. n \o s \in MarkTexts
  BY <1>2, <1>3, Shift DEF Cat
<1>8. (((o \o n) \o s) \o c) \o rest = o \o ((n \o s) \o (c \o rest))
  <2>1. Cat(n, s) \in MarkTexts /\ Cat(c, rest) \in MarkTexts
    BY <1>2, <1>3, <1>4, Shift
  <2>2. Cat(Cat(o, n), s) = Cat(o, Cat(n, s)) /\ Cat(o, Cat(n, s)) \in MarkTexts
    <3>1. Cat(Cat(o, n), s) = Cat(o, Cat(n, s))
      BY <1>2, <1>3, <1>4, Shift
    <3>2. Cat(o, Cat(n, s)) \in MarkTexts
      BY <1>4, <2>1, Shift
    <3>. QED BY <3>1, <3>2
  <2>3. Cat(Cat(Cat(o, Cat(n, s)), c), rest) = Cat(Cat(o, Cat(n, s)), Cat(c, rest))
    BY <1>4, <2>2, Shift
  <2>4. Cat(Cat(o, Cat(n, s)), Cat(c, rest)) = Cat(o, Cat(Cat(n, s), Cat(c, rest)))
    BY <1>4, <2>1, Shift
  <2>5. Cat(Cat(Cat(Cat(o, n), s), c), rest) = Cat(o, Cat(Cat(n, s), Cat(c, rest)))
    BY <2>2, <2>3, <2>4
  <2>. QED BY <2>5 DEF Cat
<1>9. RenderItem(item) \o rest = o \o (InsideOf(item) \o (c \o rest))
  BY <1>5, <1>6, <1>8
<1>. QED BY <1>2, <1>6, <1>7, <1>9 DEF n, o, c

\* Texts without brackets put together have none.
LEMMA JoinedUnbracketed ==
    ASSUME NEW a \in Seq(Unbracketed), NEW b \in Seq(Unbracketed) PROVE a \o b \in Seq(Unbracketed)
OBVIOUS

\* A character that is no bracket is such a text.
LEMMA OneUnbracketed ==
    /\ <<>> \in Seq(Unbracketed)
    /\ \A x \in Unbracketed : <<x>> \in Seq(Unbracketed)
OBVIOUS

\* The characters of a specification are no brackets.
LEMMA UnbracketedChars ==
    /\ \A c \in {"L", ".", "0", "#", "+", "-", " ", "%", ":", "<", ">", "^"} : c \in Unbracketed
    /\ Digits \subseteq Unbracketed /\ TypeSpecs \subseteq Unbracketed
       /\ TimeChars \subseteq Unbracketed
<1>1. \A c \in {"L", ".", "#", "+", "-", " ", "%", ":", "<", ">", "^"} : c \in Fixed
  BY DEF Fixed
<1>2. \A c \in {"L", ".", "#", "+", "-", " ", "%", ":", "<", ">", "^"} : c \in Unbracketed
  BY <1>1, MarksInclude DEF Unbracketed
<1>3. Digits \subseteq Unbracketed
  BY MarksInclude, DecimalDigits DEF Unbracketed
<1>4. "0" \in Unbracketed
  BY <1>3, DecimalDigits
<1>5. TypeSpecs \subseteq Unbracketed
  <2>1. TypeSpecs \subseteq Marks
    BY TypeMarks
  <2>2. \A c \in TypeSpecs : c \notin {"{", "}"}
    BY DEF TypeSpecs
  <2>. QED BY <2>1, <2>2 DEF Unbracketed
<1>6. TimeChars \subseteq Unbracketed
  BY TimeCharsInside DEF Unbracketed, Inner
<1>. QED BY <1>2, <1>3, <1>4, <1>5, <1>6

\* A number is written without brackets.
LEMMA NumberUnbracketed ==
    ASSUME NEW n \in Nat PROVE ToChars(n, 10) \in Seq(Unbracketed)
<1>1. 10 \in Bases
  BY DEF Bases
<1>2. ToChars(n, 10) \in Seq(Digits)
  BY <1>1, DigitsInside, NaturalText
<1>. QED BY <1>2, UnbracketedChars, Bigger

\* Texts without brackets one after the other have none.
LEMMA FlattenedUnbracketed ==
    ASSUME NEW texts \in Seq(Seq(Unbracketed)) PROVE FlattenSeq(texts) \in Seq(Unbracketed)
<1>1. \E g \in [0 .. Len(texts) -> Seq(Unbracketed)] :
         /\ g[0] = <<>> /\ g[Len(texts)] = FlattenSeq(texts)
         /\ \A k \in 1 .. Len(texts) : g[k] = g[k - 1] \o texts[k]
  BY Flattened
<1>2. PICK g \in [0 .. Len(texts) -> Seq(Unbracketed)] : g[Len(texts)] = FlattenSeq(texts)
  BY <1>1, Zenon
<1>3. Len(texts) \in 0 .. Len(texts)
  OBVIOUS
<1>4. g[Len(texts)] \in Seq(Unbracketed)
  BY <1>3
<1>. QED BY <1>2, <1>4

\* A specification of characters that may stand in a field.
Writable(spec) ==
    /\ spec \in ItemSpecs /\ spec.fill \notin {"{", "}"} /\ spec.type \in TypeSpecs \union {""}
    /\ spec.times \in Seq(TimeChars)

\* The specifications of a time have none.
LEMMA TimesUnbracketed ==
    ASSUME NEW times \in Seq(TimeChars) PROVE TimesTail(times) \in Seq(Unbracketed)
<1>. DEFINE texts == [i \in 1 .. Len(times) |-> <<"%", times[i]>>]
<1>1. Len(times) \in Nat /\ \A i \in 1 .. Len(times) : times[i] \in Unbracketed
  <2>1. Len(times) \in Nat /\ \A i \in 1 .. Len(times) : times[i] \in TimeChars
    OBVIOUS
  <2>. QED BY <2>1, UnbracketedChars
<1>2. "%" \in Unbracketed
  BY UnbracketedChars
<1>3. \A i \in 1 .. Len(times) : <<"%", times[i]>> \in Seq(Unbracketed)
  BY <1>1, <1>2
<1>4. texts \in Seq(Seq(Unbracketed))
  BY <1>1, <1>3
<1>5. TimesTail(times) = FlattenSeq(texts)
  BY Zenon DEF TimesTail
<1>. HIDE DEF texts
<1>. QED BY <1>4, <1>5, FlattenedUnbracketed

\* The characters of a specification that may stand in a field are no
\* brackets.
LEMMA SpecUnbracketed ==
    ASSUME NEW spec, Writable(spec)
    PROVE  RenderSpec(spec) \in Seq(Unbracketed)
<1>. DEFINE f == Optional(spec.fill)
            a == Optional(spec.align)
            s == Optional(spec.sign)
            b == OptionalIf(spec.alt, <<"#">>)
            z == OptionalIf(spec.zero, <<"0">>)
            w == OptionalIf(spec.width # 0, ToChars(spec.width, 10))
            d == OptionalIf(spec.precision # 0, <<".">> \o ToChars(spec.precision, 10))
            l == OptionalIf(spec.localize, <<"L">>)
            k == Optional(spec.type)
            t == TimesTail(spec.times)
<1>0. spec \in ItemSpecs /\ spec.fill \notin {"{", "}"} /\ spec.type \in TypeSpecs \union {""}
      /\ spec.times \in Seq(TimeChars)
  BY DEF Writable
<1>1. \A x \in Unbracketed \union {""} : Optional(x) \in Seq(Unbracketed)
  BY OneUnbracketed, Zenon DEF Optional
<1>2. \A c \in BOOLEAN, x \in Seq(Unbracketed) : OptionalIf(c, x) \in Seq(Unbracketed)
  BY OneUnbracketed, Zenon DEF OptionalIf
<1>3. f \in Seq(Unbracketed)
  <2>1. spec.fill \in Unbracketed \union {""}
    <3>1. spec.fill \in Marks \union {""}
      BY <1>0, SpecChars
    <3>. QED BY <1>0, <3>1 DEF Unbracketed
  <2>. QED BY <1>1, <2>1
<1>4. a \in Seq(Unbracketed) /\ s \in Seq(Unbracketed)
  <2>1. spec.align \in Unbracketed \union {""} /\ spec.sign \in Unbracketed \union {""}
    BY <1>0, SpecChars, UnbracketedChars
  <2>. QED BY <1>1, <2>1
<1>5. k \in Seq(Unbracketed)
  <2>1. spec.type \in Unbracketed \union {""}
    BY <1>0, UnbracketedChars
  <2>. QED BY <1>1, <2>1
<1>6. <<"#">> \in Seq(Unbracketed) /\ <<"0">> \in Seq(Unbracketed) /\ <<"L">> \in Seq(Unbracketed)
      /\ <<".">> \in Seq(Unbracketed)
  BY UnbracketedChars, OneUnbracketed
<1>7. spec.alt \in BOOLEAN /\ spec.zero \in BOOLEAN /\ spec.localize \in BOOLEAN
  BY <1>0, SpecChars
<1>8. b \in Seq(Unbracketed) /\ z \in Seq(Unbracketed) /\ l \in Seq(Unbracketed)
  BY <1>2, <1>6, <1>7, Zenon
<1>9. ToChars(spec.width, 10) \in Seq(Unbracketed) /\ ToChars(spec.precision, 10) \in Seq(Unbracketed)
  BY <1>0, SpecChars, NumberUnbracketed
<1>10. w \in Seq(Unbracketed)
  BY <1>9, OneUnbracketed, Zenon DEF OptionalIf
<1>11. d \in Seq(Unbracketed)
  <2>1. <<".">> \o ToChars(spec.precision, 10) \in Seq(Unbracketed)
    BY <1>6, <1>9, JoinedUnbracketed
  <2>. QED BY <2>1, OneUnbracketed, Zenon DEF OptionalIf
<1>12. t \in Seq(Unbracketed)
  BY <1>0, TimesUnbracketed
<1>13. RenderSpec(spec) = ((((((((f \o a) \o s) \o b) \o z) \o w) \o d) \o l) \o k) \o t
  BY Zenon DEF RenderSpec, TimesTail
<1>. HIDE DEF f, a, s, b, z, w, d, l, k, t
<1>. DEFINE u1 == f \o a
<1>14. u1 \in Seq(Unbracketed)
  BY <1>3, <1>4, JoinedUnbracketed
<1>. HIDE DEF u1
<1>. DEFINE u2 == u1 \o s
<1>15. u2 \in Seq(Unbracketed)
  BY <1>4, <1>14, JoinedUnbracketed
<1>. HIDE DEF u2
<1>. DEFINE u3 == u2 \o b
<1>16. u3 \in Seq(Unbracketed)
  BY <1>8, <1>15, JoinedUnbracketed
<1>. HIDE DEF u3
<1>. DEFINE u4 == u3 \o z
<1>17. u4 \in Seq(Unbracketed)
  BY <1>8, <1>16, JoinedUnbracketed
<1>. HIDE DEF u4
<1>. DEFINE u5 == u4 \o w
<1>18. u5 \in Seq(Unbracketed)
  BY <1>10, <1>17, JoinedUnbracketed
<1>. HIDE DEF u5
<1>. DEFINE u6 == u5 \o d
<1>19. u6 \in Seq(Unbracketed)
  BY <1>11, <1>18, JoinedUnbracketed
<1>. HIDE DEF u6
<1>. DEFINE u7 == u6 \o l
<1>20. u7 \in Seq(Unbracketed)
  BY <1>8, <1>19, JoinedUnbracketed
<1>. HIDE DEF u7
<1>. DEFINE u8 == u7 \o k
<1>21. u8 \in Seq(Unbracketed)
  BY <1>5, <1>20, JoinedUnbracketed
<1>. HIDE DEF u8
<1>22. RenderSpec(spec) = u8 \o t
  BY <1>13, Zenon DEF u8, u7, u6, u5, u4, u3, u2, u1
<1>. QED BY <1>12, <1>21, <1>22, JoinedUnbracketed

\* The inside of a field of a valid specification.
LEMMA InsideUnbracketed ==
    ASSUME NEW item \in Items, IsField(item), HasSpec(item) => Writable(item.spec)
    PROVE  InsideOf(item) \in Seq(Unbracketed)
<1>1. PositionText(item.index) \in Seq(Unbracketed)
  <2>1. CASE item.index = Automatic
    BY <2>1, OneUnbracketed DEF PositionText, OptionalIf
  <2>2. CASE item.index # Automatic
    <3>1. item.index \in Nat
      BY <2>2, FieldMembers DEF Positions
    <3>. QED BY <2>2, <3>1, NumberUnbracketed DEF PositionText, OptionalIf
  <2>. QED BY <2>1, <2>2
<1>2. OptionalIf(HasSpec(item), <<":">> \o RenderSpec(item.spec)) \in Seq(Unbracketed)
  <2>1. CASE ~HasSpec(item)
    BY <2>1, OneUnbracketed DEF OptionalIf
  <2>2. CASE HasSpec(item)
    <3>1. RenderSpec(item.spec) \in Seq(Unbracketed)
      BY <2>2, SpecUnbracketed
    <3>2. <<":">> \in Seq(Unbracketed)
      BY UnbracketedChars, OneUnbracketed
    <3>3. <<":">> \o RenderSpec(item.spec) \in Seq(Unbracketed)
      BY <3>1, <3>2, JoinedUnbracketed
    <3>. QED BY <2>2, <3>3 DEF OptionalIf
  <2>. QED BY <2>1, <2>2
<1>. QED BY <1>1, <1>2, JoinedUnbracketed DEF InsideOf

\* What is behind the opening bracket, for the parser of the position.
LEMMA InsideOpened ==
    ASSUME NEW item \in Items, IsField(item), NEW rest, rest = RenderSpec(item.spec) \o <<"}">>
    PROVE  InsideOf(item) \o <<"}">> = PositionText(item.index) \o OpenTail(HasSpec(item), rest)
<1>. DEFINE n == PositionText(item.index)
            s == RenderSpec(item.spec)
            o == <<":">>
            c == <<"}">>
<1>1. n \in MarkTexts
  <2>1. <<>> \in Seq(Marks)
    BY NoMarks DEF MarkTexts
  <2>. QED BY <2>1, FieldRendered
<1>2. o \in MarkTexts /\ c \in MarkTexts
  BY BracketMarks, InnerMarks, OneMark
<1>3. CASE ~HasSpec(item)
  <2>1. InsideOf(item) = n \o <<>> /\ OpenTail(HasSpec(item), rest) = c
    BY <1>3, Zenon DEF InsideOf, OptionalIf, OpenTail
  <2>. HIDE DEF n
  <2>2. n \o <<>> = n
    BY <1>1, MarkAssoc, NoMarks DEF MarkTexts
  <2>. QED BY <2>1, <2>2 DEF n
<1>4. CASE HasSpec(item)
  <2>1. InsideOf(item) = n \o (o \o s) /\ OpenTail(HasSpec(item), rest) = o \o (s \o c)
    BY <1>4, Zenon DEF InsideOf, OptionalIf, OpenTail
  <2>2. s \in MarkTexts
    BY <1>4, FieldMembers, NoMarks, SpecRendered
  <2>. HIDE DEF n, s, o, c
  <2>3. (n \o (o \o s)) \o c = n \o (o \o (s \o c))
    <3>1. Cat(o, s) \in MarkTexts
      BY <1>2, <2>2, Shift
    <3>2. Cat(Cat(n, Cat(o, s)), c) = Cat(n, Cat(Cat(o, s), c))
      BY <1>1, <1>2, <3>1, Shift
    <3>3. Cat(Cat(o, s), c) = Cat(o, Cat(s, c))
      BY <1>2, <2>2, Shift
    <3>. QED BY <3>2, <3>3 DEF Cat
  <2>. QED BY <2>1, <2>3 DEF n, c
<1>. QED BY <1>3, <1>4

\* No specifications are rendered as nothing.
LEMMA NoTimes == TimesTail(<<>>) = <<>>
<1>. DEFINE texts == [i \in 1 .. Len(<<>>) |-> <<"%", <<>>[i]>>]
<1>1. texts \in Seq(Seq(Marks)) /\ Len(texts) = 0
  OBVIOUS
<1>2. TimesTail(<<>>) = FlattenSeq(texts)
  BY Zenon DEF TimesTail
<1>. HIDE DEF texts
<1>3. \E g \in [0 .. Len(texts) -> Seq(Marks)] : g[0] = <<>> /\ g[Len(texts)] = FlattenSeq(texts)
  BY <1>1, FlattenedPrefixes
<1>. QED BY <1>1, <1>2, <1>3

\* What is behind the colon, for the parser of the specification.
LEMMA SpecOpened ==
    ASSUME NEW spec \in ItemSpecs
    PROVE  /\ spec.times = <<>> => RenderSpec(spec) \o <<"}">> = FillTail(spec, TypeTail(spec))
           /\ spec.type = "" => RenderSpec(spec) \o <<"}">> = FillTail(spec, TimeTail(spec.times))
<1>. DEFINE c == <<"}">>
            k == Optional(spec.type)
            t == TimesTail(spec.times)
<1>1. c \in MarkTexts
  BY BracketMarks, OneMark
<1>2. RenderSpec(spec) \o c = FillTail(spec, k \o (t \o c))
  BY <1>1, SpecRendered
<1>3. t \in MarkTexts
  BY SpecChars, TimesMarks
<1>4. t \o c \in Seq(Marks) /\ c \in Seq(Marks)
  BY <1>1, <1>3, Shift DEF Cat, MarkTexts
<1>5. ASSUME spec.times = <<>> PROVE RenderSpec(spec) \o c = FillTail(spec, TypeTail(spec))
  <2>1. t = <<>>
    BY <1>5, NoTimes
  <2>2. TypeTail(spec) = k \o c
    BY Zenon DEF TypeTail
  <2>. HIDE DEF t, c, k
  <2>3. t \o c = c
    BY <1>4, <2>1, NothingBefore
  <2>. QED BY <1>2, <2>2, <2>3
<1>6. ASSUME spec.type = "" PROVE RenderSpec(spec) \o c = FillTail(spec, TimeTail(spec.times))
  <2>1. k = <<>>
    BY <1>6 DEF Optional
  <2>2. TimeTail(spec.times) = t \o c
    BY Zenon DEF TimeTail
  <2>. DEFINE u == t \o c
  <2>. HIDE DEF t, c, k
  <2>3. <<>> \o u = u
    <3>1. u \in Seq(Marks)
      BY <1>4
    <3>. HIDE DEF u
    <3>. QED BY <3>1, NothingBefore
  <2>. QED BY <1>2, <2>1, <2>2, <2>3
<1>. QED BY <1>5, <1>6

\* What the parser relies on in a field that does not differ.
LEMMA PlainlyRead ==
    ASSUME NEW spec, NEW arg, ~FieldDiverges(spec, arg)
    PROVE  /\ ~(spec.align # "" /\ spec.fill = "") /\ ~(spec.width > 99) /\ ~(spec.precision > 99)
           /\ ~(arg.type = "time" /\ spec.fill = "%")
              /\ ~(arg.type = "time" /\ Len(spec.times) > MaxTimeSpecs)
BY Zenon DEF FieldDiverges

\* The types of the arguments (SpecType).
LEMMA ArgumentTypes ==
    ASSUME NEW arg \in Arguments
    PROVE  arg.type \in {"int", "pointer", "float", "bool", "char", "string", "cstring", "time",
           "custom"}
<1>1. CASE arg \in [type : Texts, text : Seq(Char)]
  BY <1>1 DEF Texts
<1>2. CASE arg \notin [type : Texts, text : Seq(Char)]
  BY <1>2 DEF Arguments
<1>. QED BY <1>1, <1>2

\* What a specification of a type std::format accepts may have.
LEMMA ValidParts ==
    ASSUME NEW spec, NEW type, ValidSpec(spec, type)
    PROVE  /\ spec.fill = "" \/ (spec.align # "" /\ spec.fill \notin {"{", "}"})
           /\ (type \in Numbers \/ type \in {"bool", "char"})
              \/ (spec.sign = "" /\ ~spec.alt /\ ~spec.zero)
           /\ spec.precision = 0 \/ type \in Texts \union {"float"}
           /\ ~spec.localize \/ type \in Numbers \union {"bool", "time"}
           /\ (spec.times # <<>>) = (type = "time")
           /\ Range(spec.times) \subseteq TimeChars
BY Zenon DEF ValidSpec, TimeChars

\* Its presentation is a letter or none, and none for a time.
LEMMA ValidType ==
    ASSUME NEW spec, NEW type, ValidSpec(spec, type)
    PROVE  spec.type \in TypeSpecs \union {""} /\ (type = "time" => spec.type = "")
<1>1. spec.type \in {""} \union
              CASE type = "int" -> IntegerTypes \union {"c"}
                [] type = "float" -> {"a", "A", "e", "E", "f", "F", "g", "G"}
                [] type = "bool" -> IntegerTypes \union {"s"}
                [] type = "char" -> IntegerTypes \union {"c"}
                [] type \in Texts -> {"s"}
                [] type = "pointer" -> {"p"}
                [] OTHER -> {}
  BY Zenon DEF ValidSpec
<1>. QED BY <1>1 DEF IntegerTypes, TypeSpecs, Texts

\* A sequence over the set of its members.
LEMMA RangeInside ==
    ASSUME NEW t \in Seq(STRING), NEW S, Range(t) \subseteq S
    PROVE  t \in Seq(S) /\ \A i \in 1 .. Len(t) : t[i] \in S
<1>1. \A i \in 1 .. Len(t) : t[i] \in S
  BY DEF Range
<1>. QED BY <1>1

\* A specification that does not differ has numbers of at most two digits, and
\* may stand in a field.
LEMMA SpecShort ==
    ASSUME NEW spec \in ItemSpecs, NEW arg, ValidSpec(spec, arg.type), ~FieldDiverges(spec, arg)
    PROVE  Short(spec) /\ Writable(spec)
<1>1. spec.width \in Nat /\ spec.precision \in Nat /\ spec.times \in Seq(STRING)
  BY SpecChars
<1>2. ~(spec.width > 99) /\ ~(spec.precision > 99) /\ ~(spec.align # "" /\ spec.fill = "")
  BY PlainlyRead, Zenon
<1>3. spec.fill = "" \/ (spec.align # "" /\ spec.fill \notin {"{", "}"})
  BY ValidParts, Zenon
<1>4. Range(spec.times) \subseteq TimeChars
  BY ValidParts, Zenon
<1>5. spec.type \in TypeSpecs \union {""}
  BY ValidType
<1>6. spec.times \in Seq(TimeChars)
  BY <1>1, <1>4, RangeInside
<1>7. spec.width \in 0 .. 99 /\ spec.precision \in 0 .. 99
  <2>1. spec.width \in Nat /\ spec.precision \in Nat
    BY <1>1, Zenon
  <2>2. ~(spec.width > 99) /\ ~(spec.precision > 99)
    BY <1>2, Zenon
  <2>. QED BY <2>1, <2>2
<1>8. (spec.align = "") = (spec.fill = "") /\ spec.fill \notin {"{", "}"}
  BY <1>2, <1>3
<1>. QED BY <1>5, <1>6, <1>7, <1>8, Zenon DEF Short, Writable

\* A field std::format accepts is one the parser reads.
LEMMA SpecSuits ==
    ASSUME NEW spec \in ItemSpecs, NEW arg \in Arguments, arg.type \notin {"time", "custom"},
           ValidSpec(spec, arg.type), ~FieldDiverges(spec, arg)
    PROVE  Suits(spec, arg.type) /\ spec.times = <<>>
<1>1. Short(spec) /\ spec.type \in TypeSpecs \union {""}
  BY SpecShort, ValidType
<1>2. arg.type # "mono" /\ arg.type \in {"int", "pointer", "float", "bool", "char", "string", "cstring"}
  BY ArgumentTypes
<1>3. /\ (arg.type \in Numbers \/ arg.type \in {"bool", "char"})
         \/ (spec.sign = "" /\ ~spec.alt /\ ~spec.zero)
      /\ spec.precision = 0 \/ arg.type \in Texts \union {"float"}
      /\ ~spec.localize \/ arg.type \in Numbers \union {"bool", "time"}
      /\ (spec.times # <<>>) = (arg.type = "time")
  BY ValidParts, Zenon
<1>4. spec.localize => arg.type \notin {"char", "pointer", "mono", "string"}
  BY <1>3 DEF Numbers
<1>. QED BY <1>1, <1>2, <1>3, <1>4 DEF Suits

\* A specification of a time std::format accepts is one the parser reads.
LEMMA TimeSpecSuits ==
    ASSUME NEW spec \in ItemSpecs, NEW arg \in Arguments, arg.type = "time",
           ValidSpec(spec, arg.type), ~FieldDiverges(spec, arg)
    PROVE  TimeSuits(spec) /\ spec.type = ""
<1>1. Short(spec) /\ spec.type = ""
  BY SpecShort, ValidType
<1>2. /\ (arg.type \in Numbers \/ arg.type \in {"bool", "char"})
         \/ (spec.sign = "" /\ ~spec.alt /\ ~spec.zero)
      /\ spec.precision = 0 \/ arg.type \in Texts \union {"float"}
      /\ (spec.times # <<>>) = (arg.type = "time")
      /\ Range(spec.times) \subseteq TimeChars
  BY ValidParts, Zenon
<1>3. ~(spec.fill = "%") /\ ~(Len(spec.times) > MaxTimeSpecs)
  BY PlainlyRead, Zenon
<1>4. spec.sign = "" /\ ~spec.alt /\ ~spec.zero /\ spec.precision = 0 /\ spec.times # <<>>
  BY <1>2 DEF Numbers, Texts
<1>5. spec.times \in Seq(STRING)
  BY SpecChars
<1>6. \A i \in 1 .. Len(spec.times) : spec.times[i] \in TimeChars
  BY <1>2, <1>5, RangeInside
<1>7. Len(spec.times) <= MaxTimeSpecs
  <2>. DEFINE n == Len(spec.times)
  <2>1. n \in Nat
    BY <1>5
  <2>2. ~(n > MaxTimeSpecs)
    BY <1>3
  <2>. HIDE DEF n
  <2>3. n <= MaxTimeSpecs
    BY <2>1, <2>2 DEF MaxTimeSpecs
  <2>. QED BY <2>3 DEF n
<1>. QED BY <1>1, <1>3, <1>4, <1>6, <1>7, Zenon DEF TimeSuits

------------------------------------------------------------------------------
(****************************************************************************)
(* One turn of the loop at a field of a call that is promised.              *)
(****************************************************************************)

\* What a turn of the loop finds of a field.
FieldAtHand(L, I, R) ==
    /\ Brackets.begin >= 0 /\ Brackets.end >= 0 /\ ~(Brackets = Unclosed) /\ ~(Brackets = NoBrackets)
    /\ ArgBracket = I \o <<"}">> /\ Escape = <<>> /\ ClosingBrace = <<>> /\ Lead = L
    /\ SubSeq(sv, Brackets.end + 2, Len(sv)) = R

\* A text is empty or has a first and a last character.
LEMMA NoneOrMore ==
    ASSUME NEW m \in Nat
    PROVE  \/ m = 0 /\ m + 1 = 1 /\ ~(m + 1 > 3)
           \/ 1 \in 1 .. m /\ m \in 1 .. m /\ (m + 1) - 1 = m
OBVIOUS

\* The last character but one of the text of a field, and its first.
LEMMA EndsOf ==
    ASSUME NEW j, NEW m \in Nat, Len(j) = m + 1, j[m + 1] = "}", \A i \in 1 .. m : j[i] # "{"
           /\ j[i] # "}"
    PROVE  j[1] # "{" /\ (Len(j) > 3 => j[Len(j) - 1] # "}")
<1>1. \/ m = 0 /\ m + 1 = 1 /\ ~(m + 1 > 3)
      \/ 1 \in 1 .. m /\ m \in 1 .. m /\ (m + 1) - 1 = m
  BY NoneOrMore
<1>2. CASE m = 0 /\ m + 1 = 1 /\ ~(m + 1 > 3)
  <2>1. j[1] = "}" /\ ~(Len(j) > 3)
    BY <1>2, Zenon
  <2>2. "}" # "{"
    OBVIOUS
  <2>. QED BY <2>1, <2>2, Zenon
<1>3. CASE 1 \in 1 .. m /\ m \in 1 .. m /\ (m + 1) - 1 = m
  <2>1. Len(j) - 1 = m
    <3>1. Len(j) - 1 = (m + 1) - 1
      BY Zenon
    <3>2. (m + 1) - 1 = m
      BY <1>3, Zenon
    <3>. QED BY <3>1, <3>2, Zenon
  <2>2. j[1] # "{" /\ j[m] # "}"
    BY <1>3, Zenon
  <2>. DEFINE k == Len(j) - 1
  <2>3. k = m
    BY <2>1
  <2>. HIDE DEF k
  <2>4. j[k] # "}"
    BY <2>2, <2>3
  <2>. QED BY <2>2, <2>4, Zenon DEF k
<1>. QED BY <1>1, <1>2, <1>3, Zenon

\* A number the provers ask for.
LEMMA JustOne == 1 \in 1 .. 1
OBVIOUS

\* The inside of a field with the bracket behind it.
LEMMA ClosedText ==
    ASSUME NEW I \in Seq(Unbracketed), NEW c \in Seq(Marks), Len(c) = 1, c[1] = "}"
    PROVE  /\ I \o c \in Seq(Marks) /\ Len(I) \in Nat /\ Len(I \o c) = Len(I) + 1
              /\ (I \o c)[Len(I) + 1] = "}"
           /\ \A i \in 1 .. Len(I) : (I \o c)[i] # "{" /\ (I \o c)[i] # "}"
<1>1. I \in Seq(Marks) /\ Len(I) \in Nat /\ \A i \in 1 .. Len(I) : I[i] \in Unbracketed
  BY UnbracketedMarks, UnbracketedLength
<1>2. \A x \in Unbracketed : x # "{" /\ x # "}"
  BY DEF Unbracketed
<1>3. LaidBehind(I \o c, I, c)
  BY <1>1, Laid
<1>4. /\ I \o c \in Seq(Marks) /\ Len(I \o c) = Len(I) + Len(c)
         /\ (\A i \in 1 .. Len(I) : (I \o c)[i] = I[i])
      /\ \A i \in 1 .. Len(c) : (I \o c)[Len(I) + i] = c[i]
  BY <1>3, Zenon DEF LaidBehind
<1>5. (I \o c)[Len(I) + 1] = c[1]
  BY <1>4, JustOne, Zenon
<1>6. \A i \in 1 .. Len(I) : (I \o c)[i] # "{" /\ (I \o c)[i] # "}"
  BY <1>1, <1>2, <1>4, Zenon
<1>. QED BY <1>1, <1>4, <1>5, <1>6, Zenon

\* It has no escaped bracket at either end.
LEMMA InsideEnds ==
    ASSUME NEW I \in Seq(Unbracketed), NEW j, j = I \o <<"}">>
    PROVE  j[1] # "{" /\ (Len(j) > 3 => j[Len(j) - 1] # "}")
<1>. DEFINE c == <<"}">>
            m == Len(I)
<1>1. c \in Seq(Marks) /\ Len(c) = 1 /\ c[1] = "}"
  BY BracketMarks, OneLong
<1>2. j = I \o c
  OBVIOUS
<1>. HIDE DEF c
<1>3. m \in Nat /\ Len(j) = m + 1 /\ j[m + 1] = "}" /\ \A i \in 1 .. m : j[i] # "{" /\ j[i] # "}"
  BY <1>1, <1>2, ClosedText, Zenon
<1>. HIDE DEF m
<1>. QED BY <1>3, EndsOf, Zenon

\* A turn finds the brackets of the first field, what is inside and what is
\* around.
LEMMA BracketsRead ==
    ASSUME NEW L, NEW I, NEW R, FieldLaid(sv, L, I, R)
    PROVE  FieldAtHand(L, I, R)
<1>. DEFINE b == Len(L)
            e == Len(L) + 1 + Len(I)
            n == Len(sv)
<1>1. Len(L) \in Nat /\ Len(I) \in Nat /\ Len(R) \in Nat /\ n = Len(L) + 2 + Len(I) + Len(R)
  BY LaidLengths
<1>2. b \in Nat /\ e \in Nat /\ n \in Nat
  BY <1>1
<1>3. Bracketed(sv, b, e)
  BY <1>2, LaidBracketed
<1>4. FieldTaken(sv, b, e, L, I, R)
  BY <1>2, LaidTaken
<1>5. I \in Seq(Unbracketed) /\ L \in Seq(Marks)
  <2>1. I \in Seq(Unbracketed)
    BY Zenon DEF FieldLaid
  <2>. QED BY <2>1, LaidText
<1>. HIDE DEF b, e, n
<1>6. FindBrackets(sv) = [begin |-> b, end |-> e]
  BY <1>2, <1>3, FieldFound DEF n
<1>7. Brackets.begin = b /\ Brackets.end = e
  <2>1. Brackets = [begin |-> b, end |-> e]
    BY <1>6, Zenon DEF Brackets
  <2>. QED BY <2>1
<1>8. Brackets.begin >= 0 /\ Brackets.end >= 0 /\ ~(Brackets = Unclosed) /\ ~(Brackets = NoBrackets)
  <2>1. b >= 0 /\ e >= 0 /\ ~(-1 >= 0)
    BY <1>2
  <2>2. Unclosed.end = -1 /\ NoBrackets.end = -1
    BY DEF Unclosed, NoBrackets
  <2>. QED BY <1>7, <2>1, <2>2
<1>9. ArgBracket = I \o <<"}">> /\ SubSeq(sv, Brackets.end + 2, Len(sv)) = R
      /\ SubSeq(sv, 1, Brackets.begin) = L
  BY <1>4, <1>7, Zenon DEF FieldTaken, ArgBracket
<1>10. ArgBracket[1] # "{" /\ (Len(ArgBracket) > 3 => ArgBracket[Len(ArgBracket) - 1] # "}")
  BY <1>5, <1>9, InsideEnds
<1>11. Escape = <<>> /\ ClosingBrace = <<>>
  BY <1>10, Zenon DEF Escape, ClosingBrace
<1>12. Lead = L
  <2>1. Lead = L \o <<>>
    BY <1>9, <1>11, Zenon DEF Lead
  <2>2. L \o <<>> = L
    BY <1>5, MarkAssoc, NoMarks DEF MarkTexts
  <2>. QED BY <2>1, <2>2
<1>. QED BY <1>8, <1>9, <1>11, <1>12, Zenon DEF FieldAtHand

\* A field of a call that is promised, its argument and the number of it.
FieldOk(item, arg, n) ==
    /\ item \in Items /\ IsField(item) /\ arg \in Arguments /\ n \in Nat
    /\ arg.type # "custom"
    /\ IF HasSpec(item) THEN ValidSpec(item.spec, arg.type)
       /\ ~FieldDiverges(item.spec, arg) ELSE arg.type # "time"
    /\ item.index # Automatic => n = item.index /\ n < MaxArgCount

\* The inside of a field of a promised call has no brackets.
LEMMA FieldOkInside ==
    ASSUME NEW item, NEW arg, NEW n, FieldOk(item, arg, n)
    PROVE  /\ InsideOf(item) \in Seq(Unbracketed)
           /\ HasSpec(item) => item.spec \in ItemSpecs /\ Writable(item.spec)
<1>1. item \in Items /\ IsField(item)
      /\ (HasSpec(item) => ValidSpec(item.spec, arg.type) /\ ~FieldDiverges(item.spec, arg))
  BY Zenon DEF FieldOk
<1>2. HasSpec(item) => item.spec \in ItemSpecs
  BY <1>1, FieldMembers
<1>3. HasSpec(item) => Writable(item.spec)
  BY <1>1, <1>2, SpecShort
<1>. QED BY <1>1, <1>2, <1>3, InsideUnbracketed

\* The position of such a field is read.
LEMMA FieldPosition ==
    ASSUME NEW item, NEW arg, NEW n, FieldOk(item, arg, n), NEW L, NEW R,
           FieldAtHand(L, InsideOf(item), R),
           argCounter \in Nat, m_indexMode \in {"automatic", "manual"},
           item.index = Automatic => m_indexMode = "automatic" /\ argCounter = n
    PROVE  /\ FieldOpened(Position, item.index, argCounter, HasSpec(item),
              RenderSpec(item.spec) \o <<"}">>)
           /\ Position.spec = AtBegin(n)
<1>. DEFINE rest == IF HasSpec(item) THEN RenderSpec(item.spec) \o <<"}">> ELSE <<>>
            text == InsideOf(item) \o <<"}">>
            more == HasSpec(item)
            q == VerifyPositionalField(Parser(text, 0, argCounter, m_indexMode), "argPosition")
<1>1. item \in Items /\ IsField(item) /\ (item.index # Automatic => n = item.index /\ n < MaxArgCount)
  BY Zenon DEF FieldOk
<1>2. item.index \in Positions
  BY <1>1, FieldMembers
<1>3. more \in BOOLEAN
  BY DEF HasSpec
<1>4. rest \in MarkTexts
  <2>1. CASE HasSpec(item)
    <3>1. item.spec \in ItemSpecs /\ <<"}">> \in MarkTexts
      BY <2>1, FieldOkInside, BracketMarks, OneMark
    <3>2. RenderSpec(item.spec) \in MarkTexts
      BY <3>1, SpecRendered
    <3>3. RenderSpec(item.spec) \o <<"}">> \in MarkTexts
      BY <3>1, <3>2, Shift DEF Cat
    <3>. QED BY <2>1, <3>3
  <2>2. CASE ~HasSpec(item)
    BY <2>2, NoMarks
  <2>. QED BY <2>1, <2>2
<1>5. text = PositionText(item.index) \o OpenTail(more, rest)
  <2>1. text = PositionText(item.index) \o OpenTail(more, RenderSpec(item.spec) \o <<"}">>)
    BY <1>1, InsideOpened
  <2>2. OpenTail(more, RenderSpec(item.spec) \o <<"}">>) = OpenTail(more, rest)
    BY Zenon DEF OpenTail
  <2>. QED BY <2>1, <2>2
<1>6. item.index # Automatic => item.index < MaxArgCount
  BY <1>1
<1>7. Position = q
  <2>1. ArgBracket = text /\ Escape = <<>>
    BY Zenon DEF FieldAtHand
  <2>2. Len(Escape) = 0
    BY <2>1
  <2>. QED BY <2>1, <2>2, Zenon DEF Position, Then
<1>. HIDE DEF text, rest, more
<1>8. FieldOpened(q, item.index, argCounter, more, rest)
  BY <1>2, <1>3, <1>4, <1>5, <1>6, PositionRead
<1>. HIDE DEF q
<1>9. FieldOpened(q, item.index, argCounter, more, RenderSpec(item.spec) \o <<"}">>)
  BY <1>8, Zenon DEF FieldOpened, more, rest
<1>10. q.spec = AtBegin(n)
  BY <1>1, <1>8 DEF FieldOpened
<1>. QED BY <1>7, <1>9, <1>10 DEF more

\* The position of a field is read, and the specification behind it.
FieldSeen(p, item, counter, n) ==
    /\ FieldOpened(p, item.index, counter, HasSpec(item), RenderSpec(item.spec) \o <<"}">>)
    /\ p.spec = AtBegin(n)

SpecSeen(q, p, item, spec) ==
    /\ q.error = NoError /\ q.mode = p.mode /\ q.spec = spec
       /\ q.counter = CounterFor(item.spec, p.counter)

\* A time has at least one specification.
LEMMA MoreThanNone ==
    ASSUME NEW t \in Seq(STRING), t # <<>> PROVE Len(t) \in Nat /\ Len(t) # 0 /\ 1 \in 1 .. Len(t)
OBVIOUS

\* The specification behind a position is read as it was written, with the
\* argument counted if it has a precision.
LEMMA SpecifiedRead ==
    ASSUME NEW item, NEW arg, NEW n, FieldOk(item, arg, n), HasSpec(item), arg.type # "time",
           NEW p, NEW counter, FieldSeen(p, item, counter, n)
    PROVE  SpecSeen(Parse(p, arg.type), p, item, AfterType(n, item.spec, arg.type))
<1>. DEFINE spec == item.spec
            type == arg.type
            rest == RenderSpec(spec) \o <<"}">>
<1>1. arg \in Arguments /\ type \notin {"time", "custom"} /\ ValidSpec(spec, type)
      /\ ~FieldDiverges(spec, arg)
  BY Zenon DEF FieldOk
<1>2. spec \in ItemSpecs
  BY FieldOkInside
<1>3. p \in ParserStates /\ Ahead(p, rest)
  BY Zenon DEF FieldSeen, FieldOpened
<1>9. p.spec = AtBegin(n)
  BY Zenon DEF FieldSeen
<1>. HIDE DEF spec, type
<1>4. Suits(spec, type) /\ spec.times = <<>>
  BY <1>1, <1>2, SpecSuits DEF type
<1>5. rest = FillTail(spec, TypeTail(spec))
  BY <1>2, <1>4, SpecOpened
<1>6. Ahead(p, FillTail(spec, TypeTail(spec)))
  BY <1>3, <1>5
<1>. HIDE DEF rest
<1>7. /\ Parse(p, type).error = NoError /\ Parse(p, type).mode = p.mode
      /\ Parse(p, type).spec = AfterType(n, spec, type)
         /\ Parse(p, type).counter = CounterFor(spec, p.counter)
  BY <1>3, <1>4, <1>6, <1>9, SpecRead
<1>. QED BY <1>7, Zenon DEF spec, type, SpecSeen

\* The same for a specification of a time.
LEMMA TimeFieldRead ==
    ASSUME NEW item, NEW arg, NEW n, FieldOk(item, arg, n), HasSpec(item), arg.type = "time",
           NEW p, NEW counter, FieldSeen(p, item, counter, n)
    PROVE  /\ SpecSeen(ParseTimeField(p), p, item, TimeAfterLocale(n, item.spec))
           /\ ParseTimeField(p).times = TimesRead(item.spec.times) /\ ParseTimeField(p).times # <<>>
<1>. DEFINE spec == item.spec
            rest == RenderSpec(spec) \o <<"}">>
            q == ParseTimeField(p)
<1>1. arg \in Arguments /\ arg.type = "time" /\ ValidSpec(spec, arg.type) /\ ~FieldDiverges(spec, arg)
  BY Zenon DEF FieldOk
<1>2. spec \in ItemSpecs
  BY FieldOkInside
<1>3. p \in ParserStates /\ Ahead(p, rest)
  BY Zenon DEF FieldSeen, FieldOpened
<1>9. p.spec = AtBegin(n)
  BY Zenon DEF FieldSeen
<1>. HIDE DEF spec
<1>4. TimeSuits(spec) /\ spec.type = ""
  BY <1>1, <1>2, TimeSpecSuits
<1>5. rest = FillTail(spec, TimeTail(spec.times))
  BY <1>2, <1>4, SpecOpened
<1>6. Ahead(p, FillTail(spec, TimeTail(spec.times)))
  BY <1>3, <1>5
<1>. HIDE DEF rest
<1>7. /\ q.error = NoError /\ q.mode = p.mode /\ q.counter = p.counter
      /\ q.spec = TimeAfterLocale(n, spec) /\ q.times = TimesRead(spec.times)
  BY <1>3, <1>4, <1>6, <1>9, TimeSpecRead
<1>. HIDE DEF q
<1>10. CounterFor(spec, p.counter) = p.counter
  <2>1. spec.precision = 0
    BY <1>4, Zenon DEF TimeSuits
  <2>. QED BY <2>1, Zenon DEF CounterFor
<1>11. TimesRead(spec.times) # <<>>
  <2>1. spec.times # <<>> /\ spec.times \in Seq(STRING)
    BY <1>2, <1>4, SpecChars, Zenon DEF TimeSuits
  <2>. DEFINE t == spec.times
  <2>2. t # <<>> /\ t \in Seq(STRING)
    BY <2>1
  <2>. HIDE DEF t
  <2>3. Len(t) \in Nat /\ Len(t) # 0 /\ 1 \in 1 .. Len(t)
    BY <2>2, MoreThanNone, Zenon
  <2>4. DOMAIN TimesRead(t) = 1 .. Len(t)
    BY DEF TimesRead, TurnsRead
  <2>5. DOMAIN <<>> = {}
    OBVIOUS
  <2>6. TimesRead(t) # <<>>
    BY <2>3, <2>4, <2>5
  <2>. QED BY <2>6 DEF t
<1>. QED BY <1>7, <1>10, <1>11, Zenon DEF spec, q, SpecSeen

\* What is written for a field.
WrittenFor(item, arg, n) ==
    IF ~HasSpec(item) THEN WriteSimpleValue(buffer, arg)
    ELSE IF arg.type = "time"
         THEN FormatTimeField(TimeAfterLocale(n, item.spec), buffer, TimesRead(item.spec.times),
                              TimesRead(item.spec.times), arg.tm, Nested)
    ELSE Format(AfterType(n, item.spec, arg.type), buffer, arg, Nested)

\* A turn that writes a field with the text in front of it, and goes on.
FieldDone(item, arg, n, L, R) ==
    /\ status' = status /\ sv' = R /\ out' = ((out \o L) \o WrittenFor(item, arg, n).out) \o <<>>
    /\ buffer' = WrittenFor(item, arg, n).buffer
    /\ m_indexMode' = Position.mode
    /\ argCounter' = IF HasSpec(item) THEN CounterFor(item.spec, Position.counter) ELSE Position.counter
    /\ CallUnchanged

\* A turn that meets a field of a promised call writes it and goes on behind
\* it (ArgFormatter::ParseFormatString).
LEMMA FieldTurn ==
    ASSUME NEW item, NEW arg, NEW n, FieldOk(item, arg, n), NEW L, NEW R,
           FieldAtHand(L, InsideOf(item), R),
           argCounter \in Nat, m_indexMode \in {"automatic", "manual"},
           item.index = Automatic => m_indexMode = "automatic" /\ argCounter = n,
           status = "parsing", Len(sv) > 2, ~(Len(sv) <= 2), sv # <<"{", "}">>,
           types[n + 1] = arg.type, values[n + 1] = arg, ParseFormatString
    PROVE  FieldDone(item, arg, n, L, R)
<1>1. arg.type # "mono" /\ arg.type # "custom" /\ (~HasSpec(item) => arg.type # "time")
  <2>1. arg \in Arguments /\ arg.type # "custom" /\ (~HasSpec(item) => arg.type # "time")
    BY Zenon DEF FieldOk
  <2>2. arg.type # "mono"
    BY <2>1, ArgumentTypes
  <2>. QED BY <2>1, <2>2
<1>2. Argument(n) = arg
  BY <1>1, Zenon DEF Argument
<1>3. FieldOpened(Position, item.index, argCounter, HasSpec(item), RenderSpec(item.spec) \o <<"}">>)
      /\ Position.spec = AtBegin(n)
  BY FieldPosition
<1>4. Position.error = NoError /\ Position.more = HasSpec(item)
  BY <1>3, Zenon DEF FieldOpened
<1>5. Position.spec.argPosition = n
  <2>1. AtBegin(n).argPosition = n
    BY DEF AtBegin, SpecOf
  <2>. QED BY <1>3, <2>1, Zenon
<1>21. FieldSeen(Position, item, argCounter, n)
  BY <1>3, Zenon DEF FieldSeen
<1>6. Argument(Position.spec.argPosition) = arg
  BY <1>2, <1>5
<1>7. FieldAhead
  BY Zenon DEF FieldAhead, FieldAtHand
<1>8. /\ ~(Brackets = Unclosed) /\ ~(Brackets = NoBrackets) /\ Escape = <<>> /\ ClosingBrace = <<>>
         /\ Lead = L
      /\ SubSeq(sv, Brackets.end + 2, Len(sv)) = R
  BY Zenon DEF FieldAtHand
<1>9. ASSUME NEW spec, spec.widthArg = 0, spec.precisionArg = 0 PROVE Readable(spec)
  BY <1>9 DEF Readable
<1>10. ASSUME HasSpec(item), arg.type # "time"
       PROVE  /\ Parse(Position, arg.type).error = NoError
                 /\ Parse(Position, arg.type).mode = Position.mode
              /\ Parse(Position, arg.type).spec = AfterType(n, item.spec, arg.type)
              /\ Parse(Position, arg.type).counter = CounterFor(item.spec, Position.counter)
              /\ Readable(Parse(Position, arg.type).spec)
  <2>1. /\ Parse(Position, arg.type).error = NoError /\ Parse(Position, arg.type).mode = Position.mode
        /\ Parse(Position, arg.type).spec = AfterType(n, item.spec, arg.type)
        /\ Parse(Position, arg.type).counter = CounterFor(item.spec, Position.counter)
    <3>1. SpecSeen(Parse(Position, arg.type), Position, item, AfterType(n, item.spec, arg.type))
      BY <1>10, <1>21, SpecifiedRead
    <3>. QED BY <3>1, Zenon DEF SpecSeen
  <2>2. AfterType(n, item.spec, arg.type).widthArg = 0
        /\ AfterType(n, item.spec, arg.type).precisionArg = 0
    BY DEF AfterType, SpecOf
  <2>. QED BY <1>9, <2>1, <2>2
<1>11. ASSUME HasSpec(item), arg.type = "time"
       PROVE  /\ ParseTimeField(Position).error = NoError
                 /\ ParseTimeField(Position).mode = Position.mode
              /\ ParseTimeField(Position).spec = TimeAfterLocale(n, item.spec)
              /\ ParseTimeField(Position).counter = CounterFor(item.spec, Position.counter)
              /\ ParseTimeField(Position).times = TimesRead(item.spec.times)
                 /\ ParseTimeField(Position).times # <<>>
              /\ Readable(ParseTimeField(Position).spec)
  <2>1. /\ ParseTimeField(Position).error = NoError /\ ParseTimeField(Position).mode = Position.mode
        /\ ParseTimeField(Position).spec = TimeAfterLocale(n, item.spec)
        /\ ParseTimeField(Position).counter = CounterFor(item.spec, Position.counter)
        /\ ParseTimeField(Position).times = TimesRead(item.spec.times)
           /\ ParseTimeField(Position).times # <<>>
    <3>1. /\ SpecSeen(ParseTimeField(Position), Position, item, TimeAfterLocale(n, item.spec))
          /\ ParseTimeField(Position).times = TimesRead(item.spec.times)
             /\ ParseTimeField(Position).times # <<>>
      BY <1>11, <1>21, TimeFieldRead
    <3>. QED BY <3>1, Zenon DEF SpecSeen
  <2>2. TimeAfterLocale(n, item.spec).widthArg = 0 /\ TimeAfterLocale(n, item.spec).precisionArg = 0
    BY DEF TimeAfterLocale, SpecOf
  <2>. QED BY <1>9, <2>1, <2>2
<1>12. CallUnchanged
  BY Zenon DEF ParseFormatString
<1>13. ASSUME NEW q, NEW times, WriteField(q, WrittenFor(item, arg, n), times), q.mode = Position.mode,
              q.counter = IF HasSpec(item) THEN CounterFor(item.spec, Position.counter)
                   ELSE Position.counter
       PROVE  FieldDone(item, arg, n, L, R)
  <2>1. out' = ((out \o L) \o WrittenFor(item, arg, n).out) \o <<>>
    BY <1>8, <1>13, Zenon DEF WriteField
  <2>2. status' = status /\ sv' = R /\ buffer' = WrittenFor(item, arg, n).buffer
        /\ argCounter' = q.counter /\ m_indexMode' = q.mode
    BY <1>8, <1>13, Zenon DEF WriteField
  <2>. QED BY <1>12, <1>13, <2>1, <2>2, Zenon DEF FieldDone
<1>14. CASE WriteRest
  BY <1>8, <1>14, Zenon DEF WriteRest
<1>15. CASE WritePair
  BY <1>15, Zenon DEF WritePair
<1>16. CASE SubstituteSimple
  <2>1. ~Position.more /\ WriteField(Position, WriteSimpleValue(buffer, arg), timeSpec)
    <3>1. /\ ~Position.more
          /\ WriteField(Position, CASE arg.type = "custom" -> Written(CustomText, buffer)
                        [] arg.type = "time" -> WriteSimpleCTime(NoSpec, buffer, timeSpec, arg.tm)
                        [] OTHER -> WriteSimpleValue(buffer, arg), timeSpec)
      BY <1>6, <1>16, Zenon DEF SubstituteSimple
    <3>2. arg.type # "time"
      BY <1>1, <1>4, <3>1
    <3>. QED BY <1>1, <3>1, <3>2, Zenon
  <2>2. ~HasSpec(item) /\ WrittenFor(item, arg, n) = WriteSimpleValue(buffer, arg)
    BY <1>4, <2>1, Zenon DEF WrittenFor
  <2>. QED BY <1>13, <2>1, <2>2, Zenon
<1>17. CASE FormatCustom
  BY <1>1, <1>6, <1>17, Zenon DEF FormatCustom
<1>18. CASE FormatSpecified
  <2>1. Position.more /\ arg.type # "time" /\ FormatParsed(Parse(Position, arg.type), arg)
    BY <1>6, <1>18, Zenon DEF FormatSpecified
  <2>2. HasSpec(item)
    BY <1>4, <2>1
  <2>3. WriteField(Parse(Position, arg.type),
        Format(Parse(Position, arg.type).spec, buffer, arg, Nested), timeSpec)
    BY <1>10, <2>1, <2>2, Zenon DEF FormatParsed
  <2>4. WrittenFor(item, arg, n) = Format(Parse(Position, arg.type).spec, buffer, arg, Nested)
    BY <1>10, <2>1, <2>2, Zenon DEF WrittenFor
  <2>. QED BY <1>10, <1>13, <2>1, <2>2, <2>3, <2>4, Zenon
<1>19. CASE FormatTime
  <2>1. Position.more /\ arg.type = "time" /\ FormatParsedTime(ParseTimeField(Position), arg)
    BY <1>6, <1>19, Zenon DEF FormatTime
  <2>2. HasSpec(item)
    BY <1>4, <2>1
  <2>3. KeptTimes(ParseTimeField(Position)) = ParseTimeField(Position).times
    BY <1>11, <2>2, <2>1, Zenon DEF KeptTimes
  <2>4. \E times : WriteField(ParseTimeField(Position),
               FormatTimeField(ParseTimeField(Position).spec, buffer, ParseTimeField(Position).times,
                  ParseTimeField(Position).times, arg.tm, Nested), times)
    BY <1>11, <2>1, <2>2, <2>3, Zenon DEF FormatParsedTime
  <2>5. WrittenFor(item, arg, n)
          = FormatTimeField(ParseTimeField(Position).spec, buffer, ParseTimeField(Position).times,
             ParseTimeField(Position).times, arg.tm, Nested)
    BY <1>11, <2>1, <2>2, Zenon DEF WrittenFor
  <2>. QED BY <1>11, <1>13, <2>1, <2>2, <2>4, <2>5, Zenon
<1>20. CASE ReportError
  <2>1. \E p \in {Position} : p.error = NoError /\ p.more
           /\ (IF arg.type = "time" THEN ParseTimeField(p) ELSE Parse(p, arg.type)).error # NoError
    BY <1>4, <1>6, <1>8, <1>20, Zenon DEF ReportError
  <2>2. HasSpec(item) /\ (IF arg.type = "time" THEN ParseTimeField(Position)
          ELSE Parse(Position, arg.type)).error # NoError
    BY <1>4, <2>1
  <2>. QED BY <1>10, <1>11, <2>2
<1>. QED BY <1>14, <1>15, <1>16, <1>17, <1>18, <1>19, <1>20 DEF ParseFormatString

------------------------------------------------------------------------------
(****************************************************************************)
(* A call that is promised: where the loop stands, and what comes next.     *)
(****************************************************************************)

\* The fields among the first k items.
FieldsIn(items, k) == {i \in 1 .. k : IsField(items[i])}

\* The fields in front of an item are finitely many.
LEMMA FieldsCounted ==
    ASSUME NEW items, NEW k \in Nat
    PROVE  Cardinality(FieldsIn(items, k)) \in Nat /\ IsFiniteSet(FieldsIn(items, k))
<1>1. IsFiniteSet(1 .. k)
  BY FS_Interval
<1>2. FieldsIn(items, k) \subseteq 1 .. k
  BY DEF FieldsIn
<1>3. IsFiniteSet(FieldsIn(items, k))
  BY <1>1, <1>2, FS_Subset
<1>. QED BY <1>3, FS_CardinalityType

\* Behind a field there is one field more.
LEMMA OneMoreField ==
    ASSUME NEW items, NEW k \in Nat, NEW j \in Nat, k < j, IsField(items[j]),
           \A i \in k + 1 .. j - 1 : ~IsField(items[i])
    PROVE  /\ FieldsIn(items, j - 1) = FieldsIn(items, k)
           /\ Cardinality(FieldsIn(items, j)) = Cardinality(FieldsIn(items, k)) + 1
<1>1. FieldsIn(items, j - 1) = FieldsIn(items, k)
  <2>1. \A i \in 1 .. j - 1 : i \in 1 .. k \/ i \in k + 1 .. j - 1
    OBVIOUS
  <2>2. \A i \in 1 .. k : i \in 1 .. j - 1
    OBVIOUS
  <2>. QED BY <2>1, <2>2, Zenon DEF FieldsIn
<1>2. FieldsIn(items, j) = FieldsIn(items, k) \union {j}
  <2>1. \A i \in 1 .. j : i \in 1 .. j - 1 \/ i = j
    OBVIOUS
  <2>2. (\A i \in 1 .. j - 1 : i \in 1 .. j) /\ j \in 1 .. j
    OBVIOUS
  <2>3. FieldsIn(items, j) = FieldsIn(items, j - 1) \union {j}
    BY <2>1, <2>2 DEF FieldsIn
  <2>. QED BY <1>1, <2>3
<1>3. j \notin FieldsIn(items, k)
  <2>1. j \notin 1 .. k
    OBVIOUS
  <2>. QED BY <2>1 DEF FieldsIn
<1>4. IsFiniteSet(FieldsIn(items, k))
  BY FieldsCounted
<1>. HIDE DEF FieldsIn
<1>5. Cardinality(FieldsIn(items, k) \union {j}) = Cardinality(FieldsIn(items, k)) + 1
  BY <1>3, <1>4, FS_AddElement
<1>. QED BY <1>1, <1>2, <1>5

\* MAX_ARG_COUNT is a number.
LEMMA CountsArguments == MaxArgCount \in Nat
BY MaxArgCountAssumption

\* The call that is made has been captured.
CallInv ==
    /\ sv \in Seq(Marks) /\ use \in Seq(Calls)
    /\ call.items \in Seq(Items) /\ call.args \in Seq(Arguments) /\ Len(call.args) <= MaxArgCount
    /\ \A i \in 1 .. Len(call.args) : types[i] = call.args[i].type /\ values[i] = call.args[i]

\* The loop stands behind item k of a call that is promised.
Place(k) ==
    /\ k \in 0 .. Len(call.items) /\ sv = RestOf(call.items, k)
    /\ k = 0 \/ IsField(call.items[k])
    /\ argCounter \in Nat /\ m_indexMode \in {"automatic", "manual"}
    /\ (\E i \in k + 1 .. Len(call.items) : IsField(call.items[i]) /\ call.items[i].index = Automatic)
           => m_indexMode = "automatic" /\ argCounter = Cardinality(FieldsIn(call.items, k))

ArgOf(i) == call.args[ArgumentOf(call.items, i) + 1]

\* What a well-formed call and one that does not differ have in each field.
LEMMA PromisedField ==
    ASSUME CallInv, Promised, NEW j \in 1 .. Len(call.items), IsField(call.items[j])
    PROVE  /\ FieldOk(call.items[j], ArgOf(j), ArgumentOf(call.items, j))
           /\ ArgumentOf(call.items, j) + 1 \in 1 .. Len(call.args)
           /\ types[ArgumentOf(call.items, j) + 1] = ArgOf(j).type
              /\ values[ArgumentOf(call.items, j) + 1] = ArgOf(j)
           /\ call.items[j].index = Automatic
                  => /\ ArgumentOf(call.items, j) = Cardinality(FieldsIn(call.items, j - 1))
                     /\ \A i \in 1 .. Len(call.items) : IsField(call.items[i])
                        => call.items[i].index = Automatic
<1>. DEFINE item == call.items[j]
            n == ArgumentOf(call.items, j)
            arg == ArgOf(j)
            m == Len(call.args)
<1>1. item \in Items /\ j \in Nat /\ j - 1 \in Nat
  <2>1. call.items \in Seq(Items)
    BY DEF CallInv
  <2>. DEFINE items == call.items
  <2>2. items \in Seq(Items) /\ j \in 1 .. Len(items)
    BY <2>1
  <2>. HIDE DEF items
  <2>3. items[j] \in Items /\ j \in Nat /\ j - 1 \in Nat
    BY <2>2
  <2>. QED BY <2>3 DEF items
<1>2. WellFormed(call.items, call.args) /\ ~Diverges
  BY Zenon DEF Promised
<1>3. /\ n < m /\ arg.type # "custom"
      /\ (IF HasSpec(item) THEN ValidSpec(item.spec, arg.type) ELSE arg.type # "time")
  BY <1>2, Zenon DEF WellFormed, ArgOf
<1>4. HasSpec(item) => ~FieldDiverges(item.spec, arg)
  BY <1>2, Zenon DEF Diverges, ArgOf
<1>5. item.index = Automatic \/ item.index \in Nat
  <2>1. item.index \in Positions
    BY <1>1, FieldMembers
  <2>. QED BY <2>1 DEF Positions
<1>6. item.index # Automatic => n = item.index
  BY Zenon DEF ArgumentOf
<1>7. item.index = Automatic => n = Cardinality(FieldsIn(call.items, j - 1))
  BY Zenon DEF ArgumentOf, FieldsIn
<1>8. n \in Nat
  <2>1. Cardinality(FieldsIn(call.items, j - 1)) \in Nat
    BY <1>1, FieldsCounted
  <2>. QED BY <1>5, <1>6, <1>7, <2>1
<1>9. m \in Nat /\ m <= MaxArgCount /\ MaxArgCount \in Nat
  <2>1. call.args \in Seq(Arguments) /\ m <= MaxArgCount
    BY Zenon DEF CallInv
  <2>. DEFINE args == call.args
  <2>2. args \in Seq(Arguments)
    BY <2>1
  <2>. HIDE DEF args
  <2>3. Len(args) \in Nat
    BY <2>2
  <2>4. MaxArgCount \in Nat
    BY CountsArguments
  <2>. QED BY <2>1, <2>3, <2>4, Zenon DEF args
<1>. HIDE DEF n, m
<1>10. n + 1 \in 1 .. m /\ n < MaxArgCount
  BY <1>3, <1>8, <1>9
<1>11. types[n + 1] = arg.type /\ values[n + 1] = arg
  BY <1>10, Zenon DEF CallInv, ArgOf, n, m
<1>12. arg \in Arguments
  <2>1. call.args \in Seq(Arguments)
    BY Zenon DEF CallInv
  <2>. DEFINE args == call.args
  <2>2. args \in Seq(Arguments) /\ n + 1 \in 1 .. Len(args)
    BY <1>10, <2>1 DEF m
  <2>. HIDE DEF args
  <2>3. args[n + 1] \in Arguments
    BY <2>2
  <2>. QED BY <2>3 DEF args, ArgOf, n
<1>13. FieldOk(item, arg, n)
  BY <1>1, <1>3, <1>4, <1>6, <1>8, <1>10, <1>12, Zenon DEF FieldOk
<1>14. item.index = Automatic => \A i \in 1 .. Len(call.items) : IsField(call.items[i])
       => call.items[i].index = Automatic
  BY <1>2, Zenon DEF WellFormed
<1>. QED BY <1>7, <1>10, <1>11, <1>13, <1>14 DEF n, m

\* Items before the next field are text.
LEMMA PromisedText ==
    ASSUME CallInv, Promised, NEW i \in 1 .. Len(call.items), ~IsField(call.items[i])
    PROVE  IsText(call.items[i])
<1>1. ~IsRaw(call.items[i])
  BY Zenon DEF Promised, WellFormed
<1>2. call.items[i] \in Items
  <2>1. call.items \in Seq(Items)
    BY DEF CallInv
  <2>. DEFINE items == call.items
  <2>2. items \in Seq(Items) /\ i \in 1 .. Len(items)
    BY <2>1
  <2>. HIDE DEF items
  <2>3. items[i] \in Items
    BY <2>2
  <2>. QED BY <2>3 DEF items
<1>. QED BY <1>1, <1>2, ItemKinds

\* Either the rest is text, or there is a next field.
LEMMA NextField ==
    ASSUME NEW items \in Seq(Items), NEW k \in 0 .. Len(items),
           \A i \in 1 .. Len(items) : ~IsField(items[i]) => IsText(items[i])
    PROVE  \/ IsRun(items, k, Len(items) - k)
           \/ \E j \in k + 1 .. Len(items) : /\ IsField(items[j]) /\ IsRun(items, k, j - 1 - k)
                                             /\ \A i \in k + 1 .. j - 1 : ~IsField(items[i])
<1>. DEFINE n == Len(items)
            S == {i \in k + 1 .. n : IsField(items[i])}
<1>1. n \in Nat /\ k \in Nat /\ k <= n
  OBVIOUS
<1>. HIDE DEF n
<1>2. CASE S = {}
  <2>1. ASSUME NEW i \in 1 .. n - k PROVE IsText(items[k + i])
    <3>1. k + i \in k + 1 .. n /\ k + i \in 1 .. n
      BY <1>1
    <3>2. ~IsField(items[k + i])
      BY <1>2, <3>1
    <3>. QED BY <3>1, <3>2, Zenon DEF n
  <2>. QED BY <2>1, Zenon DEF IsRun, n
<1>3. CASE S # {}
  <2>1. S \in SUBSET Nat
    BY <1>1
  <2>2. PICK j \in S : \A i \in S : j <= i
    BY <1>3, <2>1, SmallestExists
  <2>3. ASSUME NEW i \in k + 1 .. j - 1 PROVE ~IsField(items[i]) /\ i \in 1 .. n
    <3>1. i \in k + 1 .. n /\ ~(j <= i) /\ i \in 1 .. n
      BY <1>1
    <3>. QED BY <2>2, <3>1
  <2>4. ASSUME NEW i \in 1 .. j - 1 - k PROVE IsText(items[k + i])
    <3>1. k + i \in k + 1 .. j - 1
      BY <1>1
    <3>. QED BY <2>3, <3>1, Zenon DEF n
  <2>5. j \in k + 1 .. n /\ IsField(items[j])
    OBVIOUS
  <2>6. IsRun(items, k, j - 1 - k) /\ \A i \in k + 1 .. j - 1 : ~IsField(items[i])
    BY <2>3, <2>4, Zenon DEF IsRun
  <2>. QED BY <2>5, <2>6, Zenon DEF n
<1>. QED BY <1>2, <1>3

\* The text of a field stands behind the text in front of it.
LEMMA FieldReached ==
    ASSUME NEW items \in Seq(Items), NEW k \in 0 .. Len(items), NEW j \in k + 1 .. Len(items),
           IsField(items[j]),
           IsRun(items, k, j - 1 - k), InsideOf(items[j]) \in Seq(Unbracketed), NEW s,
              s = RestOf(items, k)
    PROVE  FieldLaid(s, RunOf(items, k, j - 1 - k), InsideOf(items[j]), RestOf(items, j))
<1>. DEFINE d == j - 1 - k
            L == RunOf(items, k, d)
            R == RestOf(items, j)
            I == InsideOf(items[j])
<1>1. j \in Nat /\ k \in Nat /\ d \in 0 .. Len(items) - k /\ k + d = j - 1 /\ j \in 1 .. Len(items)
      /\ j \in 0 .. Len(items)
  OBVIOUS
<1>2. items[j] \in Items
  BY <1>1
<1>3. L \in Seq(Unbracketed) /\ s = L \o RestOf(items, j - 1)
  <2>1. IsRun(items, k, d)
    OBVIOUS
  <2>. HIDE DEF d
  <2>2. RunOf(items, k, d) \in Seq(Unbracketed)
        /\ RestOf(items, k) = RunOf(items, k, d) \o RestOf(items, k + d)
    BY <1>1, <2>1, RunRead
  <2>. QED BY <1>1, <2>2
<1>4. R \in Seq(Marks) /\ RestOf(items, j - 1) = RenderItem(items[j]) \o R
  BY <1>1, RestsOf
<1>5. RenderItem(items[j]) \o R = <<"{">> \o (I \o (<<"}">> \o R))
  BY <1>2, <1>4, FieldRendered
<1>6. I \in Seq(Unbracketed)
  OBVIOUS
<1>. HIDE DEF L, R, I
<1>7. FieldLaid(L \o (<<"{">> \o (I \o (<<"}">> \o R))), L, I, R)
  BY <1>3, <1>4, <1>6, FieldIsLaid
<1>. QED BY <1>3, <1>4, <1>5, <1>7 DEF L, R, I, d

\* A rest of text alone.
LEMMA RestOfText ==
    ASSUME NEW items \in Seq(Items), NEW k \in 0 .. Len(items), IsRun(items, k, Len(items) - k)
    PROVE  RestOf(items, k) \in Seq(Unbracketed) /\ RestOf(items, k) = RunOf(items, k, Len(items) - k)
<1>. DEFINE d == Len(items) - k
            L == RunOf(items, k, d)
<1>1. d \in 0 .. Len(items) - k /\ k + d = Len(items) /\ Len(items) \in 0 .. Len(items)
  OBVIOUS
<1>2. IsRun(items, k, d)
  OBVIOUS
<1>. HIDE DEF d
<1>3. RunOf(items, k, d) \in Seq(Unbracketed)
      /\ RestOf(items, k) = RunOf(items, k, d) \o RestOf(items, k + d)
  BY <1>1, <1>2, RunRead
<1>4. RestOf(items, k + d) = <<>>
  BY <1>1, RestsOf
<1>5. L \in Seq(Marks)
  BY <1>3, UnbracketedMarks
<1>. HIDE DEF L
<1>6. L \o <<>> = L
  BY <1>5, MarkAssoc
<1>. QED BY <1>3, <1>4, <1>6 DEF L, d

\* A text that begins with a character is not empty.
LEMMA BegunText ==
    ASSUME NEW x \in Marks, NEW t \in Seq(Marks) PROVE <<x>> \o t # <<>>
OBVIOUS

\* A character or a field is not rendered as nothing.
LEMMA RenderedOnce ==
    ASSUME NEW items \in Seq(Items), NEW j \in 1 .. Len(items), IsText(items[j]) \/ IsField(items[j])
    PROVE  RestOf(items, j - 1) # <<>>
<1>. DEFINE R == RestOf(items, j)
            item == items[j]
<1>1. item \in Items /\ j \in 0 .. Len(items)
  OBVIOUS
<1>2. R \in Seq(Marks) /\ RestOf(items, j - 1) = RenderItem(item) \o R
  BY <1>1, RestsOf
<1>. HIDE DEF R, item
<1>3. CASE IsText(item)
  <2>1. RenderItem(item) = <<item.char>> /\ item.char \in Marks
    BY <1>1, <1>3, TextChar
  <2>. DEFINE c == item.char
  <2>2. c \in Marks /\ RenderItem(item) = <<c>>
    BY <2>1
  <2>. HIDE DEF c
  <2>3. <<c>> \o R # <<>>
    BY <1>2, <2>2
  <2>. QED BY <1>2, <2>2, <2>3
<1>4. CASE IsField(item)
  <2>1. InsideOf(item) \in MarkTexts
        /\ RenderItem(item) \o R = <<"{">> \o (InsideOf(item) \o (<<"}">> \o R))
    BY <1>1, <1>2, <1>4, FieldRendered
  <2>. DEFINE I == InsideOf(item)
              c == <<"}">>
              t == I \o (c \o R)
  <2>2. c \in MarkTexts /\ I \in MarkTexts /\ R \in MarkTexts
    BY <1>2, <2>1, BracketMarks, OneLong DEF MarkTexts
  <2>. HIDE DEF I, c
  <2>3. t \in Seq(Marks)
    BY <2>2, MarkAssoc DEF MarkTexts
  <2>4. "{" \in Marks
    BY BracketMarks
  <2>. HIDE DEF t
  <2>5. <<"{">> \o t # <<>>
    BY <2>3, <2>4, BegunText
  <2>. QED BY <1>2, <2>1, <2>5 DEF I, c, t
<1>. QED BY <1>3, <1>4 DEF item

\* A text with a field in it has more than two characters, or is the brackets
\* alone.
LEMMA TwoLong ==
    ASSUME NEW a \in Nat, NEW b \in Nat, NEW c \in Nat, NEW n, n = a + 2 + b + c
    PROVE  (n > 2 /\ ~(n <= 2)) \/ (a = 0 /\ b = 0 /\ c = 0 /\ n = 2 /\ n <= 2 /\ ~(n > 2))
OBVIOUS

\* Two characters are a text.
LEMMA PairMarks ==
    ASSUME NEW x \in Marks, NEW y \in Marks PROVE <<x, y>> \in Seq(Marks)
OBVIOUS

\* The positions of two characters.
LEMMA OneOrTwo == \A i \in 1 .. 2 : i = 1 \/ i = 2
OBVIOUS

\* A text of the two brackets.
LEMMA PairText ==
    ASSUME NEW s \in Seq(Marks), Len(s) = 2, s[1] = "{", s[2] = "}"
    PROVE  s = <<"{", "}">>
<1>. DEFINE t == <<"{", "}">>
<1>1. t \in Seq(Marks) /\ Len(t) = 2 /\ t[1] = "{" /\ t[2] = "}"
  <2>1. t \in Seq(Marks)
    BY BracketMarks, PairMarks
  <2>2. Len(t) = 2 /\ t[1] = "{" /\ t[2] = "}"
    OBVIOUS
  <2>. QED BY <2>1, <2>2
<1>. HIDE DEF t
<1>2. \A i \in 1 .. 2 : i = 1 \/ i = 2
  BY OneOrTwo
<1>3. \A i \in 1 .. Len(s) : s[i] = t[i]
  BY <1>1, <1>2
<1>4. Len(s) = Len(t)
  BY <1>1
<1>5. s = t
  BY <1>1, <1>3, <1>4, SameMarks, Zenon
<1>. QED BY <1>5, Zenon DEF t

\* A text without characters is empty.
LEMMA NoLength ==
    ASSUME NEW s \in Seq(Marks), Len(s) = 0 PROVE s = <<>>
OBVIOUS

\* A field of two characters that nothing surrounds.
Brief(s) == ~(Len(s) > 2) \/ Len(s) <= 2 \/ s = <<"{", "}">>

\* A text with a field that is not longer than two characters has two.
LEMMA BriefSize ==
    ASSUME NEW s, Brief(s), NEW n, n = Len(s), (n > 2 /\ ~(n <= 2)) \/ n = 2
    PROVE  n = 2
<1>1. CASE s = <<"{", "}">>
  BY <1>1
<1>2. CASE ~(Len(s) > 2) \/ Len(s) <= 2
  BY <1>2, Zenon
<1>. QED BY <1>1, <1>2, Zenon DEF Brief

IsPair(s, L, I, R) ==
    s = <<"{", "}">> /\ I = <<>> /\ L = <<>> /\ R = <<>> /\ ~(Len(s) > 2) /\ Len(s) <= 2

\* It is the two brackets, with nothing inside or around.
LEMMA BarePair ==
    ASSUME NEW s, NEW L, NEW I, NEW R, FieldLaid(s, L, I, R), Brief(s)
    PROVE  IsPair(s, L, I, R)
<1>. DEFINE a == Len(L)
            b == Len(I)
            c == Len(R)
            n == Len(s)
<1>1. a \in Nat /\ b \in Nat /\ c \in Nat /\ n = a + 2 + b + c
  BY LaidLengths
<1>2. L \in Seq(Marks) /\ I \in Seq(Marks) /\ R \in Seq(Marks) /\ s \in Seq(Marks)
  BY LaidText, Zenon
<1>3. s[a + 1] = "{" /\ s[a + 2 + b] = "}"
  BY LaidBrackets, Zenon
<1>4. n = Len(s) /\ Brief(s)
  OBVIOUS
<1>. HIDE DEF a, b, c, n
<1>5. (n > 2 /\ ~(n <= 2)) \/ (a = 0 /\ b = 0 /\ c = 0 /\ n = 2 /\ n <= 2 /\ ~(n > 2))
  BY <1>1, TwoLong
<1>6. n = 2
  <2>1. (n > 2 /\ ~(n <= 2)) \/ n = 2
    BY <1>5, Zenon
  <2>. QED BY <1>4, <2>1, BriefSize, Zenon
<1>7. a = 0 /\ b = 0 /\ c = 0 /\ n <= 2 /\ ~(n > 2)
  BY <1>5, <1>6
<1>8. s[1] = "{" /\ s[2] = "}"
  <2>1. a + 1 = 1 /\ a + 2 + b = 2
    BY <1>7
  <2>. QED BY <1>3, <2>1, Zenon
<1>9. s = <<"{", "}">>
  <2>1. Len(s) = 2
    BY <1>4, <1>6
  <2>. QED BY <1>2, <1>8, <2>1, PairText
<1>10. I = <<>> /\ L = <<>> /\ R = <<>>
  BY <1>2, <1>7, NoLength, Zenon DEF a, b, c
<1>. QED BY <1>7, <1>9, <1>10, Zenon DEF n, IsPair

\* A turn that writes what is left.
RestTurn(k) ==
    /\ IsRun(call.items, k, Len(call.items) - k) /\ status' = "done"
       /\ out' = out \o RestOf(call.items, k)
    /\ sv' = sv /\ CallUnchanged

\* A turn that writes the one field of a call without a specification.
PairTurn(k) ==
    /\ k = 0 /\ Len(call.items) = 1 /\ call.items[1] = Plain(Automatic) /\ WritePair /\ CallUnchanged

\* A turn that writes field j behind the text that follows item k.
NextTurn(k, j) ==
    /\ j \in k + 1 .. Len(call.items) /\ IsField(call.items[j]) /\ IsRun(call.items, k, j - 1 - k)
    /\ \A i \in k + 1 .. j - 1 : ~IsField(call.items[i])
    /\ FieldOpened(Position, call.items[j].index, argCounter, HasSpec(call.items[j]),
       RenderSpec(call.items[j].spec) \o <<"}">>)
    /\ FieldDone(call.items[j], ArgOf(j), ArgumentOf(call.items, j), RunOf(call.items, k, j - 1 - k),
       RestOf(call.items, j))

\* The brackets alone are two characters.
LEMMA PairLength == \A s : s = <<"{", "}">> => Len(s) = 2 /\ s[1] = "{" /\ 1 \in 1 .. 2
<1>1. Len(<<"{", "}">>) = 2 /\ <<"{", "}">>[1] = "{" /\ 1 \in 1 .. 2
  OBVIOUS
<1>. QED BY <1>1, Zenon

\* A turn that finds no brackets writes the rest and ends (WriteRest).
LEMMA TextAlone ==
    ASSUME sv \in Seq(Unbracketed), ParseFormatString
    PROVE  status' = "done" /\ out' = out \o sv /\ sv' = sv /\ CallUnchanged
<1>1. Brackets = NoBrackets
  BY NoneFound DEF Brackets
<1>2. ~(Brackets.end >= 0) /\ ~(Brackets = Unclosed)
  BY <1>1 DEF NoBrackets, Unclosed
<1>3. ~FieldAhead
  BY <1>2, Zenon DEF FieldAhead
<1>4. sv # <<"{", "}">>
  <2>. SUFFICES ASSUME sv = <<"{", "}">> PROVE FALSE
    OBVIOUS
  <2>1. Len(sv) = 2 /\ sv[1] = "{" /\ 1 \in 1 .. 2
    BY PairLength
  <2>2. \A i \in 1 .. Len(sv) : sv[i] \in Unbracketed
    BY UnbracketedLength
  <2>3. sv[1] \in Unbracketed
    BY <2>1, <2>2, Zenon
  <2>4. "{" \notin Unbracketed
    BY DEF Unbracketed
  <2>. QED BY <2>1, <2>3, <2>4
<1>5. CallUnchanged
  BY Zenon DEF ParseFormatString
<1>6. WriteRest
  BY <1>2, <1>3, <1>4, Zenon
     DEF ParseFormatString, WritePair, SubstituteSimple, FormatCustom, FormatSpecified, FormatTime,
        ReportError
<1>7. status' = "done" /\ out' = out \o sv /\ sv' = sv
  BY <1>6, Zenon DEF WriteRest, EndCall, StopCall
<1>. QED BY <1>5, <1>7

\* A turn that finds "{}" alone prints argument 0 and ends (WritePair).
LEMMA PairAlone ==
    ASSUME sv = <<"{", "}">>, Len(sv) <= 2, ~(Len(sv) > 2), ParseFormatString
    PROVE  WritePair /\ CallUnchanged
<1>1. ~FieldAhead
  BY Zenon DEF FieldAhead
<1>2. ~WriteRest
  BY Zenon DEF WriteRest
<1>. QED
  BY <1>1, <1>2, Zenon
     DEF ParseFormatString, SubstituteSimple, FormatCustom, FormatSpecified, FormatTime, ReportError

\* The items of a call.
LEMMA CallItems ==
    ASSUME CallInv
    PROVE  Len(call.items) \in Nat /\ \A i \in 1 .. Len(call.items) : call.items[i] \in Items
<1>1. call.items \in Seq(Items)
  BY DEF CallInv
<1>. DEFINE items == call.items
<1>2. items \in Seq(Items)
  BY <1>1
<1>. HIDE DEF items
<1>3. Len(items) \in Nat /\ \A i \in 1 .. Len(items) : items[i] \in Items
  BY <1>2
<1>. QED BY <1>3 DEF items

\* A field without a position or a specification has nothing between its brackets.
LEMMA NothingInside ==
    ASSUME NEW item \in Items, IsField(item), InsideOf(item) = <<>>
    PROVE  item = Plain(Automatic)
<1>1. /\ item.index \in Positions /\ (HasSpec(item) => item.spec \in ItemSpecs)
      /\ (~HasSpec(item) => item = Plain(item.index))
  BY FieldMembers
<1>. DEFINE a == PositionText(item.index)
            b == OptionalIf(HasSpec(item), <<":">> \o RenderSpec(item.spec))
<1>2. a \in Seq(Marks)
  BY FieldRendered, BracketMarks, NoMarks DEF MarkTexts
<1>3. b \in Seq(Marks) /\ (HasSpec(item) => b # <<>>)
  <2>1. CASE HasSpec(item)
    <3>1. RenderSpec(item.spec) \in MarkTexts
      <4>1. item.spec \in ItemSpecs
        BY <1>1, <2>1
      <4>. QED BY <4>1, NoMarks, SpecRendered
    <3>. DEFINE t == RenderSpec(item.spec)
                o == <<":">>
    <3>2. ":" \in Marks
      <4>1. ":" \in Fixed
        BY DEF Fixed
      <4>. QED BY <4>1, MarksInclude
    <3>3. t \in Seq(Marks) /\ o \in Seq(Marks)
      BY <3>1, <3>2, OneLong DEF MarkTexts
    <3>. HIDE DEF t
    <3>4. o \o t # <<>>
      BY <3>2, <3>3, BegunText
    <3>. HIDE DEF o
    <3>5. o \o t \in Seq(Marks)
      BY <3>3, MarkAssoc
    <3>. QED BY <2>1, <3>4, <3>5 DEF o, t, OptionalIf
  <2>2. CASE ~HasSpec(item)
    BY <2>2, NoMarks DEF OptionalIf, MarkTexts
  <2>. QED BY <2>1, <2>2
<1>4. a \o b = <<>>
  BY DEF InsideOf
<1>5. item.index # Automatic => a # <<>>
  <2>1. item.index # Automatic => item.index \in Nat
    BY <1>1 DEF Positions
  <2>2. 10 \in Bases
    BY DEF Bases
  <2>3. item.index # Automatic => ToChars(item.index, 10) # <<>>
    BY <2>1, <2>2, NaturalText, DigitsInside
  <2>. QED BY <2>3, Zenon DEF PositionText, OptionalIf
<1>. HIDE DEF a, b
<1>6. a = <<>> /\ b = <<>>
  <2>1. Len(a \o b) = Len(a) + Len(b) /\ Len(a) \in Nat /\ Len(b) \in Nat
    <3>1. LaidBehind(a \o b, a, b)
      BY <1>2, <1>3, Laid
    <3>. QED BY <3>1, Zenon DEF LaidBehind
  <2>2. Len(a \o b) = 0
    BY <1>4
  <2>3. Len(a) = 0 /\ Len(b) = 0
    BY <2>1, <2>2
  <2>. QED BY <1>2, <1>3, <2>3, NoLength
<1>. QED BY <1>1, <1>3, <1>5, <1>6

\* One turn of the loop, for a call that is promised.
LEMMA Turn ==
    ASSUME CallInv, Promised, status = "parsing", NEW k, Place(k), ParseFormatString
    PROVE  RestTurn(k) \/ PairTurn(k) \/ \E j \in k + 1 .. Len(call.items) : NextTurn(k, j)
<1>. DEFINE items == call.items
            n == Len(call.items)
<1>1. items \in Seq(Items) /\ k \in 0 .. n /\ sv = RestOf(items, k) /\ (k = 0 \/ IsField(items[k]))
      /\ argCounter \in Nat /\ m_indexMode \in {"automatic", "manual"}
  BY Zenon DEF CallInv, Place
<1>2. \A i \in 1 .. n : items[i] \in Items /\ (~IsField(items[i]) => IsText(items[i]))
  BY CallItems, PromisedText
<1>3. n \in Nat /\ k \in Nat /\ k <= n
  <2>1. n \in Nat
    BY CallItems
  <2>. HIDE DEF n
  <2>. QED BY <1>1, <2>1
<1>4. CallUnchanged
  BY Zenon DEF ParseFormatString
<1>. HIDE DEF items
<1>5. \/ IsRun(items, k, n - k)
      \/ \E j \in k + 1 .. n : /\ IsField(items[j]) /\ IsRun(items, k, j - 1 - k)
                               /\ \A i \in k + 1 .. j - 1 : ~IsField(items[i])
  <2>1. \A i \in 1 .. Len(items) : ~IsField(items[i]) => IsText(items[i])
    BY <1>2 DEF items
  <2>2. k \in 0 .. Len(items)
    BY <1>1 DEF items
  <2>3. n = Len(items)
    BY DEF items
  <2>. HIDE DEF n
  <2>. QED BY <1>1, <2>1, <2>2, <2>3, NextField
<1>6. CASE IsRun(items, k, n - k)
  <2>1. RestOf(items, k) \in Seq(Unbracketed)
    BY <1>1, <1>6, RestOfText DEF items
  <2>2. sv \in Seq(Unbracketed)
    BY <1>1, <2>1
  <2>3. status' = "done" /\ out' = out \o sv /\ sv' = sv
    BY <2>2, TextAlone
  <2>4. RestTurn(k)
    BY <1>1, <1>4, <1>6, <2>3, Zenon DEF RestTurn, items
  <2>. QED BY <2>4
<1>7. CASE \E j \in k + 1 .. n : /\ IsField(items[j]) /\ IsRun(items, k, j - 1 - k)
                               /\ \A i \in k + 1 .. j - 1 : ~IsField(items[i])
  <2>1. PICK j \in k + 1 .. n : /\ IsField(items[j]) /\ IsRun(items, k, j - 1 - k)
                                /\ \A i \in k + 1 .. j - 1 : ~IsField(items[i])
    BY <1>7
  <2>. DEFINE item == items[j]
              arg == ArgOf(j)
              at == ArgumentOf(items, j)
              L == RunOf(items, k, j - 1 - k)
              I == InsideOf(item)
              R == RestOf(items, j)
  <2>2. j \in Nat /\ k < j /\ j \in 1 .. n
    BY <1>3
  <2>3. item \in Items /\ IsField(item)
    BY <1>2, <2>1, <2>2
  <2>4. /\ FieldOk(item, arg, at) /\ types[at + 1] = arg.type /\ values[at + 1] = arg
        /\ item.index = Automatic => at = Cardinality(FieldsIn(items, j - 1))
    <3>1. j \in 1 .. Len(call.items) /\ IsField(call.items[j])
      BY <2>1, <2>2 DEF items
    <3>. QED BY <3>1, PromisedField DEF items
  <2>5. I \in Seq(Unbracketed)
    BY <2>4, FieldOkInside
  <2>6. FieldLaid(sv, L, I, R)
    BY <1>1, <2>1, <2>5, FieldReached DEF items
  <2>7. item.index = Automatic => m_indexMode = "automatic" /\ argCounter = at
    <3>. SUFFICES ASSUME item.index = Automatic PROVE m_indexMode = "automatic" /\ argCounter = at
      OBVIOUS
    <3>1. m_indexMode = "automatic" /\ argCounter = Cardinality(FieldsIn(items, k))
      <4>1. (\E i \in k + 1 .. Len(items) : IsField(items[i]) /\ items[i].index = Automatic)
              => m_indexMode = "automatic" /\ argCounter = Cardinality(FieldsIn(items, k))
        BY Zenon DEF Place, items
      <4>. QED BY <2>1, <4>1, Zenon DEF items
    <3>2. FieldsIn(items, j - 1) = FieldsIn(items, k)
      BY <1>3, <2>1, <2>2, OneMoreField
    <3>. QED BY <2>4, <3>1, <3>2
  <2>. HIDE DEF item, arg, at, L, I, R
  <2>8. CASE Brief(sv)
    <3>10. IsPair(sv, L, I, R)
      BY <2>6, <2>8, BarePair
    <3>1. sv = <<"{", "}">> /\ I = <<>> /\ R = <<>> /\ ~(Len(sv) > 2) /\ Len(sv) <= 2
      BY <3>10, Zenon DEF IsPair
    <3>2. item = Plain(Automatic)
      BY <2>3, <3>1, NothingInside DEF I
    <3>3. j = n
      <4>. SUFFICES ASSUME j # n PROVE FALSE
        OBVIOUS
      <4>1. j + 1 \in 1 .. n /\ j + 1 - 1 = j
        BY <1>3, <2>2
      <4>2. IsText(items[j + 1]) \/ IsField(items[j + 1])
        BY <1>2, <4>1
      <4>3. RestOf(items, j + 1 - 1) # <<>>
        <5>1. j + 1 \in 1 .. Len(items)
          BY <4>1 DEF items
        <5>. QED BY <1>1, <4>2, <5>1, RenderedOnce
      <4>. QED BY <3>1, <4>1, <4>3 DEF R
    <3>4. L = <<>>
      BY <3>10, Zenon DEF IsPair
    <3>5. j - 1 = k
      <4>1. DOMAIN L = 1 .. j - 1 - k
        BY DEF L, RunOf
      <4>2. 1 .. j - 1 - k = {}
        BY <3>4, <4>1
      <4>. QED BY <1>3, <2>2, <4>2
    <3>6. k = 0
      <4>. SUFFICES ASSUME k # 0 PROVE FALSE
        OBVIOUS
      <4>1. IsField(items[n - 1]) /\ n > 1 /\ n - 1 \in 1 .. n
        <5>1. n - 1 = k /\ n > 1 /\ n - 1 \in 1 .. n
          BY <1>3, <2>2, <3>3, <3>5
        <5>. QED BY <1>1, <5>1
      <4>2. items[n] = Plain(Automatic)
        BY <3>2, <3>3 DEF item
      <4>3. Diverges
        BY <4>1, <4>2, Zenon DEF Diverges, items
      <4>. QED BY <4>3, Zenon DEF Promised
    <3>7. n = 1 /\ items[1] = Plain(Automatic)
      <4>1. n = 1
        BY <1>3, <2>2, <3>3, <3>5, <3>6
      <4>. QED BY <3>2, <3>3, <4>1 DEF item
    <3>8. WritePair
      BY <3>1, PairAlone
    <3>9. PairTurn(k)
      BY <1>4, <3>6, <3>7, <3>8, Zenon DEF PairTurn, items
    <3>. QED BY <3>9
  <2>9. CASE ~Brief(sv)
    <3>1. Len(sv) > 2 /\ ~(Len(sv) <= 2) /\ sv # <<"{", "}">>
      BY <2>9, Zenon DEF Brief
    <3>2. FieldAtHand(L, I, R)
      BY <2>6, BracketsRead
    <3>3. FieldDone(item, arg, at, L, R)
      BY <1>1, <2>4, <2>7, <3>1, <3>2, FieldTurn DEF I
    <3>4. FieldOpened(Position, item.index, argCounter, HasSpec(item), RenderSpec(item.spec) \o <<"}">>)
      BY <1>1, <2>4, <2>7, <3>2, FieldPosition DEF I
    <3>5. NextTurn(k, j)
      BY <2>1, <3>3, <3>4, Zenon DEF NextTurn, item, arg, at, L, R, items
    <3>. QED BY <2>1, <3>5
  <2>. QED BY <2>8, <2>9
<1>. QED BY <1>5, <1>6, <1>7

------------------------------------------------------------------------------
(****************************************************************************)
(* Every turn uses up a part of the format string, whatever it is.          *)
(****************************************************************************)

\* A set of numbers that is not empty has a smallest one.
LEMMA MinOf ==
    ASSUME NEW S \in SUBSET Nat, S # {}
    PROVE  Min(S) \in S
<1>1. \E x \in S : \A y \in S : x <= y
  BY SmallestExists
<1>. QED BY <1>1, Zenon DEF Min

\* The opening bracket and the closing one, if both are found, are characters of
\* the text, the opening one in front (ArgFormatter::FindBrackets).
LEMMA BracketsInside ==
    ASSUME NEW s \in Seq(Marks), FindBrackets(s).end >= 0
    PROVE  /\ FindBrackets(s).begin \in 0 .. Len(s) - 1 /\ FindBrackets(s).end \in 0 .. Len(s) - 1
           /\ FindBrackets(s).begin < FindBrackets(s).end
<1>. DEFINE at(chars, from) == {i \in from .. Len(s) - 1 : At(s, i) \in chars}
            begin == Min(at({"{"}, 0))
            next == Min(at({"{", "}"}, begin + 1))
            closing == Min(at({"}"}, next + 1))
            end == Min(at({"}"}, closing + 1))
            found == FindBrackets(s)
<1>1. Len(s) \in Nat
  OBVIOUS
<1>2. ASSUME NEW chars, NEW from \in Nat, at(chars, from) # {}
      PROVE  Min(at(chars, from)) \in Nat /\ Min(at(chars, from)) \in from .. Len(s) - 1
  <2>1. at(chars, from) \in SUBSET Nat
    BY <1>1, SMT
  <2>. HIDE DEF at
  <2>2. Min(at(chars, from)) \in at(chars, from)
    BY <1>2, <2>1, MinOf
  <2>3. at(chars, from) \subseteq from .. Len(s) - 1
    BY DEF at
  <2>. QED BY <2>1, <2>2, <2>3
<1>3. found = CASE at({"{"}, 0) = {} -> NoBrackets
                [] at({"{"}, 0) # {} /\ at({"{", "}"}, begin + 1) = {} -> Unclosed
                [] OTHER ->
                     IF At(s, next) = "}" THEN [begin |-> begin, end |-> next]
                     ELSE IF at({"}"}, next + 1) = {} \/ at({"}"}, closing + 1) = {} THEN Unclosed
                          ELSE [begin |-> begin, end |-> end]
  BY DEF FindBrackets
<1>. HIDE DEF found, end, closing, next, begin, at
<1>4. ~(-1 >= 0)
  BY SMT
<1>5. found # NoBrackets /\ found # Unclosed
  BY <1>4 DEF NoBrackets, Unclosed, found
<1>6. at({"{"}, 0) # {} /\ at({"{", "}"}, begin + 1) # {}
  BY <1>3, <1>5
<1>7. begin \in Nat /\ begin \in 0 .. Len(s) - 1
  BY <1>2, <1>6 DEF begin
<1>8. next \in Nat /\ next \in begin + 1 .. Len(s) - 1
  <2>1. begin + 1 \in Nat
    BY <1>7, SMT
  <2>. QED BY <1>2, <1>6, <2>1 DEF next
<1>9. CASE At(s, next) = "}"
  <2>1. found = [begin |-> begin, end |-> next]
    BY <1>3, <1>6, <1>9
  <2>2. begin < next /\ next \in 0 .. Len(s) - 1
    BY <1>1, <1>7, <1>8, SMT
  <2>. QED BY <1>7, <2>1, <2>2 DEF found
<1>10. CASE At(s, next) # "}"
  <2>1. at({"}"}, next + 1) # {} /\ at({"}"}, closing + 1) # {}
        /\ found = [begin |-> begin, end |-> end]
    BY <1>3, <1>5, <1>6, <1>10
  <2>2. closing \in Nat /\ closing \in next + 1 .. Len(s) - 1
    <3>1. next + 1 \in Nat
      BY <1>8, SMT
    <3>. QED BY <1>2, <2>1, <3>1 DEF closing
  <2>3. end \in Nat /\ end \in closing + 1 .. Len(s) - 1
    <3>1. closing + 1 \in Nat
      BY <2>2, SMT
    <3>. QED BY <1>2, <2>1, <3>1 DEF end
  <2>4. begin < end /\ end \in 0 .. Len(s) - 1
    BY <1>1, <1>7, <1>8, <2>2, <2>3, SMT
  <2>5. found.begin = begin /\ found.end = end
    BY <2>1
  <2>. QED BY <1>7, <2>4, <2>5 DEF found
<1>. QED BY <1>9, <1>10

\* What is left of the format string is a text, and the calls to come are calls.
TextInv == sv \in Seq(Marks) /\ use \in Seq(Calls)

\* A part of a text is a text, behind its first characters a shorter one.
LEMMA PartOf ==
    ASSUME NEW s \in Seq(Marks), NEW i \in 0 .. Len(s) - 1
    PROVE  /\ SubSeq(s, i + 2, Len(s)) \in Seq(Marks)
           /\ Len(SubSeq(s, i + 2, Len(s))) < Len(s)
OBVIOUS

\* A turn ends the call, or takes the field off (ArgFormatter::ParseFormatString).
LEMMA TurnShortens ==
    ASSUME TextInv, ParseFormatString
    PROVE  /\ \/ status' # "parsing" /\ sv' = sv
              \/ /\ status' = status /\ Brackets.end >= 0
                 /\ sv' = SubSeq(sv, Brackets.end + 2, Len(sv))
           /\ use' = use
<1>1. use' = use
  BY DEF ParseFormatString, CallUnchanged
<1>2. ASSUME NEW result \in {"done", "error", "crashed"}, NEW written, StopCall(result, written)
      PROVE  status' # "parsing" /\ sv' = sv
  BY <1>2 DEF StopCall
<1>3. ASSUME NEW p, NEW written, NEW times, WriteField(p, written, times)
      PROVE  status' = status /\ sv' = SubSeq(sv, Brackets.end + 2, Len(sv))
  BY <1>3 DEF WriteField
<1>4. CASE WriteRest
  BY <1>1, <1>2, <1>4 DEF WriteRest, EndCall
<1>5. CASE WritePair
  BY <1>1, <1>5, Zenon DEF WritePair
<1>6. CASE SubstituteSimple
  <2>1. FieldAhead /\ \E p, written, times : WriteField(p, written, times)
    BY <1>6, Zenon DEF SubstituteSimple
  <2>. QED BY <1>1, <1>3, <2>1 DEF FieldAhead
<1>7. CASE FormatCustom
  <2>1. FieldAhead /\ \E p, written, times : WriteField(p, written, times)
    BY <1>7, Zenon DEF FormatCustom
  <2>. QED BY <1>1, <1>3, <2>1 DEF FieldAhead
<1>8. CASE FormatSpecified
  <2>1. FieldAhead /\ \E q, arg : FormatParsed(q, arg)
    BY <1>8, Zenon DEF FormatSpecified
  <2>2. \/ \E p, written, times : WriteField(p, written, times)
        \/ StopCall("crashed", Lead)
    BY <2>1, Zenon DEF FormatParsed, EndCall
  <2>. QED BY <1>1, <1>2, <1>3, <2>1, <2>2 DEF FieldAhead
<1>9. CASE FormatTime
  <2>1. FieldAhead /\ \E q, arg : FormatParsedTime(q, arg)
    BY <1>9, Zenon DEF FormatTime
  <2>2. \/ \E p, written, times : WriteField(p, written, times)
        \/ StopCall("crashed", Lead)
    BY <2>1, Zenon DEF FormatParsedTime, EndCall
  <2>. QED BY <1>1, <1>2, <1>3, <2>1, <2>2 DEF FieldAhead
<1>10. CASE ReportError
  <2>1. \E written : StopCall("error", written)
    BY <1>10, Zenon DEF ReportError, EndCall
  <2>. QED BY <1>1, <1>2, <2>1
<1>. QED BY <1>4, <1>5, <1>6, <1>7, <1>8, <1>9, <1>10 DEF ParseFormatString

\* A turn leaves a text, and a shorter one where the loop goes on.
LEMMA TurnKeepsText ==
    ASSUME TextInv, ParseFormatString
    PROVE  TextInv' /\ (status' # "parsing" \/ Len(sv') < Len(sv))
<1>1. sv \in Seq(Marks) /\ use' \in Seq(Calls)
  BY TurnShortens DEF TextInv
<1>2. CASE status' # "parsing" /\ sv' = sv
  BY <1>1, <1>2 DEF TextInv
<1>3. CASE Brackets.end >= 0 /\ sv' = SubSeq(sv, Brackets.end + 2, Len(sv))
  <2>1. Brackets.end \in 0 .. Len(sv) - 1
    BY <1>1, <1>3, BracketsInside DEF Brackets
  <2>. QED BY <1>1, <1>3, <2>1, PartOf DEF TextInv
<1>. QED BY <1>2, <1>3, TurnShortens

\* A call has items and arguments.
LEMMA CallMembers ==
    ASSUME NEW c \in Calls
    PROVE  c.items \in Seq(Items) /\ c.args \in Seq(Arguments) /\ Len(c.args) <= MaxArgCount
<1>1. c \in [items : Seq(Items), args : Seq(Arguments)] /\ Len(c.args) <= MaxArgCount
  BY DEF Calls
<1>. HIDE DEF Items, Arguments
<1>. QED BY <1>1

\* A format string is the rest behind none of its items.
LEMMA RenderedText ==
    ASSUME NEW items \in Seq(Items)
    PROVE  Render(items) \in Seq(Marks) /\ Render(items) = RestOf(items, 0)
<1>1. 0 \in 0 .. Len(items)
  OBVIOUS
<1>. QED BY <1>1, RestsOf

\* A formatter is given texts, and takes them apart into texts.
LEMMA StepKeepsText == TextInv /\ [Next]_vars => TextInv'
<1>. SUFFICES ASSUME TextInv, [Next]_vars PROVE TextInv'
  OBVIOUS
<1>1. CASE ArgFormatter
  BY <1>1, UsesAssumption DEF ArgFormatter, TextInv
<1>2. CASE se_format
  <2>1. use \in Seq(Calls) /\ use # <<>> /\ call' = Head(use) /\ use' = Tail(use)
        /\ sv' = Render(call'.items)
    BY <1>2 DEF se_format, TextInv
  <2>2. Head(use) \in Calls /\ Tail(use) \in Seq(Calls)
    BY <2>1, SMT
  <2>3. call'.items \in Seq(Items)
    BY <2>1, <2>2, CallMembers
  <2>4. Render(call'.items) \in Seq(Marks)
    BY <2>3, RenderedText
  <2>. QED BY <2>1, <2>2, <2>4 DEF TextInv
<1>3. CASE ParseFormatString
  BY <1>3, TurnKeepsText
<1>4. CASE Terminated \/ UNCHANGED vars
  BY <1>4 DEF Terminated, vars, TextInv
<1>. QED BY <1>1, <1>2, <1>3, <1>4 DEF Next

\* A turn that does not end the call leaves less of the format string.
LEMMA StepAdvances ==
    ASSUME TextInv, [Next]_vars, status = "parsing"
    PROVE  status' # "parsing" \/ Len(sv') < Len(sv) \/ UNCHANGED vars
<1>1. CASE ParseFormatString
  BY <1>1, TurnKeepsText
<1>2. CASE ArgFormatter \/ se_format
  BY <1>2 DEF ArgFormatter, se_format
<1>3. CASE Terminated \/ UNCHANGED vars
  BY <1>3 DEF Terminated
<1>. QED BY <1>1, <1>2, <1>3 DEF Next

\* Whatever the format string, the loop of ParseFormatString comes to its end:
\* every turn uses up a part of it or is the last one.
THEOREM LoopAdvances == Spec => EveryTurnAdvances
<1>1. Init => TextInv
  BY DEF Init, TextInv
<1>2. TextInv /\ [Next]_vars => [status = "parsing" => status' # "parsing" \/ Len(sv') < Len(sv)]_vars
  BY StepAdvances
<1>. QED BY <1>1, <1>2, StepKeepsText, PTL DEF Spec, EveryTurnAdvances

------------------------------------------------------------------------------
(****************************************************************************)
(* No call std::format accepts is refused.                                  *)
(****************************************************************************)

\* argCounter is a number.
LEMMA CounterGoesOn ==
    ASSUME NEW p \in ParserStates, NEW spec
    PROVE  p.counter \in Nat /\ CounterFor(spec, p.counter) \in Nat
<1>1. p.counter \in Nat
  BY DEF ParserStates
<1>. DEFINE c == p.counter
<1>2. c \in Nat
  BY <1>1
<1>. HIDE DEF c
<1>3. CounterFor(spec, c) \in Nat
  BY <1>2 DEF CounterFor
<1>4. c = p.counter
  BY Zenon DEF c
<1>. QED BY <1>2, <1>3, <1>4

\* Behind a field the loop stands at its place again.
LEMMA NextPlace ==
    ASSUME CallInv, Promised, NEW k, Place(k), NEW j \in k + 1 .. Len(call.items), NextTurn(k, j)
    PROVE  Place(j)' /\ status' = status
<1>. DEFINE items == call.items
            item == items[j]
            q == Position
            after == IF HasSpec(item) THEN CounterFor(item.spec, q.counter) ELSE q.counter
<1>1. /\ k \in 0 .. Len(items) /\ sv = RestOf(items, k) /\ argCounter \in Nat
      /\ (\E i \in k + 1 .. Len(items) : IsField(items[i]) /\ items[i].index = Automatic)
             => m_indexMode = "automatic" /\ argCounter = Cardinality(FieldsIn(items, k))
  BY Zenon DEF Place
<1>2. IsField(item) /\ (\A i \in k + 1 .. j - 1 : ~IsField(items[i]))
      /\ FieldOpened(q, item.index, argCounter, HasSpec(item), RenderSpec(item.spec) \o <<"}">>)
      /\ FieldDone(item, ArgOf(j), ArgumentOf(items, j), RunOf(items, k, j - 1 - k), RestOf(items, j))
  BY Zenon DEF NextTurn
<1>3. status' = status /\ sv' = RestOf(items, j) /\ m_indexMode' = q.mode /\ argCounter' = after
      /\ call' = call
  BY <1>2, Zenon DEF FieldDone, CallUnchanged
<1>4. q \in ParserStates /\ q.mode = (IF item.index = Automatic THEN "automatic" ELSE "manual")
      /\ (item.index = Automatic => q.counter = argCounter + 1)
  BY <1>2, Zenon DEF FieldOpened
<1>5. after \in Nat
  BY <1>4, CounterGoesOn
<1>6. m_indexMode' \in {"automatic", "manual"}
  BY <1>3, <1>4
<1>7. Len(items) \in Nat
  BY CallItems
<1>8. j \in Nat /\ k \in Nat /\ k < j /\ j \in 0 .. Len(items) /\ j \in 1 .. Len(items)
  <2>1. j \in k + 1 .. Len(items)
    OBVIOUS
  <2>. HIDE DEF items
  <2>. QED BY <1>1, <1>7, <2>1
<1>9. ASSUME NEW i \in j + 1 .. Len(items), IsField(items[i]), items[i].index = Automatic
      PROVE  m_indexMode' = "automatic" /\ after = Cardinality(FieldsIn(items, j))
  <2>1. i \in 1 .. Len(items) /\ i > j
    <3>1. i \in j + 1 .. Len(items)
      OBVIOUS
    <3>. HIDE DEF items
    <3>. QED BY <1>7, <1>8, <3>1
  <2>2. \A l \in 1 .. Len(items) : IsField(items[l]) => items[l].index = Automatic
    BY <1>9, <2>1, PromisedField
  <2>3. item.index = Automatic
    BY <1>2, <1>8, <2>2
  <2>4. argCounter = Cardinality(FieldsIn(items, k))
    BY <1>1, <1>2, <2>3
  <2>5. q.mode = "automatic" /\ q.counter = argCounter + 1
    BY <1>4, <2>3
  <2>6. HasSpec(item) => item.spec.precision = 0
    <3>. SUFFICES ASSUME HasSpec(item), item.spec.precision # 0 PROVE FALSE
      OBVIOUS
    <3>1. Diverges
      BY <1>2, <1>8, <1>9, <2>1, Zenon DEF Diverges
    <3>. QED BY <3>1, Zenon DEF Promised
  <2>7. after = q.counter
    BY <2>6, Zenon DEF CounterFor
  <2>. HIDE DEF items, q, after
  <2>8. Cardinality(FieldsIn(items, j)) = Cardinality(FieldsIn(items, k)) + 1
    BY <1>2, <1>8, OneMoreField
  <2>. QED BY <1>3, <2>4, <2>5, <2>7, <2>8
<1>10. (\E i \in j + 1 .. Len(items) : IsField(items[i]) /\ items[i].index = Automatic)
             => m_indexMode' = "automatic" /\ argCounter' = Cardinality(FieldsIn(items, j))
  BY <1>3, <1>9
<1>. HIDE DEF after
<1>. QED BY <1>2, <1>3, <1>5, <1>6, <1>8, <1>10, Zenon DEF Place

\* A turn leaves the call and its arguments alone.
LEMMA SameCall ==
    ASSUME CallUnchanged, CallInv, TextInv'
    PROVE  CallInv' /\ Promised' = Promised
<1>1. types' = types /\ values' = values /\ call' = call
  BY DEF CallUnchanged
<1>2. CallInv'
  BY <1>1, Zenon DEF CallInv, TextInv
<1>3. Promised' = Promised
  BY <1>1, Zenon DEF Promised, Diverges
<1>. QED BY <1>2, <1>3

\* A call that is promised goes on: the loop stands behind one of its items.
GoesOn == Promised => /\ status \notin {"error", "crashed"}
                      /\ status = "parsing" => \E k \in 0 .. Len(call.items) : Place(k)

AcceptInv == CallInv /\ GoesOn

\* No call is made at first.
LEMMA InitAccepts == Init => AcceptInv
<1>. SUFFICES ASSUME Init PROVE AcceptInv
  OBVIOUS
<1>1. call.items = <<>> /\ call.args = <<>> /\ sv = <<>> /\ use = <<>> /\ status = "none"
  BY DEF Init, NoCall
<1>2. 0 <= MaxArgCount
  BY MaxArgCountAssumption
<1>3. CallInv
  BY <1>1, <1>2 DEF CallInv
<1>. QED BY <1>1, <1>3 DEF AcceptInv, GoesOn

\* se::format captures the arguments of a call.
LEMMA CallBegins ==
    ASSUME AcceptInv, se_format
    PROVE  CallInv' /\ Place(0)' /\ status' = "parsing"
<1>1. use \in Seq(Calls) /\ use # <<>> /\ call' = Head(use) /\ use' = Tail(use)
      /\ sv' = Render(call'.items)
      /\ argCounter' = 0 /\ m_indexMode' = "automatic" /\ status' = "parsing" /\ CaptureArgs(call'.args)
  BY Zenon DEF AcceptInv, CallInv, se_format
<1>2. call' \in Calls /\ use' \in Seq(Calls)
  <2>1. Head(use) \in Calls /\ Tail(use) \in Seq(Calls)
    BY <1>1, SMT
  <2>. QED BY <1>1, <2>1
<1>3. call'.items \in Seq(Items) /\ call'.args \in Seq(Arguments) /\ Len(call'.args) <= MaxArgCount
  BY <1>2, CallMembers
<1>4. sv' \in Seq(Marks) /\ sv' = RestOf(call'.items, 0)
  BY <1>1, <1>3, RenderedText
<1>5. ASSUME NEW i \in 1 .. Len(call'.args)
      PROVE  types'[i] = call'.args[i].type /\ values'[i] = call'.args[i]
  <2>. DEFINE args == call'.args
              m == Len(args)
  <2>1. args \in Seq(Arguments) /\ m <= MaxArgCount /\ i \in 1 .. m
    BY <1>3
  <2>2. types' = [x \in 1 .. MaxArgCount |->
                     IF x <= Len(args) THEN args[x].type
                     ELSE IF x <= ClearedTypes THEN "mono" ELSE types[x]]
        /\ values' = [x \in 1 .. MaxArgCount |-> IF x <= Len(args) THEN args[x] ELSE values[x]]
    BY <1>1, Zenon DEF CaptureArgs
  <2>3. m \in Nat
    <3>. HIDE DEF args
    <3>. QED BY <2>1
  <2>. HIDE DEF m
  <2>4. i \in 1 .. MaxArgCount /\ i <= m
    BY <2>1, <2>3, MaxArgCountAssumption
  <2>5. i <= Len(args)
    BY <2>4 DEF m
  <2>. HIDE DEF args
  <2>6. types'[i] = args[i].type /\ values'[i] = args[i]
    BY <2>2, <2>4, <2>5, Zenon
  <2>. QED BY <2>6 DEF args
<1>6. CallInv'
  BY <1>2, <1>3, <1>4, <1>5, Zenon DEF CallInv
<1>7. Cardinality(FieldsIn(call'.items, 0)) = 0
  <2>1. FieldsIn(call'.items, 0) = {}
    BY DEF FieldsIn
  <2>. QED BY <2>1, FS_EmptySet
<1>8. 0 \in 0 .. Len(call'.items) /\ 0 \in Nat
  <2>. DEFINE items == call'.items
  <2>1. items \in Seq(Items)
    BY <1>3
  <2>. HIDE DEF items
  <2>2. 0 \in 0 .. Len(items)
    BY <2>1
  <2>. QED BY <2>2 DEF items
<1>9. m_indexMode' \in {"automatic", "manual"} /\ argCounter' \in Nat
  BY <1>1
<1>10. Place(0)'
  BY <1>1, <1>4, <1>7, <1>8, <1>9, Zenon DEF Place
<1>. QED BY <1>1, <1>6, <1>10

\* A turn of a promised call ends it, or stands behind its next field.
LEMMA FieldPlace ==
    ASSUME CallInv, Promised, NEW k, Place(k), status = "parsing", ParseFormatString
    PROVE  status' \notin {"error", "crashed"}
           /\ (status' = "parsing" => \E j \in 0 .. Len(call.items) : Place(j)')
<1>1. CASE RestTurn(k)
  BY <1>1, Zenon DEF RestTurn
<1>2. CASE PairTurn(k)
  <2>1. status' = "done"
    BY <1>2, Zenon DEF PairTurn, WritePair
  <2>. QED BY <2>1
<1>3. ASSUME NEW j \in k + 1 .. Len(call.items), NextTurn(k, j)
      PROVE  status' = "parsing" /\ j \in 0 .. Len(call.items) /\ Place(j)'
  <2>1. Place(j)' /\ status' = status
    BY <1>3, NextPlace
  <2>2. k \in 0 .. Len(call.items) /\ Len(call.items) \in Nat
    BY CallItems, Zenon DEF Place
  <2>. DEFINE n == Len(call.items)
  <2>3. j \in k + 1 .. n /\ k \in 0 .. n /\ n \in Nat
    BY <2>2
  <2>. HIDE DEF n
  <2>4. j \in 0 .. n
    BY <2>3
  <2>. QED BY <2>1, <2>4 DEF n
<1>. QED BY <1>1, <1>2, <1>3, Turn

\* Every step keeps the invariant.
LEMMA StepAccepts == AcceptInv /\ [Next]_vars => AcceptInv'
<1>. SUFFICES ASSUME AcceptInv, [Next]_vars PROVE AcceptInv'
  OBVIOUS
<1>1. TextInv /\ CallInv /\ GoesOn
  BY Zenon DEF AcceptInv, CallInv, TextInv
<1>2. TextInv'
  BY <1>1, StepKeepsText
<1>3. ASSUME UNCHANGED <<types, values, call>>, status' = status \/ status' = "idle",
             UNCHANGED <<sv, argCounter, m_indexMode>>
      PROVE  AcceptInv'
  <2>1. CallInv'
    BY <1>1, <1>2, <1>3, Zenon DEF CallInv, TextInv
  <2>2. Promised' = Promised
    BY <1>3, Zenon DEF Promised, Diverges
  <2>3. \A k : Place(k)' = Place(k)
    BY <1>3, Zenon DEF Place
  <2>4. GoesOn'
    BY <1>1, <1>3, <2>2, <2>3 DEF GoesOn
  <2>. QED BY <2>1, <2>4, Zenon DEF AcceptInv
<1>4. CASE ArgFormatter
  BY <1>3, <1>4 DEF ArgFormatter
<1>5. CASE se_format
  <2>1. CallInv' /\ Place(0)' /\ status' = "parsing"
    BY <1>5, CallBegins
  <2>2. 0 \in 0 .. Len(call'.items)
    BY <2>1, Zenon DEF Place
  <2>3. GoesOn'
    BY <2>1, <2>2 DEF GoesOn
  <2>. QED BY <2>1, <2>3, Zenon DEF AcceptInv
<1>6. CASE ParseFormatString
  <2>1. CallUnchanged
    BY <1>6, Zenon DEF ParseFormatString
  <2>2. CallInv' /\ Promised' = Promised /\ call' = call
    BY <1>1, <1>2, <2>1, SameCall DEF CallUnchanged
  <2>3. status = "parsing"
    BY <1>6, Zenon
       DEF ParseFormatString, WriteRest, WritePair, SubstituteSimple, FormatCustom, FormatSpecified,
          FormatTime, ReportError, FieldAhead
  <2>4. ASSUME Promised
        PROVE  status' \notin {"error", "crashed"}
               /\ (status' = "parsing" => \E j \in 0 .. Len(call.items) : Place(j)')
    <3>1. PICK k \in 0 .. Len(call.items) : Place(k)
      BY <1>1, <2>3, <2>4 DEF GoesOn
    <3>. QED BY <1>1, <1>6, <2>3, <2>4, <3>1, FieldPlace
  <2>5. GoesOn'
    BY <2>2, <2>4 DEF GoesOn
  <2>. QED BY <2>2, <2>5, Zenon DEF AcceptInv
<1>7. CASE Terminated \/ UNCHANGED vars
  BY <1>3, <1>7 DEF Terminated, vars
<1>. QED BY <1>4, <1>5, <1>6, <1>7 DEF Next

\* A call std::format accepts is not refused, whatever the formatter did before.
THEOREM NeverRefused == Spec => []Accepts
<1>1. AcceptInv => Accepts
  BY DEF AcceptInv, GoesOn, Accepts
<1>. QED BY <1>1, InitAccepts, StepAccepts, PTL DEF Spec
==============================================================================
