------------------------- MODULE ArgFormatText_proofs -------------------------
(****************************************************************************)
(* What is written for a call that std::format accepts is what std::format  *)
(* writes, in a locale that groups digits by threes: each kind of argument  *)
(* is written as it is meant, so that behind every field the output is the  *)
(* meaning of the items so far.                                             *)
(****************************************************************************)
EXTENDS ArgFormat_proofs

(****************************************************************************)
(* What a buffer shows, and the padding around it.                          *)
(****************************************************************************)

\* The first characters of a buffer are a text, as many as valueSize says.
Shows(b, text) == text \in Seq(Marks) /\ b.size = Len(text) /\ Prefix(b.text, b.size) = text

\* A fill repeated.
LEMMA FilledText ==
    ASSUME NEW c \in Marks, NEW n \in Nat
    PROVE  Filled(c, n) \in Seq(Marks) /\ Len(Filled(c, n)) = n /\ \A i \in 1 .. n : Filled(c, n)[i] = c
BY DEF Filled

\* A fill repeated no times.
LEMMA FilledNone == \A c : Filled(c, 0) = <<>>
BY DEF Filled

\* The first characters of a text.
LEMMA PrefixText ==
    ASSUME NEW t \in Seq(Marks), NEW n \in 0 .. Len(t)
    PROVE  Prefix(t, n) \in Seq(Marks) /\ Len(Prefix(t, n)) = n
           /\ \A i \in 1 .. n : Prefix(t, n)[i] = t[i]
<1>1. Prefix(t, n) = [i \in 1 .. n |-> t[i]]
  <2>1. \A i \in 1 .. n : i <= Len(t)
    OBVIOUS
  <2>. QED BY <2>1, Zenon DEF Prefix
<1>2. \A i \in 1 .. n : t[i] \in Marks
  OBVIOUS
<1>3. n \in Nat
  OBVIOUS
<1>. QED BY <1>1, <1>2, <1>3

\* All of its characters.
LEMMA PrefixWhole ==
    ASSUME NEW t \in Seq(Marks) PROVE Prefix(t, Len(t)) = t
<1>1. Len(t) \in 0 .. Len(t)
  OBVIOUS
<1>2. /\ Prefix(t, Len(t)) \in Seq(Marks) /\ Len(Prefix(t, Len(t))) = Len(t)
      /\ \A i \in 1 .. Len(t) : Prefix(t, Len(t))[i] = t[i]
  BY <1>1, PrefixText
<1>. QED BY <1>2, SameMarks

\* The buffers the formatter goes through.
Buffers == [text : Seq(Marks), size : Nat]

\* A buffer that holds a text and nothing else.
LEMMA WholeShows ==
    ASSUME NEW t \in Seq(Marks) PROVE Shows(Whole(t), t) /\ Whole(t) \in Buffers
<1>1. Len(t) \in Nat
  OBVIOUS
<1>. QED BY <1>1, PrefixWhole DEF Shows, Whole, Buffers

\* A text written over the characters of a buffer.
LEMMA OverText ==
    ASSUME NEW old \in Seq(Marks), NEW new \in Seq(Marks)
    PROVE  Over(old, new) \in Seq(Marks) /\ Prefix(Over(old, new), Len(new)) = new
<1>. DEFINE tail == SubSeq(old, Len(new) + 1, Len(old))
            u == new \o tail
<1>1. tail \in Seq(Marks)
  OBVIOUS
<1>. HIDE DEF tail
<1>2. LaidBehind(u, new, tail)
  BY <1>1, Laid
<1>3. u \in Seq(Marks) /\ Len(u) = Len(new) + Len(tail) /\ Len(new) \in Nat /\ Len(tail) \in Nat
      /\ \A i \in 1 .. Len(new) : u[i] = new[i]
  BY <1>2, Zenon DEF LaidBehind
<1>4. Over(old, new) = u
  BY DEF Over, tail
<1>. HIDE DEF u
<1>5. Len(new) \in 0 .. Len(u)
  BY <1>3
<1>6. /\ Prefix(u, Len(new)) \in Seq(Marks) /\ Len(Prefix(u, Len(new))) = Len(new)
      /\ \A i \in 1 .. Len(new) : Prefix(u, Len(new))[i] = u[i]
  BY <1>3, <1>5, PrefixText
<1>7. Prefix(u, Len(new)) = new
  BY <1>3, <1>6, SameMarks
<1>. QED BY <1>3, <1>4, <1>7

\* A buffer into which a text was written over another one.
LEMMA OverShows ==
    ASSUME NEW old \in Seq(Marks), NEW new \in Seq(Marks), NEW b,
           b = [text |-> Over(old, new), size |-> Len(new)]
    PROVE  Shows(b, new) /\ b \in Buffers
<1>1. Len(new) \in Nat
  OBVIOUS
<1>2. Over(old, new) \in Seq(Marks) /\ Prefix(Over(old, new), Len(new)) = new
  BY OverText
<1>. QED BY <1>1, <1>2 DEF Shows, Buffers

\* The fill of a specification, and how many are missing.
FillOr(spec) == IF spec.fill = "" THEN " " ELSE spec.fill

Missing(spec, text) == IF spec.width > Len(text) THEN spec.width - Len(text) ELSE 0

\* The text with its padding, by alignment.
LEMMA PaddedBy ==
    ASSUME NEW spec, spec.width \in Nat, FillOr(spec) \in Marks, NEW text \in Seq(Marks)
    PROVE  /\ Padded(spec, text, "<") = text \o Filled(FillOr(spec), Missing(spec, text))
           /\ Padded(spec, text, ">") = Filled(FillOr(spec), Missing(spec, text)) \o text
           /\ Padded(spec, text, "^") = Filled(FillOr(spec), Missing(spec, text) \div 2) \o text
                  \o Filled(FillOr(spec), Missing(spec, text) - Missing(spec, text) \div 2)
           /\ \A a \in {"<", ">", "^"} : Padded(spec, text, a) \in Seq(Marks)
<1>. DEFINE m == Missing(spec, text)
            c == FillOr(spec)
            before(a) == CASE a = "<" -> 0 [] a = ">" -> m [] OTHER -> m \div 2
<1>1. Len(text) \in Nat
  OBVIOUS
<1>2. m \in Nat
  <2>. DEFINE w == spec.width
              l == Len(text)
  <2>1. w \in Nat /\ l \in Nat
    BY <1>1
  <2>. HIDE DEF w, l
  <2>2. (IF w > l THEN w - l ELSE 0) \in Nat
    BY <2>1
  <2>. QED BY <2>2, Zenon DEF Missing, w, l
<1>3. \A a : Padded(spec, text, a) = (Filled(c, before(a)) \o text) \o Filled(c, m - before(a))
  BY Zenon DEF Padded, FillOr, Missing
<1>4. before("<") = 0 /\ before(">") = m /\ before("^") = m \div 2
  OBVIOUS
<1>. HIDE DEF m, c, before
<1>5. m - 0 = m /\ m - m = 0 /\ m \div 2 \in Nat /\ m - m \div 2 \in Nat
  BY <1>2
<1>. DEFINE f == Filled(c, m)
            g == Filled(c, m \div 2)
            h == Filled(c, m - m \div 2)
            e == Filled(c, 0)
<1>6. f \in Seq(Marks) /\ g \in Seq(Marks) /\ h \in Seq(Marks) /\ e = <<>>
  BY <1>2, <1>5, FilledText, FilledNone DEF c
<1>7. Padded(spec, text, "<") = (e \o text) \o f /\ Padded(spec, text, ">") = (f \o text) \o e
      /\ Padded(spec, text, "^") = (g \o text) \o h
  BY <1>3, <1>4, <1>5
<1>. HIDE DEF f, g, h, e
<1>8. e \o text = text /\ (f \o text) \o e = f \o text /\ f \o text \in Seq(Marks)
      /\ g \o text \in Seq(Marks)
      /\ text \o f \in Seq(Marks)
  BY <1>6, MarkAssoc
<1>9. (g \o text) \o h \in Seq(Marks)
  BY <1>6, <1>8, MarkAssoc
<1>. QED BY <1>7, <1>8, <1>9 DEF m, c, f, g, h

\* Without a width nothing is filled.
LEMMA NotPadded ==
    ASSUME NEW spec, spec.width = 0, NEW text \in Seq(Marks), NEW a
    PROVE  Padded(spec, text, a) = text
<1>. DEFINE c == FillOr(spec)
            m == Missing(spec, text)
            before == CASE a = "<" -> 0 [] a = ">" -> m [] OTHER -> m \div 2
<1>1. m = 0
  <2>1. ~(0 > Len(text))
    OBVIOUS
  <2>. QED BY <2>1, Zenon DEF Missing
<1>2. Padded(spec, text, a) = (Filled(c, before) \o text) \o Filled(c, m - before)
  BY Zenon DEF Padded, FillOr, Missing
<1>3. before = 0
  <2>1. 0 \div 2 = 0
    OBVIOUS
  <2>. QED BY <1>1, <2>1
<1>. HIDE DEF c, m, before
<1>4. m - before = 0
  BY <1>1, <1>3
<1>5. Padded(spec, text, a) = (<<>> \o text) \o <<>>
  BY <1>2, <1>3, <1>4, FilledNone
<1>6. (<<>> \o text) = text /\ text \o <<>> = text
  BY MarkAssoc
<1>. QED BY <1>5, <1>6

\* How a specification is aligned.
AlignedAs(q, spec, a) ==
    /\ a \in {"<", ">", "^"} /\ q.align = Aligns[a] /\ q.fill = FillOr(spec) /\ FillOr(spec) \in Marks
    /\ spec.width \in Nat

\* The alignments by their characters.
LEMMA AlignWords ==
    /\ Aligns["<"] = "AlignLeft" /\ Aligns[">"] = "AlignRight" /\ Aligns["^"] = "AlignCenter"
BY DEF Aligns

\* Fills are missing where the text is shorter than the width, and only there.
LEMMA ShortOrNot ==
    ASSUME NEW w \in Nat, NEW l \in Nat, NEW fill, fill = w - l, NEW m, m = IF w > l THEN w - l ELSE 0
    PROVE  /\ ~(w < 0) /\ w >= 0
           /\ (fill <= 0 /\ ~(fill > 0) /\ m = 0)
              \/ (fill > 0 /\ ~(fill <= 0) /\ m = fill /\ fill \in Nat)
OBVIOUS

\* The padding ArgFormatter::FormatAlignment writes.
LEMMA AlignedPadded ==
    ASSUME NEW q, NEW spec, NEW a, AlignedAs(q, spec, a), NEW b, NEW text, Shows(b, text)
    PROVE  /\ FormatAlignment(q, b, spec.width) = Padded(spec, text, a)
           /\ Padded(spec, text, a) \in Seq(Marks)
<1>. DEFINE w == spec.width
            l == Len(text)
            fill == w - b.size
            value == Prefix(b.text, b.size)
            m == Missing(spec, text)
            c == FillOr(spec)
<1>1. text \in Seq(Marks) /\ l \in Nat /\ b.size = l /\ value = text /\ w \in Nat /\ c \in Marks
      /\ q.fill = c
      /\ a \in {"<", ">", "^"} /\ q.align = Aligns[a]
  BY MarkLength, Zenon DEF Shows, AlignedAs
<1>2. /\ Padded(spec, text, "<") = text \o Filled(c, m)
         /\ Padded(spec, text, ">") = Filled(c, m) \o text
      /\ Padded(spec, text, "^") = (Filled(c, m \div 2) \o text) \o Filled(c, m - m \div 2)
      /\ Padded(spec, text, a) \in Seq(Marks)
  BY <1>1, PaddedBy
<1>3. FormatAlignment(q, b, w) =
         CASE w < 0 -> <<Past>>
           [] w >= 0 /\ fill <= 0 -> value
           [] fill > 0 /\ q.align = "AlignLeft" -> value \o Filled(q.fill, fill)
           [] fill > 0 /\ q.align = "AlignRight" -> Filled(q.fill, fill) \o value
           [] fill > 0 /\ q.align = "AlignCenter" ->
                  (Filled(q.fill, fill \div 2) \o value) \o Filled(q.fill, fill - fill \div 2)
           [] OTHER -> Prefix(b.text, fill)
  BY Zenon DEF FormatAlignment
<1>4. m = IF w > l THEN w - l ELSE 0
  BY Zenon DEF Missing
<1>5. fill = w - l
  BY <1>1
<1>. DEFINE s == FormatAlignment(q, b, w)
            t(x) == Padded(spec, text, x)
<1>6. s = FormatAlignment(q, b, w) /\ \A x : t(x) = Padded(spec, text, x)
  OBVIOUS
<1>. HIDE DEF s, t, fill, value, m, c, l
<1>7. /\ ~(w < 0) /\ w >= 0
      /\ (fill <= 0 /\ ~(fill > 0) /\ m = 0) \/ (fill > 0 /\ ~(fill <= 0) /\ m = fill /\ fill \in Nat)
  <2>. HIDE DEF w
  <2>. QED BY <1>1, <1>4, <1>5, ShortOrNot
<1>. HIDE DEF w
<1>8. CASE fill <= 0 /\ ~(fill > 0) /\ m = 0
  <2>1. s = value
    BY <1>3, <1>6, <1>7, <1>8, Zenon
  <2>2. m \div 2 = 0 /\ m - m \div 2 = 0
    BY <1>8
  <2>3. t("<") = text \o <<>> /\ t(">") = <<>> \o text /\ t("^") = (<<>> \o text) \o <<>>
    <3>1. Filled(c, m) = <<>> /\ Filled(c, m \div 2) = <<>> /\ Filled(c, m - m \div 2) = <<>>
      BY <1>8, <2>2, FilledNone, Zenon
    <3>. QED BY <1>2, <1>6, <3>1, Zenon
  <2>4. text \o <<>> = text /\ <<>> \o text = text
    BY <1>1, MarkAssoc
  <2>5. t("<") = text /\ t(">") = text /\ t("^") = text
    BY <2>3, <2>4, Zenon
  <2>6. t(a) = text
    BY <1>1, <2>5, Zenon
  <2>. QED BY <1>1, <1>2, <1>6, <2>1, <2>6 DEF w
<1>9. CASE fill > 0 /\ ~(fill <= 0) /\ m = fill /\ fill \in Nat
  <2>1. "AlignLeft" # "AlignRight" /\ "AlignLeft" # "AlignCenter" /\ "AlignRight" # "AlignCenter"
    OBVIOUS
  <2>2. CASE a = "<"
    <3>1. q.align = "AlignLeft"
      BY <1>1, <2>2, AlignWords
    <3>2. s = value \o Filled(q.fill, fill)
      BY <1>3, <1>6, <1>7, <1>9, <2>1, <3>1, Zenon
    <3>3. s = text \o Filled(c, m)
      BY <1>1, <1>9, <3>2, Zenon
    <3>4. s = t(a)
      BY <1>2, <1>6, <2>2, <3>3, Zenon
    <3>. QED BY <1>2, <1>6, <3>4 DEF w
  <2>3. CASE a = ">"
    <3>1. q.align = "AlignRight"
      BY <1>1, <2>3, AlignWords
    <3>2. s = Filled(q.fill, fill) \o value
      BY <1>3, <1>6, <1>7, <1>9, <2>1, <3>1, Zenon
    <3>3. s = Filled(c, m) \o text
      BY <1>1, <1>9, <3>2, Zenon
    <3>4. s = t(a)
      BY <1>2, <1>6, <2>3, <3>3, Zenon
    <3>. QED BY <1>2, <1>6, <3>4 DEF w
  <2>4. CASE a = "^"
    <3>1. q.align = "AlignCenter"
      BY <1>1, <2>4, AlignWords
    <3>2. s = (Filled(q.fill, fill \div 2) \o value) \o Filled(q.fill, fill - fill \div 2)
      BY <1>3, <1>6, <1>7, <1>9, <2>1, <3>1, Zenon
    <3>3. s = (Filled(c, m \div 2) \o text) \o Filled(c, m - m \div 2)
      BY <1>1, <1>9, <3>2, Zenon
    <3>4. s = t(a)
      BY <1>2, <1>6, <2>4, <3>3, Zenon
    <3>. QED BY <1>2, <1>6, <3>4 DEF w
  <2>. QED BY <1>1, <2>2, <2>3, <2>4
<1>. QED BY <1>7, <1>8, <1>9

\* The padding of a text that is written whole (ArgFormatter::AlignText).
LEMMA TextPadded ==
    ASSUME NEW q, NEW spec, NEW a, AlignedAs(q, spec, a), NEW text \in Seq(Marks),
           NEW precision \in Nat,
           precision = 0 \/ precision >= Len(text)
    PROVE  AlignText(q, text, spec.width, precision) = Padded(spec, text, a)
<1>. DEFINE w == spec.width
            l == Len(text)
            shown == IF precision = 0 \/ precision > l THEN l ELSE precision
            fill == w - l
            behind(n) == (Filled(q.fill, n) \o Prefix(text, shown)) \o Filled(q.fill, w - n - shown)
            m == Missing(spec, text)
            c == FillOr(spec)
<1>1. l \in Nat /\ w \in Nat /\ c \in Marks /\ q.fill = c
      /\ a \in {"<", ">", "^"} /\ q.align = Aligns[a]
  BY MarkLength, Zenon DEF AlignedAs
<1>2. /\ Padded(spec, text, "<") = text \o Filled(c, m)
         /\ Padded(spec, text, ">") = Filled(c, m) \o text
      /\ Padded(spec, text, "^") = (Filled(c, m \div 2) \o text) \o Filled(c, m - m \div 2)
  BY <1>1, PaddedBy
<1>3. AlignText(q, text, w, precision) =
         CASE fill <= 0 -> Prefix(text, shown)
           [] fill > 0 /\ q.align = "AlignLeft" -> behind(0)
           [] fill > 0 /\ q.align = "AlignRight" -> behind(fill)
           [] OTHER -> behind(fill \div 2)
  BY Zenon DEF AlignText
<1>4. m = IF w > l THEN w - l ELSE 0
  BY Zenon DEF Missing
<1>5. shown = l
  <2>1. precision = 0 \/ precision >= l
    OBVIOUS
  <2>. HIDE DEF l
  <2>. QED BY <1>1, <2>1
<1>6. Prefix(text, l) = text
  BY PrefixWhole
<1>7. \A n : behind(n) = (Filled(c, n) \o text) \o Filled(c, w - n - l)
  BY <1>1, <1>5, <1>6
<1>. DEFINE s == AlignText(q, text, w, precision)
            t(x) == Padded(spec, text, x)
<1>8. s = AlignText(q, text, w, precision) /\ \A x : t(x) = Padded(spec, text, x)
  OBVIOUS
<1>9. fill = w - l
  OBVIOUS
<1>. HIDE DEF s, t, fill, m, c, l, behind, shown
<1>10. (fill <= 0 /\ ~(fill > 0) /\ m = 0) \/ (fill > 0 /\ ~(fill <= 0) /\ m = fill /\ fill \in Nat)
  <2>. HIDE DEF w
  <2>. QED BY <1>1, <1>4, <1>9, ShortOrNot
<1>. HIDE DEF w
<1>11. text \o <<>> = text /\ <<>> \o text = text
  BY MarkAssoc
<1>12. CASE fill <= 0 /\ ~(fill > 0) /\ m = 0
  <2>1. s = text
    <3>1. s = Prefix(text, shown)
      BY <1>3, <1>8, <1>12, Zenon
    <3>. QED BY <1>5, <1>6, <3>1
  <2>2. m \div 2 = 0 /\ m - m \div 2 = 0
    BY <1>12
  <2>3. t("<") = text \o <<>> /\ t(">") = <<>> \o text /\ t("^") = (<<>> \o text) \o <<>>
    BY <1>2, <1>8, <1>12, <2>2, FilledNone
  <2>5. t("<") = text /\ t(">") = text /\ t("^") = text
    BY <1>11, <2>3, Zenon
  <2>6. t(a) = text
    BY <1>1, <2>5, Zenon
  <2>. QED BY <1>8, <2>1, <2>6 DEF w
<1>13. CASE fill > 0 /\ ~(fill <= 0) /\ m = fill /\ fill \in Nat
  <2>1. "AlignLeft" # "AlignRight" /\ "AlignLeft" # "AlignCenter" /\ "AlignRight" # "AlignCenter"
    OBVIOUS
  <2>2. CASE a = "<"
    <3>1. q.align = "AlignLeft"
      BY <1>1, <2>2, AlignWords
    <3>2. s = behind(0)
      BY <1>3, <1>8, <1>13, <2>1, <3>1, Zenon
    <3>3. w - 0 - l = m
      BY <1>1, <1>9, <1>13
    <3>4. s = (<<>> \o text) \o Filled(c, m)
      BY <1>7, <3>2, <3>3, FilledNone
    <3>5. s = t(a)
      BY <1>2, <1>8, <1>11, <2>2, <3>4, Zenon
    <3>. QED BY <1>8, <3>5 DEF w
  <2>3. CASE a = ">"
    <3>1. q.align = "AlignRight"
      BY <1>1, <2>3, AlignWords
    <3>2. s = behind(fill)
      BY <1>3, <1>8, <1>13, <2>1, <3>1, Zenon
    <3>3. w - fill - l = 0
      BY <1>1, <1>9, <1>13
    <3>4. s = (Filled(c, m) \o text) \o <<>>
      BY <1>7, <1>13, <3>2, <3>3, FilledNone
    <3>5. (Filled(c, m) \o text) \o <<>> = Filled(c, m) \o text
      <4>. DEFINE f == Filled(c, m)
      <4>1. f \in Seq(Marks)
        BY <1>1, <1>13, FilledText
      <4>. HIDE DEF f
      <4>2. f \o text \in Seq(Marks)
        BY <4>1, MarkAssoc
      <4>3. (f \o text) \o <<>> = f \o text
        BY <4>2, MarkAssoc
      <4>. QED BY <4>3 DEF f
    <3>6. s = t(a)
      BY <1>2, <1>8, <2>3, <3>4, <3>5, Zenon
    <3>. QED BY <1>8, <3>6 DEF w
  <2>4. CASE a = "^"
    <3>1. q.align = "AlignCenter"
      BY <1>1, <2>4, AlignWords
    <3>2. s = behind(fill \div 2)
      BY <1>3, <1>8, <1>13, <2>1, <3>1, Zenon
    <3>3. w - fill \div 2 - l = m - m \div 2 /\ fill \div 2 = m \div 2
      BY <1>1, <1>9, <1>13
    <3>4. s = (Filled(c, m \div 2) \o text) \o Filled(c, m - m \div 2)
      BY <1>7, <3>2, <3>3
    <3>5. s = t(a)
      BY <1>2, <1>8, <2>4, <3>4, Zenon
    <3>. QED BY <1>8, <3>5 DEF w
  <2>. QED BY <1>1, <2>2, <2>3, <2>4
<1>. QED BY <1>10, <1>12, <1>13

------------------------------------------------------------------------------
(****************************************************************************)
(* Integers: sign, prefix and digits.                                       *)
(****************************************************************************)

\* Characters BufferToUpper leaves alone.
Upright == {"0", "1", "+", "-", " ", "B", "X"}

\* They are marks.
LEMMA UprightMarks == Upright \subseteq Marks
<1>1. {"+", "-", " ", "B", "X"} \subseteq Fixed
  BY DEF Fixed
<1>2. HexDigit[1] = "0" /\ HexDigit[2] = "1" /\ 1 \in 1 .. 16 /\ 2 \in 1 .. 16
  BY DEF HexDigit
<1>3. "0" \in Hexes /\ "1" \in Hexes
  BY <1>2 DEF Hexes
<1>. QED BY <1>1, <1>3, MarksInclude DEF Upright

\* A capital letter is a mark.
LEMMA UpperMark ==
    ASSUME NEW c \in Marks
    PROVE  /\ (IF c \in DOMAIN UpperOf THEN UpperOf[c] ELSE c) \in Marks
           /\ c \in Upright => (IF c \in DOMAIN UpperOf THEN UpperOf[c] ELSE c) = c
<1>. DEFINE U == {"A", "B", "C", "D", "E", "F", "P", "X"}
            L == {"a", "b", "c", "d", "e", "f", "p", "x"}
<1>1. DOMAIN UpperOf = L
  BY DEF UpperOf
<1>2. U \subseteq Marks
  <2>1. U \subseteq Fixed
    BY DEF Fixed
  <2>. QED BY <2>1, MarksInclude
<1>3. \A x \in L : UpperOf[x] \in U
  BY DEF UpperOf
<1>4. \A x \in Upright : x \notin L
  BY DEF Upright
<1>. HIDE DEF U, L
<1>. QED BY <1>1, <1>2, <1>3, <1>4

\* A text is put into capital letters character by character.
LEMMA UpperText ==
    ASSUME NEW t \in Seq(Marks)
    PROVE  /\ BufferToUpper(t) \in Seq(Marks) /\ Len(BufferToUpper(t)) = Len(t)
           /\ \A i \in 1 .. Len(t) : BufferToUpper(t)[i] = IF t[i] \in DOMAIN UpperOf THEN UpperOf[t[i]]
                ELSE t[i]
<1>. DEFINE up(c) == IF c \in DOMAIN UpperOf THEN UpperOf[c] ELSE c
            n == Len(t)
<1>1. n \in Nat /\ \A i \in 1 .. n : t[i] \in Marks
  BY MarkLength
<1>2. BufferToUpper(t) = [i \in 1 .. n |-> up(t[i])]
  BY Zenon DEF BufferToUpper
<1>3. \A i \in 1 .. n : up(t[i]) \in Marks
  BY <1>1, UpperMark
<1>4. /\ BufferToUpper(t) \in Seq(Marks) /\ Len(BufferToUpper(t)) = n
      /\ \A i \in 1 .. n : BufferToUpper(t)[i] = up(t[i])
  <2>. HIDE DEF up, n
  <2>. QED BY <1>1, <1>2, <1>3
<1>. QED BY <1>4

\* Digits, signs and capital letters stay as they are.
LEMMA UpperUpright ==
    ASSUME NEW t \in Seq(Upright)
    PROVE  BufferToUpper(t) = t
<1>1. t \in Seq(Marks) /\ \A i \in 1 .. Len(t) : t[i] \in Upright
  <2>1. t \in Seq(Marks)
    BY UprightMarks, Bigger
  <2>. QED BY <2>1
<1>2. \A i \in 1 .. Len(t) : t[i] \in Marks
  BY <1>1, UprightMarks
<1>3. \A i \in 1 .. Len(t) : BufferToUpper(t)[i] = t[i]
  BY <1>1, <1>2, UpperText, UpperMark
<1>4. BufferToUpper(t) \in Seq(Marks) /\ Len(BufferToUpper(t)) = Len(t)
  BY <1>1, UpperText
<1>. QED BY <1>1, <1>3, <1>4, SameMarks

\* Two texts are put into capital letters one by one.
LEMMA UpperBoth ==
    ASSUME NEW s \in Seq(Marks), NEW t \in Seq(Marks)
    PROVE  BufferToUpper(s \o t) = BufferToUpper(s) \o BufferToUpper(t)
<1>. DEFINE up(c) == IF c \in DOMAIN UpperOf THEN UpperOf[c] ELSE c
            j == s \o t
            x == BufferToUpper(s)
            y == BufferToUpper(t)
            u == BufferToUpper(j)
            v == x \o y
            m == Len(s)
            n == Len(t)
<1>1. LaidBehind(j, s, t)
  BY Laid
<1>2. j \in Seq(Marks) /\ Len(j) = m + n /\ m \in Nat /\ n \in Nat
      /\ (\A i \in 1 .. m : j[i] = s[i]) /\ \A i \in 1 .. n : j[m + i] = t[i]
  BY <1>1, Zenon DEF LaidBehind
<1>3. x \in Seq(Marks) /\ Len(x) = m /\ \A i \in 1 .. m : x[i] = up(s[i])
  BY UpperText
<1>4. y \in Seq(Marks) /\ Len(y) = n /\ \A i \in 1 .. n : y[i] = up(t[i])
  BY UpperText
<1>5. u \in Seq(Marks) /\ Len(u) = m + n /\ \A i \in 1 .. m + n : u[i] = up(j[i])
  <2>. HIDE DEF j
  <2>1. u \in Seq(Marks) /\ Len(u) = Len(j) /\ \A i \in 1 .. Len(j) : u[i] = up(j[i])
    BY <1>2, UpperText
  <2>. QED BY <1>2, <2>1, Zenon
<1>. HIDE DEF x, y, u
<1>6. LaidBehind(v, x, y)
  BY <1>3, <1>4, Laid
<1>7. v \in Seq(Marks) /\ Len(v) = m + n
      /\ (\A i \in 1 .. m : v[i] = x[i]) /\ \A i \in 1 .. n : v[m + i] = y[i]
  <2>1. v \in Seq(Marks) /\ Len(v) = Len(x) + Len(y)
        /\ (\A i \in 1 .. Len(x) : v[i] = x[i]) /\ \A i \in 1 .. Len(y) : v[Len(x) + i] = y[i]
    BY <1>6, Zenon DEF LaidBehind
  <2>. HIDE DEF v
  <2>. QED BY <1>3, <1>4, <2>1, Zenon
<1>. HIDE DEF up, j, v, m, n
<1>8. ASSUME NEW i \in 1 .. m + n PROVE u[i] = v[i]
  <2>1. CASE i \in 1 .. m
    BY <1>2, <1>3, <1>5, <1>7, <2>1, Zenon
  <2>2. CASE i \notin 1 .. m
    <3>1. PICK l \in 1 .. n : i = m + l
      <4>1. i - m \in 1 .. n /\ i = m + (i - m)
        BY <1>2, <2>2
      <4>. QED BY <4>1
    <3>. QED BY <1>2, <1>4, <1>5, <1>7, <3>1, Zenon
  <2>. QED BY <2>1, <2>2
<1>9. u = v
  <2>1. Len(u) = Len(v) /\ \A i \in 1 .. Len(u) : u[i] = v[i]
    BY <1>5, <1>7, <1>8, Zenon
  <2>. QED BY <1>5, <1>7, <2>1, SameMarks
<1>. QED BY <1>9 DEF u, v, x, y, j

\* The parts of an integer std::format writes.
IntDigits(spec, n) == ToChars(IF n < 0 THEN -n ELSE n, BaseOf(spec.type))

IntShown(spec, n) == IF spec.type = "X" THEN BufferToUpper(IntDigits(spec, n)) ELSE IntDigits(spec, n)

IntPrefix(spec, n) ==
    IF ~spec.alt THEN <<>>
    ELSE CASE spec.type \in {"b", "B", "x", "X"} -> <<"0", spec.type>>
           [] spec.type = "o" /\ n # 0 -> <<"0">>
           [] OTHER -> <<>>

IntHead(spec, n) == SignText(spec, n < 0) \o IntPrefix(spec, n)

IntBody(spec, n) == IF spec.localize THEN Grouped(IntShown(spec, n), Grouping[1]) ELSE IntShown(spec, n)

\* No zeros are written in front of it.
NoZeros(spec) == spec.zero /\ spec.align = "" => spec.width = 0

\* The signs and prefixes are marks.
LEMMA FixedMarks ==
    /\ "0" \in Marks /\ "+" \in Marks /\ "-" \in Marks /\ " " \in Marks /\ "b" \in Marks
       /\ "B" \in Marks
    /\ "x" \in Marks /\ "X" \in Marks
<1>1. {"+", "-", " ", "b", "B", "x", "X"} \subseteq Fixed
  BY DEF Fixed
<1>2. "0" \in Marks
  BY UprightMarks DEF Upright
<1>. QED BY <1>1, <1>2, MarksInclude

\* A sign is a text that has no small letters.
LEMMA SignMarks ==
    ASSUME NEW spec, NEW negative
    PROVE  /\ SignText(spec, negative) \in Seq(Marks) /\ SignText(spec, negative) \in Seq(Upright)
           /\ negative => SignText(spec, negative) = <<"-">>
<1>1. CASE negative
  <2>1. SignText(spec, negative) = <<"-">>
    BY <1>1, Zenon DEF SignText
  <2>2. <<"-">> \in Seq(Upright)
    BY DEF Upright
  <2>. QED BY <2>1, <2>2, UprightMarks, Bigger
<1>2. CASE ~negative /\ spec.sign \in {"+", " "}
  <2>1. SignText(spec, negative) = <<spec.sign>>
    BY <1>2, Zenon DEF SignText
  <2>2. spec.sign \in Upright
    BY <1>2 DEF Upright
  <2>3. <<spec.sign>> \in Seq(Upright)
    BY <2>2
  <2>. QED BY <1>2, <2>1, <2>3, UprightMarks, Bigger
<1>3. CASE ~negative /\ spec.sign \notin {"+", " "}
  <2>1. SignText(spec, negative) = <<>>
    BY <1>3, Zenon DEF SignText
  <2>2. <<>> \in Seq(Marks) /\ <<>> \in Seq(Upright)
    OBVIOUS
  <2>. QED BY <1>3, <2>1, <2>2, Zenon
<1>. QED BY <1>1, <1>2, <1>3

\* So is the prefix of a presentation with capital letters.
LEMMA PrefixMarks ==
    ASSUME NEW spec, NEW n
    PROVE  /\ IntPrefix(spec, n) \in Seq(Marks)
           /\ spec.type \in {"B", "X"} => IntPrefix(spec, n) \in Seq(Upright)
<1>1. CASE spec.alt /\ spec.type \in {"b", "B", "x", "X"}
  <2>1. IntPrefix(spec, n) = <<"0", spec.type>>
    BY <1>1, Zenon DEF IntPrefix
  <2>2. spec.type \in Marks /\ "0" \in Marks
    BY <1>1, FixedMarks
  <2>3. spec.type \in {"B", "X"} => spec.type \in Upright /\ "0" \in Upright
    BY DEF Upright
  <2>4. <<"0", spec.type>> \in Seq(Marks)
    BY <2>2
  <2>5. spec.type \in {"B", "X"} => <<"0", spec.type>> \in Seq(Upright)
    BY <2>3
  <2>. QED BY <2>1, <2>4, <2>5
<1>2. CASE spec.alt /\ spec.type = "o" /\ n # 0
  <2>1. IntPrefix(spec, n) = <<"0">>
    BY <1>2 DEF IntPrefix
  <2>2. <<"0">> \in Seq(Marks)
    BY FixedMarks, OneLong
  <2>. QED BY <1>2, <2>1, <2>2
<1>3. CASE ~spec.alt \/ (spec.type \notin {"b", "B", "x", "X"} /\ ~(spec.type = "o" /\ n # 0))
  <2>1. IntPrefix(spec, n) = <<>>
    BY <1>3, Zenon DEF IntPrefix
  <2>. QED BY <2>1
<1>. QED BY <1>1, <1>2, <1>3

\* A presentation is written in one of the bases.
LEMMA BaseInside == \A type : BaseOf(type) \in Bases
BY DEF BaseOf, Bases

\* The digits of an integer.
LEMMA DigitMarks ==
    ASSUME NEW spec, NEW n \in Int
    PROVE  /\ IntDigits(spec, n) \in Seq(Marks) /\ IntShown(spec, n) \in Seq(Marks)
           /\ Len(IntShown(spec, n)) = Len(IntDigits(spec, n))
           /\ BaseOf(spec.type) = 2 => IntDigits(spec, n) \in Seq(Upright)
           /\ ToChars(n, BaseOf(spec.type)) = (IF n < 0 THEN <<"-">> ELSE <<>>) \o IntDigits(spec, n)
<1>. DEFINE a == IF n < 0 THEN -n ELSE n
            base == BaseOf(spec.type)
<1>1. a \in Nat /\ base \in Bases
  BY BaseInside
<1>2. IntDigits(spec, n) = DigitsOf(a, base)
  BY <1>1, NaturalText DEF IntDigits
<1>3. ToChars(n, base) = (IF n < 0 THEN <<"-">> ELSE <<>>) \o DigitsOf(a, base)
  BY <1>1, NumberText
<1>. HIDE DEF a, base
<1>4. IntDigits(spec, n) \in MarkTexts
  BY <1>1, NumberMarks, NaturalText, <1>2
<1>5. base = 2 => IntDigits(spec, n) \in Seq(Upright)
  <2>1. {"0", "1"} \subseteq Upright
    BY DEF Upright
  <2>2. base = 2 => IntDigits(spec, n) \in Seq({"0", "1"})
    BY <1>1, <1>2, DigitsInside
  <2>. QED BY <2>1, <2>2, Bigger
<1>6. BufferToUpper(IntDigits(spec, n)) \in Seq(Marks)
      /\ Len(BufferToUpper(IntDigits(spec, n))) = Len(IntDigits(spec, n))
  BY <1>4, UpperText DEF MarkTexts
<1>. QED BY <1>2, <1>3, <1>4, <1>5, <1>6 DEF IntShown, MarkTexts, base

\* An integer without zeros in front is padded like a text.
LEMMA IntMeant ==
    ASSUME NEW spec, spec.width \in Nat, NEW n \in Int, NoZeros(spec), IntBody(spec, n) \in Seq(Marks)
    PROVE  /\ IntMeaning(spec, n) = Padded(spec, IntHead(spec, n) \o IntBody(spec, n),
              AlignOr(spec, ">"))
           /\ IntHead(spec, n) \o IntBody(spec, n) \in Seq(Marks) /\ IntHead(spec, n) \in Seq(Marks)
<1>. DEFINE h == IntHead(spec, n)
            b == IntBody(spec, n)
            zeros == IF spec.zero /\ spec.align = "" /\ spec.width > Len(h) + Len(b)
                     THEN Filled("0", spec.width - Len(h) - Len(b)) ELSE <<>>
<1>1. IntMeaning(spec, n) = Padded(spec, (h \o zeros) \o b, AlignOr(spec, ">"))
  BY Zenon DEF IntMeaning, IntHead, IntBody, IntDigits, IntShown, IntPrefix
<1>2. h \in Seq(Marks) /\ b \in Seq(Marks)
  BY SignMarks, PrefixMarks, MarkAssoc DEF IntHead
<1>3. zeros = <<>>
  <2>1. Len(h) \in Nat /\ Len(b) \in Nat
    BY <1>2, MarkLength
  <2>. DEFINE x == Len(h)
              y == Len(b)
  <2>2. ~(0 > x + y)
    <3>1. x \in Nat /\ y \in Nat
      BY <2>1
    <3>. HIDE DEF x, y
    <3>. QED BY <3>1
  <2>3. ~(spec.zero /\ spec.align = "" /\ spec.width > x + y)
    BY <2>2, Zenon DEF NoZeros
  <2>. QED BY <2>3, Zenon
<1>. HIDE DEF zeros, h, b
<1>4. h \o zeros = h /\ h \o b \in Seq(Marks)
  BY <1>2, <1>3, MarkAssoc
<1>. QED BY <1>1, <1>2, <1>4 DEF h, b

\* An integer that fits and whose sign and prefix do not meet.
IntOk(spec, n) ==
    /\ spec \in ItemSpecs /\ n \in Int /\ spec.type \in IntegerTypes \union {""}
    /\ n < 0 => spec.sign # "+" /\ ~(spec.alt /\ spec.type \in DOMAIN PreAltForm)
    /\ ~(n = 0 /\ spec.alt /\ spec.type = "o")
    /\ (IF n < 0 \/ spec.sign \in {"+", " "} THEN 1 ELSE 0) + (IF spec.alt THEN 2 ELSE 0)
           + Len(ToChars(n, BaseOf(spec.type))) <= BufferSize

\* The specification an integer is formatted with.
IntSpec(q, spec, type) ==
    /\ type \in {"int", "bool", "char"} /\ q.sign = SignFor(spec) /\ q.pre = PrefixFor(spec, type)
       /\ q.type = TypeFor(spec)

\* The presentation that is stored is the one that is given.
LEMMA TypeSame ==
    ASSUME NEW spec, spec.type \in IntegerTypes \union {""}
    PROVE  BaseOf(TypeFor(spec)) = BaseOf(spec.type)
           /\ (TypeFor(spec) \in {"B", "X"} <=> spec.type \in {"B", "X"})
<1>1. CASE spec.type = ""
  <2>1. TypeFor(spec) = "none"
    BY <1>1 DEF TypeFor, NoChar
  <2>2. BaseOf("none") = 10 /\ BaseOf("") = 10 /\ "none" \notin {"B", "X"} /\ "" \notin {"B", "X"}
    BY DEF BaseOf
  <2>3. BaseOf(TypeFor(spec)) = BaseOf(spec.type)
    BY <1>1, <2>1, <2>2, Zenon
  <2>4. ~(TypeFor(spec) \in {"B", "X"})
    BY <2>1, <2>2, Zenon
  <2>5. ~(spec.type \in {"B", "X"})
    BY <1>1, <2>2, Zenon
  <2>6. (TypeFor(spec) \in {"B", "X"} <=> spec.type \in {"B", "X"})
    BY <2>4, <2>5, Zenon
  <2>. QED BY <2>3, <2>6, Zenon
<1>2. CASE spec.type # ""
  <2>1. TypeFor(spec) = spec.type
    BY <1>2 DEF TypeFor
  <2>. QED BY <2>1
<1>. QED BY <1>1, <1>2

\* The sign WriteSign puts in front is the one that is meant; that of a
\* negative number comes from to_chars.
SameSign(q, spec, n) ==
    IF n < 0 THEN WriteSign(q, n < 0) = <<>> /\ SignText(spec, n < 0) = <<"-">>
             ELSE WriteSign(q, n < 0) = SignText(spec, n < 0)

\* So it is where no "+" is asked for a negative number.
LEMMA SignSame ==
    ASSUME NEW spec, NEW q, NEW n, n \in Int, spec.sign \in {"", "+", "-", " "}, q.sign = SignFor(spec),
           n < 0 => spec.sign # "+"
    PROVE  SameSign(q, spec, n)
<1>1. Signs["+"] = "Plus" /\ Signs["-"] = "Minus" /\ Signs[" "] = "Space"
  BY DEF Signs
<1>2. CASE n < 0
  <2>1. q.sign # "Plus"
    BY <1>1, <1>2 DEF SignFor
  <2>2. WriteSign(q, n < 0) = <<>>
    BY <1>2, <2>1, Zenon DEF WriteSign
  <2>3. SignText(spec, n < 0) = <<"-">>
    BY <1>2, SignMarks
  <2>. QED BY <1>2, <2>2, <2>3, Zenon DEF SameSign
<1>3. CASE ~(n < 0)
  <2>. SUFFICES WriteSign(q, n < 0) = SignText(spec, n < 0)
    BY <1>3, Zenon DEF SameSign
  <2>1. CASE spec.sign = "+"
    <3>1. q.sign = "Plus"
      BY <1>1, <2>1 DEF SignFor
    <3>. QED BY <1>3, <2>1, <3>1 DEF WriteSign, SignText
  <2>2. CASE spec.sign = " "
    <3>1. q.sign = "Space" /\ "Space" # "Plus"
      BY <1>1, <2>2 DEF SignFor
    <3>2. WriteSign(q, n < 0) = <<" ">>
      BY <1>3, <3>1, Zenon DEF WriteSign
    <3>. QED BY <1>3, <2>2, <3>2 DEF SignText
  <2>3. CASE spec.sign \in {"", "-"}
    <3>1. q.sign # "Plus" /\ q.sign # "Space"
      BY <1>1, <2>3 DEF SignFor
    <3>2. WriteSign(q, n < 0) = <<>>
      BY <3>1, Zenon DEF WriteSign
    <3>3. SignText(spec, n < 0) = <<>>
      BY <1>3, <2>3 DEF SignText
    <3>. QED BY <1>3, <3>2, <3>3
  <2>. QED BY <2>1, <2>2, <2>3
<1>. QED BY <1>2, <1>3

\* The prefix that is stored is the one that is meant.
LEMMA PrefixSame ==
    ASSUME NEW spec, spec.type \in IntegerTypes \union {""}, spec.alt \in BOOLEAN,
           NEW type \in {"int", "bool", "char"}, NEW n,
           ~(n = 0 /\ spec.alt /\ spec.type = "o")
    PROVE  /\ PrefixFor(spec, type) = IntPrefix(spec, n)
           /\ ~(spec.alt /\ spec.type \in DOMAIN PreAltForm) => IntPrefix(spec, n) = <<>>
              /\ PrefixFor(spec, type) = <<>>
<1>1. DOMAIN PreAltForm = {"b", "B", "o", "x", "X"}
  BY DEF PreAltForm
<1>2. CASE ~spec.alt
  BY <1>2, Zenon DEF PrefixFor, IntPrefix
<1>3. CASE spec.alt /\ spec.type \in {"b", "B", "x", "X"}
  <2>1. IntPrefix(spec, n) = <<"0", spec.type>>
    BY <1>3, Zenon DEF IntPrefix
  <2>2. PreAltForm[spec.type] = <<"0", spec.type>>
    BY <1>3 DEF PreAltForm
  <2>3. spec.type \in DOMAIN PreAltForm
    BY <1>1, <1>3
  <2>4. PrefixFor(spec, type) = PreAltForm[spec.type]
    BY <1>3, <2>3, Zenon DEF PrefixFor
  <2>. QED BY <1>3, <2>1, <2>2, <2>3, <2>4
<1>4. CASE spec.alt /\ spec.type = "o"
  <2>1. IntPrefix(spec, n) = <<"0">>
    BY <1>4 DEF IntPrefix
  <2>2. PreAltForm["o"] = <<"0">>
    BY DEF PreAltForm
  <2>3. spec.type \in DOMAIN PreAltForm
    BY <1>1, <1>4
  <2>4. PrefixFor(spec, type) = PreAltForm[spec.type]
    BY <1>4, <2>3, Zenon DEF PrefixFor
  <2>. QED BY <1>4, <2>1, <2>2, <2>3, <2>4
<1>5. CASE spec.type \in {"d", ""}
  <2>1. IntPrefix(spec, n) = <<>>
    BY <1>5 DEF IntPrefix
  <2>2. spec.type \notin DOMAIN PreAltForm
    BY <1>1, <1>5
  <2>. QED BY <2>1, <2>2, Zenon DEF PrefixFor
<1>6. spec.type \in {"b", "B", "x", "X"} \/ spec.type = "o" \/ spec.type \in {"d", ""}
  BY DEF IntegerTypes
<1>. QED BY <1>2, <1>3, <1>4, <1>5, <1>6

\* How much of the buffer the sign takes.
SignRoom(spec, n) == Len(SignText(spec, n < 0)) = IF n < 0 \/ spec.sign \in {"+", " "} THEN 1 ELSE 0

\* One character if there is one.
LEMMA SignLength ==
    ASSUME NEW spec, NEW n, n \in Int, spec.sign \in {"", "+", "-", " "}
    PROVE  SignRoom(spec, n)
<1>. USE DEF SignRoom
<1>1. CASE n < 0
  <2>1. SignText(spec, n < 0) = <<"-">>
    BY <1>1, SignMarks
  <2>2. Len(<<"-">>) = 1
    OBVIOUS
  <2>. QED BY <1>1, <2>1, <2>2, Zenon
<1>2. CASE ~(n < 0) /\ spec.sign \in {"+", " "}
  BY <1>2 DEF SignText
<1>3. CASE ~(n < 0) /\ spec.sign \notin {"+", " "}
  BY <1>3 DEF SignText
<1>. QED BY <1>1, <1>2, <1>3

\* The prefix takes at most two.
LEMMA PrefixLength ==
    ASSUME NEW spec, NEW n
    PROVE  Len(IntPrefix(spec, n)) \in Nat /\ Len(IntPrefix(spec, n)) <= IF spec.alt THEN 2 ELSE 0
<1>1. CASE ~spec.alt
  <2>1. IntPrefix(spec, n) = <<>>
    BY <1>1, Zenon DEF IntPrefix
  <2>. QED BY <1>1, <2>1
<1>2. CASE spec.alt
  <2>1. IntPrefix(spec, n) = <<"0", spec.type>> \/ IntPrefix(spec, n) = <<"0">>
        \/ IntPrefix(spec, n) = <<>>
    BY <1>2, Zenon DEF IntPrefix
  <2>2. Len(<<"0", spec.type>>) = 2 /\ Len(<<"0">>) = 1 /\ Len(<<>>) = 0
    OBVIOUS
  <2>3. Len(IntPrefix(spec, n)) \in {0, 1, 2}
    BY <2>1, <2>2
  <2>4. \A l \in {0, 1, 2} : l \in Nat /\ l <= 2
    OBVIOUS
  <2>5. Len(IntPrefix(spec, n)) \in Nat /\ Len(IntPrefix(spec, n)) <= 2
    BY <2>3, <2>4, Zenon
  <2>. QED BY <1>2, <2>5, Zenon
<1>. QED BY <1>1, <1>2

\* What FormatIntegerType writes of an integer that is not grouped.
LEMMA IntWritten ==
    ASSUME NEW spec, NEW n, IntOk(spec, n), NEW q, NEW type, IntSpec(q, spec, type)
    PROVE  /\ FormatIntegerType(q, n) = Whole(IntHead(spec, n) \o IntShown(spec, n))
           /\ IntHead(spec, n) \o IntShown(spec, n) \in Seq(Marks)
<1>. DEFINE S == SignText(spec, n < 0)
            P == IntPrefix(spec, n)
            D == IntDigits(spec, n)
            h == S \o P
            W == WriteSign(q, n < 0)
            N == IF n < 0 THEN <<"-">> ELSE <<>>
            t == (W \o q.pre) \o (N \o D)
<1>1. /\ spec.sign \in {"", "+", "-", " "} /\ spec.alt \in BOOLEAN /\ n \in Int
         /\ spec.type \in IntegerTypes \union {""}
      /\ type \in {"int", "bool", "char"} /\ q.sign = SignFor(spec) /\ q.pre = PrefixFor(spec, type)
         /\ q.type = TypeFor(spec)
  BY SpecChars, Zenon DEF IntOk, IntSpec
<1>2. n < 0 => spec.sign # "+" /\ ~(spec.alt /\ spec.type \in DOMAIN PreAltForm)
  BY Zenon DEF IntOk
<1>3. ~(n = 0 /\ spec.alt /\ spec.type = "o")
  BY Zenon DEF IntOk
<1>4. S \in Seq(Marks) /\ S \in Seq(Upright)
  BY SignMarks
<1>5. P \in Seq(Marks) /\ (spec.type \in {"B", "X"} => P \in Seq(Upright))
  BY PrefixMarks
<1>6. /\ D \in Seq(Marks) /\ (BaseOf(spec.type) = 2 => D \in Seq(Upright))
      /\ ToChars(n, BaseOf(spec.type)) = N \o D
  BY <1>1, DigitMarks
<1>7. BaseOf(q.type) = BaseOf(spec.type) /\ (q.type \in {"B", "X"} <=> spec.type \in {"B", "X"})
  BY <1>1, TypeSame
<1>8. /\ n < 0 => W = <<>> /\ S = <<"-">>
      /\ ~(n < 0) => W = S
  <2>1. SameSign(q, spec, n)
    <3>1. n < 0 => spec.sign # "+"
      BY <1>2, Zenon
    <3>2. n \in Int /\ q.sign = SignFor(spec) /\ spec.sign \in {"", "+", "-", " "}
      BY <1>1, Zenon
    <3>. QED BY <3>1, <3>2, SignSame
  <2>. QED BY <2>1, Zenon DEF SameSign
<1>9. /\ q.pre = P /\ (~(spec.alt /\ spec.type \in DOMAIN PreAltForm) => P = <<>>)
  BY <1>1, <1>3, PrefixSame
<1>10. FormatIntegerType(q, n) =
          Whole(IF Len(t) > BufferSize THEN Filled(Past, BufferSize)
                ELSE IF q.type \in {"B", "X"} THEN BufferToUpper(t) ELSE t)
  <2>. DEFINE format == SetIntegralFormat(q)
              text == (W \o q.pre) \o ToChars(n, format.base)
  <2>1. format.base = BaseOf(q.type) /\ format.upper = (q.type \in {"B", "X"})
    BY DEF SetIntegralFormat
  <2>2. FormatIntegerType(q, n) = Whole(IF Len(text) > BufferSize THEN Filled(Past, BufferSize)
                                          ELSE IF format.upper THEN BufferToUpper(text) ELSE text)
    BY Zenon DEF FormatIntegerType
  <2>3. text = t
    BY <1>6, <1>7, <2>1, Zenon
  <2>. HIDE DEF format, text, t
  <2>. QED BY <2>1, <2>2, <2>3, Zenon
<1>11. IntHead(spec, n) = h
  BY DEF IntHead
<1>12. Len(S) = (IF n < 0 \/ spec.sign \in {"+", " "} THEN 1 ELSE 0)
       /\ Len(P) \in Nat /\ Len(P) <= (IF spec.alt THEN 2 ELSE 0)
  <2>1. Len(S) = (IF n < 0 \/ spec.sign \in {"+", " "} THEN 1 ELSE 0)
    <3>1. n \in Int /\ spec.sign \in {"", "+", "-", " "}
      BY <1>1, Zenon
    <3>2. SignRoom(spec, n)
      BY <3>1, SignLength
    <3>. QED BY <3>2, Zenon DEF S, SignRoom
  <2>2. Len(P) \in Nat /\ Len(P) <= (IF spec.alt THEN 2 ELSE 0)
    BY PrefixLength
  <2>. QED BY <2>1, <2>2, Zenon
<1>13. (IF n < 0 \/ spec.sign \in {"+", " "} THEN 1 ELSE 0) + (IF spec.alt THEN 2 ELSE 0)
           + Len(N \o D) <= BufferSize
  BY <1>6, Zenon DEF IntOk
<1>14. N \in Seq(Marks) /\ (n < 0 => N = <<"-">>) /\ (~(n < 0) => N = <<>>)
  <2>1. n < 0 => N = <<"-">>
    OBVIOUS
  <2>2. ~(n < 0) => N = <<>>
    OBVIOUS
  <2>3. <<"-">> \in Seq(Marks) /\ <<>> \in Seq(Marks)
    <3>1. <<"-">> \in Seq(Marks)
      BY FixedMarks, OneLong, Zenon
    <3>2. <<>> \in Seq(Marks)
      OBVIOUS
    <3>. QED BY <3>1, <3>2
  <2>4. N \in Seq(Marks)
    BY <2>1, <2>2, <2>3, Zenon
  <2>. QED BY <2>1, <2>2, <2>4, Zenon
<1>. HIDE DEF S, P, D, W, N, h
<1>15. h \in Seq(Marks) /\ h = S \o P
  BY <1>4, <1>5, MarkAssoc DEF h
<1>16. t = h \o D
  <2>1. CASE n < 0
    <3>1. P = <<>> /\ q.pre = <<>> /\ W = <<>> /\ N = <<"-">> /\ S = <<"-">>
      BY <1>2, <1>8, <1>9, <1>14, <2>1
    <3>2. t = (<<>> \o <<>>) \o (N \o D) /\ h = S \o <<>> /\ S = N
      BY <1>15, <3>1
    <3>3. <<>> \o <<>> = <<>> /\ S \o <<>> = S
      BY <1>4, MarkAssoc
    <3>4. N \o D \in Seq(Marks)
      BY <1>6, <1>14, MarkAssoc
    <3>5. <<>> \o (N \o D) = N \o D
      BY <3>4, MarkAssoc
    <3>. QED BY <3>2, <3>3, <3>5
  <2>2. CASE ~(n < 0)
    <3>1. t = h \o (<<>> \o D)
      BY <1>8, <1>9, <1>14, <1>15, <2>2
    <3>2. <<>> \o D = D
      BY <1>6, MarkAssoc
    <3>. QED BY <3>1, <3>2
  <2>. QED BY <2>1, <2>2
<1>17. h \o D \in Seq(Marks)
  BY <1>6, <1>15, MarkAssoc
<1>18. Len(t) <= BufferSize
  <2>1. LaidBehind(h \o D, h, D) /\ LaidBehind(S \o P, S, P) /\ LaidBehind(N \o D, N, D)
    BY <1>4, <1>5, <1>6, <1>14, <1>15, Laid
  <2>. DEFINE x == Len(t)
              y == Len(h)
              z == Len(D)
              u == Len(S)
              v == Len(P)
              w == Len(N)
              nd == Len(N \o D)
              first == IF n < 0 \/ spec.sign \in {"+", " "} THEN 1 ELSE 0
              second == IF spec.alt THEN 2 ELSE 0
  <2>2. /\ x = y + z /\ y = u + v /\ nd = w + z /\ z \in Nat /\ u \in Nat /\ v \in Nat /\ w \in Nat
    BY <1>15, <1>16, <2>1, Zenon DEF LaidBehind
  <2>3. u = first /\ v <= second /\ first + second + nd <= BufferSize
    BY <1>12, <1>13, Zenon
  <2>4. first \in Nat /\ second \in Nat
    <3>1. 1 \in Nat /\ 0 \in Nat /\ 2 \in Nat
      OBVIOUS
    <3>. QED BY <3>1, Zenon
  <2>. HIDE DEF x, y, z, u, v, w, nd, first, second
  <2>5. x <= BufferSize
    BY <2>2, <2>3, <2>4 DEF BufferSize
  <2>. QED BY <2>5 DEF x
<1>19. (IF q.type \in {"B", "X"} THEN BufferToUpper(h \o D) ELSE h \o D) = h \o IntShown(spec, n)
  <2>1. CASE spec.type \in {"B", "X"}
    <3>1. h \in Seq(Upright)
      <4>1. P \in Seq(Upright)
        BY <1>5, <2>1
      <4>2. S \o P \in Seq(Upright)
        BY <1>4, <4>1
      <4>. QED BY <1>15, <4>2
    <3>2. BufferToUpper(h \o D) = BufferToUpper(h) \o BufferToUpper(D) /\ BufferToUpper(h) = h
      BY <1>6, <1>15, <3>1, UpperBoth, UpperUpright
    <3>3. BufferToUpper(D) = IntShown(spec, n)
      <4>1. CASE spec.type = "X"
        BY <4>1, Zenon DEF IntShown, D
      <4>2. CASE spec.type = "B"
        <5>1. BaseOf(spec.type) = 2
          BY <4>2 DEF BaseOf
        <5>2. BufferToUpper(D) = D
          BY <1>6, <5>1, UpperUpright
        <5>3. "B" # "X"
          OBVIOUS
        <5>. QED BY <4>2, <5>2, <5>3, Zenon DEF IntShown, D
      <4>. QED BY <2>1, <4>1, <4>2
    <3>. QED BY <1>7, <2>1, <3>2, <3>3
  <2>2. CASE spec.type \notin {"B", "X"}
    <3>1. IntShown(spec, n) = D
      BY <2>2, Zenon DEF IntShown, D
    <3>. QED BY <1>7, <2>2, <3>1
  <2>. QED BY <2>1, <2>2
<1>20. ~(Len(t) > BufferSize)
  <2>. DEFINE x == Len(t)
  <2>1. x <= BufferSize /\ x \in Nat
    BY <1>16, <1>17, <1>18, MarkLength
  <2>. HIDE DEF x
  <2>2. ~(x > BufferSize)
    BY <2>1 DEF BufferSize
  <2>. QED BY <2>2 DEF x
<1>21. FormatIntegerType(q, n) = Whole(h \o IntShown(spec, n))
  BY <1>10, <1>16, <1>19, <1>20, Zenon
<1>22. h \o IntShown(spec, n) \in Seq(Marks)
  <2>1. IntShown(spec, n) \in Seq(Marks)
    BY <1>1, DigitMarks
  <2>. QED BY <1>15, <2>1, MarkAssoc
<1>. QED BY <1>11, <1>21, <1>22

------------------------------------------------------------------------------
(****************************************************************************)
(* The groups of digits, by position.                                       *)
(****************************************************************************)

\* The text in which every third digit from the end has a separator in front of it, by position.
GroupedMark(s, n, d) == IF d % 4 = 3 THEN Separator ELSE s[n - (3 * (d \div 4) + (d % 4))]

\* Where digit k ends, with the separator behind it.
GroupEnd(n, total, k) == IF k = n THEN total ELSE total - ((n - k) + ((n - k - 1) \div 3))

GroupText(s, n, k) == IF k < n /\ (n - k) % 3 = 0 THEN <<s[k], Separator>> ELSE <<s[k]>>

\* The separator is a mark.
LEMMA SeparatorMark == Separator \in Marks
BY MarksInclude DEF Fixed

\* Numbers by threes.
LEMMA Thirds ==
    ASSUME NEW r \in Nat
    PROVE  \E a \in Nat, c \in 0 .. 2 : /\ r = 3 * a + c /\ r \div 3 = a /\ r % 3 = c
                                        /\ c = 0 /\ r > 0 => a >= 1 /\ (r - 1) \div 3 = a - 1
                                        /\ c # 0 => (r - 1) \div 3 = a
<1>. DEFINE a == r \div 3
            c == r % 3
<1>1. a \in Nat /\ c \in 0 .. 2 /\ r = 3 * a + c
  OBVIOUS
<1>2. c = 0 /\ r > 0 => a >= 1 /\ (r - 1) \div 3 = a - 1
  BY <1>1
<1>3. c # 0 => (r - 1) \div 3 = a
  BY <1>1
<1>. QED BY <1>1, <1>2, <1>3

\* Numbers by fours.
LEMMA Fourths ==
    ASSUME NEW a \in Int, NEW c \in 0 .. 3
    PROVE  (4 * a + c) \div 4 = a /\ (4 * a + c) % 4 = c
OBVIOUS

\* Where the digit before position e of a grouped text stands, and its
\* separator.
GroupPlaced(n, total, k, b, e) ==
    /\ b \in Nat /\ e \in Nat /\ e <= total /\ b < total
    /\ (total - (b + 1)) % 4 # 3
    /\ n - (3 * ((total - (b + 1)) \div 4) + ((total - (b + 1)) % 4)) = k
    /\ IF k < n /\ (n - k) % 3 = 0 THEN e = b + 2 /\ (total - (b + 2)) % 4 = 3 ELSE e = b + 1

\* The positions count groups of four characters, the digits groups of three.
LEMMA GroupPlace ==
    ASSUME NEW n \in Nat, NEW total \in Nat, total = n + ((n - 1) \div 3), NEW k \in 1 .. n,
           NEW b, b = GroupEnd(n, total, k - 1), NEW e, e = GroupEnd(n, total, k)
    PROVE  GroupPlaced(n, total, k, b, e)
<1>. DEFINE r == n - k
<1>1. r \in Nat /\ n = k + r /\ k >= 1 /\ (k < n <=> r > 0)
  OBVIOUS
<1>2. PICK a \in Nat, c \in 0 .. 2 : /\ r = 3 * a + c /\ r \div 3 = a /\ r % 3 = c
                                     /\ c = 0 /\ r > 0 => a >= 1 /\ (r - 1) \div 3 = a - 1
                                     /\ c # 0 => (r - 1) \div 3 = a
  <2>. HIDE DEF r
  <2>. QED BY <1>1, Thirds
<1>3. b = total - ((r + 1) + a)
  <2>1. b = total - ((r + 1) + (r \div 3))
    BY DEF GroupEnd
  <2>. QED BY <1>2, <2>1
<1>4. k = n => e = total
  BY DEF GroupEnd
<1>5. k < n => e = total - (r + ((r - 1) \div 3))
  BY DEF GroupEnd
<1>6. r <= n - 1 /\ a <= (n - 1) \div 3
  BY <1>1, <1>2
<1>. DEFINE D == total - (b + 1)
<1>7. D = 4 * a + c
  BY <1>1, <1>2, <1>3
<1>8. D \div 4 = a /\ D % 4 = c
  BY <1>7, <1>2, Fourths
<1>9. b \in Nat /\ b < total
  BY <1>1, <1>2, <1>3, <1>6
<1>10. n - (3 * (D \div 4) + (D % 4)) = k
  <2>1. n - (3 * a + c) = k
    BY <1>1, <1>2
  <2>. QED BY <1>8, <2>1
<1>11. D % 4 # 3
  BY <1>8
<1>. HIDE DEF D, r
<1>12. IF k < n /\ r % 3 = 0 THEN e = b + 2 /\ (total - (b + 2)) % 4 = 3 ELSE e = b + 1
  <2>1. CASE k < n /\ c = 0
    <3>1. e = b + 2 /\ total - (b + 2) = 4 * (a - 1) + 3
      <4>1. e = total - (r + (a - 1))
        BY <1>1, <1>2, <1>5, <2>1
      <4>. QED BY <1>1, <1>2, <1>3, <2>1, <4>1
    <3>2. (4 * (a - 1) + 3) % 4 = 3
      BY <1>2, Fourths
    <3>. QED BY <1>2, <2>1, <3>1, <3>2
  <2>2. CASE k < n /\ c # 0
    <3>1. e = total - (r + a)
      BY <1>1, <1>2, <1>5, <2>2
    <3>2. e = b + 1
      BY <1>1, <1>2, <1>3, <3>1
    <3>. QED BY <1>2, <2>2, <3>2
  <2>3. CASE ~(k < n)
    <3>1. k = n /\ r = 0 /\ a = 0
      BY <1>1, <1>2, <2>3
    <3>2. e = b + 1
      BY <1>2, <1>3, <1>4, <3>1
    <3>. QED BY <2>3, <3>2
  <2>. QED BY <2>1, <2>2, <2>3
<1>13. e \in Nat /\ e <= total
  <2>1. e = b + 1 \/ (e = b + 2 /\ k < n)
    BY <1>12
  <2>2. CASE e = b + 1
    BY <1>9, <2>2
  <2>3. CASE e = b + 2 /\ k < n
    BY <1>1, <1>2, <1>3, <1>9, <2>3
  <2>. QED BY <2>1, <2>2, <2>3
<1>. QED BY <1>9, <1>10, <1>11, <1>12, <1>13 DEF D, r, GroupPlaced

\* The first digit begins the text, the last one ends it.
LEMMA GroupBegin ==
    ASSUME NEW n \in Nat, n >= 1, NEW total \in Nat, total = n + ((n - 1) \div 3)
    PROVE  GroupEnd(n, total, 0) = 0 /\ GroupEnd(n, total, n) = total
           /\ \A k \in 0 .. n : GroupEnd(n, total, k) \in 0 .. total
<1>1. GroupEnd(n, total, 0) = 0 /\ GroupEnd(n, total, n) = total
  BY DEF GroupEnd
<1>2. ASSUME NEW k \in 0 .. n PROVE GroupEnd(n, total, k) \in 0 .. total
  <2>1. CASE k = 0
    BY <1>1, <2>1
  <2>2. CASE k # 0
    <3>1. k \in 1 .. n
      BY <2>2
    <3>. DEFINE e == GroupEnd(n, total, k)
                b == GroupEnd(n, total, k - 1)
    <3>2. e = GroupEnd(n, total, k) /\ b = GroupEnd(n, total, k - 1)
      OBVIOUS
    <3>. HIDE DEF e, b
    <3>3. GroupPlaced(n, total, k, b, e)
      BY <3>1, <3>2, GroupPlace
    <3>4. e \in Nat /\ e <= total
      BY <3>3, Zenon DEF GroupPlaced
    <3>. QED BY <3>4 DEF e
  <2>. QED BY <2>1, <2>2
<1>. QED BY <1>1, <1>2

\* Two characters.
LEMMA TwoMarks ==
    ASSUME NEW x \in Marks, NEW y \in Marks
    PROVE  <<x, y>> \in Seq(Marks) /\ Len(<<x, y>>) = 2 /\ <<x, y>>[1] = x /\ <<x, y>>[2] = y
OBVIOUS

\* A digit, and a separator behind every third one from the end.
LEMMA GroupTextMarks ==
    ASSUME NEW s \in Seq(Marks), NEW n, n = Len(s), NEW k \in 1 .. n
    PROVE  /\ GroupText(s, n, k) \in Seq(Marks) /\ GroupText(s, n, k)[1] = s[k]
           /\ IF k < n /\ (n - k) % 3 = 0 THEN Len(GroupText(s, n, k)) = 2
              /\ GroupText(s, n, k)[2] = Separator
                                          ELSE Len(GroupText(s, n, k)) = 1
<1>1. s[k] \in Marks
  OBVIOUS
<1>2. CASE k < n /\ (n - k) % 3 = 0
  <2>1. GroupText(s, n, k) = <<s[k], Separator>>
    BY <1>2, Zenon DEF GroupText
  <2>2. <<s[k], Separator>> \in Seq(Marks) /\ Len(<<s[k], Separator>>) = 2
        /\ <<s[k], Separator>>[1] = s[k] /\ <<s[k], Separator>>[2] = Separator
    BY <1>1, SeparatorMark, TwoMarks
  <2>. QED BY <1>2, <2>1, <2>2, Zenon
<1>3. CASE ~(k < n /\ (n - k) % 3 = 0)
  <2>1. GroupText(s, n, k) = <<s[k]>>
    BY <1>3, Zenon DEF GroupText
  <2>2. <<s[k]>> \in Seq(Marks) /\ Len(<<s[k]>>) = 1 /\ <<s[k]>>[1] = s[k]
    BY <1>1, OneLong
  <2>. QED BY <1>3, <2>1, <2>2, Zenon
<1>. QED BY <1>2, <1>3, Zenon

\* One more digit of a grouped text.
GroupsSoFar(t, s, n, total, k) ==
    /\ t \in Seq(Marks) /\ Len(t) = GroupEnd(n, total, k)
    /\ \A p \in 1 .. GroupEnd(n, total, k) : t[p] = GroupedMark(s, n, total - p)

\* With one more digit the text is still the one of GroupedMark.
LEMMA OneMoreGroup ==
    ASSUME NEW s \in Seq(Marks), NEW n, n = Len(s), NEW total \in Nat, total = n + ((n - 1) \div 3),
           NEW k \in 1 .. n,
           NEW t, GroupsSoFar(t, s, n, total, k - 1), NEW u, u = t \o GroupText(s, n, k)
    PROVE  GroupsSoFar(u, s, n, total, k)
<1>. DEFINE b == GroupEnd(n, total, k - 1)
            e == GroupEnd(n, total, k)
            x == GroupText(s, n, k)
            m == Len(x)
            last == k < n /\ (n - k) % 3 = 0
<1>1. n \in Nat
  OBVIOUS
<1>2. x \in Seq(Marks) /\ x[1] = s[k] /\ IF last THEN m = 2 /\ x[2] = Separator ELSE m = 1
  BY GroupTextMarks
<1>3. t \in Seq(Marks) /\ Len(t) = b /\ \A p \in 1 .. b : t[p] = GroupedMark(s, n, total - p)
  BY DEF GroupsSoFar
<1>4. LaidBehind(u, t, x)
  BY <1>2, <1>3, Laid
<1>5. b = GroupEnd(n, total, k - 1) /\ e = GroupEnd(n, total, k)
  OBVIOUS
<1>. HIDE DEF b, e, x
<1>6. /\ b \in Nat /\ e \in Nat /\ (total - (b + 1)) % 4 # 3
      /\ n - (3 * ((total - (b + 1)) \div 4) + ((total - (b + 1)) % 4)) = k
      /\ IF last THEN e = b + 2 /\ (total - (b + 2)) % 4 = 3 ELSE e = b + 1
  <2>. HIDE DEF m, last
  <2>1. /\ b \in Nat /\ e \in Nat /\ e <= total /\ b < total
        /\ (total - (b + 1)) % 4 # 3
        /\ n - (3 * ((total - (b + 1)) \div 4) + ((total - (b + 1)) % 4)) = k
        /\ IF k < n /\ (n - k) % 3 = 0 THEN e = b + 2 /\ (total - (b + 2)) % 4 = 3 ELSE e = b + 1
    <3>1. GroupPlaced(n, total, k, b, e)
      BY <1>1, <1>5, GroupPlace
    <3>. QED BY <3>1, Zenon DEF GroupPlaced
  <2>. QED BY <2>1, Zenon DEF last
<1>7. GroupedMark(s, n, total - (b + 1)) = s[k]
  BY <1>6, Zenon DEF GroupedMark
<1>8. last => GroupedMark(s, n, total - (b + 2)) = Separator
  BY <1>6, Zenon DEF GroupedMark
<1>9. u \in Seq(Marks) /\ Len(u) = b + m /\ (\A i \in 1 .. b : u[i] = t[i])
      /\ \A i \in 1 .. m : u[b + i] = x[i]
  BY <1>3, <1>4, Zenon DEF LaidBehind
<1>. HIDE DEF m, last
<1>10. Len(u) = e
  BY <1>2, <1>6, <1>9
<1>11. ASSUME NEW p \in 1 .. e PROVE u[p] = GroupedMark(s, n, total - p)
  <2>1. CASE p \in 1 .. b
    BY <1>3, <1>9, <2>1
  <2>2. CASE p = b + 1
    <3>1. u[b + 1] = x[1]
      <4>1. 1 \in 1 .. m
        BY <1>2
      <4>. QED BY <1>9, <4>1
    <3>. QED BY <1>2, <1>7, <2>2, <3>1
  <2>3. CASE p = b + 2 /\ last
    <3>1. u[b + 2] = x[2]
      <4>1. 2 \in 1 .. m
        BY <1>2, <2>3
      <4>. QED BY <1>9, <4>1
    <3>. QED BY <1>2, <1>8, <2>3, <3>1
  <2>4. p \in 1 .. b \/ p = b + 1 \/ (p = b + 2 /\ last)
    BY <1>6
  <2>. QED BY <2>1, <2>2, <2>3, <2>4
<1>. QED BY <1>9, <1>10, <1>11, Zenon DEF GroupsSoFar, e

\* Grouped in positions.
LEMMA GroupedText ==
    ASSUME NEW s \in Seq(Marks), NEW n, n = Len(s), n >= 1, NEW total \in Nat,
           total = n + ((n - 1) \div 3)
    PROVE  GroupsSoFar(Grouped(s, 3), s, n, total, n) /\ Len(Grouped(s, 3)) = total
<1>. DEFINE texts == [i \in 1 .. n |-> GroupText(s, n, i)]
<1>1. n \in Nat
  OBVIOUS
<1>2. texts \in Seq(Seq(Marks)) /\ Len(texts) = n /\ \A i \in 1 .. n : texts[i] = GroupText(s, n, i)
  <2>1. \A i \in 1 .. n : GroupText(s, n, i) \in Seq(Marks)
    BY GroupTextMarks
  <2>. QED BY <1>1, <2>1
<1>3. Grouped(s, 3) = FlattenSeq(texts)
  BY Zenon DEF Grouped, GroupText
<1>. HIDE DEF texts
<1>4. PICK g \in [0 .. n -> Seq(Marks)] : /\ g[0] = <<>> /\ g[n] = FlattenSeq(texts)
                                          /\ \A k \in 1 .. n : g[k] = g[k - 1] \o texts[k]
  BY <1>2, FlattenedPrefixes
<1>. DEFINE S == {k \in 0 .. n : GroupsSoFar(g[k], s, n, total, k)}
<1>5. 0 \in S
  <2>1. GroupEnd(n, total, 0) = 0
    BY <1>1, GroupBegin
  <2>2. GroupsSoFar(g[0], s, n, total, 0)
    <3>1. g[0] = <<>> /\ <<>> \in Seq(Marks) /\ Len(<<>>) = 0 /\ 1 .. 0 = {}
      BY <1>4
    <3>. QED BY <2>1, <3>1 DEF GroupsSoFar
  <2>. QED BY <1>1, <2>2
<1>6. ASSUME NEW k \in 0 .. n - 1, k \in S PROVE k + 1 \in S
  <2>. DEFINE j == k + 1
  <2>1. j \in 1 .. n /\ j - 1 = k /\ j \in 0 .. n
    BY <1>1
  <2>2. GroupsSoFar(g[j - 1], s, n, total, j - 1) /\ g[j] = g[j - 1] \o GroupText(s, n, j)
    BY <1>2, <1>4, <1>6, <2>1
  <2>. HIDE DEF j
  <2>3. GroupsSoFar(g[j], s, n, total, j)
    BY <2>1, <2>2, OneMoreGroup
  <2>4. j \in S
    BY <2>1, <2>3
  <2>. QED BY <2>4 DEF j
<1>. HIDE DEF S
<1>7. \A k \in 0 .. n : k \in S
  BY <1>1, <1>5, <1>6, InductionUpTo
<1>8. n \in S
  BY <1>1, <1>7
<1>9. GroupsSoFar(Grouped(s, 3), s, n, total, n)
  BY <1>3, <1>4, <1>8 DEF S
<1>10. GroupEnd(n, total, n) = total
  BY <1>1, GroupBegin
<1>. QED BY <1>9, <1>10, Zenon DEF GroupsSoFar

------------------------------------------------------------------------------
(****************************************************************************)
(* FormatIntegralGrouping moves them one after another.                     *)
(****************************************************************************)

\* What MoveRest has done after m groups of a text of n digits, for which it made room behind total.
GroupState(s, n, total, m) ==
    [text |-> [p \in 1 .. BufferSize |-> IF p > total - 4 * m
       /\ p <= total THEN GroupedMark(s, n, total - p)
                                          ELSE Prefix(s, BufferSize)[p]],
     left |-> n - 3 * m, space |-> total - 4 * m, done |-> FALSE]

\* How much room is left before m of the groups are moved.
Room(seps, m, left, space) ==
    /\ seps \in Nat /\ left \in Nat /\ left >= 1 /\ space \in Nat /\ space = left + (seps - m)
    /\ m < seps => left > 3 /\ ~(left <= 3) /\ left < space /\ space > 4
    /\ m = seps => left <= 3 /\ space = left

\* A group is moved as long as more than three digits are left.
LEMMA RoomForGroups ==
    ASSUME NEW n \in Nat, n >= 1, NEW seps, seps = (n - 1) \div 3, NEW m \in 0 .. seps,
           NEW left, left = n - 3 * m, NEW space, space = (n + seps) - 4 * m
    PROVE  Room(seps, m, left, space)
<1>1. seps \in Nat /\ n >= 3 * seps + 1 /\ n <= 3 * seps + 3
  OBVIOUS
<1>. QED BY <1>1 DEF Room

\* How a group is moved, as a record.
GroupRecord(text, left, space) == [text |-> text, left |-> left, space |-> space, done |-> FALSE]

\* A change of the state, and what is read of it.
GroupUpdate(st, t, m, l) == [st EXCEPT !.text = t, !.space = m, !.left = l]

\* The members of a state.
LEMMA GroupFields ==
    ASSUME NEW text, NEW left, NEW space, NEW st, st = GroupRecord(text, left, space)
    PROVE  st.text = text /\ st.left = left /\ st.space = space /\ ~st.done
BY DEF GroupRecord

\* Changed, it is a state again.
LEMMA GroupChanged ==
    ASSUME NEW text, NEW left, NEW space, NEW st, st = GroupRecord(text, left, space), NEW t, NEW l,
           NEW m,
           NEW y, y = GroupUpdate(st, t, m, l)
    PROVE  y = GroupRecord(t, l, m)
BY Zenon DEF GroupRecord, GroupUpdate

\* One element of a function.
LEMMA ChangedAt ==
    ASSUME NEW N, NEW f, f = [i \in N |-> f[i]], NEW x, NEW c
    PROVE  [f EXCEPT ![x] = c] = [i \in N |-> IF i = x THEN c ELSE f[i]]
OBVIOUS

\* Numbers by fours, as positions.
LEMMA GroupPositions ==
    ASSUME NEW d \in Nat, NEW c \in 0 .. 3
    PROVE  (4 * d + c) % 4 = c /\ (4 * d + c) \div 4 = d
OBVIOUS

\* Position i is one of the three digits of a group, the one that was at
\* i - space + left, where n - left digits and their separators stand behind.
DigitOfGroup(n, m, left, space, total, i) ==
    /\ space - i \in 0 .. 2 /\ i - space + left = left - (space - i)
    /\ i - space + left \in 1 .. n /\ ~(i - space + left > space) /\ i - space + left \in 1 .. total
    /\ i # space - 3 /\ total - i = 4 * m + (space - i) /\ i > space - 4 /\ i <= total
    /\ n - (3 * m + (space - i)) = i - space + left

\* The digits of a group, as they are moved.
LEMMA DigitsOfGroup ==
    ASSUME NEW n \in Nat, NEW m \in Nat, NEW left \in Nat, NEW space \in Nat, NEW total \in Nat,
           left > 3, left <= n, left < space, n - left = 3 * m, total - space = 4 * m,
           NEW i, i \in space - 3 + 1 .. space
    PROVE  DigitOfGroup(n, m, left, space, total, i)
<1>1. i \in Int /\ i >= space - 2 /\ i <= space
  OBVIOUS
<1>2. space <= total /\ left <= n /\ n <= total
  OBVIOUS
<1>3. space - i \in 0 .. 2 /\ i - space + left = left - (space - i) /\ i # space - 3 /\ i > space - 4
  BY <1>1
<1>4. i - space + left \in 1 .. left
  BY <1>1
<1>5. i - space + left \in 1 .. n /\ ~(i - space + left > space) /\ i - space + left \in 1 .. total
  <2>. DEFINE j == i - space + left
  <2>. HIDE DEF j
  <2>. QED BY <1>2, <1>4 DEF j
<1>6. total - i = 4 * m + (space - i) /\ i <= total
  BY <1>1, <1>2
<1>7. n - (3 * m + (space - i)) = i - space + left
  BY <1>1
<1>. QED BY <1>3, <1>5, <1>6, <1>7 DEF DigitOfGroup

\* Position i is the one of the separator in front of the digits of a group.
SeparatorOfGroup(m, total, space, i) ==
    total - i = 4 * m + 3 /\ i > space - 4 /\ i <= total

\* Where a separator is put.
LEMMA SeparatorsOfGroup ==
    ASSUME NEW m \in Nat, NEW space \in Nat, NEW total \in Nat, total - space = 4 * m,
           NEW i, i = space - 3
    PROVE  SeparatorOfGroup(m, total, space, i)
BY DEF SeparatorOfGroup

\* What is within the text is within the buffer.
LEMMA WithinBuffer ==
    ASSUME NEW total \in Nat, total <= BufferSize, NEW j, j \in 1 .. total
    PROVE  j \in 1 .. BufferSize
BY DEF BufferSize

\* A turn moves three digits with the separator in front of them (MoveGroup).
LEMMA OneGroupMoved ==
    ASSUME NEW s \in Seq(Marks), NEW n, n = Len(s), n >= 1, NEW seps, seps = (n - 1) \div 3, NEW total,
           total = n + seps,
           total <= BufferSize, NEW m \in 0 .. seps - 1
    PROVE  MoveGroup(GroupState(s, n, total, m), 3) = GroupState(s, n, total, m + 1)
<1>. DEFINE G == GroupState(s, n, total, m)
            H == GroupState(s, n, total, m + 1)
            left == n - 3 * m
            space == total - 4 * m
            old == [p \in 1 .. BufferSize |-> IF p > total - 4 * m
               /\ p <= total THEN GroupedMark(s, n, total - p)
                                              ELSE Prefix(s, BufferSize)[p]]
            new == [p \in 1 .. BufferSize |-> IF p > total - 4 * (m + 1)
               /\ p <= total THEN GroupedMark(s, n, total - p)
                                              ELSE Prefix(s, BufferSize)[p]]
            moved == [i \in 1 .. Len(old) |-> IF i \in space - 3 + 1 .. space THEN old[i - space + left]
                 ELSE old[i]]
            put == [moved EXCEPT ![space - 3] = Separator]
<1>1. n \in Nat /\ m \in Nat /\ seps \in Nat /\ total \in Nat
  <2>1. n \in Nat
    OBVIOUS
  <2>. QED BY <2>1
<1>2. left \in Nat /\ left > 3 /\ space \in Nat /\ left < space /\ space > 4
  <2>1. m \in 0 .. seps /\ m < seps
    BY <1>1
  <2>. DEFINE u == n - 3 * m
              v == (n + seps) - 4 * m
  <2>2. u = n - 3 * m /\ v = (n + seps) - 4 * m
    OBVIOUS
  <2>. HIDE DEF u, v
  <2>3. Room(seps, m, u, v)
    BY <1>1, <2>1, <2>2, RoomForGroups
  <2>4. u \in Nat /\ v \in Nat /\ (m < seps => u > 3 /\ ~(u <= 3) /\ u < v /\ v > 4)
    BY <2>3, Zenon DEF Room
  <2>. QED BY <2>1, <2>4 DEF u, v
<1>3. G = GroupRecord(old, left, space)
  BY Zenon DEF GroupState, GroupRecord
<1>4. H = GroupRecord(new, n - 3 * (m + 1), total - 4 * (m + 1))
  BY Zenon DEF GroupState, GroupRecord
<1>5. n - 3 * (m + 1) = left - 3 /\ total - 4 * (m + 1) = space - 3 - 1
  BY <1>1
<1>6. Len(old) = BufferSize
  BY DEF BufferSize
<1>. HIDE DEF G, H
<1>7. G.text = old /\ G.left = left /\ G.space = space
  <2>. HIDE DEF old, left, space
  <2>. QED BY <1>3, GroupFields
<1>8. MoveGroup(G, 3) = [G EXCEPT !.text = put, !.space = @ - 3 - 1, !.left = @ - 3]
  <2>1. MoveGroup(G, 3) = [G EXCEPT !.text = [[i \in 1 .. Len(G.text) |->
                      IF i \in G.space - 3 + 1 .. G.space THEN G.text[i - G.space + G.left]
                      ELSE G.text[i]] EXCEPT ![G.space - 3] = Separator], !.space = @ - 3 - 1,
                         !.left = @ - 3]
    BY Zenon DEF MoveGroup
  <2>. HIDE DEF old, left, space
  <2>. QED BY <1>7, <2>1, Zenon
<1>9. MoveGroup(G, 3) = GroupRecord(put, left - 3, space - 3 - 1)
  <2>. DEFINE y == [G EXCEPT !.text = put, !.space = space - 3 - 1, !.left = left - 3]
  <2>1. MoveGroup(G, 3) = y
    <3>. HIDE DEF old, left, space, put
    <3>. QED BY <1>7, <1>8, Zenon
  <2>2. y = GroupRecord(put, left - 3, space - 3 - 1)
    <3>. HIDE DEF old, left, space, put
    <3>1. y = GroupUpdate(G, put, space - 3 - 1, left - 3)
      BY DEF GroupUpdate
    <3>. HIDE DEF y
    <3>. QED BY <1>3, <3>1, GroupChanged
  <2>. QED BY <2>1, <2>2, Zenon
<1>10. put = new
  <2>. DEFINE P == Prefix(s, BufferSize)
  <2>1. \A p \in 1 .. BufferSize : old[p] = IF p > space
        /\ p <= total THEN GroupedMark(s, n, total - p) ELSE P[p]
    OBVIOUS
  <2>2. \A p \in 1 .. BufferSize : new[p] = IF p > space - 4
        /\ p <= total THEN GroupedMark(s, n, total - p) ELSE P[p]
    BY <1>1
  <2>3. DOMAIN new = 1 .. BufferSize /\ new = [p \in 1 .. BufferSize |-> new[p]]
    OBVIOUS
  <2>4. moved = [i \in 1 .. BufferSize |-> IF i \in space - 3 + 1 .. space THEN old[i - space + left]
          ELSE old[i]]
    BY <1>6
  <2>5. put = [i \in 1 .. BufferSize |-> IF i = space - 3 THEN Separator ELSE moved[i]]
    <3>1. moved = [i \in 1 .. BufferSize |-> moved[i]]
      BY <2>4
    <3>. HIDE DEF moved
    <3>. QED BY <3>1, ChangedAt
  <2>. HIDE DEF new, P
  <2>6. \A i \in 1 .. BufferSize : moved[i] = IF i \in space - 3 + 1 .. space THEN old[i - space + left]
          ELSE old[i]
    BY <2>4
  <2>. HIDE DEF old, moved
  <2>7. \A q \in 1 .. n : P[q] = s[q]
    <3>1. \A q \in 1 .. n : q \in 1 .. BufferSize /\ q <= Len(s)
      BY <1>1 DEF BufferSize
    <3>. QED BY <3>1 DEF P, Prefix
  <2>8. space <= total /\ left <= n /\ space = left + (seps - m) /\ total - space = 4 * m
        /\ n - left = 3 * m
    BY <1>1
  <2>9. ASSUME NEW i \in 1 .. BufferSize
        PROVE  (IF i = space - 3 THEN Separator ELSE moved[i]) = new[i]
    <3>. HIDE DEF left, space
    <3>1. CASE i = space - 3
      <4>1. total - i = 4 * m + 3 /\ i > space - 4 /\ i <= total
        <5>1. SeparatorOfGroup(m, total, space, i)
          BY <1>1, <1>2, <2>8, <3>1, SeparatorsOfGroup, Zenon
        <5>. QED BY <5>1, Zenon DEF SeparatorOfGroup
      <4>2. (total - i) % 4 = 3
        BY <1>1, <4>1, GroupPositions
      <4>3. new[i] = GroupedMark(s, n, total - i)
        BY <2>2, <4>1
      <4>. QED BY <3>1, <4>2, <4>3 DEF GroupedMark
    <3>2. CASE i \in space - 3 + 1 .. space
      <4>. DEFINE j == i - space + left
                  c == space - i
      <4>0. DigitOfGroup(n, m, left, space, total, i)
        BY <1>1, <1>2, <2>8, <3>2, DigitsOfGroup, Zenon
      <4>1. c \in 0 .. 2 /\ j = left - c /\ j \in 1 .. BufferSize /\ j \in 1 .. n /\ ~(j > space)
            /\ i # space - 3
        <5>1. c \in 0 .. 2 /\ j = left - c /\ j \in 1 .. n /\ ~(j > space) /\ i # space - 3
              /\ j \in 1 .. total
          BY <4>0, Zenon DEF DigitOfGroup
        <5>. HIDE DEF j, c
        <5>2. j \in 1 .. BufferSize
          BY <1>1, <5>1, WithinBuffer, Zenon
        <5>. QED BY <5>1, <5>2, Zenon
      <4>2. moved[i] = P[j]
        <5>1. moved[i] = old[j]
          BY <2>6, <3>2
        <5>. HIDE DEF j
        <5>2. old[j] = P[j]
          BY <2>1, <4>1
        <5>. QED BY <5>1, <5>2
      <4>3. total - i = 4 * m + c /\ i > space - 4 /\ i <= total
        BY <4>0, Zenon DEF DigitOfGroup
      <4>4. (total - i) % 4 = c /\ (total - i) \div 4 = m
        <5>1. c \in 0 .. 3
          BY <4>1
        <5>. HIDE DEF c
        <5>2. (4 * m + c) % 4 = c /\ (4 * m + c) \div 4 = m
          BY <1>1, <5>1, GroupPositions
        <5>. QED BY <4>3, <5>2
      <4>5. n - (3 * m + c) = j
        BY <4>0, Zenon DEF DigitOfGroup
      <4>. HIDE DEF j, c
      <4>6. GroupedMark(s, n, total - i) = s[j]
        <5>1. c # 3
          BY <4>1
        <5>. QED BY <4>4, <4>5, <5>1 DEF GroupedMark
      <4>7. new[i] = s[j]
        BY <2>2, <4>3, <4>6
      <4>. QED BY <2>7, <4>1, <4>2, <4>7
    <3>3. CASE i # space - 3 /\ i \notin space - 3 + 1 .. space
      <4>1. moved[i] = old[i]
        BY <2>6, <3>3
      <4>2. (i > space /\ i <= total) <=> (i > space - 4 /\ i <= total)
        BY <1>2, <3>3
      <4>. QED BY <2>1, <2>2, <3>3, <4>1, <4>2
    <3>. QED BY <3>1, <3>2, <3>3
  <2>10. put = [i \in 1 .. BufferSize |-> new[i]]
    <3>. HIDE DEF put, left, space
    <3>. QED BY <2>5, <2>9, Zenon
  <2>. QED BY <2>3, <2>10 DEF new
<1>. HIDE DEF put, new, left, space, old
<1>. QED BY <1>4, <1>5, <1>9, <1>10 DEF G, H

\* The states MoveRest goes through, the last of them twice.
GroupStage(s, n, total, seps, i) ==
    IF i <= seps THEN GroupState(s, n, total, i)
         ELSE [GroupState(s, n, total, seps) EXCEPT !.done = TRUE]

GroupRoom(s, n, seps, total) ==
    s \in Seq(Marks) /\ n = Len(s) /\ n >= 1 /\ seps = (n - 1) \div 3 /\ total = n + seps
       /\ total <= BufferSize

\* The numbers of it.
LEMMA GroupRoomSizes ==
    ASSUME NEW s, NEW n, NEW seps, NEW total, GroupRoom(s, n, seps, total)
    PROVE  n \in Nat /\ seps \in Nat /\ total \in Nat
<1>1. n \in Nat /\ n >= 1 /\ seps = (n - 1) \div 3 /\ total = n + seps
  BY DEF GroupRoom
<1>. QED BY <1>1

\* The loop ends when at most three digits are left.
LEMMA GroupLeft ==
    ASSUME NEW s, NEW n, NEW seps, NEW total, GroupRoom(s, n, seps, total), NEW m \in 0 .. seps
    PROVE  /\ ~GroupState(s, n, total, m).done
           /\ m < seps => ~(GroupState(s, n, total, m).left <= 3)
           /\ m = seps => GroupState(s, n, total, m).left <= 3
<1>1. n \in Nat /\ n >= 1 /\ seps = (n - 1) \div 3 /\ total = n + seps
  BY GroupRoomSizes DEF GroupRoom
<1>. DEFINE left == n - 3 * m
            space == (n + seps) - 4 * m
<1>2. left = n - 3 * m /\ space = (n + seps) - 4 * m
  OBVIOUS
<1>. HIDE DEF left, space
<1>3. Room(seps, m, left, space)
  BY <1>1, <1>2, RoomForGroups
<1>4. (m < seps => ~(left <= 3)) /\ (m = seps => left <= 3)
  BY <1>3, Zenon DEF Room
<1>5. ~GroupState(s, n, total, m).done /\ GroupState(s, n, total, m).left = n - 3 * m
  BY Zenon DEF GroupState
<1>. QED BY <1>2, <1>4, <1>5, Zenon

\* Every turn is a stage further (MoveNext).
LEMMA NextStage ==
    ASSUME NEW s, NEW n, NEW seps, NEW total, GroupRoom(s, n, seps, total), NEW i \in 0 .. seps
    PROVE  MoveNext(GroupStage(s, n, total, seps, i), 3) = GroupStage(s, n, total, seps, i + 1)
<1>1. n \in Nat /\ seps \in Nat /\ total \in Nat
  BY GroupRoomSizes
<1>2. i <= seps /\ i \in Nat
  BY <1>1
<1>. DEFINE G == GroupState(s, n, total, i)
<1>3. GroupStage(s, n, total, seps, i) = G
  BY <1>2, Zenon DEF GroupStage
<1>4. CASE i < seps
  <2>1. i + 1 <= seps /\ i \in 0 .. seps - 1
    BY <1>1, <1>4
  <2>2. GroupStage(s, n, total, seps, i + 1) = GroupState(s, n, total, i + 1)
    BY <2>1, Zenon DEF GroupStage
  <2>3. ~G.done /\ ~(G.left <= 3)
    BY <1>4, GroupLeft
  <2>4. MoveNext(G, 3) = MoveGroup(G, 3)
    BY <2>3, Zenon DEF MoveNext
  <2>5. MoveGroup(G, 3) = GroupState(s, n, total, i + 1)
    <3>1. s \in Seq(Marks) /\ n = Len(s) /\ n >= 1 /\ seps = (n - 1) \div 3 /\ total = n + seps
          /\ total <= BufferSize
      BY DEF GroupRoom
    <3>. QED BY <2>1, <3>1, OneGroupMoved
  <2>. QED BY <1>3, <2>2, <2>4, <2>5, Zenon
<1>5. CASE i = seps
  <2>1. ~(i + 1 <= seps)
    BY <1>1, <1>5
  <2>2. GroupStage(s, n, total, seps, i + 1) = [G EXCEPT !.done = TRUE]
    BY <1>5, <2>1, Zenon DEF GroupStage
  <2>3. G.left <= 3
    BY <1>5, GroupLeft
  <2>4. MoveNext(G, 3) = [G EXCEPT !.done = TRUE]
    BY <2>3, Zenon DEF MoveNext
  <2>. QED BY <1>3, <2>2, <2>4, Zenon
<1>6. i < seps \/ i = seps
  BY <1>1, <1>2
<1>. QED BY <1>4, <1>5, <1>6

\* All the groups are moved, one after another.
LEMMA AllMoved ==
    ASSUME NEW s, NEW n, NEW seps, NEW total, GroupRoom(s, n, seps, total)
    PROVE  MoveRest(GroupState(s, n, total, 0), 3, seps + 1) = GroupStage(s, n, total, seps, seps + 1)
<1>. DEFINE start == GroupState(s, n, total, 0)
            groups == seps + 1
            Goes3(f) == f = [i \in 0 .. groups |-> IF i = 0 THEN start ELSE MoveNext(f[i - 1], 3)]
            f == [i \in 0 .. groups |-> GroupStage(s, n, total, seps, i)]
            after == CHOOSE g : Goes3(g)
<1>1. seps \in Nat /\ groups \in Nat /\ groups \in 0 .. groups /\ 0 <= seps
  BY GroupRoomSizes
<1>2. GroupStage(s, n, total, seps, 0) = start
  BY <1>1, Zenon DEF GroupStage
<1>3. \A i \in 0 .. groups : i # 0 => i - 1 \in 0 .. seps /\ i - 1 \in 0 .. groups /\ (i - 1) + 1 = i
  BY <1>1
<1>4. ASSUME NEW i \in 0 .. groups, i # 0
      PROVE  GroupStage(s, n, total, seps, i) = MoveNext(f[i - 1], 3)
  <2>. DEFINE j == i - 1
  <2>1. j \in 0 .. seps /\ j \in 0 .. groups /\ j + 1 = i
    BY <1>3, <1>4
  <2>. HIDE DEF j
  <2>2. MoveNext(GroupStage(s, n, total, seps, j), 3) = GroupStage(s, n, total, seps, j + 1)
    BY <2>1, NextStage
  <2>3. f[j] = GroupStage(s, n, total, seps, j)
    BY <2>1
  <2>4. GroupStage(s, n, total, seps, i) = MoveNext(f[j], 3)
    <3>. HIDE DEF f
    <3>. QED BY <2>1, <2>2, <2>3
  <2>. QED BY <2>4 DEF j
<1>5. Goes3(f)
  <2>1. \A i \in 0 .. groups : GroupStage(s, n, total, seps, i) = IF i = 0 THEN start
          ELSE MoveNext(f[i - 1], 3)
    <3>. HIDE DEF f, start, groups
    <3>. QED BY <1>2, <1>4, Zenon
  <2>2. [i \in 0 .. groups |-> GroupStage(s, n, total, seps, i)]
           = [i \in 0 .. groups |-> IF i = 0 THEN start ELSE MoveNext(f[i - 1], 3)]
    <3>. HIDE DEF f, start, groups
    <3>. QED BY <2>1, Zenon
  <2>. QED BY <2>2, Zenon
<1>6. Goes3(after)
  <2>. HIDE DEF Goes3
  <2>. QED BY <1>5, Zenon
<1>7. MoveRest(start, 3, groups) = after[groups]
  <2>. HIDE DEF start, groups
  <2>. QED BY Zenon DEF MoveRest
<1>. DEFINE Same == {i \in 0 .. groups : after[i] = f[i]}
<1>. HIDE DEF after
<1>8. 0 \in Same
  <2>1. 0 \in 0 .. groups
    BY <1>1
  <2>2. after[0] = start
    <3>. HIDE DEF start, groups
    <3>. QED BY <1>6, <2>1, Zenon
  <2>3. f[0] = start
    <3>. HIDE DEF start, groups
    <3>. QED BY <1>2, <2>1, Zenon
  <2>. QED BY <2>1, <2>2, <2>3
<1>9. ASSUME NEW k \in 0 .. groups - 1, k \in Same PROVE k + 1 \in Same
  <2>. DEFINE j == k + 1
  <2>1. j \in 0 .. groups /\ j # 0 /\ j - 1 = k /\ k \in 0 .. groups
    BY <1>1
  <2>. HIDE DEF j
  <2>2. after[j] = MoveNext(after[j - 1], 3)
    <3>. HIDE DEF start, groups
    <3>. QED BY <1>6, <2>1, Zenon
  <2>3. f[j] = MoveNext(f[j - 1], 3)
    <3>. HIDE DEF start, groups
    <3>1. f[j] = GroupStage(s, n, total, seps, j)
      BY <2>1, Zenon
    <3>. QED BY <1>4, <2>1, <3>1, Zenon
  <2>4. after[k] = f[k]
    BY <1>9
  <2>. HIDE DEF f
  <2>5. after[j] = f[j]
    BY <2>1, <2>2, <2>3, <2>4
  <2>. QED BY <2>1, <2>5 DEF j
<1>. HIDE DEF Same, f
<1>10. \A k \in 0 .. groups : k \in Same
  <2>. HIDE DEF groups
  <2>. QED BY <1>1, <1>8, <1>9, InductionUpTo
<1>11. after[groups] = f[groups]
  BY <1>1, <1>10 DEF Same
<1>. QED BY <1>1, <1>7, <1>11 DEF f

\* Every fourth character from the end is a separator, the others are digits.
LEMMA FourTimes ==
    ASSUME NEW a \in Nat, NEW c \in 0 .. 2, NEW n, NEW s
    PROVE  GroupedMark(s, n, 4 * a + c) = s[n - (3 * a + c)]
<1>1. (4 * a + c) % 4 = c /\ (4 * a + c) \div 4 = a
  <2>1. c \in 0 .. 3
    OBVIOUS
  <2>. QED BY <2>1, GroupPositions
<1>2. c # 3
  OBVIOUS
<1>. QED BY <1>1, <1>2, Zenon DEF GroupedMark

\* At most three digits are not grouped.
LEMMA FewDigits ==
    ASSUME NEW s \in Seq(Marks), NEW n, n = Len(s), n >= 1, n <= 3
    PROVE  Grouped(s, 3) = s
<1>1. n \in Nat /\ (n - 1) \div 3 = 0
  <2>1. n \in {1, 2, 3}
    OBVIOUS
  <2>. QED BY <2>1
<1>2. GroupsSoFar(Grouped(s, 3), s, n, n, n) /\ Len(Grouped(s, 3)) = n
  BY <1>1, GroupedText
<1>3. GroupEnd(n, n, n) = n
  BY DEF GroupEnd
<1>4. Grouped(s, 3) \in Seq(Marks) /\ \A p \in 1 .. n : Grouped(s, 3)[p] = GroupedMark(s, n, n - p)
  BY <1>2, <1>3, Zenon DEF GroupsSoFar
<1>5. ASSUME NEW p \in 1 .. n PROVE GroupedMark(s, n, n - p) = s[p]
  <2>. DEFINE c == n - p
  <2>1. c \in 0 .. 2 /\ n - (3 * 0 + c) = p /\ 4 * 0 + c = c
    BY <1>1
  <2>. HIDE DEF c
  <2>2. GroupedMark(s, n, 4 * 0 + c) = s[n - (3 * 0 + c)]
    BY <2>1, FourTimes
  <2>3. GroupedMark(s, n, c) = s[p]
    BY <2>1, <2>2
  <2>. QED BY <2>3 DEF c
<1>. QED BY <1>2, <1>4, <1>5, SameMarks

\* The text that was moved is the grouped one.
LEMMA MovedText ==
    ASSUME NEW s, NEW n, NEW seps, NEW total, GroupRoom(s, n, seps, total), NEW text,
           text = GroupState(s, n, total, seps).text
    PROVE  text \in Seq(Marks) /\ Prefix(text, total) = Grouped(s, 3) /\ Len(Grouped(s, 3)) = total
           /\ Grouped(s, 3) \in Seq(Marks)
<1>1. n \in Nat /\ seps \in Nat /\ total \in Nat
  BY GroupRoomSizes
<1>2. s \in Seq(Marks) /\ n = Len(s) /\ n >= 1 /\ seps = (n - 1) \div 3 /\ total = n + seps
      /\ total <= BufferSize
  BY DEF GroupRoom
<1>3. GroupsSoFar(Grouped(s, 3), s, n, total, n) /\ Len(Grouped(s, 3)) = total
      /\ GroupEnd(n, total, n) = total
  BY <1>1, <1>2, GroupedText, GroupBegin
<1>4. Grouped(s, 3) \in Seq(Marks)
      /\ \A p \in 1 .. total : Grouped(s, 3)[p] = GroupedMark(s, n, total - p)
  BY <1>3, Zenon DEF GroupsSoFar
<1>5. text = [p \in 1 .. BufferSize |-> IF p > total - 4 * seps
      /\ p <= total THEN GroupedMark(s, n, total - p)
                                        ELSE Prefix(s, BufferSize)[p]]
  BY Zenon DEF GroupState
<1>. DEFINE left == n - 3 * seps
            space == (n + seps) - 4 * seps
<1>6. left = n - 3 * seps /\ space = (n + seps) - 4 * seps /\ seps \in 0 .. seps
  BY <1>1
<1>7. total - 4 * seps = space
  BY <1>2
<1>. HIDE DEF left, space
<1>8. Room(seps, seps, left, space)
  BY <1>1, <1>2, <1>6, RoomForGroups
<1>9. left \in Nat /\ left <= 3 /\ space = left
  BY <1>8, Zenon DEF Room
<1>10. \A q \in 1 .. n : Prefix(s, BufferSize)[q] = s[q]
  <2>1. \A q \in 1 .. n : q \in 1 .. BufferSize /\ q <= Len(s)
    BY <1>1, <1>2 DEF BufferSize
  <2>. QED BY <2>1 DEF Prefix
<1>11. ASSUME NEW p \in 1 .. total PROVE p \in 1 .. BufferSize /\ text[p] = GroupedMark(s, n, total - p)
  <2>1. p \in 1 .. BufferSize /\ p <= total
    BY <1>1, <1>2 DEF BufferSize
  <2>2. CASE p > total - 4 * seps
    BY <1>5, <2>1, <2>2
  <2>3. CASE ~(p > total - 4 * seps)
    <3>. DEFINE c == left - p
    <3>1. c \in 0 .. 2 /\ total - p = 4 * seps + c /\ n - (3 * seps + c) = p /\ p \in 1 .. n
      BY <1>1, <1>2, <1>6, <1>7, <1>9, <2>3
    <3>. HIDE DEF c
    <3>2. GroupedMark(s, n, 4 * seps + c) = s[n - (3 * seps + c)]
      BY <1>1, <3>1, FourTimes
    <3>3. text[p] = Prefix(s, BufferSize)[p]
      BY <1>5, <2>1, <2>3
    <3>. QED BY <1>10, <2>1, <3>1, <3>2, <3>3
  <2>. QED BY <2>2, <2>3
<1>12. text \in Seq(Marks) /\ Len(text) = BufferSize
  <2>1. ASSUME NEW p \in 1 .. BufferSize PROVE text[p] \in Marks
    <3>1. CASE p > total - 4 * seps /\ p <= total
      <4>1. p \in 1 .. total
        BY <1>1, <3>1
      <4>2. Grouped(s, 3)[p] \in Marks
        BY <1>3, <1>4, <4>1, MarkLength
      <4>. QED BY <1>4, <1>11, <4>1, <4>2
    <3>2. CASE ~(p > total - 4 * seps /\ p <= total)
      <4>1. text[p] = Prefix(s, BufferSize)[p]
        BY <1>5, <3>2
      <4>2. Prefix(s, BufferSize)[p] = IF p <= Len(s) THEN s[p] ELSE Nul
        BY DEF Prefix
      <4>3. Nul \in Marks
        BY MarksInclude DEF Fixed
      <4>4. p <= Len(s) => s[p] \in Marks
        BY <1>2
      <4>. QED BY <4>1, <4>2, <4>3, <4>4
    <3>. QED BY <3>1, <3>2
  <2>2. text = [p \in 1 .. BufferSize |-> text[p]]
    BY <1>5
  <2>3. BufferSize \in Nat
    BY DEF BufferSize
  <2>. QED BY <2>1, <2>2, <2>3
<1>13. total \in 0 .. Len(text)
  <2>. DEFINE l == Len(text)
  <2>1. l = BufferSize /\ total \in Nat /\ total <= BufferSize
    BY <1>1, <1>2, <1>12
  <2>. HIDE DEF l
  <2>2. total \in 0 .. l
    BY <2>1 DEF BufferSize
  <2>. QED BY <2>2 DEF l
<1>14. Prefix(text, total) \in Seq(Marks) /\ Len(Prefix(text, total)) = total
       /\ \A p \in 1 .. total : Prefix(text, total)[p] = text[p]
  BY <1>12, <1>13, PrefixText
<1>15. Prefix(text, total) = Grouped(s, 3)
  BY <1>3, <1>4, <1>11, <1>14, SameMarks
<1>. QED BY <1>3, <1>4, <1>12, <1>15

\* A number whose groups fit and are counted rightly.
Groupable(n) == n \in Nat /\ n >= 1 /\ (n > 3 => n % 3 # 2) /\ n + (n \div 3) <= BufferSize

\* The groups are counted rightly, and the last separator is not one too many
\* (GroupCount).
GroupsCounted(n, seps, total) ==
    /\ seps \in Nat /\ GroupCount(n, 3) = seps + 1
    /\ total \in 1 .. BufferSize /\ total <= BufferSize
    /\ n + (seps + 1) + 1 - 2 = total /\ ~(n - 3 < 0)

\* A separator is counted for every three digits but the last.
LEMMA GroupNumbers ==
    ASSUME NEW n, Groupable(n), n > 3
    PROVE  GroupsCounted(n, (n - 1) \div 3, n + (n - 1) \div 3)
<1>. DEFINE seps == (n - 1) \div 3
            total == n + seps
<1>1. n \in Nat /\ n > 3 /\ n % 3 # 2 /\ n + (n \div 3) <= 66
  BY DEF Groupable, BufferSize
<1>2. seps \in Nat /\ (n \div 3) + (n % 3) = seps + 1 /\ seps <= n \div 3
  <2>1. PICK a \in Nat, c \in 0 .. 2 : /\ n = 3 * a + c /\ n \div 3 = a /\ n % 3 = c
                                       /\ c = 0 /\ n > 0 => a >= 1 /\ (n - 1) \div 3 = a - 1
                                       /\ c # 0 => (n - 1) \div 3 = a
    BY <1>1, Thirds
  <2>2. CASE c = 0
    BY <1>1, <2>1, <2>2
  <2>3. CASE c # 0
    <3>1. c = 1
      BY <1>1, <2>1, <2>3
    <3>. QED BY <2>1, <2>3, <3>1
  <2>. QED BY <2>2, <2>3
<1>3. total = n + seps
  OBVIOUS
<1>. HIDE DEF seps, total
<1>4. GroupsCounted(n, seps, total)
  BY <1>1, <1>2, <1>3 DEF GroupsCounted, GroupCount, BufferSize
<1>. QED BY <1>4 DEF seps, total

\* Groups of three digits, all of them.
LEMMA OneGroup ==
    ASSUME Grouping = << 3 >>
    PROVE  Grouping[1] = 3 /\ Len(Grouping) = 1 /\ Grouping[Len(Grouping)] = 3
OBVIOUS

\* FormatIntegralGrouping leaves the digits in the buffer, grouped.
LEMMA GroupingShown ==
    ASSUME Grouping = << 3 >>, NEW s \in Seq(Marks), NEW n, n = Len(s), Groupable(n), NEW b, b = Whole(s)
    PROVE  /\ Shows(FormatIntegralGrouping(b, n), Grouped(s, 3))
           /\ FormatIntegralGrouping(b, n) \in Buffers
<1>1. n \in Nat /\ n >= 1
  BY DEF Groupable
<1>2. Grouping[1] = 3 /\ Len(Grouping) = 1 /\ Grouping[Len(Grouping)] = 3
  BY OneGroup
<1>3. b.text = s /\ b.size = n
  BY DEF Whole
<1>4. CASE n <= 3
  <2>1. FormatIntegralGrouping(b, n) = b
    BY <1>2, <1>4, Zenon DEF FormatIntegralGrouping
  <2>2. Grouped(s, 3) = s
    BY <1>1, <1>4, FewDigits
  <2>3. Shows(b, s) /\ b \in Buffers
    BY WholeShows
  <2>. QED BY <2>1, <2>2, <2>3
<1>5. CASE n > 3
  <2>. DEFINE seps == (n - 1) \div 3
              total == n + seps
              start(space) == [text |-> Prefix(b.text, BufferSize), left |-> n, space |-> space,
                 done |-> FALSE]
              t == GroupState(s, n, total, seps).text
              rest == b.size - 3 - 0
              room == b.size + GroupCount(b.size, 3) + 1 - 2
              moved == MoveRest(start(room), 3, GroupCount(b.size, 3))
  <2>1. /\ seps \in Nat /\ GroupCount(n, 3) = seps + 1 /\ total \in 1 .. BufferSize
           /\ total <= BufferSize
        /\ n + (seps + 1) + 1 - 2 = total /\ ~(n - 3 < 0)
    <3>1. GroupsCounted(n, seps, total)
      BY <1>5, GroupNumbers, Zenon
    <3>. HIDE DEF seps, total
    <3>. QED BY <3>1, Zenon DEF GroupsCounted
  <2>2. FormatIntegralGrouping(b, n) =
           IF n <= 3 THEN b
           ELSE IF rest < 0 \/ ~(room \in 1 .. BufferSize) THEN Whole(<<Past>>)
           ELSE [text |-> moved.text, size |-> room]
    <3>1. ~(1 = 3)
      OBVIOUS
    <3>. QED BY <1>2, <3>1, Zenon DEF FormatIntegralGrouping
  <2>3. rest = n - 3 /\ ~(rest < 0) /\ ~(n <= 3)
    BY <1>1, <1>3, <1>5
  <2>4. room = total
    BY <1>1, <1>3, <2>1
  <2>5. GroupRoom(s, n, seps, total)
    BY <1>1, <2>1 DEF GroupRoom
  <2>6. start(total) = GroupState(s, n, total, 0)
    <3>1. [p \in 1 .. BufferSize |-> IF p > total - 4 * 0
          /\ p <= total THEN GroupedMark(s, n, total - p)
                                     ELSE Prefix(s, BufferSize)[p]] = Prefix(s, BufferSize)
      <4>1. \A p \in 1 .. BufferSize : ~(p > total - 4 * 0 /\ p <= total)
        BY <1>1, <2>1
      <4>2. Prefix(s, BufferSize) = [p \in 1 .. BufferSize |-> Prefix(s, BufferSize)[p]]
        BY DEF Prefix
      <4>. QED BY <4>1, <4>2, Zenon
    <3>2. n - 3 * 0 = n /\ total - 4 * 0 = total
      BY <1>1, <2>1
    <3>. QED BY <1>3, <3>1, <3>2, Zenon DEF GroupState
  <2>7. moved = GroupStage(s, n, total, seps, seps + 1)
    <3>1. MoveRest(GroupState(s, n, total, 0), 3, seps + 1) = GroupStage(s, n, total, seps, seps + 1)
      <4>. HIDE DEF seps, total
      <4>. QED BY <2>5, AllMoved
    <3>2. GroupCount(b.size, 3) = seps + 1
      BY <1>3, <2>1
    <3>. HIDE DEF seps, total, start, room
    <3>. QED BY <2>4, <2>6, <3>1, <3>2, Zenon
  <2>8. moved.text = t
    <3>1. ~(seps + 1 <= seps)
      BY <2>1
    <3>2. GroupStage(s, n, total, seps, seps + 1) = [GroupState(s, n, total, seps) EXCEPT !.done = TRUE]
      BY <3>1, Zenon DEF GroupStage
    <3>3. [GroupState(s, n, total, seps) EXCEPT !.done = TRUE].text = t
      BY DEF GroupState
    <3>. HIDE DEF moved, t, total, seps
    <3>. QED BY <2>7, <3>2, <3>3, Zenon
  <2>9. t \in Seq(Marks) /\ Prefix(t, total) = Grouped(s, 3) /\ Len(Grouped(s, 3)) = total
        /\ Grouped(s, 3) \in Seq(Marks)
    <3>1. t = GroupState(s, n, total, seps).text
      OBVIOUS
    <3>. HIDE DEF seps, total, t
    <3>. QED BY <2>5, <3>1, MovedText
  <2>10. FormatIntegralGrouping(b, n) = [text |-> t, size |-> total]
    <3>. HIDE DEF rest, room, moved, t, total
    <3>. QED BY <2>1, <2>2, <2>3, <2>4, <2>8, Zenon
  <2>. HIDE DEF t, total
  <2>11. FormatIntegralGrouping(b, n).text = t /\ FormatIntegralGrouping(b, n).size = total
    BY <2>10
  <2>12. FormatIntegralGrouping(b, n) \in Buffers
    BY <2>1, <2>9, <2>10 DEF Buffers
  <2>. QED BY <2>9, <2>11, <2>12 DEF Shows
<1>. QED BY <1>1, <1>4, <1>5

------------------------------------------------------------------------------
(****************************************************************************)
(* What is written for a field, and with which numbers.                     *)
(****************************************************************************)

\* What is written is the text, and the buffer still holds characters.
Meant(written, text) == written.out = text /\ text \in Seq(Marks) /\ written.buffer \in Buffers

\* The numbers of a specification that names no argument for them.
Direct(q, spec) ==
    q.widthArg = 0 /\ q.precisionArg = 0 /\ q.width = spec.width /\ q.precision = spec.precision
       /\ spec.width \in Nat

\* The numbers of such a specification are used as they are (PrecisionOf,
\* WidthOf).
LEMMA DirectNumbers ==
    ASSUME NEW q, NEW spec, Direct(q, spec)
    PROVE  PrecisionOf(q, Nested) = spec.precision /\ WidthOf(q, Nested) = spec.width
BY Zenon DEF Direct, PrecisionOf, WidthOf

\* What the buffer shows is written with its padding.
PaddedFrom(q, spec, a, b, text) ==
    /\ spec.width = 0 => Prefix(b.text, b.size) = Padded(spec, text, a)
    /\ spec.width # 0 => FormatAlignment(q, b, spec.width) = Padded(spec, text, a)
    /\ Padded(spec, text, a) \in Seq(Marks)

\* What a buffer shows is written whole, or with the padding that is meant.
LEMMA ShownPadded ==
    ASSUME NEW q, NEW spec, spec.width \in Nat, NEW a, spec.width # 0 => AlignedAs(q, spec, a),
           NEW b, NEW text, Shows(b, text)
    PROVE  PaddedFrom(q, spec, a, b, text)
<1>. USE DEF PaddedFrom
<1>1. text \in Seq(Marks) /\ Prefix(b.text, b.size) = text
  BY DEF Shows
<1>2. CASE spec.width = 0
  <2>1. Padded(spec, text, a) = text
    BY <1>1, <1>2, NotPadded
  <2>. QED BY <1>1, <1>2, <2>1
<1>3. CASE spec.width # 0
  BY <1>3, AlignedPadded
<1>. QED BY <1>2, <1>3

\* An argument that is formatted into the buffer first.
LEMMA BufferWritten ==
    ASSUME NEW q, NEW spec, Direct(q, spec), NEW arg, arg.type \notin Texts, NEW b, NEW c,
           c = IF q.localize THEN LocalizeArgument(q, b, arg, spec.precision)
                ELSE FormatArgument(q, b, arg, spec.precision),
           ~(spec.width = 0 /\ IsSimpleSubstitution(q, arg.type, spec.precision)),
           NEW a, spec.width # 0 => AlignedAs(q, spec, a), NEW text, Shows(c, text), c \in Buffers
    PROVE  Meant(Format(q, b, arg, Nested), Padded(spec, text, a))
<1>. DEFINE simple == IsSimpleSubstitution(q, arg.type, spec.precision)
            w == spec.width
<1>1. Format(q, b, arg, Nested) =
         CASE w = 0 /\ simple -> WriteSimpleValue(b, arg)
           [] w = 0 /\ ~simple ->
                IF arg.type \in Texts THEN Written(View(arg.text, spec.precision), b)
                ELSE WriteBufferToContainer(c)
           [] OTHER ->
                IF arg.type \in Texts
                THEN Written(AlignText(q, arg.text, w, spec.precision), b)
                ELSE Written(FormatAlignment(q, c, w), c)
  BY DirectNumbers, Zenon DEF Format
<1>2. /\ w = 0 => Prefix(c.text, c.size) = Padded(spec, text, a)
      /\ w # 0 => FormatAlignment(q, c, w) = Padded(spec, text, a)
      /\ Padded(spec, text, a) \in Seq(Marks)
  <2>1. spec.width \in Nat
    BY DEF Direct
  <2>2. PaddedFrom(q, spec, a, c, text)
    BY <2>1, ShownPadded
  <2>. QED BY <2>2, Zenon DEF PaddedFrom
<1>3. ~(w = 0 /\ simple)
  OBVIOUS
<1>. DEFINE f == Format(q, b, arg, Nested)
            t == Padded(spec, text, a)
<1>4. CASE w = 0
  <2>1. f = WriteBufferToContainer(c)
    BY <1>1, <1>3, <1>4, Zenon
  <2>2. f.out = t /\ f.buffer = c
    BY <1>2, <1>4, <2>1 DEF WriteBufferToContainer, Written
  <2>. QED BY <1>2, <2>2, Zenon DEF Meant
<1>5. CASE w # 0
  <2>1. f = Written(FormatAlignment(q, c, w), c)
    BY <1>1, <1>5, Zenon
  <2>2. f.out = t /\ f.buffer = c
    BY <1>2, <1>5, <2>1 DEF Written
  <2>. QED BY <1>2, <2>2, Zenon DEF Meant
<1>. QED BY <1>4, <1>5

\* An argument that is written at once.
LEMMA SimplyWritten ==
    ASSUME NEW q, NEW spec, Direct(q, spec), NEW arg, NEW b,
           spec.width = 0 /\ IsSimpleSubstitution(q, arg.type, spec.precision)
    PROVE  Format(q, b, arg, Nested) = WriteSimpleValue(b, arg)
<1>. DEFINE simple == IsSimpleSubstitution(q, arg.type, spec.precision)
            w == spec.width
            c == IF q.localize THEN LocalizeArgument(q, b, arg, spec.precision)
                 ELSE FormatArgument(q, b, arg, spec.precision)
<1>1. Format(q, b, arg, Nested) =
         CASE w = 0 /\ simple -> WriteSimpleValue(b, arg)
           [] w = 0 /\ ~simple ->
                IF arg.type \in Texts THEN Written(View(arg.text, spec.precision), b)
                ELSE WriteBufferToContainer(c)
           [] OTHER ->
                IF arg.type \in Texts
                THEN Written(AlignText(q, arg.text, w, spec.precision), b)
                ELSE Written(FormatAlignment(q, c, w), c)
  BY DirectNumbers, Zenon DEF Format
<1>. HIDE DEF simple, w, c
<1>2. w = 0 /\ simple
  BY DEF simple, w
<1>. QED BY <1>1, <1>2, Zenon

\* A text that is not written at once.
LEMMA TextWritten ==
    ASSUME NEW q, NEW spec, Direct(q, spec), NEW arg, arg.type \in Texts, NEW b,
           ~(spec.width = 0 /\ IsSimpleSubstitution(q, arg.type, spec.precision))
    PROVE  Format(q, b, arg, Nested) =
             IF spec.width = 0 THEN Written(View(arg.text, spec.precision), b)
             ELSE Written(AlignText(q, arg.text, spec.width, spec.precision), b)
<1>. DEFINE simple == IsSimpleSubstitution(q, arg.type, spec.precision)
            w == spec.width
            c == IF q.localize THEN LocalizeArgument(q, b, arg, spec.precision)
                 ELSE FormatArgument(q, b, arg, spec.precision)
<1>1. Format(q, b, arg, Nested) =
         CASE w = 0 /\ simple -> WriteSimpleValue(b, arg)
           [] w = 0 /\ ~simple ->
                IF arg.type \in Texts THEN Written(View(arg.text, spec.precision), b)
                ELSE WriteBufferToContainer(c)
           [] OTHER ->
                IF arg.type \in Texts
                THEN Written(AlignText(q, arg.text, w, spec.precision), b)
                ELSE Written(FormatAlignment(q, c, w), c)
  BY DirectNumbers, Zenon DEF Format
<1>2. ~(w = 0 /\ simple)
  OBVIOUS
<1>. HIDE DEF simple, c
<1>. QED BY <1>1, <1>2, Zenon DEF w

\* A field is padded with the fill and on the side that is given, or by default.
Default(type) == IF type \in Numbers THEN ">" ELSE "<"

\* The alignment of a field is the given one, or that of its type.
LEMMA FieldAligned ==
    ASSUME NEW spec \in ItemSpecs, NEW type, NEW q, q.align = AlignFor(spec, type),
           q.fill = FillFor(spec),
           spec.fill # ":", spec.fill = "" \/ spec.align # ""
    PROVE  AlignedAs(q, spec, AlignOr(spec, Default(type)))
<1>1. /\ spec.fill \in Marks \union {""} /\ spec.align \in {"", "<", ">", "^"} /\ spec.width \in Nat
  BY SpecChars
<1>2. FillFor(spec) = FillOr(spec) /\ FillOr(spec) \in Marks
  <2>1. " " \in Marks
    BY FixedMarks
  <2>. QED BY <1>1, <2>1 DEF FillFor, FillOr
<1>. DEFINE a == AlignOr(spec, Default(type))
<1>3. a \in {"<", ">", "^"} /\ AlignFor(spec, type) = Aligns[a]
  <2>1. CASE spec.align = ""
    <3>1. CASE type \in Numbers
      <4>1. a = ">" /\ AlignFor(spec, type) = "AlignRight"
        BY <2>1, <3>1, Zenon DEF AlignOr, Default, AlignFor
      <4>. QED BY <4>1, AlignWords
    <3>2. CASE type \notin Numbers
      <4>1. a = "<" /\ AlignFor(spec, type) = "AlignLeft"
        BY <2>1, <3>2, Zenon DEF AlignOr, Default, AlignFor
      <4>. QED BY <4>1, AlignWords
    <3>. QED BY <3>1, <3>2
  <2>2. CASE spec.align # ""
    <3>1. a = spec.align /\ AlignFor(spec, type) = Aligns[spec.align]
      BY <2>2, Zenon DEF AlignOr, AlignFor
    <3>. QED BY <1>1, <2>2, <3>1
  <2>. QED BY <2>1, <2>2
<1>. HIDE DEF a
<1>. QED BY <1>1, <1>2, <1>3, Zenon DEF AlignedAs, a

\* The specification a field of the type is formatted with.
FieldSpec(q, n, spec, type) == q = AfterType(n, spec, type)

\* The members of such a specification.
LEMMA FieldSpecParts ==
    ASSUME NEW q, NEW n, NEW spec, NEW type, FieldSpec(q, n, spec, type)
    PROVE  /\ q.widthArg = 0 /\ q.precisionArg = 0 /\ q.width = spec.width
              /\ q.precision = spec.precision
           /\ q.align = AlignFor(spec, type) /\ q.fill = FillFor(spec) /\ q.sign = SignFor(spec)
              /\ q.alt = spec.alt
           /\ q.pre = PrefixFor(spec, type) /\ q.localize = spec.localize /\ q.type = TypeFor(spec)
<1>. DEFINE a == AlignFor(spec, type)
            c == FillFor(spec)
            s == SignFor(spec)
            t == PrefixFor(spec, type)
            k == TypeFor(spec)
<1>1. q = SpecOf(n, spec.width, spec.precision, a, c, s, spec.alt, t, spec.localize, k)
  BY Zenon DEF FieldSpec, AfterType
<1>. HIDE DEF a, c, s, t, k
<1>2. /\ q.widthArg = 0 /\ q.precisionArg = 0 /\ q.width = spec.width /\ q.precision = spec.precision
      /\ q.align = a /\ q.fill = c /\ q.sign = s /\ q.alt = spec.alt /\ q.pre = t
         /\ q.localize = spec.localize /\ q.type = k
  BY <1>1 DEF SpecOf
<1>. QED BY <1>2 DEF a, c, s, t, k

\* A specification that asks for nothing special of a number.
Bare(spec) == spec.type = "" /\ ~spec.alt /\ spec.sign = "" /\ ~spec.localize /\ spec.width = 0

\* An integer that nothing is asked of is its digits.
LEMMA BareInt ==
    ASSUME NEW spec, Bare(spec), NEW n \in Int
    PROVE  IntMeaning(spec, n) = ToChars(n, 10) /\ ToChars(n, 10) \in Seq(Marks)
<1>. DEFINE d == IntDigits(spec, n)
<1>1. d \in Seq(Marks) /\ IntShown(spec, n) = d
  <2>1. spec.type # "X"
    BY DEF Bare
  <2>. QED BY <2>1, DigitMarks DEF IntShown
<1>2. ToChars(n, 10) = (IF n < 0 THEN <<"-">> ELSE <<>>) \o d
  <2>1. BaseOf(spec.type) = 10
    BY DEF Bare, BaseOf
  <2>2. ToChars(n, BaseOf(spec.type)) = (IF n < 0 THEN <<"-">> ELSE <<>>) \o d
    BY DigitMarks
  <2>. QED BY <2>1, <2>2
<1>3. IntBody(spec, n) = d /\ spec.width \in Nat /\ NoZeros(spec) /\ spec.width = 0
  <2>1. ~spec.localize /\ spec.width = 0
    BY DEF Bare
  <2>2. IntBody(spec, n) = d
    BY <1>1, <2>1, Zenon DEF IntBody
  <2>3. NoZeros(spec)
    BY <2>1, Zenon DEF NoZeros
  <2>4. spec.width \in Nat
    BY <2>1
  <2>. QED BY <2>1, <2>2, <2>3, <2>4, Zenon
<1>4. /\ IntMeaning(spec, n) = Padded(spec, IntHead(spec, n) \o IntBody(spec, n), AlignOr(spec, ">"))
      /\ IntHead(spec, n) \o IntBody(spec, n) \in Seq(Marks)
  BY <1>1, <1>3, IntMeant
<1>5. IntHead(spec, n) = IF n < 0 THEN <<"-">> ELSE <<>>
  <2>1. IntPrefix(spec, n) = <<>>
    BY Zenon DEF Bare, IntPrefix
  <2>2. SignText(spec, n < 0) = IF n < 0 THEN <<"-">> ELSE <<>>
    BY DEF Bare, SignText
  <2>3. SignText(spec, n < 0) \in Seq(Marks)
    BY SignMarks
  <2>4. SignText(spec, n < 0) \o <<>> = SignText(spec, n < 0)
    BY <2>3, MarkAssoc
  <2>. QED BY <2>1, <2>2, <2>4 DEF IntHead
<1>6. IntMeaning(spec, n) = IntHead(spec, n) \o IntBody(spec, n)
  BY <1>3, <1>4, NotPadded
<1>. HIDE DEF d
<1>. QED BY <1>2, <1>3, <1>4, <1>5, <1>6

\* What is written at once is what is meant, and the size of the buffer stays.
SimplyMeant(b, arg, text) ==
    /\ Meant(WriteSimpleValue(b, arg), text) /\ WriteSimpleValue(b, arg).buffer.size = b.size

\* What to_chars left in the buffer is written.
LEMMA SimpleDigits ==
    ASSUME NEW b \in Buffers, NEW text \in Seq(Marks), NEW w,
           w = Written(text, [b EXCEPT !.text = text])
    PROVE  Meant(w, text) /\ w.buffer.size = b.size
BY DEF Meant, Written, Buffers

\* A text that is written without the buffer.
LEMMA SimpleOut ==
    ASSUME NEW b \in Buffers, NEW text \in Seq(Marks), NEW w, w = Written(text, b)
    PROVE  Meant(w, text) /\ w.buffer.size = b.size
BY DEF Meant, Written, Buffers

\* An integer without a specification (WriteSimpleInt and the other integers).
LEMMA SimpleInt ==
    ASSUME NEW b \in Buffers, NEW arg, arg.type = "int", arg.n \in Int
    PROVE  SimplyMeant(b, arg, ToChars(arg.n, 10))
<1>. DEFINE t == ToChars(arg.n, 10)
            w == WriteSimpleValue(b, arg)
<1>1. arg.type \notin Texts
  BY DEF Texts
<1>2. w = Written(t, [b EXCEPT !.text = t])
  BY <1>1, Zenon DEF WriteSimpleValue
<1>3. t \in Seq(Marks)
  <2>1. Bare(NoItemSpec)
    BY DEF Bare, NoItemSpec
  <2>. QED BY <2>1, BareInt
<1>. HIDE DEF t, w
<1>4. Meant(w, t) /\ w.buffer.size = b.size
  BY <1>2, <1>3, SimpleDigits
<1>. QED BY <1>4, Zenon DEF SimplyMeant, t, w

\* The text of an integer in the buffer, grouped where the locale is asked for.
IntGroups(spec, n) ==
    spec.localize => n >= 0 /\ spec.sign = "" /\ ~spec.alt /\ Groupable(Len(IntShown(spec, n)))

\* The integer in the buffer, after the grouping.
IntFormatted(q, n) ==
    IF q.localize THEN FormatIntegralGrouping(FormatIntegerType(q, n), FormatIntegerType(q, n).size)
         ELSE FormatIntegerType(q, n)

\* A number that is not negative.
LEMMA NotNegative ==
    ASSUME NEW n \in Int, n >= 0 PROVE ~(n < 0)
OBVIOUS

\* The buffer holds the integer that is meant, grouped where it is asked for.
LEMMA IntInBuffer ==
    ASSUME Grouping = << 3 >>, NEW spec, NEW n, IntOk(spec, n), IntGroups(spec, n), NEW q, NEW type,
           IntSpec(q, spec, type),
           q.localize = spec.localize, NEW c, c = IntFormatted(q, n)
    PROVE  Shows(c, IntHead(spec, n) \o IntBody(spec, n)) /\ c \in Buffers
<1>. DEFINE h == IntHead(spec, n)
            s == IntShown(spec, n)
<1>1. FormatIntegerType(q, n) = Whole(h \o s) /\ h \o s \in Seq(Marks)
  BY IntWritten
<1>2. s \in Seq(Marks) /\ n \in Int
  <2>1. n \in Int
    BY DEF IntOk
  <2>. QED BY <2>1, DigitMarks
<1>3. CASE ~spec.localize
  <2>1. c = Whole(h \o s) /\ IntBody(spec, n) = s
    BY <1>1, <1>3 DEF IntBody, IntFormatted
  <2>. HIDE DEF h, s
  <2>2. Shows(c, h \o s) /\ c \in Buffers
    BY <1>1, <2>1, WholeShows
  <2>. QED BY <2>1, <2>2 DEF h, s
<1>4. CASE spec.localize
  <2>1. n >= 0 /\ ~(n < 0) /\ spec.sign = "" /\ ~spec.alt /\ Groupable(Len(s))
    <3>1. n >= 0 /\ spec.sign = "" /\ ~spec.alt /\ Groupable(Len(s))
      BY <1>4, Zenon DEF IntGroups
    <3>2. ~(n < 0)
      BY <1>2, <3>1, NotNegative
    <3>. QED BY <3>1, <3>2, Zenon
  <2>2. h = <<>>
    <3>1. IntPrefix(spec, n) = <<>>
      BY <2>1, Zenon DEF IntPrefix
    <3>2. SignText(spec, n < 0) = <<>>
      BY <2>1 DEF SignText
    <3>. QED BY <3>1, <3>2 DEF IntHead
  <2>3. IntBody(spec, n) = Grouped(s, 3)
    <3>1. Grouping[1] = 3
      BY OneGroup
    <3>. QED BY <1>4, <3>1, Zenon DEF IntBody
  <2>4. h \o s = s
    BY <1>2, <2>2, MarkAssoc
  <2>. DEFINE b == Whole(s)
              m == Len(s)
  <2>5. FormatIntegerType(q, n) = b /\ b.size = m
    BY <1>1, <2>4 DEF Whole
  <2>6. c = FormatIntegralGrouping(b, m)
    BY <1>4, <2>5 DEF IntFormatted
  <2>7. Shows(FormatIntegralGrouping(b, m), Grouped(s, 3)) /\ FormatIntegralGrouping(b, m) \in Buffers
    <3>1. Groupable(m) /\ m = Len(s) /\ b = Whole(s)
      BY <2>1
    <3>. HIDE DEF s, m, b
    <3>. QED BY <1>2, <3>1, GroupingShown
  <2>8. Grouped(s, 3) \in Seq(Marks)
    BY <2>7 DEF Shows
  <2>9. h \o IntBody(spec, n) = Grouped(s, 3)
    <3>. HIDE DEF h, s
    <3>. QED BY <2>2, <2>3, <2>8, MarkAssoc
  <2>. HIDE DEF h, s, b, m
  <2>. QED BY <2>6, <2>7, <2>9 DEF h
<1>. QED BY <1>3, <1>4

\* An integer that is formatted into the buffer is written as it is meant.
LEMMA IntFieldWritten ==
    ASSUME Grouping = << 3 >>, NEW spec, NEW n, IntOk(spec, n), IntGroups(spec, n), NoZeros(spec),
           NEW q, NEW k, NEW type, type \in {"int", "bool", "char"}, FieldSpec(q, k, spec, type),
           spec.width # 0 => AlignedAs(q, spec, AlignOr(spec, ">")), NEW b, NEW arg, arg.type = type,
           ~(spec.width = 0 /\ IsSimpleSubstitution(q, arg.type, spec.precision)),
           (IF q.localize THEN LocalizeArgument(q, b, arg, spec.precision)
                ELSE FormatArgument(q, b, arg, spec.precision))
               = IntFormatted(q, n)
    PROVE  Meant(Format(q, b, arg, Nested), IntMeaning(spec, n))
<1>1. /\ q.widthArg = 0 /\ q.precisionArg = 0 /\ q.width = spec.width /\ q.precision = spec.precision
      /\ q.sign = SignFor(spec) /\ q.pre = PrefixFor(spec, type) /\ q.localize = spec.localize
         /\ q.type = TypeFor(spec)
  BY FieldSpecParts
<1>2. spec \in ItemSpecs /\ n \in Int
  BY DEF IntOk
<1>3. spec.width \in Nat
  BY <1>2, SpecChars
<1>4. IntSpec(q, spec, type) /\ Direct(q, spec)
  BY <1>1, <1>3, Zenon DEF IntSpec, Direct
<1>. DEFINE c == IntFormatted(q, n)
            text == IntHead(spec, n) \o IntBody(spec, n)
            a == AlignOr(spec, ">")
<1>5. Shows(c, text) /\ c \in Buffers
  BY <1>1, <1>4, IntInBuffer
<1>6. IntMeaning(spec, n) = Padded(spec, text, a)
  <2>1. IntBody(spec, n) \in Seq(Marks)
    <3>1. IntShown(spec, n) \in Seq(Marks)
      BY <1>2, DigitMarks
    <3>2. CASE ~spec.localize
      BY <3>1, <3>2 DEF IntBody
    <3>3. CASE spec.localize
      <4>1. Groupable(Len(IntShown(spec, n))) /\ Grouping[1] = 3
        BY <3>3, OneGroup DEF IntGroups
      <4>2. Shows(FormatIntegralGrouping(Whole(IntShown(spec, n)), Len(IntShown(spec, n))),
            Grouped(IntShown(spec, n), 3))
        BY <3>1, <4>1, GroupingShown
      <4>. QED BY <3>3, <4>1, <4>2 DEF IntBody, Shows
    <3>. QED BY <3>2, <3>3
  <2>. QED BY <1>2, <1>3, <2>1, IntMeant
<1>7. arg.type \notin Texts
  BY DEF Texts
<1>8. /\ c = IF q.localize THEN LocalizeArgument(q, b, arg, spec.precision)
           ELSE FormatArgument(q, b, arg, spec.precision)
      /\ spec.width # 0 => AlignedAs(q, spec, a)
  OBVIOUS
<1>. HIDE DEF c, text, a
<1>9. Meant(Format(q, b, arg, Nested), Padded(spec, text, a))
  BY <1>4, <1>5, <1>7, <1>8, BufferWritten
<1>. QED BY <1>6, <1>9

------------------------------------------------------------------------------
(****************************************************************************)
(* Integers, bools, characters and pointers.                                *)
(****************************************************************************)

\* The arguments that are written as integers, and their values.
IsInteger(spec, arg) ==
    arg.type = "int" \/ (arg.type \in {"bool", "char"} /\ spec.type \in IntegerTypes)

ValueOf(arg) ==
    CASE arg.type = "int" -> arg.n
      [] arg.type = "char" -> arg.code
      [] arg.type = "bool" -> IF arg.b THEN 1 ELSE 0
      [] arg.type = "float" -> IF arg.neg THEN -1 ELSE 1
      [] OTHER -> 0

DigitsIn(spec, v) == Len(ToChars(v, BaseOf(spec.type)))

Signed(spec, v) == IF v < 0 \/ spec.sign \in {"+", " "} THEN 1 ELSE 0

\* What FieldDiverges leaves out of the integers.
LEMMA IntegerPlain ==
    ASSUME NEW spec, NEW arg, ~FieldDiverges(spec, arg), IsInteger(spec, arg), NEW v, v = ValueOf(arg)
    PROVE  /\ ~(Signed(spec, v) + (IF spec.alt THEN 2 ELSE 0) + DigitsIn(spec, v) > BufferSize)
           /\ ~(v < 0 /\ spec.sign = "+") /\ ~(v < 0 /\ spec.alt /\ spec.type \in DOMAIN PreAltForm)
           /\ ~(v = 0 /\ spec.alt /\ spec.type = "o")
           /\ ~(arg.type = "int" /\ spec.type = "c") /\ ~(arg.type = "bool" /\ spec.localize)
           /\ ~(arg.type # "int" /\ spec.align = "" /\ spec.width # 0)
BY Zenon DEF FieldDiverges, IsInteger, ValueOf, DigitsIn, Signed

\* What FieldDiverges leaves out of the integers that are grouped.
LEMMA IntegerGrouped ==
    ASSUME NEW spec, NEW arg, ~FieldDiverges(spec, arg), arg.type = "int", spec.localize, NEW v,
           v = ValueOf(arg)
    PROVE  /\ ~(DigitsIn(spec, v) > 3 /\ DigitsIn(spec, v) % 3 = 2) /\ ~(v < 0) /\ spec.sign = ""
              /\ ~spec.alt
           /\ ~(DigitsIn(spec, v) + (DigitsIn(spec, v) \div 3) > BufferSize)
BY Zenon DEF FieldDiverges, ValueOf, DigitsIn

\* What it leaves out of every field.
LEMMA FieldPlain ==
    ASSUME NEW spec, NEW arg, ~FieldDiverges(spec, arg)
    PROVE  /\ ~(spec.align # "" /\ spec.fill = "") /\ ~(spec.fill = ":" /\ spec.width # 0)
           /\ ~(spec.zero /\ spec.align = "" /\ spec.width # 0)
           /\ ~(arg.type = "pointer" /\ spec.align = "" /\ spec.width # 0)
           /\ ~(arg.type \in Texts /\ spec.precision # 0
                /\ IF spec.width = 0 THEN spec.precision > Len(arg.text)
                     ELSE spec.precision < Len(arg.text))
           /\ ~(arg.type = "float" /\ spec.alt)
           /\ ~(ValueOf(arg) < 0 /\ spec.sign = "+")
           /\ ~(arg.type = "bool" /\ spec.localize /\ spec.width # 0)
BY Zenon DEF FieldDiverges, ValueOf

\* What it leaves out of the floats.
LEMMA FloatPlain ==
    ASSUME NEW spec, NEW arg, ~FieldDiverges(spec, arg), arg.type = "float",
           NEW w, w = WholeDigits(FloatShape(spec, arg)), NEW r, r = Fraction(FloatShape(spec, arg)),
           NEW s, s = Signed(spec, ValueOf(arg))
    PROVE  /\ ~spec.alt /\ ~(ValueOf(arg) < 0 /\ spec.sign = "+")
           /\ spec.type = "" /\ spec.precision = 0 /\ (spec.width # 0 \/ spec.sign # "" \/ spec.localize)
              => ~(arg.whole > 6)
           /\ ~(s + Len(w) + Len(r) > BufferSize)
           /\ spec.localize => ~(s + Len(w) + (IF "." \in Range(r) THEN 0 ELSE Len(r)) > 3)
BY Zenon DEF FieldDiverges, ValueOf, Signed

\* The integers of the arguments.
LEMMA IntegerValue ==
    ASSUME NEW spec, NEW arg \in Arguments, IsInteger(spec, arg)
    PROVE  /\ ValueOf(arg) \in Int
           /\ arg.type = "int" => arg.n \in Int /\ ValueOf(arg) = arg.n
           /\ arg.type = "char" => arg.code \in Nat /\ ValueOf(arg) = arg.code
           /\ arg.type = "bool" => arg.b \in BOOLEAN /\ ValueOf(arg) = IF arg.b THEN 1 ELSE 0
<1>1. CASE arg.type = "int"
  <2>1. arg.n \in Int
    BY <1>1 DEF Arguments, Texts
  <2>2. ValueOf(arg) = arg.n
    BY <1>1 DEF ValueOf
  <2>. QED BY <1>1, <2>1, <2>2
<1>2. CASE arg.type = "char"
  <2>1. arg.code \in Nat
    BY <1>2 DEF Arguments, Texts
  <2>2. ValueOf(arg) = arg.code
    BY <1>2 DEF ValueOf
  <2>. QED BY <1>2, <2>1, <2>2
<1>3. CASE arg.type = "bool"
  <2>1. arg.b \in BOOLEAN
    BY <1>3 DEF Arguments, Texts
  <2>2. ValueOf(arg) = IF arg.b THEN 1 ELSE 0
    BY <1>3 DEF ValueOf
  <2>. QED BY <1>3, <2>1, <2>2
<1>. QED BY <1>1, <1>2, <1>3 DEF IsInteger

\* Sign, prefix and digits fit the buffer.
LEMMA NumberSize ==
    ASSUME NEW d, NEW s, NEW a, d \in Nat, s \in {0, 1}, a \in {0, 2}, ~(s + a + d > BufferSize)
    PROVE  s + a + d <= BufferSize
BY DEF BufferSize

\* An integer has digits, as many in capital letters.
LEMMA DigitCount ==
    ASSUME NEW spec, NEW v, v \in Int
    PROVE  /\ DigitsIn(spec, v) \in Nat
           /\ ~(v < 0) => Len(IntShown(spec, v)) = DigitsIn(spec, v) /\ DigitsIn(spec, v) >= 1
<1>1. /\ IntDigits(spec, v) \in Seq(Marks) /\ IntShown(spec, v) \in Seq(Marks)
      /\ Len(IntShown(spec, v)) = Len(IntDigits(spec, v))
      /\ ToChars(v, BaseOf(spec.type)) = (IF v < 0 THEN <<"-">> ELSE <<>>) \o IntDigits(spec, v)
  BY DigitMarks
<1>2. CASE v < 0
  <2>1. BaseOf(spec.type) \in Bases
    BY BaseInside
  <2>2. -v \in Nat /\ -v > 0 /\ -(-v) = v
    BY <1>2
  <2>3. ToChars(v, BaseOf(spec.type)) \in Seq(Marks)
    <3>1. <<"-">> \in Seq(Marks)
      BY FixedMarks, OneLong
    <3>. QED BY <1>1, <1>2, <3>1
  <2>. QED BY <1>2, <2>3 DEF DigitsIn
<1>3. CASE ~(v < 0)
  <2>1. v \in Nat /\ BaseOf(spec.type) \in Bases
    BY <1>3, BaseInside
  <2>2. ToChars(v, BaseOf(spec.type)) = DigitsOf(v, BaseOf(spec.type))
    BY <2>1, NaturalText
  <2>3. ToChars(v, BaseOf(spec.type)) # <<>>
    BY <2>1, <2>2, DigitsInside
  <2>4. ToChars(v, BaseOf(spec.type)) = IntDigits(spec, v)
    BY <1>1, <1>3, MarkAssoc
  <2>5. DigitsIn(spec, v) = Len(IntDigits(spec, v))
    BY <2>4 DEF DigitsIn
  <2>. DEFINE d == IntDigits(spec, v)
  <2>6. d \in Seq(Marks) /\ d # <<>>
    BY <1>1, <2>3, <2>4
  <2>. HIDE DEF d
  <2>7. Len(d) \in Nat /\ Len(d) >= 1
    BY <2>6
  <2>. QED BY <1>1, <1>3, <2>5, <2>7 DEF d
<1>. QED BY <1>2, <1>3

\* A promised field has an integer that is written as it is meant.
LEMMA IntAllowed ==
    ASSUME NEW spec \in ItemSpecs, NEW arg \in Arguments, ValidSpec(spec, arg.type),
           ~FieldDiverges(spec, arg),
           IsInteger(spec, arg), NEW v, v = ValueOf(arg)
    PROVE  IntOk(spec, v) /\ NoZeros(spec)
<1>1. v \in Int
  BY IntegerValue
<1>2. /\ ~(Signed(spec, v) + (IF spec.alt THEN 2 ELSE 0) + DigitsIn(spec, v) > BufferSize)
      /\ ~(v < 0 /\ spec.sign = "+") /\ ~(v < 0 /\ spec.alt /\ spec.type \in DOMAIN PreAltForm)
      /\ ~(v = 0 /\ spec.alt /\ spec.type = "o")
      /\ ~(arg.type = "int" /\ spec.type = "c")
  BY IntegerPlain
<1>3. spec.type \in IntegerTypes \union {""}
  <2>1. CASE arg.type = "int"
    <3>1. spec.type \in {""} \union (IntegerTypes \union {"c"})
      <4>1. spec.type \in {""} \union
              CASE arg.type = "int" -> IntegerTypes \union {"c"}
                [] arg.type = "float" -> {"a", "A", "e", "E", "f", "F", "g", "G"}
                [] arg.type = "bool" -> IntegerTypes \union {"s"}
                [] arg.type = "char" -> IntegerTypes \union {"c"}
                [] arg.type \in Texts -> {"s"}
                [] arg.type = "pointer" -> {"p"}
                [] OTHER -> {}
        BY Zenon DEF ValidSpec
      <4>. QED BY <2>1, <4>1 DEF IntegerTypes, Texts
    <3>. QED BY <1>2, <2>1, <3>1
  <2>2. CASE arg.type # "int"
    BY <2>2 DEF IsInteger
  <2>. QED BY <2>1, <2>2
<1>4. Signed(spec, v) + (IF spec.alt THEN 2 ELSE 0) + DigitsIn(spec, v) <= BufferSize
  <2>. DEFINE s == Signed(spec, v)
              a == IF spec.alt THEN 2 ELSE 0
              d == DigitsIn(spec, v)
  <2>1. s \in {0, 1} /\ a \in {0, 2} /\ d \in Nat /\ ~(s + a + d > BufferSize)
    BY <1>1, <1>2, DigitCount DEF Signed
  <2>. HIDE DEF s, a, d
  <2>2. s + a + d <= BufferSize
    BY <2>1, NumberSize
  <2>. QED BY <2>2 DEF s, a, d
<1>5. IntOk(spec, v)
  BY <1>1, <1>2, <1>3, <1>4, Zenon DEF IntOk, Signed, DigitsIn
<1>6. ~(spec.zero /\ spec.align = "" /\ spec.width # 0)
  BY FieldPlain, Zenon
<1>. QED BY <1>5, <1>6 DEF NoZeros

\* Its digits fit the buffer with their separators.
LEMMA FewGroups ==
    ASSUME NEW d \in Nat, d >= 1, ~(d > 3 /\ d % 3 = 2), ~(d + (d \div 3) > BufferSize)
    PROVE  Groupable(d)
BY DEF Groupable, BufferSize

\* A number that is not negative.
LEMMA AtLeastNone ==
    ASSUME NEW v \in Int, ~(v < 0) PROVE v >= 0
OBVIOUS

\* A promised field has an integer that is grouped rightly.
LEMMA IntGroupable ==
    ASSUME NEW spec \in ItemSpecs, NEW arg \in Arguments, ~FieldDiverges(spec, arg), arg.type = "int",
           NEW v, v = ValueOf(arg)
    PROVE  IntGroups(spec, v)
<1>. SUFFICES ASSUME spec.localize PROVE v >= 0 /\ spec.sign = "" /\ ~spec.alt
                     /\ Groupable(Len(IntShown(spec, v)))
  BY Zenon DEF IntGroups
<1>1. v \in Int
  <2>1. IsInteger(spec, arg)
    BY DEF IsInteger
  <2>. QED BY <2>1, IntegerValue
<1>. DEFINE d == DigitsIn(spec, v)
<1>2. /\ ~(d > 3 /\ d % 3 = 2) /\ ~(v < 0) /\ spec.sign = "" /\ ~spec.alt
      /\ ~(d + (d \div 3) > BufferSize)
  BY IntegerGrouped
<1>3. d \in Nat /\ d >= 1 /\ Len(IntShown(spec, v)) = d
  BY <1>1, <1>2, DigitCount
<1>. HIDE DEF d
<1>4. Groupable(d)
  BY <1>2, <1>3, FewGroups
<1>5. v >= 0
  BY <1>1, <1>2, AtLeastNone
<1>. QED BY <1>2, <1>3, <1>4, <1>5

\* A field as the formatter gets it: the specification is valid, and the field does not differ.
FieldGiven(spec, arg, q, k, b) ==
    /\ spec \in ItemSpecs /\ arg \in Arguments /\ ValidSpec(spec, arg.type) /\ ~FieldDiverges(spec, arg)
    /\ FieldSpec(q, k, spec, arg.type) /\ b \in Buffers

\* Such a field is aligned as it is meant.
LEMMA GivenAligned ==
    ASSUME NEW spec, NEW arg, NEW q, NEW k, NEW b, FieldGiven(spec, arg, q, k, b), spec.width # 0
    PROVE  AlignedAs(q, spec, AlignOr(spec, Default(arg.type)))
<1>1. spec \in ItemSpecs /\ ~FieldDiverges(spec, arg) /\ FieldSpec(q, k, spec, arg.type)
  BY Zenon DEF FieldGiven
<1>. DEFINE type == arg.type
<1>2. q.align = AlignFor(spec, type) /\ q.fill = FillFor(spec)
  BY <1>1, FieldSpecParts
<1>3. ~(spec.align # "" /\ spec.fill = "") /\ ~(spec.fill = ":" /\ spec.width # 0)
  BY <1>1, FieldPlain, Zenon
<1>4. spec.fill = "" \/ (spec.align # "" /\ spec.fill \notin {"{", "}"})
  BY ValidParts, Zenon DEF FieldGiven
<1>. HIDE DEF type
<1>5. AlignedAs(q, spec, AlignOr(spec, Default(type)))
  BY <1>1, <1>2, <1>3, <1>4, FieldAligned
<1>. QED BY <1>5 DEF type

\* Its width and precision are written in digits.
LEMMA GivenDirect ==
    ASSUME NEW spec, NEW arg, NEW q, NEW k, NEW b, FieldGiven(spec, arg, q, k, b)
    PROVE  Direct(q, spec) /\ spec.width \in Nat
<1>1. spec \in ItemSpecs /\ FieldSpec(q, k, spec, arg.type)
  BY Zenon DEF FieldGiven
<1>2. q.widthArg = 0 /\ q.precisionArg = 0 /\ q.width = spec.width /\ q.precision = spec.precision
  BY <1>1, FieldSpecParts
<1>3. spec.width \in Nat
  BY <1>1, SpecChars
<1>. QED BY <1>2, <1>3, Zenon DEF Direct

\* A word that is written over the buffer: of a bool, a char or a pointer.
LEMMA WordWritten ==
    ASSUME NEW spec, NEW arg, NEW q, NEW k, NEW b, FieldGiven(spec, arg, q, k, b),
           arg.type \notin Texts,
           NEW text \in Seq(Marks), NEW a, spec.width # 0 => AlignedAs(q, spec, a),
           (IF q.localize THEN LocalizeArgument(q, b, arg, spec.precision)
                ELSE FormatArgument(q, b, arg, spec.precision))
               = [text |-> Over(b.text, text), size |-> Len(text)],
           SimplyMeant(b, arg, text)
    PROVE  Meant(Format(q, b, arg, Nested), Padded(spec, text, a))
<1>1. Direct(q, spec) /\ spec.width \in Nat
  BY GivenDirect
<1>2. b.text \in Seq(Marks)
  BY DEF FieldGiven, Buffers
<1>. DEFINE c == [text |-> Over(b.text, text), size |-> Len(text)]
<1>3. Shows(c, text) /\ c \in Buffers
  BY <1>2, OverShows
<1>4. c = IF q.localize THEN LocalizeArgument(q, b, arg, spec.precision)
        ELSE FormatArgument(q, b, arg, spec.precision)
  OBVIOUS
<1>. HIDE DEF c
<1>5. CASE spec.width = 0 /\ IsSimpleSubstitution(q, arg.type, spec.precision)
  <2>1. Format(q, b, arg, Nested) = WriteSimpleValue(b, arg)
    BY <1>1, <1>5, SimplyWritten
  <2>2. Padded(spec, text, a) = text
    BY <1>5, NotPadded
  <2>. QED BY <2>1, <2>2, Zenon DEF SimplyMeant
<1>6. CASE ~(spec.width = 0 /\ IsSimpleSubstitution(q, arg.type, spec.precision))
  BY <1>1, <1>3, <1>4, <1>6, BufferWritten
<1>. QED BY <1>5, <1>6

\* No sign is stored where none is given.
LEMMA SignGiven ==
    ASSUME NEW spec \in ItemSpecs, SignFor(spec) = "Empty"
    PROVE  spec.sign = ""
<1>1. spec.sign \in {"", "+", "-", " "}
  BY SpecChars
<1>2. Signs["+"] = "Plus" /\ Signs["-"] = "Minus" /\ Signs[" "] = "Space"
  BY DEF Signs
<1>. QED BY <1>1, <1>2 DEF SignFor

\* No presentation is stored where none is given.
LEMMA TypeGiven ==
    ASSUME NEW spec, NEW type, ValidSpec(spec, type), TypeFor(spec) = NoChar
    PROVE  spec.type = ""
<1>1. spec.type \in TypeSpecs \union {""}
  BY ValidType
<1>. QED BY <1>1 DEF TypeFor, NoChar, TypeSpecs

\* An integer (FormatIntegerType, FormatIntegralGrouping).
LEMMA IntField ==
    ASSUME Grouping = << 3 >>, NEW spec, NEW arg, NEW q, NEW k, NEW b, FieldGiven(spec, arg, q, k, b),
           arg.type = "int"
    PROVE  Meant(Format(q, b, arg, Nested), FieldMeaning(spec, arg))
<1>. DEFINE v == ValueOf(arg)
<1>1. /\ spec \in ItemSpecs /\ arg \in Arguments /\ ValidSpec(spec, arg.type)
         /\ ~FieldDiverges(spec, arg)
      /\ FieldSpec(q, k, spec, arg.type) /\ b \in Buffers
  BY Zenon DEF FieldGiven
<1>2. IsInteger(spec, arg) /\ arg.type \notin Texts /\ arg.type \in Numbers
  BY DEF IsInteger, Texts, Numbers
<1>3. v \in Int /\ v = arg.n
  BY <1>1, <1>2, IntegerValue
<1>4. IntOk(spec, v) /\ NoZeros(spec)
  BY <1>1, <1>2, IntAllowed
<1>5. IntGroups(spec, v)
  BY <1>1, IntGroupable
<1>6. FieldMeaning(spec, arg) = IntMeaning(spec, v)
  BY <1>2, <1>3, Zenon DEF FieldMeaning
<1>7. Direct(q, spec) /\ spec.width \in Nat
  BY GivenDirect
<1>8. /\ q.sign = SignFor(spec) /\ q.alt = spec.alt /\ q.localize = spec.localize
         /\ q.type = TypeFor(spec)
  BY <1>1, FieldSpecParts
<1>. HIDE DEF v
<1>9. CASE spec.width = 0 /\ IsSimpleSubstitution(q, arg.type, spec.precision)
  <2>1. Format(q, b, arg, Nested) = WriteSimpleValue(b, arg)
    BY <1>7, <1>9, SimplyWritten
  <2>2. ~q.alt /\ q.type = NoChar /\ q.sign = "Empty" /\ ~q.localize
    BY <1>2, <1>9 DEF IsSimpleSubstitution
  <2>3. Bare(spec)
    BY <1>1, <1>8, <1>9, <2>2, SignGiven, TypeGiven DEF Bare
  <2>4. IntMeaning(spec, v) = ToChars(v, 10)
    BY <1>3, <2>3, BareInt
  <2>5. SimplyMeant(b, arg, ToChars(arg.n, 10))
    BY <1>1, <1>3, SimpleInt
  <2>. QED BY <1>3, <1>6, <2>1, <2>4, <2>5, Zenon DEF SimplyMeant
<1>10. CASE ~(spec.width = 0 /\ IsSimpleSubstitution(q, arg.type, spec.precision))
  <2>1. spec.width # 0 => AlignedAs(q, spec, AlignOr(spec, ">"))
    <3>1. Default(arg.type) = ">"
      BY <1>2 DEF Default
    <3>. QED BY <3>1, GivenAligned
  <2>2. LocalizeArgument(q, b, arg, spec.precision)
          = FormatIntegralGrouping(FormatIntegerType(q, v), FormatIntegerType(q, v).size)
        /\ FormatArgument(q, b, arg, spec.precision) = FormatIntegerType(q, v)
    <3>1. FormatArgument(q, b, arg, spec.precision) = FormatIntegerType(q, v)
      BY <1>3, Zenon DEF FormatArgument
    <3>2. LocalizeArgument(q, b, arg, spec.precision)
             = FormatIntegralGrouping(FormatArgument(q, b, arg, spec.precision),
                FormatArgument(q, b, arg, spec.precision).size)
      BY Zenon DEF LocalizeArgument
    <3>. QED BY <3>1, <3>2, Zenon
  <2>3. (IF q.localize THEN LocalizeArgument(q, b, arg, spec.precision)
          ELSE FormatArgument(q, b, arg, spec.precision))
           = IntFormatted(q, v)
    BY <2>2, Zenon DEF IntFormatted
  <2>4. Meant(Format(q, b, arg, Nested), IntMeaning(spec, v))
    <3>. DEFINE type == arg.type
    <3>1. type = "int" /\ type \in {"int", "bool", "char"} /\ arg.type = type
          /\ FieldSpec(q, k, spec, type)
      BY <1>1
    <3>. HIDE DEF type
    <3>. QED BY <1>4, <1>5, <1>10, <2>1, <2>3, <3>1, IntFieldWritten
  <2>. QED BY <1>6, <2>4
<1>. QED BY <1>9, <1>10

\* The same alignment, wherever one is given.
LEMMA GivenAlignment ==
    ASSUME NEW spec, spec.align # "" PROVE \A a, b : AlignOr(spec, a) = AlignOr(spec, b)
BY DEF AlignOr

\* Letters of bools, characters and pointers are characters.
LEMMA WordMarks ==
    ASSUME NEW arg \in Arguments
    PROVE  /\ arg.type = "bool" => BoolText(arg.b) \in Seq(Marks)
           /\ arg.type = "char" => <<arg.char>> \in Seq(Marks) /\ arg.char \in Marks
           /\ arg.type = "pointer" => PointerText(arg.n) \in Seq(Marks)
           /\ arg.type \in Texts => arg.text \in Seq(Marks)
<1>0. STRING \subseteq Marks /\ Fixed \subseteq Marks
  BY MarksInclude
<1>1. CASE arg.type = "bool"
  <2>1. \A c \in {"t", "r", "u", "e", "f", "a", "l", "s"} : c \in Marks
    BY <1>0 DEF Fixed
  <2>2. <<"t", "r", "u", "e">> \in Seq(Marks) /\ <<"f", "a", "l", "s", "e">> \in Seq(Marks)
    BY <2>1
  <2>. QED BY <1>1, <2>2 DEF BoolText, Texts
<1>2. CASE arg.type = "char"
  <2>1. arg.char \in Char
    BY <1>2 DEF Arguments, Texts
  <2>2. arg.char \in Marks
    BY <1>0, <2>1 DEF Char
  <2>. QED BY <1>2, <2>2, OneLong DEF Texts
<1>3. CASE arg.type = "pointer"
  <2>1. arg.n \in Nat
    BY <1>3 DEF Arguments, Texts
  <2>2. ToChars(arg.n, 16) \in Seq(Marks)
    BY <2>1, NumberMarks DEF Bases, MarkTexts
  <2>3. <<"0", "x">> \in Seq(Marks)
    BY FixedMarks, PairMarks
  <2>4. <<"0", "x">> \o ToChars(arg.n, 16) \in Seq(Marks)
    BY <2>2, <2>3, Joined
  <2>. QED BY <1>3, <2>4 DEF PointerText, Texts
<1>4. CASE arg.type \in Texts
  <2>1. arg.text \in Seq(Char)
    <3>1. arg.type # "int" /\ arg.type # "pointer" /\ arg.type # "float" /\ arg.type # "bool"
          /\ arg.type # "char"
          /\ arg.type # "time" /\ arg.type # "custom"
      BY <1>4 DEF Texts
    <3>. QED BY <3>1 DEF Arguments
  <2>2. Char \subseteq Marks
    BY <1>0 DEF Char
  <2>3. arg.text \in Seq(Marks)
    BY <2>1, <2>2, Bigger
  <2>4. arg.type # "bool" /\ arg.type # "char" /\ arg.type # "pointer"
    BY <1>4 DEF Texts
  <2>. QED BY <2>3, <2>4
<1>. QED BY <1>1, <1>2, <1>3, <1>4

\* What the simple writers write.
LEMMA SimpleWord ==
    ASSUME NEW b \in Buffers, NEW arg \in Arguments
    PROVE  /\ arg.type = "bool" => SimplyMeant(b, arg, BoolText(arg.b))
           /\ arg.type = "char" => SimplyMeant(b, arg, <<arg.char>>)
           /\ arg.type = "pointer" => SimplyMeant(b, arg, PointerText(arg.n))
           /\ arg.type \in Texts => SimplyMeant(b, arg, arg.text)
<1>. DEFINE w == WriteSimpleValue(b, arg)
<1>1. ASSUME arg.type = "bool" PROVE SimplyMeant(b, arg, BoolText(arg.b))
  <2>. DEFINE t == BoolText(arg.b)
  <2>1. arg.type \notin Texts
    BY <1>1 DEF Texts
  <2>2. w = Written(t, b) /\ t \in Seq(Marks)
    BY <1>1, <2>1, WordMarks, Zenon DEF WriteSimpleValue
  <2>. HIDE DEF w, t
  <2>3. Meant(w, t) /\ w.buffer.size = b.size
    BY <2>2, SimpleOut
  <2>. QED BY <2>3, Zenon DEF SimplyMeant, w, t
<1>2. ASSUME arg.type = "char" PROVE SimplyMeant(b, arg, <<arg.char>>)
  <2>. DEFINE t == <<arg.char>>
  <2>1. arg.type \notin Texts
    BY <1>2 DEF Texts
  <2>2. w = Written(t, b) /\ t \in Seq(Marks)
    BY <1>2, <2>1, WordMarks, Zenon DEF WriteSimpleValue
  <2>. HIDE DEF w, t
  <2>3. Meant(w, t) /\ w.buffer.size = b.size
    BY <2>2, SimpleOut
  <2>. QED BY <2>3, Zenon DEF SimplyMeant, w, t
<1>3. ASSUME arg.type = "pointer" PROVE SimplyMeant(b, arg, PointerText(arg.n))
  <2>. DEFINE t == PointerText(arg.n)
  <2>1. arg.type \notin Texts
    BY <1>3 DEF Texts
  <2>2. w = Written(t, [b EXCEPT !.text = t]) /\ t \in Seq(Marks)
    BY <1>3, <2>1, WordMarks, Zenon DEF WriteSimpleValue
  <2>. HIDE DEF w, t
  <2>3. Meant(w, t) /\ w.buffer.size = b.size
    BY <2>2, SimpleDigits
  <2>. QED BY <2>3, Zenon DEF SimplyMeant, w, t
<1>4. ASSUME arg.type \in Texts PROVE SimplyMeant(b, arg, arg.text)
  <2>. DEFINE t == arg.text
  <2>1. /\ arg.type # "int" /\ arg.type # "float" /\ arg.type # "pointer" /\ arg.type # "bool"
           /\ arg.type # "char"
    BY <1>4 DEF Texts
  <2>2. w = Written(t, b) /\ t \in Seq(Marks)
    BY <1>4, <2>1, WordMarks, Zenon DEF WriteSimpleValue
  <2>. HIDE DEF w, t
  <2>3. Meant(w, t) /\ w.buffer.size = b.size
    BY <2>2, SimpleOut
  <2>. QED BY <2>3, Zenon DEF SimplyMeant, w, t
<1>. QED BY <1>1, <1>2, <1>3, <1>4

\* A pointer (FormatPointerType).
LEMMA PointerField ==
    ASSUME NEW spec, NEW arg, NEW q, NEW k, NEW b, FieldGiven(spec, arg, q, k, b), arg.type = "pointer"
    PROVE  Meant(Format(q, b, arg, Nested), FieldMeaning(spec, arg))
<1>. DEFINE t == PointerText(arg.n)
            a == AlignOr(spec, ">")
<1>1. /\ arg \in Arguments /\ ValidSpec(spec, arg.type) /\ ~FieldDiverges(spec, arg)
      /\ FieldSpec(q, k, spec, arg.type) /\ b \in Buffers
  BY Zenon DEF FieldGiven
<1>2. arg.type \notin Texts /\ arg.type \notin Numbers
  BY DEF Texts, Numbers
<1>3. t \in Seq(Marks) /\ SimplyMeant(b, arg, t)
  BY <1>1, WordMarks, SimpleWord
<1>4. FieldMeaning(spec, arg) = Padded(spec, t, a)
  BY <1>2, Zenon DEF FieldMeaning
<1>5. spec.width # 0 => AlignedAs(q, spec, a)
  <2>. SUFFICES ASSUME spec.width # 0 PROVE AlignedAs(q, spec, a)
    OBVIOUS
  <2>1. AlignedAs(q, spec, AlignOr(spec, Default(arg.type)))
    BY GivenAligned
  <2>2. spec.align # ""
    BY <1>1, FieldPlain, Zenon
  <2>3. AlignOr(spec, Default(arg.type)) = a
    BY <2>2, GivenAlignment
  <2>. QED BY <2>1, <2>3
<1>6. (IF q.localize THEN LocalizeArgument(q, b, arg, spec.precision)
        ELSE FormatArgument(q, b, arg, spec.precision))
         = [text |-> Over(b.text, t), size |-> Len(t)]
  <2>1. q.localize = spec.localize
    BY <1>1, FieldSpecParts
  <2>2. ~spec.localize
    <3>1. ~spec.localize \/ arg.type \in Numbers \union {"bool", "time"}
      BY <1>1, ValidParts, Zenon
    <3>. QED BY <1>2, <3>1
  <2>3. FormatArgument(q, b, arg, spec.precision) = FormatPointerType(b, arg.n)
    BY <1>2, Zenon DEF FormatArgument
  <2>. QED BY <2>1, <2>2, <2>3, Zenon DEF FormatPointerType
<1>. HIDE DEF t, a
<1>7. Meant(Format(q, b, arg, Nested), Padded(spec, t, a))
  BY <1>2, <1>3, <1>5, <1>6, WordWritten
<1>. QED BY <1>4, <1>7

\* The text of a bool or a character without a presentation, and of a pointer, is not cut.
LEMMA WholeText ==
    ASSUME NEW spec, spec.precision = 0, NEW text
    PROVE  TextMeaning(spec, text) = Padded(spec, text, AlignOr(spec, "<"))
BY DEF TextMeaning

\* A bool or a character that is written as a number.
LEMMA NumberedField ==
    ASSUME Grouping = << 3 >>, NEW spec, NEW arg, NEW q, NEW k, NEW b, FieldGiven(spec, arg, q, k, b),
           arg.type \in {"bool", "char"}, spec.type \in IntegerTypes, NEW v, v = ValueOf(arg),
           FormatArgument(q, b, arg, spec.precision) = FormatIntegerType(q, v)
    PROVE  Meant(Format(q, b, arg, Nested), IntMeaning(spec, v))
<1>1. /\ spec \in ItemSpecs /\ arg \in Arguments /\ ValidSpec(spec, arg.type)
         /\ ~FieldDiverges(spec, arg)
      /\ FieldSpec(q, k, spec, arg.type) /\ b \in Buffers
  BY Zenon DEF FieldGiven
<1>2. IsInteger(spec, arg) /\ arg.type \notin Numbers /\ arg.type # "int"
  BY DEF IsInteger, Numbers
<1>3. IntOk(spec, v) /\ NoZeros(spec)
  BY <1>1, <1>2, IntAllowed
<1>4. ~spec.localize
  <2>1. CASE arg.type = "bool"
    BY <1>1, <1>2, <2>1, IntegerPlain, Zenon
  <2>2. CASE arg.type # "bool"
    <3>1. ~spec.localize \/ arg.type \in Numbers \union {"bool", "time"}
      BY <1>1, ValidParts, Zenon
    <3>. QED BY <1>2, <2>2, <3>1
  <2>. QED BY <2>1, <2>2
<1>5. IntGroups(spec, v)
  BY <1>4, Zenon DEF IntGroups
<1>6. q.localize = spec.localize /\ q.type = TypeFor(spec)
  BY <1>1, FieldSpecParts
<1>7. q.type \notin {NoChar, "s", "c"}
  BY <1>6 DEF TypeFor, IntegerTypes, NoChar
<1>8. ~(spec.width = 0 /\ IsSimpleSubstitution(q, arg.type, spec.precision))
  <2>1. arg.type \notin Texts /\ arg.type # "int" /\ arg.type # "float" /\ arg.type # "pointer"
    BY DEF Texts
  <2>2. CASE arg.type = "bool"
    <3>1. IsSimpleSubstitution(q, arg.type, spec.precision) => q.type \in {NoChar, "s"}
      BY <2>1, <2>2, Zenon DEF IsSimpleSubstitution
    <3>. QED BY <1>7, <3>1
  <2>3. CASE arg.type = "char"
    <3>1. IsSimpleSubstitution(q, arg.type, spec.precision) => q.type \in {NoChar, "c"}
      BY <2>1, <2>3, Zenon DEF IsSimpleSubstitution
    <3>. QED BY <1>7, <3>1
  <2>. QED BY <2>2, <2>3
<1>9. spec.width # 0 => AlignedAs(q, spec, AlignOr(spec, ">"))
  <2>. SUFFICES ASSUME spec.width # 0 PROVE AlignedAs(q, spec, AlignOr(spec, ">"))
    OBVIOUS
  <2>1. AlignedAs(q, spec, AlignOr(spec, Default(arg.type)))
    BY GivenAligned
  <2>2. spec.align # ""
    BY <1>1, <1>2, IntegerPlain, Zenon
  <2>3. AlignOr(spec, Default(arg.type)) = AlignOr(spec, ">")
    BY <2>2, GivenAlignment
  <2>. QED BY <2>1, <2>3
<1>10. (IF q.localize THEN LocalizeArgument(q, b, arg, spec.precision)
         ELSE FormatArgument(q, b, arg, spec.precision))
          = IntFormatted(q, v)
  BY <1>4, <1>6, Zenon DEF IntFormatted
<1>. DEFINE type == arg.type
<1>11. type \in {"int", "bool", "char"} /\ arg.type = type /\ FieldSpec(q, k, spec, type)
  BY <1>1
<1>. HIDE DEF type
<1>. QED BY <1>3, <1>5, <1>8, <1>9, <1>10, <1>11, IntFieldWritten

\* A bool (FormatBoolType).
LEMMA BoolField ==
    ASSUME Grouping = << 3 >>, NEW spec, NEW arg, NEW q, NEW k, NEW b, FieldGiven(spec, arg, q, k, b),
           arg.type = "bool"
    PROVE  Meant(Format(q, b, arg, Nested), FieldMeaning(spec, arg))
<1>1. /\ spec \in ItemSpecs /\ arg \in Arguments /\ ValidSpec(spec, arg.type)
         /\ ~FieldDiverges(spec, arg)
      /\ FieldSpec(q, k, spec, arg.type) /\ b \in Buffers
  BY Zenon DEF FieldGiven
<1>2. arg.type \notin Texts /\ arg.type \notin Numbers
  BY DEF Texts, Numbers
<1>3. q.type = TypeFor(spec) /\ q.localize = spec.localize
  BY <1>1, FieldSpecParts
<1>4. FormatArgument(q, b, arg, spec.precision) = FormatBoolType(q, b, arg.b)
  BY <1>2, Zenon DEF FormatArgument
<1>5. spec.type \in {"", "s"} \union IntegerTypes
  <2>1. spec.type \in {""} \union
              CASE arg.type = "int" -> IntegerTypes \union {"c"}
                [] arg.type = "float" -> {"a", "A", "e", "E", "f", "F", "g", "G"}
                [] arg.type = "bool" -> IntegerTypes \union {"s"}
                [] arg.type = "char" -> IntegerTypes \union {"c"}
                [] arg.type \in Texts -> {"s"}
                [] arg.type = "pointer" -> {"p"}
                [] OTHER -> {}
    BY <1>1, Zenon DEF ValidSpec
  <2>. QED BY <2>1 DEF IntegerTypes, Texts
<1>6. CASE spec.type \in {"", "s"}
  <2>. DEFINE t == BoolText(arg.b)
              a == AlignOr(spec, "<")
  <2>1. q.type \in {NoChar, "s"}
    BY <1>3, <1>6 DEF TypeFor
  <2>2. ~q.localize => (IF q.localize THEN LocalizeArgument(q, b, arg, spec.precision)
          ELSE FormatArgument(q, b, arg, spec.precision))
           = [text |-> Over(b.text, t), size |-> Len(t)]
    BY <1>4, <2>1, Zenon DEF FormatBoolType, WriteBool
  <2>3. spec.precision = 0
    <3>1. spec.precision = 0 \/ arg.type \in Texts \union {"float"}
      BY <1>1, ValidParts, Zenon
    <3>. QED BY <3>1 DEF Texts
  <2>4. FieldMeaning(spec, arg) = TextMeaning(spec, t)
    BY <1>2, <1>6, Zenon DEF FieldMeaning
  <2>5. TextMeaning(spec, t) = Padded(spec, t, a)
    BY <2>3, WholeText
  <2>6. spec.width # 0 => AlignedAs(q, spec, a)
    <3>1. Default(arg.type) = "<"
      BY <1>2 DEF Default
    <3>. QED BY <3>1, GivenAligned
  <2>7. t \in Seq(Marks) /\ SimplyMeant(b, arg, t)
    BY <1>1, WordMarks, SimpleWord
  <2>. HIDE DEF t, a
  <2>8. Meant(Format(q, b, arg, Nested), Padded(spec, t, a))
    <3>1. CASE ~q.localize
      BY <1>2, <2>2, <2>6, <2>7, <3>1, WordWritten
    <3>2. CASE q.localize
      <4>1. spec.width = 0
        BY <1>1, <1>3, <3>2, FieldPlain, Zenon
      <4>2. ~q.alt
        <5>1. spec.type \notin IntegerTypes
          BY <1>6 DEF IntegerTypes
        <5>2. ~spec.alt
          BY <1>1, <1>2, <5>1, Zenon DEF ValidSpec
        <5>. QED BY <1>1, <5>2, FieldSpecParts
      <4>3. IsSimpleSubstitution(q, arg.type, spec.precision)
        BY <1>2, <2>1, <4>2, Zenon DEF IsSimpleSubstitution
      <4>4. Direct(q, spec)
        BY GivenDirect
      <4>5. Format(q, b, arg, Nested) = WriteSimpleValue(b, arg)
        BY <4>1, <4>3, <4>4, SimplyWritten
      <4>6. Padded(spec, t, a) = t
        BY <2>7, <4>1, NotPadded
      <4>. QED BY <2>7, <4>5, <4>6, Zenon DEF SimplyMeant
    <3>. QED BY <3>1, <3>2
  <2>. QED BY <2>4, <2>5, <2>8
<1>7. CASE spec.type \in IntegerTypes
  <2>1. q.type \notin {NoChar, "s"} /\ spec.type \notin {"", "s"}
    BY <1>3, <1>7 DEF TypeFor, IntegerTypes, NoChar
  <2>. DEFINE v == IF arg.b THEN 1 ELSE 0
  <2>2. FormatArgument(q, b, arg, spec.precision) = FormatIntegerType(q, v)
    BY <1>4, <2>1, Zenon DEF FormatBoolType
  <2>3. FieldMeaning(spec, arg) = IntMeaning(spec, v)
    BY <1>2, <2>1, Zenon DEF FieldMeaning
  <2>4. v = ValueOf(arg)
    BY <1>1, <1>7, IntegerValue DEF IsInteger
  <2>. HIDE DEF v
  <2>5. arg.type \in {"bool", "char"}
    OBVIOUS
  <2>6. Meant(Format(q, b, arg, Nested), IntMeaning(spec, v))
    BY <1>7, <2>2, <2>4, <2>5, NumberedField
  <2>. QED BY <2>3, <2>6
<1>. QED BY <1>5, <1>6, <1>7

\* A character (FormatCharType).
LEMMA CharField ==
    ASSUME Grouping = << 3 >>, NEW spec, NEW arg, NEW q, NEW k, NEW b, FieldGiven(spec, arg, q, k, b),
           arg.type = "char"
    PROVE  Meant(Format(q, b, arg, Nested), FieldMeaning(spec, arg))
<1>1. /\ spec \in ItemSpecs /\ arg \in Arguments /\ ValidSpec(spec, arg.type)
         /\ ~FieldDiverges(spec, arg)
      /\ FieldSpec(q, k, spec, arg.type) /\ b \in Buffers
  BY Zenon DEF FieldGiven
<1>2. arg.type \notin Texts /\ arg.type \notin Numbers
  BY DEF Texts, Numbers
<1>3. q.type = TypeFor(spec) /\ q.localize = spec.localize
  BY <1>1, FieldSpecParts
<1>4. FormatArgument(q, b, arg, spec.precision) = FormatCharType(q, b, arg)
  BY <1>2, Zenon DEF FormatArgument
<1>5. spec.type \in {"", "c"} \union IntegerTypes
  <2>1. spec.type \in {""} \union
              CASE arg.type = "int" -> IntegerTypes \union {"c"}
                [] arg.type = "float" -> {"a", "A", "e", "E", "f", "F", "g", "G"}
                [] arg.type = "bool" -> IntegerTypes \union {"s"}
                [] arg.type = "char" -> IntegerTypes \union {"c"}
                [] arg.type \in Texts -> {"s"}
                [] arg.type = "pointer" -> {"p"}
                [] OTHER -> {}
    BY <1>1, Zenon DEF ValidSpec
  <2>. QED BY <2>1 DEF IntegerTypes, Texts
<1>6. ~spec.localize
  <2>1. ~spec.localize \/ arg.type \in Numbers \union {"bool", "time"}
    BY <1>1, ValidParts, Zenon
  <2>. QED BY <1>2, <2>1
<1>7. CASE spec.type \in {"", "c"}
  <2>. DEFINE t == <<arg.char>>
              a == AlignOr(spec, "<")
  <2>0. t \in Seq(Marks) /\ Len(t) = 1
    BY <1>1, WordMarks
  <2>1. q.type \in {NoChar, "c"}
    BY <1>3, <1>7 DEF TypeFor
  <2>2. (IF q.localize THEN LocalizeArgument(q, b, arg, spec.precision)
          ELSE FormatArgument(q, b, arg, spec.precision))
           = [text |-> Over(b.text, t), size |-> Len(t)]
    <3>1. FormatArgument(q, b, arg, spec.precision) = [text |-> Over(b.text, <<arg.char>>), size |-> 1]
      BY <1>4, <2>1, Zenon DEF FormatCharType, WriteChar
    <3>. QED BY <1>3, <1>6, <2>0, <3>1, Zenon
  <2>3. spec.precision = 0
    <3>1. spec.precision = 0 \/ arg.type \in Texts \union {"float"}
      BY <1>1, ValidParts, Zenon
    <3>. QED BY <3>1 DEF Texts
  <2>4. FieldMeaning(spec, arg) = TextMeaning(spec, t)
    BY <1>2, <1>7, Zenon DEF FieldMeaning
  <2>5. TextMeaning(spec, t) = Padded(spec, t, a)
    BY <2>3, WholeText
  <2>6. spec.width # 0 => AlignedAs(q, spec, a)
    <3>1. Default(arg.type) = "<"
      BY <1>2 DEF Default
    <3>. QED BY <3>1, GivenAligned
  <2>7. SimplyMeant(b, arg, t)
    BY <1>1, SimpleWord
  <2>. HIDE DEF t, a
  <2>8. Meant(Format(q, b, arg, Nested), Padded(spec, t, a))
    BY <1>2, <2>0, <2>2, <2>6, <2>7, WordWritten
  <2>. QED BY <2>4, <2>5, <2>8
<1>8. CASE spec.type \in IntegerTypes
  <2>1. q.type \notin {NoChar, "c"} /\ spec.type \notin {"", "c"}
    BY <1>3, <1>8 DEF TypeFor, IntegerTypes, NoChar
  <2>. DEFINE v == arg.code
  <2>2. FormatArgument(q, b, arg, spec.precision) = FormatIntegerType(q, v)
    BY <1>4, <2>1, Zenon DEF FormatCharType
  <2>3. FieldMeaning(spec, arg) = IntMeaning(spec, v)
    BY <1>2, <2>1, Zenon DEF FieldMeaning
  <2>4. v = ValueOf(arg)
    BY <1>1, <1>8, IntegerValue DEF IsInteger
  <2>. HIDE DEF v
  <2>5. arg.type \in {"bool", "char"}
    OBVIOUS
  <2>6. Meant(Format(q, b, arg, Nested), IntMeaning(spec, v))
    BY <1>8, <2>2, <2>4, <2>5, NumberedField
  <2>. QED BY <2>3, <2>6
<1>. QED BY <1>5, <1>7, <1>8

------------------------------------------------------------------------------
(****************************************************************************)
(* Texts.                                                                   *)
(****************************************************************************)

\* A view of a text that is not shorter.
LEMMA ViewText ==
    ASSUME NEW t \in Seq(Marks), NEW p \in 1 .. Len(t), NEW u,
           u = IF p < Len(t) THEN SubSeq(t, 1, p) ELSE t
    PROVE  View(t, p) = u /\ u \in Seq(Marks)
<1>1. Len(t) \in Nat
  OBVIOUS
<1>2. View(t, p) \in Seq(Marks) /\ Len(View(t, p)) = p /\ \A i \in 1 .. p : View(t, p)[i] = t[i]
  <2>1. \A i \in 1 .. p : i <= Len(t) /\ t[i] \in Marks
    BY <1>1
  <2>2. View(t, p) = [i \in 1 .. p |-> t[i]]
    BY <2>1, Zenon DEF View
  <2>3. p \in Nat
    BY <1>1
  <2>. QED BY <2>1, <2>2, <2>3
<1>3. u \in Seq(Marks) /\ Len(u) = p /\ \A i \in 1 .. p : u[i] = t[i]
  <2>1. CASE p < Len(t)
    <3>1. 1 \in 1 .. Len(t) + 1 /\ p \in 1 - 1 .. Len(t) /\ p - 1 + 1 = p
      BY <1>1
    <3>2. SubSeq(t, 1, p) \in Seq(Marks) /\ Len(SubSeq(t, 1, p)) = p
          /\ \A i \in 1 .. p : SubSeq(t, 1, p)[i] = t[i]
      BY <1>1, <2>1
    <3>. QED BY <2>1, <3>2
  <2>2. CASE ~(p < Len(t))
    BY <1>1, <2>2
  <2>. QED BY <2>1, <2>2
<1>. QED BY <1>2, <1>3, SameMarks

\* A text (WriteAlignedString and what is written without a width).
LEMMA TextField ==
    ASSUME NEW spec, NEW arg, NEW q, NEW k, NEW b, FieldGiven(spec, arg, q, k, b), arg.type \in Texts
    PROVE  Meant(Format(q, b, arg, Nested), FieldMeaning(spec, arg))
           /\ Format(q, b, arg, Nested).buffer.size = b.size
<1>. DEFINE t == arg.text
            p == spec.precision
            a == AlignOr(spec, "<")
            w == Format(q, b, arg, Nested)
            cut == IF p # 0 /\ p < Len(t) THEN SubSeq(t, 1, p) ELSE t
<1>1. /\ spec \in ItemSpecs /\ arg \in Arguments /\ ValidSpec(spec, arg.type)
         /\ ~FieldDiverges(spec, arg)
      /\ FieldSpec(q, k, spec, arg.type) /\ b \in Buffers
  BY Zenon DEF FieldGiven
<1>2. /\ arg.type # "int" /\ arg.type # "float" /\ arg.type # "pointer" /\ arg.type # "bool"
         /\ arg.type # "char"
      /\ arg.type # "time" /\ arg.type \notin Numbers
  BY DEF Texts, Numbers
<1>3. t \in Seq(Marks) /\ SimplyMeant(b, arg, t) /\ p \in Nat
  BY <1>1, WordMarks, SimpleWord, SpecChars
<1>4. FieldMeaning(spec, arg) = TextMeaning(spec, t)
  BY <1>2, Zenon DEF FieldMeaning
<1>5. TextMeaning(spec, t) = Padded(spec, cut, a)
  BY Zenon DEF TextMeaning
<1>6. Direct(q, spec) /\ spec.width \in Nat
  BY GivenDirect
<1>7. ~(p # 0 /\ IF spec.width = 0 THEN p > Len(t) ELSE p < Len(t))
  BY <1>1, FieldPlain, Zenon
<1>8. IsSimpleSubstitution(q, arg.type, p) <=> p = 0
  BY <1>2, Zenon DEF IsSimpleSubstitution
<1>9. Len(t) \in Nat
  BY <1>3
<1>10. CASE spec.width = 0 /\ p = 0
  <2>1. w = WriteSimpleValue(b, arg)
    BY <1>6, <1>8, <1>10, SimplyWritten
  <2>2. cut = t
    BY <1>10
  <2>3. Padded(spec, t, a) = t
    BY <1>3, <1>10, NotPadded
  <2>. QED BY <1>3, <1>4, <1>5, <2>1, <2>2, <2>3, Zenon DEF SimplyMeant
<1>11. CASE spec.width = 0 /\ p # 0
  <2>1. w = Written(View(t, p), b)
    BY <1>6, <1>8, <1>11, TextWritten
  <2>2. p \in 1 .. Len(t)
    <3>. DEFINE n == Len(t)
    <3>1. p \in Nat /\ n \in Nat /\ p # 0 /\ ~(p > n)
      BY <1>3, <1>7, <1>9, <1>11
    <3>. HIDE DEF p, n
    <3>2. p \in 1 .. n
      BY <3>1
    <3>. QED BY <3>2 DEF n
  <2>3. View(t, p) = cut /\ cut \in Seq(Marks)
    <3>1. cut = IF p < Len(t) THEN SubSeq(t, 1, p) ELSE t
      BY <1>11
    <3>. HIDE DEF t, p, cut
    <3>. QED BY <1>3, <2>2, <3>1, ViewText
  <2>4. Padded(spec, cut, a) = cut
    <3>. HIDE DEF cut
    <3>. QED BY <1>11, <2>3, NotPadded
  <2>5. w.out = cut /\ w.buffer = b
    BY <2>1, <2>3 DEF Written
  <2>. QED BY <1>1, <1>4, <1>5, <2>3, <2>4, <2>5, Zenon DEF Meant
<1>12. CASE spec.width # 0
  <2>1. w = Written(AlignText(q, t, spec.width, p), b)
    <3>1. ~(spec.width = 0 /\ IsSimpleSubstitution(q, arg.type, spec.precision))
      BY <1>12
    <3>. QED BY <1>6, <1>12, <3>1, TextWritten
  <2>2. AlignedAs(q, spec, a)
    <3>1. Default(arg.type) = "<"
      BY <1>2 DEF Default
    <3>. QED BY <1>12, <3>1, GivenAligned
  <2>3. p = 0 \/ p >= Len(t)
    <3>. DEFINE n == Len(t)
    <3>1. p \in Nat /\ n \in Nat /\ ~(p # 0 /\ p < n)
      BY <1>3, <1>7, <1>9, <1>12
    <3>. HIDE DEF p, n
    <3>2. p = 0 \/ p >= n
      BY <3>1
    <3>. QED BY <3>2 DEF n
  <2>4. cut = t
    BY <1>3, <1>7, <1>12, Zenon
  <2>5. AlignText(q, t, spec.width, p) = Padded(spec, t, a)
    <3>. HIDE DEF t, p, a
    <3>. QED BY <1>3, <2>2, <2>3, TextPadded
  <2>6. Padded(spec, t, a) \in Seq(Marks)
    <3>1. a \in {"<", ">", "^"} /\ FillOr(spec) \in Marks /\ spec.width \in Nat
      BY <2>2, Zenon DEF AlignedAs
    <3>. HIDE DEF a, t
    <3>. QED BY <1>3, <3>1, PaddedBy
  <2>7. w.out = Padded(spec, t, a) /\ w.buffer = b
    BY <2>1, <2>5 DEF Written
  <2>. QED BY <1>1, <1>4, <1>5, <2>4, <2>6, <2>7, Zenon DEF Meant
<1>. QED BY <1>10, <1>11, <1>12

------------------------------------------------------------------------------
(****************************************************************************)
(* The decimal point of a float.                                            *)
(****************************************************************************)

\* A text with one point, behind at most three characters: these are never grouped.
PointAt(s, at) ==
    /\ s \in Seq(Marks) /\ at \in 2 .. 4 /\ at <= Len(s)
    /\ \A i \in 1 .. Len(s) : s[i] = "." <=> i = at

\* A text without one.
Pointless(s) == s \in Seq(Marks) /\ \A i \in 1 .. Len(s) : s[i] # "."

\* The position of the point is found.
LEMMA PointPosition ==
    ASSUME NEW s, NEW at, PointAt(s, at), NEW n, n = Len(s)
    PROVE  /\ {i \in 1 .. n : s[i] = "."} # {} /\ Min({i \in 1 .. n : s[i] = "."}) = at
<1>. DEFINE S == {i \in 1 .. n : s[i] = "."}
<1>1. n \in Nat /\ at \in 1 .. n /\ \A i \in 1 .. n : s[i] = "." <=> i = at
  BY DEF PointAt
<1>2. S \in SUBSET Nat /\ at \in S
  BY <1>1
<1>3. \A x \in S : at <= x
  BY <1>1
<1>. HIDE DEF S
<1>4. Min(S) = at
  BY <1>2, <1>3, MinIs
<1>. QED BY <1>2, <1>4 DEF S

\* The decimal point of the locale is a mark.
LEMMA PointMark == Point \in Marks
BY MarksInclude DEF Fixed

\* Replacing the point: what is in front of it, the new point, and what follows.
LEMMA PointOver ==
    ASSUME NEW s, NEW at, PointAt(s, at), NEW t, t = [s EXCEPT ![at] = Point]
    PROVE  Over(s, Prefix(s, at - 1) \o <<Point>>) = t /\ t \in Seq(Marks) /\ Len(t) = Len(s)
<1>. DEFINE n == Len(s)
            f == Prefix(s, at - 1)
            g == f \o <<Point>>
            r == SubSeq(s, Len(g) + 1, n)
            u == g \o r
<1>1. s \in Seq(Marks) /\ n \in Nat /\ at \in 1 .. n /\ at \in Nat /\ at >= 1 /\ at <= n
      /\ \A i \in 1 .. n : s[i] \in Marks
  BY MarkLength DEF PointAt
<1>2. at - 1 \in 0 .. n
  BY <1>1
<1>3. f \in Seq(Marks) /\ Len(f) = at - 1 /\ \A i \in 1 .. at - 1 : f[i] = s[i]
  <2>. DEFINE m == at - 1
  <2>1. m \in 0 .. Len(s)
    BY <1>2
  <2>. HIDE DEF m
  <2>2. Prefix(s, m) \in Seq(Marks) /\ Len(Prefix(s, m)) = m /\ \A i \in 1 .. m : Prefix(s, m)[i] = s[i]
    BY <1>1, <2>1, PrefixText
  <2>. QED BY <2>2 DEF m
<1>. HIDE DEF f
<1>4. LaidBehind(g, f, <<Point>>)
  <2>1. <<Point>> \in Seq(Marks)
    BY PointMark, OneLong
  <2>. QED BY <1>3, <2>1, Laid
<1>. DEFINE c == <<Point>>
<1>5. c \in Seq(Marks) /\ Len(c) = 1 /\ c[1] = Point
  BY PointMark, OneLong
<1>6. g \in Seq(Marks) /\ Len(g) = at /\ (\A i \in 1 .. at - 1 : g[i] = s[i]) /\ g[at] = Point
  <2>1. LaidBehind(g, f, c)
    BY <1>4
  <2>. HIDE DEF g, c
  <2>2. g \in Seq(Marks) /\ Len(g) = Len(f) + Len(c) /\ (\A i \in 1 .. Len(f) : g[i] = f[i])
        /\ \A i \in 1 .. Len(c) : g[Len(f) + i] = c[i]
    BY <2>1, Zenon DEF LaidBehind
  <2>3. Len(g) = at /\ (at - 1) + 1 = at
    BY <1>1, <1>3, <1>5, <2>2
  <2>4. g[at] = Point
    <3>1. 1 \in 1 .. Len(c)
      BY <1>5
    <3>2. g[(at - 1) + 1] = c[1]
      BY <1>3, <2>2, <3>1, Zenon
    <3>. QED BY <1>5, <2>3, <3>2, Zenon
  <2>5. \A i \in 1 .. at - 1 : g[i] = s[i]
    BY <1>3, <2>2, Zenon
  <2>. QED BY <2>2, <2>3, <2>4, <2>5
<1>. HIDE DEF g, c
<1>7. r \in Seq(Marks) /\ Len(r) = n - at /\ \A i \in 1 .. n - at : r[i] = s[at + i]
  <2>1. at + 1 \in 1 .. n + 1 /\ n \in (at + 1) - 1 .. n /\ n - (at + 1) + 1 = n - at
        /\ \A i \in 1 .. n - at : (at + 1) - 1 + i = at + i
    BY <1>1
  <2>. DEFINE m == at + 1
  <2>2. m \in 1 .. Len(s) + 1 /\ n \in m - 1 .. Len(s)
    BY <2>1
  <2>. HIDE DEF m, n
  <2>3. SubSeq(s, m, n) \in Seq(Marks) /\ Len(SubSeq(s, m, n)) = n - m + 1
        /\ \A i \in 1 .. n - m + 1 : SubSeq(s, m, n)[i] = s[m - 1 + i]
    BY <1>1, <2>2, Part
  <2>4. r = SubSeq(s, m, n)
    BY <1>6 DEF m
  <2>. HIDE DEF r
  <2>5. n - m + 1 = n - at /\ \A i \in 1 .. n - at : m - 1 + i = at + i
    BY <2>1 DEF m
  <2>. QED BY <2>3, <2>4, <2>5
<1>. HIDE DEF r
<1>8. u \in Seq(Marks) /\ Len(u) = n /\ (\A i \in 1 .. at : u[i] = g[i])
      /\ \A i \in 1 .. n - at : u[at + i] = s[at + i]
  <2>1. LaidBehind(u, g, r)
    BY <1>6, <1>7, Laid
  <2>. HIDE DEF u, n
  <2>2. u \in Seq(Marks) /\ Len(u) = Len(g) + Len(r) /\ (\A i \in 1 .. Len(g) : u[i] = g[i])
        /\ \A i \in 1 .. Len(r) : u[Len(g) + i] = r[i]
    BY <2>1, Zenon DEF LaidBehind
  <2>3. at + (n - at) = n
    BY <1>1
  <2>. QED BY <1>6, <1>7, <2>2, <2>3, Zenon
<1>9. Over(s, g) = u
  BY Zenon DEF Over, r
<1>10. t \in Seq(Marks) /\ Len(t) = n /\ t[at] = Point /\ \A i \in 1 .. n : i # at => t[i] = s[i]
  BY <1>1, PointMark
<1>. HIDE DEF u, n
<1>11. \A i \in 1 .. n : u[i] = t[i]
  <2>. SUFFICES ASSUME NEW i \in 1 .. n PROVE u[i] = t[i]
    OBVIOUS
  <2>1. CASE i < at
    <3>1. i \in 1 .. at - 1 /\ i \in 1 .. at /\ i # at
      BY <1>1, <2>1
    <3>. QED BY <1>6, <1>8, <1>10, <3>1
  <2>2. CASE i = at
    <3>1. at \in 1 .. at
      BY <1>1
    <3>. QED BY <1>6, <1>8, <1>10, <2>2, <3>1
  <2>3. CASE i > at
    <3>1. i - at \in 1 .. n - at /\ at + (i - at) = i /\ i # at
      BY <1>1, <2>3
    <3>2. u[at + (i - at)] = s[at + (i - at)]
      BY <1>8, <3>1
    <3>. QED BY <1>10, <3>1, <3>2
  <2>. QED BY <1>1, <2>1, <2>2, <2>3
<1>12. u = t
  BY <1>8, <1>10, <1>11, SameMarks
<1>. QED BY <1>9, <1>10, <1>12 DEF g, f, c, n

\* The text with the decimal point of the locale, by its characters.
LEMMA PointedText ==
    ASSUME NEW t \in Seq(Marks)
    PROVE  /\ Pointed(t) \in Seq(Marks) /\ Len(Pointed(t)) = Len(t)
           /\ \A i \in 1 .. Len(t) : Pointed(t)[i] = IF t[i] = "." THEN Point ELSE t[i]
<1>. DEFINE put(c) == IF c = "." THEN Point ELSE c
            n == Len(t)
<1>1. n \in Nat /\ \A i \in 1 .. n : t[i] \in Marks
  BY MarkLength
<1>2. \A i \in 1 .. n : put(t[i]) \in Marks
  BY <1>1, PointMark, Zenon
<1>3. Pointed(t) = [i \in 1 .. n |-> put(t[i])]
  BY Zenon DEF Pointed
<1>. HIDE DEF put, n
<1>4. Pointed(t) \in Seq(Marks) /\ Len(Pointed(t)) = n /\ \A i \in 1 .. n : Pointed(t)[i] = put(t[i])
  BY <1>1, <1>2, <1>3
<1>. QED BY <1>4, Zenon DEF put, n

\* A text without points stays.
LEMMA PointlessPointed ==
    ASSUME NEW t, Pointless(t) PROVE Pointed(t) = t
<1>1. t \in Seq(Marks) /\ \A i \in 1 .. Len(t) : t[i] # "."
  BY DEF Pointless
<1>2. Pointed(t) \in Seq(Marks) /\ Len(Pointed(t)) = Len(t) /\ \A i \in 1 .. Len(t) : Pointed(t)[i] = t[i]
  BY <1>1, PointedText, Zenon
<1>. QED BY <1>1, <1>2, SameMarks

\* The one point of a text replaced.
LEMMA PointReplaced ==
    ASSUME NEW s, NEW at, PointAt(s, at) PROVE [s EXCEPT ![at] = Point] = Pointed(s)
<1>. DEFINE t == [s EXCEPT ![at] = Point]
            n == Len(s)
<1>1. s \in Seq(Marks) /\ n \in Nat /\ at \in 1 .. n /\ \A i \in 1 .. n : s[i] = "." <=> i = at
  BY DEF PointAt
<1>2. t \in Seq(Marks) /\ Len(t) = n /\ \A i \in 1 .. n : t[i] = IF i = at THEN Point ELSE s[i]
  BY <1>1, PointMark
<1>3. Pointed(s) \in Seq(Marks) /\ Len(Pointed(s)) = n
      /\ \A i \in 1 .. n : Pointed(s)[i] = IF s[i] = "." THEN Point ELSE s[i]
  BY <1>1, PointedText
<1>. HIDE DEF t, n
<1>4. \A i \in 1 .. n : t[i] = Pointed(s)[i]
  BY <1>1, <1>2, <1>3, Zenon
<1>5. t = Pointed(s)
  BY <1>2, <1>3, <1>4, SameMarks
<1>. QED BY <1>5 DEF t

\* LocalizeFloatingPoint replaces the point.
LEMMA PointLocalized ==
    ASSUME Grouping = << 3 >>, NEW s, NEW at, PointAt(s, at), NEW b, b = Whole(s)
    PROVE  Shows(LocalizeFloatingPoint(b), Pointed(s)) /\ LocalizeFloatingPoint(b) \in Buffers
<1>. DEFINE t == [s EXCEPT ![at] = Point]
<1>1. s \in Seq(Marks) /\ Len(s) \in Nat /\ at - 1 <= 3
  BY MarkLength DEF PointAt
<1>2. b.text = s /\ b.size = Len(s)
  BY DEF Whole
<1>3. Over(s, Prefix(s, at - 1) \o <<Point>>) = t /\ t \in Seq(Marks) /\ Len(t) = Len(s)
  BY PointOver
<1>0. t = Pointed(s)
  BY PointReplaced
<1>. HIDE DEF t
<1>. DEFINE points == {i \in 1 .. b.size : b.text[i] = "."}
            m == Min(points)
            grouped == FormatIntegralGrouping(b, m - 1)
<1>4. points # {} /\ m = at
  <2>. DEFINE n == Len(s)
  <2>1. n = Len(s) /\ points = {i \in 1 .. n : s[i] = "."}
    BY <1>2
  <2>. HIDE DEF n
  <2>2. {i \in 1 .. n : s[i] = "."} # {} /\ Min({i \in 1 .. n : s[i] = "."}) = at
    BY <2>1, PointPosition
  <2>. QED BY <2>1, <2>2, Zenon
<1>5. FormatIntegralGrouping(b, at - 1) = b
  BY <1>1, OneGroup, Zenon DEF FormatIntegralGrouping
<1>6. LocalizeFloatingPoint(b) = [b EXCEPT !.text = Over(@, Prefix(@, at - 1) \o <<Point>>)]
  <2>1. LocalizeFloatingPoint(b) = IF points = {} THEN FormatIntegralGrouping(b, b.size)
                                   ELSE [grouped EXCEPT !.text = Over(@, Prefix(@, m - 1) \o <<Point>>)]
    BY Zenon DEF LocalizeFloatingPoint
  <2>2. grouped = b
    BY <1>4, <1>5, Zenon
  <2>. HIDE DEF points, m, grouped
  <2>. QED BY <1>4, <2>1, <2>2, Zenon
<1>. DEFINE c == [b EXCEPT !.text = Over(@, Prefix(@, at - 1) \o <<Point>>)]
<1>7. c.text = t /\ c.size = Len(t) /\ c \in Buffers
  <2>. DEFINE o == Over(s, Prefix(s, at - 1) \o <<Point>>)
  <2>1. c = [b EXCEPT !.text = o]
    BY <1>2, Zenon
  <2>2. o = t
    BY <1>3
  <2>. HIDE DEF o, c
  <2>3. c = [text |-> t, size |-> Len(s)]
    BY <2>1, <2>2 DEF Whole
  <2>. QED BY <1>1, <1>3, <2>3 DEF Buffers
<1>8. Prefix(t, Len(t)) = t
  BY <1>3, PrefixWhole
<1>. HIDE DEF c
<1>9. Shows(c, t) /\ c \in Buffers
  BY <1>3, <1>7, <1>8 DEF Shows
<1>. QED BY <1>0, <1>6, <1>9 DEF c

\* Without a point it leaves a text of three characters as it is.
LEMMA PointlessLocalized ==
    ASSUME Grouping = << 3 >>, NEW s, Pointless(s), Len(s) <= 3, NEW b, b = Whole(s)
    PROVE  Shows(LocalizeFloatingPoint(b), Pointed(s)) /\ LocalizeFloatingPoint(b) \in Buffers
<1>1. s \in Seq(Marks) /\ Len(s) \in Nat /\ \A i \in 1 .. Len(s) : s[i] # "."
  BY MarkLength DEF Pointless
<1>2. b.text = s /\ b.size = Len(s)
  BY DEF Whole
<1>. DEFINE points == {i \in 1 .. b.size : b.text[i] = "."}
<1>3. points = {}
  BY <1>1, <1>2
<1>4. LocalizeFloatingPoint(b) = FormatIntegralGrouping(b, b.size)
  <2>1. points = {} => LocalizeFloatingPoint(b) = FormatIntegralGrouping(b, b.size)
    BY Zenon DEF LocalizeFloatingPoint
  <2>. QED BY <1>3, <2>1
<1>5. FormatIntegralGrouping(b, b.size) = b
  BY <1>2, OneGroup, Zenon DEF FormatIntegralGrouping
<1>6. Pointed(s) = s
  BY PointlessPointed
<1>. QED BY <1>1, <1>4, <1>5, <1>6, WholeShows

\* The notations to_chars is called with.
Notations == {"p", "e", "f", "g", "s"}

SignTexts == {<<>>, <<"+">>, <<"-">>, <<" ">>}

\* A character that is no point.
LEMMA OneNoPoint ==
    ASSUME NEW x \in Marks, x # "."
    PROVE  <<x>> \in Seq(Marks) /\ Len(<<x>>) \in {0, 1} /\ (\A i \in 1 .. Len(<<x>>) : <<x>>[i] # ".")
OBVIOUS

\* A sign is at most one character, and no point.
LEMMA SignTextMarks ==
    ASSUME NEW s \in SignTexts
    PROVE  s \in Seq(Marks) /\ Len(s) \in {0, 1} /\ (\A i \in 1 .. Len(s) : s[i] # ".")
<1>1. "+" \in Marks /\ "-" \in Marks /\ " " \in Marks
  BY FixedMarks
<1>2. "+" # "." /\ "-" # "." /\ " " # "."
  OBVIOUS
<1>3. LET t == <<>> IN t \in Seq(Marks) /\ Len(t) \in {0, 1} /\ (\A i \in 1 .. Len(t) : t[i] # ".")
  OBVIOUS
<1>. QED BY <1>1, <1>2, <1>3, OneNoPoint, Zenon DEF SignTexts

\* A text in small or capital letters.
Cased(upper, text) == IF upper THEN BufferToUpper(text) ELSE text

\* Capital letters keep the length.
LEMMA CasedText ==
    ASSUME NEW text \in Seq(Marks), NEW upper
    PROVE  Cased(upper, text) \in Seq(Marks) /\ Len(Cased(upper, text)) = Len(text)
BY UpperText, Zenon DEF Cased

\* Capital letters leave the points where they are, and put no other one into the text.
LEMMA CasedPoints ==
    ASSUME NEW upper, NEW t \in Seq(Marks)
    PROVE  \A i \in 1 .. Len(t) : Cased(upper, t)[i] = "." <=> t[i] = "."
<1>1. CASE upper
  <2>1. \A i \in 1 .. Len(t) : BufferToUpper(t)[i] = IF t[i] \in DOMAIN UpperOf THEN UpperOf[t[i]]
          ELSE t[i]
    BY UpperText
  <2>2. "." \notin DOMAIN UpperOf /\ \A c \in DOMAIN UpperOf : UpperOf[c] # "."
    BY DEF UpperOf
  <2>3. Cased(upper, t) = BufferToUpper(t)
    BY <1>1 DEF Cased
  <2>. QED BY <2>1, <2>2, <2>3
<1>2. CASE ~upper
  BY <1>2 DEF Cased
<1>. QED BY <1>1, <1>2

\* So the text has a point in the same place, or none.
LEMMA CasedPoint ==
    ASSUME NEW upper, NEW t
    PROVE  /\ \A at : PointAt(t, at) => PointAt(Cased(upper, t), at)
           /\ Pointless(t) => Pointless(Cased(upper, t))
<1>1. t \in Seq(Marks) => Cased(upper, t) \in Seq(Marks) /\ Len(Cased(upper, t)) = Len(t)
                          /\ \A i \in 1 .. Len(t) : Cased(upper, t)[i] = "." <=> t[i] = "."
  BY CasedText, CasedPoints
<1>. QED BY <1>1, Zenon DEF PointAt, Pointless

\* The decimal point of the locale, before and after the letters are made capital.
LEMMA CasedPointed ==
    ASSUME NEW upper, NEW t \in Seq(Marks)
    PROVE  Cased(upper, Pointed(t)) = Pointed(Cased(upper, t))
<1>1. CASE ~upper
  BY <1>1 DEF Cased
<1>2. CASE upper
  <2>. DEFINE n == Len(t)
              up(c) == IF c \in DOMAIN UpperOf THEN UpperOf[c] ELSE c
              put(c) == IF c = "." THEN Point ELSE c
              u == BufferToUpper(t)
              v == Pointed(t)
  <2>1. u \in Seq(Marks) /\ Len(u) = n /\ \A i \in 1 .. n : u[i] = up(t[i])
    BY UpperText
  <2>2. v \in Seq(Marks) /\ Len(v) = n /\ \A i \in 1 .. n : v[i] = put(t[i])
    BY PointedText
  <2>. HIDE DEF n, u, v
  <2>3. BufferToUpper(v) \in Seq(Marks) /\ Len(BufferToUpper(v)) = n
        /\ \A i \in 1 .. n : BufferToUpper(v)[i] = up(v[i])
    BY <2>2, UpperText
  <2>4. Pointed(u) \in Seq(Marks) /\ Len(Pointed(u)) = n /\ \A i \in 1 .. n : Pointed(u)[i] = put(u[i])
    BY <2>1, PointedText
  <2>5. \A c : up(put(c)) = put(up(c))
    <3>1. Point \notin DOMAIN UpperOf /\ "." \notin DOMAIN UpperOf
      BY DEF UpperOf, Point
    <3>2. \A c \in DOMAIN UpperOf : UpperOf[c] # "."
      BY DEF UpperOf
    <3>. QED BY <3>1, <3>2, Zenon
  <2>. HIDE DEF up, put
  <2>6. \A i \in 1 .. n : BufferToUpper(v)[i] = Pointed(u)[i]
    BY <2>1, <2>2, <2>3, <2>4, <2>5, Zenon
  <2>7. BufferToUpper(v) = Pointed(u)
    BY <2>3, <2>4, <2>6, SameMarks
  <2>. QED BY <1>2, <2>7 DEF Cased, u, v
<1>. QED BY <1>1, <1>2

------------------------------------------------------------------------------
(****************************************************************************)
(* The characters of a float.                                               *)
(****************************************************************************)

\* A float of at least 1.
Float(value) ==
    value.whole \in Nat \ {0} /\ value.fraction \in Nat /\ value.nibbles \in Nat /\ value.power \in Nat

\* A text whose point is its first character.
Behind(r) == r \in Seq(Marks) /\ \A i \in 1 .. Len(r) : r[i] = "." => i = 1

\* The tokens are marks and no points.
LEMMA FloatTokens ==
    /\ "digit" \in Marks /\ "decimal" \in Marks /\ "exponent" \in Marks /\ "." \in Marks
    /\ "e" \in Marks /\ "p" \in Marks /\ "+" \in Marks
    /\ "digit" # "." /\ "decimal" # "." /\ "exponent" # "." /\ "e" # "." /\ "p" # "." /\ "+" # "."
<1>1. {"digit", "decimal", "exponent", ".", "e", "p", "+"} \subseteq Fixed
  BY DEF Fixed
<1>. QED BY <1>1, MarksInclude

\* One token repeated.
LEMMA FilledPointless ==
    ASSUME NEW c \in Marks, c # ".", NEW n \in Nat
    PROVE  Pointless(Filled(c, n)) /\ Len(Filled(c, n)) = n
BY FilledText DEF Pointless

\* Two texts without points.
LEMMA PointlessJoined ==
    ASSUME NEW a, NEW b, Pointless(a), Pointless(b)
    PROVE  Pointless(a \o b) /\ Len(a \o b) = Len(a) + Len(b)
<1>. DEFINE t == a \o b
<1>1. a \in Seq(Marks) /\ b \in Seq(Marks)
  BY DEF Pointless
<1>2. LaidBehind(t, a, b)
  BY <1>1, Laid
<1>. HIDE DEF t
<1>3. t \in Seq(Marks) /\ Len(t) = Len(a) + Len(b) /\ Len(a) \in Nat /\ Len(b) \in Nat
      /\ (\A i \in 1 .. Len(a) : t[i] = a[i]) /\ \A i \in 1 .. Len(b) : t[Len(a) + i] = b[i]
  BY <1>2, Zenon DEF LaidBehind
<1>4. \A i \in 1 .. Len(t) : t[i] # "."
  <2>. TAKE i \in 1 .. Len(t)
  <2>1. CASE i \in 1 .. Len(a)
    BY <1>3, <2>1 DEF Pointless
  <2>2. CASE i \notin 1 .. Len(a)
    <3>1. i - Len(a) \in 1 .. Len(b) /\ Len(a) + (i - Len(a)) = i
      BY <1>3, <2>2
    <3>2. t[Len(a) + (i - Len(a))] = b[i - Len(a)]
      BY <1>3, <3>1
    <3>. QED BY <3>1, <3>2 DEF Pointless
  <2>. QED BY <2>1, <2>2
<1>. QED BY <1>3, <1>4 DEF Pointless, t

\* A text whose point, if it has one, is the first character of r behind n others.
PointIn(t, n, r) ==
    /\ t \in Seq(Marks) /\ Len(t) = n + Len(r) /\ n \in Nat /\ Len(r) \in Nat
    /\ \A i \in 1 .. Len(t) : t[i] = "." <=> (i = n + 1 /\ r[1] = ".")

\* A text without points, and one whose point is its first character, behind it.
LEMMA PointBehind ==
    ASSUME NEW a, NEW r, Pointless(a), Behind(r), NEW t, t = a \o r, NEW n, n = Len(a)
    PROVE  PointIn(t, n, r)
<1>1. a \in Seq(Marks) /\ r \in Seq(Marks)
  BY DEF Pointless, Behind
<1>2. LaidBehind(t, a, r)
  BY <1>1, Laid
<1>3. t \in Seq(Marks) /\ Len(t) = n + Len(r) /\ n \in Nat /\ Len(r) \in Nat
      /\ (\A i \in 1 .. n : t[i] = a[i]) /\ \A i \in 1 .. Len(r) : t[n + i] = r[i]
  BY <1>2, Zenon DEF LaidBehind
<1>4. ASSUME NEW i \in 1 .. Len(t) PROVE t[i] = "." <=> (i = n + 1 /\ r[1] = ".")
  <2>1. CASE i \in 1 .. n
    <3>1. i # n + 1
      BY <1>3, <2>1
    <3>. QED BY <1>3, <2>1, <3>1 DEF Pointless
  <2>2. CASE i \notin 1 .. n
    <3>. DEFINE j == i - n
    <3>1. j \in 1 .. Len(r) /\ n + j = i /\ (j = 1 <=> i = n + 1)
      BY <1>3, <2>2
    <3>. HIDE DEF j
    <3>2. t[i] = r[j]
      BY <1>3, <3>1
    <3>3. r[j] = "." => j = 1
      BY <3>1 DEF Behind
    <3>. QED BY <3>1, <3>2, <3>3, Zenon
  <2>. QED BY <2>1, <2>2
<1>. QED BY <1>3, <1>4 DEF PointIn

\* Two texts without a point before a third one: replacing its point replaces that of the whole.
LEMMA PointedBehind ==
    ASSUME NEW a, NEW r, Pointless(a), Behind(r)
    PROVE  a \o Pointed(r) = Pointed(a \o r)
<1>. DEFINE t == a \o r
            u == a \o Pointed(r)
            v == Pointed(r)
            n == Len(a)
            put(c) == IF c = "." THEN Point ELSE c
<1>1. a \in Seq(Marks) /\ r \in Seq(Marks) /\ \A i \in 1 .. n : a[i] # "."
  BY DEF Pointless, Behind
<1>2. v \in Seq(Marks) /\ Len(v) = Len(r) /\ \A i \in 1 .. Len(r) : v[i] = put(r[i])
  BY <1>1, PointedText
<1>. HIDE DEF v
<1>3. LaidBehind(t, a, r) /\ LaidBehind(u, a, v)
  BY <1>1, <1>2, Laid DEF v
<1>. HIDE DEF t, u
<1>4. t \in Seq(Marks) /\ Len(t) = n + Len(r) /\ n \in Nat /\ Len(r) \in Nat
      /\ (\A i \in 1 .. n : t[i] = a[i]) /\ \A i \in 1 .. Len(r) : t[n + i] = r[i]
  BY <1>3, Zenon DEF LaidBehind
<1>5. u \in Seq(Marks) /\ Len(u) = n + Len(r)
      /\ (\A i \in 1 .. n : u[i] = a[i]) /\ \A i \in 1 .. Len(r) : u[n + i] = v[i]
  BY <1>2, <1>3, Zenon DEF LaidBehind
<1>6. Pointed(t) \in Seq(Marks) /\ Len(Pointed(t)) = Len(t) /\ \A i \in 1 .. Len(t) : Pointed(t)[i] = put(t[i])
  BY <1>4, PointedText
<1>. HIDE DEF n
<1>7. ASSUME NEW i \in 1 .. Len(t) PROVE u[i] = put(t[i])
  <2>1. CASE i \in 1 .. n
    BY <1>1, <1>4, <1>5, <2>1, Zenon
  <2>2. CASE i \notin 1 .. n
    <3>. DEFINE j == i - n
    <3>1. j \in 1 .. Len(r) /\ n + j = i
      BY <1>4, <2>2
    <3>. HIDE DEF j, put
    <3>2. t[n + j] = r[j] /\ u[n + j] = v[j] /\ v[j] = put(r[j])
      BY <1>2, <1>4, <1>5, <3>1, Zenon
    <3>. QED BY <3>1, <3>2, Zenon
  <2>. QED BY <2>1, <2>2
<1>. HIDE DEF put
<1>8. u = Pointed(t)
  BY <1>4, <1>5, <1>6, <1>7, SameMarks
<1>. QED BY <1>8 DEF u, t, v

\* The digits of a float, whatever the notation and the precision.
LEMMA FloatShaped ==
    ASSUME NEW value, Float(value), NEW notation \in Notations, NEW precision \in Nat, NEW parts,
           parts = FloatParts(value, notation, precision)
    PROVE  /\ parts.whole \in Nat \ {0} /\ parts.fraction \in Nat
           /\ Pointless(parts.exponent)
<1>. DEFINE all == value.whole + value.fraction
            places == IF precision < 0 THEN 6 ELSE precision
            fixed == \/ notation \in {"f", "s"}
                     \/ notation = "g" /\ value.whole <= (IF places = 0 THEN 6 ELSE places)
            whole == IF fixed THEN value.whole ELSE 1
            fraction == CASE notation = "p" /\ places = 0 -> value.nibbles
                          [] notation = "g" /\ places # 0 -> (IF places < all THEN places ELSE all) - whole
                          [] notation \in {"e", "f", "p"} /\ places # 0 -> places
                          [] OTHER -> all - whole
            exponent == IF fixed THEN <<>>
                        ELSE IF notation = "p" THEN <<"p", "+">> \o Filled("exponent", value.power)
                        ELSE <<"e", "+", "exponent", "exponent">>
<1>1. parts.whole = whole /\ parts.fraction = fraction /\ parts.exponent = exponent
  BY DEF FloatParts
<1>2. value.whole \in Nat /\ value.whole >= 1 /\ value.fraction \in Nat /\ value.nibbles \in Nat
      /\ value.power \in Nat
  BY DEF Float
<1>3. places = precision /\ all \in Nat /\ all >= value.whole /\ all >= 1
  BY <1>2
<1>4. whole \in Nat /\ whole >= 1 /\ whole <= value.whole
  BY <1>2
<1>5. fraction \in Nat
  <2>1. CASE notation = "p" /\ places = 0
    BY <1>2, <2>1
  <2>2. CASE notation = "g" /\ places # 0
    <3>1. whole <= places /\ whole <= all
      <4>1. CASE fixed
        BY <1>2, <1>3, <2>2, <4>1
      <4>2. CASE ~fixed
        BY <1>3, <2>2, <4>2
      <4>. QED BY <4>1, <4>2
    <3>2. fraction = (IF places < all THEN places ELSE all) - whole
      BY <2>2
    <3>. HIDE DEF fraction, whole, places, all
    <3>. QED BY <1>3, <1>4, <3>1, <3>2
  <2>3. CASE notation \in {"e", "f", "p"} /\ places # 0
    BY <1>3, <2>3
  <2>4. CASE ~(notation = "p" /\ places = 0) /\ ~(notation = "g" /\ places # 0)
             /\ ~(notation \in {"e", "f", "p"} /\ places # 0)
    <3>1. fraction = all - whole
      BY <2>4
    <3>. HIDE DEF fraction, whole, places, all
    <3>. QED BY <1>2, <1>3, <1>4, <3>1
  <2>. QED BY <2>1, <2>2, <2>3, <2>4
<1>6. Pointless(exponent)
  <2>1. Pointless(<<>>)
    BY DEF Pointless
  <2>2. Pointless(<<"p", "+">>) /\ Pointless(<<"e", "+", "exponent", "exponent">>)
    BY FloatTokens DEF Pointless
  <2>3. Pointless(Filled("exponent", value.power))
    BY <1>2, FloatTokens, FilledPointless
  <2>4. Pointless(<<"p", "+">> \o Filled("exponent", value.power))
    BY <2>2, <2>3, PointlessJoined
  <2>. QED BY <2>1, <2>2, <2>4, Zenon
<1>. QED BY <1>1, <1>4, <1>5, <1>6

\* The text of such digits.
LEMMA FloatSides ==
    ASSUME NEW value, Float(value), NEW notation \in Notations, NEW precision \in Nat, NEW parts,
           parts = FloatParts(value, notation, precision)
    PROVE  /\ Pointless(WholeDigits(parts)) /\ Len(WholeDigits(parts)) \in Nat \ {0}
           /\ Behind(Fraction(parts))
<1>1. parts.whole \in Nat \ {0} /\ parts.fraction \in Nat /\ Pointless(parts.exponent)
  BY FloatShaped
<1>2. Pointless(WholeDigits(parts)) /\ Len(WholeDigits(parts)) \in Nat \ {0}
  BY <1>1, FloatTokens, FilledPointless DEF WholeDigits
<1>3. Behind(Fraction(parts))
  <2>1. \A t : Pointless(t) => Behind(t)
    BY DEF Pointless, Behind
  <2>2. CASE parts.fraction = 0
    <3>1. Fraction(parts) = <<>> \o parts.exponent
      BY <2>2, Zenon DEF Fraction
    <3>2. <<>> \o parts.exponent = parts.exponent
      BY <1>1, NothingBefore DEF Pointless
    <3>. QED BY <1>1, <2>1, <3>1, <3>2
  <2>3. CASE parts.fraction # 0
    <3>. DEFINE d == Filled("decimal", parts.fraction)
                e == parts.exponent
                s == <<".">> \o d
                t == s \o e
    <3>1. Pointless(d)
      BY <1>1, FloatTokens, FilledPointless
    <3>2. Fraction(parts) = t
      BY <2>3, Zenon DEF Fraction
    <3>. HIDE DEF d, e
    <3>3. <<".">> \in Seq(Marks) /\ Len(<<".">>) = 1
      BY FloatTokens, OneLong
    <3>4. Pointless(d \o e)
      BY <1>1, <3>1, PointlessJoined DEF e
    <3>. DEFINE r == d \o e
                p == <<".">>
    <3>5. (s \o e) = p \o r
      <4>1. d \in Seq(Marks) /\ e \in Seq(Marks) /\ p \in Seq(Marks)
        BY <1>1, <3>1, <3>3 DEF Pointless, e
      <4>. QED BY <4>1, MarkAssoc
    <3>6. LaidBehind(t, p, r) /\ Len(p) = 1 /\ Pointless(r)
      <4>1. r \in Seq(Marks)
        BY <3>4 DEF Pointless
      <4>2. LaidBehind(p \o r, p, r)
        BY <3>3, <4>1, Laid
      <4>. QED BY <3>3, <3>4, <3>5, <4>2
    <3>. HIDE DEF t, r, p
    <3>7. t \in Seq(Marks) /\ Len(t) = 1 + Len(r) /\ Len(r) \in Nat /\ \A i \in 1 .. Len(r) : t[1 + i] = r[i]
      BY <3>6, Zenon DEF LaidBehind
    <3>8. \A i \in 1 .. Len(t) : t[i] = "." => i = 1
      <4>. TAKE i \in 1 .. Len(t)
      <4>. SUFFICES ASSUME i # 1 PROVE t[i] # "."
        OBVIOUS
      <4>1. i - 1 \in 1 .. Len(r) /\ 1 + (i - 1) = i
        BY <3>7
      <4>. QED BY <3>6, <3>7, <4>1 DEF Pointless
    <3>. QED BY <3>2, <3>7, <3>8 DEF Behind
  <2>. QED BY <2>2, <2>3
<1>. QED BY <1>2, <1>3

------------------------------------------------------------------------------
(****************************************************************************)
(* Floats.                                                                  *)
(****************************************************************************)

FloatLetters == {"a", "A", "e", "E", "f", "F", "g", "G"}

\* The notation and the precision that are meant.
LEMMA FloatChosen ==
    ASSUME NEW spec, spec.type \in FloatLetters \union {""}, spec.precision \in Nat
    PROVE  /\ FloatNotation(spec) \in Notations /\ FloatPrecision(spec) \in Nat
<1>1. FloatNotation(spec) \in Notations
  <2>1. CASE spec.type \in {"a", "A"}
    <3>1. FloatNotation(spec) = "p"
      BY <2>1, Zenon DEF FloatNotation
    <3>. QED BY <3>1 DEF Notations
  <2>2. CASE spec.type \in {"e", "f", "g"}
    <3>1. spec.type \notin {"a", "A", "E", "F", "G"}
      BY <2>2
    <3>2. FloatNotation(spec) = spec.type
      BY <2>2, <3>1, Zenon DEF FloatNotation
    <3>. QED BY <2>2, <3>2 DEF Notations
  <2>3. CASE spec.type = "E"
    BY <2>3 DEF FloatNotation, Notations
  <2>4. CASE spec.type = "F"
    BY <2>4 DEF FloatNotation, Notations
  <2>5. CASE spec.type = "G"
    BY <2>5 DEF FloatNotation, Notations
  <2>6. CASE spec.type = ""
    BY <2>6 DEF FloatNotation, Notations
  <2>. QED BY <2>1, <2>2, <2>3, <2>4, <2>5, <2>6 DEF FloatLetters
<1>2. FloatPrecision(spec) \in Nat
  BY DEF FloatPrecision
<1>. QED BY <1>1, <1>2

\* A precision that is not given is 0.
LEMMA NoneLeft ==
    ASSUME NEW n \in Nat PROVE n <= 0 <=> n = 0
OBVIOUS

\* A precision of 0.
LEMMA NoneIsNat == \A n : n = 0 => n \in Nat
OBVIOUS

\* A sign is one of them or none.
LEMMA SignChosen ==
    ASSUME NEW spec, NEW neg
    PROVE  SignText(spec, neg) \in SignTexts
<1>1. CASE neg
  BY <1>1 DEF SignText, SignTexts
<1>2. CASE ~neg /\ spec.sign = "+"
  BY <1>2 DEF SignText, SignTexts
<1>3. CASE ~neg /\ spec.sign = " "
  BY <1>3 DEF SignText, SignTexts
<1>4. CASE ~neg /\ spec.sign \notin {"+", " "}
  BY <1>4 DEF SignText, SignTexts
<1>. QED BY <1>1, <1>2, <1>3, <1>4

\* What stands before the point: a sign and the digits.
FloatHead(spec, value) == SignText(spec, value.neg) \o WholeDigits(FloatShape(spec, value))
FloatRest(spec, value) == Fraction(FloatShape(spec, value))

\* The text of a float as it is meant, and in the locale and in capital letters where they are
\* asked for.
FloatText(spec, value) == FloatHead(spec, value) \o FloatRest(spec, value)
FloatBody(spec, value) ==
    Cased(FloatUpper(spec), IF spec.localize THEN Pointed(FloatText(spec, value)) ELSE FloatText(spec, value))

\* A float and a specification for it.
FloatAsked(spec, value) ==
    spec.type \in FloatLetters \union {""} /\ spec.precision \in Nat /\ Float(value)

\* A sign, the digits before the point and what follows, put together.
FloatParted(s, w, r, a, t) ==
    /\ Pointless(s) /\ Len(s) \in {0, 1} /\ Pointless(w) /\ Len(w) \in Nat \ {0} /\ Behind(r)
    /\ Pointless(a) /\ Len(a) = Len(s) + Len(w) /\ t \in Seq(Marks) /\ Len(t) = Len(a) + Len(r)
    /\ Len(r) \in Nat /\ t = a \o r /\ t = s \o (w \o r)

\* The two sides of such a text.
LEMMA FloatTextSides ==
    ASSUME NEW spec, NEW value, FloatAsked(spec, value), NEW s, s = SignText(spec, value.neg),
           NEW w, w = WholeDigits(FloatShape(spec, value)), NEW r, r = FloatRest(spec, value),
           NEW a, a = FloatHead(spec, value), NEW t, t = FloatText(spec, value)
    PROVE  FloatParted(s, w, r, a, t)
<1>1. Float(value) /\ FloatNotation(spec) \in Notations /\ FloatPrecision(spec) \in Nat
  BY FloatChosen DEF FloatAsked
<1>2. Pointless(w) /\ Len(w) \in Nat \ {0} /\ Behind(r)
  BY <1>1, FloatSides DEF FloatShape, FloatRest
<1>3. Pointless(s) /\ Len(s) \in {0, 1}
  BY SignChosen, SignTextMarks DEF Pointless
<1>4. a = s \o w /\ t = a \o r
  BY DEF FloatHead, FloatText
<1>5. Pointless(a) /\ Len(a) = Len(s) + Len(w)
  BY <1>2, <1>3, <1>4, PointlessJoined
<1>6. t \in Seq(Marks) /\ Len(t) = Len(a) + Len(r) /\ Len(r) \in Nat
  <2>1. PointIn(t, Len(a), r)
    BY <1>2, <1>4, <1>5, PointBehind, Zenon
  <2>. QED BY <2>1, Zenon DEF PointIn
<1>7. t = s \o (w \o r)
  <2>1. s \in Seq(Marks) /\ w \in Seq(Marks) /\ r \in Seq(Marks)
    BY <1>2, <1>3 DEF Pointless, Behind
  <2>. QED BY <1>4, <2>1, MarkAssoc
<1>. QED BY <1>2, <1>3, <1>4, <1>5, <1>6, <1>7, Zenon DEF FloatParted

\* A text LocalizeFloatingPoint only replaces the point of.
FewBefore(t) == (\E at : PointAt(t, at)) \/ (Pointless(t) /\ Len(t) <= 3)

\* It is one when at most three characters are before the point.
LEMMA FloatLocalizable ==
    ASSUME NEW spec, NEW value, FloatAsked(spec, value), NEW s, s = SignText(spec, value.neg),
           NEW w, w = WholeDigits(FloatShape(spec, value)), NEW r, r = FloatRest(spec, value),
           ~(Len(s) + Len(w) + (IF "." \in Range(r) THEN 0 ELSE Len(r)) > 3),
           NEW t, t = FloatText(spec, value)
    PROVE  FewBefore(t) /\ Len(w) <= 3
<1>. DEFINE a == FloatHead(spec, value)
            n == Len(a)
<1>1. /\ Len(s) \in {0, 1} /\ Len(w) \in Nat \ {0} /\ Behind(r)
      /\ Pointless(a) /\ n = Len(s) + Len(w) /\ Len(r) \in Nat /\ t = a \o r
  <2>1. FloatParted(s, w, r, a, t)
    BY FloatTextSides, Zenon
  <2>. QED BY <2>1, Zenon DEF FloatParted
<1>2. t \in Seq(Marks) /\ Len(t) = n + Len(r) /\ n \in Nat
      /\ \A i \in 1 .. Len(t) : t[i] = "." <=> (i = n + 1 /\ r[1] = ".")
  <2>1. PointIn(t, n, r)
    BY <1>1, PointBehind, Zenon
  <2>. QED BY <2>1, Zenon DEF PointIn
<1>. HIDE DEF a, n
<1>3. n >= 1
  BY <1>1, <1>2
<1>4. CASE "." \in Range(r)
  <2>1. PICK i \in DOMAIN r : r[i] = "."
    BY <1>4 DEF Range
  <2>2. i \in 1 .. Len(r)
    BY <1>1, <2>1 DEF Behind
  <2>3. r[1] = "." /\ Len(r) >= 1
    BY <1>1, <2>1, <2>2 DEF Behind
  <2>4. n <= 3
    BY <1>1, <1>2, <1>4
  <2>5. n + 1 \in 2 .. 4 /\ n + 1 <= Len(t)
    BY <1>1, <1>2, <1>3, <2>3, <2>4
  <2>6. PointAt(t, n + 1)
    BY <1>2, <2>3, <2>5, Zenon DEF PointAt
  <2>7. Len(w) <= 3
    <3>. DEFINE k == Len(w)
                l == Len(s)
    <3>1. k \in Nat /\ l \in {0, 1} /\ n = l + k
      BY <1>1
    <3>. HIDE DEF k, l
    <3>2. k <= 3
      BY <2>4, <3>1
    <3>. QED BY <3>2 DEF k
  <2>. QED BY <2>6, <2>7, Zenon DEF FewBefore
<1>5. CASE "." \notin Range(r)
  <2>1. n + Len(r) <= 3
    BY <1>1, <1>2, <1>5
  <2>2. \A i \in 1 .. Len(t) : t[i] # "."
    <3>1. \A i \in 1 .. Len(r) : r[i] # "."
      BY <1>1, <1>5 DEF Behind, Range
    <3>. TAKE i \in 1 .. Len(t)
    <3>. SUFFICES ASSUME t[i] = "." PROVE FALSE
      OBVIOUS
    <3>2. i = n + 1 /\ r[1] = "."
      BY <1>2
    <3>3. 1 \in 1 .. Len(r)
      BY <1>1, <1>2, <3>2
    <3>. QED BY <3>1, <3>2, <3>3
  <2>3. Len(t) <= 3 /\ Len(w) <= 3
    <3>. DEFINE k == Len(w)
                l == Len(s)
                m == Len(r)
    <3>1. k \in Nat /\ l \in {0, 1} /\ n = l + k /\ m \in Nat /\ n + m <= 3
      BY <1>1, <2>1
    <3>2. Len(t) <= 3
      BY <1>2, <2>1, Zenon
    <3>. HIDE DEF k, l, m
    <3>3. k <= 3
      BY <3>1
    <3>. QED BY <3>2, <3>3, Zenon DEF k
  <2>4. Pointless(t)
    BY <1>2, <2>2, Zenon DEF Pointless
  <2>. QED BY <2>3, <2>4, Zenon DEF FewBefore
<1>. QED BY <1>4, <1>5

\* The text of a float: sign, digits, and the point of the locale where it is asked for.
LEMMA FloatMeant ==
    ASSUME NEW spec, NEW value, FloatAsked(spec, value),
           spec.localize => Grouping = << 3 >> /\ Len(WholeDigits(FloatShape(spec, value))) <= 3
    PROVE  FloatMeaning(spec, value) = Padded(spec, FloatBody(spec, value), AlignOr(spec, ">"))
<1>. DEFINE s == SignText(spec, value.neg)
            w == WholeDigits(FloatShape(spec, value))
            r == FloatRest(spec, value)
            a == FloatHead(spec, value)
            t == FloatText(spec, value)
            digits == IF spec.localize THEN Grouped(w, Grouping[1]) \o Pointed(r) ELSE w \o r
            u == s \o digits
<1>1. /\ Pointless(s) /\ Pointless(w) /\ Len(w) \in Nat \ {0} /\ Behind(r)
      /\ Pointless(a) /\ t = a \o r /\ t = s \o (w \o r)
  <2>1. FloatParted(s, w, r, a, t)
    BY FloatTextSides, Zenon
  <2>. QED BY <2>1, Zenon DEF FloatParted
<1>2. FloatMeaning(spec, value) = Padded(spec, Cased(FloatUpper(spec), u), AlignOr(spec, ">"))
  BY Zenon DEF FloatMeaning, Cased, FloatRest
<1>3. a = s \o w
  BY Zenon DEF FloatHead
<1>. HIDE DEF s, w, r, a, t
<1>4. u = IF spec.localize THEN Pointed(t) ELSE t
  <2>1. CASE ~spec.localize
    BY <1>1, <2>1
  <2>2. CASE spec.localize
    <3>1. Grouped(w, Grouping[1]) = w
      <4>1. Grouped(w, 3) = w
        <5>1. w \in Seq(Marks) /\ Len(w) >= 1 /\ Len(w) <= 3
          BY <1>1, <2>2 DEF Pointless, w
        <5>. QED BY <5>1, FewDigits
      <4>. QED BY <2>2, <4>1, OneGroup
    <3>2. u = s \o (w \o Pointed(r))
      BY <2>2, <3>1
    <3>3. s \o (w \o Pointed(r)) = a \o Pointed(r)
      <4>1. s \in Seq(Marks) /\ w \in Seq(Marks) /\ Pointed(r) \in Seq(Marks)
        BY <1>1, PointedText DEF Pointless, Behind
      <4>. QED BY <1>3, <4>1, MarkAssoc
    <3>4. a \o Pointed(r) = Pointed(t)
      <4>1. Pointless(a) /\ Behind(r) /\ t = a \o r
        BY <1>1, Zenon
      <4>2. a \o Pointed(r) = Pointed(a \o r)
        BY <4>1, PointedBehind
      <4>. QED BY <4>1, <4>2
    <3>. QED BY <2>2, <3>2, <3>3, <3>4
  <2>. QED BY <2>1, <2>2
<1>. QED BY <1>2, <1>4, Zenon DEF FloatBody, t

\* The general notation of a float with at most six digits before its point is the shortest one.
LEMMA ShortestGeneral ==
    ASSUME NEW value, Float(value), ~(value.whole > 6)
    PROVE  FloatParts(value, "g", 0) = FloatParts(value, "s", 0)
<1>1. value.whole \in Nat /\ value.whole <= 6
  BY DEF Float
<1>2. ~(0 < 0) /\ 0 = 0
  OBVIOUS
<1>. QED BY <1>1, <1>2 DEF FloatParts

\* SetFloatingFormat chooses a notation and a precision.
FloatChoice(q, spec, value) ==
    /\ FloatAsked(spec, value) /\ q.type = TypeFor(spec) /\ ~q.alt
    /\ spec.type = "" /\ spec.precision = 0
       => ~(value.whole > 6) /\ ~(~q.localize /\ q.width = 0 /\ q.sign = "Empty")

\* They make the digits that are meant.
FloatChosenWell(f, spec, value) ==
    /\ f.notation \in Notations /\ f.precision \in Nat /\ (f.upper <=> FloatUpper(spec))
    /\ FloatParts(value, f.notation, f.precision) = FloatShape(spec, value)

LEMMA FloatFormatted ==
    ASSUME NEW q, NEW spec, NEW value, FloatChoice(q, spec, value)
    PROVE  FloatChosenWell(SetFloatingFormat(q, spec.precision), spec, value)
<1>. DEFINE p == spec.precision
            f == SetFloatingFormat(q, p)
<1>. SUFFICES FloatChosenWell(f, spec, value)
  OBVIOUS
<1>0. /\ p \in Nat /\ spec.type \in FloatLetters \union {""} /\ q.type = TypeFor(spec) /\ ~q.alt
      /\ Float(value)
      /\ spec.type = "" /\ p = 0
         => ~(value.whole > 6) /\ ~(~q.localize /\ q.width = 0 /\ q.sign = "Empty")
  BY DEF FloatChoice, FloatAsked
<1>1. q.type = IF spec.type = "" THEN NoChar ELSE spec.type
  BY <1>0 DEF TypeFor
<1>2. p <= 0 <=> p = 0
  BY <1>0, NoneLeft, Zenon
<1>. HIDE DEF p
<1>3. NoChar \notin FloatLetters /\ "" \notin FloatLetters
  BY DEF NoChar, FloatLetters
<1>4. IF spec.type = "" THEN NotationOf(q, p) = "g" ELSE NotationOf(q, p) = FloatNotation(spec)
  <2>1. CASE spec.type \in {"a", "A"}
    <3>1. q.type \in {"a", "A"} /\ spec.type # ""
      BY <1>1, <2>1
    <3>2. FloatNotation(spec) = "p"
      BY <2>1, Zenon DEF FloatNotation
    <3>3. q.type \notin {"e", "E", "f", "F", "g", "G"} /\ q.type # NoChar
      BY <3>1 DEF NoChar
    <3>4. NotationOf(q, p) = "p"
      BY <3>1, <3>3 DEF NotationOf
    <3>. QED BY <3>1, <3>2, <3>4
  <2>2. CASE spec.type = "e"
    <3>1. q.type = "e"
      BY <1>1, <2>2
    <3>. QED BY <2>2, <3>1 DEF NotationOf, FloatNotation, NoChar
  <2>3. CASE spec.type = "f"
    <3>1. q.type = "f"
      BY <1>1, <2>3
    <3>. QED BY <2>3, <3>1 DEF NotationOf, FloatNotation, NoChar
  <2>4. CASE spec.type = "g"
    <3>1. q.type = "g"
      BY <1>1, <2>4
    <3>. QED BY <2>4, <3>1 DEF NotationOf, FloatNotation, NoChar
  <2>5. CASE spec.type = "E"
    <3>1. q.type = "E"
      BY <1>1, <2>5
    <3>. QED BY <2>5, <3>1 DEF NotationOf, FloatNotation, NoChar
  <2>6. CASE spec.type = "F"
    <3>1. q.type = "F"
      BY <1>1, <2>6
    <3>. QED BY <2>6, <3>1 DEF NotationOf, FloatNotation, NoChar
  <2>7. CASE spec.type = "G"
    <3>1. q.type = "G"
      BY <1>1, <2>7
    <3>. QED BY <2>7, <3>1 DEF NotationOf, FloatNotation, NoChar
  <2>8. CASE spec.type = ""
    <3>1. q.type = NoChar
      BY <1>1, <2>8
    <3>2. NoChar \notin {"a", "A", "e", "E", "f", "F", "g", "G"}
      BY <1>3 DEF FloatLetters
    <3>3. NotationOf(q, p) = "g"
      <4>1. q.type = NoChar /\ ~(q.alt /\ p = 0)
            /\ ~(~q.localize /\ q.width = 0 /\ p = 0 /\ q.sign = "Empty")
        BY <1>0, <2>8, <3>1
      <4>2. q.type \notin {"a", "A"} /\ q.type \notin {"e", "E"} /\ q.type \notin {"f", "F"}
            /\ q.type \notin {"g", "G"}
        BY <3>1, <3>2
      <4>. QED BY <1>0, <4>1, <4>2, Zenon DEF NotationOf
    <3>. QED BY <2>8, <3>3
  <2>. QED BY <1>0, <2>1, <2>2, <2>3, <2>4, <2>5, <2>6, <2>7, <2>8 DEF FloatLetters
<1>5. f.notation = NotationOf(q, p) /\ (f.upper <=> FloatUpper(spec))
      /\ f.precision = IF p <= 0 /\ q.type \in {"e", "E", "f", "F", "g", "G"} THEN 6 ELSE p
  BY <1>1 DEF SetFloatingFormat, FloatUpper, NoChar
<1>. HIDE DEF f
<1>6. CASE spec.type # ""
  <2>1. (p = 0 /\ FloatNotation(spec) \in {"e", "f", "g"}) <=> (p <= 0
        /\ q.type \in {"e", "E", "f", "F", "g", "G"})
    <3>1. CASE spec.type \in {"a", "A"}
      <4>1. FloatNotation(spec) = "p"
        BY <3>1, Zenon DEF FloatNotation
      <4>. QED BY <1>1, <3>1, <4>1
    <3>2. CASE spec.type \in {"e", "f", "g"}
      <4>1. spec.type \notin {"a", "A"} /\ spec.type # "E" /\ spec.type # "F" /\ spec.type # "G"
        BY <3>2
      <4>2. FloatNotation(spec) = spec.type
        BY <3>2, <4>1, Zenon DEF FloatNotation
      <4>. QED BY <1>1, <1>2, <3>2, <4>2
    <3>3. CASE spec.type \in {"E", "F", "G"}
      <4>1. FloatNotation(spec) \in {"e", "f", "g"}
        BY <3>3 DEF FloatNotation
      <4>. QED BY <1>1, <1>2, <3>3, <4>1
    <3>. QED BY <1>0, <1>6, <3>1, <3>2, <3>3 DEF FloatLetters
  <2>2. f.precision = FloatPrecision(spec)
    BY <1>5, <2>1, Zenon DEF FloatPrecision, p
  <2>3. f.notation = FloatNotation(spec)
    BY <1>4, <1>5, <1>6
  <2>4. FloatNotation(spec) \in Notations /\ FloatPrecision(spec) \in Nat
    BY <1>0, FloatChosen DEF p
  <2>5. FloatParts(value, f.notation, f.precision) = FloatShape(spec, value)
    BY <2>2, <2>3 DEF FloatShape
  <2>6. f.notation \in Notations /\ f.precision \in Nat
    BY <2>2, <2>3, <2>4
  <2>. QED BY <1>5, <2>5, <2>6, Zenon DEF FloatChosenWell
<1>7. CASE spec.type = ""
  <2>1. f.notation = "g" /\ f.precision = p /\ "g" \in Notations
    BY <1>1, <1>4, <1>5, <1>7 DEF NoChar, Notations
  <2>2. FloatNotation(spec) = IF p = 0 THEN "s" ELSE "g"
    BY <1>7 DEF FloatNotation, p
  <2>3. FloatPrecision(spec) = p
    BY <2>2 DEF FloatPrecision, p
  <2>4. FloatParts(value, "g", p) = FloatShape(spec, value)
    <3>1. CASE p = 0
      BY <1>0, <1>7, <2>2, <2>3, <3>1, ShortestGeneral, Zenon DEF FloatShape
    <3>2. CASE p # 0
      BY <2>2, <2>3, <3>2, Zenon DEF FloatShape
    <3>. QED BY <3>1, <3>2
  <2>5. f.notation \in Notations /\ f.precision \in Nat
    BY <1>0, <2>1 DEF p
  <2>6. FloatParts(value, f.notation, f.precision) = FloatShape(spec, value)
    BY <2>1, <2>4
  <2>. QED BY <1>5, <2>5, <2>6, Zenon DEF FloatChosenWell
<1>. QED BY <1>6, <1>7

\* The sign of a float (WriteSign, and to_chars for a negative one).
FloatRaw(q, value, notation, precision) ==
    WriteSign(q, value.neg) \o FloatToChars(value, notation, precision)

FloatSignable(q, spec, value) ==
    spec.sign \in {"", "+", "-", " "} /\ q.sign = SignFor(spec) /\ (value.neg => spec.sign # "+")

\* The sign is written once (WriteSign).
LEMMA FloatSigned ==
    ASSUME NEW spec, NEW q, NEW value, FloatSignable(q, spec, value), FloatAsked(spec, value),
           NEW notation, NEW precision,
           FloatParts(value, notation, precision) = FloatShape(spec, value)
    PROVE  FloatRaw(q, value, notation, precision) = FloatText(spec, value)
<1>. DEFINE d == WholeDigits(FloatShape(spec, value)) \o FloatRest(spec, value)
            neg == value.neg
<1>0. spec.sign \in {"", "+", "-", " "} /\ q.sign = SignFor(spec) /\ (neg => spec.sign # "+")
  BY Zenon DEF FloatSignable
<1>1. Signs["+"] = "Plus" /\ Signs["-"] = "Minus" /\ Signs[" "] = "Space"
  BY DEF Signs
<1>2. FloatText(spec, value) = SignText(spec, neg) \o d /\ d \in Seq(Marks) /\ SignText(spec, neg) \in Seq(Marks)
  <2>. DEFINE s == SignText(spec, neg)
              w == WholeDigits(FloatShape(spec, value))
              r == FloatRest(spec, value)
              a == FloatHead(spec, value)
              t == FloatText(spec, value)
  <2>1. FloatParted(s, w, r, a, t)
    BY FloatTextSides, Zenon
  <2>. HIDE DEF s, w, r
  <2>2. s \in Seq(Marks) /\ w \o r \in Seq(Marks)
    BY <2>1, Joined DEF FloatParted, Pointless, Behind
  <2>. QED BY <2>1, <2>2, Zenon DEF FloatParted, s, w, r
<1>3. FloatToChars(value, notation, precision) = (IF neg THEN <<"-">> ELSE <<>>) \o d
  BY Zenon DEF FloatToChars, FloatRest
<1>. HIDE DEF d
<1>5. CASE neg
  <2>1. q.sign # "Plus"
    BY <1>0, <1>1, <1>5 DEF SignFor
  <2>2. WriteSign(q, neg) = <<>>
    BY <1>5, <2>1, Zenon DEF WriteSign
  <2>3. SignText(spec, neg) = <<"-">>
    BY <1>5, SignMarks
  <2>4. FloatToChars(value, notation, precision) = SignText(spec, neg) \o d
    BY <1>3, <1>5, <2>3
  <2>5. SignText(spec, neg) \o d \in Seq(Marks)
    BY <1>2, Joined
  <2>6. <<>> \o (SignText(spec, neg) \o d) = SignText(spec, neg) \o d
    BY <2>5, NothingBefore
  <2>. QED BY <1>2, <2>2, <2>4, <2>6, Zenon DEF FloatRaw
<1>6. CASE ~neg
  <2>. SUFFICES WriteSign(q, neg) = SignText(spec, neg)
    <3>1. <<>> \o d = d
      BY <1>2, NothingBefore
    <3>2. FloatToChars(value, notation, precision) = d
      BY <1>3, <1>6, <3>1
    <3>. QED BY <1>2, <3>2, Zenon DEF FloatRaw
  <2>. HIDE DEF neg
  <2>1. CASE spec.sign = "+"
    <3>1. q.sign = "Plus"
      BY <1>0, <1>1, <2>1 DEF SignFor
    <3>. QED BY <1>6, <2>1, <3>1 DEF WriteSign, SignText
  <2>2. CASE spec.sign = " "
    <3>1. q.sign = "Space" /\ "Space" # "Plus"
      BY <1>0, <1>1, <2>2 DEF SignFor
    <3>2. WriteSign(q, neg) = <<" ">>
      BY <1>6, <3>1, Zenon DEF WriteSign
    <3>. QED BY <1>6, <2>2, <3>2 DEF SignText
  <2>3. CASE spec.sign \in {"", "-"}
    <3>1. q.sign # "Plus" /\ q.sign # "Space"
      BY <1>0, <1>1, <2>3 DEF SignFor
    <3>2. WriteSign(q, neg) = <<>>
      BY <3>1, Zenon DEF WriteSign
    <3>3. SignText(spec, neg) = <<>>
      BY <1>6, <2>3 DEF SignText
    <3>. QED BY <1>6, <3>2, <3>3
  <2>. QED BY <1>0, <2>1, <2>2, <2>3
<1>. QED BY <1>5, <1>6

\* A float that is written without a specification, or with one that asks for nothing.
LEMMA BareFloat ==
    ASSUME NEW spec, Bare(spec), spec.precision = 0, NEW arg, Float(arg)
    PROVE  FloatMeaning(spec, arg) = FloatToChars(arg, "s", 0)
           /\ FloatToChars(arg, "s", 0) \in Seq(Marks)
<1>. DEFINE s == SignText(spec, arg.neg)
            w == WholeDigits(FloatShape(spec, arg))
            r == FloatRest(spec, arg)
            t == FloatText(spec, arg)
<1>1. spec.type = "" /\ ~spec.localize /\ spec.width = 0 /\ spec.sign = ""
  BY DEF Bare
<1>2. FloatNotation(spec) = "s"
  BY <1>1 DEF FloatNotation
<1>3. FloatPrecision(spec) = 0
  BY <1>2 DEF FloatPrecision
<1>4. ~FloatUpper(spec)
  BY <1>1 DEF FloatUpper
<1>5. FloatAsked(spec, arg)
  BY <1>1, NoneIsNat, Zenon DEF FloatAsked
<1>6. FloatMeaning(spec, arg) = Padded(spec, t, AlignOr(spec, ">"))
  <2>1. FloatMeaning(spec, arg) = Padded(spec, FloatBody(spec, arg), AlignOr(spec, ">"))
    BY <1>1, <1>5, FloatMeant
  <2>. QED BY <1>1, <1>4, <2>1, Zenon DEF Cased, FloatBody
<1>7. t \in Seq(Marks) /\ t = s \o (w \o r)
  BY <1>5, FloatTextSides DEF FloatParted
<1>8. s = IF arg.neg THEN <<"-">> ELSE <<>>
  BY <1>1 DEF SignText
<1>9. FloatToChars(arg, "s", 0) = s \o (w \o r)
  BY <1>2, <1>3, <1>8, Zenon DEF FloatToChars, FloatShape, FloatRest
<1>. HIDE DEF t, s, w, r
<1>10. Padded(spec, t, AlignOr(spec, ">")) = t
  BY <1>1, <1>7, NotPadded
<1>. QED BY <1>6, <1>7, <1>9, <1>10

\* A float without a specification (WriteSimpleFloat, WriteSimpleDouble).
LEMMA SimpleFloat ==
    ASSUME NEW b \in Buffers, NEW arg, arg.type = "float", Float(arg)
    PROVE  SimplyMeant(b, arg, FloatToChars(arg, "s", 0))
<1>. DEFINE t == FloatToChars(arg, "s", 0)
            w == WriteSimpleValue(b, arg)
<1>1. arg.type \notin Texts /\ arg.type # "int"
  BY DEF Texts
<1>2. w = Written(t, [b EXCEPT !.text = t])
  BY <1>1, Zenon DEF WriteSimpleValue
<1>3. t \in Seq(Marks)
  <2>1. Bare(NoItemSpec) /\ NoItemSpec.precision = 0
    BY DEF Bare, NoItemSpec
  <2>. QED BY <2>1, BareFloat
<1>. HIDE DEF t, w
<1>4. Meant(w, t) /\ w.buffer.size = b.size
  BY <1>2, <1>3, SimpleDigits
<1>. QED BY <1>4, Zenon DEF SimplyMeant, t, w

\* The float in the buffer, after the point was replaced.
FloatBuffered(q, spec, arg) ==
    IF q.localize THEN LocalizeFloatingPoint(FormatFloatType(q, arg, spec.precision))
         ELSE FormatFloatType(q, arg, spec.precision)

\* The text fits, and is one LocalizeFloatingPoint can do with.
FloatFits(spec, value) ==
    ~(Len(FloatText(spec, value)) > BufferSize) /\ (spec.localize => FewBefore(FloatText(spec, value)))

\* The buffer holds the float that is meant, with the point of the locale
\* where it is asked for.
LEMMA FloatInBuffer ==
    ASSUME Grouping = << 3 >>, NEW q, NEW spec, NEW arg, FloatChoice(q, spec, arg),
           q.localize = spec.localize, FloatFits(spec, arg),
           FloatSignable(q, spec, arg), NEW c, c = FloatBuffered(q, spec, arg)
    PROVE  Shows(c, FloatBody(spec, arg)) /\ c \in Buffers
<1>. DEFINE up == FloatUpper(spec)
            t == FloatText(spec, arg)
            r == Cased(up, t)
<1>1. FloatAsked(spec, arg)
  BY DEF FloatChoice
<1>2. t \in Seq(Marks)
  BY <1>1, FloatTextSides DEF FloatParted
<1>3. FormatFloatType(q, arg, spec.precision) = Whole(r)
  <2>. DEFINE f == SetFloatingFormat(q, spec.precision)
              x == FloatRaw(q, arg, f.notation, f.precision)
  <2>1. /\ f.notation \in Notations /\ (f.upper <=> up)
        /\ FloatParts(arg, f.notation, f.precision) = FloatShape(spec, arg)
    BY FloatFormatted DEF FloatChosenWell
  <2>2. x = t
    <3>. HIDE DEF f
    <3>. QED BY <1>1, <2>1, FloatSigned
  <2>3. FormatFloatType(q, arg, spec.precision)
           = Whole(IF f.notation = "none" \/ Len(x) > BufferSize THEN Filled(Past, BufferSize)
                   ELSE IF f.upper THEN BufferToUpper(x) ELSE x)
    BY Zenon DEF FormatFloatType, FloatRaw
  <2>4. f.notation # "none"
    BY <2>1 DEF Notations
  <2>5. ~(Len(t) > BufferSize)
    BY DEF FloatFits
  <2>. HIDE DEF f, up, t, x
  <2>. QED BY <2>1, <2>2, <2>3, <2>4, <2>5, Zenon DEF Cased
<1>4. r \in Seq(Marks)
  BY <1>2, CasedText
<1>5. CASE ~spec.localize
  <2>1. FloatBody(spec, arg) = r
    BY <1>5, Zenon DEF FloatBody
  <2>2. c = Whole(r)
    BY <1>3, <1>5, Zenon DEF FloatBuffered
  <2>. HIDE DEF r
  <2>. QED BY <1>4, <2>1, <2>2, WholeShows
<1>6. CASE spec.localize
  <2>. DEFINE w == Whole(r)
  <2>1. FloatBody(spec, arg) = Pointed(r)
    <3>1. FloatBody(spec, arg) = Cased(up, Pointed(t))
      BY <1>6, Zenon DEF FloatBody
    <3>. QED BY <1>2, <3>1, CasedPointed
  <2>2. c = LocalizeFloatingPoint(w)
    BY <1>3, <1>6, Zenon DEF FloatBuffered
  <2>3. FewBefore(r)
    <3>1. FewBefore(t)
      BY <1>6 DEF FloatFits
    <3>. HIDE DEF t, up
    <3>2. Len(r) = Len(t)
      BY <1>2, CasedText
    <3>. QED BY <3>1, <3>2, CasedPoint, Zenon DEF FewBefore
  <2>. HIDE DEF r
  <2>4. w = Whole(r)
    OBVIOUS
  <2>. HIDE DEF w
  <2>5. Shows(LocalizeFloatingPoint(w), Pointed(r)) /\ LocalizeFloatingPoint(w) \in Buffers
    BY <2>3, <2>4, PointLocalized, PointlessLocalized DEF FewBefore
  <2>. QED BY <2>1, <2>2, <2>5, Zenon
<1>. QED BY <1>5, <1>6

\* The argument is at least 1 in size.
LEMMA FloatArgument ==
    ASSUME NEW arg \in Arguments, arg.type = "float"
    PROVE  Float(arg)
BY DEF Arguments, Texts, Float

\* A sign takes one character.
LEMMA FloatSignLength ==
    ASSUME NEW spec, NEW arg, arg.type = "float"
    PROVE  Signed(spec, ValueOf(arg)) = Len(SignText(spec, arg.neg))
<1>1. CASE arg.neg
  <2>1. ValueOf(arg) = -1
    BY <1>1 DEF ValueOf
  <2>2. Signed(spec, ValueOf(arg)) = 1
    BY <2>1 DEF Signed
  <2>. QED BY <1>1, <2>2 DEF SignText
<1>2. CASE ~arg.neg
  <2>1. ValueOf(arg) = 1
    BY <1>2 DEF ValueOf
  <2>2. Signed(spec, ValueOf(arg)) = IF spec.sign \in {"+", " "} THEN 1 ELSE 0
    BY <2>1 DEF Signed
  <2>. QED BY <1>2, <2>2 DEF SignText
<1>. QED BY <1>1, <1>2

\* A float that does not diverge fits.
LEMMA FloatAllowed ==
    ASSUME NEW spec, NEW arg, ~FieldDiverges(spec, arg), arg.type = "float", FloatAsked(spec, arg)
    PROVE  /\ FloatFits(spec, arg)
           /\ spec.localize => Len(WholeDigits(FloatShape(spec, arg))) <= 3
<1>. DEFINE s == SignText(spec, arg.neg)
            w == WholeDigits(FloatShape(spec, arg))
            r == FloatRest(spec, arg)
            t == FloatText(spec, arg)
            n == Signed(spec, ValueOf(arg))
<1>1. n = Len(s)
  BY FloatSignLength
<1>2. r = Fraction(FloatShape(spec, arg))
  BY DEF FloatRest
<1>. HIDE DEF n, s, w, r, t
<1>3. ~(n + Len(w) + Len(r) > BufferSize)
      /\ (spec.localize => ~(n + Len(w) + (IF "." \in Range(r) THEN 0 ELSE Len(r)) > 3))
  BY <1>2, FloatPlain DEF n, w
<1>4. Len(s) \in {0, 1} /\ Len(w) \in Nat /\ Len(r) \in Nat /\ Len(t) = (Len(s) + Len(w)) + Len(r)
  <2>1. FloatParted(s, w, r, FloatHead(spec, arg), t)
    BY FloatTextSides, Zenon DEF s, w, r, t
  <2>2. /\ Len(s) \in {0, 1} /\ Len(w) \in Nat \ {0} /\ Len(r) \in Nat
        /\ Len(t) = Len(FloatHead(spec, arg)) + Len(r) /\ Len(FloatHead(spec, arg)) = Len(s) + Len(w)
    BY <2>1, Zenon DEF FloatParted
  <2>. QED BY <2>2
<1>5. ~(Len(t) > BufferSize)
  BY <1>1, <1>3, <1>4
<1>6. spec.localize => FewBefore(t) /\ Len(w) <= 3
  <2>. SUFFICES ASSUME spec.localize PROVE FewBefore(t) /\ Len(w) <= 3
    OBVIOUS
  <2>1. ~(Len(s) + Len(w) + (IF "." \in Range(r) THEN 0 ELSE Len(r)) > 3)
    BY <1>1, <1>3
  <2>. QED BY <2>1, FloatLocalizable DEF s, w, r, t
<1>. QED BY <1>5, <1>6 DEF FloatFits, t, w

\* A float (FormatFloatType, LocalizeFloatingPoint).
LEMMA FloatField ==
    ASSUME Grouping = << 3 >>, NEW spec, NEW arg, NEW q, NEW k, NEW b, FieldGiven(spec, arg, q, k, b),
           arg.type = "float"
    PROVE  Meant(Format(q, b, arg, Nested), FieldMeaning(spec, arg))
<1>1. /\ spec \in ItemSpecs /\ arg \in Arguments /\ ValidSpec(spec, arg.type)
         /\ ~FieldDiverges(spec, arg)
      /\ FieldSpec(q, k, spec, arg.type) /\ b \in Buffers
  BY Zenon DEF FieldGiven
<1>2. arg.type \notin Texts /\ arg.type \in Numbers /\ arg.type # "int"
  BY DEF Texts, Numbers
<1>3. /\ ~spec.alt
      /\ spec.type = "" /\ spec.precision = 0 /\ (spec.width # 0 \/ spec.sign # "" \/ spec.localize)
         => ~(arg.whole > 6)
      /\ ~(ValueOf(arg) < 0 /\ spec.sign = "+")
  BY <1>1, FloatPlain, Zenon
<1>4. arg.neg => spec.sign # "+"
  <2>1. arg.neg => ValueOf(arg) = -1
    BY DEF ValueOf
  <2>2. ValueOf(arg) = -1 => ValueOf(arg) < 0
    OBVIOUS
  <2>. QED BY <1>3, <2>1, <2>2
<1>5. Direct(q, spec) /\ spec.width \in Nat
  BY GivenDirect
<1>6. /\ q.sign = SignFor(spec) /\ q.alt = spec.alt /\ q.localize = spec.localize
         /\ q.type = TypeFor(spec) /\ q.width = spec.width
  BY <1>1, FieldSpecParts
<1>7. FloatAsked(spec, arg) /\ spec.sign \in {"", "+", "-", " "}
  <2>1. spec.type \in {""} \union
              CASE arg.type = "int" -> IntegerTypes \union {"c"}
                [] arg.type = "float" -> {"a", "A", "e", "E", "f", "F", "g", "G"}
                [] arg.type = "bool" -> IntegerTypes \union {"s"}
                [] arg.type = "char" -> IntegerTypes \union {"c"}
                [] arg.type \in Texts -> {"s"}
                [] arg.type = "pointer" -> {"p"}
                [] OTHER -> {}
    BY <1>1, Zenon DEF ValidSpec
  <2>2. spec.type \in FloatLetters \union {""}
    BY <2>1 DEF FloatLetters, Texts
  <2>3. spec.precision \in Nat /\ spec.sign \in {"", "+", "-", " "}
    BY <1>1 DEF ItemSpecs
  <2>. QED BY <1>1, <2>2, <2>3, FloatArgument DEF FloatAsked
<1>8. FieldMeaning(spec, arg) = FloatMeaning(spec, arg)
  BY Zenon, <1>2 DEF FieldMeaning
<1>9. CASE spec.width = 0 /\ IsSimpleSubstitution(q, arg.type, spec.precision)
  <2>1. Format(q, b, arg, Nested) = WriteSimpleValue(b, arg)
    BY <1>5, <1>9, SimplyWritten
  <2>2. ~q.alt /\ q.type = NoChar /\ q.sign = "Empty" /\ ~q.localize /\ spec.precision = 0
    BY <1>2, <1>9 DEF IsSimpleSubstitution
  <2>3. Bare(spec)
    BY <1>1, <1>6, <1>9, <2>2, SignGiven, TypeGiven DEF Bare
  <2>4. Float(arg)
    BY <1>1, FloatArgument
  <2>5. FloatMeaning(spec, arg) = FloatToChars(arg, "s", 0)
    BY <2>2, <2>3, <2>4, BareFloat
  <2>6. SimplyMeant(b, arg, FloatToChars(arg, "s", 0))
    BY <1>1, <2>4, SimpleFloat
  <2>. QED BY <1>8, <2>1, <2>5, <2>6, Zenon DEF SimplyMeant
<1>10. CASE ~(spec.width = 0 /\ IsSimpleSubstitution(q, arg.type, spec.precision))
  <2>1. spec.type = "" /\ spec.precision = 0
        => ~(arg.whole > 6) /\ ~(~q.localize /\ q.width = 0 /\ q.sign = "Empty")
    <3>. SUFFICES ASSUME spec.type = "", spec.precision = 0
                  PROVE  ~(arg.whole > 6) /\ ~(~q.localize /\ q.width = 0 /\ q.sign = "Empty")
      OBVIOUS
    <3>1. ~(~q.localize /\ q.width = 0 /\ q.sign = "Empty")
      <4>. SUFFICES ASSUME ~q.localize, q.width = 0, q.sign = "Empty" PROVE FALSE
        OBVIOUS
      <4>1. q.type = NoChar /\ ~q.alt /\ spec.width = 0
        BY <1>3, <1>6 DEF TypeFor
      <4>2. IsSimpleSubstitution(q, arg.type, spec.precision)
        BY <1>2, <4>1, Zenon DEF IsSimpleSubstitution
      <4>. QED BY <1>10, <4>1, <4>2
    <3>2. spec.width # 0 \/ spec.sign # "" \/ spec.localize
      BY <1>6, <3>1 DEF SignFor
    <3>. QED BY <1>3, <3>1, <3>2
  <2>2. FloatChoice(q, spec, arg)
    BY <1>3, <1>6, <1>7, <2>1 DEF FloatChoice
  <2>. DEFINE c == FloatBuffered(q, spec, arg)
  <2>0. FloatFits(spec, arg) /\ (spec.localize => Len(WholeDigits(FloatShape(spec, arg))) <= 3)
    BY <1>1, <1>7, FloatAllowed
  <2>3. Shows(c, FloatBody(spec, arg)) /\ c \in Buffers
    <3>1. c = FloatBuffered(q, spec, arg)
      OBVIOUS
    <3>. HIDE DEF c
    <3>2. FloatSignable(q, spec, arg)
      BY <1>4, <1>6, <1>7, Zenon DEF FloatSignable
    <3>. QED BY <1>6, <2>0, <2>2, <3>1, <3>2, FloatInBuffer
  <2>4. c = IF q.localize THEN LocalizeArgument(q, b, arg, spec.precision)
          ELSE FormatArgument(q, b, arg, spec.precision)
    <3>1. FormatArgument(q, b, arg, spec.precision) = FormatFloatType(q, arg, spec.precision)
      BY <1>2, Zenon DEF FormatArgument
    <3>2. LocalizeArgument(q, b, arg, spec.precision)
            = LocalizeFloatingPoint(FormatArgument(q, b, arg, spec.precision))
      BY <1>2, Zenon DEF LocalizeArgument
    <3>. QED BY <3>1, <3>2, Zenon DEF FloatBuffered
  <2>5. spec.width # 0 => AlignedAs(q, spec, AlignOr(spec, ">"))
    <3>1. Default(arg.type) = ">"
      BY <1>2 DEF Default
    <3>. QED BY <3>1, GivenAligned
  <2>6. FloatMeaning(spec, arg) = Padded(spec, FloatBody(spec, arg), AlignOr(spec, ">"))
    BY <1>7, <2>0, FloatMeant
  <2>. DEFINE a == AlignOr(spec, ">")
              text == FloatBody(spec, arg)
  <2>7. Shows(c, text) /\ (spec.width # 0 => AlignedAs(q, spec, a))
        /\ FloatMeaning(spec, arg) = Padded(spec, text, a)
    BY <2>3, <2>5, <2>6
  <2>. HIDE DEF c, a, text
  <2>8. Meant(Format(q, b, arg, Nested), Padded(spec, text, a))
    BY <1>2, <1>5, <1>10, <2>3, <2>4, <2>7, BufferWritten
  <2>. QED BY <1>8, <2>7, <2>8, Zenon
<1>. QED BY <1>9, <1>10

------------------------------------------------------------------------------
(****************************************************************************)
(* The texts of a time.                                                     *)
(****************************************************************************)

\* The digits of the numbers of a time.
LEMMA DigitChar ==
    /\ \A n \in 0 .. 9 : CharOf(n) \in Marks
    /\ CharOf(0) = "0"
<1>1. \A n \in 0 .. 9 : Decimals[n + 1] \in Digits
  BY DecimalDigits
<1>2. \A n \in 0 .. 9 : CharOf(n) \in Digits
  BY <1>1, Zenon DEF CharOf, Decimals
<1>3. CharOf(0) = "0"
  BY DEF CharOf
<1>. QED BY <1>2, <1>3, MarksInclude

\* Two characters.
LEMMA PairOfMarks ==
    ASSUME NEW x \in Marks, NEW y \in Marks
    PROVE  <<x, y>> \in Seq(Marks) /\ Len(<<x, y>>) = 2
OBVIOUS

\* Three characters.
LEMMA ThreeMarks ==
    ASSUME NEW x \in Marks, NEW y \in Marks, NEW z \in Marks
    PROVE  <<x>> \o <<y, z>> = <<x, y, z>>
<1>. DEFINE a == <<x>>
            b == <<y, z>>
            s == a \o b
            t == <<x, y, z>>
<1>1. a \in Seq(Marks) /\ Len(a) = 1 /\ a[1] = x /\ b \in Seq(Marks) /\ Len(b) = 2 /\ b[1] = y
      /\ b[2] = z
  OBVIOUS
<1>2. t \in Seq(Marks) /\ Len(t) = 3 /\ t[1] = x /\ t[2] = y /\ t[3] = z
  OBVIOUS
<1>3. s = a \o b
  OBVIOUS
<1>. HIDE DEF a, b, t, s
<1>4. s \in Seq(Marks) /\ Len(s) = 3 /\ s[1] = x /\ s[2] = y /\ s[3] = z
  <2>1. LaidBehind(s, a, b)
    BY <1>1, <1>3, Laid
  <2>2. s \in Seq(Marks) /\ Len(s) = 3 /\ (\A i \in 1 .. 1 : s[i] = a[i])
        /\ \A i \in 1 .. 2 : s[1 + i] = b[i]
    BY <1>1, <2>1 DEF LaidBehind
  <2>. QED BY <1>1, <2>2
<1>5. \A i \in 1 .. 3 : i = 1 \/ i = 2 \/ i = 3
  OBVIOUS
<1>6. s = t
  BY <1>2, <1>4, <1>5, SameMarks
<1>. QED BY <1>6 DEF s, a, b, t

\* Four characters.
LEMMA FourMarks ==
    ASSUME NEW w \in Marks, NEW x \in Marks, NEW y \in Marks, NEW z \in Marks
    PROVE  <<w, x>> \o <<y, z>> = <<w, x, y, z>>
<1>. DEFINE a == <<w, x>>
            b == <<y, z>>
            s == a \o b
            t == <<w, x, y, z>>
<1>1. a \in Seq(Marks) /\ Len(a) = 2 /\ a[1] = w /\ a[2] = x /\ b \in Seq(Marks) /\ Len(b) = 2
      /\ b[1] = y /\ b[2] = z
  OBVIOUS
<1>2. t \in Seq(Marks) /\ Len(t) = 4 /\ t[1] = w /\ t[2] = x /\ t[3] = y /\ t[4] = z
  OBVIOUS
<1>3. s = a \o b
  OBVIOUS
<1>. HIDE DEF a, b, t, s
<1>4. s \in Seq(Marks) /\ Len(s) = 4 /\ s[1] = w /\ s[2] = x /\ s[3] = y /\ s[4] = z
  <2>1. LaidBehind(s, a, b)
    BY <1>1, <1>3, Laid
  <2>2. s \in Seq(Marks) /\ Len(s) = 4 /\ (\A i \in 1 .. 2 : s[i] = a[i])
        /\ \A i \in 1 .. 2 : s[2 + i] = b[i]
    BY <1>1, <2>1 DEF LaidBehind
  <2>. QED BY <1>1, <2>2
<1>5. \A i \in 1 .. 4 : i = 1 \/ i = 2 \/ i = 3 \/ i = 4
  OBVIOUS
<1>6. s = t
  BY <1>2, <1>4, <1>5, SameMarks
<1>. QED BY <1>6 DEF s, a, b, t

\* Tens and ones of a number of two digits.
LEMMA Tens ==
    ASSUME NEW n \in 0 .. 99
    PROVE  /\ n \div 10 \in 0 .. 9 /\ n % 10 \in 0 .. 9 /\ (n > 9 \/ n \div 10 = 0) /\ n < 100
           /\ n < 10 => n % 10 = n
OBVIOUS

\* Two digits are written through the table as they are meant
\* (TwoDigitToBuff).
LEMMA TwoSame ==
    ASSUME NEW n \in 0 .. 99
    PROVE  TwoDigitToBuff(n) = Two(n) /\ Two(n) \in Seq(Marks)
<1>1. n \div 10 \in 0 .. 9 /\ n % 10 \in 0 .. 9 /\ (n > 9 \/ n \div 10 = 0)
  BY Tens
<1>2. CharOf(n \div 10) \in Marks /\ CharOf(n % 10) \in Marks
  BY <1>1, DigitChar
<1>3. (IF n > 9 THEN CharOf(n \div 10) ELSE "0") = CharOf(n \div 10)
  BY <1>1, DigitChar
<1>. QED BY <1>2, <1>3, PairOfMarks, Zenon DEF TwoDigitToBuff, Two

\* A day with a space in front of one digit (FormatSpacePaddedDay).
LEMMA SpacedSame ==
    ASSUME NEW tm, tm.mday \in 1 .. 31
    PROVE  FormatSpacePaddedDay(tm.mday) = SpacedDay(tm) /\ SpacedDay(tm) \in Seq(Marks)
<1>. DEFINE n == tm.mday
<1>1. n \in 0 .. 99
  OBVIOUS
<1>. SUFFICES FormatSpacePaddedDay(n) = (IF n < 10 THEN <<" ", CharOf(n)>> ELSE Two(n))
              /\ (IF n < 10 THEN <<" ", CharOf(n)>> ELSE Two(n)) \in Seq(Marks)
  BY Zenon DEF SpacedDay
<1>. HIDE DEF n
<1>2. n > 9 <=> ~(n < 10)
  BY <1>1
<1>3. n \div 10 \in 0 .. 9 /\ n % 10 \in 0 .. 9 /\ (n < 10 => n % 10 = n)
  BY <1>1, Tens
<1>4. " " \in Marks
  BY FixedMarks
<1>5. CASE n < 10
  <2>1. CharOf(n % 10) = CharOf(n) /\ CharOf(n) \in Marks
    BY <1>3, <1>5, DigitChar
  <2>2. FormatSpacePaddedDay(n) = <<" ", CharOf(n)>>
    BY <1>2, <1>5, <2>1, Zenon DEF FormatSpacePaddedDay
  <2>. QED BY <1>4, <1>5, <2>1, <2>2, PairOfMarks, Zenon
<1>6. CASE ~(n < 10)
  <2>1. FormatSpacePaddedDay(n) = Two(n)
    BY <1>2, <1>6, Zenon DEF FormatSpacePaddedDay, Two
  <2>. QED BY <1>1, <1>6, <2>1, TwoSame, Zenon
<1>. QED BY <1>5, <1>6

\* The day of the year has three digits.
LEMMA Hundreds ==
    ASSUME NEW d \in 1 .. 366
    PROVE  /\ d \div 100 \in 0 .. 9 /\ d % 100 \in 0 .. 99
              /\ (d > 99 => (d \div 10) % 10 = (d % 100) \div 10)
           /\ d % 10 = (d % 100) % 10 /\ (~(d > 99) => d \div 100 = 0 /\ d % 100 = d)
OBVIOUS

\* The day of the year (FormatDayOfYear).
LEMMA DaySame ==
    ASSUME NEW yday \in 0 .. 365
    PROVE  /\ FormatDayOfYear(yday) = <<CharOf((yday + 1) \div 100)>> \o Two((yday + 1) % 100)
           /\ <<CharOf((yday + 1) \div 100)>> \o Two((yday + 1) % 100) \in Seq(Marks)
<1>. DEFINE d == yday + 1
            h == d \div 100
            m == d % 100
<1>1. d \in 1 .. 366
  OBVIOUS
<1>2. /\ h \in 0 .. 9 /\ m \in 0 .. 99 /\ (d > 99 => (d \div 10) % 10 = m \div 10)
      /\ d % 10 = m % 10 /\ (~(d > 99) => h = 0 /\ m = d)
  BY <1>1, Hundreds
<1>3. FormatDayOfYear(yday) =
        <<IF d > 99 THEN CharOf(h) ELSE "0",
          IF d > 99 THEN CharOf((d \div 10) % 10) ELSE IF d > 9 THEN CharOf(d \div 10) ELSE "0",
          CharOf(d % 10)>>
  BY Zenon DEF FormatDayOfYear
<1>4. d \in Int
  BY <1>1
<1>. HIDE DEF d, h, m
<1>5. CharOf(0) = "0" /\ CharOf(h) \in Marks
  BY <1>2, DigitChar
<1>6. (IF d > 99 THEN CharOf(h) ELSE "0") = CharOf(h)
  BY <1>2, <1>5
<1>7. (IF d > 99 THEN CharOf((d \div 10) % 10) ELSE IF d > 9 THEN CharOf(d \div 10) ELSE "0")
        = CharOf(m \div 10)
  <2>1. CASE d > 99
    BY <1>2, <2>1
  <2>2. CASE ~(d > 99) /\ d > 9
    BY <1>2, <2>2
  <2>3. CASE ~(d > 99) /\ ~(d > 9)
    <3>1. m = d /\ (m > 9 \/ m \div 10 = 0)
      BY <1>2, <2>3, Tens
    <3>2. m \div 10 = 0
      BY <2>3, <3>1
    <3>. QED BY <1>5, <2>3, <3>2
  <2>. QED BY <2>1, <2>2, <2>3
<1>8. FormatDayOfYear(yday) = <<CharOf(h), CharOf(m \div 10), CharOf(m % 10)>>
  BY <1>2, <1>3, <1>6, <1>7, Zenon
<1>9. <<CharOf(h)>> \o Two(m) = <<CharOf(h), CharOf(m \div 10), CharOf(m % 10)>>
  <2>1. CharOf(m \div 10) \in Marks /\ CharOf(m % 10) \in Marks
    BY <1>2, Tens, DigitChar
  <2>. QED BY <1>5, <2>1, ThreeMarks, Zenon DEF Two
<1>10. <<CharOf(h)>> \o Two(m) \in Seq(Marks)
  BY <1>2, <1>5, TwoSame, OneLong, Joined
<1>. QED BY <1>8, <1>9, <1>10 DEF h, m, d

\* Four digits of a year, and its parts.
YearParts(year, y, h, m) ==
    /\ y = year + 1900 /\ h = y \div 100 /\ m = y % 100
    /\ h \in 0 .. 99 /\ m \in 0 .. 99 /\ h \div 10 = y \div 1000 /\ year % 100 = m /\ year \in Int

YearText(y) ==
    <<CharOf(y \div 1000), CharOf((y \div 100) % 10), CharOf((y % 100) \div 10),
       CharOf((y % 100) % 10)>>

YearTexts(year, h, m) ==
    /\ FormatLongYear(year) = Two(h) \o Two(m) /\ Two(h) \o Two(m) \in Seq(Marks)
    /\ (~(year < 0) => FormatShortYear(year) = Two(m)) /\ Two(m) \in Seq(Marks)
    /\ FormatTruncatedYear(year) = Two(h) /\ Two(h) \in Seq(Marks)

\* The forms of a year (FormatLongYear, FormatShortYear, FormatTruncatedYear).
LEMMA YearSame ==
    ASSUME NEW year, NEW y, NEW h, NEW m, YearParts(year, y, h, m)
    PROVE  YearTexts(year, h, m)
<1>1. /\ y = year + 1900 /\ h = y \div 100 /\ m = y % 100
      /\ h \in 0 .. 99 /\ m \in 0 .. 99 /\ h \div 10 = y \div 1000 /\ year % 100 = m /\ year \in Int
  BY Zenon DEF YearParts
<1>2. FormatLongYear(year) = YearText(year + 1900)
  BY Zenon DEF FormatLongYear, YearText
<1>3. FormatLongYear(year) = <<CharOf(h \div 10), CharOf(h % 10), CharOf(m \div 10), CharOf(m % 10)>>
  <2>0. y = year + 1900
    BY <1>1
  <2>1. FormatLongYear(year) = YearText(y)
    BY <1>2, <2>0
  <2>2. YearText(y) = <<CharOf(y \div 1000), CharOf(h % 10), CharOf(m \div 10), CharOf(m % 10)>>
    BY <1>1 DEF YearText
  <2>3. CharOf(y \div 1000) = CharOf(h \div 10)
    BY <1>1
  <2>. QED BY <2>1, <2>2, <2>3
<1>4. ASSUME ~(year < 0) PROVE FormatShortYear(year) = Two(m)
  <2>1. Remainder(year, 100) = m
    BY <1>1, <1>4 DEF Remainder
  <2>2. Quotient(m, 10) = m \div 10 /\ Remainder(m, 10) = m % 10
    BY <1>1 DEF Quotient, Remainder
  <2>. QED BY <2>1, <2>2, Zenon DEF FormatShortYear, Two
<1>5. FormatTruncatedYear(year) = Two(h)
  <2>1. FormatTruncatedYear(year) = Two((year + 1900) \div 100)
    BY Zenon DEF FormatTruncatedYear, Two
  <2>2. (year + 1900) \div 100 = h
    BY <1>1
  <2>. QED BY <2>1, <2>2
<1>6. Two(h) \o Two(m) = <<CharOf(h \div 10), CharOf(h % 10), CharOf(m \div 10), CharOf(m % 10)>>
  <2>1. CharOf(m \div 10) \in Marks /\ CharOf(m % 10) \in Marks /\ CharOf(h \div 10) \in Marks
        /\ CharOf(h % 10) \in Marks
    BY <1>1, Tens, DigitChar
  <2>. QED BY <2>1, FourMarks, Zenon DEF Two
<1>7. Two(h) \in Seq(Marks) /\ Two(m) \in Seq(Marks)
  <2>1. h \in 0 .. 99 /\ m \in 0 .. 99
    BY <1>1, Zenon
  <2>. HIDE <1>1
  <2>2. \A n \in 0 .. 99 : Two(n) \in Seq(Marks)
    BY TwoSame
  <2>. QED BY <2>1, <2>2, Zenon
<1>8. Two(h) \o Two(m) \in Seq(Marks)
  BY <1>7, Joined
<1>. QED BY <1>3, <1>4, <1>5, <1>6, <1>7, <1>8, Zenon DEF YearTexts

\* The letters of a name.
LEMMA NameMarks ==
    ASSUME NEW name \in Names, NEW n \in Nat
    PROVE  Letters(name, n) \in Seq(Marks)
<1>1. \A i \in Nat : name \o "." \o ToString(i) \in Marks
  <2>1. \A i \in Nat : name \o "." \o ToString(i) \in Counted
    <3>. DEFINE S == {nm \o "." \o ToString(i) : nm \in Names, i \in Nat}
    <3>1. Counted = {"char " \o ToString(m) : m \in Int} \union S
      BY DEF Counted
    <3>2. \A i \in Nat : name \o "." \o ToString(i) \in S
      OBVIOUS
    <3>. HIDE DEF S
    <3>. QED BY <3>1, <3>2
  <2>. QED BY <2>1, MarksInclude
<1>. DEFINE f(i) == name \o "." \o ToString(i)
<1>2. \A i \in 1 .. n : f(i) \in Marks
  BY <1>1
<1>3. Letters(name, n) = [i \in 1 .. n |-> f(i)]
  BY DEF Letters
<1>. HIDE DEF f
<1>4. [i \in 1 .. n |-> f(i)] \in Seq(Marks)
  BY <1>2
<1>. QED BY <1>3, <1>4

\* The short and the long name of a weekday.
WeekdayNames(wday) ==
    /\ FormatShortWeekday(wday) = Name("weekday ", wday, 3) /\ Name("weekday ", wday, 3) \in Seq(Marks)
    /\ FormatLongWeekday(wday) = Name("weekday ", wday, WeekdayLength[wday + 1])
    /\ Name("weekday ", wday, WeekdayLength[wday + 1]) \in Seq(Marks)

\* The names of the weekdays (FormatShortWeekday, FormatLongWeekday).
LEMMA Weekdays ==
    ASSUME NEW wday \in 0 .. 6
    PROVE  WeekdayNames(wday)
<1>1. "weekday " \o ToString(wday) \in Names
  <2>1. wday \in Int
    OBVIOUS
  <2>. QED BY <2>1, Zenon DEF Names
<1>2. WeekdayLength[wday + 1] \in Nat /\ 3 \in Nat
  BY DEF WeekdayLength
<1>. QED BY <1>1, <1>2, NameMarks, Zenon DEF WeekdayNames, FormatShortWeekday, FormatLongWeekday, Name

\* The short and the long name of a month.
MonthNames(mon) ==
    /\ FormatShortMonth(mon) = Name("month ", mon, 3) /\ Name("month ", mon, 3) \in Seq(Marks)
    /\ FormatLongMonth(mon) = Name("month ", mon, MonthLength[mon + 1])
    /\ Name("month ", mon, MonthLength[mon + 1]) \in Seq(Marks)

\* The names of the months (FormatShortMonth, FormatLongMonth).
LEMMA Months ==
    ASSUME NEW mon \in 0 .. 11
    PROVE  MonthNames(mon)
<1>1. "month " \o ToString(mon) \in Names
  <2>1. mon \in Int
    OBVIOUS
  <2>. QED BY <2>1, Zenon DEF Names
<1>2. MonthLength[mon + 1] \in Nat /\ 3 \in Nat
  BY DEF MonthLength
<1>. QED BY <1>1, <1>2, NameMarks, Zenon DEF MonthNames, FormatShortMonth, FormatLongMonth, Name

\* The members of a time.
TimeMembers(tm) ==
    /\ tm.year \in -900 .. 8099 /\ tm.mon \in 0 .. 11 /\ tm.mday \in 1 .. 31 /\ tm.wday \in 0 .. 6
       /\ tm.yday \in 0 .. 365
    /\ tm.hour \in 0 .. 23 /\ tm.min \in 0 .. 59 /\ tm.sec \in 0 .. 60

\* Every time the calls give has members in their range.
LEMMA TimeHasMembers == \A tm \in Times : TimeMembers(tm)
BY DEF Times, TimeMembers

\* They have at most two digits.
LEMMA Smaller ==
    /\ 0 .. 60 \subseteq 0 .. 99 /\ 0 .. 59 \subseteq 0 .. 99 /\ 0 .. 23 \subseteq 0 .. 99
       /\ 1 .. 31 \subseteq 0 .. 99
    /\ \A n \in 0 .. 11 : n + 1 \in 0 .. 99
    /\ 0 .. 6 \subseteq 0 .. 9
OBVIOUS

\* The members that are written with two digits.
LEMMA NumbersOfTime ==
    ASSUME NEW tm, TimeMembers(tm)
    PROVE  /\ tm.mday \in 0 .. 99 /\ tm.hour \in 0 .. 99 /\ tm.min \in 0 .. 99 /\ tm.sec \in 0 .. 99
              /\ tm.mon + 1 \in 0 .. 99
           /\ tm.wday \in 0 .. 9
<1>1. tm.mday \in 1 .. 31 /\ tm.hour \in 0 .. 23 /\ tm.min \in 0 .. 59 /\ tm.sec \in 0 .. 60
      /\ tm.mon \in 0 .. 11 /\ tm.wday \in 0 .. 6
  BY DEF TimeMembers
<1>. QED BY <1>1, Smaller, Zenon

\* Texts from parts.
LEMMA Separators ==
    /\ <<":">> \in Seq(Marks) /\ <<" ">> \in Seq(Marks) /\ <<"A">> \in Seq(Marks) /\ "A" \in Marks
       /\ "P" \in Marks /\ "M" \in Marks
                    /\ "%" \in Marks
<1>1. Fixed \subseteq Marks
  BY MarksInclude
<1>2. ":" \in Fixed /\ " " \in Fixed /\ "A" \in Fixed /\ "P" \in Fixed /\ "M" \in Fixed /\ "%" \in Fixed
  BY DEF Fixed
<1>. QED BY <1>1, <1>2, OneLong

\* Hours and minutes (Format24HM).
LEMMA ClockSame ==
    ASSUME NEW h \in 0 .. 99, NEW m \in 0 .. 99
    PROVE  Format24HM(h, m) = Clock(h, m) /\ Clock(h, m) \in Seq(Marks)
<1>1. TwoDigitToBuff(h) = Two(h) /\ Two(h) \in Seq(Marks) /\ TwoDigitToBuff(m) = Two(m)
      /\ Two(m) \in Seq(Marks)
  BY TwoSame
<1>2. Two(h) \o <<":">> \in Seq(Marks)
  BY <1>1, Separators, Joined
<1>3. (Two(h) \o <<":">>) \o Two(m) \in Seq(Marks)
  BY <1>1, <1>2, Joined
<1>. QED BY <1>1, <1>3, Zenon DEF Format24HM, Clock

\* Nothing behind a text.
LEMMA NothingBehind ==
    ASSUME NEW t \in Seq(Marks) PROVE t \o <<>> = t
OBVIOUS

\* Hours, minutes and seconds without a fraction (Format24HourTime).
LEMMA SecondsSame ==
    ASSUME NEW h \in 0 .. 99, NEW m \in 0 .. 99, NEW s \in 0 .. 99
    PROVE  /\ Format24HourTime(h, m, s, 0) = (Clock(h, m) \o <<":">>) \o Two(s)
           /\ (Clock(h, m) \o <<":">>) \o Two(s) \in Seq(Marks)
<1>. DEFINE t == (Clock(h, m) \o <<":">>) \o Two(s)
<1>1. Format24HM(h, m) = Clock(h, m) /\ Clock(h, m) \in Seq(Marks)
  BY ClockSame
<1>2. TwoDigitToBuff(s) = Two(s) /\ Two(s) \in Seq(Marks)
  BY TwoSame
<1>3. Clock(h, m) \o <<":">> \in Seq(Marks)
  BY <1>1, Separators, Joined
<1>4. t \in Seq(Marks)
  BY <1>2, <1>3, Joined
<1>5. Format24HourTime(h, m, s, 0) = t \o <<>>
  BY <1>1, <1>2 DEF Format24HourTime
<1>. HIDE DEF t
<1>6. Format24HourTime(h, m, s, 0) = t
  BY <1>4, <1>5, NothingBehind
<1>. QED BY <1>4, <1>6 DEF t

\* Before or after noon (FormatAMPM).
LEMMA NoonSame ==
    ASSUME NEW h \in 0 .. 23
    PROVE  /\ FormatAMPM(h) = <<IF h < 12 THEN "A" ELSE "P", "M">>
           /\ <<IF h < 12 THEN "A" ELSE "P", "M">> \in Seq(Marks)
<1>1. h >= 12 <=> ~(h < 12)
  OBVIOUS
<1>2. (IF h >= 12 THEN "P" ELSE "A") = IF h < 12 THEN "A" ELSE "P"
  BY <1>1
<1>3. (IF h < 12 THEN "A" ELSE "P") \in Marks /\ "M" \in Marks
  BY Separators
<1>. QED BY <1>2, <1>3, PairOfMarks, Zenon DEF FormatAMPM

\* The number of the weekday (FormatIsoWeekDec, FormatWeekdayDec).
LEMMA WeekdaySame ==
    ASSUME NEW wday \in 0 .. 6
    PROVE  /\ FormatIsoWeekDec(wday) = <<CharOf(((wday + 6) % 7) + 1)>>
              /\ <<CharOf(((wday + 6) % 7) + 1)>> \in Seq(Marks)
           /\ FormatWeekdayDec(wday) = <<CharOf(wday)>> /\ <<CharOf(wday)>> \in Seq(Marks)
<1>. DEFINE d == ((wday + 6) % 7) + 1
<1>1. (IF wday # 0 THEN wday ELSE 7) = d /\ d \in 0 .. 9 /\ wday \in 0 .. 9
  OBVIOUS
<1>. HIDE DEF d
<1>2. CharOf(d) \in Marks /\ CharOf(wday) \in Marks
  BY <1>1, DigitChar
<1>3. <<CharOf(d)>> \in Seq(Marks) /\ <<CharOf(wday)>> \in Seq(Marks)
  BY <1>2, OneLong
<1>4. FormatIsoWeekDec(wday) = <<CharOf(d)>>
  BY <1>1, Zenon DEF FormatIsoWeekDec
<1>. QED BY <1>3, <1>4 DEF FormatWeekdayDec, d

\* The hour of twelve, but for midnight (Write12Hour).
LEMMA HalfDaySame ==
    ASSUME NEW h \in 0 .. 23, h # 0
    PROVE  TwoDigitToBuff(TwelveHour(h)) = Two(Hour12(h)) /\ Two(Hour12(h)) \in Seq(Marks)
<1>1. TwelveHour(h) = Hour12(h) /\ Hour12(h) \in 0 .. 99
  BY DEF TwelveHour, Hour12
<1>. QED BY <1>1, TwoSame, Zenon

\* The week of the year that begins on Monday.
MondayWeekOf(yday, wday) == (yday + 7 - ((wday - 1 + 7) % 7)) \div 7

MondayCounted(yday, wday) ==
    MondayWeek(yday, wday) = MondayWeekOf(yday, wday) /\ MondayWeekOf(yday, wday) \in 0 .. 99

\* It is the one WriteIsoWeek computes, of two digits.
LEMMA MondayWeeks ==
    ASSUME NEW yday \in 0 .. 365, NEW wday \in 0 .. 6
    PROVE  MondayCounted(yday, wday)
<1>1. (wday - 1 + 7) % 7 = (IF wday = 0 THEN 6 ELSE wday - 1) /\ (wday - 1 + 7) % 7 \in 0 .. 6
  OBVIOUS
<1>2. MondayWeek(yday, wday) = MondayWeekOf(yday, wday)
  BY <1>1 DEF MondayWeek, MondayWeekOf
<1>3. \A k \in 0 .. 6 : (yday + 7 - k) \div 7 \in 0 .. 99
  OBVIOUS
<1>4. MondayWeekOf(yday, wday) \in 0 .. 99
  BY <1>1, <1>3, Zenon DEF MondayWeekOf
<1>. QED BY <1>2, <1>4, Zenon DEF MondayCounted

\* It is written as it is meant (WriteIsoWeek).
LEMMA MondaySame ==
    ASSUME NEW tm, TimeMembers(tm)
    PROVE  TwoDigitToBuff(MondayWeek(tm.yday, tm.wday)) = Two(WeekNumber(tm, 1))
           /\ Two(WeekNumber(tm, 1)) \in Seq(Marks)
<1>1. WeekNumber(tm, 1) = MondayWeekOf(tm.yday, tm.wday)
  BY Zenon DEF WeekNumber, MondayWeekOf
<1>2. MondayWeek(tm.yday, tm.wday) = WeekNumber(tm, 1) /\ WeekNumber(tm, 1) \in 0 .. 99
  <2>1. MondayCounted(tm.yday, tm.wday)
    <3>1. tm.yday \in 0 .. 365 /\ tm.wday \in 0 .. 6
      BY DEF TimeMembers
    <3>. QED BY <3>1, MondayWeeks
  <2>. QED BY <1>1, <2>1, Zenon DEF MondayCounted
<1>. QED BY <1>2, TwoSame, Zenon

\* The abbreviation of the zone is a text.
LEMMA ZoneMarks == TZAbbrev \in Seq(Marks)
<1>1. STRING \subseteq Marks
  BY MarksInclude
<1>2. TZAbbrev \in Seq(STRING)
  BY TZAbbrevAssumption
<1>. QED BY <1>1, <1>2, Bigger

\* The date of c, from the 10th of a month on.
DateMeaning(tm) ==
    Name("weekday ", tm.wday, 3) \o <<" ">> \o Name("month ", tm.mon, 3) \o <<" ">>
    \o SpacedDay(tm) \o <<" ">> \o Clock(tm.hour, tm.min) \o <<":">> \o Two(tm.sec)
    \o <<" ">> \o Two(YearOf(tm) \div 100) \o Two(YearOf(tm) % 100)

\* Texts put together in either order.
Associates(a, b, c) == a \o (b \o c) = (a \o b) \o c

\* They are the same.
LEMMA TextsAssociate ==
    ASSUME NEW a \in Seq(Marks), NEW b \in Seq(Marks), NEW c \in Seq(Marks)
    PROVE  Associates(a, b, c)
BY MarkAssoc DEF Associates

\* Seven texts, put together by the parts of the date.
Regroups(a, b, c, d, e, f, g) ==
    /\ a \o ((b \o c) \o d) \o e \o (f \o g) = a \o b \o c \o d \o e \o f \o g
    /\ a \o b \o c \o d \o e \o f \o g \in Seq(Marks)

\* They are the same as from the left.
LEMMA Regroup ==
    ASSUME NEW a \in Seq(Marks), NEW b \in Seq(Marks), NEW c \in Seq(Marks), NEW d \in Seq(Marks),
           NEW e \in Seq(Marks),
           NEW f \in Seq(Marks), NEW g \in Seq(Marks)
    PROVE  Regroups(a, b, c, d, e, f, g)
<1>1. /\ a \o ((b \o c) \o d) = ((a \o b) \o c) \o d /\ ((a \o b) \o c) \o d \in Seq(Marks)
  <2>1. b \o c \in Seq(Marks) /\ a \o b \in Seq(Marks)
    BY Joined
  <2>2. a \o ((b \o c) \o d) = (a \o (b \o c)) \o d
    <3>1. Associates(a, b \o c, d)
      BY <2>1, TextsAssociate
    <3>. QED BY <3>1, Zenon DEF Associates
  <2>3. a \o (b \o c) = (a \o b) \o c
    <3>1. Associates(a, b, c)
      BY TextsAssociate
    <3>. QED BY <3>1, Zenon DEF Associates
  <2>4. (a \o b) \o c \in Seq(Marks)
    BY <2>1, Joined
  <2>5. ((a \o b) \o c) \o d \in Seq(Marks)
    BY <2>4, Joined
  <2>. QED BY <2>2, <2>3, <2>5, Zenon
<1>. DEFINE s == ((a \o b) \o c) \o d
<1>2. s \in Seq(Marks) /\ a \o ((b \o c) \o d) = s
  BY <1>1
<1>. HIDE DEF s
<1>3. s \o e \in Seq(Marks)
  BY <1>2, Joined
<1>4. (s \o e) \o (f \o g) = ((s \o e) \o f) \o g
  <2>1. Associates(s \o e, f, g)
    BY <1>3, TextsAssociate
  <2>. QED BY <2>1, Zenon DEF Associates
<1>5. (s \o e) \o f \in Seq(Marks)
  BY <1>3, Joined
<1>6. ((s \o e) \o f) \o g \in Seq(Marks)
  BY <1>5, Joined
<1>. QED BY <1>2, <1>4, <1>6, Zenon DEF s, Regroups

\* A year, counted from 1900 in a time, is written by its parts.
YearShown(year, y) == YearTexts(year, y \div 100, y % 100)

\* One between 1000 and 9999.
LEMMA YearNumber ==
    ASSUME NEW year, NEW y, y = year + 1900, year \in -900 .. 8099
    PROVE  YearShown(year, y)
<1>. DEFINE h == y \div 100
            m == y % 100
<1>1. YearParts(year, y, h, m)
  BY DEF YearParts
<1>. HIDE DEF h, m
<1>2. YearTexts(year, h, m)
  BY <1>1, YearSame
<1>. QED BY <1>2 DEF YearShown, h, m

\* The year of a time.
LEMMA YearWritten ==
    ASSUME NEW tm, tm.year \in -900 .. 8099
    PROVE  YearShown(tm.year, YearOf(tm))
<1>1. YearOf(tm) = tm.year + 1900
  BY DEF YearOf
<1>. QED BY <1>1, YearNumber

\* The date as FormatTimeDate puts it together, and as it is meant.
DateOf(wd, mo, md, hms, yr) == wd \o <<" ">> \o mo \o <<" ">> \o md \o <<" ">> \o hms \o <<" ">> \o yr

DateIn(wd, mo, md, ck, sc, yh, ym) ==
    wd \o <<" ">> \o mo \o <<" ">> \o md \o <<" ">> \o ck \o <<":">> \o sc \o <<" ">> \o yh \o ym

\* The date, from the 10th on (FormatTimeDate).
LEMMA DateSame ==
    ASSUME NEW tm, TimeMembers(tm), ~(tm.mday < 10)
    PROVE  FormatTimeDate(tm) = DateMeaning(tm) /\ DateMeaning(tm) \in Seq(Marks)
<1>. DEFINE wd == Name("weekday ", tm.wday, 3)
            mo == Name("month ", tm.mon, 3)
            bl == <<" ">>
            md == Two(tm.mday)
            ck == Clock(tm.hour, tm.min)
            cn == <<":">>
            sc == Two(tm.sec)
            yh == Two(YearOf(tm) \div 100)
            ym == Two(YearOf(tm) % 100)
<1>1. FormatShortWeekday(tm.wday) = wd /\ wd \in Seq(Marks)
  <2>1. tm.wday \in 0 .. 6
    BY DEF TimeMembers
  <2>2. WeekdayNames(tm.wday)
    BY <2>1, Weekdays
  <2>. QED BY <2>2, Zenon DEF WeekdayNames
<1>2. FormatShortMonth(tm.mon) = mo /\ mo \in Seq(Marks)
  <2>1. tm.mon \in 0 .. 11
    BY DEF TimeMembers
  <2>2. MonthNames(tm.mon)
    BY <2>1, Months
  <2>. QED BY <2>2, Zenon DEF MonthNames
<1>3. tm.mday \in 0 .. 99 /\ tm.hour \in 0 .. 99 /\ tm.min \in 0 .. 99 /\ tm.sec \in 0 .. 99
  BY NumbersOfTime
<1>4. TwoDigitToBuff(tm.mday) = md /\ md \in Seq(Marks) /\ SpacedDay(tm) = md
  <2>1. TwoDigitToBuff(tm.mday) = md /\ md \in Seq(Marks)
    BY <1>3, TwoSame, Zenon
  <2>. QED BY <2>1 DEF SpacedDay
<1>5. Format24HourTime(tm.hour, tm.min, tm.sec, 0) = (ck \o cn) \o sc /\ ck \in Seq(Marks)
      /\ sc \in Seq(Marks)
  BY <1>3, SecondsSame, ClockSame, TwoSame, Zenon
<1>6. bl \in Seq(Marks) /\ cn \in Seq(Marks)
  BY Separators
<1>7. FormatLongYear(tm.year) = yh \o ym /\ yh \in Seq(Marks) /\ ym \in Seq(Marks)
  <2>1. YearShown(tm.year, YearOf(tm))
    BY YearWritten DEF TimeMembers
  <2>. QED BY <2>1, Zenon DEF YearShown, YearTexts
<1>. DEFINE head == wd \o bl \o mo \o bl \o md \o bl
            hms == (ck \o cn) \o sc
            yr == yh \o ym
<1>8. FormatTimeDate(tm) = head \o hms \o bl \o yr
  <2>1. FormatTimeDate(tm) = DateOf(FormatShortWeekday(tm.wday), FormatShortMonth(tm.mon),
        TwoDigitToBuff(tm.mday),
                                    Format24HourTime(tm.hour, tm.min, tm.sec, 0),
                                       FormatLongYear(tm.year))
    BY Zenon DEF FormatTimeDate, DateOf
  <2>2. FormatTimeDate(tm) = DateOf(wd, mo, md, hms, yr)
    <3>. HIDE DEF wd, mo, md, ck, sc, yh, ym, cn
    <3>. QED BY <1>1, <1>2, <1>4, <1>5, <1>7, <2>1, Zenon
  <2>. QED BY <2>2, Zenon DEF DateOf
<1>9. DateMeaning(tm) = head \o ck \o cn \o sc \o bl \o yh \o ym
  <2>1. DateMeaning(tm) = DateIn(wd, mo, SpacedDay(tm), ck, sc, yh, ym)
    BY Zenon DEF DateMeaning, DateIn
  <2>2. DateMeaning(tm) = DateIn(wd, mo, md, ck, sc, yh, ym)
    <3>. HIDE DEF wd, mo, md, ck, sc, yh, ym
    <3>. QED BY <1>4, <2>1, Zenon
  <2>. QED BY <2>2, Zenon DEF DateIn
<1>. HIDE DEF wd, mo, bl, md, ck, cn, sc, yh, ym
<1>10. head \in Seq(Marks)
  <2>1. wd \o bl \in Seq(Marks)
    BY <1>1, <1>6, Joined
  <2>2. (wd \o bl) \o mo \in Seq(Marks)
    BY <1>2, <2>1, Joined
  <2>3. ((wd \o bl) \o mo) \o bl \in Seq(Marks)
    BY <1>6, <2>2, Joined
  <2>4. (((wd \o bl) \o mo) \o bl) \o md \in Seq(Marks)
    BY <1>4, <2>3, Joined
  <2>. QED BY <1>6, <2>4, Joined
<1>. HIDE DEF head
<1>11. Regroups(head, ck, cn, sc, bl, yh, ym)
  BY <1>5, <1>6, <1>7, <1>10, Regroup
<1>12. /\ head \o ((ck \o cn) \o sc) \o bl \o (yh \o ym) = head \o ck \o cn \o sc \o bl \o yh \o ym
       /\ head \o ck \o cn \o sc \o bl \o yh \o ym \in Seq(Marks)
  BY <1>11, Zenon DEF Regroups
<1>. QED BY <1>8, <1>9, <1>12, Zenon

\* What is appended for a specification is what put_time writes for it.
TimeGood(char, tm) ==
    SpecText(char, tm, 0) = TimeMeaning(char, tm) /\ TimeMeaning(char, tm) \in Seq(Marks)

\* Every specification that does not differ is written as it is meant
\* (SpecText).
LEMMA TimeSame ==
    ASSUME NEW tm, TimeMembers(tm), NEW char, char \in TimeChars, ~TimeDiverges(char, tm)
    PROVE  TimeGood(char, tm)
<1>0. char \in TimeChars /\ ~TimeDiverges(char, tm)
  OBVIOUS
<1>1. TimeMembers(tm)
  OBVIOUS
<1>2. WeekdayNames(tm.wday)
  BY Weekdays DEF TimeMembers
<1>3. MonthNames(tm.mon)
  BY Months DEF TimeMembers
<1>4. tm.mday \in 0 .. 99 /\ tm.hour \in 0 .. 99 /\ tm.min \in 0 .. 99 /\ tm.sec \in 0 .. 99
      /\ tm.mon + 1 \in 0 .. 99
  BY NumbersOfTime
<1>5. /\ FormatLongYear(tm.year) = Two(YearOf(tm) \div 100) \o Two(YearOf(tm) % 100)
      /\ Two(YearOf(tm) \div 100) \o Two(YearOf(tm) % 100) \in Seq(Marks)
      /\ ~(tm.year < 0) => FormatShortYear(tm.year) = Two(YearOf(tm) % 100)
      /\ Two(YearOf(tm) % 100) \in Seq(Marks)
      /\ FormatTruncatedYear(tm.year) = Two(YearOf(tm) \div 100)
         /\ Two(YearOf(tm) \div 100) \in Seq(Marks)
  <2>1. YearShown(tm.year, YearOf(tm))
    BY YearWritten DEF TimeMembers
  <2>. QED BY <2>1, Zenon DEF YearShown, YearTexts
<1>6. tm.yday \in 0 .. 365 /\ tm.wday \in 0 .. 6 /\ tm.hour \in 0 .. 23
  BY DEF TimeMembers
<1>c0. CASE char = "a"
  <2>1. SpecText(char, tm, 0) = FormatShortWeekday(tm.wday)
    BY <1>c0 DEF SpecText
  <2>2. TimeMeaning(char, tm) = Name("weekday ", tm.wday, 3)
    BY <1>c0 DEF TimeMeaning
  <2>3. FormatShortWeekday(tm.wday) = Name("weekday ", tm.wday, 3)
        /\ Name("weekday ", tm.wday, 3) \in Seq(Marks)
    BY <1>2, Zenon DEF WeekdayNames
  <2>. QED BY <2>1, <2>2, <2>3, Zenon DEF TimeGood
<1>c1. CASE char = "A"
  <2>1. SpecText(char, tm, 0) = FormatLongWeekday(tm.wday)
    BY <1>c1 DEF SpecText
  <2>2. TimeMeaning(char, tm) = Name("weekday ", tm.wday, WeekdayLength[tm.wday + 1])
    BY <1>c1 DEF TimeMeaning
  <2>3. FormatLongWeekday(tm.wday) = Name("weekday ", tm.wday, WeekdayLength[tm.wday + 1])
        /\ Name("weekday ", tm.wday, WeekdayLength[tm.wday + 1]) \in Seq(Marks)
    BY <1>2, Zenon DEF WeekdayNames
  <2>. QED BY <2>1, <2>2, <2>3, Zenon DEF TimeGood
<1>c2. CASE char = "b"
  <2>1. SpecText(char, tm, 0) = FormatShortMonth(tm.mon)
    BY <1>c2 DEF SpecText
  <2>2. TimeMeaning(char, tm) = Name("month ", tm.mon, 3)
    BY <1>c2 DEF TimeMeaning
  <2>3. FormatShortMonth(tm.mon) = Name("month ", tm.mon, 3) /\ Name("month ", tm.mon, 3) \in Seq(Marks)
    BY <1>3, Zenon DEF MonthNames
  <2>. QED BY <2>1, <2>2, <2>3, Zenon DEF TimeGood
<1>c3. CASE char = "h"
  <2>1. SpecText(char, tm, 0) = FormatShortMonth(tm.mon)
    BY <1>c3 DEF SpecText
  <2>2. TimeMeaning(char, tm) = Name("month ", tm.mon, 3)
    BY <1>c3 DEF TimeMeaning
  <2>3. FormatShortMonth(tm.mon) = Name("month ", tm.mon, 3) /\ Name("month ", tm.mon, 3) \in Seq(Marks)
    BY <1>3, Zenon DEF MonthNames
  <2>. QED BY <2>1, <2>2, <2>3, Zenon DEF TimeGood
<1>c4. CASE char = "B"
  <2>1. SpecText(char, tm, 0) = FormatLongMonth(tm.mon)
    BY <1>c4 DEF SpecText
  <2>2. TimeMeaning(char, tm) = Name("month ", tm.mon, MonthLength[tm.mon + 1])
    BY <1>c4 DEF TimeMeaning
  <2>3. FormatLongMonth(tm.mon) = Name("month ", tm.mon, MonthLength[tm.mon + 1])
        /\ Name("month ", tm.mon, MonthLength[tm.mon + 1]) \in Seq(Marks)
    BY <1>3, Zenon DEF MonthNames
  <2>. QED BY <2>1, <2>2, <2>3, Zenon DEF TimeGood
<1>c5. CASE char = "c"
  <2>0. ~(tm.mday < 10)
    BY <1>c5 DEF TimeDiverges
  <2>1. SpecText(char, tm, 0) = FormatTimeDate(tm)
    BY <1>c5 DEF SpecText
  <2>2. TimeMeaning(char, tm) = DateMeaning(tm)
    BY <1>c5 DEF TimeMeaning, DateMeaning
  <2>3. FormatTimeDate(tm) = DateMeaning(tm) /\ DateMeaning(tm) \in Seq(Marks)
    BY <1>1, <2>0, DateSame, Zenon
  <2>. QED BY <2>1, <2>2, <2>3, Zenon DEF TimeGood
<1>c6. CASE char = "d"
  <2>1. SpecText(char, tm, 0) = TwoDigitToBuff(tm.mday)
    BY <1>c6 DEF SpecText
  <2>2. TimeMeaning(char, tm) = Two(tm.mday)
    BY <1>c6 DEF TimeMeaning
  <2>3. TwoDigitToBuff(tm.mday) = Two(tm.mday) /\ Two(tm.mday) \in Seq(Marks)
    BY <1>4, TwoSame, Zenon
  <2>. QED BY <2>1, <2>2, <2>3, Zenon DEF TimeGood
<1>c7. CASE char = "e"
  <2>1. SpecText(char, tm, 0) = FormatSpacePaddedDay(tm.mday)
    BY <1>c7 DEF SpecText
  <2>2. TimeMeaning(char, tm) = SpacedDay(tm)
    BY <1>c7 DEF TimeMeaning
  <2>3. FormatSpacePaddedDay(tm.mday) = SpacedDay(tm) /\ SpacedDay(tm) \in Seq(Marks)
    BY <1>1, SpacedSame DEF TimeMembers
  <2>. QED BY <2>1, <2>2, <2>3, Zenon DEF TimeGood
<1>c8. CASE char = "j"
  <2>1. SpecText(char, tm, 0) = FormatDayOfYear(tm.yday)
    BY <1>c8 DEF SpecText
  <2>2. TimeMeaning(char, tm) = <<CharOf((tm.yday + 1) \div 100)>> \o Two((tm.yday + 1) % 100)
    BY <1>c8 DEF TimeMeaning
  <2>3. FormatDayOfYear(tm.yday) = <<CharOf((tm.yday + 1) \div 100)>> \o Two((tm.yday + 1) % 100)
        /\ <<CharOf((tm.yday + 1) \div 100)>> \o Two((tm.yday + 1) % 100) \in Seq(Marks)
    BY <1>6, DaySame, Zenon
  <2>. QED BY <2>1, <2>2, <2>3, Zenon DEF TimeGood
<1>c9. CASE char = "m"
  <2>1. SpecText(char, tm, 0) = TwoDigitToBuff(tm.mon + 1)
    BY <1>c9 DEF SpecText
  <2>2. TimeMeaning(char, tm) = Two(tm.mon + 1)
    BY <1>c9 DEF TimeMeaning
  <2>3. TwoDigitToBuff(tm.mon + 1) = Two(tm.mon + 1) /\ Two(tm.mon + 1) \in Seq(Marks)
    BY <1>4, TwoSame, Zenon
  <2>. QED BY <2>1, <2>2, <2>3, Zenon DEF TimeGood
<1>c10. CASE char = "p"
  <2>1. SpecText(char, tm, 0) = FormatAMPM(tm.hour)
    BY <1>c10 DEF SpecText
  <2>2. TimeMeaning(char, tm) = <<IF tm.hour < 12 THEN "A" ELSE "P", "M">>
    BY <1>c10 DEF TimeMeaning
  <2>3. FormatAMPM(tm.hour) = <<IF tm.hour < 12 THEN "A" ELSE "P", "M">>
        /\ <<IF tm.hour < 12 THEN "A" ELSE "P", "M">> \in Seq(Marks)
    BY <1>6, NoonSame, Zenon
  <2>. QED BY <2>1, <2>2, <2>3, Zenon DEF TimeGood
<1>c11. CASE char = "u"
  <2>1. SpecText(char, tm, 0) = FormatIsoWeekDec(tm.wday)
    BY <1>c11 DEF SpecText
  <2>2. TimeMeaning(char, tm) = <<CharOf(((tm.wday + 6) % 7) + 1)>>
    BY <1>c11 DEF TimeMeaning
  <2>3. FormatIsoWeekDec(tm.wday) = <<CharOf(((tm.wday + 6) % 7) + 1)>>
        /\ <<CharOf(((tm.wday + 6) % 7) + 1)>> \in Seq(Marks)
    BY <1>6, WeekdaySame, Zenon
  <2>. QED BY <2>1, <2>2, <2>3, Zenon DEF TimeGood
<1>c12. CASE char = "w"
  <2>1. SpecText(char, tm, 0) = FormatWeekdayDec(tm.wday)
    BY <1>c12 DEF SpecText
  <2>2. TimeMeaning(char, tm) = <<CharOf(tm.wday)>>
    BY <1>c12 DEF TimeMeaning
  <2>3. FormatWeekdayDec(tm.wday) = <<CharOf(tm.wday)>> /\ <<CharOf(tm.wday)>> \in Seq(Marks)
    BY <1>6, WeekdaySame, Zenon
  <2>. QED BY <2>1, <2>2, <2>3, Zenon DEF TimeGood
<1>c13. CASE char = "y"
  <2>1. SpecText(char, tm, 0) = FormatShortYear(tm.year)
    BY <1>c13 DEF SpecText
  <2>2. TimeMeaning(char, tm) = Two(YearOf(tm) % 100)
    BY <1>c13 DEF TimeMeaning
  <2>0. ~(tm.year < 0)
    BY <1>0, <1>c13, Zenon DEF TimeDiverges
  <2>3. FormatShortYear(tm.year) = Two(YearOf(tm) % 100) /\ Two(YearOf(tm) % 100) \in Seq(Marks)
    BY <1>5, <2>0, Zenon
  <2>. QED BY <2>1, <2>2, <2>3, Zenon DEF TimeGood
<1>c14. CASE char = "Y"
  <2>1. SpecText(char, tm, 0) = FormatLongYear(tm.year)
    BY <1>c14 DEF SpecText
  <2>2. TimeMeaning(char, tm) = Two(YearOf(tm) \div 100) \o Two(YearOf(tm) % 100)
    BY <1>c14 DEF TimeMeaning
  <2>3. FormatLongYear(tm.year) = Two(YearOf(tm) \div 100) \o Two(YearOf(tm) % 100)
        /\ Two(YearOf(tm) \div 100) \o Two(YearOf(tm) % 100) \in Seq(Marks)
    BY <1>5, Zenon
  <2>. QED BY <2>1, <2>2, <2>3, Zenon DEF TimeGood
<1>c15. CASE char = "C"
  <2>1. SpecText(char, tm, 0) = FormatTruncatedYear(tm.year)
    BY <1>c15 DEF SpecText
  <2>2. TimeMeaning(char, tm) = Two(YearOf(tm) \div 100)
    BY <1>c15 DEF TimeMeaning
  <2>3. FormatTruncatedYear(tm.year) = Two(YearOf(tm) \div 100)
        /\ Two(YearOf(tm) \div 100) \in Seq(Marks)
    BY <1>5, Zenon
  <2>. QED BY <2>1, <2>2, <2>3, Zenon DEF TimeGood
<1>c16. CASE char = "H"
  <2>1. SpecText(char, tm, 0) = TwoDigitToBuff(tm.hour)
    BY <1>c16 DEF SpecText
  <2>2. TimeMeaning(char, tm) = Two(tm.hour)
    BY <1>c16 DEF TimeMeaning
  <2>3. TwoDigitToBuff(tm.hour) = Two(tm.hour) /\ Two(tm.hour) \in Seq(Marks)
    BY <1>4, TwoSame, Zenon
  <2>. QED BY <2>1, <2>2, <2>3, Zenon DEF TimeGood
<1>c17. CASE char = "I"
  <2>0. tm.hour # 0
    BY <1>c17 DEF TimeDiverges
  <2>1. SpecText(char, tm, 0) = TwoDigitToBuff(TwelveHour(tm.hour))
    BY <1>c17 DEF SpecText
  <2>2. TimeMeaning(char, tm) = Two(Hour12(tm.hour))
    BY <1>c17 DEF TimeMeaning
  <2>3. TwoDigitToBuff(TwelveHour(tm.hour)) = Two(Hour12(tm.hour))
        /\ Two(Hour12(tm.hour)) \in Seq(Marks)
    BY <1>6, <2>0, HalfDaySame, Zenon
  <2>. QED BY <2>1, <2>2, <2>3, Zenon DEF TimeGood
<1>c18. CASE char = "M"
  <2>1. SpecText(char, tm, 0) = TwoDigitToBuff(tm.min)
    BY <1>c18 DEF SpecText
  <2>2. TimeMeaning(char, tm) = Two(tm.min)
    BY <1>c18 DEF TimeMeaning
  <2>3. TwoDigitToBuff(tm.min) = Two(tm.min) /\ Two(tm.min) \in Seq(Marks)
    BY <1>4, TwoSame, Zenon
  <2>. QED BY <2>1, <2>2, <2>3, Zenon DEF TimeGood
<1>c19. CASE char = "S"
  <2>1. SpecText(char, tm, 0) = TwoDigitToBuff(tm.sec)
    BY <1>c19 DEF SpecText
  <2>2. TimeMeaning(char, tm) = Two(tm.sec)
    BY <1>c19 DEF TimeMeaning
  <2>3. TwoDigitToBuff(tm.sec) = Two(tm.sec) /\ Two(tm.sec) \in Seq(Marks)
    BY <1>4, TwoSame, Zenon
  <2>. QED BY <2>1, <2>2, <2>3, Zenon DEF TimeGood
<1>c20. CASE char = "R"
  <2>1. SpecText(char, tm, 0) = Format24HM(tm.hour, tm.min)
    BY <1>c20 DEF SpecText
  <2>2. TimeMeaning(char, tm) = Clock(tm.hour, tm.min)
    BY <1>c20 DEF TimeMeaning
  <2>3. Format24HM(tm.hour, tm.min) = Clock(tm.hour, tm.min) /\ Clock(tm.hour, tm.min) \in Seq(Marks)
    BY <1>4, ClockSame, Zenon
  <2>. QED BY <2>1, <2>2, <2>3, Zenon DEF TimeGood
<1>c21. CASE char = "T"
  <2>1. SpecText(char, tm, 0) = Format24HourTime(tm.hour, tm.min, tm.sec, 0)
    BY <1>c21 DEF SpecText
  <2>2. TimeMeaning(char, tm) = Clock(tm.hour, tm.min) \o <<":">> \o Two(tm.sec)
    BY <1>c21 DEF TimeMeaning
  <2>3. Format24HourTime(tm.hour, tm.min, tm.sec, 0) = Clock(tm.hour, tm.min) \o <<":">> \o Two(tm.sec)
        /\ Clock(tm.hour, tm.min) \o <<":">> \o Two(tm.sec) \in Seq(Marks)
    BY <1>4, SecondsSame, Zenon
  <2>. QED BY <2>1, <2>2, <2>3, Zenon DEF TimeGood
<1>c22. CASE char = "X"
  <2>1. SpecText(char, tm, 0) = Format24HourTime(tm.hour, tm.min, tm.sec, 0)
    BY <1>c22 DEF SpecText
  <2>2. TimeMeaning(char, tm) = Clock(tm.hour, tm.min) \o <<":">> \o Two(tm.sec)
    BY <1>c22 DEF TimeMeaning
  <2>3. Format24HourTime(tm.hour, tm.min, tm.sec, 0) = Clock(tm.hour, tm.min) \o <<":">> \o Two(tm.sec)
        /\ Clock(tm.hour, tm.min) \o <<":">> \o Two(tm.sec) \in Seq(Marks)
    BY <1>4, SecondsSame, Zenon
  <2>. QED BY <2>1, <2>2, <2>3, Zenon DEF TimeGood
<1>c23. CASE char = "W"
  <2>1. SpecText(char, tm, 0) = TwoDigitToBuff(MondayWeek(tm.yday, tm.wday))
    BY <1>c23 DEF SpecText
  <2>2. TimeMeaning(char, tm) = Two(WeekNumber(tm, 1))
    BY <1>c23 DEF TimeMeaning
  <2>3. TwoDigitToBuff(MondayWeek(tm.yday, tm.wday)) = Two(WeekNumber(tm, 1))
        /\ Two(WeekNumber(tm, 1)) \in Seq(Marks)
    BY MondaySame, Zenon
  <2>. QED BY <2>1, <2>2, <2>3, Zenon DEF TimeGood
<1>c24. CASE char = "Z"
  <2>1. SpecText(char, tm, 0) = TZAbbrev
    BY <1>c24 DEF SpecText
  <2>2. TimeMeaning(char, tm) = TZAbbrev
    BY <1>c24 DEF TimeMeaning
  <2>3. TZAbbrev \in Seq(Marks)
    BY ZoneMarks
  <2>. QED BY <2>1, <2>2, <2>3, Zenon DEF TimeGood
<1>c25. CASE char = "%"
  <2>0. char \in Marks
    BY <1>c25, Separators
  <2>1. SpecText(char, tm, 0) = <<char>>
    BY <1>c25 DEF SpecText
  <2>2. TimeMeaning(char, tm) = <<char>>
    BY <1>c25 DEF TimeMeaning
  <2>3. <<char>> \in Seq(Marks)
    BY <2>0, Separators, OneLong
  <2>. QED BY <2>1, <2>2, <2>3, Zenon DEF TimeGood
<1>. QED BY <1>0, <1>c0, <1>c1, <1>c2, <1>c3, <1>c4, <1>c5, <1>c6, <1>c7, <1>c8, <1>c9, <1>c10, <1>c11,
            <1>c12, <1>c13, <1>c14, <1>c15, <1>c16, <1>c17, <1>c18, <1>c19, <1>c20, <1>c21, <1>c22,
               <1>c23, <1>c24, <1>c25 DEF TimeDiverges, TimeChars, Specs

------------------------------------------------------------------------------
(****************************************************************************)
(* A time is appended to the buffer, specification by specification.        *)
(****************************************************************************)

\* What is appended to a buffer is in it, as long as there is room.
LEMMA ShownPrefix ==
    ASSUME NEW t \in Seq(Marks), NEW n \in Nat
    PROVE  Prefix(t, n) \in Seq(Marks)
<1>1. Nul \in Marks
  BY MarksInclude DEF Fixed
<1>. QED BY <1>1 DEF Prefix

\* What the buffer shows with a text behind it.
AppendedText(b, new) == Prefix(b.text, b.size) \o new

\* A text that fits is written behind what the buffer shows.
LEMMA AppendedSplit ==
    ASSUME NEW b, NEW new
    PROVE  AppendText(b, new) = IF Len(AppendedText(b, new)) > BufferSize
             THEN Whole(Filled(Past, Len(AppendedText(b, new))))
                                ELSE [text |-> Over(b.text, AppendedText(b, new)),
                                   size |-> Len(AppendedText(b, new))]
BY Zenon DEF AppendText, AppendedText

\* Appending leaves a buffer.
LEMMA AppendInBuffers ==
    ASSUME NEW b \in Buffers, NEW new \in Seq(Marks)
    PROVE  AppendText(b, new) \in Buffers
<1>. DEFINE t == AppendedText(b, new)
            n == Len(t)
<1>1. b.text \in Seq(Marks) /\ b.size \in Nat
  BY DEF Buffers
<1>2. t \in Seq(Marks)
  <2>1. Prefix(b.text, b.size) \in Seq(Marks)
    BY <1>1, ShownPrefix
  <2>. QED BY <2>1, Joined DEF AppendedText
<1>3. n \in Nat
  BY <1>2, MarkLength
<1>4. AppendText(b, new) = IF n > BufferSize THEN Whole(Filled(Past, n))
        ELSE [text |-> Over(b.text, t), size |-> n]
  BY AppendedSplit
<1>5. Past \in Marks
  BY MarksInclude DEF Fixed
<1>6. Whole(Filled(Past, n)) \in Buffers
  <2>. DEFINE f == Filled(Past, n)
  <2>1. f \in Seq(Marks)
    BY <1>3, <1>5, FilledText
  <2>. HIDE DEF f
  <2>2. Whole(f) \in Buffers
    BY <2>1, WholeShows
  <2>. QED BY <2>2 DEF f
<1>7. [text |-> Over(b.text, t), size |-> n] \in Buffers
  <2>. DEFINE c == [text |-> Over(b.text, t), size |-> n]
              old == b.text
  <2>1. c = [text |-> Over(old, t), size |-> Len(t)] /\ old \in Seq(Marks)
    BY <1>1
  <2>. HIDE DEF t, c, old
  <2>2. c \in Buffers
    BY <1>2, <2>1, OverShows
  <2>. QED BY <2>2 DEF c, old
<1>. HIDE DEF n, t
<1>. QED BY <1>4, <1>6, <1>7

\* A text that fits is appended to what the buffer shows.
LEMMA AppendShows ==
    ASSUME NEW b \in Buffers, NEW t, Shows(b, t), NEW new \in Seq(Marks), NEW u, u = t \o new,
           Len(u) <= BufferSize
    PROVE  Shows(AppendText(b, new), u)
<1>1. AppendedText(b, new) = u
  BY Zenon DEF AppendedText, Shows
<1>2. t \in Seq(Marks) /\ b.text \in Seq(Marks)
  BY DEF Shows, Buffers
<1>3. u \in Seq(Marks) /\ Len(u) \in Nat
  BY <1>2, Joined, MarkLength
<1>4. ~(Len(u) > BufferSize)
  BY <1>3 DEF BufferSize
<1>. DEFINE old == b.text
            c == [text |-> Over(old, u), size |-> Len(u)]
<1>5. AppendText(b, new) = c
  <2>1. AppendText(b, new) = IF Len(AppendedText(b, new)) > BufferSize
          THEN Whole(Filled(Past, Len(AppendedText(b, new))))
                                ELSE [text |-> Over(b.text, AppendedText(b, new)),
                                   size |-> Len(AppendedText(b, new))]
    BY AppendedSplit
  <2>. QED BY <1>1, <1>4, <2>1, Zenon
<1>6. old \in Seq(Marks) /\ c = [text |-> Over(old, u), size |-> Len(u)]
  BY <1>2
<1>. HIDE DEF old, c
<1>7. Shows(c, u)
  BY <1>3, <1>6, OverShows
<1>. QED BY <1>5, <1>7

\* A buffer whose size is 0 shows nothing.
LEMMA EmptyShows ==
    ASSUME NEW b \in Buffers, b.size = 0
    PROVE  Shows(b, <<>>)
<1>1. b.text \in Seq(Marks)
  BY DEF Buffers
<1>2. Prefix(b.text, 0) = <<>>
  BY <1>1 DEF Prefix
<1>. QED BY <1>2 DEF Shows

\* The texts of a sequence, appended one after the other (FormatCTime).
AppendsAll(f, b, texts, n) ==
    f = [i \in 0 .. n |-> IF i = 0 THEN b ELSE AppendText(f[i - 1], texts[i])]

\* There is such a sequence of buffers.
LEMMA AppendsExist ==
    ASSUME NEW b \in Buffers, NEW texts \in Seq(Seq(Marks)), NEW n, n = Len(texts)
    PROVE  \E f : AppendsAll(f, b, texts, n)
<1>. DEFINE step == [p \in Buffers \X (1 .. n) |-> AppendText(p[1], texts[p[2]])]
<1>1. n \in Nat /\ \A k \in 1 .. n : texts[k] \in Seq(Marks)
  OBVIOUS
<1>2. step \in [Buffers \X (1 .. n) -> Buffers]
  <2>1. ASSUME NEW p \in Buffers \X (1 .. n) PROVE AppendText(p[1], texts[p[2]]) \in Buffers
    <3>1. p[1] \in Buffers /\ texts[p[2]] \in Seq(Marks)
      BY <1>1
    <3>. QED BY <3>1, AppendInBuffers
  <2>. QED BY <2>1
<1>3. PICK f : Iterates(f, n, Buffers, b, step)
  <2>. HIDE DEF step
  <2>. QED BY <1>1, <1>2, RecursionUpTo
<1>4. f \in [0 .. n -> Buffers] /\ f[0] = b /\ \A k \in 1 .. n : f[k] = step[<<f[k - 1], k>>]
  BY <1>3 DEF Iterates
<1>5. ASSUME NEW k \in 1 .. n PROVE f[k] = AppendText(f[k - 1], texts[k])
  <2>1. k - 1 \in 0 .. n
    BY <1>1
  <2>2. <<f[k - 1], k>> \in Buffers \X (1 .. n)
    BY <1>4, <2>1
  <2>3. step[<<f[k - 1], k>>] = AppendText(f[k - 1], texts[k])
    BY <2>2
  <2>. QED BY <1>4, <2>3
<1>6. \A i \in 0 .. n : i # 0 => i \in 1 .. n
  BY <1>1
<1>7. \A i \in 0 .. n : f[i] = IF i = 0 THEN b ELSE AppendText(f[i - 1], texts[i])
  BY <1>4, <1>5, <1>6, Zenon
<1>8. f = [i \in 0 .. n |-> f[i]]
  BY <1>4
<1>9. [i \in 0 .. n |-> f[i]] = [i \in 0 .. n |-> IF i = 0 THEN b ELSE AppendText(f[i - 1], texts[i])]
  BY <1>7, Zenon
<1>. QED BY <1>8, <1>9 DEF AppendsAll

\* In the end the buffer shows all of the texts, as long as they fit.
LEMMA AppendedInOrder ==
    ASSUME NEW b \in Buffers, b.size = 0, NEW texts \in Seq(Seq(Marks)), NEW n, n = Len(texts),
           NEW f, AppendsAll(f, b, texts, n), NEW all, all = FlattenSeq(texts), Len(all) <= BufferSize
    PROVE  Shows(f[n], all) /\ f[n] \in Buffers
<1>1. n \in Nat /\ \A k \in 1 .. n : texts[k] \in Seq(Marks)
  OBVIOUS
<1>2. PICK g \in [0 .. n -> Seq(Marks)] : g[0] = <<>> /\ g[n] = all
      /\ \A k \in 1 .. n : g[k] = g[k - 1] \o texts[k]
  BY FlattenedPrefixes
<1>3. \A i \in 0 .. n : f[i] = IF i = 0 THEN b ELSE AppendText(f[i - 1], texts[i])
  BY Zenon DEF AppendsAll
<1>. DEFINE Fits(k) == f[k] \in Buffers /\ (Len(g[k]) <= BufferSize => Shows(f[k], g[k]))
            S == {k \in 0 .. n : Fits(k)}
<1>4. 0 \in S
  <2>1. 0 \in 0 .. n
    BY <1>1
  <2>2. f[0] = b
    BY <1>3, <2>1, Zenon
  <2>3. Fits(0)
    BY <1>2, <2>2, EmptyShows
  <2>. HIDE DEF Fits
  <2>. QED BY <2>1, <2>3
<1>5. ASSUME NEW k \in 0 .. n - 1, k \in S PROVE k + 1 \in S
  <2>. DEFINE j == k + 1
  <2>1. j \in 1 .. n /\ j \in 0 .. n /\ j # 0 /\ j - 1 = k /\ k \in 0 .. n
    BY <1>1
  <2>. HIDE DEF j
  <2>2. Fits(k)
    BY <1>5
  <2>3. f[j] = AppendText(f[k], texts[j]) /\ g[j] = g[k] \o texts[j] /\ texts[j] \in Seq(Marks)
        /\ g[k] \in Seq(Marks)
    <3>1. f[j] = AppendText(f[j - 1], texts[j])
      BY <1>3, <2>1, Zenon
    <3>2. g[j] = g[j - 1] \o texts[j]
      BY <1>2, <2>1, Zenon
    <3>. QED BY <1>1, <1>2, <2>1, <3>1, <3>2
  <2>. DEFINE fk == f[k]
              fj == f[j]
              gk == g[k]
              gj == g[j]
              tj == texts[j]
  <2>4. fj = AppendText(fk, tj) /\ gj = gk \o tj /\ tj \in Seq(Marks) /\ gk \in Seq(Marks)
        /\ fk \in Buffers /\ (Len(gk) <= BufferSize => Shows(fk, gk))
    BY <2>2, <2>3
  <2>. HIDE DEF fk, fj, gk, gj, tj
  <2>5. fj \in Buffers
    BY <2>4, AppendInBuffers
  <2>6. ASSUME Len(gj) <= BufferSize PROVE Shows(fj, gj)
    <3>1. Len(gj) = Len(gk) + Len(tj) /\ Len(gk) \in Nat /\ Len(tj) \in Nat
      BY <2>4
    <3>2. Len(gk) <= BufferSize
      BY <2>6, <3>1 DEF BufferSize
    <3>. QED BY <2>4, <2>6, <3>2, AppendShows
  <2>7. Fits(j)
    BY <2>5, <2>6 DEF fj, gj
  <2>. HIDE DEF Fits
  <2>8. j \in S
    BY <2>1, <2>7
  <2>. QED BY <2>8 DEF j
<1>6. n \in S
  <2>. HIDE DEF S
  <2>1. \A k \in 0 .. n : k \in S
    BY <1>1, <1>4, <1>5, InductionUpTo
  <2>. QED BY <1>1, <2>1
<1>. QED BY <1>2, <1>6

\* The texts of the specifications of a field.
TimeTexts(ts, tm) == [i \in 1 .. Len(ts) |-> TimeMeaning(ts[i], tm)]

\* Specifications that are written as std::format has them.
TimesGood(ts, tm) ==
    /\ ts \in Seq(STRING) /\ TimeMembers(tm)
    /\ \A i \in 1 .. Len(ts) : ts[i] \in TimeChars /\ ~TimeDiverges(ts[i], tm)

\* Each of them is.
LEMMA EachTime ==
    ASSUME NEW ts, NEW tm, TimesGood(ts, tm), NEW i \in 1 .. Len(ts)
    PROVE  TimeGood(ts[i], tm)
BY TimeSame DEF TimesGood

\* What they mean is their texts one after the other.
LEMMA TimesMeant ==
    ASSUME NEW ts, NEW tm, TimesGood(ts, tm)
    PROVE  /\ TimeTexts(ts, tm) \in Seq(Seq(Marks)) /\ Len(TimeTexts(ts, tm)) = Len(ts)
              /\ Len(ts) \in Nat
           /\ TimesMeaning(ts, tm) = FlattenSeq(TimeTexts(ts, tm))
              /\ TimesMeaning(ts, tm) \in Seq(Marks)
           /\ \A i \in 1 .. Len(ts) : TimeTexts(ts, tm)[i] = TimeMeaning(ts[i], tm)
<1>1. Len(ts) \in Nat
  BY DEF TimesGood
<1>2. \A i \in 1 .. Len(ts) : TimeMeaning(ts[i], tm) \in Seq(Marks)
  BY EachTime DEF TimeGood
<1>3. TimeTexts(ts, tm) \in Seq(Seq(Marks)) /\ Len(TimeTexts(ts, tm)) = Len(ts)
  BY <1>1, <1>2 DEF TimeTexts
<1>4. \A i \in 1 .. Len(ts) : TimeTexts(ts, tm)[i] = TimeMeaning(ts[i], tm)
  BY Zenon DEF TimeTexts
<1>5. TimesMeaning(ts, tm) = FlattenSeq(TimeTexts(ts, tm))
  BY Zenon DEF TimesMeaning, TimeTexts
<1>6. TimesMeaning(ts, tm) \in Seq(Marks)
  <2>. DEFINE texts == TimeTexts(ts, tm)
              n == Len(texts)
  <2>1. texts \in Seq(Seq(Marks)) /\ n \in Nat /\ n = Len(texts)
        /\ TimesMeaning(ts, tm) = FlattenSeq(texts)
    BY <1>1, <1>3, <1>5
  <2>. HIDE DEF n, texts
  <2>2. PICK g \in [0 .. Len(texts) -> Seq(Marks)] : g[0] = <<>> /\ g[Len(texts)] = FlattenSeq(texts)
    BY <2>1, FlattenedPrefixes
  <2>3. Len(texts) \in 0 .. Len(texts)
    BY <2>1
  <2>. QED BY <2>1, <2>2, <2>3
<1>. QED BY <1>1, <1>3, <1>4, <1>5, <1>6

\* What was read of them is what was given.
LEMMA TimeReadAt ==
    ASSUME NEW ts, Len(ts) \in Nat
    PROVE  Len(TimesRead(ts)) = Len(ts) /\ \A i \in 1 .. Len(ts) : TimesRead(ts)[i].char = ts[i]
BY DEF TimesRead, TurnsRead, TimeRead

\* What FormatCTime appends, one specification after the other.
SpecsAppended(g, b, times, tm) ==
    g = [i \in 0 .. Len(times) |->
            IF i = 0 THEN b ELSE AppendText(g[i - 1], SpecText(times[i].char, tm, 0))]

\* FormatCTime appends these texts.
LEMMA SpecsAreTexts ==
    ASSUME NEW ts, NEW tm, TimesGood(ts, tm), NEW g, NEW b
    PROVE  SpecsAppended(g, b, TimesRead(ts), tm) <=> AppendsAll(g, b, TimeTexts(ts, tm), Len(ts))
<1>. DEFINE times == TimesRead(ts)
            texts == TimeTexts(ts, tm)
            n == Len(ts)
<1>1. Len(times) = n /\ \A i \in 1 .. n : times[i].char = ts[i]
  BY TimesMeant, TimeReadAt
<1>2. \A i \in 1 .. n : texts[i] = TimeMeaning(ts[i], tm)
  BY TimesMeant
<1>3. \A i \in 1 .. n : SpecText(times[i].char, tm, 0) = texts[i]
  <2>1. ASSUME NEW i \in 1 .. n PROVE SpecText(times[i].char, tm, 0) = texts[i]
    <3>1. SpecText(ts[i], tm, 0) = TimeMeaning(ts[i], tm)
      BY EachTime DEF TimeGood
    <3>. QED BY <1>1, <1>2, <3>1, Zenon
  <2>. QED BY <2>1
<1>4. \A i \in 0 .. n : i # 0 => i \in 1 .. n
  BY TimesMeant
<1>. HIDE DEF times, texts, n
<1>5. \A i \in 0 .. n : (IF i = 0 THEN b ELSE AppendText(g[i - 1], SpecText(times[i].char, tm, 0)))
                          = IF i = 0 THEN b ELSE AppendText(g[i - 1], texts[i])
  BY <1>3, <1>4, Zenon
<1>6. [i \in 0 .. n |-> IF i = 0 THEN b ELSE AppendText(g[i - 1], SpecText(times[i].char, tm, 0))]
         = [i \in 0 .. n |-> IF i = 0 THEN b ELSE AppendText(g[i - 1], texts[i])]
  BY <1>5, Zenon
<1>7. SpecsAppended(g, b, times, tm) <=> AppendsAll(g, b, texts, n)
  BY <1>1, <1>6, Zenon DEF SpecsAppended, AppendsAll
<1>. QED BY <1>7 DEF times, texts, n

\* FormatCTime leaves what is meant in a buffer whose size was 0.
LEMMA TimesWritten ==
    ASSUME NEW ts, NEW tm, TimesGood(ts, tm), NEW b \in Buffers, b.size = 0,
           Len(TimesMeaning(ts, tm)) <= BufferSize
    PROVE  /\ Shows(FormatCTime(b, TimesRead(ts), tm, 0), TimesMeaning(ts, tm))
           /\ FormatCTime(b, TimesRead(ts), tm, 0) \in Buffers
<1>. DEFINE times == TimesRead(ts)
            texts == TimeTexts(ts, tm)
            n == Len(ts)
            all == TimesMeaning(ts, tm)
            after == CHOOSE g : SpecsAppended(g, b, times, tm)
<1>1. Len(times) = n /\ texts \in Seq(Seq(Marks)) /\ n = Len(texts) /\ all = FlattenSeq(texts)
  BY TimesMeant, TimeReadAt
<1>2. \A g : SpecsAppended(g, b, times, tm) <=> AppendsAll(g, b, texts, n)
  BY SpecsAreTexts
<1>3. FormatCTime(b, times, tm, 0) = after[Len(times)]
  BY Zenon DEF FormatCTime, SpecsAppended
<1>4. Len(all) <= BufferSize
  OBVIOUS
<1>. HIDE DEF times, texts, n, all, after
<1>5. \E g : AppendsAll(g, b, texts, n)
  BY <1>1, AppendsExist
<1>6. SpecsAppended(after, b, times, tm)
  BY <1>2, <1>5, Zenon DEF after
<1>7. AppendsAll(after, b, texts, n)
  BY <1>2, <1>6, Zenon
<1>8. Shows(after[n], all) /\ after[n] \in Buffers
  BY <1>1, <1>4, <1>7, AppendedInOrder
<1>9. Shows(FormatCTime(b, times, tm, 0), all) /\ FormatCTime(b, times, tm, 0) \in Buffers
  BY <1>1, <1>3, <1>8
<1>. QED BY <1>9 DEF times, all

\* A text has a length.
LEMMA AnyLength ==
    ASSUME NEW S, NEW t \in Seq(S) PROVE Len(t) \in Nat
OBVIOUS

\* A text of one character has a first one.
LEMMA FirstOfOne ==
    ASSUME NEW S, NEW t \in Seq(S), Len(t) = 1 PROVE t[1] \in S
OBVIOUS

\* One is all there is below two.
LEMMA BelowTwo ==
    ASSUME NEW n \in Nat, n >= 1, n < 2 PROVE n = 1
OBVIOUS

\* What FieldDiverges leaves out of the times.
LEMMA TimePlain ==
    ASSUME NEW spec, NEW arg, ~FieldDiverges(spec, arg), arg.type = "time"
    PROVE  /\ ~(Len(TimesMeaning(spec.times, arg.tm)) > BufferSize)
           /\ ~(spec.align = "" /\ spec.width # 0)
           /\ ~(spec.localize /\ spec.width = 0 /\ Len(spec.times) = 1)
           /\ ~(spec.localize /\ ~PlainLocale)
           /\ ~\E k \in 1 .. Len(spec.times) : TimeDiverges(spec.times[k], arg.tm)
BY Zenon DEF FieldDiverges

\* The specifications of an item.
LEMMA ItemTimes ==
    ASSUME NEW spec \in ItemSpecs
    PROVE  spec.times \in Seq(STRING) /\ Len(spec.times) \in Nat /\ spec.width \in Nat
<1>1. spec.times \in Seq(STRING) /\ spec.width \in Nat
  BY SpecChars
<1>. QED BY <1>1, AnyLength

\* The time of an argument.
LEMMA TimeOfArgument ==
    ASSUME NEW arg \in Arguments, arg.type = "time"
    PROVE  arg.tm \in Times
BY DEF Arguments, Texts

\* The time field of a call that is promised.
TimeGiven(spec, arg, b) ==
    /\ spec \in ItemSpecs /\ arg \in Arguments /\ ValidSpec(spec, arg.type) /\ ~FieldDiverges(spec, arg)
    /\ arg.type = "time" /\ b \in Buffers /\ b.size = 0

\* A text that is not too long fits.
LEMMA NotMore ==
    ASSUME NEW t \in Seq(Marks), ~(Len(t) > BufferSize) PROVE Len(t) <= BufferSize
BY DEF BufferSize

\* Its specifications are written as they are meant, and fit the buffer.
LEMMA TimeGivenParts ==
    ASSUME NEW spec, NEW arg, NEW b, TimeGiven(spec, arg, b)
    PROVE  /\ TimesGood(spec.times, arg.tm) /\ TimesMeaning(spec.times, arg.tm) \in Seq(Marks)
           /\ Len(TimesMeaning(spec.times, arg.tm)) <= BufferSize
           /\ Len(spec.times) \in Nat /\ Len(spec.times) >= 1 /\ spec.precision = 0
<1>. DEFINE ts == spec.times
            tm == arg.tm
<1>1. /\ spec \in ItemSpecs /\ arg \in Arguments /\ ValidSpec(spec, arg.type)
         /\ ~FieldDiverges(spec, arg)
      /\ arg.type = "time" /\ b \in Buffers /\ b.size = 0
  BY Zenon DEF TimeGiven
<1>2. ts \in Seq(STRING) /\ Len(ts) \in Nat
  BY <1>1, ItemTimes
<1>3. TimeMembers(tm)
  BY <1>1, TimeOfArgument, TimeHasMembers
<1>4. Range(ts) \subseteq TimeChars /\ ts # <<>>
  BY <1>1, ValidParts, Zenon
<1>5. \A i \in 1 .. Len(ts) : ts[i] \in TimeChars
  BY <1>2, <1>4, RangeInside
<1>6. \A i \in 1 .. Len(ts) : ~TimeDiverges(ts[i], tm)
  BY <1>1, TimePlain, Zenon
<1>7. TimesGood(ts, tm)
  BY <1>2, <1>3, <1>5, <1>6, Zenon DEF TimesGood
<1>8. TimesMeaning(ts, tm) \in Seq(Marks)
  BY <1>7, TimesMeant
<1>9. Len(TimesMeaning(ts, tm)) <= BufferSize
  BY <1>1, <1>8, TimePlain, NotMore
<1>10. Len(ts) >= 1
  BY <1>2, <1>4
<1>11. spec.precision = 0
  BY <1>1, ValidParts DEF Texts
<1>. QED BY <1>2, <1>7, <1>8, <1>9, <1>10, <1>11

\* A time with a width is aligned as it is meant.
LEMMA TimeAligned ==
    ASSUME NEW spec, NEW arg, NEW b, TimeGiven(spec, arg, b), spec.width # 0, NEW q, NEW n,
           q = TimeAfterLocale(n, spec)
    PROVE  AlignedAs(q, spec, AlignOr(spec, "<"))
<1>1. /\ spec \in ItemSpecs /\ ~FieldDiverges(spec, arg) /\ arg.type = "time"
         /\ ValidSpec(spec, arg.type)
  BY Zenon DEF TimeGiven
<1>2. spec.align # "" /\ spec.fill # ":"
  BY <1>1, TimePlain, FieldPlain, Zenon
<1>3. q.align = TimeAlignFor(spec) /\ q.fill = TimeFillFor(spec)
  BY DEF TimeAfterLocale, SpecOf
<1>4. q.align = AlignFor(spec, arg.type) /\ q.fill = FillFor(spec)
  BY <1>2, <1>3, Zenon DEF TimeAlignFor, TimeFillFor, AlignFor
<1>5. AlignedAs(q, spec, AlignOr(spec, Default(arg.type)))
  BY <1>1, <1>2, <1>4, FieldAligned
<1>6. AlignOr(spec, Default(arg.type)) = AlignOr(spec, "<")
  BY <1>2, GivenAlignment
<1>. QED BY <1>5, <1>6

\* Its width is written in digits, and it has no precision.
LEMMA TimeDirect ==
    ASSUME NEW spec, NEW arg, NEW b, TimeGiven(spec, arg, b), NEW q, NEW n, q = TimeAfterLocale(n, spec)
    PROVE  PrecisionOf(q, Nested) = 0 /\ WidthOf(q, Nested) = spec.width
           /\ (q.localize <=> spec.localize)
           /\ ~(q.localize /\ ~PlainLocale)
<1>1. q.widthArg = 0 /\ q.precisionArg = 0 /\ q.width = spec.width /\ q.precision = 0
      /\ q.localize = spec.localize
  BY DEF TimeAfterLocale, SpecOf
<1>2. ~(spec.localize /\ ~PlainLocale)
  BY TimePlain, Zenon DEF TimeGiven
<1>. QED BY <1>1, <1>2 DEF PrecisionOf, WidthOf

\* One specification means its own text.
LEMMA OnlyOne ==
    ASSUME NEW ts, NEW tm, TimesGood(ts, tm), Len(ts) = 1
    PROVE  TimesMeaning(ts, tm) = TimeMeaning(ts[1], tm)
<1>. DEFINE texts == TimeTexts(ts, tm)
            n == Len(texts)
<1>1. texts \in Seq(Seq(Marks)) /\ n = 1 /\ TimesMeaning(ts, tm) = FlattenSeq(texts)
      /\ texts[1] = TimeMeaning(ts[1], tm)
  BY TimesMeant
<1>. HIDE DEF texts
<1>2. PICK g \in [0 .. Len(texts) -> Seq(Marks)] : g[0] = <<>> /\ g[Len(texts)] = FlattenSeq(texts)
              /\ \A k \in 1 .. Len(texts) : g[k] = g[k - 1] \o texts[k]
  BY <1>1, FlattenedPrefixes
<1>3. g[1] = g[0] \o texts[1]
  <2>1. 1 \in 1 .. Len(texts) /\ 1 - 1 = 0
    BY <1>1
  <2>. QED BY <1>2, <2>1
<1>4. texts[1] \in Seq(Marks)
  <2>1. Len(texts) = 1
    BY <1>1
  <2>. QED BY <1>1, <2>1, FirstOfOne
<1>5. g[1] = texts[1]
  BY <1>2, <1>3, <1>4, NothingBefore
<1>. QED BY <1>1, <1>2, <1>5

\* n, t and % mean one character.
LEMMA PercentMeant ==
    ASSUME NEW char \in TimeChars, char \notin Specs, NEW tm, ~TimeDiverges(char, tm)
    PROVE  TimeMeaning(char, tm) = <<char>>
<1>1. char \in {"n", "t", "%"}
  BY DEF TimeChars
<1>2. char \notin {"n", "t"}
  BY Zenon DEF TimeDiverges
<1>3. char = "%"
  BY <1>1, <1>2
<1>. QED BY <1>3 DEF TimeMeaning

\* One specification without a width is written at once (WriteSimpleCTime).
LEMMA SimplyAppended ==
    ASSUME NEW ts, NEW tm, TimesGood(ts, tm), Len(ts) = 1, NEW b \in Buffers, b.size = 0,
           Len(TimesMeaning(ts, tm)) <= BufferSize, NEW q, ~q.localize
    PROVE  Meant(WriteSimpleCTime(q, b, TimesRead(ts), tm), TimesMeaning(ts, tm))
<1>. DEFINE times == TimesRead(ts)
            char == ts[1]
            text == TimeMeaning(char, tm)
            c == AppendText(b, text)
<1>1. char \in TimeChars /\ ~TimeDiverges(char, tm) /\ TimeGood(char, tm)
  <2>1. 1 \in 1 .. Len(ts)
    BY JustOne
  <2>. QED BY <2>1, EachTime DEF TimesGood
<1>2. text \in Seq(Marks) /\ SpecText(char, tm, 0) = text
  BY <1>1, Zenon DEF TimeGood
<1>3. TimesMeaning(ts, tm) = text
  BY OnlyOne
<1>4. SimpleText(char, tm) = text
  <2>1. char # "r"
    BY <1>1, Zenon DEF TimeDiverges
  <2>. QED BY <1>2, <2>1, Zenon DEF SimpleText
<1>5. times # <<>> /\ times[1].char = char
  BY TimeReadAt
<1>6. Shows(c, text) /\ c \in Buffers
  <2>. DEFINE none == <<>>
  <2>1. Shows(b, none)
    BY EmptyShows
  <2>2. text = none \o text /\ Len(text) <= BufferSize
    BY <1>2, <1>3, NothingBefore
  <2>. HIDE DEF none, text, c
  <2>3. Shows(AppendText(b, text), text)
    BY <1>2, <2>1, <2>2, AppendShows
  <2>4. AppendText(b, text) \in Buffers
    BY <1>2, AppendInBuffers
  <2>. QED BY <2>3, <2>4 DEF c
<1>. DEFINE w == WriteSimpleCTime(q, b, times, tm)
<1>7. w = IF char \notin Specs THEN Written(<<char>>, b) ELSE Written(Prefix(c.text, c.size), c)
  <2>. HIDE DEF times, char, text
  <2>. QED BY <1>4, <1>5, Zenon DEF WriteSimpleCTime
<1>8. CASE char \notin Specs
  <2>1. text = <<char>>
    BY <1>1, <1>8, PercentMeant
  <2>. HIDE DEF text, char, w
  <2>2. w = Written(text, b)
    BY <1>7, <1>8, <2>1, Zenon
  <2>3. Meant(w, text)
    BY <1>2, <2>2 DEF Meant, Written
  <2>. QED BY <1>3, <2>3 DEF w
<1>9. CASE ~(char \notin Specs)
  <2>. HIDE DEF text, char, w, c
  <2>1. w = Written(Prefix(c.text, c.size), c)
    BY <1>7, <1>9, Zenon
  <2>2. Prefix(c.text, c.size) = text
    BY <1>6, Zenon DEF Shows
  <2>3. Meant(w, text)
    BY <1>2, <1>6, <2>1, <2>2 DEF Meant, Written
  <2>. QED BY <1>3, <2>3 DEF w
<1>. QED BY <1>8, <1>9

\* A time is written as it is meant (ArgFormatter::FormatTimeField).
LEMMA TimeField ==
    ASSUME NEW spec, NEW arg, NEW b, TimeGiven(spec, arg, b), NEW q, NEW n, q = TimeAfterLocale(n, spec)
    PROVE  Meant(FormatTimeField(q, b, TimesRead(spec.times), TimesRead(spec.times), arg.tm, Nested), FieldMeaning(spec, arg))
<1>. DEFINE ts == spec.times
            tm == arg.tm
            times == TimesRead(ts)
            all == TimesMeaning(ts, tm)
            c == FormatCTime(b, times, tm, 0)
            a == AlignOr(spec, "<")
            w == FormatTimeField(q, b, times, times, tm, Nested)
<1>1. /\ TimesGood(ts, tm) /\ all \in Seq(Marks) /\ Len(all) <= BufferSize /\ Len(ts) \in Nat
         /\ Len(ts) >= 1
  BY TimeGivenParts
<1>2. b \in Buffers /\ b.size = 0 /\ arg.type = "time" /\ spec.width \in Nat
  BY ItemTimes DEF TimeGiven
<1>3. Shows(c, all) /\ c \in Buffers
  BY <1>1, <1>2, TimesWritten
<1>4. PrecisionOf(q, Nested) = 0 /\ WidthOf(q, Nested) = spec.width /\ (q.localize <=> spec.localize)
      /\ ~(q.localize /\ ~PlainLocale)
  BY TimeDirect
<1>5. FieldMeaning(spec, arg) = Padded(spec, all, a)
  BY <1>2, Zenon DEF FieldMeaning, Texts
<1>6. Len(times) = Len(ts)
  BY <1>1, TimeReadAt
<1>7. spec.width # 0 => AlignedAs(q, spec, a)
  BY TimeAligned
<1>8. PaddedFrom(q, spec, a, c, all)
  <2>. HIDE DEF a, all, c
  <2>. QED BY <1>2, <1>3, <1>7, ShownPadded
<1>9. w = IF spec.width = 0 /\ Len(times) < 2 THEN WriteSimpleCTime(q, b, times, tm)
          ELSE IF spec.width = 0 THEN WriteBufferToContainer(c)
          ELSE Written(FormatAlignment(q, c, spec.width), c)
  <2>. HIDE DEF times, tm
  <2>. QED BY <1>4, Zenon DEF FormatTimeField
<1>10. CASE spec.width = 0 /\ Len(times) < 2
  <2>1. w = WriteSimpleCTime(q, b, times, tm)
    <3>. HIDE DEF w
    <3>. QED BY <1>9, <1>10, Zenon
  <2>2. Len(ts) = 1
    BY <1>1, <1>6, <1>10, BelowTwo
  <2>3. ~q.localize
    <3>1. ~(spec.localize /\ spec.width = 0 /\ Len(spec.times) = 1)
      BY TimePlain, Zenon DEF TimeGiven
    <3>. QED BY <1>4, <1>10, <2>2, <3>1, Zenon
  <2>4. Meant(WriteSimpleCTime(q, b, times, tm), all)
    BY <1>1, <1>2, <2>2, <2>3, SimplyAppended
  <2>5. Padded(spec, all, a) = all
    BY <1>1, <1>10, NotPadded
  <2>. HIDE DEF w, all, a
  <2>6. Meant(w, Padded(spec, all, a))
    BY <2>1, <2>4, <2>5, Zenon
  <2>. QED BY <1>5, <2>6, Zenon DEF w
<1>11. CASE ~(spec.width = 0 /\ Len(times) < 2) /\ spec.width = 0
  <2>. HIDE DEF w, all, a, c
  <2>1. w = Written(Prefix(c.text, c.size), c)
    BY <1>9, <1>11, Zenon DEF WriteBufferToContainer
  <2>2. Prefix(c.text, c.size) = Padded(spec, all, a) /\ Padded(spec, all, a) \in Seq(Marks)
    BY <1>8, <1>11, Zenon DEF PaddedFrom
  <2>3. Meant(w, Padded(spec, all, a))
    BY <1>3, <2>1, <2>2 DEF Meant, Written
  <2>. QED BY <1>5, <2>3, Zenon DEF w
<1>12. CASE spec.width # 0
  <2>. HIDE DEF w, all, a, c
  <2>1. w = Written(FormatAlignment(q, c, spec.width), c)
    BY <1>9, <1>12, Zenon
  <2>2. FormatAlignment(q, c, spec.width) = Padded(spec, all, a) /\ Padded(spec, all, a) \in Seq(Marks)
    BY <1>8, <1>12, Zenon DEF PaddedFrom
  <2>3. Meant(w, Padded(spec, all, a))
    BY <1>3, <2>1, <2>2 DEF Meant, Written
  <2>. QED BY <1>5, <2>3, Zenon DEF w
<1>. QED BY <1>10, <1>11, <1>12

------------------------------------------------------------------------------
(****************************************************************************)
(* Every field that does not differ is written as it is meant.              *)
(****************************************************************************)

\* The specification of a field, and the one that asks for nothing.
SpecIn(item) == IF HasSpec(item) THEN item.spec ELSE NoItemSpec

\* That one asks for nothing.
LEMMA NothingGiven ==
    /\ Bare(NoItemSpec) /\ NoItemSpec.precision = 0 /\ NoItemSpec.width = 0 /\ NoItemSpec.type = ""
       /\ NoItemSpec.type \in {"", "s"}
    /\ NoItemSpec.type \in {"", "c"}
BY DEF NoItemSpec, Bare

\* It fills and cuts nothing.
LEMMA NothingPadded ==
    ASSUME NEW text \in Seq(Marks)
    PROVE  TextMeaning(NoItemSpec, text) = text /\ \A a : Padded(NoItemSpec, text, a) = text
<1>1. \A a : Padded(NoItemSpec, text, a) = text
  BY NothingGiven, NotPadded
<1>2. TextMeaning(NoItemSpec, text) = Padded(NoItemSpec, text, AlignOr(NoItemSpec, "<"))
  BY NothingGiven, WholeText
<1>. QED BY <1>1, <1>2

\* A field without a specification is written as it is meant (ArgFormatter::WriteSimpleValue).
LEMMA FieldUnspecified ==
    ASSUME NEW arg \in Arguments, arg.type \notin {"time", "custom"}, NEW b \in Buffers
    PROVE  SimplyMeant(b, arg, FieldMeaning(NoItemSpec, arg))
<1>. DEFINE m == FieldMeaning(NoItemSpec, arg)
<1>1. CASE arg.type = "int"
  <2>0. arg.type \notin Texts
    BY <1>1 DEF Texts
  <2>1. m = IntMeaning(NoItemSpec, arg.n)
    BY <1>1, <2>0, Zenon DEF FieldMeaning
  <2>2. arg.n \in Int
    BY <1>1 DEF Arguments, Texts
  <2>3. m = ToChars(arg.n, 10)
    BY <2>1, <2>2, NothingGiven, BareInt
  <2>4. SimplyMeant(b, arg, ToChars(arg.n, 10))
    BY <1>1, <2>2, SimpleInt
  <2>. QED BY <2>3, <2>4, Zenon
<1>2. CASE arg.type = "float"
  <2>0. arg.type \notin Texts
    BY <1>2 DEF Texts
  <2>1. m = FloatMeaning(NoItemSpec, arg) /\ Float(arg)
    BY <1>2, <2>0, FloatArgument, Zenon DEF FieldMeaning
  <2>2. m = FloatToChars(arg, "s", 0)
    BY <2>1, NothingGiven, BareFloat
  <2>3. SimplyMeant(b, arg, FloatToChars(arg, "s", 0))
    BY <1>2, <2>1, SimpleFloat
  <2>. QED BY <2>2, <2>3, Zenon
<1>3. CASE arg.type = "bool"
  <2>0. arg.type \notin Texts
    BY <1>3 DEF Texts
  <2>1. m = TextMeaning(NoItemSpec, BoolText(arg.b))
    BY <1>3, <2>0, NothingGiven, Zenon DEF FieldMeaning
  <2>2. BoolText(arg.b) \in Seq(Marks) /\ SimplyMeant(b, arg, BoolText(arg.b))
    BY <1>3, WordMarks, SimpleWord
  <2>3. m = BoolText(arg.b)
    BY <2>1, <2>2, NothingPadded
  <2>. QED BY <2>2, <2>3, Zenon
<1>4. CASE arg.type = "char"
  <2>0. arg.type \notin Texts
    BY <1>4 DEF Texts
  <2>1. m = TextMeaning(NoItemSpec, <<arg.char>>)
    BY <1>4, <2>0, NothingGiven, Zenon DEF FieldMeaning
  <2>2. <<arg.char>> \in Seq(Marks) /\ SimplyMeant(b, arg, <<arg.char>>)
    BY <1>4, WordMarks, SimpleWord
  <2>3. m = <<arg.char>>
    BY <2>1, <2>2, NothingPadded
  <2>. QED BY <2>2, <2>3, Zenon
<1>5. CASE arg.type = "pointer"
  <2>0. arg.type \notin Texts
    BY <1>5 DEF Texts
  <2>1. m = Padded(NoItemSpec, PointerText(arg.n), AlignOr(NoItemSpec, ">"))
    BY <1>5, <2>0, Zenon DEF FieldMeaning
  <2>2. PointerText(arg.n) \in Seq(Marks) /\ SimplyMeant(b, arg, PointerText(arg.n))
    BY <1>5, WordMarks, SimpleWord
  <2>3. m = PointerText(arg.n)
    BY <2>1, <2>2, NothingPadded
  <2>. QED BY <2>2, <2>3, Zenon
<1>6. CASE arg.type \in Texts
  <2>1. arg.type \notin {"int", "float", "bool", "char", "pointer"}
    BY <1>6 DEF Texts
  <2>2. m = TextMeaning(NoItemSpec, arg.text)
    BY <1>6, <2>1 DEF FieldMeaning
  <2>3. arg.text \in Seq(Marks) /\ SimplyMeant(b, arg, arg.text)
    BY <1>6, WordMarks, SimpleWord
  <2>4. m = arg.text
    BY <2>2, <2>3, NothingPadded
  <2>. QED BY <2>3, <2>4, Zenon
<1>7. arg.type \in {"int", "float", "bool", "char", "pointer"} \/ arg.type \in Texts
  BY ArgumentTypes DEF Texts
<1>. QED BY <1>1, <1>2, <1>3, <1>4, <1>5, <1>6, <1>7

\* A field with a specification that is no time (ArgFormatter::Format).
LEMMA FieldSpecified ==
    ASSUME Grouping = << 3 >>, NEW spec, NEW arg, NEW q, NEW k, NEW b, FieldGiven(spec, arg, q, k, b),
           arg.type \notin {"time", "custom"}
    PROVE  /\ Meant(Format(q, b, arg, Nested), FieldMeaning(spec, arg))
           /\ arg.type \in Texts => Format(q, b, arg, Nested).buffer.size = b.size
<1>1. arg \in Arguments
  BY Zenon DEF FieldGiven
<1>2. arg.type \in {"int", "float", "bool", "char", "pointer"} \/ arg.type \in Texts
  BY <1>1, ArgumentTypes DEF Texts
<1>3. CASE arg.type \in Texts
  BY <1>3, TextField
<1>4. CASE arg.type \in {"int", "float", "bool", "char", "pointer"}
  <2>1. arg.type \notin Texts
    BY <1>4 DEF Texts
  <2>2. Meant(Format(q, b, arg, Nested), FieldMeaning(spec, arg))
    BY <1>4, IntField, FloatField, BoolField, CharField, PointerField
  <2>. QED BY <2>1, <2>2
<1>. QED BY <1>2, <1>3, <1>4

\* What is written for a field is meant, and the size of the buffer stays
\* unless it was used.
FieldGood(item, arg, n) ==
    /\ Meant(WrittenFor(item, arg, n), FieldMeaning(SpecIn(item), arg))
    /\ ~HasSpec(item) \/ arg.type \in Texts => WrittenFor(item, arg, n).buffer.size = buffer.size

\* What a turn of the loop writes for a field is what is meant.
LEMMA FieldAsMeant ==
    ASSUME Grouping = << 3 >>, NEW item, NEW arg, NEW n, FieldOk(item, arg, n), buffer \in Buffers,
           arg.type = "time" => buffer.size = 0
    PROVE  FieldGood(item, arg, n)
<1>1. /\ item \in Items /\ IsField(item) /\ arg \in Arguments /\ arg.type # "custom"
      /\ IF HasSpec(item) THEN ValidSpec(item.spec, arg.type)
         /\ ~FieldDiverges(item.spec, arg) ELSE arg.type # "time"
  BY Zenon DEF FieldOk
<1>. DEFINE w == WrittenFor(item, arg, n)
<1>2. CASE ~HasSpec(item)
  <2>1. w = WriteSimpleValue(buffer, arg) /\ SpecIn(item) = NoItemSpec
    BY <1>2, Zenon DEF WrittenFor, SpecIn
  <2>2. arg.type \notin {"time", "custom"}
    BY <1>1, <1>2
  <2>3. SimplyMeant(buffer, arg, FieldMeaning(NoItemSpec, arg))
    BY <1>1, <2>2, FieldUnspecified
  <2>. QED BY <2>1, <2>3, Zenon DEF SimplyMeant, FieldGood
<1>3. CASE HasSpec(item) /\ arg.type = "time"
  <2>. DEFINE spec == item.spec
              q == TimeAfterLocale(n, spec)
  <2>1. w = FormatTimeField(q, buffer, TimesRead(spec.times), TimesRead(spec.times), arg.tm, Nested) /\ SpecIn(item) = spec
    BY <1>3, Zenon DEF WrittenFor, SpecIn
  <2>2. spec \in ItemSpecs
    BY <1>1, <1>3, FieldMembers
  <2>3. TimeGiven(spec, arg, buffer)
    BY <1>1, <1>3, <2>2, Zenon DEF TimeGiven
  <2>4. Meant(FormatTimeField(q, buffer, TimesRead(spec.times), TimesRead(spec.times), arg.tm, Nested),
        FieldMeaning(spec, arg))
    BY <2>3, TimeField
  <2>5. arg.type \notin Texts
    BY <1>3 DEF Texts
  <2>. QED BY <1>3, <2>1, <2>4, <2>5, Zenon DEF FieldGood
<1>4. CASE HasSpec(item) /\ arg.type # "time"
  <2>. DEFINE spec == item.spec
              q == AfterType(n, spec, arg.type)
  <2>1. w = Format(q, buffer, arg, Nested) /\ SpecIn(item) = spec
    BY <1>4, Zenon DEF WrittenFor, SpecIn
  <2>2. spec \in ItemSpecs
    BY <1>1, <1>4, FieldMembers
  <2>3. FieldGiven(spec, arg, q, n, buffer)
    BY <1>1, <1>4, <2>2, Zenon DEF FieldGiven, FieldSpec
  <2>4. arg.type \notin {"time", "custom"}
    BY <1>1, <1>4
  <2>. HIDE DEF q, spec
  <2>5. /\ Meant(Format(q, buffer, arg, Nested), FieldMeaning(spec, arg))
        /\ arg.type \in Texts => Format(q, buffer, arg, Nested).buffer.size = buffer.size
    BY <2>3, <2>4, FieldSpecified
  <2>. QED BY <1>4, <2>1, <2>5, Zenon DEF FieldGood
<1>. QED BY <1>2, <1>3, <1>4

------------------------------------------------------------------------------
(****************************************************************************)
(* A call means what its items mean.                                        *)
(****************************************************************************)

\* What std::format makes of item i, and of the items behind item k.
ItemMeaning(items, args, i) ==
    IF IsText(items[i]) THEN <<items[i].char>>
         ELSE FieldMeaning(SpecIn(items[i]), args[ArgumentOf(items, i) + 1])

ItemMeanings(items, args) == [i \in 1 .. Len(items) |-> ItemMeaning(items, args, i)]

MeaningBehind(items, args, k) == (CHOOSE r : IsSuffixes(r, ItemMeanings(items, args)))[k]

\* What a call means is what its items mean, one after the other.
LEMMA MeaningOfItems ==
    ASSUME NEW items, NEW args
    PROVE  Meaning(items, args) = FlattenSeq(ItemMeanings(items, args))
BY Zenon DEF Meaning, ItemMeanings, ItemMeaning, SpecIn

\* A new formatter has a buffer that holds nothing.
LEMMA EmptyIsBuffer == EmptyBuffer \in Buffers /\ EmptyBuffer.size = 0
<1>1. <<>> \in Seq(Marks)
  OBVIOUS
<1>2. EmptyBuffer.text = <<>> /\ EmptyBuffer.size = 0
      /\ EmptyBuffer = [text |-> EmptyBuffer.text, size |-> EmptyBuffer.size]
  BY DEF EmptyBuffer
<1>. DEFINE t == EmptyBuffer.text
            s == EmptyBuffer.size
<1>3. t \in Seq(Marks) /\ s \in Nat /\ EmptyBuffer = [text |-> t, size |-> s]
  BY <1>1, <1>2
<1>. HIDE DEF t, s
<1>4. EmptyBuffer \in Buffers
  BY <1>3 DEF Buffers
<1>. QED BY <1>2, <1>4

\* What is meant by a field is a text.
LEMMA FieldMeansText ==
    ASSUME Grouping = << 3 >>, NEW item, NEW arg, NEW n, FieldOk(item, arg, n)
    PROVE  FieldMeaning(SpecIn(item), arg) \in Seq(Marks)
<1>. DEFINE b == EmptyBuffer
<1>1. /\ item \in Items /\ IsField(item) /\ arg \in Arguments /\ arg.type # "custom"
      /\ IF HasSpec(item) THEN ValidSpec(item.spec, arg.type)
         /\ ~FieldDiverges(item.spec, arg) ELSE arg.type # "time"
  BY Zenon DEF FieldOk
<1>2. b \in Buffers /\ b.size = 0
  BY EmptyIsBuffer
<1>. HIDE DEF b
<1>3. CASE ~HasSpec(item)
  <2>1. arg.type \notin {"time", "custom"} /\ SpecIn(item) = NoItemSpec
    BY <1>1, <1>3 DEF SpecIn
  <2>2. SimplyMeant(b, arg, FieldMeaning(NoItemSpec, arg))
    BY <1>1, <1>2, <2>1, FieldUnspecified
  <2>. QED BY <2>1, <2>2, Zenon DEF SimplyMeant, Meant
<1>4. CASE HasSpec(item)
  <2>. DEFINE spec == item.spec
              q == AfterType(n, spec, arg.type)
              p == TimeAfterLocale(n, spec)
  <2>1. spec \in ItemSpecs /\ SpecIn(item) = spec
    BY <1>1, <1>4, FieldMembers DEF SpecIn
  <2>2. CASE arg.type = "time"
    <3>1. TimeGiven(spec, arg, b)
      BY <1>1, <1>2, <1>4, <2>1, <2>2, Zenon DEF TimeGiven
    <3>2. Meant(FormatTimeField(p, b, TimesRead(spec.times), TimesRead(spec.times), arg.tm, Nested), FieldMeaning(spec, arg))
      BY <3>1, TimeField
    <3>. QED BY <2>1, <3>2, Zenon DEF Meant
  <2>3. CASE arg.type # "time"
    <3>1. FieldGiven(spec, arg, q, n, b)
      BY <1>1, <1>2, <1>4, <2>1, Zenon DEF FieldGiven, FieldSpec
    <3>2. arg.type \notin {"time", "custom"}
      BY <1>1, <2>3
    <3>. HIDE DEF q, spec
    <3>3. Meant(Format(q, b, arg, Nested), FieldMeaning(spec, arg))
      BY <3>1, <3>2, FieldSpecified
    <3>. QED BY <2>1, <3>3, Zenon DEF Meant
  <2>. QED BY <2>2, <2>3
<1>. QED BY <1>3, <1>4

\* What the items of the call behind item k mean.
MeaningIn(k) == MeaningBehind(call.items, call.args, k)

\* A call whose items have a meaning.
LEMMA ItemsMean ==
    ASSUME Grouping = << 3 >>, CallInv, Promised, NEW items, items = call.items, NEW args,
           args = call.args,
           NEW texts, texts = ItemMeanings(items, args)
    PROVE  /\ items \in Seq(Items) /\ Len(items) \in Nat /\ texts \in Seq(Seq(Marks))
              /\ Len(texts) = Len(items)
           /\ \A i \in 1 .. Len(items) : texts[i] = ItemMeaning(items, args, i)
           /\ \A i \in 1 .. Len(items) : IsText(items[i]) => texts[i] = <<items[i].char>>
<1>1. items \in Seq(Items)
  BY DEF CallInv
<1>. DEFINE n == Len(items)
<1>2. n \in Nat
  BY <1>1
<1>3. texts = [i \in 1 .. n |-> ItemMeaning(items, args, i)]
  BY Zenon DEF ItemMeanings
<1>4. ASSUME NEW i \in 1 .. n PROVE ItemMeaning(items, args, i) \in Seq(Marks)
  <2>1. items[i] \in Items
    BY <1>1
  <2>2. CASE IsText(items[i])
    <3>1. items[i].char \in Marks
      BY <2>1, <2>2, TextChar
    <3>. DEFINE c == items[i].char
    <3>2. c \in Marks /\ ItemMeaning(items, args, i) = <<c>>
      BY <2>2, <3>1, Zenon DEF ItemMeaning
    <3>. HIDE DEF c
    <3>. QED BY <3>2
  <2>3. CASE ~IsText(items[i])
    <3>1. IsField(items[i])
      BY <2>3, PromisedText
    <3>2. FieldOk(items[i], ArgOf(i), ArgumentOf(items, i))
      BY <3>1, PromisedField
    <3>3. FieldMeaning(SpecIn(items[i]), ArgOf(i)) \in Seq(Marks)
      BY <3>2, FieldMeansText
    <3>4. ItemMeaning(items, args, i) = FieldMeaning(SpecIn(items[i]), ArgOf(i))
      BY <2>3, Zenon DEF ItemMeaning, ArgOf
    <3>. QED BY <3>3, <3>4
  <2>. QED BY <2>2, <2>3
<1>. HIDE DEF n
<1>5. texts \in Seq(Seq(Marks)) /\ Len(texts) = n
  BY <1>2, <1>3, <1>4
<1>6. \A i \in 1 .. n : texts[i] = ItemMeaning(items, args, i)
  BY <1>3, Zenon
<1>7. \A i \in 1 .. n : IsText(items[i]) => texts[i] = <<items[i].char>>
  BY <1>6, Zenon DEF ItemMeaning
<1>. QED BY <1>1, <1>2, <1>5, <1>6, <1>7 DEF n

\* It is what item k means, and what the items behind it mean; a run of text
\* means itself.
LEMMA MeaningsBehind ==
    ASSUME Grouping = << 3 >>, CallInv, Promised
    PROVE  /\ \A k \in 0 .. Len(call.items) : MeaningIn(k) \in Seq(Marks)
           /\ MeaningIn(0) = Meaning(call.items, call.args) /\ MeaningIn(Len(call.items)) = <<>>
           /\ \A k \in 1 .. Len(call.items) : MeaningIn(k - 1) = ItemMeaning(call.items, call.args, k)
                \o MeaningIn(k)
           /\ \A k \in 0 .. Len(call.items), m \in Nat : k + m <= Len(call.items)
              /\ IsRun(call.items, k, m)
                  => /\ RunOf(call.items, k, m) \in Seq(Marks)
                     /\ MeaningIn(k) = RunOf(call.items, k, m) \o MeaningIn(k + m)
<1>. DEFINE items == call.items
            args == call.args
            n == Len(items)
            texts == ItemMeanings(items, args)
            r == CHOOSE r : IsSuffixes(r, texts)
<1>1. /\ items \in Seq(Items) /\ n \in Nat /\ texts \in Seq(Seq(Marks)) /\ Len(texts) = n
      /\ \A i \in 1 .. n : texts[i] = ItemMeaning(items, args, i)
      /\ \A i \in 1 .. n : IsText(items[i]) => texts[i] = <<items[i].char>>
  BY ItemsMean
<1>2. Meaning(items, args) = FlattenSeq(texts)
  BY MeaningOfItems
<1>3. IsSuffixes(r, texts)
  <2>. HIDE DEF texts
  <2>. QED BY <1>1, SuffixesExist
<1>4. \A k : MeaningIn(k) = r[k]
  BY Zenon DEF MeaningIn, MeaningBehind
<1>. HIDE DEF r, texts, args
<1>5. /\ r \in [0 .. n -> Seq(Marks)] /\ r[0] = FlattenSeq(texts) /\ r[n] = <<>>
      /\ \A k \in 1 .. n : r[k - 1] = texts[k] \o r[k]
  BY <1>1, <1>3, Zenon DEF IsSuffixes
<1>6. ASSUME NEW k \in 0 .. n, NEW m \in Nat, k + m <= n, IsRun(items, k, m)
      PROVE  RunOf(items, k, m) \in Seq(Marks) /\ r[k] = RunOf(items, k, m) \o r[k + m]
  <2>. HIDE DEF items
  <2>1. m \in 0 .. n - k
    BY <1>1, <1>6
  <2>2. RunOf(items, k, m) \in Seq(Unbracketed) /\ r[k] = RunOf(items, k, m) \o r[k + m]
    BY <1>1, <1>3, <1>6, <2>1, RunLaid
  <2>. QED BY <2>2, UnbracketedMarks
<1>7. \A k \in 1 .. n : MeaningIn(k - 1) = ItemMeaning(items, args, k) \o MeaningIn(k)
  BY <1>1, <1>4, <1>5, Zenon
<1>8. \A k \in 0 .. n : MeaningIn(k) \in Seq(Marks)
  BY <1>4, <1>5
<1>9. MeaningIn(0) = Meaning(items, args) /\ MeaningIn(n) = <<>>
  BY <1>2, <1>4, <1>5, Zenon
<1>10. \A k \in 0 .. n, m \in Nat : k + m <= n /\ IsRun(items, k, m)
           => RunOf(items, k, m) \in Seq(Marks) /\ MeaningIn(k) = RunOf(items, k, m) \o MeaningIn(k + m)
  BY <1>4, <1>6, Zenon
<1>. QED BY <1>7, <1>8, <1>9, <1>10, Zenon DEF args

------------------------------------------------------------------------------
(****************************************************************************)
(* What is written is what is meant.                                        *)
(****************************************************************************)

\* A time is still to come.
TimeBehind(k) == \E i \in k + 1 .. Len(call.items) : IsField(call.items[i]) /\ ArgOf(i).type = "time"

\* What is written is what the first k items mean, and the buffer is ready for a time.
MeantSoFar(k) ==
    /\ out \in Seq(Marks) /\ out \o MeaningIn(k) = Meaning(call.items, call.args)
    /\ buffer \in Buffers /\ (TimeBehind(k) => buffer.size = 0)

\* The numbers of a place.
LEMMA PlaceNumbers ==
    ASSUME CallInv, NEW k, Place(k), NEW n, n = Len(call.items)
    PROVE  k \in 0 .. n /\ n \in Nat /\ k \in Nat /\ n - k \in Nat /\ k + (n - k) = n
<1>1. k \in 0 .. n
  BY Zenon DEF Place
<1>2. n \in Nat
  BY CallItems
<1>. QED BY <1>1, <1>2

\* The text behind the last field is what it means.
LEMMA RestMeant ==
    ASSUME Grouping = << 3 >>, CallInv, Promised, NEW k, Place(k), MeantSoFar(k), RestTurn(k)
    PROVE  out' = Meaning(call.items, call.args)
<1>. DEFINE items == call.items
            n == Len(items)
            t == RunOf(items, k, n - k)
<1>1. k \in 0 .. n /\ n \in Nat /\ n - k \in Nat /\ k + (n - k) = n /\ n <= n
  BY PlaceNumbers
<1>2. IsRun(items, k, n - k) /\ out' = out \o RestOf(items, k)
  BY Zenon DEF RestTurn
<1>3. items \in Seq(Items)
  BY Zenon DEF CallInv
<1>4. RestOf(items, k) = t
  <2>. HIDE DEF items
  <2>. QED BY <1>1, <1>2, <1>3, RestOfText
<1>5. t \in Seq(Marks) /\ MeaningIn(k) = t \o MeaningIn(n) /\ MeaningIn(n) = <<>>
  <2>1. \A i \in 0 .. n, m \in Nat : i + m <= n /\ IsRun(items, i, m)
                  => RunOf(items, i, m) \in Seq(Marks)
                     /\ MeaningIn(i) = RunOf(items, i, m) \o MeaningIn(i + m)
    BY MeaningsBehind
  <2>2. MeaningIn(n) = <<>>
    BY MeaningsBehind
  <2>. HIDE DEF n, items
  <2>. DEFINE m == n - k
  <2>3. m \in Nat /\ k + m = n /\ IsRun(items, k, m) /\ k + m <= n
    BY <1>1, <1>2
  <2>. HIDE DEF m
  <2>4. RunOf(items, k, m) \in Seq(Marks) /\ MeaningIn(k) = RunOf(items, k, m) \o MeaningIn(n)
    BY <1>1, <2>1, <2>3, Zenon
  <2>. QED BY <2>2, <2>4 DEF m
<1>6. out \o MeaningIn(k) = Meaning(items, call.args)
  BY Zenon DEF MeantSoFar
<1>. HIDE DEF t
<1>7. MeaningIn(k) = t
  BY <1>5, NothingBehind
<1>. QED BY <1>2, <1>4, <1>6, <1>7, Zenon

\* The field of a call that is nothing else is argument 0.
LEMMA PairMeant ==
    ASSUME Grouping = << 3 >>, CallInv, Promised, NEW k, Place(k), MeantSoFar(k), PairTurn(k)
    PROVE  out' = Meaning(call.items, call.args)
<1>. DEFINE items == call.items
            args == call.args
            arg == ArgOf(1)
            m == FieldMeaning(NoItemSpec, arg)
<1>1. k = 0 /\ Len(items) = 1 /\ items[1] = Plain(Automatic) /\ WritePair
  BY Zenon DEF PairTurn
<1>2. 1 \in 1 .. Len(items) /\ IsField(items[1]) /\ ~HasSpec(items[1]) /\ ~IsText(items[1])
      /\ items[1].index = Automatic
  BY <1>1 DEF Plain, IsField, HasSpec, IsText
<1>3. /\ FieldOk(items[1], arg, ArgumentOf(items, 1))
      /\ types[ArgumentOf(items, 1) + 1] = arg.type /\ values[ArgumentOf(items, 1) + 1] = arg
      /\ ArgumentOf(items, 1) = Cardinality(FieldsIn(items, 1 - 1))
  BY <1>2, PromisedField
<1>4. ArgumentOf(items, 1) = 0
  <2>1. FieldsIn(items, 1 - 1) = {}
    BY DEF FieldsIn
  <2>. QED BY <1>3, <2>1, FS_EmptySet
<1>5. types[1] = arg.type /\ values[1] = arg
  <2>. HIDE DEF items, arg
  <2>1. types[0 + 1] = arg.type /\ values[0 + 1] = arg
    BY <1>3, <1>4, Zenon
  <2>. QED BY <2>1
<1>6. arg \in Arguments /\ arg.type \notin {"time", "custom"}
  BY <1>2, <1>3, Zenon DEF FieldOk
<1>7. Argument(0) = arg
  <2>1. arg.type # "mono"
    BY <1>6, ArgumentTypes
  <2>2. types[0 + 1] = types[1] /\ values[0 + 1] = values[1]
    OBVIOUS
  <2>. QED BY <1>5, <2>1, <2>2, Zenon DEF Argument
<1>8. out' = out \o WriteSimpleValue(buffer, arg).out
  <2>1. out' = out \o (IF types[1] = "custom" THEN Written(CustomText, buffer)
          ELSE WriteSimpleValue(buffer, Argument(0))).out
    BY <1>1, Zenon DEF WritePair
  <2>2. types[1] # "custom"
    BY <1>5, <1>6
  <2>. QED BY <1>7, <2>1, <2>2, Zenon
<1>9. out \o MeaningIn(k) = Meaning(items, args) /\ buffer \in Buffers
  BY Zenon DEF MeantSoFar
<1>10. WriteSimpleValue(buffer, arg).out = m /\ m \in Seq(Marks)
  <2>1. SimplyMeant(buffer, arg, m)
    BY <1>6, <1>9, FieldUnspecified
  <2>. QED BY <2>1, Zenon DEF SimplyMeant, Meant
<1>11. MeaningIn(0) = m
  <2>1. MeaningIn(1 - 1) = ItemMeaning(items, args, 1) \o MeaningIn(1)
    BY <1>2, MeaningsBehind
  <2>2. MeaningIn(1) = <<>>
    BY <1>1, MeaningsBehind
  <2>3. ItemMeaning(items, args, 1) = m
    BY <1>2, Zenon DEF ItemMeaning, SpecIn, ArgOf
  <2>4. m \o <<>> = m
    BY <1>10, NothingBehind
  <2>. HIDE DEF m, items, args
  <2>5. MeaningIn(0) = MeaningIn(1 - 1)
    OBVIOUS
  <2>. QED BY <2>1, <2>2, <2>3, <2>4, <2>5, Zenon
<1>. HIDE DEF m, arg
<1>. QED BY <1>1, <1>8, <1>9, <1>10, <1>11, Zenon

\* Four texts in a row.
FourLaid(a, b, c, d) ==
    /\ ((a \o b) \o c) \o <<>> \in Seq(Marks)
    /\ (((a \o b) \o c) \o <<>>) \o d = a \o (b \o (c \o d))

\* Put together from the left or from the right.
LEMMA FourTexts ==
    ASSUME NEW a \in Seq(Marks), NEW b \in Seq(Marks), NEW c \in Seq(Marks), NEW d \in Seq(Marks)
    PROVE  FourLaid(a, b, c, d)
<1>. DEFINE ab == a \o b
            abc == ab \o c
            cd == c \o d
<1>1. ab \in Seq(Marks) /\ cd \in Seq(Marks)
  BY Joined
<1>2. abc \in Seq(Marks)
  BY <1>1, Joined
<1>3. abc \o <<>> = abc
  BY <1>2, NothingBehind
<1>4. Associates(a, b, cd)
  BY <1>1, TextsAssociate
<1>. HIDE DEF ab
<1>5. Associates(ab, c, d)
  BY <1>1, TextsAssociate
<1>. QED BY <1>2, <1>3, <1>4, <1>5, Zenon DEF FourLaid, Associates, ab

\* The numbers of the next field.
LEMMA NextNumbers ==
    ASSUME NEW n \in Nat, NEW k \in 0 .. n, NEW j \in k + 1 .. n, NEW m, m = j - 1 - k
    PROVE  m \in Nat /\ k + m <= n /\ k + m = j - 1 /\ j \in 1 .. n
           /\ \A i \in j + 1 .. n : i \in k + 1 .. n /\ i > j /\ i \in 1 .. n
OBVIOUS

\* While a time is still to come, no number is left in the buffer.
LEMMA BufferKept ==
    ASSUME CallInv, Promised, NEW k, Place(k), MeantSoFar(k), NEW j \in k + 1 .. Len(call.items),
           IsField(call.items[j]),
           TimeBehind(j)
    PROVE  buffer.size = 0 /\ (~HasSpec(call.items[j]) \/ ArgOf(j).type \in Texts)
<1>. DEFINE items == call.items
            n == Len(items)
<1>1. k \in 0 .. n /\ n \in Nat
  BY PlaceNumbers
<1>2. \A i \in j + 1 .. n : i \in k + 1 .. n /\ i > j /\ i \in 1 .. n
  <2>1. j \in k + 1 .. n
    OBVIOUS
  <2>. HIDE DEF n
  <2>. QED BY <1>1, <2>1, NextNumbers
<1>3. j \in 1 .. n
  <2>1. j \in k + 1 .. n
    OBVIOUS
  <2>. HIDE DEF n
  <2>. QED BY <1>1, <2>1, NextNumbers
<1>4. PICK i \in j + 1 .. n : IsField(items[i]) /\ ArgOf(i).type = "time"
  BY Zenon DEF TimeBehind
<1>5. TimeBehind(k)
  BY <1>2, <1>4, Zenon DEF TimeBehind
<1>6. ASSUME HasSpec(items[j]), ArgOf(j).type \notin Texts PROVE FALSE
  <2>1. Diverges
    BY <1>2, <1>3, <1>4, <1>6, Zenon DEF Diverges, ArgOf
  <2>. QED BY <2>1, Zenon DEF Promised
<1>. QED BY <1>5, <1>6, Zenon DEF MeantSoFar

\* The next field is what it means, behind the text in front of it.
LEMMA NextMeant ==
    ASSUME Grouping = << 3 >>, CallInv, Promised, NEW k, Place(k), MeantSoFar(k),
           NEW j \in k + 1 .. Len(call.items), NextTurn(k, j)
    PROVE  MeantSoFar(j)'
<1>. DEFINE items == call.items
            n == Len(items)
            item == items[j]
            arg == ArgOf(j)
            p == ArgumentOf(items, j)
            w == WrittenFor(item, arg, p)
            L == RunOf(items, k, j - 1 - k)
            t == ItemMeaning(items, call.args, j)
            all == Meaning(items, call.args)
<1>1. k \in 0 .. n /\ n \in Nat
  BY PlaceNumbers
<1>2. IsField(item) /\ IsRun(items, k, j - 1 - k) /\ FieldDone(item, arg, p, L, RestOf(items, j))
  BY Zenon DEF NextTurn
<1>3. out' = ((out \o L) \o w.out) \o <<>> /\ buffer' = w.buffer /\ call' = call
  BY <1>2, Zenon DEF FieldDone, CallUnchanged
<1>4. out \in Seq(Marks) /\ out \o MeaningIn(k) = all /\ buffer \in Buffers
  BY Zenon DEF MeantSoFar
<1>5. j \in 1 .. n /\ j \in 0 .. n
  <2>1. j \in k + 1 .. n
    OBVIOUS
  <2>. HIDE DEF n
  <2>. QED BY <1>1, <2>1
<1>6. FieldOk(item, arg, p)
  BY <1>2, <1>5, PromisedField
<1>7. arg.type = "time" => buffer.size = 0
  <2>1. arg.type = "time" => TimeBehind(k)
    BY <1>2, Zenon DEF TimeBehind
  <2>. QED BY <2>1, Zenon DEF MeantSoFar
<1>8. FieldGood(item, arg, p)
  BY <1>4, <1>6, <1>7, FieldAsMeant
<1>9. w.out = t /\ t \in Seq(Marks) /\ w.buffer \in Buffers
  <2>1. item \in Items
    BY <1>6, Zenon DEF FieldOk
  <2>2. ~IsText(item)
    BY <1>2, <2>1, FieldMembers
  <2>3. t = FieldMeaning(SpecIn(item), arg)
    BY <2>2, Zenon DEF ItemMeaning, ArgOf
  <2>. QED BY <1>8, <2>3, Zenon DEF FieldGood, Meant
<1>10. L \in Seq(Marks) /\ MeaningIn(k) = L \o MeaningIn(j - 1)
  <2>. DEFINE m == j - 1 - k
  <2>1. \A i \in 0 .. n, d \in Nat : i + d <= n /\ IsRun(items, i, d)
                  => RunOf(items, i, d) \in Seq(Marks)
                     /\ MeaningIn(i) = RunOf(items, i, d) \o MeaningIn(i + d)
    BY MeaningsBehind
  <2>2. m = j - 1 - k /\ j \in k + 1 .. n /\ IsRun(items, k, m)
    BY <1>2
  <2>. HIDE DEF n, m
  <2>3. m \in Nat /\ k + m <= n /\ k + m = j - 1
    BY <1>1, <2>2, NextNumbers
  <2>4. RunOf(items, k, m) \in Seq(Marks) /\ MeaningIn(k) = RunOf(items, k, m) \o MeaningIn(j - 1)
    BY <1>1, <2>1, <2>2, <2>3, Zenon
  <2>. QED BY <2>4 DEF m
<1>11. MeaningIn(j - 1) = t \o MeaningIn(j) /\ MeaningIn(j) \in Seq(Marks)
  BY <1>5, MeaningsBehind
<1>12. out' \in Seq(Marks) /\ out' \o MeaningIn(j) = all
  <2>. DEFINE R == MeaningIn(j)
  <2>1. R \in Seq(Marks) /\ out' = ((out \o L) \o t) \o <<>> /\ all = out \o (L \o (t \o R))
    BY <1>3, <1>4, <1>9, <1>10, <1>11, Zenon
  <2>. HIDE DEF R, L, t, all
  <2>2. ((out \o L) \o t) \o <<>> \in Seq(Marks)
        /\ (((out \o L) \o t) \o <<>>) \o R = out \o (L \o (t \o R))
    <3>1. FourLaid(out, L, t, R)
      BY <1>4, <1>9, <1>10, <2>1, FourTexts
    <3>. QED BY <3>1, Zenon DEF FourLaid
  <2>3. out' \in Seq(Marks) /\ out' \o R = all
    BY <2>1, <2>2, Zenon
  <2>. QED BY <2>3 DEF R
<1>13. TimeBehind(j) => buffer'.size = 0
  <2>. SUFFICES ASSUME TimeBehind(j) PROVE buffer'.size = 0
    OBVIOUS
  <2>1. buffer.size = 0 /\ (~HasSpec(item) \/ arg.type \in Texts)
    BY <1>2, BufferKept
  <2>. QED BY <1>3, <1>8, <2>1, Zenon DEF FieldGood
<1>14. MeaningIn(j)' = MeaningIn(j) /\ TimeBehind(j)' = TimeBehind(j)
  BY <1>3, Zenon DEF MeaningIn, TimeBehind, ArgOf
<1>15. buffer' \in Buffers
  BY <1>3, <1>9
<1>. QED BY <1>3, <1>12, <1>13, <1>14, <1>15, Zenon DEF MeantSoFar

\* What a promised call has written is the meaning of the items behind which the loop stands.
AsStdInv ==
    /\ AcceptInv
    /\ Promised => /\ status = "parsing" => \E k \in 0 .. Len(call.items) : Place(k) /\ MeantSoFar(k)
                   /\ status = "done" => out = Meaning(call.items, call.args)

\* Nothing is promised at first.
LEMMA InitAsStd == Init => AsStdInv
<1>. SUFFICES ASSUME Init PROVE AsStdInv
  OBVIOUS
<1>1. AcceptInv
  BY InitAccepts
<1>2. status = "none"
  BY DEF Init
<1>. QED BY <1>1, <1>2 DEF AsStdInv

\* Nothing is written yet of what a call means.
AllAhead ==
    CallInv /\ Promised => MeaningIn(0) = Meaning(call.items, call.args) /\ MeaningIn(0) \in Seq(Marks)

\* So it is for every call.
LEMMA AllStillAhead ==
    ASSUME Grouping = << 3 >> PROVE AllAhead
<1>. SUFFICES ASSUME CallInv, Promised PROVE MeaningIn(0) = Meaning(call.items, call.args)
                     /\ MeaningIn(0) \in Seq(Marks)
  BY DEF AllAhead
<1>1. 0 \in 0 .. Len(call.items)
  <2>. DEFINE n == Len(call.items)
  <2>1. n \in Nat
    BY CallItems
  <2>. HIDE DEF n
  <2>2. 0 \in 0 .. n
    BY <2>1
  <2>. QED BY <2>2 DEF n
<1>. QED BY <1>1, MeaningsBehind

\* Every step keeps the invariant.
LEMMA StepAsStd ==
    ASSUME Grouping = << 3 >>, AsStdInv, AllAhead', [Next]_vars PROVE AsStdInv'
<1>1. AcceptInv /\ AcceptInv'
  BY StepAccepts, Zenon DEF AsStdInv
<1>2. CallInv /\ CallInv'
  BY <1>1, Zenon DEF AcceptInv
<1>3. ASSUME UNCHANGED <<types, values, call>>, status' = status \/ status' = "idle",
             UNCHANGED <<sv, argCounter, m_indexMode, out, buffer>>
      PROVE  AsStdInv'
  <2>1. Promised' = Promised
    BY <1>3, Zenon DEF Promised, Diverges
  <2>2. \A k : Place(k)' = Place(k)
    BY <1>3, Zenon DEF Place
  <2>3. \A k : MeantSoFar(k)' = MeantSoFar(k)
    BY <1>3, Zenon DEF MeantSoFar, MeaningIn, TimeBehind, ArgOf
  <2>. QED BY <1>1, <1>3, <2>1, <2>2, <2>3 DEF AsStdInv
<1>4. CASE ArgFormatter
  BY <1>3, <1>4 DEF ArgFormatter
<1>5. CASE se_format
  <2>1. Place(0)' /\ status' = "parsing"
    BY <1>1, <1>5, CallBegins
  <2>2. 0 \in 0 .. Len(call'.items)
    BY <2>1, Zenon DEF Place
  <2>3. out' = <<>> /\ buffer' = EmptyBuffer
    BY <1>5, Zenon DEF se_format
  <2>4. buffer' \in Buffers /\ buffer'.size = 0
    BY <2>3, EmptyIsBuffer
  <2>5. ASSUME Promised' PROVE MeantSoFar(0)'
    <3>1. MeaningIn(0)' = Meaning(call'.items, call'.args) /\ MeaningIn(0)' \in Seq(Marks)
      BY <1>2, <2>5, Zenon DEF AllAhead
    <3>2. <<>> \o MeaningIn(0)' = MeaningIn(0)'
      <4>. DEFINE m == MeaningIn(0)'
      <4>1. m \in Seq(Marks)
        BY <3>1
      <4>. HIDE DEF m
      <4>2. <<>> \o m = m
        BY <4>1, NothingBefore
      <4>. QED BY <4>2 DEF m
    <3>3. <<>> \in Seq(Marks)
      OBVIOUS
    <3>. QED BY <2>3, <2>4, <3>1, <3>2, <3>3, Zenon DEF MeantSoFar
  <2>6. AcceptInv'
    BY <1>1
  <2>. QED BY <2>1, <2>2, <2>5, <2>6 DEF AsStdInv
<1>6. CASE ParseFormatString
  <2>1. CallUnchanged
    BY <1>6, Zenon DEF ParseFormatString
  <2>2. TextInv'
    BY <1>2, Zenon DEF CallInv, TextInv
  <2>3. Promised' = Promised /\ call' = call
    BY <1>2, <2>1, <2>2, SameCall DEF CallUnchanged
  <2>4. status = "parsing"
    BY <1>6, Zenon
       DEF ParseFormatString, WriteRest, WritePair, SubstituteSimple, FormatCustom, FormatSpecified,
          FormatTime, ReportError, FieldAhead
  <2>5. ASSUME Promised
        PROVE  /\ status' = "parsing" => \E j \in 0 .. Len(call.items) : Place(j)' /\ MeantSoFar(j)'
               /\ status' = "done" => out' = Meaning(call.items, call.args)
    <3>1. PICK k \in 0 .. Len(call.items) : Place(k) /\ MeantSoFar(k)
      BY <2>4, <2>5 DEF AsStdInv
    <3>2. CASE RestTurn(k)
      <4>1. out' = Meaning(call.items, call.args) /\ status' = "done"
        BY <1>2, <2>5, <3>1, <3>2, RestMeant DEF RestTurn
      <4>. QED BY <4>1
    <3>3. CASE PairTurn(k)
      <4>1. out' = Meaning(call.items, call.args)
        BY <1>2, <2>5, <3>1, <3>3, PairMeant
      <4>2. status' = "done"
        BY <3>3, Zenon DEF PairTurn, WritePair
      <4>. QED BY <4>1, <4>2
    <3>4. ASSUME NEW j \in k + 1 .. Len(call.items), NextTurn(k, j)
          PROVE  status' = "parsing" /\ j \in 0 .. Len(call.items) /\ Place(j)' /\ MeantSoFar(j)'
      <4>1. Place(j)' /\ status' = status
        BY <1>2, <2>5, <3>1, <3>4, NextPlace
      <4>2. MeantSoFar(j)'
        BY <1>2, <2>5, <3>1, <3>4, NextMeant
      <4>3. j \in 0 .. Len(call.items)
        <5>. DEFINE n == Len(call.items)
        <5>1. k \in 0 .. n /\ n \in Nat /\ j \in k + 1 .. n
          BY <1>2, <3>1, PlaceNumbers
        <5>. HIDE DEF n
        <5>2. j \in 1 .. n
          BY <5>1, NextNumbers
        <5>3. j \in 0 .. n
          BY <5>1, <5>2
        <5>. QED BY <5>3 DEF n
      <4>. QED BY <2>4, <4>1, <4>2, <4>3
    <3>5. RestTurn(k) \/ PairTurn(k) \/ \E j \in k + 1 .. Len(call.items) : NextTurn(k, j)
      BY <1>2, <1>6, <2>4, <2>5, <3>1, Turn
    <3>. QED BY <3>2, <3>3, <3>4, <3>5, Zenon
  <2>6. AcceptInv'
    BY <1>1
  <2>. QED BY <2>3, <2>5, <2>6, Zenon DEF AsStdInv
<1>7. CASE Terminated \/ UNCHANGED vars
  BY <1>3, <1>7 DEF Terminated, vars
<1>. QED BY <1>4, <1>5, <1>6, <1>7 DEF Next

\* What is written for a call std::format accepts is what std::format writes, in a
\* locale that groups digits by three.
THEOREM WritesAsStdFormat ==
    ASSUME Grouping = << 3 >> PROVE Spec => []AsStdFormat
<1>1. AsStdInv => AsStdFormat
  BY DEF AsStdInv, AsStdFormat
<1>2. AllAhead
  BY AllStillAhead
<1>3. AsStdInv /\ AllAhead' /\ [Next]_vars => AsStdInv'
  BY StepAsStd
<1>. QED BY <1>1, <1>2, <1>3, InitAsStd, PTL DEF Spec
==============================================================================
