-------------------------- MODULE MessageLine_proofs --------------------------
(***************************************************************************)
(* Caches and lines for every pattern, clock, message and sequence of calls: *)
(* a field that caches is never stale, a line is that of its message, and   *)
(* it says what its pattern means.  First the formatter classes and the     *)
(* target; then the text of a pattern, the parser, and the fields it leaves. *)
(* What a text is made of (KeyText) does not matter here and stays closed.  *)
(***************************************************************************)
EXTENDS MessageLine, SequenceTheorems, InductionLemmas, TLAPS

IsField(f) == f = [class |-> f.class, value |-> f.value, key |-> f.key, text |-> f.text]
Fresh(f) == f.class \in Direct => f.text = KeyText(f.class, f.key)

-----------------------------------------------------------------------------
(* The formatter classes.                                                    *)
LEMMA DirectCached == Direct \subseteq Cached /\ "r" \notin Direct /\ "z" \notin Direct
  BY DEF Direct, Cached, KeyClasses

\* A direct class remembers the key it compares.
LEMMA DirectRemembered ==
  ASSUME NEW class \in Direct, NEW info
  PROVE  Remembered(class, info) = Compared(class, info) /\ class \notin DayClasses
  BY DEF Direct, KeyClasses, DayClasses, Remembered

\* The parts of a field that is changed.
LEMMA KeyAndText ==
  ASSUME NEW f, NEW key, NEW text, IsField(f)
  PROVE  [f EXCEPT !.key = key, !.text = text]
             = [class |-> f.class, value |-> f.value, key |-> key, text |-> text]
  <1> DEFINE r == [class |-> f.class, value |-> f.value, key |-> f.key, text |-> f.text]
             k == [class |-> f.class, value |-> f.value, key |-> key, text |-> f.text]
  <1>1. f = r BY DEF IsField
  <1>2. [f EXCEPT !.key = key, !.text = text] = [r EXCEPT !.key = key, !.text = text] BY <1>1
  <1>3. [r EXCEPT !.key = key, !.text = text] = [[r EXCEPT !.key = key] EXCEPT !.text = text] BY Zenon
  <1>4. [r EXCEPT !.key = key] = k OBVIOUS
  <1>5. [k EXCEPT !.text = text] = [class |-> f.class, value |-> f.value, key |-> key, text |-> text]
    OBVIOUS
  <1> QED BY <1>2, <1>3, <1>4, <1>5

\* A field whose text alone is changed stays a field of its class.
LEMMA TextOnly ==
  ASSUME NEW f, NEW text, IsField(f)
  PROVE  LET g == [f EXCEPT !.text = text] IN
         IsField(g) /\ g.class = f.class /\ g.value = f.value
  <1> DEFINE r == [class |-> f.class, value |-> f.value, key |-> f.key, text |-> f.text]
  <1>1. f = r BY DEF IsField
  <1>2. [f EXCEPT !.text = text] = [class |-> f.class, value |-> f.value, key |-> f.key, text |-> text]
    <2>1. [f EXCEPT !.text = text] = [r EXCEPT !.text = text] BY <1>1
    <2> QED BY <2>1
  <1> QED BY <1>2 DEF IsField

\* UpdateInternalView leaves a direct class with the text of its new key.
LEMMA UpdatedView ==
  ASSUME NEW f, NEW info, IsField(f)
  PROVE  LET g == UpdateInternalView(f, info) IN
         /\ IsField(g) /\ g.class = f.class /\ g.key = Remembered(f.class, info)
         /\ f.class \in Direct => g.text = KeyText(f.class, Remembered(f.class, info))
  <1> DEFINE key == Remembered(f.class, info)
             text == IF f.class \in DayClasses THEN DayText(f.class, info.tm) ELSE KeyText(f.class, key)
             g == UpdateInternalView(f, info)
  <1>1. g = [f EXCEPT !.key = key, !.text = text] BY DEF UpdateInternalView
  <1>2. f.class \in Direct => text = KeyText(f.class, key) BY DirectRemembered
  <1>3. IsField(g) /\ g.class = f.class /\ g.key = key /\ g.text = text
    <2> HIDE DEF key, text
    <2>1. [f EXCEPT !.key = key, !.text = text]
              = [class |-> f.class, value |-> f.value, key |-> key, text |-> text]
      BY KeyAndText, Zenon
    <2> HIDE DEF g
    <2> QED BY <1>1, <2>1 DEF IsField
  <1> QED BY <1>2, <1>3

\* Twelve hour fields change in nothing but their text.
LEMMA UpdatedTwelve ==
  ASSUME NEW f, NEW info, IsField(f)
  PROVE  IsField(UpdateTwelveHour(f, info)) /\ UpdateTwelveHour(f, info).class = f.class
  BY DEF IsField, UpdateTwelveHour

\* A field is built with the text of the moment.
LEMMA Constructed ==
  ASSUME NEW class, NEW value, NEW info
  PROVE  LET f == Construct(class, value, info) IN IsField(f) /\ f.class = class /\ Fresh(f)
  <1> DEFINE f == Field(class, value)
  <1>1. IsField(f) /\ f.class = class BY DEF IsField, Field
  <1>2. CASE class \in Direct
    <2>1. Construct(class, value, info) = UpdateInternalView(f, info)
      BY <1>2 DEF Construct, Direct, KeyClasses, Cached
    <2> QED BY <1>1, <1>2, <2>1, UpdatedView DEF Fresh
  <1>3. CASE class \notin Direct
    <2>1. CASE class = "b"
      <3>1. Construct(class, value, info) = [f EXCEPT !.key = info.tm.mon] BY <2>1 DEF Construct
      <3> QED BY <1>3, <3>1 DEF Field, IsField, Fresh
    <2>2. CASE class = "T"
      <3> DEFINE text == KeyText("T", <<info.tm.hour, info.tm.min>>) \o <<":">>
      <3>1. Construct(class, value, info) = [f EXCEPT !.key = <<info.tm.hour, info.tm.min>>, !.text = text]
        BY <2>2 DEF Construct
      <3> HIDE DEF text, f
      <3> DEFINE key == <<info.tm.hour, info.tm.min>>
      <3> HIDE DEF key
      <3>2. [f EXCEPT !.key = key, !.text = text]
                = [class |-> f.class, value |-> f.value, key |-> key, text |-> text]
        BY <1>1, KeyAndText, Zenon
      <3> QED BY <1>1, <1>3, <3>1, <3>2 DEF Fresh, IsField, key
    <2>3. CASE class = "r"
      <3> DEFINE g == [f EXCEPT !.text = <<"", "">>]
      <3>1. IsField(g) /\ g.class = class
        <4> HIDE DEF f
        <4> QED BY <1>1, TextOnly
      <3>2. Construct(class, value, info) = UpdateTwelveHour(g, info)
        BY <2>3 DEF Construct, Cached, KeyClasses, DayClasses
      <3> HIDE DEF g
      <3> QED BY <1>3, <3>1, <3>2, UpdatedTwelve DEF Fresh
    <2>4. CASE class = "Z"
      <3>1. Construct(class, value, info) = [f EXCEPT !.text = <<info.zone.abbrev>>] BY <2>4 DEF Construct, Cached, KeyClasses, DayClasses
      <3> HIDE DEF f
      <3> QED BY <1>1, <1>3, <3>1, TextOnly DEF Fresh
    <2>5. CASE class = "char"
      <3>1. Construct(class, value, info) = [f EXCEPT !.text = value] BY <2>5 DEF Construct, Cached, KeyClasses, DayClasses
      <3> HIDE DEF f
      <3> QED BY <1>1, <1>3, <3>1, TextOnly DEF Fresh
    <2>6. CASE class \in Cached \ {"b", "T"}
      <3>1. Construct(class, value, info) = UpdateInternalView(f, info)
        BY <2>6 DEF Construct, Cached, KeyClasses, DayClasses
      <3> QED BY <1>1, <1>3, <3>1, UpdatedView DEF Fresh
    <2>7. CASE class \notin {"b", "T", "r", "Z", "char"} /\ class \notin Cached \ {"b", "T"}
      <3>1. Construct(class, value, info) = f BY <2>7 DEF Construct
      <3> QED BY <1>1, <1>3, <3>1 DEF Fresh
    <2> QED BY <2>1, <2>2, <2>3, <2>4, <2>5, <2>6, <2>7
  <1> QED BY <1>2, <1>3

\* A line keeps the field what it was, or brings it up to date.
LEMMA Formatted ==
  ASSUME NEW f, NEW info, IsField(f), Fresh(f)
  PROVE  LET g == After(f, info) IN
         /\ IsField(g) /\ g.class = f.class /\ Fresh(g)
         /\ f.class \in Direct => g.text = KeyText(f.class, Compared(f.class, info))
  <1>1. CASE f.class \in Cached
    <2>1. CASE Compared(f.class, info) = f.key
      <3>1. After(f, info) = f BY <1>1, <2>1 DEF After, Cached, KeyClasses, DayClasses
      <3> QED BY <2>1, <3>1 DEF Fresh
    <2>2. CASE Compared(f.class, info) # f.key
      <3>1. After(f, info) = UpdateInternalView(f, info)
        BY <1>1, <2>2 DEF After, Cached, KeyClasses, DayClasses
      <3> QED BY <3>1, UpdatedView, DirectRemembered DEF Fresh
    <2> QED BY <2>1, <2>2
  <1>2. CASE f.class \notin Cached
    <2>1. f.class \notin Direct BY <1>2, DirectCached
    <2>2. CASE f.class = "r" BY <1>2, <2>1, <2>2, UpdatedTwelve DEF After, Fresh
    <2>3. CASE f.class = "z" BY <1>2, <2>1, <2>3 DEF After, Fresh, IsField
    <2>4. CASE f.class \notin {"r", "z"} BY <1>2, <2>1, <2>4 DEF After, Fresh
    <2> QED BY <2>2, <2>3, <2>4
  <1> QED BY <1>1, <1>2

\* What FormatUserPattern appends for a field.
LEMMA ShownText ==
  ASSUME NEW f, NEW info
  PROVE  /\ f.class \in Direct => Shown(f, info) = After(f, info).text
         /\ f.class = "N" => Shown(f, info) = <<info.name>>
         /\ f.class = "+" => Shown(f, info) = info.message
  BY DEF Shown, Direct, KeyClasses, Cached, DayClasses

-----------------------------------------------------------------------------
(* The target.                                                               *)
IsSeq(s) == \E S : s \in Seq(S)
FieldsOK == IsSeq(fields) /\ \A i \in 1 .. Len(fields) : IsField(fields[i]) /\ Fresh(fields[i])

\* What was read from the clock at the last message was read as one.
TimeOK ==
    /\ clock \in 1 .. Len(Instants)
    /\ \E i \in 1 .. Len(Instants) : cache = Instants[i].tm /\ lastLogPoint = Instants[i].second

LineOK == LineCurrent /\ (Parsing => line = NoLine)

Inv == FieldsOK /\ TimeOK /\ LineOK

\* StoreFormat adds a field at the end and leaves the others alone.
LEMMA Appended ==
  ASSUME NEW s, NEW e, IsSeq(s)
  PROVE  /\ IsSeq(Append(s, e)) /\ Len(Append(s, e)) = Len(s) + 1 /\ Len(s) \in Nat
         /\ \A i \in 1 .. Len(s) : Append(s, e)[i] = s[i]
         /\ Append(s, e)[Len(s) + 1] = e
  <1>1. PICK S : s \in Seq(S) BY DEF IsSeq
  <1> DEFINE T == S \union {e}
  <1>2. s \in Seq(T)
    <2>1. Len(s) \in Nat /\ s \in [1 .. Len(s) -> S] BY <1>1
    <2>2. s \in [1 .. Len(s) -> T] BY <2>1
    <2> QED BY <2>1, <2>2
  <1>3. e \in T OBVIOUS
  <1> HIDE DEF T
  <1>4. Append(s, e) \in Seq(T) BY <1>2, <1>3
  <1> QED BY <1>2, <1>3, <1>4 DEF IsSeq

\* A sequence made element by element has as many elements.
LEMMA Indexed ==
  ASSUME NEW s, NEW n \in Nat, s = [i \in 1 .. n |-> s[i]]
  PROVE  IsSeq(s) /\ Len(s) = n
  <1> DEFINE T == {s[i] : i \in 1 .. n}
  <1>1. s \in [1 .. n -> T] OBVIOUS
  <1> HIDE DEF T
  <1>2. s \in Seq(T) BY <1>1
  <1>3. Len(s) = n BY <1>1, <1>2
  <1> QED BY <1>2, <1>3 DEF IsSeq

\* A target starts with it.
LEMMA InitInv == Init => Inv
  <1> SUFFICES ASSUME Init PROVE Inv OBVIOUS
  <1>1. FieldsOK
    <2>1. fields = <<>> /\ <<>> \in Seq({}) /\ Len(<<>>) = 0 BY DEF Init
    <2> QED BY <2>1 DEF FieldsOK, IsSeq
  <1>2. TimeOK BY DEF Init, TimeOK
  <1>3. LineOK BY DEF Init, LineOK, LineCurrent
  <1> QED BY <1>1, <1>2, <1>3 DEF Inv

\* A turn of StoreFormat adds one field, built for the present time and level.
LEMMA StoreStep ==
  ASSUME Inv, StoreUnknownFlag \/ StoreFlag \/ StoreText \/ PatternStored
  PROVE  Inv'
  <1>1. Parsing /\ ParsingUnchanged
    BY DEF StoreUnknownFlag, StoreFlag, StoreText, PatternStored
  <1>2. fields' = fields \/ \E class, value : Emplace_Back(class, value)
    BY DEF StoreUnknownFlag, StoreFlag, StoreText, PatternStored
  <1>3. FieldsOK'
    <2>1. CASE fields' = fields BY <2>1 DEF Inv, FieldsOK
    <2>2. ASSUME NEW class, NEW value, Emplace_Back(class, value) PROVE FieldsOK'
      <3> DEFINE f == Construct(class, value, Info)
      <3>1. fields' = Append(fields, f) BY <2>2 DEF Emplace_Back
      <3>2. IsField(f) /\ Fresh(f) BY Constructed
      <3> HIDE DEF f
      <3>3. /\ IsSeq(fields') /\ Len(fields') = Len(fields) + 1 /\ Len(fields) \in Nat
            /\ \A i \in 1 .. Len(fields) : fields'[i] = fields[i]
            /\ fields'[Len(fields) + 1] = f
        BY <3>1, Appended DEF Inv, FieldsOK
      <3>4. ASSUME NEW i \in 1 .. Len(fields') PROVE IsField(fields'[i]) /\ Fresh(fields'[i])
        <4>1. CASE i \in 1 .. Len(fields) BY <3>3, <4>1 DEF Inv, FieldsOK
        <4>2. CASE i = Len(fields) + 1 BY <3>2, <3>3, <4>2
        <4> QED BY <3>3, <4>1, <4>2
      <3> QED BY <3>3, <3>4 DEF FieldsOK
    <2> QED BY <1>2, <2>1, <2>2
  <1>4. TimeOK' BY <1>1 DEF Inv, TimeOK, ParsingUnchanged, timeVars
  <1>5. line' = NoLine /\ NoLine' = NoLine BY <1>1 DEF Inv, LineOK, ParsingUnchanged, NoLine
  <1> QED BY <1>3, <1>4, <1>5 DEF Inv, LineOK, LineCurrent

\* A call of the owner keeps every field, or starts a pattern anew.
LEMMA CallStep ==
  ASSUME Inv, line' = NoLine, fields' = fields \/ fields' = <<>>,
         UNCHANGED timeVars, clock' \in 1 .. Len(Instants)
  PROVE  Inv'
  <1>1. FieldsOK'
    <2>1. CASE fields' = fields BY <2>1 DEF Inv, FieldsOK
    <2>2. CASE fields' = <<>>
      <3>1. <<>> \in Seq({}) /\ Len(<<>>) = 0 OBVIOUS
      <3> QED BY <2>2, <3>1 DEF FieldsOK, IsSeq
    <2> QED BY <2>1, <2>2
  <1>2. TimeOK' BY DEF Inv, TimeOK, timeVars
  <1>3. LineOK' BY DEF LineOK, LineCurrent, NoLine
  <1> QED BY <1>1, <1>2, <1>3 DEF Inv

\* The cache is the time of the message, even when it was not read again.
LEMMA TimeStep ==
  ASSUME Inv, NEW m, BeginMessage(m)
  PROVE  TimeOK' /\ cache' = Instants[clock].tm /\ clock' = clock
  <1>1. clock' = clock /\ UpdateCache BY DEF BeginMessage
  <1>2. clock \in DOMAIN Instants /\ DOMAIN Instants = 1 .. Len(Instants)
    BY MessageAssumption DEF Inv, TimeOK
  <1>3. PICK i \in 1 .. Len(Instants) : cache = Instants[i].tm /\ lastLogPoint = Instants[i].second
    BY DEF Inv, TimeOK
  <1>4. \A k, j \in DOMAIN Instants :
            Instants[k].second = Instants[j].second => Instants[k].tm = Instants[j].tm
    BY MessageAssumption
  <1>5. CASE Instants[clock].second # lastLogPoint BY <1>1, <1>2, <1>5 DEF UpdateCache, TimeOK
  <1>6. CASE Instants[clock].second = lastLogPoint
    <2>1. cache' = cache /\ lastLogPoint' = lastLogPoint BY <1>1, <1>6 DEF UpdateCache, timeVars
    <2>2. cache = Instants[clock].tm BY <1>2, <1>3, <1>4, <1>6
    <2> QED BY <1>1, <1>2, <1>3, <2>1, <2>2 DEF TimeOK
  <1> QED BY <1>5, <1>6

\* A refused message reads the clock and changes no field.
LEMMA RefuseStep ==
  ASSUME Inv, NEW m, RefuseMessage(m)
  PROVE  Inv'
  <1>1. BeginMessage(m) /\ line' = NoLine /\ fields' = fields BY DEF RefuseMessage
  <1>2. FieldsOK' BY <1>1 DEF Inv, FieldsOK
  <1>3. TimeOK' BY <1>1, TimeStep
  <1>4. LineOK' BY <1>1 DEF LineOK, LineCurrent, NoLine
  <1> QED BY <1>2, <1>3, <1>4 DEF Inv

\* The line is made of the fields as they are after it, for this message.
LEMMA LogStep ==
  ASSUME Inv, NEW m, LogMessage(m)
  PROVE  Inv'
  <1> DEFINE now == Info'
             n == Len(fields)
  <1>1. BeginMessage(m) BY DEF LogMessage
  <1>2. n \in Nat
    <2>1. PICK S : fields \in Seq(S) BY DEF Inv, FieldsOK, IsSeq
    <2> QED BY <2>1
  <1>3. fields' = [i \in 1 .. n |-> After(fields[i], now)] BY DEF LogMessage
  <1>4. line'.pieces = [i \in 1 .. n |-> Shown(fields[i], now)] BY DEF LogMessage
  <1>5. now.name = name' /\ now.message = message' BY DEF Info
  <1>6. Truth' = now
    <2>1. cache' = Instants'[clock'].tm BY <1>1, TimeStep
    <2>2. Truth' = [now EXCEPT !.tm = cache'] BY <2>1 DEF Truth
    <2> QED BY <2>2 DEF Info
  <1> HIDE DEF now
  <1>7. IsSeq(fields') /\ Len(fields') = n /\ \A i \in 1 .. n : fields'[i] = After(fields[i], now)
    <2> HIDE DEF n
    <2>1. \A i \in 1 .. n : fields'[i] = After(fields[i], now) BY <1>3
    <2>2. fields' = [i \in 1 .. n |-> fields'[i]] BY <1>3
    <2> QED BY <1>2, <2>1, <2>2, Indexed
  <1>8. ASSUME NEW i \in 1 .. n
        PROVE  /\ IsField(fields'[i]) /\ Fresh(fields'[i]) /\ fields'[i].class = fields[i].class
               /\ fields[i].class \in Direct =>
                      line'.pieces[i] = KeyText(fields[i].class, Compared(fields[i].class, now))
               /\ fields[i].class = "N" => line'.pieces[i] = <<now.name>>
               /\ fields[i].class = "+" => line'.pieces[i] = now.message
    <2> DEFINE f == fields[i]
    <2>1. IsField(f) /\ Fresh(f) BY DEF Inv, FieldsOK
    <2>2. fields'[i] = After(f, now) BY <1>7
    <2>3. line'.pieces[i] = Shown(f, now) BY <1>4
    <2> HIDE DEF f
    <2>4. /\ IsField(After(f, now)) /\ After(f, now).class = f.class /\ Fresh(After(f, now))
          /\ f.class \in Direct => After(f, now).text = KeyText(f.class, Compared(f.class, now))
      BY <2>1, Formatted
    <2>5. /\ f.class \in Direct => Shown(f, now) = After(f, now).text
          /\ f.class = "N" => Shown(f, now) = <<now.name>>
          /\ f.class = "+" => Shown(f, now) = now.message
      BY ShownText
    <2>6. /\ IsField(fields'[i]) /\ Fresh(fields'[i]) /\ fields'[i].class = f.class
          /\ f.class \in Direct => line'.pieces[i] = KeyText(f.class, Compared(f.class, now))
          /\ f.class = "N" => line'.pieces[i] = <<now.name>>
          /\ f.class = "+" => line'.pieces[i] = now.message
      BY <2>2, <2>3, <2>4, <2>5
    <2> QED BY <2>6 DEF f
  <1>9. FieldsOK' BY <1>7, <1>8 DEF FieldsOK
  <1>10. TimeOK' BY <1>1, TimeStep
  <1>11. LineCurrent' BY <1>5, <1>6, <1>7, <1>8 DEF LineCurrent
  <1>12. ~Parsing' BY <1>1 DEF BeginMessage, Parsing
  <1> QED BY <1>9, <1>10, <1>11, <1>12 DEF Inv, LineOK

\* Every call keeps it.
LEMMA NextInv == Inv /\ [Next]_vars => Inv'
  <1> SUFFICES ASSUME Inv, [Next]_vars PROVE Inv' OBVIOUS
  <1> DEFINE Setting ==
        /\ line' = NoLine /\ (fields' = fields \/ fields' = <<>>)
        /\ UNCHANGED timeVars /\ clock' \in 1 .. Len(Instants)
  <1>1. clock \in 1 .. Len(Instants) BY DEF Inv, TimeOK
  <1>2. CASE StoreUnknownFlag \/ StoreFlag \/ StoreText \/ PatternStored BY <1>2, StoreStep
  <1>3. CASE (\E items \in Patterns : SetPattern(items)) \/ ResetPatternToDefault
    <2>1. Setting BY <1>1, <1>3 DEF SetPattern, ResetPatternToDefault, Called
    <2> QED BY <2>1, CallStep
  <1>4. CASE \/ \E level \in LogLevels : SetLogLevel(level)
             \/ \E newName \in Names : SetLoggerName(newName)
             \/ \E enable \in BOOLEAN : EnableMultiThreadingSupport(enable)
             \/ SetLocale
    <2>1. Setting
      BY <1>1, <1>4 DEF SetLogLevel, SetLoggerName, EnableMultiThreadingSupport, SetLocale, Called,
                        patternVars
    <2> QED BY <2>1, CallStep
  <1>5. CASE \/ \E c \in ColourSettings : SetMsgColor(c.level, c.colour)
             \/ SetOriginalColors
             \/ \E colorize \in BOOLEAN : ColorizeOutput(colorize)
             \/ \E mode \in Consoles : SetConsoleInterface(mode)
    <2>1. Setting
      BY <1>1, <1>5 DEF SetMsgColor, SetOriginalColors, ColorizeOutput, SetConsoleInterface, Called,
                        patternVars
    <2> QED BY <2>1, CallStep
  <1>6. CASE Tick
    <2>1. Setting BY <1>6 DEF Tick, Called, patternVars
    <2> QED BY <2>1, CallStep
  <1>7. ASSUME NEW m \in Messages, Discard(m) PROVE Inv'
    <2>1. Setting BY <1>1, <1>7 DEF Discard, Called, patternVars
    <2> QED BY <2>1, CallStep
  <1>8. ASSUME NEW m \in Messages, LogMessage(m) PROVE Inv' BY <1>8, LogStep
  <1>9. ASSUME NEW m \in Messages, RefuseMessage(m) PROVE Inv' BY <1>9, RefuseStep
  <1>10. CASE UNCHANGED vars
    <2> USE <1>10 DEF vars, timeVars, infoVars, patternVars
    <2>1. FieldsOK' BY DEF Inv, FieldsOK
    <2>2. TimeOK' BY DEF Inv, TimeOK
    <2>3. LineOK' BY DEF Inv, LineOK, LineCurrent, Parsing, NoLine, Truth, Info
    <2> QED BY <2>1, <2>2, <2>3 DEF Inv
  <1> QED BY <1>2, <1>3, <1>4, <1>5, <1>6, <1>7, <1>8, <1>9, <1>10 DEF Next, Terminated

\* So it always holds.
LEMMA SpecInv == Spec => []Inv
  BY InitInv, NextInv, PTL DEF Spec

\* No field ever holds a text that was made of another key than the one it
\* compares with, for every pattern, clock and order of the calls.
THEOREM Caches == Spec => []FieldsFresh
  <1>1. Inv => FieldsFresh BY DEF Inv, FieldsOK, FieldsFresh, Fresh
  <1> QED BY <1>1, SpecInv, PTL

\* A line is that of its own message: its time, level, name and text, whatever
\* the fields, the cache and the level were left with by what came before.
THEOREM Lines == Spec => []LineCurrent
  <1>1. Inv => LineCurrent BY DEF Inv, LineOK
  <1> QED BY <1>1, SpecInv, PTL

\* The one entry of the table that is no letter.
Spaced == " %B"

\* An item is a text or a flag.
LEMMA ItemKinds ==
  ASSUME NEW item \in Items
  PROVE  \/ ~IsFlag(item) /\ item.chars \in Seq(STRING)
         \/ IsFlag(item) /\ item.letter \in STRING /\ item.letter # Spaced /\ item.spec \in Seq(STRING)
  <1>1. CASE item \in [chars : Seq(STRING)]
    <2>1. DOMAIN item = {"chars"} BY <1>1
    <2> QED BY <1>1, <2>1 DEF IsFlag
  <1>2. CASE item \in [letter : STRING \ {Spaced}, spec : Seq(STRING)]
    <2>1. DOMAIN item = {"letter", "spec"} BY <1>2
    <2> QED BY <1>2, <2>1 DEF IsFlag
  <1> QED BY <1>1, <1>2, Zenon DEF Items, Spaced

\* What a pattern is written with.
Char == STRING \union {"%", ":"}

\* What an item is written as is a text.
LEMMA ItemText ==
  ASSUME NEW item \in Items
  PROVE  RenderItem(item) \in Seq(Char)
  <1> DEFINE colon == <<":">>
             none == <<>>
             flag == <<"%", item.letter>>
             spec == item.spec
             rest == IF spec = <<>> THEN none ELSE colon \o spec
  <1>1. \A s \in Seq(STRING) : s \in Seq(Char)
    <2> SUFFICES ASSUME NEW s \in Seq(STRING) PROVE s \in Seq(Char) OBVIOUS
    <2>1. Len(s) \in Nat /\ s \in [1 .. Len(s) -> STRING] OBVIOUS
    <2>2. s \in [1 .. Len(s) -> Char] BY <2>1 DEF Char
    <2> HIDE DEF Char
    <2> QED BY <2>1, <2>2
  <1>2. CASE ~IsFlag(item)
    <2>1. item.chars \in Seq(STRING) BY <1>2, ItemKinds
    <2> QED BY <1>1, <1>2, <2>1 DEF RenderItem
  <1>3. CASE IsFlag(item)
    <2>1. item.letter \in Char /\ spec \in Seq(Char) BY <1>1, <1>3, ItemKinds DEF Char
    <2>2. "%" \in Char /\ ":" \in Char BY DEF Char
    <2> HIDE DEF Char
    <2>3. flag \in Seq(Char) /\ colon \in Seq(Char) /\ none \in Seq(Char) BY <2>1, <2>2
    <2>4. RenderItem(item) = flag \o rest BY <1>3 DEF RenderItem
    <2> HIDE DEF colon, none, spec, flag
    <2>5. rest \in Seq(Char) BY <2>1, <2>3
    <2> QED BY <2>3, <2>4, <2>5
  <1> QED BY <1>2, <1>3

\* One text behind another.
LEMMA TextBehind ==
  ASSUME NEW S, NEW s \in Seq(S), NEW t \in Seq(S)
  PROVE  /\ s \o t \in Seq(S) /\ Len(s \o t) = Len(s) + Len(t) /\ Len(s) \in Nat /\ Len(t) \in Nat
         /\ \A i \in 1 .. Len(s) : (s \o t)[i] = s[i]
         /\ \A i \in 1 .. Len(t) : (s \o t)[Len(s) + i] = t[i]
         /\ SubSeq(s \o t, Len(s) + 1, Len(s \o t)) = t
  <1>1. /\ s \o t \in Seq(S) /\ Len(s \o t) = Len(s) + Len(t) /\ Len(s) \in Nat /\ Len(t) \in Nat
        /\ \A i \in 1 .. Len(s) : (s \o t)[i] = s[i]
        /\ \A i \in 1 .. Len(t) : (s \o t)[Len(s) + i] = t[i]
    OBVIOUS
  <1> DEFINE u == s \o t
             v == SubSeq(u, Len(s) + 1, Len(u))
  <1>2. u \in Seq(S) /\ Len(u) = Len(s) + Len(t) BY <1>1
  <1>3. \A i \in 1 .. Len(t) : u[Len(s) + i] = t[i] BY <1>1
  <1> HIDE DEF u
  <1>4. v \in Seq(S) /\ Len(v) = Len(t) BY <1>1, <1>2
  <1>5. \A i \in 1 .. Len(t) : v[i] = u[Len(s) + i] BY <1>1, <1>2
  <1> HIDE DEF v
  <1>6. v = t BY <1>1, <1>3, <1>4, <1>5
  <1> QED BY <1>1, <1>6 DEF u, v

\* The parts of two texts put together.
LEMMA Joined ==
  ASSUME NEW S, NEW s \in Seq(S), NEW t \in Seq(S), NEW u, u = s \o t
  PROVE  /\ u \in Seq(S) /\ Len(u) = Len(s) + Len(t) /\ SubSeq(u, Len(s) + 1, Len(u)) = t
         /\ SubSeq(u, 1, Len(s)) = s /\ (s # <<>> => u[1] = s[1])
  <1>1. /\ u \in Seq(S) /\ Len(u) = Len(s) + Len(t) /\ Len(s) \in Nat /\ Len(t) \in Nat
        /\ \A i \in 1 .. Len(s) : u[i] = s[i]
        /\ SubSeq(u, Len(s) + 1, Len(u)) = t
    BY TextBehind
  <1>2. s # <<>> => u[1] = s[1]
    <2>1. s # <<>> => Len(s) > 0 OBVIOUS
    <2>2. Len(s) > 0 => 1 \in 1 .. Len(s) BY <1>1
    <2> QED BY <1>1, <2>1, <2>2
  <1> DEFINE v == SubSeq(u, 1, Len(s))
  <1>3. v \in Seq(S) /\ Len(v) = Len(s) /\ \A i \in 1 .. Len(s) : v[i] = u[i] BY <1>1
  <1> HIDE DEF v
  <1>4. v = s BY <1>1, <1>3
  <1> QED BY <1>1, <1>2, <1>4 DEF v

\* Three texts may be joined from either end.
LEMMA AnyThreeTexts ==
  ASSUME NEW S
  PROVE  \A a, b, c \in Seq(S) : (a \o b) \o c = a \o (b \o c)
  BY ConcatAssociative, SMTT(30)

\* FlattenSeq begins with the first text.
LEMMA FlattenedFirst ==
  ASSUME NEW S, NEW texts \in Seq(Seq(S)), texts # <<>>
  PROVE  /\ FlattenSeq(Tail(texts)) \in Seq(S)
         /\ FlattenSeq(texts) = texts[1] \o FlattenSeq(Tail(texts))
  <1> DEFINE n == Len(texts)
             others == Tail(texts)
             first == texts[1]
  <1>1. n \in Nat /\ n > 0 /\ others \in Seq(Seq(S)) /\ Len(others) = n - 1 /\ first \in Seq(S)
    OBVIOUS
  <1>2. \A k \in 1 .. n - 1 : others[k] = texts[k + 1] /\ others[k] \in Seq(S)
    BY <1>1
  <1>9. \A b, c \in Seq(S) : (first \o b) \o c = first \o (b \o c)
    <2> HIDE DEF n, others, first
    <2>1. first \in Seq(S) BY <1>1
    <2>2. \A a, b, c \in Seq(S) : (a \o b) \o c = a \o (b \o c) BY AnyThreeTexts
    <2> QED BY <2>1, <2>2, Zenon
  <1>3. PICK g \in [0 .. n -> Seq(S)] :
            /\ g[0] = <<>> /\ g[n] = FlattenSeq(texts) /\ \A k \in 1 .. n : g[k] = g[k - 1] \o texts[k]
    BY Flattened
  <1>4. PICK h \in [0 .. n - 1 -> Seq(S)] :
            /\ h[0] = <<>> /\ h[n - 1] = FlattenSeq(others)
            /\ \A k \in 1 .. n - 1 : h[k] = h[k - 1] \o others[k]
    <2> HIDE DEF n, others
    <2>1. PICK h \in [0 .. Len(others) -> Seq(S)] :
            /\ h[0] = <<>> /\ h[Len(others)] = FlattenSeq(others)
            /\ \A k \in 1 .. Len(others) : h[k] = h[k - 1] \o others[k]
      BY <1>1, Flattened
    <2> QED BY <1>1, <2>1
  <1> HIDE DEF n, others, first
  <1> DEFINE Same == {k \in 0 .. n - 1 : g[k + 1] = first \o h[k]}
  <1>5. 0 \in Same
    <2>1. 1 \in 1 .. n /\ 1 - 1 = 0 /\ 0 \in 0 .. n - 1 /\ 0 + 1 = 1 BY <1>1, SMT
    <2>2. g[1] = g[1 - 1] \o texts[1] BY <1>3, <2>1, Zenon
    <2>3. g[1] = <<>> \o first BY <1>3, <2>1, <2>2 DEF first
    <2>4. <<>> \o first = first /\ first \o <<>> = first BY <1>1
    <2> QED BY <1>4, <2>1, <2>3, <2>4
  <1>6. ASSUME NEW k \in 0 .. (n - 1) - 1, k \in Same PROVE k + 1 \in Same
    <2>1. /\ k + 1 \in 1 .. n - 1 /\ (k + 1) + 1 \in 1 .. n /\ ((k + 1) + 1) - 1 = k + 1 /\ (k + 1) - 1 = k
          /\ k \in 0 .. n - 1 /\ k + 1 \in 0 .. n - 1
      BY <1>1, SMT
    <2>2. g[(k + 1) + 1] = g[k + 1] \o texts[(k + 1) + 1] BY <1>3, <2>1, Zenon
    <2>3. h[k + 1] = h[k] \o others[k + 1] BY <1>4, <2>1, Zenon
    <2>4. texts[(k + 1) + 1] = others[k + 1] /\ others[k + 1] \in Seq(S) BY <1>2, <2>1
    <2>5. g[k + 1] = first \o h[k] BY <1>6
    <2>6. h[k] \in Seq(S) BY <2>1
    <2>7. (first \o h[k]) \o others[k + 1] = first \o (h[k] \o others[k + 1])
      BY <1>9, <2>4, <2>6, Zenon
    <2> QED BY <2>1, <2>2, <2>3, <2>4, <2>5, <2>7
  <1>7. n - 1 \in Same
    <2>1. n - 1 \in Nat /\ n - 1 \in 0 .. n - 1 BY <1>1, SMT
    <2> HIDE DEF Same
    <2> DEFINE m == n - 1
    <2>2. m \in Nat /\ 0 \in Same /\ \A k \in 0 .. m - 1 : k \in Same => k + 1 \in Same
      BY <1>5, <1>6, <2>1
    <2> HIDE DEF m
    <2>3. \A k \in 0 .. m : k \in Same BY <2>2, InductionUpTo
    <2> QED BY <2>1, <2>3 DEF m
  <1>8. g[n] = first \o h[n - 1] /\ h[n - 1] \in Seq(S)
    <2>1. (n - 1) + 1 = n /\ n - 1 \in 0 .. n - 1 BY <1>1, SMT
    <2> QED BY <1>7, <2>1
  <1> QED BY <1>3, <1>4, <1>8 DEF n, others, first

\* What is left of a pattern begins with its next item.
LEMMA BehindItem ==
  ASSUME NEW items \in Seq(Items), NEW k \in 0 .. Len(items) - 1
  PROVE  /\ Behind(items, k + 1) \in Seq(Char)
         /\ Behind(items, k) = RenderItem(items[k + 1]) \o Behind(items, k + 1)
  <1> DEFINE n == Len(items)
             sub == SubSeq(items, k + 1, n)
             rest == SubSeq(items, (k + 1) + 1, n)
             texts == [i \in 1 .. Len(sub) |-> RenderItem(sub[i])]
             others == [i \in 1 .. Len(rest) |-> RenderItem(rest[i])]
  <1>1. /\ n \in Nat /\ k \in Nat /\ k < n
        /\ sub \in Seq(Items) /\ Len(sub) = n - k /\ \A i \in 1 .. n - k : sub[i] = items[k + i]
        /\ rest \in Seq(Items) /\ Len(rest) = n - (k + 1)
        /\ \A i \in 1 .. n - (k + 1) : rest[i] = items[(k + 1) + i]
    OBVIOUS
  <1>2. Behind(items, k) = FlattenSeq(texts) /\ Behind(items, k + 1) = FlattenSeq(others)
    BY DEF Behind, Render
  <1>3. \A i \in 1 .. n : items[i] \in Items OBVIOUS
  <1> HIDE DEF n, sub, rest
  <1>4. \A i \in 1 .. n - k : RenderItem(sub[i]) = RenderItem(items[k + i])
    BY <1>1
  <1>5. \A i \in 1 .. n - k : RenderItem(items[k + i]) \in Seq(Char)
    <2>1. \A i \in 1 .. n - k : k + i \in 1 .. n BY <1>1, SMT
    <2> QED BY <1>3, <2>1, ItemText
  <1>6. texts \in Seq(Seq(Char)) /\ Len(texts) = n - k /\ texts[1] = RenderItem(items[k + 1])
    <2> DEFINE T == Seq(Char)
    <2>1. \A i \in 1 .. Len(sub) : RenderItem(sub[i]) \in T BY <1>1, <1>4, <1>5
    <2> HIDE DEF T
    <2>2. n - k \in Nat /\ 1 \in 1 .. n - k BY <1>1, SMT
    <2>0. texts \in [1 .. n - k -> T]
      <3>1. texts \in [1 .. Len(sub) -> T] BY <2>1
      <3> QED BY <1>1, <3>1
    <2>3. texts[1] = RenderItem(items[k + 1]) BY <1>1, <1>4, <2>2
    <2> HIDE DEF texts
    <2>4. texts \in Seq(T) /\ Len(texts) = n - k BY <2>0, <2>2
    <2> QED BY <2>3, <2>4 DEF T
  <1>7. others = Tail(texts)
    <2> DEFINE tail == Tail(texts)
               m == n - (k + 1)
    <2>1. m \in Nat /\ \A i \in 1 .. m : i + 1 \in 1 .. n - k /\ k + (i + 1) = (k + 1) + i
      BY <1>1, SMT
    <2>2. \A i \in 1 .. m : texts[i + 1] = RenderItem(items[k + (i + 1)])
      BY <1>1, <1>4, <2>1
    <2>3. \A i \in 1 .. m : others[i] = RenderItem(items[(k + 1) + i])
      BY <1>1 DEF m
    <2>4. others = [i \in 1 .. m |-> others[i]] BY <1>1 DEF m
    <2> DEFINE T == Seq(Char)
    <2>5. texts \in Seq(T) /\ Len(texts) = m + 1 BY <1>1, <1>6 DEF m
    <2> HIDE DEF texts, others, m, T
    <2>6. tail = [i \in 1 .. m |-> tail[i]] /\ \A i \in 1 .. m : tail[i] = texts[i + 1]
      <3>1. tail \in Seq(T) /\ Len(tail) = m BY <2>1, <2>5
      <3>2. \A i \in 1 .. m : tail[i] = texts[i + 1] BY <2>1, <2>5
      <3> HIDE DEF tail
      <3>3. tail = [i \in 1 .. m |-> tail[i]] BY <3>1
      <3> QED BY <3>2, <3>3
    <2> HIDE DEF tail
    <2>7. \A i \in 1 .. m : others[i] = tail[i] BY <2>1, <2>2, <2>3, <2>6
    <2> QED BY <2>4, <2>6, <2>7 DEF tail
  <1> HIDE DEF texts, others
  <1>8. texts # <<>> BY <1>1, <1>6
  <1>9. FlattenSeq(Tail(texts)) \in Seq(Char) /\ FlattenSeq(texts) = texts[1] \o FlattenSeq(Tail(texts))
    BY <1>6, <1>8, FlattenedFirst
  <1> QED BY <1>2, <1>6, <1>7, <1>9

\* Nothing is left behind the last item, and everything behind none.
LEMMA BehindEnds ==
  ASSUME NEW items \in Seq(Items)
  PROVE  Behind(items, Len(items)) = <<>> /\ Render(items) = Behind(items, 0)
  <1>1. SubSeq(items, 0 + 1, Len(items)) = items OBVIOUS
  <1>2. SubSeq(items, Len(items) + 1, Len(items)) = <<>> OBVIOUS
  <1>3. Render(<<>>) = <<>>
    <2>1. Len(<<>>) = 0 OBVIOUS
    <2>2. [i \in 1 .. Len(<<>>) |-> RenderItem(<<>>[i])] = <<>> BY <2>1
    <2>3. FlattenSeq(<<>>) = <<>> BY <2>1 DEF FlattenSeq
    <2> QED BY <2>2, <2>3 DEF Render
  <1> QED BY <1>1, <1>2, <1>3 DEF Behind

\* CountLeading counts a whole text if what follows does not go on with it.
LEMMA Counted ==
  ASSUME NEW S, NEW s \in Seq(S), NEW t \in Seq(S), NEW chars,
         \A i \in 1 .. Len(s) : s[i] \in chars, t # <<>> => t[1] \notin chars
  PROVE  CountLeading(s \o t, chars) = Len(s)
  <1> DEFINE u == s \o t
             leads == {n \in 0 .. Len(u) : \A i \in 1 .. n : u[i] \in chars}
             size == Len(s)
  <1>1. /\ u \in Seq(S) /\ Len(u) = Len(s) + Len(t) /\ Len(s) \in Nat /\ Len(t) \in Nat
        /\ \A i \in 1 .. Len(s) : u[i] = s[i]
        /\ \A i \in 1 .. Len(t) : u[Len(s) + i] = t[i]
    BY TextBehind
  <1>2. t # <<>> => Len(t) > 0 OBVIOUS
  <1>3. t = <<>> => Len(t) = 0 OBVIOUS
  <1> HIDE DEF u
  <1>4. size \in leads BY <1>1
  <1>5. \A n \in leads : size >= n
    <2> SUFFICES ASSUME NEW n \in leads, n > size PROVE FALSE BY <1>1
    <2>1. size + 1 \in 1 .. n /\ Len(t) > 0 /\ n <= Len(u) BY <1>1
    <2>2. u[size + 1] \in chars BY <2>1
    <2>3. u[size + 1] = t[1] BY <1>1, <2>1
    <2> QED BY <1>2, <1>3, <2>1, <2>2, <2>3
  <1>6. Max(leads) = size
    <2> HIDE DEF leads
    <2> DEFINE largest == CHOOSE x \in leads : \A y \in leads : x >= y
    <2>1. largest \in leads /\ \A y \in leads : largest >= y BY <1>4, <1>5
    <2>2. Max(leads) = largest BY DEF Max
    <2> HIDE DEF largest
    <2>3. largest >= size /\ size >= largest BY <1>4, <1>5, <2>1
    <2>4. leads \subseteq Nat BY <1>1 DEF leads
    <2> QED BY <1>4, <2>1, <2>2, <2>3, <2>4
  <1> QED BY <1>6 DEF CountLeading, u

\* The two tables have thirty-four entries.
LEMMA FlagNumbers ==
      \A k \in 1 .. 34 : k = 1 \/ k = 2 \/ k = 3 \/ k = 4 \/ k = 5 \/ k = 6 \/ k = 7 \/ k = 8 \/ k = 9 \/ k = 10
      \/ k = 11 \/ k = 12 \/ k = 13 \/ k = 14 \/ k = 15 \/ k = 16 \/ k = 17 \/ k = 18
      \/ k = 19 \/ k = 20 \/ k = 21 \/ k = 22 \/ k = 23 \/ k = 24 \/ k = 25 \/ k = 26
      \/ k = 27 \/ k = 28 \/ k = 29 \/ k = 30 \/ k = 31 \/ k = 32 \/ k = 33 \/ k = 34
OBVIOUS
\* The flag each entry of the first table is for.
LEMMA FlagEntries ==
  /\ DOMAIN allValidFlags = 1 .. 34
  /\ allValidFlags[1] = "a" /\ allValidFlags[2] = "b" /\ allValidFlags[3] = "c"
      /\ allValidFlags[4] = "d" /\ allValidFlags[5] = "e" /\ allValidFlags[6] = "h"
      /\ allValidFlags[7] = "l" /\ allValidFlags[8] = "m" /\ allValidFlags[9] = "n"
      /\ allValidFlags[10] = "p" /\ allValidFlags[11] = "r" /\ allValidFlags[12] = "s"
      /\ allValidFlags[13] = "t" /\ allValidFlags[14] = "w" /\ allValidFlags[15] = "x"
      /\ allValidFlags[16] = "y" /\ allValidFlags[17] = "z" /\ allValidFlags[18] = "A"
      /\ allValidFlags[19] = Spaced /\ allValidFlags[20] = "C" /\ allValidFlags[21] = "D"
      /\ allValidFlags[22] = "F" /\ allValidFlags[23] = "H" /\ allValidFlags[24] = "I"
      /\ allValidFlags[25] = "L" /\ allValidFlags[26] = "M" /\ allValidFlags[27] = "N"
      /\ allValidFlags[28] = "R" /\ allValidFlags[29] = "S" /\ allValidFlags[30] = "T"
      /\ allValidFlags[31] = "X" /\ allValidFlags[32] = "Y" /\ allValidFlags[33] = "Z"
      /\ allValidFlags[34] = "+"
BY DEF allValidFlags, Spaced
\* The class each entry of the second table builds.
LEMMA ClassEntries ==
      FlagFormatter[1] = "a" /\ FlagFormatter[2] = "b" /\ FlagFormatter[3] = "c"
      /\ FlagFormatter[4] = "d" /\ FlagFormatter[5] = "e" /\ FlagFormatter[6] = "b"
      /\ FlagFormatter[7] = "l" /\ FlagFormatter[8] = "m" /\ FlagFormatter[9] = "n"
      /\ FlagFormatter[10] = "p" /\ FlagFormatter[11] = "r" /\ FlagFormatter[12] = "s"
      /\ FlagFormatter[13] = "t" /\ FlagFormatter[14] = "w" /\ FlagFormatter[15] = "D"
      /\ FlagFormatter[16] = "y" /\ FlagFormatter[17] = "z" /\ FlagFormatter[18] = "A"
      /\ FlagFormatter[19] = "B" /\ FlagFormatter[20] = "C" /\ FlagFormatter[21] = "D"
      /\ FlagFormatter[22] = "F" /\ FlagFormatter[23] = "H" /\ FlagFormatter[24] = "I"
      /\ FlagFormatter[25] = "L" /\ FlagFormatter[26] = "M" /\ FlagFormatter[27] = "N"
      /\ FlagFormatter[28] = "R" /\ FlagFormatter[29] = "S" /\ FlagFormatter[30] = "T"
      /\ FlagFormatter[31] = "Y" /\ FlagFormatter[32] = "T" /\ FlagFormatter[33] = "Z"
      /\ FlagFormatter[34] = "+"
BY DEF FlagFormatter

\* Letters of which the class prints something else than the flag means.
Crossed == {"b", "h", "m", "r", "z", "Z", "T", "X", "Y", "B"}
\* The classes of the others.
Faithful == Direct \union DayClasses \union {"e", "t", "s", "N", "+", "c", "R"}

\* The tables of flags and of classes, side by side.
LEMMA FlagRows ==
  \A k \in 1 .. 34 :
      /\ k = 19 \/ allValidFlags[k] \in Crossed \/ FlagFormatter[k] = MeantClass(allValidFlags[k])
      /\ k = 19 \/ allValidFlags[k] \in Crossed \/ FlagFormatter[k] \in Faithful
      /\ FlagFormatter[k] = "s" <=> k = 12
      /\ allValidFlags[k] = "s" <=> k = 12
      /\ allValidFlags[k] = "e" <=> k = 5
      /\ allValidFlags[k] = "r" <=> k = 11
      /\ allValidFlags[k] = Spaced <=> k = 19
  <1>1. ASSUME NEW k \in 1 .. 34
        PROVE  k = 19 \/ allValidFlags[k] \in Crossed \/ FlagFormatter[k] = MeantClass(allValidFlags[k])
    <2>1. k \in {6, 15, 19, 31, 32} \/ FlagFormatter[k] = allValidFlags[k]
      <3>1. /\ FlagFormatter[1] = allValidFlags[1] /\ FlagFormatter[2] = allValidFlags[2] /\ FlagFormatter[3] = allValidFlags[3]
            /\ FlagFormatter[4] = allValidFlags[4] /\ FlagFormatter[5] = allValidFlags[5] /\ FlagFormatter[7] = allValidFlags[7]
            /\ FlagFormatter[8] = allValidFlags[8] /\ FlagFormatter[9] = allValidFlags[9] /\ FlagFormatter[10] = allValidFlags[10]
            /\ FlagFormatter[11] = allValidFlags[11] /\ FlagFormatter[12] = allValidFlags[12] /\ FlagFormatter[13] = allValidFlags[13]
            /\ FlagFormatter[14] = allValidFlags[14] /\ FlagFormatter[16] = allValidFlags[16] /\ FlagFormatter[17] = allValidFlags[17]
            /\ FlagFormatter[18] = allValidFlags[18] /\ FlagFormatter[20] = allValidFlags[20] /\ FlagFormatter[21] = allValidFlags[21]
            /\ FlagFormatter[22] = allValidFlags[22] /\ FlagFormatter[23] = allValidFlags[23] /\ FlagFormatter[24] = allValidFlags[24]
            /\ FlagFormatter[25] = allValidFlags[25] /\ FlagFormatter[26] = allValidFlags[26] /\ FlagFormatter[27] = allValidFlags[27]
            /\ FlagFormatter[28] = allValidFlags[28] /\ FlagFormatter[29] = allValidFlags[29] /\ FlagFormatter[30] = allValidFlags[30]
            /\ FlagFormatter[33] = allValidFlags[33] /\ FlagFormatter[34] = allValidFlags[34]
        BY DEF FlagFormatter, allValidFlags
      <3> QED BY <3>1, FlagNumbers
    <2>2. k \in {6, 31, 32} => allValidFlags[k] \in Crossed BY FlagEntries DEF Crossed
    <2>3. k = 15 => allValidFlags[k] = "x" /\ FlagFormatter[k] = "D" BY FlagEntries, ClassEntries
    <2>4. k = 6 <=> allValidFlags[k] = "h" BY FlagNumbers, FlagEntries DEF Spaced
    <2>5. k = 15 <=> allValidFlags[k] = "x" BY FlagNumbers, FlagEntries DEF Spaced
    <2>6. \A letter : letter # "h" /\ letter # "x" => MeantClass(letter) = letter BY DEF MeantClass
    <2>7. MeantClass("x") = "D" BY DEF MeantClass
    <2> QED BY <2>1, <2>2, <2>3, <2>4, <2>5, <2>6, <2>7
  <1>2. ASSUME NEW k \in 1 .. 34
        PROVE  k = 19 \/ allValidFlags[k] \in Crossed \/ FlagFormatter[k] \in Faithful
    <2>1. /\ k \in {2, 6, 8, 11, 17, 30, 31, 32, 33} => allValidFlags[k] \in Crossed
      <3>1. /\ allValidFlags[2] = "b" /\ allValidFlags[6] = "h" /\ allValidFlags[8] = "m"
            /\ allValidFlags[11] = "r" /\ allValidFlags[17] = "z" /\ allValidFlags[30] = "T"
            /\ allValidFlags[31] = "X" /\ allValidFlags[32] = "Y" /\ allValidFlags[33] = "Z"
        BY FlagEntries
      <3> QED BY <3>1 DEF Crossed
    <2>2. k \in {1, 4, 7, 10, 14, 16, 18, 20, 23, 24, 25, 26, 29} => FlagFormatter[k] \in KeyClasses \ {"b", "m", "T"}
      BY ClassEntries DEF KeyClasses
    <2>3. k \in {9, 15, 21, 22} => FlagFormatter[k] \in DayClasses BY ClassEntries DEF DayClasses
    <2>4. k \in {3, 5, 12, 13, 27, 28, 34} => FlagFormatter[k] \in {"e", "t", "s", "N", "+", "c", "R"}
      BY ClassEntries
    <2>5. \/ k = 19 \/ k \in {2, 6, 8, 11, 17, 30, 31, 32, 33} \/ k \in {9, 15, 21, 22}
          \/ k \in {1, 4, 7, 10, 14, 16, 18, 20, 23, 24, 25, 26, 29}
          \/ k \in {3, 5, 12, 13, 27, 28, 34}
      BY SMT
    <2> QED BY <2>1, <2>2, <2>3, <2>4, <2>5 DEF Faithful, Direct
  <1>3. \A k \in 1 .. 34 : FlagFormatter[k] = "s" <=> k = 12
    BY FlagNumbers, ClassEntries
  <1>4. \A k \in 1 .. 34 : allValidFlags[k] = "s" <=> k = 12
    BY FlagNumbers, FlagEntries DEF Spaced
  <1>5. \A k \in 1 .. 34 : allValidFlags[k] = "e" <=> k = 5
    BY FlagNumbers, FlagEntries DEF Spaced
  <1>6. \A k \in 1 .. 34 : allValidFlags[k] = "r" <=> k = 11
    BY FlagNumbers, FlagEntries DEF Spaced
  <1>7. \A k \in 1 .. 34 : allValidFlags[k] = Spaced <=> k = 19
    BY FlagNumbers, FlagEntries DEF Spaced
  <1> QED BY <1>1, <1>2, <1>3, <1>4, <1>5, <1>6, <1>7

\* Indices count from 0.
LEMMA FlagIndices ==
  \A k \in 1 .. 34 : /\ (k - 1) + 1 = k /\ (k - 1 = 4 <=> k = 5)
                     /\ (k - 1 = 11 <=> k = 12) /\ (k - 1 = 10 <=> k = 11)
  BY SMT

\* The flag that was found, and its class.
LEMMA FlagFound ==
  ASSUME NEW letter, IsValidFlag(letter), letter # Spaced
  PROVE  /\ IndexOf(letter) = SubSecondIndex <=> letter = "e"
         /\ IndexOf(letter) = SourceIndex <=> letter = "s"
         /\ IndexOf(letter) = ThreadIndex <=> letter = "r"
         /\ ClassAt(IndexOf(letter)) = "s" <=> letter = "s"
         /\ letter \notin Crossed => /\ ClassAt(IndexOf(letter)) = MeantClass(letter)
                                      /\ ClassAt(IndexOf(letter)) \in Faithful
  <1> DEFINE i == CHOOSE k \in DOMAIN allValidFlags : allValidFlags[k] = letter
  <1>1. i \in 1 .. 34 /\ allValidFlags[i] = letter
    BY FlagEntries DEF IsValidFlag
  <1>2. IndexOf(letter) = i - 1 BY DEF IndexOf
  <1> HIDE DEF i
  <1>3. i # 19 BY <1>1, FlagRows
  <1>4. /\ allValidFlags[i] \in Crossed \/ FlagFormatter[i] = MeantClass(allValidFlags[i])
        /\ allValidFlags[i] \in Crossed \/ FlagFormatter[i] \in Faithful
        /\ FlagFormatter[i] = "s" <=> i = 12
        /\ allValidFlags[i] = "s" <=> i = 12
        /\ allValidFlags[i] = "e" <=> i = 5
        /\ allValidFlags[i] = "r" <=> i = 11
    BY <1>1, <1>3, FlagRows, Zenon
  <1>5. ClassAt(IndexOf(letter)) = FlagFormatter[i]
    BY <1>1, <1>2, FlagIndices, Zenon DEF ClassAt
  <1>6. /\ IndexOf(letter) = SubSecondIndex <=> i = 5
        /\ IndexOf(letter) = SourceIndex <=> i = 12
        /\ IndexOf(letter) = ThreadIndex <=> i = 11
    BY <1>1, <1>2, FlagIndices, Zenon DEF SubSecondIndex, SourceIndex, ThreadIndex
  <1> QED BY <1>1, <1>4, <1>5, <1>6, Zenon

\* Digits have a value.
LEMMA DigitValues ==
  ASSUME NEW digits \in Seq(Range(Digits))
  PROVE  NumberOf(digits) \in Nat
  <1> DEFINE n == Len(digits)
             each(k) == CHOOSE d \in 0 .. 9 : Digits[d + 1] = digits[k]
             step == [p \in Nat \X (1 .. n) |-> 10 * p[1] + each(p[2])]
             Counts(g) == g = [k \in 0 .. n |-> IF k = 0 THEN 0 ELSE 10 * g[k - 1] + each(k)]
             value == CHOOSE g : Counts(g)
  <1>1. n \in Nat /\ \A k \in 1 .. n : each(k) \in Nat
    <2>1. n \in Nat OBVIOUS
    <2>2. ASSUME NEW k \in 1 .. n PROVE \E d \in 0 .. 9 : Digits[d + 1] = digits[k]
      <3>1. digits[k] \in Range(Digits) OBVIOUS
      <3>2. PICK i \in DOMAIN Digits : Digits[i] = digits[k] BY <3>1 DEF Range
      <3>3. i \in 1 .. 10 BY DEF Digits
      <3>4. i - 1 \in 0 .. 9 /\ (i - 1) + 1 = i BY <3>3, SMT
      <3> QED BY <3>2, <3>4
    <2>3. ASSUME NEW k \in 1 .. n PROVE each(k) \in 0 .. 9
      BY <2>2, Zenon
    <2> HIDE DEF each
    <2> QED BY <2>1, <2>3
  <1>2. NumberOf(digits) = value[n] BY DEF NumberOf
  <1> HIDE DEF n, each
  <1>3. PICK g : Iterates(g, n, Nat, 0, step)
    <2>1. step \in [Nat \X (1 .. n) -> Nat] /\ 0 \in Nat
      BY <1>1, SMT
    <2> HIDE DEF step
    <2> QED BY <1>1, <2>1, RecursionUpTo
  <1>4. /\ g \in [0 .. n -> Nat] /\ g[0] = 0
        /\ \A k \in 1 .. n : g[k] = 10 * g[k - 1] + each(k)
    <2>1. /\ g \in [0 .. n -> Nat] /\ g[0] = 0
          /\ \A k \in 1 .. n : g[k] = step[<<g[k - 1], k>>]
      BY <1>3 DEF Iterates
    <2>2. ASSUME NEW k \in 1 .. n PROVE step[<<g[k - 1], k>>] = 10 * g[k - 1] + each(k)
      <3>1. k - 1 \in 0 .. n BY <1>1, SMT
      <3>2. <<g[k - 1], k>> \in Nat \X (1 .. n) BY <2>1, <3>1, Zenon
      <3> QED BY <3>2, Zenon
    <2> QED BY <2>1, <2>2
  <1>5. Counts(g)
    <2>1. \A k \in 0 .. n : k # 0 => k \in 1 .. n BY <1>1, SMT
    <2>2. \A k \in 0 .. n : g[k] = IF k = 0 THEN 0 ELSE 10 * g[k - 1] + each(k)
      BY <1>4, <2>1, Zenon
    <2> QED BY <1>4, <2>2, Zenon
  <1>6. Counts(value)
    <2> HIDE DEF Counts
    <2> QED BY <1>5, Zenon
  <1> HIDE DEF value
  <1>7. \A k \in 0 .. n : value[k] = IF k = 0 THEN 0 ELSE 10 * value[k - 1] + each(k)
    BY <1>6, Zenon
  <1> DEFINE Typed == {k \in 0 .. n : value[k] \in Nat}
  <1>8. 0 \in Typed BY <1>1, <1>7, SMT
  <1>9. ASSUME NEW k \in 0 .. n - 1, k \in Typed PROVE k + 1 \in Typed
    <2>1. k + 1 \in 0 .. n /\ k + 1 \in 1 .. n /\ (k + 1) - 1 = k /\ k + 1 # 0
      BY <1>1, SMT
    <2>2. value[k + 1] = 10 * value[k] + each(k + 1) BY <1>7, <2>1, Zenon
    <2> QED BY <1>1, <1>9, <2>1, <2>2
  <1> HIDE DEF Typed
  <1>10. \A k \in 0 .. n : k \in Typed BY <1>1, <1>8, <1>9, InductionUpTo
  <1>11. n \in 0 .. n BY <1>1, SMT
  <1> QED BY <1>2, <1>10, <1>11 DEF Typed

-----------------------------------------------------------------------------
(* The branches of ParseUserPatternForSpec.                                  *)
LEMMA ReadNothing ==
  ASSUME NEW index, NEW flag
  PROVE  ParseUserPatternForSpec(<<>>, index, flag) = SpecRead(<<>>, 0, flag)
  BY DEF ParseUserPatternForSpec

\* What stands behind the flag is no specification.
LEMMA ReadDefault ==
  ASSUME NEW text, NEW index, NEW flag, text # <<>>, text # <<":">>,
         Len(text) > 1 /\ Head(text) = ":" => /\ ~(CountLeading(Tail(text), Range(Digits)) > 0)
                                              /\ Tail(text)[1] \notin Letters
  PROVE  ParseUserPatternForSpec(text, index, flag) = DefaultSpec(text, index, flag)
  BY DEF ParseUserPatternForSpec

\* A precision was read.
LEMMA ReadDigits ==
  ASSUME NEW text, NEW index, NEW flag, text # <<>>, text # <<":">>, Len(text) > 1, Head(text) = ":",
         CountLeading(Tail(text), Range(Digits)) > 0, Tail(text)[1] \notin Letters
  PROVE  LET spec == Tail(text)
             digits == CountLeading(spec, Range(Digits))
             value == ValidateUserPrecisionSpec(index, NumberOf(SubSeq(spec, 1, digits)))
             rest == SubSeq(spec, digits + 1, Len(spec))
         IN ParseUserPatternForSpec(text, index, flag)
                = IF value = 0 THEN DefaultSpec(rest, index, flag) ELSE SpecRead(rest, value, flag)
  BY Zenon DEF ParseUserPatternForSpec

\* Letters were read.
LEMMA ReadLetters ==
  ASSUME NEW text, NEW index, NEW flag, text # <<>>, text # <<":">>, Len(text) > 1, Head(text) = ":",
         ~(CountLeading(Tail(text), Range(Digits)) > 0), Tail(text)[1] \in Letters,
         CountLeading(Tail(text), validCharSpecs) # 0
  PROVE  LET spec == Tail(text)
             chars == CountLeading(spec, validCharSpecs)
             rest == SubSeq(spec, chars + 1, Len(spec))
         IN ParseUserPatternForSpec(text, index, flag)
                = SpecRead(rest, 0, ValidateUserCharSpec(index, flag, Range(SubSeq(spec, 1, chars))))
  BY Zenon DEF ParseUserPatternForSpec

\* What is handed back.
LEMMA ReadParts ==
  ASSUME NEW rest, NEW value, NEW flag
  PROVE  LET read == SpecRead(rest, value, flag) IN
         read.rest = rest /\ read.value = value /\ read.flag = flag /\ read.thrown = FALSE
  BY DEF SpecRead

\* What is read for a flag without a specification.
DefaultsOf(read, letter, rest, flag) ==
    /\ read.rest = rest /\ read.thrown = FALSE
    /\ letter # "s" => read.flag = flag
    /\ letter = "s" => read.flag = {"all"}
    /\ letter = "e" => read.value = 3
    /\ letter = "t" => read.value = 0

\* DefaultSpec goes by the index, which tells the letters apart.
LEMMA DefaultRead ==
  ASSUME NEW rest, NEW letter, NEW flag, IsValidFlag(letter), letter # Spaced
  PROVE  DefaultsOf(DefaultSpec(rest, IndexOf(letter), flag), letter, rest, flag)
  <1> DEFINE index == IndexOf(letter)
             read == DefaultSpec(rest, index, flag)
             Default == DefaultsOf(read, letter, rest, flag)
  <1>1. /\ index = SubSecondIndex <=> letter = "e"
        /\ index = SourceIndex <=> letter = "s"
        /\ index = ThreadIndex <=> letter = "r"
    BY FlagFound
  <1> HIDE DEF index
  <1>2. ASSUME letter = "e" PROVE Default
    <2>1. index = SubSecondIndex /\ index # ThreadIndex /\ index # SourceIndex BY <1>1, <1>2
    <2>2. read = SpecRead(rest, 3, flag) BY <2>1 DEF DefaultSpec, DefaultSubSecondPrecision
    <2> HIDE DEF read
    <2> QED BY <1>2, <2>2 DEF SpecRead, DefaultsOf
  <1>3. ASSUME letter = "r" PROVE Default
    <2>1. index # SubSecondIndex /\ index = ThreadIndex /\ index # SourceIndex BY <1>1, <1>3
    <2>2. read = SpecRead(rest, DefaultThreadIdLength, flag) BY <2>1 DEF DefaultSpec
    <2> HIDE DEF read
    <2> QED BY <1>3, <2>2 DEF SpecRead, DefaultsOf
  <1>4. ASSUME letter = "s" PROVE Default
    <2>1. index # SubSecondIndex /\ index # ThreadIndex /\ index = SourceIndex BY <1>1, <1>4
    <2>2. read = SpecRead(rest, 0, {"all"}) BY <2>1 DEF DefaultSpec
    <2> HIDE DEF read
    <2> QED BY <1>4, <2>2 DEF SpecRead, DefaultsOf
  <1>5. ASSUME letter # "e", letter # "r", letter # "s" PROVE Default
    <2>1. index # SubSecondIndex /\ index # ThreadIndex /\ index # SourceIndex BY <1>1, <1>5
    <2>2. read = SpecRead(rest, 0, flag) BY <2>1 DEF DefaultSpec
    <2> HIDE DEF read
    <2> QED BY <1>5, <2>2 DEF SpecRead, DefaultsOf
  <1> HIDE DEF Default
  <1>6. Default BY <1>2, <1>3, <1>4, <1>5, Zenon
  <1> QED BY <1>6, Zenon DEF Default, index, read

\* Digits and letters differ.
LEMMA CharKinds ==
  Letters \cap Range(Digits) = {} /\ validCharSpecs \subseteq Letters
  <1>1. DOMAIN Digits = 1 .. 10 BY DEF Digits
  <1>2. ASSUME NEW c \in Range(Digits) PROVE c \notin Letters
    <2>1. PICK i \in 1 .. 10 : Digits[i] = c BY <1>1 DEF Range
    <2>2. i = 1 \/ i = 2 \/ i = 3 \/ i = 4 \/ i = 5 \/ i = 6 \/ i = 7 \/ i = 8 \/ i = 9 \/ i = 10
      BY <2>1
    <2>3. c \in {"0", "1", "2", "3", "4", "5", "6", "7", "8", "9"}
      BY <2>1, <2>2 DEF Digits
    <2> QED BY <2>3 DEF Letters
  <1>3. validCharSpecs \subseteq Letters BY DEF validCharSpecs, Letters
  <1> QED BY <1>2, <1>3

\* The text of a specification behind its colon.
LEMMA ColonText ==
  ASSUME NEW spec \in Seq(Char), spec # <<>>, NEW rest \in Seq(Char)
  PROVE  LET text == (<<":">> \o spec) \o rest IN
         /\ text # <<>> /\ text # <<":">> /\ Len(text) > 1 /\ Head(text) = ":"
         /\ Tail(text) = spec \o rest
  <1> DEFINE colon == <<":">>
             tail == spec \o rest
             text == (colon \o spec) \o rest
             T == Char
  <1>1. ":" \in Char BY DEF Char
  <1>2. colon \in Seq(T) /\ Len(colon) = 1 /\ colon[1] = ":" BY <1>1
  <1>3. tail \in Seq(T) /\ Len(tail) = Len(spec) + Len(rest) OBVIOUS
  <1>4. Len(spec) > 0 /\ Len(rest) >= 0 OBVIOUS
  <1> HIDE DEF colon
  <1>5. text = colon \o tail BY <1>2, ConcatAssociative
  <1> HIDE DEF tail, text, T
  <1>6. /\ text \in Seq(T) /\ Len(text) = 1 + Len(tail) /\ text[1] = ":"
        /\ SubSeq(text, 1 + 1, Len(text)) = tail
    <2>1. Len(<<>>) = 0 /\ Len(colon) # 0 BY <1>2
    <2>2. colon # <<>> BY <2>1, Zenon
    <2>3. /\ text \in Seq(T) /\ Len(text) = Len(colon) + Len(tail)
          /\ SubSeq(text, Len(colon) + 1, Len(text)) = tail /\ (colon # <<>> => text[1] = colon[1])
      <3>1. colon \in Seq(T) /\ tail \in Seq(T) BY <1>2, <1>3
      <3> QED BY <1>5, <3>1, Joined
    <2> QED BY <1>2, <2>2, <2>3
  <1>7. Len(text) > 1 BY <1>3, <1>4, <1>6
  <1>8. Head(text) = text[1] BY <1>6, <1>7
  <1>9. Tail(text) = SubSeq(text, 2, Len(text)) BY <1>6, <1>7
  <1>10. Tail(text) = tail BY <1>6, <1>9
  <1>11. text # <<>> /\ text # <<":">>
    <2>1. Len(<<":">>) = 1 /\ Len(<<>>) = 0 /\ ~(1 > 1) /\ ~(0 > 1) OBVIOUS
    <2> QED BY <1>7, <2>1, Zenon
  <1> QED BY <1>6, <1>7, <1>8, <1>10, <1>11 DEF tail, text, colon

\* The parts of two texts of a pattern put together.
LEMMA JoinedText ==
  ASSUME NEW s \in Seq(Char), NEW t \in Seq(Char)
  PROVE  LET u == s \o t IN
         /\ u \in Seq(Char) /\ Len(u) = Len(s) + Len(t) /\ SubSeq(u, Len(s) + 1, Len(u)) = t
         /\ SubSeq(u, 1, Len(s)) = s /\ (s # <<>> => u[1] = s[1])
  BY Joined

\* What the parser can read behind a flag.
Readable(item, rest) ==
    \/ /\ item.spec = <<>>
       /\ \/ rest = <<>> \/ rest[1] # ":"
          \/ Len(rest) > 1 /\ rest[2] \notin Letters \union Range(Digits)
    \/ /\ item.spec # <<>> /\ item.letter \in {"e", "t"} /\ Range(item.spec) \subseteq Range(Digits)
       /\ rest # <<>> => rest[1] \notin Range(Digits)
    \/ /\ item.spec # <<>> /\ item.letter = "s" /\ Range(item.spec) \subseteq validCharSpecs
       /\ rest # <<>> => rest[1] \notin validCharSpecs

\* It reads nothing of what does not belong to the flag.
LEMMA NoSpecParsed ==
  ASSUME NEW item \in Items, IsFlag(item), IsValidFlag(item.letter), NEW rest \in Seq(Char), rest # <<>>,
         NEW flag, item.spec = <<>>, Readable(item, rest)
  PROVE  ParseUserPatternForSpec(rest, IndexOf(item.letter), flag)
             = DefaultSpec(rest, IndexOf(item.letter), flag)
  <1> DEFINE index == IndexOf(item.letter)
             tail == Tail(rest)
  <1>1. rest[1] # ":" \/ (Len(rest) > 1 /\ rest[2] \notin Letters \union Range(Digits))
    BY DEF Readable
  <1>2. Head(rest) = rest[1] OBVIOUS
  <1>3. rest # <<":">>
    <2>1. Len(<<":">>) = 1 /\ <<":">>[1] = ":" OBVIOUS
    <2> QED BY <1>1, <2>1
  <1>4. ASSUME Len(rest) > 1, Head(rest) = ":"
        PROVE  ~(CountLeading(tail, Range(Digits)) > 0) /\ tail[1] \notin Letters
    <2>1. rest[2] \notin Letters /\ rest[2] \notin Range(Digits) BY <1>1, <1>2, <1>4
    <2>2. tail \in Seq(Char) /\ tail # <<>> /\ tail[1] = rest[2] BY <1>4
    <2> HIDE DEF tail
    <2>3. <<>> \in Seq(Char) /\ Len(<<>>) = 0 /\ <<>> \o tail = tail BY <2>2
    <2>4. \A i \in 1 .. Len(<<>>) : <<>>[i] \in Range(Digits) BY <2>3
    <2>5. CountLeading(<<>> \o tail, Range(Digits)) = Len(<<>>)
      <3> DEFINE chars == Range(Digits)
                 none == <<>>
      <3>1. /\ none \in Seq(Char) /\ tail[1] \notin chars /\ \A i \in 1 .. Len(none) : none[i] \in chars
        BY <2>1, <2>2, <2>3, <2>4
      <3> HIDE DEF chars, none
      <3>2. CountLeading(none \o tail, chars) = Len(none) BY <2>2, <3>1, Counted
      <3> QED BY <3>2 DEF chars, none
    <2>6. CountLeading(tail, Range(Digits)) = 0 BY <2>3, <2>5
    <2> QED BY <2>1, <2>2, <2>6
  <1> HIDE DEF index, tail
  <1> QED BY <1>3, <1>4, ReadDefault DEF index, tail

\* The digits of a thread id that are shown: 0 stands for the default.
ThreadDigits(value) == IF value = 0 THEN 10 ELSE value

\* What is read behind a flag is what the flag was given.
ReadOf(read, item, rest, flag) ==
    /\ read.rest = rest /\ read.thrown = FALSE
    /\ item.letter # "s" => read.flag = flag
    /\ item.letter = "t" => Misread(item) \/ ThreadDigits(read.value) = MeantValue(item)
    /\ item.letter = "e" => \/ Misread(item) \/ (item.spec = <<>> /\ rest = <<>>)
                            \/ read.value = MeantValue(item)
    /\ item.letter = "s" => \/ item.spec = <<>> /\ rest = <<>>
                            \/ item.spec = <<>> /\ read.flag = MeantValue(item)
                            \/ item.spec # <<>> /\ read.flag = flag \union MeantValue(item)

\* A precision is read to its end, and no further.
LEMMA PrecisionParsed ==
  ASSUME NEW item \in Items, IsFlag(item), IsValidFlag(item.letter), NEW rest \in Seq(Char),
         NEW flag, item.spec # <<>>, item.letter \in {"e", "t"}, Readable(item, rest)
  PROVE  ReadOf(ParseUserPatternForSpec((<<":">> \o item.spec) \o rest, IndexOf(item.letter), flag),
                item, rest, flag)
  <1> DEFINE spec == item.spec
             digits == Range(Digits)
             index == IndexOf(item.letter)
             number == NumberOf(spec)
             value == ValidateUserPrecisionSpec(index, number)
             tail == spec \o rest
             text == (<<":">> \o spec) \o rest
             read == ParseUserPatternForSpec(text, index, flag)
  <1>1. spec # <<>> /\ Range(spec) \subseteq digits /\ (rest # <<>> => rest[1] \notin digits)
    BY DEF Readable
  <1>2. spec \in Seq(STRING) /\ item.letter # Spaced BY ItemKinds
  <1>3. spec \in Seq(digits) /\ \A i \in 1 .. Len(spec) : spec[i] \in digits
    <2> HIDE DEF spec, digits
    <2>1. \A i \in 1 .. Len(spec) : spec[i] \in digits BY <1>1, <1>2 DEF Range
    <2>2. spec \in [1 .. Len(spec) -> digits] /\ Len(spec) \in Nat BY <1>2, <2>1
    <2> QED BY <2>1, <2>2
  <1>4. number \in Nat BY <1>3, DigitValues
  <1>5. spec \in Seq(Char) /\ Len(spec) \in Nat /\ Len(spec) > 0
    <2> HIDE DEF spec
    <2>1. spec \in [1 .. Len(spec) -> Char] /\ Len(spec) \in Nat BY <1>2 DEF Char
    <2>2. Len(spec) # 0 BY <1>1, <1>2
    <2> QED BY <2>1, <2>2
  <1>6. /\ text # <<>> /\ text # <<":">> /\ Len(text) > 1 /\ Head(text) = ":" /\ Tail(text) = tail
    BY <1>5, ColonText
  <1>7. CountLeading(tail, digits) = Len(spec)
    <2> HIDE DEF spec, digits
    <2> QED BY <1>1, <1>3, <1>5, Counted
  <1>8. /\ SubSeq(tail, 1, Len(spec)) = spec /\ SubSeq(tail, Len(spec) + 1, Len(tail)) = rest
        /\ tail[1] = spec[1]
    <2> HIDE DEF spec
    <2> QED BY <1>1, <1>5, JoinedText
  <1>9. tail[1] \notin Letters
    <2>1. spec[1] \in digits BY <1>3, <1>5
    <2> QED BY <1>8, <2>1, CharKinds
  <1>10. read = IF value = 0 THEN DefaultSpec(rest, index, flag) ELSE SpecRead(rest, value, flag)
    <2> HIDE DEF spec, index, tail, text
    <2>1. CountLeading(Tail(text), Range(Digits)) > 0 /\ Tail(text)[1] \notin Letters
      BY <1>5, <1>6, <1>7, <1>9
    <2> QED BY <1>6, <1>7, <1>8, <2>1, ReadDigits
  <1> HIDE DEF spec, digits, index, number, value, tail, text, read
  <1>11. /\ item.letter = "e" => value = (IF number > 9 THEN 3 ELSE number)
         /\ item.letter = "t" => value = number
    BY <1>2, FlagFound DEF value, index, ValidateUserPrecisionSpec, DefaultSubSecondPrecision
  <1>12. /\ item.letter = "e" => MeantValue(item) = IF number \in 0 .. 9 THEN number ELSE 3
         /\ item.letter = "t" => MeantValue(item) = IF number \in 0 .. 10 THEN number ELSE 10
         /\ item.letter = "e" /\ number = 0 => Misread(item)
         /\ item.letter = "t" /\ number \notin 1 .. 10 => Misread(item)
    BY DEF MeantValue, Misread, number, spec, DefaultSubSecondPrecision, DefaultThreadIdLength
  <1>13. item.letter # "s" OBVIOUS
  <1>14. CASE value = 0
    <2> DEFINE default == DefaultSpec(rest, index, flag)
               letter == item.letter
    <2>1. DefaultsOf(default, letter, rest, flag)
      <3> HIDE DEF letter, default
      <3>1. IsValidFlag(letter) /\ letter # Spaced BY <1>2, Zenon DEF letter
      <3>2. DefaultsOf(DefaultSpec(rest, IndexOf(letter), flag), letter, rest, flag)
        BY <3>1, DefaultRead, Zenon
      <3>3. default = DefaultSpec(rest, IndexOf(letter), flag) BY Zenon DEF default, index, letter
      <3> QED BY <3>2, <3>3, Zenon
    <2>2. read = default BY <1>10, <1>14
    <2> HIDE DEF default
    <2>3. /\ read.rest = rest /\ read.thrown = FALSE /\ read.flag = flag
          /\ item.letter = "e" => read.value = 3
          /\ item.letter = "t" => read.value = 0
      BY <1>13, <2>1, <2>2, Zenon DEF DefaultsOf, letter
    <2>4. /\ item.letter = "e" => Misread(item) \/ read.value = MeantValue(item)
          /\ item.letter = "t" => Misread(item)
      <3>1. 0 \notin 1 .. 10 /\ (number > 9 => 3 # 0) OBVIOUS
      <3>2. item.letter = "t" => number = 0 BY <1>11, <1>14
      <3>3. item.letter = "e" => number = 0 BY <1>4, <1>11, <1>14, <3>1
      <3> QED BY <1>12, <3>1, <3>2, <3>3, Zenon
    <2> QED BY <1>13, <2>3, <2>4, Zenon DEF ReadOf, read, text, index, spec
  <1>15. CASE value # 0
    <2>1. read.rest = rest /\ read.thrown = FALSE /\ read.flag = flag /\ read.value = value
      BY <1>10, <1>15 DEF SpecRead
    <2>2. /\ item.letter = "e" => Misread(item) \/ value = MeantValue(item)
          /\ item.letter = "t" => Misread(item) \/ ThreadDigits(value) = MeantValue(item)
      BY <1>4, <1>11, <1>12, <1>15 DEF ThreadDigits
    <2> QED BY <1>13, <2>1, <2>2, Zenon DEF ReadOf, read, text, index, spec
  <1> QED BY <1>14, <1>15

\* Letters of a source specification are read to their end, and no further.
LEMMA SourceParsed ==
  ASSUME NEW item \in Items, IsFlag(item), IsValidFlag(item.letter), NEW rest \in Seq(Char),
         NEW flag, item.spec # <<>>, item.letter = "s", Readable(item, rest)
  PROVE  ReadOf(ParseUserPatternForSpec((<<":">> \o item.spec) \o rest, IndexOf(item.letter), flag),
                item, rest, flag)
  <1> DEFINE spec == item.spec
             digits == Range(Digits)
             index == IndexOf(item.letter)
             bits == {SourceBit[c] : c \in Range(spec)}
             tail == spec \o rest
             text == (<<":">> \o spec) \o rest
             read == ParseUserPatternForSpec(text, index, flag)
  <1>1. spec # <<>> /\ Range(spec) \subseteq validCharSpecs /\ (rest # <<>> => rest[1] \notin validCharSpecs)
    BY DEF Readable
  <1>2. spec \in Seq(STRING) /\ item.letter # Spaced BY ItemKinds
  <1>3. \A i \in 1 .. Len(spec) : spec[i] \in validCharSpecs
    <2> HIDE DEF spec
    <2> QED BY <1>1, <1>2 DEF Range
  <1>5. spec \in Seq(Char) /\ Len(spec) \in Nat /\ Len(spec) > 0
    <2> HIDE DEF spec
    <2>1. spec \in [1 .. Len(spec) -> Char] /\ Len(spec) \in Nat BY <1>2 DEF Char
    <2>2. Len(spec) # 0 BY <1>1, <1>2
    <2> QED BY <2>1, <2>2
  <1>6. /\ text # <<>> /\ text # <<":">> /\ Len(text) > 1 /\ Head(text) = ":" /\ Tail(text) = tail
    BY <1>5, ColonText
  <1>7. CountLeading(tail, validCharSpecs) = Len(spec)
    <2> HIDE DEF spec
    <2> QED BY <1>1, <1>3, <1>5, Counted
  <1>8. /\ tail \in Seq(Char) /\ SubSeq(tail, 1, Len(spec)) = spec
        /\ SubSeq(tail, Len(spec) + 1, Len(tail)) = rest /\ tail[1] = spec[1]
    <2> HIDE DEF spec
    <2> QED BY <1>1, <1>5, JoinedText
  <1>9. tail[1] \in Letters /\ tail[1] \notin digits
    <2>1. spec[1] \in validCharSpecs BY <1>3, <1>5
    <2> QED BY <1>8, <2>1, CharKinds
  <1>10. CountLeading(tail, digits) = 0
    <2> DEFINE none == <<>>
    <2> HIDE DEF tail, digits
    <2>1. none \in Seq(Char) /\ Len(none) = 0 /\ none \o tail = tail BY <1>8
    <2>2. \A i \in 1 .. Len(none) : none[i] \in digits BY <2>1
    <2> HIDE DEF none
    <2>3. CountLeading(none \o tail, digits) = Len(none) BY <1>8, <1>9, <2>1, <2>2, Counted
    <2> QED BY <2>1, <2>3
  <1>11. read = SpecRead(rest, 0, ValidateUserCharSpec(index, flag, Range(spec)))
    <2> HIDE DEF spec, index, tail, text
    <2>5. Tail(text) = tail /\ ~(0 > 0) /\ Len(spec) # 0 BY <1>5, <1>6
    <2>2. CountLeading(Tail(text), validCharSpecs) = Len(spec) /\ Len(spec) # 0
      BY <1>7, <2>5, Zenon
    <2>3. Tail(text)[1] \in Letters BY <1>9, <2>5, Zenon
    <2>4. ~(CountLeading(Tail(text), Range(Digits)) > 0) BY <1>10, <2>5, Zenon
    <2> QED BY <1>6, <1>7, <1>8, <2>2, <2>3, <2>4, ReadLetters
  <1> HIDE DEF index
  <1>12. index = SourceIndex BY <1>2, FlagFound DEF index
  <1> HIDE DEF spec, bits, text, tail
  <1>13. ValidateUserCharSpec(index, flag, Range(spec)) = flag \union bits
    BY <1>12, Zenon DEF ValidateUserCharSpec, bits
  <1>14. MeantValue(item) = bits
    <2>1. item.letter # "e" /\ item.letter # "t" OBVIOUS
    <2> QED BY <1>1, <2>1, Zenon DEF MeantValue, bits, spec
  <1> HIDE DEF read
  <1>15. read.rest = rest /\ read.thrown = FALSE /\ read.flag = flag \union bits
    BY <1>11, <1>13 DEF SpecRead
  <1>16. item.letter # "e" /\ item.letter # "t" OBVIOUS
  <1> QED BY <1>1, <1>14, <1>15, <1>16, Zenon DEF ReadOf, read, text, index, spec

\* The values meant where nothing is given.
LEMMA MeantDefaults ==
  ASSUME NEW item, item.spec = <<>>
  PROVE  /\ item.letter = "e" => MeantValue(item) = 3
         /\ item.letter = "t" => MeantValue(item) = 10
         /\ item.letter = "s" => MeantValue(item) = {"all"}
  <1>1. item.letter = "t" => item.letter # "e" OBVIOUS
  <1>2. item.letter = "s" => item.letter # "e" /\ item.letter # "t" OBVIOUS
  <1> QED BY <1>1, <1>2, Zenon DEF MeantValue, DefaultSubSecondPrecision, DefaultThreadIdLength

\* Whatever stands behind a flag, its own specification and no more of it is read.
LEMMA SpecParsed ==
  ASSUME NEW item \in Items, IsFlag(item), IsValidFlag(item.letter), NEW rest \in Seq(Char), NEW flag,
         Readable(item, rest)
  PROVE  ReadOf(ParseUserPatternForSpec((IF item.spec = <<>> THEN <<>> ELSE <<":">> \o item.spec) \o rest,
                                        IndexOf(item.letter), flag), item, rest, flag)
  <1> DEFINE text == (IF item.spec = <<>> THEN <<>> ELSE <<":">> \o item.spec) \o rest
             index == IndexOf(item.letter)
             read == ParseUserPatternForSpec(text, index, flag)
  <1>1. item.letter # Spaced BY ItemKinds
  <1>2. CASE item.spec = <<>>
    <2>1. text = rest BY <1>2
    <2>2. CASE rest = <<>>
      <3>1. read = SpecRead(rest, 0, flag) BY <2>1, <2>2, ReadNothing
      <3> HIDE DEF read
      <3>2. read.rest = rest /\ read.value = 0 /\ read.flag = flag /\ read.thrown = FALSE BY <3>1 DEF SpecRead
      <3>3. ThreadDigits(read.value) = 10 BY <3>2 DEF ThreadDigits
      <3> QED BY <1>2, <2>2, <3>2, <3>3, MeantDefaults, Zenon DEF ReadOf, read, text, index
    <2>3. CASE rest # <<>>
      <3>1. read = DefaultSpec(rest, index, flag) BY <1>2, <2>1, <2>3, NoSpecParsed
      <3>2. DefaultsOf(DefaultSpec(rest, index, flag), item.letter, rest, flag) BY <1>1, DefaultRead, Zenon
      <3> HIDE DEF read
      <3>3. DefaultsOf(read, item.letter, rest, flag) BY <3>1, <3>2, Zenon
      <3>4. item.letter = "t" => ThreadDigits(read.value) = 10 BY <3>3 DEF DefaultsOf, ThreadDigits
      <3> QED BY <1>2, <2>3, <3>3, <3>4, MeantDefaults, Zenon DEF ReadOf, read, DefaultsOf
    <2> QED BY <2>2, <2>3
  <1>3. CASE item.spec # <<>> /\ item.letter \in {"e", "t"}
    <2> HIDE DEF index
    <2>1. text = (<<":">> \o item.spec) \o rest BY <1>3, Zenon
    <2>2. ReadOf(ParseUserPatternForSpec((<<":">> \o item.spec) \o rest, index, flag), item, rest, flag)
      BY <1>3, PrecisionParsed, Zenon DEF index
    <2> QED BY <2>1, <2>2, Zenon DEF text, index
  <1>4. CASE item.spec # <<>> /\ item.letter = "s"
    <2> HIDE DEF index
    <2>1. text = (<<":">> \o item.spec) \o rest BY <1>4, Zenon
    <2>2. ReadOf(ParseUserPatternForSpec((<<":">> \o item.spec) \o rest, index, flag), item, rest, flag)
      BY <1>4, SourceParsed, Zenon DEF index
    <2> QED BY <2>1, <2>2, Zenon DEF text, index
  <1> QED BY <1>2, <1>3, <1>4 DEF Readable

\* What a pattern that is well formed at a flag has behind it.
LEMMA FlagReadable ==
  ASSUME NEW items, NEW i, WellFormedAt(items, i), IsFlag(items[i])
  PROVE  /\ Readable(items[i], Behind(items, i))
         /\ items[i].spec # <<>> => items[i].letter \in {"e", "t", "s"}
  <1> DEFINE item == items[i]
             rest == Behind(items, i)
             next == IF rest = <<>> THEN "" ELSE rest[1]
             Default == next # ":" \/ (Len(rest) > 1 /\ rest[2] \notin Letters \union Range(Digits))
             Precision == Range(item.spec) \subseteq Range(Digits) /\ Len(item.spec) < MaxDigits
                          /\ next \notin Range(Digits)
             Source == Range(item.spec) \subseteq validCharSpecs /\ next \notin validCharSpecs
             Formed == CASE item.spec = <<>> -> Default
                         [] item.spec # <<>> /\ item.letter \in {"e", "t"} -> Precision
                         [] item.spec # <<>> /\ item.letter = "s" -> Source
                         [] OTHER -> FALSE
  <1>1. Formed BY Zenon DEF WellFormedAt
  <1>2. rest # <<>> => next = rest[1] BY Zenon
  <1>3. item.letter = "s" => item.letter \notin {"e", "t"} OBVIOUS
  <1> HIDE DEF rest, next, item
  <1>4. CASE item.spec = <<>>
    <2>1. Default
      <3> HIDE DEF Default, Precision, Source
      <3> QED BY <1>1, <1>4, Zenon
    <2> QED BY <1>2, <1>4, <2>1 DEF Readable, item, rest
  <1>5. CASE item.spec # <<>> /\ item.letter \in {"e", "t"}
    <2>1. Precision
      <3> HIDE DEF Default, Precision, Source
      <3> QED BY <1>1, <1>3, <1>5, Zenon
    <2> QED BY <1>2, <1>5, <2>1 DEF Readable, item, rest
  <1>6. CASE item.spec # <<>> /\ item.letter = "s"
    <2>1. Source
      <3> HIDE DEF Default, Precision, Source
      <3> QED BY <1>1, <1>3, <1>6, Zenon
    <2> QED BY <1>2, <1>6, <2>1 DEF Readable, item, rest
  <1>7. \/ item.spec = <<>>
        \/ item.spec # <<>> /\ item.letter \in {"e", "t"}
        \/ item.spec # <<>> /\ item.letter = "s"
    <2> HIDE DEF Default, Precision, Source
    <2>1. item.spec # <<>> /\ item.letter \notin {"e", "t"} /\ item.letter # "s" => FALSE
      BY <1>1
    <2> QED BY <2>1
  <1> QED BY <1>4, <1>5, <1>6, <1>7, Zenon DEF item, rest

\* A well formed text is not empty, has no '%', and a flag or nothing behind it.
LEMMA TextFormed ==
  ASSUME NEW items, NEW i, WellFormedAt(items, i), ~IsFlag(items[i])
  PROVE  /\ items[i].chars # <<>> /\ "%" \notin Range(items[i].chars)
         /\ i = Len(items) \/ IsFlag(items[i + 1])
  BY Zenon DEF WellFormedAt

\* An item is written with at least one character, a flag with two.
LEMMA ItemBegins ==
  ASSUME NEW item \in Items, NEW rest \in Seq(Char)
  PROVE  LET text == RenderItem(item) \o rest IN
         /\ text \in Seq(Char)
         /\ IsFlag(item) =>
              /\ Len(text) > 1 /\ Head(text) = "%" /\ text[2] = item.letter
              /\ SubSeq(text, 3, Len(text))
                     = (IF item.spec = <<>> THEN <<>> ELSE <<":">> \o item.spec) \o rest
              /\ SubSeq(text, 1, 2) = <<"%", item.letter>>
         /\ ~IsFlag(item) => RenderItem(item) = item.chars
  <1> DEFINE flag == <<"%", item.letter>>
             spec == IF item.spec = <<>> THEN <<>> ELSE <<":">> \o item.spec
             tail == spec \o rest
             text == RenderItem(item) \o rest
  <1>1. RenderItem(item) \in Seq(Char) BY ItemText
  <1>2. text \in Seq(Char) BY <1>1, TextBehind
  <1>3. CASE ~IsFlag(item)
    <2>1. RenderItem(item) = item.chars BY <1>3 DEF RenderItem
    <2> QED BY <1>2, <1>3, <2>1
  <1>4. CASE IsFlag(item)
    <2>1. item.letter \in Char /\ "%" \in Char /\ ":" \in Char /\ item.spec \in Seq(STRING)
      BY <1>4, ItemKinds DEF Char
    <2>2. item.spec \in Seq(Char)
      <3> DEFINE s == item.spec
      <3> HIDE DEF s
      <3>1. s \in Seq(STRING) BY <2>1 DEF s
      <3>2. Len(s) \in Nat /\ s \in [1 .. Len(s) -> STRING] BY <3>1
      <3>3. s \in [1 .. Len(s) -> Char] BY <3>2 DEF Char
      <3> HIDE DEF Char
      <3> QED BY <3>2, <3>3 DEF s
    <2> HIDE DEF Char
    <2>3. spec \in Seq(Char)
      <3> DEFINE colon == <<":">>
                 s == item.spec
                 none == <<>>
                 both == colon \o s
      <3>1. colon \in Seq(Char) /\ none \in Seq(Char) /\ s \in Seq(Char) BY <2>1, <2>2
      <3> HIDE DEF colon, s, none
      <3>2. both \in Seq(Char) BY <3>1
      <3> HIDE DEF both
      <3>3. (IF s = none THEN none ELSE both) \in Seq(Char) BY <3>1, <3>2, Zenon
      <3> QED BY <3>3, Zenon DEF colon, s, none, both
    <2>4. flag \in Seq(Char) /\ Len(flag) = 2 /\ flag[1] = "%" /\ flag[2] = item.letter /\ flag # <<>>
      BY <2>1
    <2>5. RenderItem(item) = flag \o spec BY <1>4, Zenon DEF RenderItem
    <2> HIDE DEF flag, spec
    <2>6. text = flag \o tail BY <2>3, <2>4, <2>5, ConcatAssociative
    <2>7. tail \in Seq(Char) /\ Len(tail) \in Nat
      <3>1. tail \in Seq(Char) BY <2>3, TextBehind
      <3> HIDE DEF tail
      <3> QED BY <3>1
    <2> HIDE DEF tail, text
    <2>8. /\ Len(text) = Len(flag) + Len(tail)
          /\ SubSeq(text, Len(flag) + 1, Len(text)) = tail
          /\ SubSeq(text, 1, Len(flag)) = flag /\ text[1] = flag[1]
      BY <2>4, <2>6, <2>7, JoinedText
    <2>9. text[2] = flag[2]
      <3> DEFINE both == flag \o tail
      <3>1. \A k \in 1 .. Len(flag) : both[k] = flag[k] BY <2>4, <2>7, TextBehind
      <3> HIDE DEF both
      <3>2. 2 \in 1 .. Len(flag) BY <2>4
      <3> QED BY <2>6, <3>1, <3>2 DEF both
    <2>10. Len(text) > 1 /\ Head(text) = text[1] /\ Len(flag) + 1 = 3
      BY <1>2, <2>4, <2>7, <2>8 DEF text
    <2> QED BY <1>2, <1>4, <2>4, <2>8, <2>9, <2>10, Zenon DEF flag, spec, tail, text
  <1> QED BY <1>3, <1>4

\* A day's text is that of an instant with the field's key, a text's is its value.
Made(f) ==
    /\ f.class \in DayClasses =>
           \E k \in 1 .. Len(Instants) : /\ f.key = Instants[k].tm.mday
                                         /\ f.text = DayText(f.class, Instants[k].tm)
    /\ f.class = "char" => f.text = f.value
AtInstant(info) == \E k \in 1 .. Len(Instants) : info.tm = Instants[k].tm

\* UpdateInternalView changes the key and the text, and leaves the value.
LEMMA ViewParts ==
  ASSUME NEW f, NEW info, IsField(f)
  PROVE  LET g == UpdateInternalView(f, info) IN
         /\ g.class = f.class /\ g.value = f.value /\ g.key = Remembered(f.class, info)
         /\ f.class \in DayClasses => g.text = DayText(f.class, info.tm)
  <1> DEFINE key == Remembered(f.class, info)
             text == IF f.class \in DayClasses THEN DayText(f.class, info.tm) ELSE KeyText(f.class, key)
             g == UpdateInternalView(f, info)
  <1>1. g = [f EXCEPT !.key = key, !.text = text] BY DEF UpdateInternalView
  <1>2. f.class \in DayClasses => text = DayText(f.class, info.tm) BY Zenon
  <1> HIDE DEF key, text
  <1>3. [f EXCEPT !.key = key, !.text = text]
            = [class |-> f.class, value |-> f.value, key |-> key, text |-> text]
    BY KeyAndText, Zenon
  <1> HIDE DEF g
  <1>4. g.class = f.class /\ g.value = f.value /\ g.key = key /\ g.text = text BY <1>1, <1>3
  <1> QED BY <1>2, <1>4 DEF g, key

\* A day is compared by the day of the month.
LEMMA DayKey ==
  ASSUME NEW class \in DayClasses, NEW info
  PROVE  /\ Compared(class, info) = info.tm.mday /\ Remembered(class, info) = info.tm.mday
         /\ class \in Cached /\ class \notin Direct /\ class \notin {"b", "T", "m"} /\ class # "char"
  <1>1. class = "n" \/ class = "D" \/ class = "F" BY DEF DayClasses
  <1>2. Compared(class, info) = info.tm.mday BY <1>1 DEF Compared
  <1>3. Remembered(class, info) = Compared(class, info) BY <1>1 DEF Remembered
  <1>4. class \in Cached BY DEF Cached
  <1>5. class \notin Direct /\ class \notin {"b", "T", "m"} /\ class # "char" BY <1>1 DEF Direct, KeyClasses
  <1> QED BY <1>2, <1>3, <1>4, <1>5

\* A field is built for the value given, with the text of the time.
LEMMA ConstructMade ==
  ASSUME NEW class, NEW value, NEW info
  PROVE  LET f == Construct(class, value, info) IN
         /\ f.value = value /\ (class = "char" => f.text = value)
         /\ class \in DayClasses => f.key = info.tm.mday /\ f.text = DayText(class, info.tm)
  <1> DEFINE f == Field(class, value)
             g == Construct(class, value, info)
  <1>1. IsField(f) /\ f.class = class /\ f.value = value BY DEF IsField, Field
  <1>2. CASE class \in Cached \ {"b", "T"}
    <2>1. g = UpdateInternalView(f, info) BY <1>2 DEF Construct, Cached, KeyClasses, DayClasses
    <2>2. class # "char" BY <1>2 DEF Cached, KeyClasses, DayClasses
    <2>3. /\ g.value = value /\ g.key = Remembered(class, info)
          /\ class \in DayClasses => g.text = DayText(class, info.tm)
      BY <1>1, <2>1, ViewParts
    <2> HIDE DEF f, g
    <2> QED BY <2>2, <2>3, DayKey DEF g
  <1>3. CASE class \notin Cached \ {"b", "T"}
    <2>1. class \notin DayClasses BY <1>3 DEF Cached, DayClasses
    <2>2. CASE class = "b"
      <3>1. g = [f EXCEPT !.key = info.tm.mon] BY <2>2 DEF Construct
      <3> QED BY <1>1, <2>1, <2>2, <3>1 DEF IsField
    <2>3. CASE class = "T"
      <3> DEFINE text == KeyText("T", <<info.tm.hour, info.tm.min>>) \o <<":">>
                 key == <<info.tm.hour, info.tm.min>>
      <3>1. g = [f EXCEPT !.key = key, !.text = text]
        BY <2>3 DEF Construct
      <3> HIDE DEF text, f, g, key
      <3>2. [f EXCEPT !.key = key, !.text = text]
                = [class |-> f.class, value |-> f.value, key |-> key, text |-> text]
        BY <1>1, KeyAndText, Zenon
      <3> QED BY <1>1, <2>1, <2>3, <3>1, <3>2 DEF g
    <2>4. CASE class = "r"
      <3> DEFINE views == <<"", "">>
                 h == [f EXCEPT !.text = views]
      <3>1. IsField(h) /\ h.value = value
        <4> HIDE DEF f, views
        <4> QED BY <1>1, TextOnly
      <3>2. g = UpdateTwelveHour(h, info)
        BY <2>4 DEF Construct, Cached, KeyClasses, DayClasses
      <3> HIDE DEF h, g
      <3>3. UpdateTwelveHour(h, info).value = h.value
        BY <3>1 DEF UpdateTwelveHour, IsField
      <3> QED BY <2>1, <2>4, <3>1, <3>2, <3>3 DEF g
    <2>5. CASE class = "Z"
      <3>1. g = [f EXCEPT !.text = <<info.zone.abbrev>>]
        BY <2>5 DEF Construct, Cached, KeyClasses, DayClasses
      <3> QED BY <1>1, <2>1, <2>5, <3>1 DEF IsField
    <2>6. CASE class = "char"
      <3>1. g = [f EXCEPT !.text = value]
        BY <2>6 DEF Construct, Cached, KeyClasses, DayClasses
      <3> QED BY <1>1, <2>1, <2>6, <3>1 DEF IsField
    <2>7. CASE class \notin {"b", "T", "r", "Z", "char"}
      <3>1. g = f BY <1>3, <2>7 DEF Construct
      <3> QED BY <1>1, <2>1, <2>7, <3>1
    <2> QED BY <2>2, <2>3, <2>4, <2>5, <2>6, <2>7
  <1> QED BY <1>2, <1>3

\* A line leaves the value of a field, and its text made of one day.
LEMMA AfterMade ==
  ASSUME NEW f, NEW info, IsField(f), Made(f), AtInstant(info)
  PROVE  LET g == After(f, info) IN
         /\ g.class = f.class /\ g.value = f.value /\ Made(g)
         /\ f.class = "char" => g.text = f.value
         /\ f.class \in DayClasses =>
                \/ g.text = DayText(f.class, info.tm)
                \/ f.key = info.tm.mday /\ g.text = f.text
  <1> DEFINE g == After(f, info)
  <1>1. CASE f.class \in Cached
    <2>1. f.class # "char" BY <1>1 DEF Cached, KeyClasses, DayClasses
    <2>2. CASE Compared(f.class, info) = f.key
      <3>1. g = f BY <1>1, <2>2 DEF After, Cached, KeyClasses, DayClasses
      <3> HIDE DEF g
      <3>2. f.class \in DayClasses => f.key = info.tm.mday BY <2>2, DayKey
      <3> QED BY <2>1, <3>1, <3>2 DEF g
    <2>3. CASE Compared(f.class, info) # f.key
      <3>1. g = UpdateInternalView(f, info)
        BY <1>1, <2>3 DEF After, Cached, KeyClasses, DayClasses
      <3>2. /\ g.class = f.class /\ g.value = f.value /\ g.key = Remembered(f.class, info)
            /\ f.class \in DayClasses => g.text = DayText(f.class, info.tm)
        BY <3>1, ViewParts
      <3> HIDE DEF g
      <3>3. PICK k \in 1 .. Len(Instants) : info.tm = Instants[k].tm BY DEF AtInstant
      <3>4. f.class \in DayClasses => Remembered(f.class, info) = info.tm.mday BY DayKey
      <3>5. Made(g) BY <2>1, <3>2, <3>3, <3>4 DEF Made
      <3> QED BY <2>1, <3>2, <3>5 DEF g
    <2> QED BY <2>2, <2>3
  <1>2. CASE f.class \notin Cached
    <2>1. f.class \notin DayClasses BY <1>2 DEF Cached
    <2>2. CASE f.class = "r"
      <3>1. g = UpdateTwelveHour(f, info) BY <1>2, <2>2 DEF After
      <3>2. g.class = f.class /\ g.value = f.value BY <3>1 DEF UpdateTwelveHour, IsField
      <3> QED BY <2>1, <2>2, <3>2 DEF Made
    <2>3. CASE f.class = "z"
      <3>1. g = [f EXCEPT !.key = info.tm.min] BY <1>2, <2>3 DEF After
      <3>2. g.class = f.class /\ g.value = f.value BY <3>1 DEF IsField
      <3> QED BY <2>1, <2>3, <3>2 DEF Made
    <2>4. CASE f.class \notin {"r", "z"}
      <3>1. g = f BY <1>2, <2>4 DEF After
      <3> QED BY <2>1, <3>1 DEF Made
    <2> QED BY <2>2, <2>3, <2>4
  <1> QED BY <1>1, <1>2

\* A date and a text are shown as they are kept.
LEMMA ShownKept ==
  ASSUME NEW f, NEW info, f.class \in DayClasses \union {"char"}
  PROVE  Shown(f, info) = After(f, info).text
  BY DEF Shown, DayClasses, KeyClasses, Cached

\* What the other classes show is made of the value, or of the message alone.
LEMMA ShownRest ==
  ASSUME NEW f, NEW info
  PROVE  /\ f.class = "e" => Shown(f, info) = <<"subsecond digits", ToString(f.value)>>
         /\ f.class = "t" => Shown(f, info)
                = <<"thread id digits", ToString(IF f.value = 0 THEN 10 ELSE f.value)>>
         /\ f.class = "s" => Shown(f, info) = SourceText(f.value, info.source)
         /\ f.class = "R" => Shown(f, info) = <<numberStr(info.tm.hour), ":", numberStr(info.tm.min)>>
         /\ f.class = "c" => Shown(f, info)
                = <<short_weekdays[info.tm.wday + 1], " ", short_months[info.tm.mon + 1], " ",
                    numberStr(info.tm.mday), " ", numberStr(info.tm.hour), ":", numberStr(info.tm.min),
                    ":", numberStr(info.tm.sec), " ", LongYear(info.tm.year)>>
  BY DEF Shown, DayClasses, KeyClasses, Cached

\* So two objects of one of these classes show the same.
LEMMA ShownAlike ==
  ASSUME NEW f, NEW g, NEW info, f.class = g.class, f.class \in {"e", "t", "s", "N", "+", "c", "R"},
         f.class \in {"e", "t", "s"} => f.value = g.value
  PROVE  Shown(f, info) = Shown(g, info)
  <1>1. CASE f.class \in {"e", "t", "s"} BY <1>1, ShownRest, Zenon
  <1>2. CASE f.class \in {"c", "R"} BY <1>2, ShownRest, Zenon
  <1>3. CASE f.class \in {"N", "+"} BY <1>3, ShownText
  <1> QED BY <1>1, <1>2, <1>3

\* The same day of the same month and year is written the same way.
LEMMA SameDay ==
  ASSUME NEW class \in DayClasses, NEW s, NEW t, s.mday = t.mday, s.mon = t.mon, s.year = t.year
  PROVE  DayText(class, s) = DayText(class, t)
  BY DEF DayClasses, DayText

\* A field that is kept from line to line shows what one built for this line would.
LEMMA AsNew ==
  ASSUME NEW class \in Faithful, NEW value, NEW f, NEW info, IsField(f), Fresh(f), Made(f),
         AtInstant(info), f.class = class, class \in {"e", "t", "s"} => f.value = value,
         class \in DayClasses =>
             \A k \in 1 .. Len(Instants) : Instants[k].tm.mday = info.tm.mday =>
                 Instants[k].tm.mon = info.tm.mon /\ Instants[k].tm.year = info.tm.year
  PROVE  Shown(f, info) = Shown(Construct(class, value, info), info)
  <1> DEFINE g == Construct(class, value, info)
  <1>1. IsField(g) /\ g.class = class /\ Fresh(g) BY Constructed
  <1>2. g.value = value /\ (class \in DayClasses => g.key = info.tm.mday /\ g.text = DayText(class, info.tm))
        /\ (class = "char" => g.text = value)
    BY ConstructMade
  <1> HIDE DEF g
  <1>3. CASE class \in Direct
    <2>1. After(f, info).text = KeyText(class, Compared(class, info)) BY <1>3, Formatted
    <2>2. After(g, info).text = KeyText(class, Compared(class, info)) BY <1>1, <1>3, Formatted
    <2>3. Shown(f, info) = After(f, info).text BY <1>3, ShownText
    <2>4. Shown(g, info) = After(g, info).text BY <1>1, <1>3, ShownText
    <2> QED BY <2>1, <2>2, <2>3, <2>4 DEF g
  <1>4. CASE class \in DayClasses
    <2>1. Made(g)
      <3>1. PICK k \in 1 .. Len(Instants) : info.tm = Instants[k].tm BY DEF AtInstant
      <3> QED BY <1>1, <1>2, <1>4, <3>1, DayKey DEF Made
    <2>2. After(g, info).text = DayText(class, info.tm) BY <1>1, <1>2, <1>4, <2>1, AfterMade
    <2>3. After(f, info).text = DayText(class, info.tm)
      <3>1. \/ After(f, info).text = DayText(class, info.tm)
            \/ f.key = info.tm.mday /\ After(f, info).text = f.text
        BY <1>4, AfterMade
      <3>2. PICK k \in 1 .. Len(Instants) : f.key = Instants[k].tm.mday /\ f.text = DayText(class, Instants[k].tm)
        BY <1>4 DEF Made
      <3>3. f.key = info.tm.mday => f.text = DayText(class, info.tm) BY <1>4, <3>2, SameDay
      <3> QED BY <3>1, <3>3
    <2>4. Shown(f, info) = After(f, info).text BY <1>4, ShownKept
    <2>5. Shown(g, info) = After(g, info).text BY <1>1, <1>4, ShownKept
    <2> QED BY <2>2, <2>3, <2>4, <2>5 DEF g
  <1>5. CASE class \in {"e", "t", "s", "N", "+", "c", "R"} BY <1>1, <1>2, <1>5, ShownAlike DEF g
  <1> QED BY <1>3, <1>4, <1>5 DEF Faithful

\* A text is shown as it was given.
LEMMA TextShown ==
  ASSUME NEW f, NEW info, IsField(f), Made(f), AtInstant(info), f.class = "char"
  PROVE  Shown(f, info) = f.value
  <1>1. Shown(f, info) = After(f, info).text BY ShownKept
  <1>2. After(f, info).text = f.value BY AfterMade
  <1> QED BY <1>1, <1>2

\* The flags with a specification are known.
LEMMA SpecifiedKnown == \A letter \in {"e", "t", "s"} : IsValidFlag(letter)
  <1>1. 5 \in 1 .. 34 /\ 12 \in 1 .. 34 /\ 13 \in 1 .. 34 OBVIOUS
  <1> QED BY <1>1, FlagEntries DEF IsValidFlag

\* So are those of which a comment says how they are shown.
LEMMA ShowingKnown == \A letter \in {"w", "I", "t"} : IsValidFlag(letter)
  <1>1. 14 \in 1 .. 34 /\ 24 \in 1 .. 34 /\ 13 \in 1 .. 34 OBVIOUS
  <1> QED BY <1>1, FlagEntries DEF IsValidFlag

\* What a turn of StoreFormat finds at the next item of a pattern.
LEMMA TurnFlag ==
  ASSUME NEW items \in Seq(Items), NEW k \in 0 .. Len(items) - 1, WellFormedAt(items, k + 1),
         IsFlag(items[k + 1])
  PROVE  LET text == Behind(items, k)
             item == items[k + 1]
         IN /\ Len(text) > 1 /\ Head(text) = "%" /\ text[2] = item.letter
            /\ SubSeq(text, 1, 2) = <<"%", item.letter>>
            /\ ~IsValidFlag(item.letter) => SubSeq(text, 3, Len(text)) = Behind(items, k + 1)
            /\ IsValidFlag(item.letter) =>
                   \A flag : ReadOf(ParseUserPatternForSpec(SubSeq(text, 3, Len(text)),
                                                            IndexOf(item.letter), flag),
                                    item, Behind(items, k + 1), flag)
  <1> DEFINE item == items[k + 1]
             rest == Behind(items, k + 1)
             text == Behind(items, k)
             spec == IF item.spec = <<>> THEN <<>> ELSE <<":">> \o item.spec
  <1>1. item \in Items /\ rest \in Seq(Char) /\ text = RenderItem(item) \o rest
    <2>1. k + 1 \in 1 .. Len(items) OBVIOUS
    <2>2. item \in Items BY <2>1
    <2> QED BY <2>2, BehindItem
  <1>2. Readable(item, rest) /\ (item.spec # <<>> => item.letter \in {"e", "t", "s"}) BY FlagReadable
  <1> HIDE DEF item, rest, text
  <1>3. IsFlag(item) BY DEF item
  <1>4. /\ Len(text) > 1 /\ Head(text) = "%" /\ text[2] = item.letter
        /\ SubSeq(text, 3, Len(text)) = spec \o rest /\ SubSeq(text, 1, 2) = <<"%", item.letter>>
    BY <1>1, <1>3, ItemBegins, Zenon
  <1>5. ASSUME ~IsValidFlag(item.letter) PROVE SubSeq(text, 3, Len(text)) = rest
    <2>1. item.spec = <<>> BY <1>2, <1>5, SpecifiedKnown
    <2>2. spec \o rest = <<>> \o rest BY <2>1
    <2>3. <<>> \o rest = rest BY <1>1
    <2> QED BY <1>4, <2>2, <2>3, Zenon
  <1>6. ASSUME IsValidFlag(item.letter), NEW flag
        PROVE  ReadOf(ParseUserPatternForSpec(SubSeq(text, 3, Len(text)), IndexOf(item.letter), flag),
                      item, rest, flag)
    <2>1. ReadOf(ParseUserPatternForSpec(spec \o rest, IndexOf(item.letter), flag), item, rest, flag)
      BY <1>1, <1>2, <1>3, <1>6, SpecParsed, Zenon
    <2> QED BY <1>4, <2>1, Zenon
  <1> QED BY <1>4, <1>5, <1>6, Zenon DEF item, rest, text

\* A text is taken off up to the flag behind it.
LEMMA TurnText ==
  ASSUME NEW items \in Seq(Items), NEW k \in 0 .. Len(items) - 1, WellFormedAt(items, k + 1),
         ~IsFlag(items[k + 1])
  PROVE  LET text == Behind(items, k)
             chars == items[k + 1].chars
             size == CountLeading(text, Range(text) \ {"%"})
         IN /\ text # <<>> /\ Head(text) # "%"
            /\ SubSeq(text, 1, size) = chars
            /\ SubSeq(text, size + 1, Len(text)) = Behind(items, k + 1)
  <1> DEFINE item == items[k + 1]
             rest == Behind(items, k + 1)
             text == Behind(items, k)
             chars == item.chars
             allowed == Range(text) \ {"%"}
  <1>1. item \in Items /\ rest \in Seq(Char) /\ text = RenderItem(item) \o rest
    <2>1. k + 1 \in 1 .. Len(items) OBVIOUS
    <2>2. item \in Items BY <2>1
    <2> QED BY <2>2, BehindItem
  <1>2. chars # <<>> /\ "%" \notin Range(chars) BY TextFormed
  <1>3. rest # <<>> => rest[1] = "%"
    <2>1. CASE k + 1 = Len(items) BY <2>1, BehindEnds
    <2>2. CASE k + 1 # Len(items)
      <3>1. IsFlag(items[(k + 1) + 1]) BY <2>2, TextFormed
      <3>2. k + 1 \in 0 .. Len(items) - 1 /\ (k + 1) + 1 \in 1 .. Len(items)
        <4>1. Len(items) \in Nat OBVIOUS
        <4> QED BY <2>2, <4>1
      <3> DEFINE next == items[(k + 1) + 1]
                 after == Behind(items, (k + 1) + 1)
                 both == RenderItem(next) \o after
      <3>3. next \in Items BY <3>2
      <3>4. after \in Seq(Char) /\ rest = both BY <3>2, BehindItem
      <3> HIDE DEF rest, next, after
      <3>5. both \in Seq(Char) /\ Len(both) > 1 /\ Head(both) = "%"
        BY <3>1, <3>3, <3>4, ItemBegins DEF next
      <3> HIDE DEF both
      <3>6. Head(both) = both[1] BY <3>5
      <3> QED BY <3>4, <3>5, <3>6
    <2> QED BY <2>1, <2>2
  <1> HIDE DEF item, rest, text
  <1>4. ~IsFlag(item) BY DEF item
  <1>5. text = chars \o rest BY <1>1, <1>4, Zenon DEF RenderItem
  <1>6. chars \in Seq(Char)
    <2>1. RenderItem(item) \in Seq(Char) BY <1>1, ItemText
    <2> QED BY <1>4, <2>1, Zenon DEF RenderItem
  <1> HIDE DEF chars
  <1>7. /\ text \in Seq(Char) /\ Len(text) = Len(chars) + Len(rest) /\ SubSeq(text, Len(chars) + 1, Len(text)) = rest
        /\ SubSeq(text, 1, Len(chars)) = chars /\ text[1] = chars[1]
    BY <1>1, <1>2, <1>5, <1>6, JoinedText
  <1>8. Len(chars) \in Nat /\ Len(chars) > 0 /\ Len(rest) \in Nat BY <1>1, <1>2, <1>6
  <1>9. \A i \in 1 .. Len(chars) : chars[i] \in allowed
    <2> SUFFICES ASSUME NEW i \in 1 .. Len(chars) PROVE chars[i] \in allowed OBVIOUS
    <2>1. chars[i] # "%" BY <1>2, <1>6 DEF Range
    <2>2. \A j \in 1 .. Len(chars) : (chars \o rest)[j] = chars[j] BY <1>1, <1>6, TextBehind
    <2>3. text[i] = chars[i] BY <1>5, <2>2
    <2>4. i \in DOMAIN text BY <1>7, <1>8
    <2> QED BY <2>1, <2>3, <2>4 DEF Range
  <1>10. rest # <<>> => rest[1] \notin allowed BY <1>3
  <1> HIDE DEF allowed
  <1>11. CountLeading(chars \o rest, allowed) = Len(chars) BY <1>1, <1>6, <1>9, <1>10, Counted
  <1>12. text # <<>> /\ Head(text) = text[1] BY <1>7, <1>8
  <1>13. chars[1] # "%"
    <2>1. 1 \in DOMAIN chars BY <1>6, <1>8
    <2> QED BY <1>2, <2>1 DEF Range
  <1> QED BY <1>5, <1>7, <1>11, <1>12, <1>13, Zenon DEF item, rest, text, chars, allowed

-----------------------------------------------------------------------------
(* The fields of a pattern that is well formed are its items, one by one.    *)
IsSource(item) == IsFlag(item) /\ item.letter = "s"

\* A field stands for an item of the pattern.
Stands(f, items, i) ==
    LET item == items[i] IN
    /\ ~IsFlag(item) => f.class = "char" /\ f.value = item.chars
    /\ IsFlag(item) /\ ~IsValidFlag(item.letter) => f.class = "char" /\ f.value = <<"%", item.letter>>
    /\ IsFlag(item) /\ IsValidFlag(item.letter) =>
         /\ f.class = ClassAt(IndexOf(item.letter))
         /\ item.letter = "t" => Misread(item) \/ ThreadDigits(f.value) = MeantValue(item)
         /\ item.letter = "e" => Misread(item) \/ NothingRead(items, i) \/ f.value = MeantValue(item)
         /\ item.letter = "s" => SourceFlagKept(items, i) \/ f.value = MeantValue(item)

Unsourced(items, n) == \A k \in 1 .. n : ~IsSource(items[k])

\* As many items as there are fields were taken off the pattern.
Taken(items) ==
    /\ Len(fields) <= Len(items)
    /\ \A i \in 1 .. Len(fields) : Stands(fields[i], items, i)
    /\ ~Parsing => Len(fields) = Len(items)
    /\ Parsing => /\ temp = Behind(items, Len(fields))
                  /\ Unsourced(items, Len(fields)) => sourceFlag = pattern.flagBefore

PatternInv ==
    /\ pattern.items \in Seq(Items)
    /\ \A i \in 1 .. Len(fields) : Made(fields[i])
    /\ WellFormed(pattern.items) => Taken(pattern.items)

\* A new pattern has no fields yet.
LEMMA PatternBegun ==
  ASSUME pattern.items \in Seq(Items), temp = Render(pattern.items), fields = <<>>, Parsing,
         sourceFlag = pattern.flagBefore
  PROVE  PatternInv
  <1>1. Len(fields) = 0 OBVIOUS
  <1>2. temp = Behind(pattern.items, 0) BY BehindEnds
  <1>3. Len(pattern.items) \in Nat OBVIOUS
  <1> QED BY <1>1, <1>2, <1>3 DEF PatternInv, Taken

\* A target starts with the whole of its pattern to store.
LEMMA InitPattern == Init => PatternInv
  <1> SUFFICES ASSUME Init PROVE PatternInv OBVIOUS
  <1>1. PICK items \in Patterns \union {DefaultPattern} :
            pattern = [items |-> items, flagBefore |-> {}] /\ temp = Render(items)
    BY DEF Init
  <1>2. items \in Seq(Items) BY PatternAssumption
  <1>3. pattern.items = items /\ pattern.flagBefore = {} BY <1>1
  <1>4. fields = <<>> /\ sourceFlag = {} /\ Parsing BY DEF Init, Parsing
  <1> QED BY <1>1, <1>2, <1>3, <1>4, PatternBegun

\* The turn of an item adds the field that stands for it.
LEMMA TurnKept ==
  ASSUME Inv, PatternInv, ParsingUnchanged, UNCHANGED status, Parsing,
         NEW class, NEW value, Emplace_Back(class, value),
         LET items == pattern.items  n == Len(fields) IN
         WellFormed(items) =>
             /\ n + 1 <= Len(items) /\ temp' = Behind(items, n + 1)
             /\ Stands(Construct(class, value, Info), items, n + 1)
             /\ Unsourced(items, n + 1) => sourceFlag' = pattern.flagBefore
  PROVE  PatternInv'
  <1> DEFINE items == pattern.items
             n == Len(fields)
             f == Construct(class, value, Info)
  <1>1. fields' = Append(fields, f) BY DEF Emplace_Back
  <1>2. pattern' = pattern BY DEF ParsingUnchanged
  <1>3. f.class = class /\ IsField(f) BY Constructed
  <1>4. /\ f.value = value /\ (class = "char" => f.text = value)
        /\ class \in DayClasses => f.key = Info.tm.mday /\ f.text = DayText(class, Info.tm)
    BY ConstructMade
  <1>5. PICK k \in 1 .. Len(Instants) : Info.tm = Instants[k].tm BY DEF Inv, TimeOK, Info
  <1> HIDE DEF f
  <1>6. Made(f) BY <1>3, <1>4, <1>5 DEF Made
  <1>7. /\ Len(fields') = n + 1 /\ n \in Nat
        /\ \A i \in 1 .. n : fields'[i] = fields[i]
        /\ fields'[n + 1] = f
    BY <1>1, Appended DEF Inv, FieldsOK
  <1> HIDE DEF n
  <1>8. \A i \in 1 .. n + 1 : Made(fields'[i])
    <2>1. \A i \in 1 .. n : Made(fields[i]) BY DEF PatternInv, n
    <2>2. \A i \in 1 .. n + 1 : i \in 1 .. n \/ i = n + 1 BY <1>7
    <2> QED BY <1>6, <1>7, <2>1, <2>2
  <1>9. ASSUME WellFormed(items) PROVE Taken(items)'
    <2>1. /\ \A i \in 1 .. n : Stands(fields[i], items, i)
      BY <1>9 DEF PatternInv, Taken, n
    <2>2. /\ n + 1 <= Len(items) /\ temp' = Behind(items, n + 1) /\ Stands(f, items, n + 1)
          /\ Unsourced(items, n + 1) => sourceFlag' = pattern.flagBefore
      BY <1>9 DEF n, f
    <2>3. \A i \in 1 .. n + 1 : i \in 1 .. n \/ i = n + 1 BY <1>7
    <2>4. \A i \in 1 .. n + 1 : Stands(fields'[i], items, i) BY <1>7, <2>1, <2>2, <2>3
    <2>5. \A i \in 1 .. n + 1 : Stands(fields[i], items, i)'
      BY <1>2, <2>4 DEF Stands, SourceFlagKept
    <2>6. Parsing' BY DEF Parsing
    <2> QED BY <1>2, <1>7, <2>2, <2>5, <2>6 DEF Taken
  <1> QED BY <1>2, <1>7, <1>8, <1>9 DEF PatternInv

\* What the parser has in front of it.
LEMMA NextItem ==
  ASSUME PatternInv, Inv, Parsing, temp # <<>>, WellFormed(pattern.items)
  PROVE  LET items == pattern.items  n == Len(fields) IN
         /\ items \in Seq(Items) /\ n \in 0 .. Len(items) - 1 /\ n + 1 <= Len(items)
         /\ temp = Behind(items, n) /\ WellFormedAt(items, n + 1)
         /\ Unsourced(items, n) => sourceFlag = pattern.flagBefore
  <1> DEFINE items == pattern.items
             n == Len(fields)
  <1>1. items \in Seq(Items) /\ n <= Len(items) /\ temp = Behind(items, n)
        /\ (Unsourced(items, n) => sourceFlag = pattern.flagBefore)
    BY DEF PatternInv, Taken
  <1>2. n \in Nat
    <2>1. PICK S : fields \in Seq(S) BY DEF Inv, FieldsOK, IsSeq
    <2> QED BY <2>1
  <1>3. Len(items) \in Nat /\ DOMAIN items = 1 .. Len(items) BY <1>1
  <1>4. n # Len(items) BY <1>1, BehindEnds
  <1> HIDE DEF n, items
  <1>5. n \in 0 .. Len(items) - 1 /\ n + 1 <= Len(items) /\ n + 1 \in 1 .. Len(items)
    <2>1. n <= Len(items) /\ Len(items) \in Nat BY <1>1, <1>3
    <2> DEFINE m == Len(items)
    <2> HIDE DEF m
    <2>2. n <= m /\ m \in Nat /\ n # m BY <1>4, <2>1 DEF m
    <2>3. n \in 0 .. m - 1 /\ n + 1 <= m /\ n + 1 \in 1 .. m BY <1>2, <2>2
    <2> QED BY <2>3 DEF m
  <1>6. WellFormedAt(items, n + 1) BY <1>3, <1>5 DEF WellFormed, items
  <1> QED BY <1>1, <1>5, <1>6 DEF n, items

\* An unknown flag is stored as the two characters it is.
LEMMA UnknownStep ==
  ASSUME PatternInv, Inv, StoreUnknownFlag
  PROVE  PatternInv'
  <1> DEFINE items == pattern.items
             n == Len(fields)
             item == items[n + 1]
             value == SubSeq(temp, 1, IF Len(temp) = 1 THEN 1 ELSE 2)
  <1>1. /\ Parsing /\ temp # <<>> /\ Head(temp) = "%" /\ (Len(temp) = 1 \/ ~IsValidFlag(temp[2]))
        /\ Emplace_Back("char", value) /\ temp' = SubSeq(temp, 3, Len(temp))
        /\ sourceFlag' = sourceFlag /\ status' = status /\ ParsingUnchanged
    BY DEF StoreUnknownFlag
  <1>2. ASSUME WellFormed(items)
        PROVE  /\ n + 1 <= Len(items) /\ temp' = Behind(items, n + 1)
               /\ Stands(Construct("char", value, Info), items, n + 1)
               /\ Unsourced(items, n + 1) => sourceFlag' = pattern.flagBefore
    <2>1. /\ items \in Seq(Items) /\ n \in 0 .. Len(items) - 1 /\ n + 1 <= Len(items)
          /\ temp = Behind(items, n) /\ WellFormedAt(items, n + 1)
          /\ Unsourced(items, n) => sourceFlag = pattern.flagBefore
      BY <1>1, <1>2, NextItem
    <2>2. IsFlag(item)
      <3>1. ~IsFlag(item) => Head(temp) # "%" BY <2>1, TurnText
      <3> QED BY <1>1, <3>1
    <2>3. /\ Len(temp) > 1 /\ temp[2] = item.letter /\ SubSeq(temp, 1, 2) = <<"%", item.letter>>
          /\ ~IsValidFlag(item.letter) => SubSeq(temp, 3, Len(temp)) = Behind(items, n + 1)
      BY <2>1, <2>2, TurnFlag
    <2>4. ~IsValidFlag(item.letter) /\ value = <<"%", item.letter>>
      <3>1. Len(temp) # 1 BY <2>3
      <3> QED BY <1>1, <2>3, <3>1
    <2>5. Construct("char", value, Info).class = "char" /\ Construct("char", value, Info).value = value
      <3> HIDE DEF value
      <3> QED BY Constructed, ConstructMade
    <2>6. Unsourced(items, n + 1) => Unsourced(items, n)
      <3>1. n \in Nat BY <2>1
      <3> HIDE DEF n, items
      <3>2. \A k \in 1 .. n : k \in 1 .. n + 1 BY <3>1
      <3> QED BY <3>2 DEF Unsourced
    <2> HIDE DEF value, item, n, items
    <2>7. Stands(Construct("char", value, Info), items, n + 1) BY <2>2, <2>4, <2>5 DEF Stands, item
    <2> QED BY <1>1, <2>1, <2>3, <2>4, <2>6, <2>7
  <1> HIDE DEF value
  <1> QED BY <1>1, <1>2, TurnKept

\* A text is stored up to the next flag.
LEMMA TextStep ==
  ASSUME PatternInv, Inv, StoreText
  PROVE  PatternInv'
  <1> DEFINE items == pattern.items
             n == Len(fields)
             item == items[n + 1]
             size == CountLeading(temp, Range(temp) \ {"%"})
             value == SubSeq(temp, 1, size)
  <1>1. /\ Parsing /\ temp # <<>> /\ Head(temp) # "%"
        /\ Emplace_Back("char", value) /\ temp' = SubSeq(temp, size + 1, Len(temp))
        /\ sourceFlag' = sourceFlag /\ status' = status /\ ParsingUnchanged
    BY DEF StoreText
  <1>2. ASSUME WellFormed(items)
        PROVE  /\ n + 1 <= Len(items) /\ temp' = Behind(items, n + 1)
               /\ Stands(Construct("char", value, Info), items, n + 1)
               /\ Unsourced(items, n + 1) => sourceFlag' = pattern.flagBefore
    <2>1. /\ items \in Seq(Items) /\ n \in 0 .. Len(items) - 1 /\ n + 1 <= Len(items)
          /\ temp = Behind(items, n) /\ WellFormedAt(items, n + 1)
          /\ Unsourced(items, n) => sourceFlag = pattern.flagBefore
      BY <1>1, <1>2, NextItem
    <2>2. ~IsFlag(item)
      <3>1. IsFlag(item) => Head(temp) = "%" BY <2>1, TurnFlag
      <3> QED BY <1>1, <3>1
    <2>3. value = item.chars /\ SubSeq(temp, size + 1, Len(temp)) = Behind(items, n + 1)
      BY <2>1, <2>2, TurnText
    <2>5. Construct("char", value, Info).class = "char" /\ Construct("char", value, Info).value = value
      <3> HIDE DEF value
      <3> QED BY Constructed, ConstructMade
    <2>6. Unsourced(items, n + 1) => Unsourced(items, n)
      <3>1. n \in Nat BY <2>1
      <3> HIDE DEF n, items
      <3>2. \A k \in 1 .. n : k \in 1 .. n + 1 BY <3>1
      <3> QED BY <3>2 DEF Unsourced
    <2> HIDE DEF value, item, n, items
    <2>7. Stands(Construct("char", value, Info), items, n + 1) BY <2>2, <2>3, <2>5 DEF Stands, item
    <2> QED BY <1>1, <2>1, <2>3, <2>6, <2>7
  <1> HIDE DEF value
  <1> QED BY <1>1, <1>2, TurnKept

\* A known flag is stored as its class, with the value that is meant.
LEMMA FlagStep ==
  ASSUME PatternInv, Inv, StoreFlag
  PROVE  PatternInv'
  <1> DEFINE items == pattern.items
             n == Len(fields)
             item == items[n + 1]
             index == IndexOf(temp[2])
             spec == ParseUserPatternForSpec(SubSeq(temp, 3, Len(temp)), index, sourceFlag)
             class == ClassAt(index)
             value == IF class = "s" THEN spec.flag ELSE spec.value
  <1>1. /\ Parsing /\ Len(temp) > 1 /\ Head(temp) = "%" /\ IsValidFlag(temp[2])
        /\ temp' = spec.rest /\ sourceFlag' = spec.flag /\ ParsingUnchanged
        /\ spec.thrown => fields' = fields /\ status' \in {"gone", "ready"}
        /\ ~spec.thrown => Emplace_Back(class, value) /\ status' = status
    BY DEF StoreFlag
  <1>2. temp # <<>>
    <2>1. Len(<<>>) = 0 /\ ~(0 > 1) OBVIOUS
    <2> QED BY <1>1, <2>1, Zenon
  <1>3. ASSUME WellFormed(items)
        PROVE  /\ ~spec.thrown
               /\ n + 1 <= Len(items) /\ temp' = Behind(items, n + 1)
               /\ Stands(Construct(class, value, Info), items, n + 1)
               /\ Unsourced(items, n + 1) => sourceFlag' = pattern.flagBefore
    <2>1. /\ items \in Seq(Items) /\ n \in 0 .. Len(items) - 1 /\ n + 1 <= Len(items)
          /\ temp = Behind(items, n) /\ WellFormedAt(items, n + 1)
          /\ Unsourced(items, n) => sourceFlag = pattern.flagBefore
      BY <1>1, <1>2, <1>3, NextItem
    <2>2. IsFlag(item)
      <3>1. ~IsFlag(item) => Head(temp) # "%" BY <2>1, TurnText
      <3> QED BY <1>1, <3>1
    <2>3. temp[2] = item.letter BY <2>1, <2>2, TurnFlag
    <2>4. IsValidFlag(item.letter) /\ index = IndexOf(item.letter) BY <1>1, <2>3
    <2>5. ReadOf(spec, item, Behind(items, n + 1), sourceFlag)
      <3>1. \A flag : ReadOf(ParseUserPatternForSpec(SubSeq(temp, 3, Len(temp)), IndexOf(item.letter), flag),
                             item, Behind(items, n + 1), flag)
        BY <2>1, <2>2, <2>4, TurnFlag
      <3> QED BY <2>4, <3>1, Zenon
    <2>6. item.letter # Spaced
      <3>1. item \in Items
        <4>1. n + 1 \in 1 .. Len(items) BY <2>1
        <4> QED BY <2>1, <4>1
      <3> QED BY <2>2, <3>1, ItemKinds
    <2>7. class = ClassAt(IndexOf(item.letter)) /\ (class = "s" <=> item.letter = "s")
      BY <2>4, <2>6, FlagFound
    <2>8. Construct(class, value, Info).class = class /\ Construct(class, value, Info).value = value
      BY Constructed, ConstructMade
    <2> HIDE DEF spec, class, index
    <2>9. /\ item.letter = "s" => value = spec.flag
          /\ item.letter # "s" => value = spec.value
      BY <2>7
    <2>10. Unsourced(items, n + 1) => Unsourced(items, n) /\ item.letter # "s"
      <3>1. n \in Nat BY <2>1
      <3>3. IsFlag(item) BY <2>2
      <3> HIDE DEF n, items
      <3>2. n + 1 \in 1 .. n + 1 /\ \A k \in 1 .. n : k \in 1 .. n + 1 BY <3>1
      <3> QED BY <3>2, <3>3 DEF Unsourced, IsSource, item
    <2>11. ASSUME item.letter = "s", ~SourceFlagKept(items, n + 1) PROVE value = MeantValue(item)
      <3>1. DOMAIN items = 1 .. Len(items) /\ n \in Nat /\ Len(items) \in Nat BY <2>1
      <3>2. Unsourced(items, n)
        <4> HIDE DEF n, items
        <4>1. \A k \in 1 .. n : k \in 1 .. Len(items) /\ k # n + 1 BY <2>1, <3>1
        <4> QED BY <2>11, <3>1, <4>1 DEF Unsourced, IsSource, SourceFlagKept
      <3>3. ~NothingRead(items, n + 1)
            /\ (item.spec # <<>> => pattern.flagBefore \subseteq MeantValue(item))
        BY <2>11 DEF SourceFlagKept, item
      <3>4. ~(item.spec = <<>> /\ Behind(items, n + 1) = <<>>) BY <3>3 DEF NothingRead, item
      <3>5. sourceFlag = pattern.flagBefore BY <2>1, <3>2
      <3> HIDE DEF value, item, n, items
      <3>6. \/ item.spec = <<>> /\ spec.flag = MeantValue(item)
            \/ item.spec # <<>> /\ spec.flag = sourceFlag \union MeantValue(item)
        BY <2>5, <2>11, <3>4, Zenon DEF ReadOf
      <3>7. item.spec # <<>> => sourceFlag \union MeantValue(item) = MeantValue(item)
        BY <3>3, <3>5
      <3> QED BY <2>9, <2>11, <3>6, <3>7, Zenon
    <2> HIDE DEF value, item, n, items
    <2>12. Stands(Construct(class, value, Info), items, n + 1)
      <3> DEFINE f == Construct(class, value, Info)
      <3> HIDE DEF f
      <3>1. f.class = class /\ f.value = value BY <2>8 DEF f
      <3>2. item.letter = "t" => Misread(item) \/ ThreadDigits(f.value) = MeantValue(item)
        <4>1. item.letter = "t" => item.letter # "s" OBVIOUS
        <4> QED BY <2>5, <2>9, <3>1, <4>1, Zenon DEF ReadOf
      <3>3. item.letter = "e" => Misread(item) \/ NothingRead(items, n + 1) \/ f.value = MeantValue(item)
        <4>1. item.letter = "e" => item.letter # "s" OBVIOUS
        <4> QED BY <2>5, <2>9, <3>1, <4>1, Zenon DEF ReadOf, NothingRead, item
      <3>4. item.letter = "s" => SourceFlagKept(items, n + 1) \/ f.value = MeantValue(item)
        BY <2>11, <3>1, Zenon
      <3> QED BY <2>2, <2>4, <2>7, <3>1, <3>2, <3>3, <3>4, Zenon DEF Stands, item, f
    <2>13. Unsourced(items, n + 1) => sourceFlag' = pattern.flagBefore
      BY <1>1, <2>1, <2>5, <2>10, Zenon DEF ReadOf
    <2>14. spec.thrown = FALSE /\ temp' = Behind(items, n + 1) BY <1>1, <2>5, Zenon DEF ReadOf
    <2> QED BY <2>1, <2>12, <2>13, <2>14
  <1> HIDE DEF spec, class, value, index
  <1>4. CASE spec.thrown
    <2>1. ~WellFormed(pattern.items) BY <1>3, <1>4
    <2>2. pattern' = pattern /\ fields' = fields BY <1>1, <1>4 DEF ParsingUnchanged
    <2> QED BY <2>1, <2>2 DEF PatternInv
  <1>5. CASE ~spec.thrown BY <1>1, <1>3, <1>5, TurnKept
  <1> QED BY <1>4, <1>5

\* The end of a pattern is reached with a field for each of its items.
LEMMA StoredStep ==
  ASSUME PatternInv, Inv, PatternStored
  PROVE  PatternInv'
  <1> DEFINE items == pattern.items
             n == Len(fields)
  <1>1. Parsing /\ temp = <<>> /\ status' = "ready" /\ fields' = fields /\ pattern' = pattern
    BY DEF PatternStored, ParsingUnchanged
  <1>2. ASSUME WellFormed(items) PROVE Taken(items)'
    <2>1. /\ items \in Seq(Items) /\ n <= Len(items) /\ temp = Behind(items, n)
          /\ \A i \in 1 .. n : Stands(fields[i], items, i)
      BY <1>1, <1>2 DEF PatternInv, Taken
    <2>2. n \in Nat /\ Len(items) \in Nat /\ DOMAIN items = 1 .. Len(items)
      <3>1. PICK S : fields \in Seq(S) BY DEF Inv, FieldsOK, IsSeq
      <3> QED BY <2>1, <3>1
    <2> HIDE DEF n, items
    <2>3. n = Len(items)
      <3> SUFFICES ASSUME n # Len(items) PROVE FALSE OBVIOUS
      <3>1. n \in 0 .. Len(items) - 1 /\ n + 1 \in 1 .. Len(items)
        <4> DEFINE size == Len(items)
        <4> HIDE DEF size
        <4>1. n <= size /\ size \in Nat /\ n # size /\ n \in Nat BY <2>1, <2>2 DEF size
        <4>2. n \in 0 .. size - 1 /\ n + 1 \in 1 .. size BY <4>1
        <4> QED BY <4>2 DEF size
      <3>2. WellFormedAt(items, n + 1) BY <1>2, <2>2, <3>1 DEF WellFormed
      <3>3. CASE IsFlag(items[n + 1])
        <4>1. Len(temp) > 1 BY <2>1, <3>1, <3>2, <3>3, TurnFlag
        <4> QED BY <1>1, <4>1
      <3>4. CASE ~IsFlag(items[n + 1])
        <4>1. temp # <<>> BY <2>1, <3>1, <3>2, <3>4, TurnText
        <4> QED BY <1>1, <4>1
      <3> QED BY <3>3, <3>4
    <2>4. \A i \in 1 .. n : Stands(fields[i], items, i)'
      BY <1>1, <2>1 DEF Stands, SourceFlagKept, items
    <2>5. ~Parsing' BY <1>1 DEF Parsing
    <2> QED BY <1>1, <2>1, <2>2, <2>3, <2>4, <2>5 DEF Taken, n, items
  <1> QED BY <1>1, <1>2 DEF PatternInv

\* What leaves the pattern and its fields alone keeps them.
LEMMA PatternLeft ==
  ASSUME PatternInv, UNCHANGED <<pattern, temp, fields, sourceFlag>>, Parsing' = Parsing
  PROVE  PatternInv'
  <1>1. WellFormed(pattern.items) => Taken(pattern.items)'
    <2> SUFFICES ASSUME WellFormed(pattern.items) PROVE Taken(pattern.items)' OBVIOUS
    <2>1. Taken(pattern.items) BY DEF PatternInv
    <2>2. \A i \in 1 .. Len(fields) : Stands(fields[i], pattern.items, i)'
      BY <2>1 DEF Taken, Stands, SourceFlagKept
    <2> QED BY <2>1, <2>2 DEF Taken
  <1> QED BY <1>1 DEF PatternInv

\* A new pattern is begun with what the source flag was left with.
LEMMA SetStep ==
  ASSUME NEW items \in Seq(Items), SetPattern(items)
  PROVE  PatternInv'
  <1>1. /\ pattern'.items = items /\ pattern'.flagBefore = sourceFlag /\ sourceFlag' = sourceFlag
        /\ temp' = Render(items) /\ fields' = <<>> /\ Parsing'
    BY DEF SetPattern, Parsing
  <1>2. Len(<<>>) = 0 /\ Len(items) \in Nat OBVIOUS
  <1>3. Render(items) = Behind(items, 0) BY BehindEnds
  <1> QED BY <1>1, <1>2, <1>3 DEF PatternInv, Taken

\* A line leaves every field standing for its item.
LEMMA LogPattern ==
  ASSUME Inv, PatternInv, NEW m, LogMessage(m)
  PROVE  PatternInv' /\ Len(fields) \in Nat /\ AtInstant(Info') /\ Truth' = Info'
  <1> DEFINE now == Info'
             n == Len(fields)
  <1>1. BeginMessage(m) /\ fields' = [i \in 1 .. n |-> After(fields[i], now)] BY DEF LogMessage
  <1>2. /\ pattern' = pattern /\ temp' = temp /\ sourceFlag' = sourceFlag /\ status' = status
        /\ status = "ready"
    BY <1>1 DEF BeginMessage
  <1>3. n \in Nat
    <2>1. PICK S : fields \in Seq(S) BY DEF Inv, FieldsOK, IsSeq
    <2> QED BY <2>1
  <1>4. AtInstant(now) /\ Truth' = now
    <2>1. cache' = Instants[clock].tm /\ clock' = clock BY <1>1, TimeStep
    <2>2. now.tm = Instants[clock].tm BY <2>1 DEF Info
    <2>3. clock \in 1 .. Len(Instants) BY DEF Inv, TimeOK
    <2>4. Truth' = [now EXCEPT !.tm = cache'] BY <2>1 DEF Truth
    <2>5. Truth' = now BY <2>4 DEF Info
    <2> QED BY <2>2, <2>3, <2>5 DEF AtInstant
  <1> HIDE DEF now, n
  <1>5. Len(fields') = n /\ \A i \in 1 .. n : fields'[i] = After(fields[i], now)
    <2>1. \A i \in 1 .. n : fields'[i] = After(fields[i], now) BY <1>1
    <2>2. fields' = [i \in 1 .. n |-> fields'[i]] BY <1>1
    <2> QED BY <1>3, <2>1, <2>2, Indexed
  <1>6. ASSUME NEW i \in 1 .. n
        PROVE  fields'[i].class = fields[i].class /\ fields'[i].value = fields[i].value /\ Made(fields'[i])
    <2> DEFINE f == fields[i]
    <2>1. IsField(f) /\ Made(f) BY DEF Inv, FieldsOK, PatternInv, n
    <2> HIDE DEF f
    <2>2. After(f, now).class = f.class /\ After(f, now).value = f.value /\ Made(After(f, now))
      BY <1>4, <2>1, AfterMade
    <2> QED BY <1>5, <2>2 DEF f
  <1>7. ASSUME WellFormed(pattern.items) PROVE Taken(pattern.items)'
    <2>1. Taken(pattern.items) BY <1>7 DEF PatternInv
    <2>2. \A i \in 1 .. n : Stands(fields[i], pattern.items, i) BY <2>1 DEF Taken, n
    <2>3. \A i \in 1 .. n : Stands(fields'[i], pattern.items, i) BY <1>6, <2>2 DEF Stands
    <2>4. \A i \in 1 .. n : Stands(fields[i], pattern.items, i)'
      BY <1>2, <2>3 DEF Stands, SourceFlagKept
    <2>5. ~Parsing /\ ~Parsing' BY <1>2 DEF Parsing
    <2> QED BY <1>2, <1>5, <2>1, <2>4, <2>5 DEF Taken, n
  <1>8. \A i \in 1 .. n : Made(fields'[i]) BY <1>6
  <1>9. PatternInv' BY <1>2, <1>5, <1>7, <1>8 DEF PatternInv
  <1> QED BY <1>3, <1>4, <1>9 DEF n, now

\* Letters whose class shows dates, and those with a value.
LEMMA MeantLetters ==
  ASSUME NEW letter, MeantClass(letter) = ClassAt(IndexOf(letter))
  PROVE  /\ MeantClass(letter) \in DayClasses => letter \in {"n", "D", "x", "F"}
         /\ MeantClass(letter) = "e" => letter = "e"
         /\ MeantClass(letter) = "t" => letter = "t"
         /\ MeantClass(letter) = "s" => letter = "s"
  BY DEF MeantClass, DayClasses

\* Each part of a line says what its item means.
LEMMA PartMeant ==
  ASSUME NEW items \in Seq(Items), NEW i \in DOMAIN items, NEW f, IsField(f), Fresh(f), Made(f),
         Stands(f, items, i), ~Diverges(items, i)', UNCHANGED pattern, AtInstant(Info'), Truth' = Info'
  PROVE  Shown(f, Info') = Meant(items[i])'
  <1> DEFINE item == items[i]
             now == Info'
             value == MeantValue(item)
  <1>1. item \in Items OBVIOUS
  <1>2. now.tm = cache' BY DEF Info
  <1> HIDE DEF now
  <1>3. CASE ~IsFlag(item)
    <2>1. f.class = "char" /\ f.value = item.chars BY <1>3 DEF Stands
    <2>2. Shown(f, now) = f.value BY <2>1, TextShown DEF now
    <2>3. Meant(item)' = item.chars BY <1>3 DEF Meant
    <2> QED BY <2>1, <2>2, <2>3 DEF now
  <1>4. CASE IsFlag(item) /\ ~IsValidFlag(item.letter)
    <2>1. f.class = "char" /\ f.value = <<"%", item.letter>> BY <1>4 DEF Stands
    <2>2. Shown(f, now) = f.value BY <2>1, TextShown DEF now
    <2>4. item.letter # "%" BY <1>4 DEF Diverges
    <2>5. item.letter \notin {"w", "I", "t"} BY <1>4, ShowingKnown
    <2>3. Meant(item)' = <<"%", item.letter>> BY <1>4, <2>4, <2>5 DEF Meant
    <2> QED BY <2>1, <2>2, <2>3 DEF now
  <1>5. CASE IsFlag(item) /\ IsValidFlag(item.letter)
    <2> DEFINE class == MeantClass(item.letter)
    <2>1. item.letter # Spaced BY <1>1, <1>5, ItemKinds
    <2>2. /\ item.letter \notin Crossed
          /\ item.letter \in {"n", "D", "x", "F"} => ~SameDayElsewhere'
          /\ item.letter = "e" => ~NothingRead(items, i)
          /\ item.letter = "s" => ~SourceFlagKept(items, i)
          /\ item.letter \notin {"w", "%"} /\ ~(item.letter = "I" /\ now.tm.hour = 0)
          /\ ~Misread(item)
      BY <1>2, <1>5 DEF Diverges, Crossed, SourceFlagKept
    <2>3. ClassAt(IndexOf(item.letter)) = class /\ class \in Faithful
      BY <1>5, <2>1, <2>2, FlagFound
    <2>4. f.class = class BY <1>5, <2>3 DEF Stands
    <2>10. CASE item.letter = "t"
      <3>1. class = "t" BY <2>10 DEF MeantClass
      <3>2. ThreadDigits(f.value) = value BY <1>5, <2>2, <2>10 DEF Stands
      <3>3. Shown(f, now) = <<"thread id digits", ToString(ThreadDigits(f.value))>>
        BY <2>4, <3>1, ShownRest DEF ThreadDigits
      <3>4. Meant(item)' = <<"thread id digits", ToString(value)>> BY <1>5, <2>10 DEF Meant
      <3> QED BY <3>2, <3>3, <3>4 DEF now, class, value
    <2> SUFFICES ASSUME item.letter # "t" PROVE Shown(f, Info') = Meant(items[i])'
      BY <2>10
    <2>5. class \in {"e", "t", "s"} => f.value = value
      <3>1. class \in {"e", "t", "s"} => item.letter \in {"e", "t", "s"} BY <2>3, MeantLetters
      <3>2. item.letter \in {"e", "t", "s"} => f.value = value
        BY <1>5, <2>2 DEF Stands
      <3> QED BY <3>1, <3>2
    <2>6. class \in DayClasses =>
             \A k \in 1 .. Len(Instants) : Instants[k].tm.mday = now.tm.mday =>
                 Instants[k].tm.mon = now.tm.mon /\ Instants[k].tm.year = now.tm.year
      <3>1. class \in DayClasses => ~SameDayElsewhere' BY <2>2, <2>3, MeantLetters
      <3> QED BY <1>2, <3>1 DEF SameDayElsewhere
    <2>7. AtInstant(now) BY DEF now
    <2>8. Meant(item)' = Shown(Construct(class, value, now), now)
      <3>1. Meant(item)' = Shown(Construct(MeantClass(item.letter), MeantValue(item), Truth'), Truth')
        BY <1>5, <2>2 DEF Meant, now
      <3> QED BY <3>1 DEF now
    <2> HIDE DEF class, value
    <2>9. Shown(f, now) = Shown(Construct(class, value, now), now)
      BY <2>3, <2>4, <2>5, <2>6, <2>7, AsNew
    <2> QED BY <2>8, <2>9 DEF now, class, value
  <1> QED BY <1>3, <1>4, <1>5

\* A line is printed in the colour of its level, as its pattern says.
LEMMA LogLine ==
  ASSUME Inv, PatternInv, NEW m, LogMessage(m)
  PROVE  LineAsPattern'
  <1> DEFINE now == Info'
             items == pattern.items
             n == Len(fields)
  <1>1. /\ BeginMessage(m)
        /\ line' = [colour |-> LineColour(m.level), console |-> OutputHandle(consoleMode),
                    pieces |-> [i \in 1 .. n |-> Shown(fields[i], now)]]
    BY DEF LogMessage
  <1>2. /\ pattern' = pattern /\ status = "ready" /\ msgLevel' = m.level
        /\ UNCHANGED consoleVars
    BY <1>1 DEF BeginMessage
  <1>3. n \in Nat /\ AtInstant(now) /\ Truth' = now BY LogPattern
  <1> HIDE DEF now
  <1>4. line'.colour = LineColour(m.level) /\ line'.console = OutputHandle(consoleMode)
        /\ line'.pieces = [i \in 1 .. n |-> Shown(fields[i], now)]
    BY <1>1
  <1>5. line'.colour = (IF coloredOutput' /\ line'.console \in Terminals
                        THEN msgLevelColors'[msgLevel' + 1] ELSE "")
    <2>1. coloredOutput' = coloredOutput /\ msgLevelColors' = msgLevelColors
      BY <1>2 DEF consoleVars
    <2> QED BY <1>2, <1>4, <2>1, Zenon DEF LineColour
  <1>6. ASSUME WellFormed(items)
        PROVE  /\ Len(line'.pieces) = Len(items)
               /\ \A i \in DOMAIN items : ~Diverges(items, i)' => line'.pieces[i] = Meant(items[i])'
    <2>1. items \in Seq(Items) /\ Taken(items) /\ ~Parsing
      BY <1>2, <1>6 DEF PatternInv, Parsing
    <2>2. n = Len(items) /\ \A i \in 1 .. n : Stands(fields[i], items, i)
      BY <2>1 DEF Taken
    <2>3. DOMAIN items = 1 .. n BY <2>1, <2>2
    <2>4. Len(line'.pieces) = n
      <3> DEFINE pieces == line'.pieces
      <3>1. pieces = [i \in 1 .. n |-> pieces[i]] BY <1>4
      <3> HIDE DEF pieces, n
      <3>2. Len(pieces) = n BY <1>3, <3>1, Indexed
      <3> QED BY <3>2 DEF pieces
    <2>5. ASSUME NEW i \in 1 .. n, ~Diverges(items, i)' PROVE line'.pieces[i] = Meant(items[i])'
      <3> DEFINE f == fields[i]
      <3>1. IsField(f) /\ Fresh(f) /\ Made(f) BY DEF Inv, FieldsOK, PatternInv
      <3>2. Stands(f, items, i) /\ i \in DOMAIN items BY <2>2, <2>3
      <3>3. line'.pieces[i] = Shown(f, now) BY <1>4
      <3>5. items' = items BY <1>2
      <3> HIDE DEF f, items, n
      <3>4. Shown(f, now) = Meant(items[i])'
        BY <1>2, <1>3, <2>1, <2>5, <3>1, <3>2, <3>5, PartMeant DEF now
      <3> QED BY <3>3, <3>4
    <2> QED BY <2>2, <2>3, <2>4, <2>5
  <1> QED BY <1>2, <1>5, <1>6, Zenon DEF LineAsPattern

\* Every call keeps the fields standing for the items, and prints a line of them or none.
LEMMA NextPattern == Inv /\ PatternInv /\ [Next]_vars => PatternInv' /\ (LineAsPattern => LineAsPattern')
  <1> SUFFICES ASSUME Inv, PatternInv, [Next]_vars
               PROVE  PatternInv' /\ (LineAsPattern => LineAsPattern')
    OBVIOUS
  <1> DEFINE Left == UNCHANGED <<pattern, temp, fields, sourceFlag>> /\ Parsing' = Parsing
  <1>1. line' = NoLine => LineAsPattern' BY Zenon DEF LineAsPattern, NoLine
  <1>2. CASE StoreUnknownFlag \/ StoreFlag \/ StoreText \/ PatternStored
    <2>1. ParsingUnchanged /\ Parsing
      BY <1>2 DEF StoreUnknownFlag, StoreFlag, StoreText, PatternStored
    <2>2. line' = NoLine BY <2>1 DEF ParsingUnchanged, Inv, LineOK
    <2> QED BY <1>1, <1>2, <2>2, UnknownStep, FlagStep, TextStep, StoredStep
  <1>3. CASE (\E items \in Patterns : SetPattern(items)) \/ ResetPatternToDefault
    <2>1. PICK items \in Seq(Items) : SetPattern(items)
      BY <1>3, PatternAssumption DEF ResetPatternToDefault
    <2>2. line' = NoLine BY <2>1 DEF SetPattern, Called
    <2> QED BY <1>1, <2>1, <2>2, SetStep
  <1>4. CASE \/ \E level \in LogLevels : SetLogLevel(level)
             \/ \E newName \in Names : SetLoggerName(newName)
             \/ \E enable \in BOOLEAN : EnableMultiThreadingSupport(enable)
             \/ SetLocale
    <2>1. Left /\ line' = NoLine
      BY <1>4 DEF SetLogLevel, SetLoggerName, EnableMultiThreadingSupport, SetLocale, Called,
                  patternVars, Parsing
    <2> QED BY <1>1, <2>1, PatternLeft
  <1>5. CASE \/ \E c \in ColourSettings : SetMsgColor(c.level, c.colour)
             \/ SetOriginalColors
             \/ \E colorize \in BOOLEAN : ColorizeOutput(colorize)
             \/ \E mode \in Consoles : SetConsoleInterface(mode)
    <2>1. Left /\ line' = NoLine
      BY <1>5 DEF SetMsgColor, SetOriginalColors, ColorizeOutput, SetConsoleInterface, Called,
                  patternVars, Parsing
    <2> QED BY <1>1, <2>1, PatternLeft
  <1>6. CASE Tick
    <2>1. Left /\ line' = NoLine BY <1>6 DEF Tick, Called, patternVars, Parsing
    <2> QED BY <1>1, <2>1, PatternLeft
  <1>7. ASSUME NEW m \in Messages, Discard(m) PROVE PatternInv' /\ LineAsPattern'
    <2>1. Left /\ line' = NoLine BY <1>7 DEF Discard, Called, patternVars, Parsing
    <2> QED BY <1>1, <2>1, PatternLeft
  <1>8. ASSUME NEW m \in Messages, LogMessage(m) PROVE PatternInv' /\ LineAsPattern'
    BY <1>8, LogPattern, LogLine
  <1>9. ASSUME NEW m \in Messages, RefuseMessage(m) PROVE PatternInv' /\ LineAsPattern'
    <2>1. Left /\ line' = NoLine BY <1>9 DEF RefuseMessage, BeginMessage, Parsing
    <2> QED BY <1>1, <2>1, PatternLeft
  <1>10. CASE UNCHANGED vars
    <2>1. Left BY <1>10 DEF vars, patternVars, Parsing
    <2>2. LineAsPattern' = LineAsPattern
      BY <1>10 DEF vars, timeVars, infoVars, patternVars, consoleVars, LineAsPattern, Diverges, Meant,
                   SameDayElsewhere, SourceFlagKept, Misread, Truth, Info, NoLine
    <2> QED BY <2>1, <2>2, PatternLeft
  <1> QED BY <1>2, <1>3, <1>4, <1>5, <1>6, <1>7, <1>8, <1>9, <1>10 DEF Next, Terminated

\* Every pattern that is well formed is printed as what its items mean, one by one,
\* whatever was logged, set or parsed before.
THEOREM PatternsMean == Spec => []LineAsPattern
  <1>1. Init => LineAsPattern BY Zenon DEF Init, LineAsPattern
  <1>2. Spec => [](PatternInv /\ LineAsPattern)
    BY <1>1, InitPattern, NextPattern, SpecInv, PTL DEF Spec
  <1> QED BY <1>2, PTL
=============================================================================
