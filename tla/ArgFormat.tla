------------------------------ MODULE ArgFormat ------------------------------
(***************************************************************************)
(* ArgFormatter: one object formats one call after another.  A call captures *)
(* the arguments, then ParseFormatString takes one step for each turn of its *)
(* loop, until what is left of the format string sv is written as it is, or *)
(* an error is thrown.  Arguments, time specifications and the buffer are   *)
(* members that outlive a field, and the first two of them a call.          *)
(***************************************************************************)
EXTENDS StdFormat

CONSTANT Uses     \* sequences of the calls one formatter serves

Calls == {c \in [items : Seq(Items), args : Seq(Arguments)] : Len(c.args) <= MaxArgCount}

ASSUME UsesAssumption == \A u \in Uses : u \in Seq(Calls)

VARIABLES
    types,          \* ArgContainer::specContainer
    values,         \* ArgContainer::argContainer
    call,           \* the call that is made or was made last
    sv,             \* what is left of the format string
    out,            \* the container
    argCounter, m_indexMode,
    timeSpec,       \* the time specifications read last
    buffer,         \* buffer and valueSize
    status,         \* "none", "idle", "parsing", "done", "error" (thrown) or "crashed"
    use             \* the calls still to come

vars == <<types, values, call, sv, out, argCounter, m_indexMode, timeSpec, buffer, status, use>>

Mono == [type |-> "mono"]
NoCall == [items |-> <<>>, args |-> <<>>]
CustomText == <<"custom">>       \* what the callback of a custom argument writes

Init ==
    /\ types = [i \in 1 .. MaxArgCount |-> "mono"]
    /\ values = [i \in 1 .. MaxArgCount |-> Mono]
    /\ call = NoCall
    /\ sv = <<>> /\ out = <<>>
    /\ argCounter = 0 /\ m_indexMode = "automatic"
    /\ timeSpec = <<>> /\ buffer = EmptyBuffer
    /\ status = "none" /\ use = <<>>

-----------------------------------------------------------------------------
\* memset takes MAX_ARG_COUNT bytes, a quarter of the four-byte entries.
ClearedTypes == (MaxArgCount + 3) \div 4

CaptureArgs(args) ==
    /\ types' = [i \in 1 .. MaxArgCount |->
                     IF i <= Len(args) THEN args[i].type
                     ELSE IF i <= ClearedTypes THEN "mono" ELSE types[i]]
    /\ values' = [i \in 1 .. MaxArgCount |-> IF i <= Len(args) THEN args[i] ELSE values[i]]

ArgFormatter ==
    /\ status = "none"
    /\ status' = "idle" /\ use' \in Uses
    /\ UNCHANGED <<types, values, call, sv, out, argCounter, m_indexMode, timeSpec, buffer>>

\* Faulty variant: the index mode of the call before is kept.
FormatKeepingMode ==
    /\ status \notin {"none", "parsing", "crashed"} /\ use # <<>>
    /\ call' = Head(use) /\ use' = Tail(use)
    /\ CaptureArgs(call'.args)
    /\ sv' = Render(call'.items) /\ out' = <<>>
    /\ argCounter' = 0 /\ buffer' = EmptyBuffer
    /\ status' = "parsing"
    /\ UNCHANGED <<m_indexMode, timeSpec>>

se_format ==
    /\ status \notin {"none", "parsing", "crashed"} /\ use # <<>>
    /\ call' = Head(use) /\ use' = Tail(use)
    /\ CaptureArgs(call'.args)
    /\ sv' = Render(call'.items) /\ out' = <<>>
    /\ argCounter' = 0 /\ m_indexMode' = "automatic" /\ buffer' = EmptyBuffer
    /\ status' = "parsing"
    /\ UNCHANGED timeSpec

-----------------------------------------------------------------------------
NoBrackets == [begin |-> -1, end |-> -1]
Unclosed == [begin |-> 0, end |-> -1]

(* The first '{' and the next '}', or the second '}' behind an inner '{'.   *)
FindBrackets(text) ==
    LET at(chars, from) == {i \in from .. Len(text) - 1 : At(text, i) \in chars}
        begin == Min(at({"{"}, 0))
        next == Min(at({"{", "}"}, begin + 1))
        closing == Min(at({"}"}, next + 1))
    IN CASE at({"{"}, 0) = {} -> NoBrackets
         [] at({"{"}, 0) # {} /\ at({"{", "}"}, begin + 1) = {} -> Unclosed
         [] OTHER ->
                IF At(text, next) = "}" THEN [begin |-> begin, end |-> next]
                ELSE IF at({"}"}, next + 1) = {} \/ at({"}"}, closing + 1) = {} THEN Unclosed
                     ELSE [begin |-> begin, end |-> Min(at({"}"}, closing + 1))]

(* What the turn of the loop finds in front of it.                          *)
Brackets == FindBrackets(sv)
ArgBracket == SubSeq(sv, Brackets.begin + 2, Brackets.end + 1)
Escape == IF ArgBracket[1] = "{" THEN <<"{">> ELSE <<>>
ClosingBrace ==
    IF Len(ArgBracket) > 3 /\ ArgBracket[Len(ArgBracket) - 1] = "}" THEN <<"}">> ELSE <<>>
Position == Then(Parser(ArgBracket, Len(Escape), argCounter, m_indexMode),
                 LAMBDA p : VerifyPositionalField(p, "argPosition"))
\* Text in front of the field and an escaped bracket are written at once.
Lead == SubSeq(sv, 1, Brackets.begin) \o Escape

Argument(i) == IF types[i + 1] = "mono" THEN Mono ELSE values[i + 1]

\* int_state(i) reads the variant at i, whose type only an assertion checks.
Nested == [i \in 0 .. MaxArgCount - 1 |-> IF values[i + 1].type = "int" THEN values[i + 1].n ELSE 0]
Readable(spec) ==
    \A i \in {spec.widthArg, spec.precisionArg} \ {0} : values[i + 1].type = "int"

FieldAhead == status = "parsing" /\ Len(sv) > 2 /\ Brackets.end >= 0
CallUnchanged == UNCHANGED <<types, values, call, use>>

StopCall(result, text) ==
    /\ status' = result /\ out' = out \o text
    /\ UNCHANGED <<sv, argCounter, m_indexMode, buffer>>
EndCall(result, text) == StopCall(result, text) /\ UNCHANGED timeSpec

\* Faulty variant: only the text in front of the field is taken off.
WriteFieldAgain(p, written, times) ==
    /\ out' = out \o Lead \o written.out \o ClosingBrace
    /\ buffer' = written.buffer /\ timeSpec' = times
    /\ argCounter' = p.counter /\ m_indexMode' = p.mode
    /\ sv' = SubSeq(sv, Brackets.begin + 1, Len(sv))
    /\ UNCHANGED status

\* The field is written and the loop goes on behind its closing bracket.
WriteField(p, written, times) ==
    /\ out' = out \o Lead \o written.out \o ClosingBrace
    /\ buffer' = written.buffer /\ timeSpec' = times
    /\ argCounter' = p.counter /\ m_indexMode' = p.mode
    /\ sv' = SubSeq(sv, Brackets.end + 2, Len(sv))
    /\ UNCHANGED status

-----------------------------------------------------------------------------
WriteRest ==
    /\ status = "parsing"
    /\ IF Len(sv) <= 2 THEN sv # <<"{", "}">> ELSE Brackets = NoBrackets
    /\ EndCall("done", sv)

\* Nothing but "{}" is left: argument 0, whatever argCounter says.
WritePair ==
    /\ status = "parsing" /\ sv = <<"{", "}">>
    /\ LET written == IF types[1] = "custom" THEN Written(CustomText, buffer)
                      ELSE WriteSimpleValue(buffer, Argument(0))
       IN /\ out' = out \o written.out /\ buffer' = written.buffer
          /\ status' = "done"
          /\ UNCHANGED <<sv, argCounter, m_indexMode, timeSpec>>

SubstituteSimple == FieldAhead /\ \E p \in {Position} :
    /\ p.error = NoError /\ ~p.more
    /\ LET arg == Argument(p.spec.argPosition)
           written == CASE arg.type = "custom" -> Written(CustomText, buffer)
                        [] arg.type = "time" -> WriteSimpleCTime(NoSpec, buffer, timeSpec, arg.tm)
                        [] OTHER -> WriteSimpleValue(buffer, arg)
       IN WriteField(p, written, timeSpec)

FormatCustom == FieldAhead /\ \E p \in {Position} :
    /\ p.error = NoError /\ p.more
    /\ Argument(p.spec.argPosition).type = "custom"
    /\ WriteField(p, Written(CustomText, buffer), timeSpec)

\* The field p, read to its end, is an argument of another type or a time.
FormatParsed(p, arg) ==
    IF Readable(p.spec) THEN WriteField(p, Format(p.spec, buffer, arg, Nested), timeSpec)
    ELSE EndCall("crashed", Lead)

\* Where no specification was read, the last ones are still there.
KeptTimes(p) == IF p.times = <<>> THEN timeSpec ELSE p.times
FormatParsedTime(p, arg) ==
    IF Readable(p.spec)
    THEN WriteField(p, FormatTimeField(p.spec, buffer, p.times, KeptTimes(p), arg.tm, Nested), KeptTimes(p))
    ELSE EndCall("crashed", Lead)

FormatSpecified == FieldAhead /\ \E p \in {Position} :
    /\ p.error = NoError /\ p.more
    /\ LET arg == Argument(p.spec.argPosition) IN
       /\ arg.type \notin {"custom", "time"}
       /\ \E q \in {Parse(p, arg.type)} : q.error = NoError /\ FormatParsed(q, arg)

FormatTime == FieldAhead /\ \E p \in {Position} :
    /\ p.error = NoError /\ p.more
    /\ LET arg == Argument(p.spec.argPosition) IN
       /\ arg.type = "time"
       /\ \E q \in {ParseTimeField(p)} : q.error = NoError /\ FormatParsedTime(q, arg)

ReportError ==
    \/ /\ status = "parsing" /\ Len(sv) > 2 /\ Brackets = Unclosed
       /\ EndCall("error", <<>>)
    \/ /\ FieldAhead /\ Position.error # NoError
       /\ EndCall("error", Lead)
    \/ FieldAhead /\ \E p \in {Position} :
       /\ p.error = NoError /\ p.more
       /\ LET type == Argument(p.spec.argPosition).type IN
          /\ type # "custom"
          /\ \E q \in {IF type = "time" THEN ParseTimeField(p) ELSE Parse(p, type)} :
                 q.error # NoError /\ timeSpec' = KeptTimes(q)
       /\ StopCall("error", Lead)

ParseFormatString ==
    /\ \/ WriteRest \/ WritePair \/ SubstituteSimple
       \/ FormatCustom \/ FormatSpecified \/ FormatTime \/ ReportError
    /\ CallUnchanged

\* Nothing is left to do, or the process is gone.  A call never waits: a
\* deadlock of the model is a call that ParseFormatString has no way to go on with.
Terminated ==
    /\ status = "crashed" \/ (use = <<>> /\ status \in {"done", "error"})
    /\ UNCHANGED vars

Next == ArgFormatter \/ se_format \/ ParseFormatString \/ Terminated

Spec == Init /\ [][Next]_vars

-----------------------------------------------------------------------------
(* Where ArgFormatter is known to differ from std::format, by construct.     *)
TimeDiverges(char, tm) ==
    \/ char \in {"D", "x", "F", "r", "U", "V", "g", "G", "n", "t", "z"}
    \/ char = "c" /\ tm.mday < 10
    \/ char = "I" /\ tm.hour = 0
    \/ char = "y" /\ tm.year < 0

FieldDiverges(spec, arg) ==
    LET integer == arg.type = "int" \/ (arg.type \in {"bool", "char"} /\ spec.type \in IntegerTypes)
        value == CASE arg.type = "int" -> arg.n
                   [] arg.type = "char" -> arg.code
                   [] arg.type = "bool" -> IF arg.b THEN 1 ELSE 0
                   [] arg.type = "float" -> IF arg.neg THEN -1 ELSE 1
                   [] OTHER -> 0
        digits == Len(ToChars(value, BaseOf(spec.type)))
        signs == IF value < 0 \/ spec.sign \in {"+", " "} THEN 1 ELSE 0
        whole == WholeDigits(FloatShape(spec, arg))
        rest == Fraction(FloatShape(spec, arg))
    IN \/ spec.align # "" /\ spec.fill = ""                       \* refused
       \/ spec.width > 99 \/ spec.precision > 99                   \* refused, two digits are read
       \/ spec.fill = ":" /\ spec.width # 0                        \* filled with blanks
       \/ arg.type = "time" /\ spec.fill = "%"                     \* read as specifications
       \/ integer /\ signs + (IF spec.alt THEN 2 ELSE 0) + digits > BufferSize     \* does not fit
       \/ spec.zero /\ spec.align = "" /\ spec.width # 0            \* filled with blanks
       \/ value < 0 /\ spec.sign = "+"                            \* both signs
       \/ value < 0 /\ spec.alt /\ spec.type \in DOMAIN PreAltForm  \* prefix before the sign
       \/ integer /\ value = 0 /\ spec.alt /\ spec.type = "o"      \* prefixed
       \/ arg.type = "int" /\ spec.type = "c"                     \* written as a number
       \/ /\ arg.type = "float" /\ spec.type = "" /\ spec.precision = 0     \* general, not shortest
          /\ spec.width # 0 \/ spec.sign # "" \/ spec.localize
          /\ arg.whole > 6
       \/ arg.type = "float" /\ signs + Len(whole) + Len(rest) > BufferSize      \* does not fit
       \/ /\ arg.type = "float" /\ spec.localize              \* grouped over what follows the point
          /\ signs + Len(whole) + (IF "." \in Range(rest) THEN 0 ELSE Len(rest)) > 3
       \/ arg.type = "float" /\ spec.alt                           \* scientific, or not heeded
       \/ /\ arg.type = "bool" /\ spec.localize                    \* copied from a lost string
          /\ integer \/ spec.width # 0
       \/ /\ arg.type = "pointer" \/ (integer /\ arg.type # "int")   \* on the left
          /\ spec.align = "" /\ spec.width # 0
       \/ /\ arg.type \in Texts /\ spec.precision # 0               \* read behind the end, filled too little
          /\ IF spec.width = 0 THEN spec.precision > Len(arg.text) ELSE spec.precision < Len(arg.text)
       \/ /\ spec.localize /\ arg.type = "int"                      \* grouped from the wrong end
          /\ \/ digits > 3 /\ digits % 3 = 2
             \/ value < 0 \/ spec.sign # "" \/ spec.alt
             \/ digits + digits \div 3 > BufferSize                  \* nor does it fit
       \/ /\ arg.type = "time"                                    \* more than the arrays hold
          /\ \/ Len(spec.times) > MaxTimeSpecs
             \/ Len(TimesMeaning(spec.times, arg.tm)) > BufferSize
       \/ arg.type = "time" /\ spec.align = "" /\ spec.width # 0   \* not aligned
       \/ /\ arg.type = "time" /\ spec.localize                    \* from an empty buffer
          /\ spec.width = 0 /\ Len(spec.times) = 1
       \/ arg.type = "time" /\ spec.localize /\ ~PlainLocale       \* in the words of the locale
       \/ arg.type = "time" /\ \E k \in 1 .. Len(spec.times) : TimeDiverges(spec.times[k], arg.tm)

Diverges ==
    LET items == call.items
        n == Len(items)
        fields == {i \in 1 .. n : IsField(items[i])}
        specified == {i \in fields : HasSpec(items[i])}
        arg(i) == call.args[ArgumentOf(items, i) + 1]
    IN \/ \E i \in specified : FieldDiverges(items[i].spec, arg(i))
       \/ n > 1 /\ items[n] = Plain(Automatic) /\ n - 1 \in fields      \* argument 0
       \/ \E i \in specified : \E k \in fields :                       \* counted twice
              k > i /\ items[k].index = Automatic /\ items[i].spec.precision # 0
       \/ \E i \in specified : \E k \in fields :                       \* left in the buffer
              k > i /\ arg(k).type = "time" /\ arg(i).type \notin Texts

Promised == WellFormed(call.items, call.args) /\ ~Diverges

\* A call std::format accepts is not refused, whatever the formatter did before
\* (VerifyPositionalField to HandlePotentialTypeField, and the members they share).
Accepts == Promised => status \notin {"error", "crashed"}

\* What is written for such a call is what std::format writes: indexing, every
\* presentation of every type, alignment, and nothing left of an earlier field
\* or call (ParseFormatString, Format and what they call).
AsStdFormat == Promised /\ status = "done" => out = Meaning(call.items, call.args)

\* Whatever the format string, the loop of ParseFormatString comes to its end:
\* every turn uses up a part of it or is the last one.
EveryTurnAdvances ==
    [][status = "parsing" => status' # "parsing" \/ Len(sv') < Len(sv)]_vars
=============================================================================
