----------------------------- MODULE MessageLine -----------------------------
(***************************************************************************)
(* A target from the call of Trace to Fatal to the line that is printed:    *)
(* TargetBase with its Message_Info, Message_Time and Message_Formatter, and *)
(* ColorConsole as the target that prints.  One thread logs; SetPattern     *)
(* builds the fields of a pattern one turn of its loop after the other.     *)
(* line is what the last step printed.                                      *)
(***************************************************************************)
EXTENDS PatternParser, TimeFields

CONSTANTS
    Instants,       \* sequence of readings of the clock: [second, tm, zone]
    Patterns,       \* patterns given to the target, as sequences of items
    DefaultPattern,
    Names,          \* logger names
    Messages,       \* what is logged: [level, text, source]
    Refused,        \* texts whose formatting throws
    LogLevels,      \* levels given to SetLogLevel
    ColourSettings, \* calls of SetMsgColor: [level, colour]
    Consoles,       \* consoles given to SetConsoleInterface
    Terminals       \* which of stdout and stderr are terminals

OutputHandle(mode) == IF mode = "std_out" THEN "stdout" ELSE "stderr"
EOL == "\n"
Levels == 0 .. 6

ASSUME MessageAssumption ==
    /\ Instants \in Seq([second : Nat, tm : [year : Nat, mon : 0 .. 11, mday : 1 .. 31, wday : 0 .. 6,
                                             hour : 0 .. 23, min : 0 .. 59, sec : 0 .. 60],
                         zone : [hours : Int, abbrev : STRING]])
    /\ Len(Instants) > 0
    /\ \A i, k \in DOMAIN Instants :
           Instants[i].second = Instants[k].second => Instants[i].tm = Instants[k].tm
    /\ \A m \in Messages : m.level \in 0 .. 5
    /\ LogLevels \subseteq Levels /\ Consoles \subseteq {"std_out", "std_err", "std_log"} /\ Terminals \subseteq {"stdout", "stderr"}

(* An item of a pattern is a text or a flag of one letter with its specification. *)
Items == [chars : Seq(STRING)] \union [letter : STRING \ {" %B"}, spec : Seq(STRING)]

ASSUME PatternAssumption == Patterns \subseteq Seq(Items) /\ DefaultPattern \in Seq(Items)

VARIABLES
    clock,                  \* the reading of the clock, as a position in Instants
    cache, lastLogPoint,    \* Message_Time: m_cache and secsSinceLastLog
    logLevel,
    msgLevel, name, message, source,    \* Message_Info
    pattern,                \* the items the target was given, and sourceFlag before
    temp, fields, sourceFlag,           \* Message_Formatter
    multiThreaded,
    consoleMode, coloredOutput, msgLevelColors,
    status,                 \* "constructing", "parsing", "ready", "stuck" or "gone"
    line

timeVars == <<cache, lastLogPoint>>
infoVars == <<msgLevel, name, message, source>>
patternVars == <<pattern, temp, fields, sourceFlag>>
consoleVars == <<consoleMode, coloredOutput, msgLevelColors>>
vars == <<clock, timeVars, logLevel, infoVars, patternVars, multiThreaded, consoleVars, status, line>>

-----------------------------------------------------------------------------
(* An item of a pattern: literal characters, or a flag with what stands
   behind its ':'.                                                           *)
Literal(chars) == [chars |-> chars]
Flag(letter, spec) == [letter |-> letter, spec |-> spec]
IsFlag(item) == "letter" \in DOMAIN item
RenderItem(item) ==
    IF ~IsFlag(item) THEN item.chars
    ELSE <<"%", item.letter>> \o (IF item.spec = <<>> THEN <<>> ELSE <<":">> \o item.spec)
Render(items) == FlattenSeq([i \in 1 .. Len(items) |-> RenderItem(items[i])])

NoLine == [colour |-> "", pieces |-> <<>>, console |-> ""]
NoSource == [line |-> "0", column |-> "0", file |-> "", function |-> ""]
NoInfo == [tm |-> Instants[1].tm, level |-> 0, name |-> "", message |-> <<>>, source |-> NoSource,
           zone |-> Instants[1].zone]
Info == [tm |-> cache, level |-> msgLevel, name |-> name, message |-> message, source |-> source,
         zone |-> Instants[clock].zone]
OriginalColours == <<"white on black", "green", "cyan", "yellow", "red", "yellow on red", "reset">>

Init ==
    /\ clock \in 1 .. Len(Instants)
    /\ cache = Instants[clock].tm /\ lastLogPoint = Instants[clock].second
    /\ logLevel = 0 /\ msgLevel = 0 /\ message = <<>> /\ source = NoSource
    /\ name \in Names
    /\ \E items \in Patterns \union {DefaultPattern} :
           pattern = [items |-> items, flagBefore |-> {}] /\ temp = Render(items)
    /\ fields = <<>> /\ sourceFlag = {}
    /\ multiThreaded = FALSE
    /\ consoleMode = "std_out" /\ coloredOutput = ("stdout" \in Terminals)
    /\ msgLevelColors = OriginalColours
    /\ status = "constructing" /\ line = NoLine

-----------------------------------------------------------------------------
(* StoreFormat: a turn for a flag, a turn for the text up to the next one.   *)
Emplace_Back(class, value) == fields' = Append(fields, Construct(class, value, Info))

Parsing == status \in {"constructing", "parsing"}
ParsingUnchanged ==
    UNCHANGED <<clock, timeVars, logLevel, infoVars, pattern, multiThreaded, consoleVars, line>>

StoreUnknownFlag ==
    /\ Parsing /\ temp # <<>> /\ Head(temp) = "%"
    /\ Len(temp) = 1 \/ ~IsValidFlag(temp[2])
    /\ Emplace_Back("char", SubSeq(temp, 1, IF Len(temp) = 1 THEN 1 ELSE 2))
    /\ temp' = SubSeq(temp, 3, Len(temp))
    /\ UNCHANGED <<sourceFlag, status>> /\ ParsingUnchanged

StoreFlag ==
    /\ Parsing /\ Len(temp) > 1 /\ Head(temp) = "%" /\ IsValidFlag(temp[2])
    /\ LET index == IndexOf(temp[2])
           spec == ParseUserPatternForSpec(SubSeq(temp, 3, Len(temp)), index, sourceFlag)
       IN /\ temp' = spec.rest
          /\ sourceFlag' = spec.flag
          /\ IF spec.thrown
             THEN /\ status' = IF status = "constructing" THEN "gone" ELSE "ready"
                  /\ UNCHANGED fields
             ELSE /\ Emplace_Back(ClassAt(index), IF ClassAt(index) = "s" THEN spec.flag ELSE spec.value)
                  /\ UNCHANGED status
    /\ ParsingUnchanged

StoreText ==
    /\ Parsing /\ temp # <<>> /\ Head(temp) # "%"
    /\ LET size == CountLeading(temp, Range(temp) \ {"%"}) IN
       /\ Emplace_Back("char", SubSeq(temp, 1, size))
       /\ temp' = SubSeq(temp, size + 1, Len(temp))
    /\ UNCHANGED <<sourceFlag, status>> /\ ParsingUnchanged

PatternStored ==
    /\ Parsing /\ temp = <<>>
    /\ status' = "ready"
    /\ UNCHANGED <<temp, fields, sourceFlag>> /\ ParsingUnchanged

-----------------------------------------------------------------------------
(* Calls of the owner.                                                       *)
Called == status = "ready" /\ line' = NoLine

SetPattern(items) ==
    /\ Called
    /\ pattern' = [items |-> items, flagBefore |-> sourceFlag] /\ temp' = Render(items)
    /\ fields' = <<>> /\ status' = "parsing"
    /\ UNCHANGED <<clock, timeVars, logLevel, infoVars, sourceFlag, multiThreaded, consoleVars>>

ResetPatternToDefault == SetPattern(DefaultPattern)

SetLogLevel(level) ==
    /\ Called /\ logLevel' = level
    /\ UNCHANGED <<clock, timeVars, infoVars, patternVars, multiThreaded, consoleVars, status>>

SetLoggerName(newName) ==
    /\ Called /\ name' = newName
    /\ UNCHANGED <<clock, timeVars, logLevel, msgLevel, message, source, patternVars, multiThreaded,
                   consoleVars, status>>

EnableMultiThreadingSupport(enable) ==
    /\ Called /\ multiThreaded' = enable
    /\ UNCHANGED <<clock, timeVars, logLevel, infoVars, patternVars, consoleVars, status>>

(* SetLocale and GetLocale hold baseMutex while MsgFmt locks it again.       *)
SetLocale ==
    /\ Called /\ status' = IF multiThreaded THEN "stuck" ELSE "ready"
    /\ UNCHANGED <<clock, timeVars, logLevel, infoVars, patternVars, multiThreaded, consoleVars>>

SetMsgColor(level, colour) ==
    /\ Called /\ msgLevelColors' = [msgLevelColors EXCEPT ![level + 1] = colour]
    /\ UNCHANGED <<clock, timeVars, logLevel, infoVars, patternVars, multiThreaded, consoleMode,
                   coloredOutput, status>>

SetOriginalColors ==
    /\ Called /\ msgLevelColors' = OriginalColours
    /\ UNCHANGED <<clock, timeVars, logLevel, infoVars, patternVars, multiThreaded, consoleMode,
                   coloredOutput, status>>

ColorizeOutput(colorize) ==
    /\ Called /\ coloredOutput' = colorize
    /\ UNCHANGED <<clock, timeVars, logLevel, infoVars, patternVars, multiThreaded, consoleMode,
                   msgLevelColors, status>>

SetConsoleInterface(mode) ==
    /\ Called /\ consoleMode' = mode
    /\ UNCHANGED <<clock, timeVars, logLevel, infoVars, patternVars, multiThreaded, coloredOutput,
                   msgLevelColors, status>>

Tick ==
    /\ Called /\ clock' \in 1 .. Len(Instants)
    /\ UNCHANGED <<timeVars, logLevel, infoVars, patternVars, multiThreaded, consoleVars, status>>

-----------------------------------------------------------------------------
Filtered(m) == m.level < logLevel

Discard(m) ==
    /\ Called /\ Filtered(m)
    /\ UNCHANGED <<clock, timeVars, logLevel, infoVars, patternVars, multiThreaded, consoleVars, status>>

\* Faulty variant: the time is brought up to date once a minute.
UpdateCacheEachMinute ==
    IF Instants[clock].second \div 60 # lastLogPoint \div 60
    THEN cache' = Instants[clock].tm /\ lastLogPoint' = Instants[clock].second
    ELSE UNCHANGED timeVars

UpdateCache ==
    IF Instants[clock].second # lastLogPoint
    THEN cache' = Instants[clock].tm /\ lastLogPoint' = Instants[clock].second
    ELSE UNCHANGED timeVars

\* The level and source are noted and the time is brought up to date.
BeginMessage(m) ==
    /\ status = "ready" /\ ~Filtered(m)
    /\ msgLevel' = m.level /\ source' = m.source
    /\ UpdateCache
    /\ UNCHANGED <<clock, logLevel, name, pattern, temp, sourceFlag, multiThreaded, consoleVars, status>>

LineColour(level) ==
    IF OutputHandle(consoleMode) \in Terminals /\ coloredOutput THEN msgLevelColors[level + 1] ELSE ""

LogMessage(m) ==
    /\ BeginMessage(m) /\ m.text \notin Refused
    /\ message' = <<m.text, EOL>>
    /\ line' = [colour |-> LineColour(m.level), console |-> OutputHandle(consoleMode),
                pieces |-> [i \in 1 .. Len(fields) |-> Shown(fields[i], Info')]]
    /\ fields' = [i \in 1 .. Len(fields) |-> After(fields[i], Info')]

\* FormatMessageArgs throws: nothing is printed and no field is formatted.
RefuseMessage(m) ==
    /\ BeginMessage(m) /\ m.text \in Refused
    /\ message' = <<>> /\ line' = NoLine
    /\ UNCHANGED fields

Terminated == status \in {"stuck", "gone"} /\ UNCHANGED vars

Next ==
    \/ StoreUnknownFlag \/ StoreFlag \/ StoreText \/ PatternStored
    \/ \E items \in Patterns : SetPattern(items)
    \/ ResetPatternToDefault
    \/ \E level \in LogLevels : SetLogLevel(level)
    \/ \E newName \in Names : SetLoggerName(newName)
    \/ \E enable \in BOOLEAN : EnableMultiThreadingSupport(enable)
    \/ SetLocale
    \/ \E c \in ColourSettings : SetMsgColor(c.level, c.colour)
    \/ SetOriginalColors
    \/ \E colorize \in BOOLEAN : ColorizeOutput(colorize)
    \/ \E mode \in Consoles : SetConsoleInterface(mode)
    \/ Tick
    \/ \E m \in Messages : Discard(m) \/ LogMessage(m) \/ RefuseMessage(m)
    \/ Terminated

Spec == Init /\ [][Next]_vars

-----------------------------------------------------------------------------
(* What a message is really logged with: the time is that of the clock.      *)
Truth == [Info EXCEPT !.tm = Instants[clock].tm]

(* Classes whose text is made of their key alone, and is made anew whenever
   the key is another.                                                       *)
Direct == KeyClasses \ {"b", "m", "T"}

\* A field that caches never shows a text that belongs to another key than the
\* one it compares the next message with (the UpdateInternalView functions).
FieldsFresh ==
    \A i \in 1 .. Len(fields) :
        fields[i].class \in Direct => fields[i].text = KeyText(fields[i].class, fields[i].key)

\* A line shows the time, level, name and text of its own message, whatever was
\* logged, discarded, refused or set before (LogMessage and the FormatUserPattern
\* functions).
LineCurrent ==
    line # NoLine =>
        \A i \in 1 .. Len(fields) :
            /\ fields[i].class \in Direct =>
                   line.pieces[i] = KeyText(fields[i].class, Compared(fields[i].class, Truth))
            /\ fields[i].class = "N" => line.pieces[i] = <<name>>
            /\ fields[i].class = "+" => line.pieces[i] = message

-----------------------------------------------------------------------------
(* What a pattern means: item by item, what the comments of FormatterArgs.h say
   of its flag, and where they say no more than the name of a part of the time
   or of the message, what a field would show that was built for this line
   only.  The names of levels are those of the table, whatever their capitals. *)
Behind(items, i) == Render(SubSeq(items, i + 1, Len(items)))

MaxDigits == 20     \* a number of fewer digits fits in a size_t

WellFormedAt(items, i) ==
    LET item == items[i]
        rest == Behind(items, i)
        next == IF rest = <<>> THEN "" ELSE rest[1]
    IN IF ~IsFlag(item)
       THEN item.chars # <<>> /\ "%" \notin Range(item.chars)
            /\ (i = Len(items) \/ IsFlag(items[i + 1]))
       ELSE CASE item.spec = <<>> ->     \* not taken for a specification
                     next # ":" \/ (Len(rest) > 1 /\ rest[2] \notin Letters \union Range(Digits))
              [] item.spec # <<>> /\ item.letter \in {"e", "t"} ->
                     Range(item.spec) \subseteq Range(Digits) /\ Len(item.spec) < MaxDigits
                     /\ next \notin Range(Digits)
              [] item.spec # <<>> /\ item.letter = "s" ->
                     Range(item.spec) \subseteq validCharSpecs /\ next \notin validCharSpecs
              [] OTHER -> FALSE
WellFormed(items) == \A i \in DOMAIN items : WellFormedAt(items, i)

MeantValue(item) ==
    CASE item.letter = "e" -> IF item.spec # <<>> /\ NumberOf(item.spec) \in 0 .. 9
                              THEN NumberOf(item.spec) ELSE DefaultSubSecondPrecision
      [] item.letter = "t" -> IF item.spec # <<>> /\ NumberOf(item.spec) \in 0 .. 10
                              THEN NumberOf(item.spec) ELSE DefaultThreadIdLength
      [] item.letter = "s" -> IF item.spec = <<>> THEN {"all"} ELSE {SourceBit[c] : c \in Range(item.spec)}
      [] OTHER -> 0
MeantClass(letter) == CASE letter = "h" -> "b" [] letter = "x" -> "D" [] OTHER -> letter
Meant(item) ==
    CASE ~IsFlag(item) -> item.chars
      [] IsFlag(item) /\ item.letter = "%" -> <<"%">>
      [] IsFlag(item) /\ item.letter # "%" /\ ~IsValidFlag(item.letter) -> <<"%", item.letter>>
      [] IsFlag(item) /\ item.letter = "w" -> <<ToString(Truth.tm.wday)>>
      [] IsFlag(item) /\ item.letter = "I" /\ Truth.tm.hour = 0 -> <<numberStr(12)>>
      [] IsFlag(item) /\ item.letter = "t" -> <<"thread id digits", ToString(MeantValue(item))>>
      [] OTHER -> Shown(Construct(MeantClass(item.letter), MeantValue(item), Truth), Truth)

(* Where the code is known to print something else: caches compared with the
   wrong part of the time (b, h, m), kept too long (r, z, Z) or made anew
   without a colon (T); letters exchanged (X, Y) or not found (B); dates after
   a whole number of months; the source flag, which nothing resets; at the end
   of a pattern the parser returns before it sets a default (e, s); a precision
   of 0 is taken for none, and that of the thread id is never limited, because
   it is looked for at the index of %r; a line or a column that goes with file
   and function shows the other as well; %w pads its digit with a 0 and a NUL;
   midnight is 00 of the 12 hours (I); and %% stays as it is.                *)
SameDayElsewhere == \E i \in 1 .. Len(Instants) :
    /\ Instants[i].tm.mday = cache.mday
    /\ Instants[i].tm.mon # cache.mon \/ Instants[i].tm.year # cache.year
Misread(item) ==
    /\ item.spec # <<>>
    /\ \/ item.letter = "e" /\ NumberOf(item.spec) = 0
       \/ item.letter = "t" /\ NumberOf(item.spec) \notin 1 .. 10
       \/ item.letter = "s" /\ Range(item.spec) \in {{"f", "F", "l"}, {"f", "F", "c"}}
NothingRead(items, i) == items[i].spec = <<>> /\ Behind(items, i) = <<>>
SourceFlagKept(items, i) ==
    \/ \E k \in DOMAIN items \ {i} : IsFlag(items[k]) /\ items[k].letter = "s"
    \/ NothingRead(items, i)
    \/ items[i].spec # <<>> /\ ~(pattern.flagBefore \subseteq MeantValue(items[i]))
Diverges(items, i) ==
    /\ IsFlag(items[i])
    /\ \/ items[i].letter \in {"b", "h", "m", "r", "w", "z", "Z", "T", "X", "Y", "B", "%"}
       \/ items[i].letter = "I" /\ cache.hour = 0
       \/ Misread(items[i])
       \/ items[i].letter \in {"n", "D", "x", "F"} /\ SameDayElsewhere
       \/ items[i].letter = "e" /\ NothingRead(items, i)
       \/ items[i].letter = "s" /\ SourceFlagKept(items, i)

\* A line has one part for each item of the pattern, and each part says what
\* the item means for this message: neither the parser nor what the target
\* did before shows (StoreFormat, ParseUserPatternForSpec, FormatUserPattern).
LineAsPattern ==
    line # NoLine /\ WellFormed(pattern.items) =>
        /\ line.colour = (IF coloredOutput /\ line.console \in Terminals
                          THEN msgLevelColors[msgLevel + 1] ELSE "")
        /\ Len(line.pieces) = Len(pattern.items)
        /\ \A i \in DOMAIN pattern.items :
               ~Diverges(pattern.items, i) => line.pieces[i] = Meant(pattern.items[i])
=============================================================================
