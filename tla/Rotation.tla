------------------------------ MODULE Rotation ------------------------------
(***************************************************************************)
(* RotatingTarget on the files of one directory: when a message makes it    *)
(* rotate, which file it opens next, what happens to the buffer, and the    *)
(* size it believes its file to have.                                       *)
(*                                                                         *)
(* Bytes are counted.  A call is one step: the target's own functions run   *)
(* under rotatingMutex or on one thread, and a flush by the policy or the   *)
(* flush thread falls between them (FileTarget has the flush handshake,     *)
(* which RotatingTarget repeats).  Opening a file succeeds.                 *)
(*                                                                         *)
(* The clock of the file system is coarse: it ticks between calls and while *)
(* a rotation is under way, and files written within a tick carry the same  *)
(* time.  file_clock::now() is later than all of them.  "Faulty variant"    *)
(* marks plausible bugs that no action uses.                                *)
(***************************************************************************)
EXTENDS Integers, FiniteSets

CONSTANTS
    Bases,         \* the base names of log files: file k of base b is <<b, k>>
    NameContains,  \* <<b, c>>: the name b contains the name c
    NoFile,
    Modes,         \* IntervalModes used; daily .. monthly act like "interval"
    Limits,        \* RotateLimits::fileSizeLimit
    Maxima,        \* RotateLimits::maxNumberOfFiles
    DefaultMax,    \* the maximum a target has while it is constructed
    Truncations,   \* the values of truncateMessage used
    MsgSizes,      \* sizes of the formatted messages
    Calls,         \* which of the functions below the application calls
    MaxLogged,     \* bound: bytes logged to one target
    MaxClock       \* bound: ticks of the clock of the file system

IntervalModes == {"file_size", "interval"}
Functions == {"flush", "rotate", "rename", "enable", "reconfigure"}

ASSUME RotationAssumption ==
    /\ Bases # {} /\ NoFile \notin Bases \X Nat
    /\ NameContains \subseteq Bases \X Bases /\ \A b \in Bases : <<b, b>> \in NameContains
    /\ Modes \subseteq IntervalModes /\ Calls \subseteq Functions
    /\ Limits \subseteq Nat \ {0} /\ Maxima \subseteq Nat \ {0} /\ DefaultMax \in Nat \ {0}
    /\ Truncations \subseteq BOOLEAN
    /\ MsgSizes \subseteq Nat /\ MaxLogged \in Nat /\ MaxClock \in Nat

VARIABLES
    present, size,     \* the files there are, and their sizes on disk
    lastWrite, clock,  \* their last_write_time(), and the tick it is
    base, path, fd,    \* FileCache::fileName and filePath; the file that is open
    rotationEnabled, m_mode, fileSizeLimit, maxNumberOfFiles, truncateMessage,
    buffered,          \* FileHelper::buffer.size()
    currentFileSize,   \* RotateSettings::currentFileSize
    life,              \* "none", "live"
    logged, stored,    \* history: bytes logged to this target, bytes it wrote
    opened,            \* history: the tick in which the last file was opened
    dropped            \* history: the destructor of the target rotated

directory == <<present, size, lastWrite>>
time      == <<clock, opened>>
names     == <<base, path, fd>>
settings  == <<rotationEnabled, m_mode, fileSizeLimit, maxNumberOfFiles, truncateMessage>>
counts    == <<buffered, currentFileSize>>
history   == <<logged, stored, dropped>>
vars      == <<directory, time, names, settings, counts, life, history>>

Files == Bases \X Nat

TypeOK ==
    /\ present \subseteq Files /\ size \in [present -> Nat]
    /\ clock \in Nat /\ opened \in 0 .. clock /\ lastWrite \in [present -> 0 .. clock]
    /\ base \in Bases /\ path \in Files /\ fd \in Files \union {NoFile}
    /\ fd # NoFile => fd \in present
    /\ rotationEnabled \in BOOLEAN /\ m_mode \in IntervalModes
    /\ fileSizeLimit \in Nat \ {0} /\ maxNumberOfFiles \in Nat \ {0}
    /\ truncateMessage \in BOOLEAN
    /\ buffered \in Nat /\ currentFileSize \in Nat
    /\ life \in {"none", "live"} /\ (life = "live" <=> fd # NoFile)
    /\ logged \in Nat /\ stored \in Nat /\ dropped \in BOOLEAN

(* An empty directory and no target yet.                                    *)
Init ==
    /\ present = {} /\ size = [f \in {} |-> 0] /\ lastWrite = [f \in {} |-> 0]
    /\ clock = 0 /\ opened = 0
    /\ base \in Bases /\ path = <<base, 0>> /\ fd = NoFile
    /\ rotationEnabled = TRUE /\ m_mode = "file_size" /\ truncateMessage = TRUE
    /\ fileSizeLimit \in Limits /\ maxNumberOfFiles = DefaultMax
    /\ buffered = 0 /\ currentFileSize = 0
    /\ life = "none" /\ logged = 0 /\ stored = 0 /\ dropped = FALSE

-----------------------------------------------------------------------------
\* Faulty variant: a full buffer is written as a whole.
LimitDrainAll(total) == IF total >= fileSizeLimit THEN total ELSE 0

(* WriteImpl(msg, writeLimit, truncateRest) on a buffer that holds total    *)
(* bytes, msg included: what it hands to the file ...                       *)
LimitDrain(total) == IF total >= fileSizeLimit THEN fileSizeLimit ELSE 0

\* Faulty variant: the limit is erased from a buffer that has not reached it.
LimitEraseUnguarded(total) ==
    IF truncateMessage /\ total >= fileSizeLimit THEN total ELSE fileSizeLimit

(* ... and what it erases.                                                  *)
LimitErase(total) ==
    IF truncateMessage /\ total >= fileSizeLimit THEN total ELSE LimitDrain(total)

\* Faulty variant: the message is written again as a whole.
RemainderWhole(n) == IF truncateMessage THEN 0 ELSE n

(* What is left of a message of n bytes once the file is full.              *)
Remainder(n) == IF truncateMessage THEN 0 ELSE n - (fileSizeLimit - currentFileSize)

\* Faulty variant: numbers up to and including maxNumberOfFiles + 1.
FreeBeyond(b, max) == {k \in 1 .. max + 1 : <<b, k>> \notin present}

Free(b, max)  == {k \in 1 .. max : <<b, k>> \notin present}
Matching(b)   == {f \in present : <<f[1], b>> \in NameContains}

(* The write times once `filled' bytes more have gone to the open file.     *)
WriteTimes(filled) ==
    [f \in present |-> IF f = fd /\ filled > 0 THEN clock ELSE lastWrite[f]]

\* Faulty variant: the comparison of the write times is the wrong way round.
Newest(S, times) == {f \in S : \A g \in S : times[g] <= times[f]}

(* The files that may be the first found of those with the least time.      *)
Oldest(S, times) == {f \in S : \A g \in S : times[f] <= times[g]}

(* RenameFileInRotation: the first number that is free; if there is none,   *)
(* ReplaceOldFileInRotation: the oldest file that has the name b in its own.*)
NextFiles(b, max, filled) ==
    IF Free(b, max) # {}
      THEN {<<b, k>> : k \in {k \in Free(b, max) : \A j \in Free(b, max) : k <= j}}
      ELSE Oldest(Matching(b), WriteTimes(filled))

(* The file that was open gets `filled' more bytes; f is opened empty, a    *)
(* while later, and gets `written' bytes.                                   *)
OpenNext(f, filled, written) ==
    /\ clock' \in clock .. MaxClock /\ opened' = clock'
    /\ present' = present \union {f}
    /\ lastWrite' = [g \in present \union {f} |->
                        IF g = f THEN clock' ELSE WriteTimes(filled)[g]]
    /\ size' = [g \in present \union {f} |->
                   IF g = f THEN written ELSE IF g = fd THEN size[g] + filled ELSE size[g]]
    /\ path' = f

(* n bytes are written to the open file.                                    *)
AppendBytes(n) ==
    /\ size' = [size EXCEPT ![fd] = @ + n]
    /\ lastWrite' = WriteTimes(n)
    /\ stored' = stored + n
    /\ UNCHANGED <<present, time, path>>

-----------------------------------------------------------------------------
(* A constructor, and the settings an application makes before it logs.     *)
(* If file 1 is there the target rotates, still with the default limits.    *)
Construct(b) ==
    /\ life = "none"
    /\ base' = b
    /\ \E f \in IF <<b, 1>> \in present THEN NextFiles(b, DefaultMax, 0) ELSE {<<b, 1>>} :
          OpenNext(f, 0, 0) /\ fd' = f
    /\ rotationEnabled' = TRUE
    /\ m_mode' \in Modes /\ truncateMessage' \in Truncations
    /\ fileSizeLimit' \in Limits /\ maxNumberOfFiles' \in Maxima
    /\ buffered' = 0 /\ currentFileSize' = 0
    /\ life' = "live" /\ logged' = 0 /\ stored' = 0 /\ dropped' = FALSE

\* Faulty variant: a file may grow to exactly the limit before it is rotated.
ShouldRotateLate(n, due) ==
    /\ rotationEnabled
    /\ IF m_mode = "file_size" THEN currentFileSize + n > fileSizeLimit ELSE due

(* ShouldRotate for a message of n bytes; due: the hour (day, ...) to       *)
(* rotate has come.                                                         *)
ShouldRotate(n, due) ==
    /\ rotationEnabled
    /\ IF m_mode = "file_size" THEN currentFileSize + n >= fileSizeLimit ELSE due

(* PrintMessage ...                                                         *)
Logs(n) == /\ life = "live" /\ logged + n <= MaxLogged
           /\ logged' = logged + n
           /\ UNCHANGED <<base, settings, life, dropped>>

(* ... without rotation,                                                    *)
PrintInFile(n, due) ==
    /\ Logs(n) /\ ~ShouldRotate(n, due)
    /\ LET total == buffered + n
       IN  AppendBytes(LimitDrain(total)) /\ buffered' = total - LimitErase(total)
    /\ currentFileSize' = currentFileSize + n
    /\ UNCHANGED fd

(* ... across the size limit: the file is filled, RotateFile drops what is  *)
(* buffered, and unless messages are truncated the remainder is written,    *)
PrintAcross(n) ==
    /\ Logs(n) /\ m_mode = "file_size" /\ ShouldRotate(n, FALSE)
    /\ currentFileSize <= fileSizeLimit
    /\ LET filled == LimitDrain(buffered + n)
           rest   == Remainder(n)
       IN  /\ \E next \in NextFiles(base, maxNumberOfFiles, filled) :
                 OpenNext(next, filled, LimitDrain(rest)) /\ fd' = next
           /\ stored' = stored + filled + LimitDrain(rest)
           /\ buffered' = rest - LimitErase(rest)
           /\ currentFileSize' = rest

(* ... when formatted.substr(fileSizeLimit - FileSize()) wraps and throws,  *)
PrintThrows(n) ==
    /\ Logs(n) /\ m_mode = "file_size" /\ ShouldRotate(n, FALSE)
    /\ currentFileSize > fileSizeLimit
    /\ UNCHANGED <<directory, time, path, fd, counts, stored>>

(* ... or on the hour (day, ...): rotation first, then the message.         *)
PrintOnInterval(n) ==
    /\ Logs(n) /\ m_mode = "interval" /\ ShouldRotate(n, TRUE)
    /\ \E next \in NextFiles(base, maxNumberOfFiles, 0) :
          OpenNext(next, 0, LimitDrain(n)) /\ fd' = next
    /\ stored' = stored + LimitDrain(n)
    /\ buffered' = n - LimitErase(n)
    /\ currentFileSize' = n

(* Flush, from the policy, the flush thread or the application.             *)
Flush ==
    /\ life = "live" /\ "flush" \in Calls /\ buffered > 0
    /\ AppendBytes(buffered) /\ buffered' = 0
    /\ UNCHANGED <<base, fd, settings, currentFileSize, life, logged, dropped>>

\* Faulty variant: the file size is that of the file before.
RotateFileStale ==
    /\ life = "live" /\ "rotate" \in Calls /\ rotationEnabled
    /\ \E next \in NextFiles(base, maxNumberOfFiles, 0) : OpenNext(next, 0, 0) /\ fd' = next
    /\ buffered' = 0
    /\ UNCHANGED <<base, settings, currentFileSize, life, history>>

(* RotateFile: CloseFile(true) drops the buffer without a flush.            *)
RotateFile ==
    /\ life = "live" /\ "rotate" \in Calls /\ rotationEnabled
    /\ \E next \in NextFiles(base, maxNumberOfFiles, 0) : OpenNext(next, 0, 0) /\ fd' = next
    /\ buffered' = 0 /\ currentFileSize' = 0
    /\ UNCHANGED <<base, settings, life, history>>

(* The new name is cached; the file changes only if rotation is enabled.    *)
RenameFile(b) ==
    /\ life = "live" /\ "rename" \in Calls
    /\ base' = b
    /\ IF rotationEnabled
         THEN /\ \E next \in NextFiles(b, maxNumberOfFiles, 0) : OpenNext(next, 0, 0) /\ fd' = next
              /\ buffered' = 0 /\ currentFileSize' = 0
         ELSE path' = <<b, 0>> /\ UNCHANGED <<directory, time, fd, counts>>
    /\ UNCHANGED <<settings, life, history>>

(* file_size() throws if the cached path is that of no file.                *)
EnableRotation ==
    /\ life = "live" /\ "enable" \in Calls
    /\ rotationEnabled' \in BOOLEAN
    /\ currentFileSize' = IF path \in present THEN size[path] ELSE currentFileSize
    /\ UNCHANGED <<directory, time, names, m_mode, fileSizeLimit, maxNumberOfFiles, truncateMessage,
                   buffered, life, history>>

(* SetRotationLimits, SetRotationMode, TruncLogOnFileSize.                  *)
Reconfigure ==
    /\ life = "live" /\ "reconfigure" \in Calls
    /\ m_mode' \in Modes /\ truncateMessage' \in Truncations
    /\ fileSizeLimit' \in Limits /\ maxNumberOfFiles' \in Maxima
    /\ UNCHANGED <<directory, time, names, rotationEnabled, counts, life, history>>

(* ~RotatingTarget rotates if what is buffered, added to a file size that   *)
(* counts it already, reaches the limit; CloseFile flushes what is left.    *)
Destroy(due) ==
    /\ life = "live"
    /\ IF ShouldRotate(buffered, due)
         THEN /\ \E next \in NextFiles(base, maxNumberOfFiles, 0) : OpenNext(next, 0, 0)
              /\ dropped' = TRUE /\ UNCHANGED stored
         ELSE AppendBytes(buffered) /\ UNCHANGED dropped
    /\ fd' = NoFile /\ buffered' = 0 /\ life' = "none"
    /\ UNCHANGED <<base, settings, currentFileSize, logged>>

(* Time passes between two calls.                                           *)
Tick ==
    /\ clock < MaxClock /\ clock' = clock + 1
    /\ UNCHANGED <<directory, opened, names, settings, counts, life, history>>

Next ==
    \/ \E b \in Bases : Construct(b) \/ RenameFile(b)
    \/ \E n \in MsgSizes : \/ \E due \in BOOLEAN : PrintInFile(n, due)
                           \/ PrintAcross(n) \/ PrintThrows(n) \/ PrintOnInterval(n)
    \/ Flush \/ RotateFile \/ EnableRotation \/ Reconfigure
    \/ \E due \in BOOLEAN : Destroy(due)
    \/ Tick

Spec == Init /\ [][Next]_vars

-----------------------------------------------------------------------------
(* The size a target believes its file to have, which decides when it       *)
(* rotates and how much of a message goes where, is what the file and the   *)
(* buffer hold: through writes, flushes and rotations, with or without      *)
(* truncation, whatever limits are set.                                     *)
BeliefExact == life = "live" => currentFileSize = size[fd] + buffered

(* With messages no longer than the limit a file stays below it after each  *)
(* message, so that fileSizeLimit - FileSize() never wraps.                 *)
LimitHeld == life = "live" => currentFileSize < fileSizeLimit

(* RotatingTests.cpp: "file_size(entry) <= limits.fileSizeLimit".  It holds *)
(* while nothing is flushed before its file is full ...                     *)
FilesWithinLimit == \A f \in present : size[f] <= fileSizeLimit

(* ... and with flushes a file stays below twice the limit.                 *)
FilesBelowTwice == \A f \in present : size[f] < 2 * fileSizeLimit

(* Without truncation every byte logged is written once, to one file or     *)
(* across two, or buffered, up to and with the destruction of the target.   *)
(* If the destructor rotates instead of writing what is buffered, that much *)
(* is lost and no more: less than a file.                                   *)
NoLoss == ~truncateMessage =>
             IF dropped THEN logged - stored \in 1 .. fileSizeLimit - 1
                        ELSE stored + buffered = logged

(* RotatingTests.cpp: "fileCount <= limits.maxNumberOfFiles".               *)
FileCountBounded == life = "live" => Cardinality(present) <= maxNumberOfFiles

(* Neither a rotation nor any other call removes or empties the file that   *)
(* was open, whatever else is in the directory and whatever the target was  *)
(* renamed to: unless no number is free and every file with the name was    *)
(* written in the tick in which the open one was opened, or later.  Then    *)
(* the write times need not tell the files apart.                           *)
Indistinct(b) ==
    /\ Free(b, maxNumberOfFiles) = {} /\ fd \in Matching(b)
    /\ \A f \in Matching(b) : lastWrite[f] >= opened
PreviousKept ==
    [][life = "live" /\ ~Indistinct(base')
          => fd \in present' /\ size'[fd] >= size[fd]]_vars

(* "Kind of a work-around": the destructor is to "write out what's left of  *)
(* the buffer".                                                             *)
DestroyedComplete == life = "none" => stored = logged
=============================================================================
