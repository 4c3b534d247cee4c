# A TLA+ model of Serenity

Serenity is a C++20 logging library. An application creates *targets* (console,
file, rotating file) and calls `Trace` .. `Fatal` on them; a target formats the
message with its pattern, writes it into a buffer in front of a file descriptor
and applies a flush policy, one of which runs a background flush thread. This
directory holds TLA+ models of the parts of that code whose correctness depends
on the order of steps or on what outlives a call, the TLC runs that check them
and TLAPS proofs.

## 1. Inventory

| component | state | operations | interacts with |
|---|---|---|---|
| `FileHelper` (Utilities/FileHelper) | `buffer`, descriptor, `fileOpen`, `FileCache` | `WriteToFile`, `Flush`, `OpenFile`, `CloseFile`, `RenameFile`, start/stop/pause/resume of the flush thread | base of both file targets; shares `BaseTargetHelper` with them |
| `BackgroundThread` (FileHelper.h) | five atomics, a `std::jthread` | loop of `BackgroundFlushThread` | every logging thread and the owner, through the atomics |
| `FileTarget` | `fileMutex` | `PrintMessage`, `PolicyFlushOn`, construction, destruction | `TargetBase::LogMessage` calls it |
| `RotatingTarget` + `RotateSettings` | `rotatingMutex`, believed file size, limits, rotation mode, file set in the directory | `PrintMessage`, `ShouldRotate`, `RotateFile`, `RenameFile`, `EnableRotation`, limits and settings | `FileHelper`, file system |
| `Flush_Policy`, `BaseTargetHelper` | primary and secondary setting, MT switch | setters | read by the targets on every message, rewritten by start/stop of the flush thread |
| `TargetBase` | levels, pattern, `baseMutex` | `LogMessage`, `SetPattern`, `SetLocale`, ... | `Message_Info`, `Message_Formatter` |
| `ZoneThread` (Message_Time) | mutex, condition variable, jthread, `isThreadActive` | start, stop, wait | time zone cache of every target |
| `Message_Time`, `Message_Info` | cached time, level, name, source | `UpdateCache` once per second | `TargetBase::LogMessage` |
| `Message_Formatter`, `FormatterArgs` | list of fields, each with a key and a cached text; source flag | `SetPattern`, validation, formatting | `TargetBase` |
| `ArgFormatter`, `ArgContainer` | argument storage, parsed specification, buffer, index mode | parse and format `{}` fields | `TargetBase::LogMessage`, by way of `Message_Info` |
| `ColorConsoleTarget` | console mode, colour map | `PrintMessage`, colour setters | `Color` |
| `UtfHelper` | none outside a conversion | six conversions between UTF-8, UTF-16 and UTF-32 | `ArgContainer`, `ArgFormatter`, applications |
| `Utilities` (`file_utils`), `Color` | none | stateless helpers, escape codes | everyone |

What is hard in this code, with the line where it bites, is the list `hazards`
of PROJECT.json: the hand-written handshake between writers and the flush
thread, the stop, start, pause and resume of that thread, a flush under a lock
another thread waits for, closing and renaming without a lock, the arithmetic
of file size limits, rotation with a full directory, and destruction; the
members a formatter and a field keep from one call to the next, and the parsers
that eat a text from the front; a thread that is joined by the thread it waits
for; and encodings, where every boundary has a branch of its own.

What makes each component correct:

- file targets: what is logged reaches the file once, in order, no later than
  destruction; no data race on the buffer; no thread waits for ever; the policy
  the application installed is the one that is applied;
- rotating target: files stay within the limit, their number within the
  maximum, nothing but the oldest file is dropped;
- time zone thread: stopping, restarting and destroying it returns; what it
  caches belongs together and follows the clock;
- message: a line shows its own message, level and time, whatever was logged,
  refused or set before; a pattern means what its items mean one by one;
- argument formatter: what `std::format` accepts is accepted and written the
  same way, whatever the object formatted before; every call ends;
- conversions: the result encodes the same code points, and nothing behind the
  text is read.

## 2. Plan

The order is by how much of the library's promise depends on the part.

| module | of | abstract specification, main questions | state |
|---|---|---|---|
| `PageBuffer`, `FileTarget` | `FileHelper`, `FileTarget`, flush policy | implements `AppendLog`; races, lost bytes, hangs | done, proved |
| `Rotation` | `RotatingTarget` on one directory | sizes, loss, file count, which file is replaced | done, proved |
| `ZoneThread` | `Message_Time.cpp` | stop, start, failure and destruction of the zone thread | done, proved |
| `PatternParser`, `TimeFields`, `MessageLine` | `TargetBase`, `Message_Info`, `Message_Time`, `Message_Formatter`, `FormatterArgs`, `ColorConsole` | a line is what its pattern means for its message | done for one logging thread, proved |
| `SpecParser`, `TimeText`, `FieldText`, `ArgFormat` | `ArgFormatter`, `ArgContainer` | against `StdFormat`, a reference for `std::format` | done, proved |
| `Utf` | `UtfHelper` | against the standard's encodings | done, proved |
| `RotateSchedule` | `ShouldRotate` for hourly .. monthly | one rotation per period; a period without a message | open: in `Rotation` the moment is any |
| `RotationHandshake` | `RotatingTarget::PrintMessage`, `RotateFile` with the flush thread | the handshake of `FileTarget` with rotation inside the critical section; two targets and the static `originalPrimaryMode` | open |

Every invariant and every action property of a passing run is stated by a
theorem; what the theorems leave to TLC is in section 5.

## 3. The modules and the code

### PageBuffer, FileTarget

Three kinds of thread: `Writers` call `LogMessage`; `Workers` are the identities
of the `std::jthread`s that run `BackgroundFlushThread`; the `Owner` installs
policies, renames the file and destroys the target. `pc[t]` is where a thread
is. A step is one access to a shared atomic, the taking of one mutex, or the
work of one critical section:

| places | code |
|---|---|
| `idle` .. `prDone` | `FileTarget::PrintMessage` |
| `polLock` .. `polOut` | `FileTarget::PolicyFlushOn`, with `StartBackgroundThread`; `polJoin` is the move assignment of the jthread |
| `stSignal`, `stPolicy`, `stDisable` | `StopBackgroundThread`, called from `PolicyFlushOn` or the destructor: its three stores, to `cleanUpThreads`, the policy and `flushThreadEnabled`; other threads act in between |
| `flEnter` .. `flDone` | `FileHelper::Flush`, called by a writer, a worker or the owner; `ret[t]` is the caller |
| `bgTop`, `bgPause`, `bgSleep` | the loop of `BackgroundFlushThread` |
| `rnPause`, `clEnter`, `closing`, `rnMove`, `rnOpen`, `dtJoin` | `PauseBackgroundThread` before the flush of a rename, `CloseFile`, `RenameFile`, `OpenFile`, the destructor |

`atomic::wait` is a guard. `flushThreadEnabled` is read once in `PrintMessage`
and once in `Flush`, and both ends of the handshake use that copy (`enabled`).
Logged bytes are tagged with the thread that logged them: enough to tell lost,
repeated and reordered bytes from each other.

Two threads inside `FileHelper::buffer` at the same time are a data race, which
is undefined behaviour. The model records it (`raced`) and lets each of the
critical sections that met (`torn`) leave any combination of its effects on the
buffer and the file behind. Properties about contents are stated for executions
without a race, and whether a race can happen is a question of its own.

The stop token of the flush thread is never the one `request_stop` reaches (it
is taken from a jthread that has not been assigned yet), so `cleanUpThreads` is
the only way to end the thread; the model has no stop token.

`SetFlushPolicy` destroys the policy object that logging threads read, so the
model allows it while no thread is inside `LogMessage`. Without multi-threading
support there is one writer, and it and the owner act in turns: the application
uses such a target from one thread.

### AppendLog

What a file target promises: a log that only grows, at its end, with a growing
prefix in the file. `FileTarget` implements it under
`log <- disk \o buffer, durable <- Len(disk)`.

### Rotation

The target and the directory, with bytes counted instead of stored. A call is a
step. `PrintMessage` is split by the branch it takes: the message fits
(`PrintInFile`), it crosses the size limit (`PrintAcross`), it comes at the
hour, day, week or month to rotate (`PrintOnInterval`), or the subtraction
`fileSizeLimit - FileSize()` wraps (`PrintThrows`).

`lastWrite` is the `last_write_time()` of each file. The clock of a file system
is coarse: `clock` ticks between two calls (`Tick`) or while a rotation is under
way, and files written in one tick carry the same time.
`ReplaceOldFileInRotation` takes the first file found with a time less than
those before it, and the order of a directory is unspecified, so that any of the
files with the least time may be the one (`Oldest`). `file_clock::now()`, with
which the search begins, is later than all of them. One tick (`MaxClock`) is
enough: two files were written in the same one or not.

`NameContains` says which names are found in which others, since
`ReplaceOldFileInRotation` searches by substring. The moment of an interval
mode is a nondeterministic `due`.

`logged`, `stored`, `opened` and `dropped` are history: the bytes passed to
`PrintMessage` of a target and the bytes it wrote, from its construction until
after its destruction; the tick in which the last file was opened; and whether
the destructor rotated.

### ZoneThread

The owner (`EnableZoneThread`, `DisableZoneThread`, `~Message_Time`) and up to
`MaxThreads` zone threads, each running `UpdateTimeZoneInfoThread`. Time is a
sequence of *periods* with or without daylight savings (`Saves`); the
`sys_info` that is cached is the period it belongs to.

| places | code |
|---|---|
| owner `starting`, `assigning`, `joining` | `StartZoneThread` under `timeMutex`: the new thread runs, is assigned, and the one it replaces is joined |
| owner `stopping`, `destroying` | `StopZoneThread` |
| owner `members`, `lastJoin`, `gone` | destruction of `cv`, then of `tzUpdateThread` |
| thread `started` | the lock and `get_stop_token` at the start of the thread |
| thread `waiting` | `cv.wait_until` with its predicate; it ends by a stop that notifies or by the end of the period |
| thread `updating` | `reload_tzdb`, which may throw, up to three times |
| thread `caching`, `deriving` | the two assignments to the cache |

A restart can hang: the owner joins the old thread while it holds `timeMutex`,
which that thread needs to wake up or to begin (`Stuck`). `Terminated` allows
the model to stop there; that is a hazard of the list, and the properties are
about everything else.

### PatternParser, TimeFields, MessageLine

`PatternParser` is `ParseUserPatternForSpec` and what it calls, as operators on
the rest of a pattern. `TimeFields` is `FormatterArgs.cpp`: a field is a record
of its class, its value (precision, width, text), the *key* it compares the
next message with, and the text it keeps. `Construct` makes one, `After` is
`UpdateInternalView`, `Shown` what `FormatUserPattern` appends. A text is a
sequence of tokens, a name or a number of two digits being one; subsecond digits
and thread ids are one token each.

`MessageLine` composes them. `status` is `constructing` or `parsing` while
`StoreFormat` goes through the pattern (`StoreFlag`, `StoreUnknownFlag`,
`StoreText`, `PatternStored`: a turn of the loop each), else `ready`, `gone`
after a constructor that threw, or `stuck` once `SetLocale` has locked
`baseMutex` twice. `LogMessage` is the whole of it, from the level through
`UpdateCache` to the printed `line`; `RefuseMessage` is one whose arguments
cannot be formatted, after level, source and time were changed. The locale
itself is not a state.

### SpecParser, TimeText, FieldText, ArgFormat, StdFormat

`SpecParser` is the parser of one replacement field: a record that every
`Verify...` operator reads and advances (position, specification so far,
argument counter, index mode, error). Indexes, widths and precisions have two
digits (`MaxArgCountAssumption`: an index is below 100), and `timeSpec` has
`MaxTimeSpecs` entries. `TimeText` gives what a time
specification writes, once as the code writes it and once as the standard says.
`FieldText` formats one argument into the buffer of the formatter and from
there into the output. Numbers are sequences of digits and a few tokens. A
floating point number is its sign and how many digits it has on each side of the
point, at least one of them in front; a digit is a token that says on which side
it is, so that a separator in the wrong place shows. A pointer has its
hexadecimal digits. The buffer has `BufferSize` characters; what is left in it by
a text that is longer is `Past`, a character nothing relies on, and so is what
`LocalizeBool` copies, the text of a string that is destroyed before it is read.

`ArgFormat` is the object. `se_format` captures the arguments of a call and
empties the buffer, and each turn of `ParseFormatString` is a step: text and one
field written (`SubstituteSimple`, `FormatSpecified`, `FormatTime`,
`FormatCustom`), the end reached (`WriteRest`, `WritePair`), or an error
(`ReportError`, which keeps the time specifications read before it). What the
calls share is state: the types of arguments
beyond the first seven (the `memset` counts bytes), the time specifications,
the buffer. `StdFormat` models no code of Serenity. It is the reference: items
(text, or a field with position and specification) are rendered to the format
string the code is given, and `Meaning` is what `std::format` writes for them.

### Utf

A conversion is `Convert` and then one step per turn of its loop; from UTF-8,
where the loop has an inner one, a step per byte. Conversions are chained on
their own results as `Sandbox.cpp` does. The build is a release build:
`UTF_ASSERT` is empty. `WCharSize` is 2 or 4, which `U16ToU32` asks for. A
trailing byte that is none moves the position past the count of bytes due, so
that the loop may read behind the text (`overread`).

### Faulty variants

Operators marked "Faulty variant" are plausible bugs of the operator they stand
before: a lock not taken, a notification missing, an off-by-one. No action uses
them. Putting one in the place of its original breaks a property, which shows
that the property depends on that piece of code; `mutants` of PROJECT.json lists
the pairs.

## 4. Runs

Passing runs of `MCFileTarget`:

| run | instance | shows |
|---|---|---|
| `FileTarget_threadless` | 2 writers, 2 messages each of 1 or 2 bytes, page of 2, all policies without the flush thread, changed at will | types; no race; nothing lost or reordered; less than a page buffered; `always` leaves nothing buffered; destruction leaves everything in the file; `AppendLog` implemented |
| `FileTarget_timed` | 2 writers, 2 messages, 2 workers, policy switched between time based and never | the handshake does announce a flush (`FlushAnnounced`), logging threads never race with each other, nor two flushes (`RacePartners`); while `flushThreadEnabled` is true the flush thread is the current one, runs and is not asked to end, except between the stores of `StopBackgroundThread` (`EnabledThreadRuns`); bytes are conserved up to a race |
| `FileTarget_live` | one writer with 2 messages, one worker, renames that succeed at any time | `LogMessage`, `RenameFile` and the destructor return; what is buffered is flushed though nothing more is logged |

Two writers are enough for the handshake because its flags do not count: a third
writer repeats what the second does to `threadWriting`. Two workers are needed
for a restart (the old and the new thread). A page of 2 with messages of 1 and 2
bytes fills a page exactly, partly, and across a boundary. `MaxDisk` bounds what
a race can repeat.

Passing runs of `MCRotation`:

| run | instance | shows |
|---|---|---|
| `Rotation_quiet` | limit 4, messages of 1, 2, 4, three files | no file over the limit, no more files than allowed; without truncation no byte is lost or repeated up to and with the destruction of the target, except that a destructor which rotates drops what is buffered, less than a file (`NoLoss`) |
| `Rotation_flushed` | limit 4, messages of 1, 3, 4, one or two files, flush and `RotateFile` between messages | the believed file size is exact, the distance to the limit does not wrap, files stay below twice the limit |
| `Rotation_calls` | `app` and `app2` in one directory, limit 1, messages of 0 and 3, one or two files, both kinds of mode, all calls | the state stays well typed; the file that was open survives a rotation, unless the write times do not tell it from the others (`Indistinct`) |

A limit of 4 lets a file be filled by one message, by several, and across two;
a message of 3 with limit 1 leaves a remainder
longer than a file, the next message meets a wrapped subtraction, and an empty one
meets a buffer below the limit. The directory of `Rotation_calls` has more names than
either base may use, so rotation replaces files of both.

The other passing runs:

| run | instance | shows |
|---|---|---|
| `ZoneThread` | periods winter, summer, winter; 3 threads | types; a thread listens to its own stop source; what the mutex protects belongs together; nobody waits on a destroyed condition variable; a thread called active and gone has used up its attempts; destruction returns; the cache follows the clock |
| `MessageLine` | 4 readings of the clock, 14 patterns, 3 messages of which one is refused | a cached text belongs to its key; a line is about its own message; a line is what its pattern means |
| `ArgFormat` | one call, or three in a row, on one formatter | what `std::format` takes is taken, and written the same; every turn of the loop uses up a part of the format string or is the last |
| `Utf` | boundary code points in texts of one to three, and malformed texts; 4 conversions in a row | units fit their encoding; the result encodes the same text; the reserved length is exact; every conversion ends |

`ZoneThread`: three threads are two restarts, so a thread that replaces one that
replaced another. Three periods make the flag of daylight savings change both
ways while an update is under way.

`MessageLine`: the readings are two seconds apart in one minute at noon, then on
a morning of the next month, then an afternoon in summer of the next year on the
same day of the month as the one before. So each cache meets a message that differs
in its key, and one that differs in everything else. The patterns hold every
flag, with and without specifications, texts that look like specifications, an
unknown flag, and the empty pattern; in between levels, colours, consoles, the
locale and the pattern are changed.

`ArgFormat`: families of calls that each vary one part of a format string over
all its forms: up to three fields with automatic and manual positions; every
fill, alignment, sign, `#`, `0`, width, precision, `L` and type of integers and
of the other types, as far as the type takes them; every time specification on
three dates (New Year's day at 0 h, the last day of a leap year, a day in July);
up to three fields of different kinds after one another; up to four characters
of any kind between brackets; and three calls in a row of eight that
leave something behind (a manual index, an error, a time specification, a full
buffer, a custom argument). A field depends on what is before it only through
the members of the formatter, which a sequence of three fields or calls fills,
changes and reads.

`Utf`: the code points on both sides of every boundary between two lengths in
any encoding. A conversion treats a character without regard to the one before
except by its position and `cpLength`, which pairs and triples cover. Four
conversions are the longest chain of `Sandbox.cpp:471`.

Fairness. `FileTarget`: `WriterStep`, `WorkerStep` and `OwnerStep` are weakly
fair: the operating system schedules every thread. Strong fairness is assumed
where a thread waits for something that others take and give back over and over:
`flushComplete` (`AwaitFlushComplete`) and `fileHelperMutex` (`LockToFlush`,
`OpenFile`). The flush thread sleeps for `flushEvery` between two flushes,
milliseconds to minutes, during which both are free, and a waiter is notified.
`fileMutex` needs none: only writers take it and the number of their messages
is finite. Nothing is assumed of the application: it may stop logging or never
destroy the target. `ZoneThread`: the same, a call that has begun goes on
(`InCall`) and every thread is scheduled; `timeMutex`, which an application may
take again and again by starting and stopping, is got in the end by a thread
that begins or wakes. Nobody has to call anything and the clock may stand.
`Utf`: a conversion that was called goes on.

Counterexample runs, each a disagreement between the code and its own
documentation, comments or tests; the quoted lines are under `findings`:

| run | what happens |
|---|---|
| `FileTarget_x_race` | without multi-threading support, a write and a background flush that both shake hands meet in the buffer (`HandshakeProtects`): the flush thread finds `threadWriting` down, the writer finds `flushComplete` up, and then each sets its own flag |
| `Rotation_x_flushed` | after a flush, the part of a split message for the old file is dropped |

Other states the models reach and the documentation does not expect; the
constants that lead there, each in the place of those of a run above:

- `NoDataRace` with the constants of `FileTarget_x_race`: the destructor has
  disabled the flush thread, its flush does not shake hands, and it meets the
  first flush of that thread.
- `LogMessageReturns` with a level based policy: a flush under `fileMutex` waits
  for a writer that waits for `fileMutex`.
- `LogMessageReturns` with two workers and policies switched between time based
  and never: `cleanUpThreads` is taken back, and the start joins a thread that
  never ends.
- `DestructorReturns` with `MoveOutcomes` containing `FALSE`: a rename that throws
  leaves the flush thread paused, and the destructor joins it.
- `AlwaysFlushed` with `Policies <- {TimeBased, Always}`: stopping the flush thread
  turns the policy into `never`, so `always` flushes one message.
- `Conserved` with `MoveOutcomes = {TRUE}` and two writers: `CloseImpl` clears a
  buffer another thread has just filled.
- `Rotation_quiet` reaches `dropped`: the destructor counts the buffer twice, rotates
  and drops it.
- `PreviousKept` without `Indistinct`: with every number in use and files written
  within a tick, the one just closed may be the first found, is removed and opened
  anew.
- `FilesWithinLimit` with `Calls = {"flush"}`: a flushed file gets a whole limit on top.
- `NoLoss` with `Modes = {"interval"}`: rotation by time drops what is buffered.
- `FileCountBounded` with `DefaultMax` above `Maxima`: a restarted target opens
  a file too many before its limits are set.
- A deadlock of `ZoneThread` with `Stuck` taken out of `Terminated`: a restart
  joins, under `timeMutex`, a thread that waits for it.

Where formatting is known to print something else, a property would only repeat
it. `Diverges` of each module names those cases, and the properties are
about all others. For an item of a pattern (`MessageLine`):

- `%b`, `%h` and `%m` compare the cached month with the weekday or with a month
  counted from 1, and are made anew at the wrong time;
- `%r`, `%z` and `%Z` keep the text of the time they were built at;
- `%T` has no colon before the seconds once the hour or minute has changed, `%X`
  and `%Y` print the time and the date for each other, `%B` is not found;
- `%n`, `%D`, `%x` and `%F` compare the day of the month only, and stay as they
  are after a whole number of months or years;
- at the end of a pattern `ParseUserPatternForSpec` returns before it sets a
  default: a `%e` there shows no subsecond digits, a `%s` nothing;
- the source flag of `%s` is never reset, so a second `%s` or pattern adds to it;
- `%e:0` is taken for no precision and shows three digits; `%t:0` and numbers above
  10 are not limited to ten digits (the guard asks for the index of `%r`);
- `%s` with the file, the function and one of line and column shows the other too;
- `%w` pads its digit with a `0` and a NUL, `%%` stays two signs, `%I` at midnight is 00.

The names of levels are those of the table; the comment beside `%L` writes them in
capitals.

For a replacement field (`ArgFormat`):

- a width or precision of three digits is refused; `:` as a fill becomes a
  blank, and `%` as the fill of a time is read as the start of its specifications;
- a binary number with sign and prefix, one grouped by locale or the text of a time
  that is longer than the buffer; more specifications of a time than `timeSpec` has entries;
- a `{}` right behind another field at the end of the format string prints
  argument 0; the digits of a precision advance the argument counter; an
  alignment without a fill is refused; automatic and manual positions may be
  mixed; a nested width appends `}`, and a nested argument that is not an `int`
  is a null dereference;
- integers: `0` fills with blanks; `+` on a negative number writes both signs;
  a prefix stands before the sign; `#o` prefixes 0; `c` writes a number; `L`
  groups from the wrong end when digits are left over in twos, and counts sign
  and prefix as digits;
- floating point: without a type but with width, sign or `L` the general form is
  taken, which shows with more than six digits in front of the point; `#` is
  scientific or not heeded; `L` groups the digits behind the point along with those in
  front; a text longer than the buffer;
- `bool` with `L` and a width, or as a number, is copied from a string that is gone;
  `bool` and `char` as numbers and pointers
  are aligned left; a precision of a text longer than the text reads behind it
  or one shorter fills too little;
- time: a width without alignment is not heeded; one localized specification is
  written from an empty buffer; `%D %x %F %r %U %V %g %G %n %t %z` always differ, `%c`
  before the tenth of a month, `%I` at hour 0, `%y` before 1900; what an earlier field left in the
  buffer is written again before a time.

For a text (`Utf`): `cp -= static_cast<char16_t>(0x10000)` subtracts 0, so every
surrogate pair is wrong and 0x10000 itself is one unit 0; `U16ToU8` replaces every
unit above 0xDBFF, passes no pair and drops what stands behind a lone high surrogate;
`cpLength` is kept after an illegal or incomplete sequence and a bad trailing byte may
lead behind the end of a malformed text.

## 5. Proofs

What TLC shows for small instances the theorems show for all: any number of
threads, files, messages, characters, any limits and texts. They rest on the
assumptions the modules name (`ThreadsAssumption`, `InputsAssumption`,
`RotationAssumption`, `MessageAssumption`, ...) and on the hypothesis a theorem
states. Each run extends the module with the assumptions, so TLC evaluates them.

### File targets (`FileTarget_proofs`)

For any finite or infinite sets of threads, any page and message sizes, any
policies. The kinds of thread are disjoint; without multi-threading support
there is one writer.

- `TypeCorrect`. The conjuncts of `TypeOK` are proved one after the other
  (contents, flags, control, places). `PlacesType` also says that a thread in
  `Flush` returns to a place of its own kind, without which no type would be
  inductive.
- `MutexesHeld`. Each mutex is held exactly by the thread inside the sections
  it protects. `RacesNeedTheWorker` follows from both: with multi-threading
  support logging threads never meet in the buffer and two flushes never meet,
  under every policy, rename and restart.
- `BufferStaysBounded`, under every policy and with the flush thread. A write
  flushes first what would not fit. The step needs that a torn critical section
  means a race was recorded (`RacedInv`), and is otherwise the arithmetic of
  `WriteToFile`.
- `NothingLostUnraced` and `DestroyedCompleteUnraced`, under `NeverRenamed` (no
  rename, opening succeeds). `KeptInv` says that the file is open exactly
  until the destructor has closed it, that the destructor's flush leaves the
  buffer empty up to the close, and `Conserved`. That nothing is written behind
  that flush is `SettledInv`: once destruction has begun every writer is idle.
- `EnabledIsTrue`. `StopInv` says that `StopBackgroundThread` goes on only where
  the flush thread is enabled, and that the owner calls it in the destructor only,
  when every writer is idle; so one thread at a time is between its stores, which
  is the exception the property makes. The rest is inductive only with what happens
  while the flush thread is replaced (`RunsInv`): there is at most one worker that runs and is not yet
  `flushThread`, a writer waits at the join for it, and until then the flags are
  down and it has not ended.
- `FlushesAnnounced`, under `OneHandshaker` (no rename, no level based flush).
  `AnnounceInv`: only the current flush thread shakes hands; writers are in a
  flush only with the thread disabled, and nothing is enabled once destruction
  has come past `StopBackgroundThread`. With a level based flush beside the flush thread the property is
  false: the first of two flushes to end sets `flushComplete` for the other.
- `ThreadlessHolds`, `ThreadlessTargets`, `ThreadlessDestroyed`, under
  `Threadless` (no time based policy, no rename, opening succeeds).
  `ThreadlessInv` is inductive with the mutexes: no thread ever takes part in
  the handshake, the owner leaves `own` only to destroy the target and then
  every writer is idle, so whoever enters the buffer is alone. It contains
  `disk \o buffer = accepted`.
- `AlwaysFlushes`, under `Threadless`. `AlwaysInv`: the policy applied is the one
  installed, since nothing stops a flush thread; and from an `always` flush to the
  return of its message the buffer is empty, since the thread still holds
  `fileMutex` and nobody else can write.
- `ThreadlessRefinesLog`. Under the same assumption every step extends the log
  or leaves it alone, so `FileTarget` implements `AppendLog`.

### Rotating targets (`Rotation_proofs`)

For any limits, maxima, names and message sizes. On file size (`SizeMode`):

- `BeliefIsExact`. `SizeInv` adds to `BeliefExact` that the counts are naturals
  and the open file exists. The argument needs that a message which fits never
  fills the buffer (the buffer holds no more than the file is believed to), and
  that a remainder is split by what the file is believed to have.
- `FilesStayBelowTwice` and `DistanceNeverWraps`, if the limit is set once and no
  message is longer (`SteadyLimit`). A file holds less than the limit until it is
  filled and gets at most one limit then; a remainder is shorter than the limit,
  so it is buffered whole.
- `QuietTargetsKeepEverything` and `QuietFilesWithinLimit`, if nothing else is
  called (`Calls = {}`). Then the open file is empty until it is filled with
  exactly the limit, so no file is over the limit, and every byte is in a file or
  the buffer up to the destructor (`QuietInv`). That writes what is buffered, or
  rotates and drops it: less than a file, since the buffer is below the limit, and
  not nothing, since an empty one does not make it rotate.

In every mode and with any calls:

- `FilesTyped`. A rotation always finds a file (`FileToOpen`): some number is free,
  or a file has the name, and of the write times of those that do one is the least.
  `FilesInv` adds that the open file was written in the tick in which it was
  opened, or later.
- `OpenFileKept`. The first free number is not that of a file (`NextIsNotOpen`). If none is
  free and a file with the name was last written before the open one was opened,
  the least write time is not that of the open one.
- `NoMoreFiles`, with one base name and one maximum, not below the default
  (`OneDirectory`). `NumbersInv` goes by names: every file is numbered from 1 to
  the maximum, and there are no more such names than the maximum.

### Time zone thread (`ZoneThread_proofs`)

For any number of periods and threads: `Typed`, `Token`, `Whole`, `CvUnused` and
`Active`, from one invariant. `Locks` says what the owner and a thread may be
doing when they hold the mutex; `Threads`, which threads exist and that the one
being assigned cannot have begun, since the owner holds the mutex until it is
stored (this gives `OwnToken`); `Stops`, that every thread but the current one
was asked to stop, and that the current one is asked and notified before `cv`
goes; `Savings` and `Tries`, what an update leaves behind.

### Messages (`MessageLine_proofs`)

For any patterns, instants, messages and calls: `Caches`, `Lines` and
`PatternsMean`. The invariant of the first two has three parts: each field is a record whose text is that of its key
(`FieldsOK`); the cached time is the time of one instant, the one whose second
was remembered (`TimeOK`), from which a cache that is not made anew is that of
the present second; and what was printed last (`LineOK`). `Constructed`,
`UpdatedView` and `Formatted` say that a field is built, brought up to date and
formatted with its key and text in step. `MessageAssumption` says that the
clock does not give two times for one second.

`PatternsMean`: a line says what its pattern means, part by part and as the comments
on the flags have it, outside the cases `Diverges` names. The proof follows the parser through the pattern.
`PatternInv` says that each field taken so far stands for its item (`Stands`),
that what is left to parse is the text of the items behind them (`Taken`), that the
source flag is what it was before the pattern as long as no `%s` was taken, and
that the text of a field for a day is that of an instant with its key (`Made`).

- `SpecParsed` says what `ParseUserPatternForSpec` reads in front of any text that
  may follow an item: a number for `%e` and `%t`, the flags of `%s` or nothing
  (`PrecisionParsed`, `SourceParsed`, `NoSpecParsed`). `FlagFound` sets the tables
  of flags and classes side by side.
- `AsNew`: a field that was kept from earlier lines shows what one built for this
  line would.
- `PatternAssumption` says that patterns are sequences of items. A letter is a
  character, and so never the entry `" %B"`, which is three characters in
  `allValidFlags` where the others are one.

The proof did not go through for a `%e` or `%s` that ends its pattern: nothing is
read behind it and the field keeps what the code had, which is why `Diverges` has
these two cases.

### Formatting arguments (`ArgFormat_proofs`, `ArgFormatText_proofs`)

For any sequences of calls, any arguments and any digits, fills, widths, precisions
and times, on a formatter that keeps what earlier calls left in it.

- `LoopAdvances`: for every format string, well-formed or not, a turn of the loop of
  `ParseFormatString` makes what is left of it shorter or is the last one. The
  lemmas say where the first bracket of a text is found and that what is taken in
  front of it, or of the closing one, is not empty.
- `NeverRefused`: a call that `std::format` takes ends without an error and without
  reading what is not there, outside the cases `Diverges` names. `AcceptInv`
  says that the arguments of the call are captured (`CallInv`) and that a promised
  call stands behind one of its items (`Place`): what is left is the text of the
  items behind it, and while an automatic field is among them the mode is
  automatic and the counter is the number of fields in front. A turn goes
  from one place to the next (`Turn`).
  It is built from what the parser reads in front of any rest: `PositionRead` for the
  position, `SpecRead` and `TimeSpecRead` for a specification, part by part in the
  order of `Parse`, `FieldFound` for the brackets of a field.
- `WritesAsStdFormat`: what such a call writes is what `std::format` writes.
  `AsStdInv` adds to `AcceptInv` that the output followed by the meaning of the
  items behind the loop is the meaning of them all (`MeantSoFar`), and that nothing is
  in the buffer while a time is to come, since a time is appended to it.
  `FieldAsMeant` has a lemma for each kind of argument: `IntField`, `BoolField`,
  `CharField`, `TextField`, `FloatField`, `PointerField`, `TimeField`. They do not ask
  what the buffer held before: each writes its digits in front and its size.
  Digits are those of `Quotients`, which every number uses up (`PlacesExist`);
  `GroupingShown` compares the separators the code inserts from the front with
  those of the standard from the back; `TimeSame` goes through the specifications of
  a time.
  The hypothesis `Grouping = <<3>>` is that of the run: the reference `Grouped` is
  written for groups of one length.

The proofs failed first, for good reasons, at the lengths: widths and precisions of
three digits, the fills `:` and `%`, and whatever does not fit the buffer or
`timeSpec`. No family of the run reached these; `FieldDiverges` names them now.

### Conversions (`Utf_proofs`)

- `CharacterU8`: for every code point what is written as UTF-8 is one legal
  sequence and decodes to the same code point, by the four lengths of a
  sequence. `ReservedEach`: as many bytes are reserved for a unit of UTF-32 as
  are written, legal or not. `PairsDiffer`: UTF-16 is written as the standard
  says exactly for the code points below 0x10000.
- `Types`: whatever the texts, the units written fit their encoding and trailing
  bytes are read only while some are due.
- `ConvertsAsUnicode`: for texts of any length and any chain of conversions. The
  invariant (`Follows`) relates the position to a count of characters: the
  first `k` of the code points are written, and what is left of the source is
  the encoding of the others, up to the bytes of a character that is under way.
- `ReservesExactly`: after each unit of UTF-32 as much is written as is reserved
  for the units taken (`ReserveInv`).

### Induction

`InductionLemmas` has what the proofs over texts share. The induction theorems of
the library take an operator; here induction is over sets: a set of numbers
with 0 and the successor of each member has all of them (`InductionUpTo`), from the
fact that a set of naturals that is not empty has a least member. With it a
concatenation (`Flattened`) and a sum are unfolded into their steps.

### What stays with TLC

Liveness under fairness: `LogMessageReturns`, `DestructorReturns` and the like,
which the provers cannot reach. `FlushAnnounced`, `Conserved`, `DestroyedComplete`
and `AlwaysFlushed` beyond the hypotheses above; `FileCountBounded` and the
limits of file sizes likewise, where they fail without them (section 4).
`AsStdFormat` in a locale that groups other than by threes is covered by neither.

## 6. What is not modelled

- `RotatingTarget`: which moment an hourly to monthly rotation picks (`Rotation`
  leaves it open), and rotation with the flush thread step by step: a call is one
  step of `Rotation`, and the handshake is examined on `FileTarget`. Two targets
  with the one static `originalPrimaryMode`; `SetRotationSetting`, which changes a
  copy and so nothing; `numberStr` beyond 99 files, and a maximum of 0.
- Several threads in `LogMessage`: it writes level, time, buffers and fields
  without a lock, a data race from its first line on. `MessageLine` has one
  thread that logs.
- The time mode (`SetTimeMode`, for derived targets only), the zone database
  between two reloads, and the reference `TimeZoneAbbrev` returns.
- In `ArgFormatter`, `char16_t` and `char32_t` texts and containers, which
  digits a floating point number has, and those below 1, infinities and NaN. In
  `UtfHelper`, `DetectBom`, `IsValidU8`,
  the length hint for UTF-16 and the starting position.
- Opening fails only in `FileTarget`, and a `WRITE` never fails or is partial:
  the code looks at no result. Signals and process crashes are left out: nothing
  is recovered from a file at start except that it exists.
- The console of Windows, the destructor of the console target, the tables of
  `Color` and the file system wrappers of `Utilities`, which have no state.
- The programs in `Sandbox`, `Demos`, `bench` and `tests`, which use the library.
