--------------------------- MODULE Rotation_proofs ---------------------------
(***************************************************************************)
(* Theorems about the sizes RotatingTarget works with when it rotates on    *)
(* file size, and about the files it chooses in any mode, for any limits,   *)
(* message sizes, names and numbers of files.                               *)
(***************************************************************************)
EXTENDS Rotation, InductionLemmas, FiniteSetTheorems, TLAPS

(* Rotation on file size only, never disabled.                              *)
SizeMode == Modes = {"file_size"} /\ "enable" \notin Calls

(* The limit is set once, and no message is longer.                         *)
SteadyLimit == \A l \in Limits : /\ \A m \in Limits : l = m
                                 /\ \A n \in MsgSizes : n <= l

(* What BeliefExact needs to be inductive: the counts are numbers, the open *)
(* file exists, and the mode stays file_size.                               *)
SizeInv ==
    /\ rotationEnabled = TRUE /\ m_mode = "file_size"
    /\ fileSizeLimit \in Limits /\ truncateMessage \in BOOLEAN
    /\ buffered \in Nat /\ currentFileSize \in Nat /\ logged \in Nat /\ stored \in Nat
    /\ size \in [present -> Nat]
    /\ life = "live" => fd \in present
    /\ BeliefExact

SteadyInv == LimitHeld /\ FilesBelowTwice

(* Without flushes the open file stays empty until it is filled.            *)
QuietInv ==
    /\ life = "live" => size[fd] = 0 /\ ~dropped
    /\ FilesWithinLimit /\ NoLoss

(* A limit is a positive number.                                            *)
LEMMA LimitType == \A l \in Limits : l \in Nat /\ l > 0
BY RotationAssumption

(* A remainder fits into the number of bytes that is not in the file yet.   *)
LEMMA RemainderType ==
    ASSUME SizeInv, NEW n \in MsgSizes, ShouldRotate(n, FALSE),
           currentFileSize <= fileSizeLimit
    PROVE  /\ Remainder(n) \in 0 .. n
           /\ SteadyLimit /\ LimitHeld /\ life = "live" => Remainder(n) < fileSizeLimit
<1>1. /\ n \in Nat /\ fileSizeLimit \in Nat /\ currentFileSize \in Nat /\ fileSizeLimit > 0
      /\ currentFileSize + n >= fileSizeLimit
  BY LimitType, RotationAssumption DEF SizeInv, ShouldRotate
<1>2. SteadyLimit => n <= fileSizeLimit
  BY DEF SteadyLimit, SizeInv
<1>3. QED
  BY <1>1, <1>2 DEF Remainder, LimitHeld, SizeInv

(* What a write hands over and what it keeps.                               *)
LEMMA DrainType ==
    ASSUME SizeInv, NEW total \in Nat
    PROVE  /\ LimitDrain(total) \in 0 .. total /\ LimitErase(total) \in 0 .. total
           /\ LimitDrain(total) <= fileSizeLimit
           /\ total < fileSizeLimit => LimitDrain(total) = 0 /\ LimitErase(total) = 0
           /\ ~truncateMessage => LimitErase(total) = LimitDrain(total)
BY LimitType DEF LimitDrain, LimitErase, SizeInv

(* What opening a file does to the sizes.                                   *)
LEMMA OpenStep ==
    ASSUME size \in [present -> Nat], NEW f, NEW filled \in Nat, NEW written \in Nat,
           OpenNext(f, filled, written)
    PROVE  /\ size' \in [present' -> Nat] /\ f \in present' /\ size'[f] = written
           /\ \A g \in present' : g # f =>
                 /\ g \in present
                 /\ g # fd => size'[g] = size[g]
                 /\ g = fd => size'[g] = size[g] + filled
BY DEF OpenNext

(* A message that makes the target rotate leaves the new file and the       *)
(* buffer with its remainder.                                               *)
LEMMA AcrossStep ==
    ASSUME SizeInv, NEW n \in MsgSizes, PrintAcross(n)
    PROVE  SizeInv'
<1> DEFINE filled == LimitDrain(buffered + n)
           rest   == Remainder(n)
<1>1. n \in Nat
  BY RotationAssumption
<1>2. rest \in Nat
  <2>1. ShouldRotate(n, FALSE) /\ currentFileSize <= fileSizeLimit
    BY DEF PrintAcross
  <2>2. rest \in 0 .. n
    BY <2>1, RemainderType
  <2>3. QED
    BY <1>1, <2>2
<1>3. truncateMessage => rest = 0
  BY DEF Remainder
<1>4. /\ filled \in Nat /\ LimitDrain(rest) \in 0 .. rest /\ LimitErase(rest) \in 0 .. rest
      /\ rest = 0 => LimitErase(rest) = 0 /\ LimitDrain(rest) = 0
      /\ ~truncateMessage => LimitErase(rest) = LimitDrain(rest)
  BY <1>1, <1>2, DrainType, LimitType DEF SizeInv
<1>a. PICK next \in NextFiles(base, maxNumberOfFiles, filled) :
              OpenNext(next, filled, LimitDrain(rest)) /\ fd' = next
  BY DEF PrintAcross
<1>5. /\ present' = present \union {next} /\ fd' = next
      /\ size' = [g \in present \union {next} |->
                    IF g = next THEN LimitDrain(rest)
                    ELSE IF g = fd THEN size[g] + filled ELSE size[g]]
      /\ stored' = stored + filled + LimitDrain(rest)
      /\ buffered' = rest - LimitErase(rest)
      /\ currentFileSize' = rest
      /\ logged' = logged + n
      /\ UNCHANGED <<rotationEnabled, m_mode, fileSizeLimit, truncateMessage, life, dropped>>
  BY <1>a DEF PrintAcross, OpenNext, Logs, settings
<1> HIDE DEF filled, rest
<1>6. size' \in [present' -> Nat] /\ fd' \in present' /\ size'[fd'] = LimitDrain(rest)
  BY <1>4, <1>5 DEF SizeInv
<1>7. buffered' \in Nat /\ stored' \in Nat /\ logged' \in Nat /\ currentFileSize' \in Nat
  BY <1>1, <1>2, <1>4, <1>5 DEF SizeInv
<1>8. currentFileSize' = size'[fd'] + buffered'
  BY <1>2, <1>3, <1>4, <1>5, <1>6 DEF SizeInv
<1>9. QED
  BY <1>5, <1>6, <1>7, <1>8 DEF SizeInv, BeliefExact

(* A message that fits is appended to the buffer: nothing is written, since *)
(* the buffer holds no more than the file is believed to.                   *)
LEMMA InFileStep ==
    ASSUME SizeInv, NEW n \in MsgSizes, NEW due \in BOOLEAN, PrintInFile(n, due)
    PROVE  /\ life = "live"
           /\ buffered' = buffered + n /\ currentFileSize' = currentFileSize + n
           /\ logged' = logged + n /\ currentFileSize' < fileSizeLimit
           /\ size' = size
           /\ UNCHANGED <<present, fd, rotationEnabled, m_mode, fileSizeLimit, truncateMessage,
                          life, stored, dropped>>
<1>1. n \in Nat /\ fileSizeLimit \in Nat /\ fd \in present /\ size[fd] \in Nat
  BY RotationAssumption, LimitType DEF PrintInFile, Logs, SizeInv
<1>2. currentFileSize + n < fileSizeLimit /\ buffered + n <= currentFileSize + n
  BY <1>1 DEF PrintInFile, Logs, ShouldRotate, SizeInv, BeliefExact
<1>3. LimitDrain(buffered + n) = 0 /\ LimitErase(buffered + n) = 0
  BY <1>1, <1>2, DrainType DEF SizeInv
<1>4. size' = size
  BY <1>1, <1>3 DEF PrintInFile, AppendBytes, SizeInv
<1>5. QED
  BY <1>1, <1>2, <1>3, <1>4 DEF PrintInFile, AppendBytes, Logs, settings, SizeInv

(* Every step keeps the believed size exact.                                *)
LEMMA SizeStep ==
    ASSUME SizeMode, SizeInv, [Next]_vars
    PROVE  SizeInv'
<1> USE DEF SizeInv, BeliefExact
<1>1. CASE UNCHANGED vars
  BY <1>1 DEF vars, directory, time, names, settings, counts, history
<1>2. ASSUME NEW b \in Bases, Construct(b) PROVE SizeInv'
  <2>1. PICK f : OpenNext(f, 0, 0) /\ fd' = f
    BY <1>2 DEF Construct
  <2>2. size' \in [present' -> Nat] /\ fd' \in present' /\ size'[fd'] = 0
    BY <2>1, OpenStep
  <2>3. /\ rotationEnabled' = TRUE /\ m_mode' = "file_size"
        /\ fileSizeLimit' \in Limits /\ truncateMessage' \in BOOLEAN
        /\ buffered' = 0 /\ currentFileSize' = 0 /\ logged' = 0 /\ stored' = 0
        /\ dropped' = FALSE
    BY <1>2, RotationAssumption DEF Construct, SizeMode
  <2>4. QED
    BY <2>2, <2>3
<1>3. ASSUME NEW n \in MsgSizes, NEW due \in BOOLEAN, PrintInFile(n, due) PROVE SizeInv'
  <2>1. n \in Nat
    BY RotationAssumption
  <2>2. /\ buffered' = buffered + n /\ currentFileSize' = currentFileSize + n
        /\ logged' = logged + n
        /\ UNCHANGED <<size, present, fd, rotationEnabled, m_mode, fileSizeLimit,
                       truncateMessage, life, stored, dropped>>
    BY <1>3, InFileStep
  <2>3. BeliefExact'
    BY <2>1, <2>2
  <2>4. QED
    BY <2>1, <2>2, <2>3
<1>4. ASSUME NEW n \in MsgSizes, PrintAcross(n) PROVE SizeInv'
  BY <1>4, AcrossStep
<1>5. ASSUME NEW n \in MsgSizes, PrintThrows(n) PROVE SizeInv'
  BY <1>5, RotationAssumption DEF PrintThrows, Logs, settings, counts, directory
<1>6. ASSUME NEW n \in MsgSizes, PrintOnInterval(n) PROVE FALSE
  BY <1>6 DEF PrintOnInterval
<1>7. CASE Flush
  BY <1>7 DEF Flush, AppendBytes, settings
<1>8. CASE RotateFile
  BY <1>8 DEF RotateFile, OpenNext, settings, history
<1>9. ASSUME NEW b \in Bases, RenameFile(b) PROVE SizeInv'
  <2>1. /\ life = "live" /\ UNCHANGED <<settings, life, history>>
        /\ buffered' = 0 /\ currentFileSize' = 0
    BY <1>9 DEF RenameFile
  <2>2. PICK next : OpenNext(next, 0, 0) /\ fd' = next
    BY <1>9 DEF RenameFile
  <2>3. size' \in [present' -> Nat] /\ fd' \in present' /\ size'[fd'] = 0
    BY <2>2, OpenStep
  <2>4. QED
    BY <2>1, <2>3 DEF settings, history
<1>10. CASE EnableRotation
  BY <1>10 DEF EnableRotation, SizeMode
<1>11. CASE Reconfigure
  BY <1>11, RotationAssumption DEF Reconfigure, SizeMode, directory, names, counts, history
<1>12. ASSUME NEW due \in BOOLEAN, Destroy(due) PROVE SizeInv'
  <2>1. life' = "none" /\ buffered' = 0 /\ life = "live"
        /\ UNCHANGED <<settings, currentFileSize, logged>>
    BY <1>12 DEF Destroy
  <2>2. stored' \in Nat /\ size' \in [present' -> Nat]
    <3>1. CASE ShouldRotate(buffered, due)
      <4>1. PICK next : OpenNext(next, 0, 0)
        BY <1>12, <3>1 DEF Destroy
      <4>2. stored' = stored
        BY <1>12, <3>1 DEF Destroy
      <4>3. size' \in [present' -> Nat]
        BY <4>1, OpenStep
      <4>4. QED
        BY <4>2, <4>3
    <3>2. CASE ~ShouldRotate(buffered, due)
      <4>1. /\ stored' = stored + buffered /\ present' = present
            /\ size' = [size EXCEPT ![fd] = @ + buffered]
        BY <1>12, <3>2 DEF Destroy, AppendBytes
      <4>2. size[fd] + buffered \in Nat
        BY <2>1
      <4>3. stored' \in Nat
        BY <4>1
      <4>4. [size EXCEPT ![fd] = @ + buffered] \in [present -> Nat]
        BY <4>2
      <4>5. QED
        BY <4>1, <4>3, <4>4, Zenon
    <3>3. QED
      BY <3>1, <3>2
  <2>3. QED
    BY <2>1, <2>2 DEF settings
<1>13. CASE Tick
  BY <1>13 DEF Tick, directory, names, settings, counts, history
<1>14. QED
  BY <1>1, <1>2, <1>3, <1>4, <1>5, <1>6, <1>7, <1>8, <1>9, <1>10, <1>11, <1>12, <1>13 DEF Next

(* A target starts with it.                                                 *)
LEMMA SizeInit == Init => SizeInv
BY DEF Init, SizeInv, BeliefExact

(* The file size a target in file_size mode believes in is exact, with any  *)
(* mixture of messages, flushes, rotations, renames, limits and restarts.   *)
THEOREM BeliefIsExact ==
    ASSUME SizeMode
    PROVE  Spec => []BeliefExact
<1>1. SizeInv /\ [Next]_vars => SizeInv'
  BY SizeStep
<1>2. SizeInv => BeliefExact
  BY DEF SizeInv
<1>3. QED
  BY <1>1, <1>2, SizeInit, PTL DEF Spec

-----------------------------------------------------------------------------
(* With one limit, messages no longer than it, and an exact belief, opening *)
(* a file and filling the one before with at most the limit keeps every     *)
(* file below twice the limit.                                              *)
LEMMA OpenBelowTwice ==
    ASSUME SizeInv, SteadyInv, NEW f, NEW filled \in Nat, filled <= fileSizeLimit,
           life = "live" \/ filled = 0,
           OpenNext(f, filled, 0), fileSizeLimit' = fileSizeLimit
    PROVE  FilesBelowTwice'
<1>1. fileSizeLimit \in Nat /\ fileSizeLimit > 0
  BY LimitType DEF SizeInv
<1>2. SUFFICES ASSUME NEW g \in present' PROVE size'[g] < 2 * fileSizeLimit
  BY DEF FilesBelowTwice
<1>3. CASE g = f
  BY <1>1, <1>3, OpenStep DEF SizeInv
<1>4. CASE g # f
  <2>1. /\ g \in present /\ size[g] \in Nat /\ size[g] < 2 * fileSizeLimit
        /\ g # fd => size'[g] = size[g]
        /\ g = fd => size'[g] = size[g] + filled
    <3>1. size \in [present -> Nat] /\ FilesBelowTwice
      BY DEF SizeInv, SteadyInv
    <3>2. /\ g \in present
          /\ g # fd => size'[g] = size[g]
          /\ g = fd => size'[g] = size[g] + filled
      BY <1>2, <1>4, <3>1, OpenStep
    <3>3. QED
      BY <3>1, <3>2 DEF FilesBelowTwice
  <2>2. g = fd /\ life = "live" => size[g] < fileSizeLimit
    BY <1>1, <2>1 DEF SizeInv, BeliefExact, SteadyInv, LimitHeld
  <2>3. QED
    BY <1>1, <2>1, <2>2
<1>5. QED
  BY <1>3, <1>4

(* Every step keeps the files below twice the limit, the open one with its  *)
(* buffer below the limit.                                                  *)
LEMMA SteadyStep ==
    ASSUME SizeMode, SteadyLimit, SizeInv, SteadyInv, [Next]_vars
    PROVE  SteadyInv'
<1>1. /\ fileSizeLimit \in Nat /\ fileSizeLimit > 0 /\ fileSizeLimit' = fileSizeLimit
      /\ SizeInv'
  BY LimitType, SizeStep DEF SizeInv, SteadyLimit
<1>2. CASE UNCHANGED vars
  BY <1>2 DEF vars, directory, time, names, settings, counts, history, SteadyInv, LimitHeld,
              FilesBelowTwice
<1>3. ASSUME NEW b \in Bases, Construct(b) PROVE SteadyInv'
  <2>1. PICK f : OpenNext(f, 0, 0) /\ currentFileSize' = 0
    BY <1>3 DEF Construct
  <2>2. FilesBelowTwice'
    BY <1>1, <2>1, OpenBelowTwice
  <2>3. QED
    BY <1>1, <2>1, <2>2 DEF SteadyInv, LimitHeld
<1>4. ASSUME NEW n \in MsgSizes, NEW due \in BOOLEAN, PrintInFile(n, due) PROVE SteadyInv'
  <2>1. currentFileSize' < fileSizeLimit /\ size' = size /\ present' = present
    BY <1>4, InFileStep
  <2>2. QED
    BY <1>1, <2>1 DEF SteadyInv, LimitHeld, FilesBelowTwice
<1>5. ASSUME NEW n \in MsgSizes, PrintAcross(n) PROVE SteadyInv'
  <2> DEFINE filled == LimitDrain(buffered + n)
             rest   == Remainder(n)
  <2>a. PICK next : OpenNext(next, filled, LimitDrain(rest))
    BY <1>5 DEF PrintAcross
  <2>1. /\ OpenNext(next, filled, LimitDrain(rest)) /\ currentFileSize' = rest
        /\ life = "live" /\ ShouldRotate(n, FALSE) /\ currentFileSize <= fileSizeLimit
    BY <1>5, <2>a DEF PrintAcross, Logs
  <2>2. n \in Nat /\ rest \in 0 .. n /\ rest < fileSizeLimit
    BY <2>1, RemainderType, RotationAssumption DEF SteadyInv
  <2>3. /\ LimitDrain(rest) = 0 /\ filled \in Nat /\ filled <= fileSizeLimit
    BY <2>2, DrainType DEF SizeInv
  <2> HIDE DEF filled, rest
  <2>4. FilesBelowTwice'
    BY <1>1, <2>1, <2>3, OpenBelowTwice
  <2>5. QED
    BY <1>1, <2>1, <2>2, <2>4 DEF SteadyInv, LimitHeld
<1>6. ASSUME NEW n \in MsgSizes, PrintThrows(n) PROVE FALSE
  BY <1>1, <1>6 DEF PrintThrows, Logs, SteadyInv, LimitHeld, SizeInv
<1>7. ASSUME NEW n \in MsgSizes, PrintOnInterval(n) PROVE FALSE
  BY <1>7 DEF PrintOnInterval, SizeInv
<1>8. CASE Flush
  <2>1. /\ life = "live" /\ size' = [size EXCEPT ![fd] = @ + buffered]
        /\ present' = present /\ currentFileSize' = currentFileSize
    BY <1>8 DEF Flush, AppendBytes
  <2>2. size[fd] + buffered < fileSizeLimit /\ fd \in present
    BY <2>1 DEF SteadyInv, LimitHeld, SizeInv, BeliefExact
  <2>3. QED
    BY <1>1, <2>1, <2>2 DEF SteadyInv, LimitHeld, FilesBelowTwice, SizeInv
<1>9. CASE RotateFile
  <2>1. PICK next : OpenNext(next, 0, 0) /\ currentFileSize' = 0
    BY <1>9 DEF RotateFile
  <2>2. FilesBelowTwice'
    BY <1>1, <2>1, OpenBelowTwice
  <2>3. QED
    BY <1>1, <2>1, <2>2 DEF SteadyInv, LimitHeld
<1>10. ASSUME NEW b \in Bases, RenameFile(b) PROVE SteadyInv'
  <2>1. PICK next : OpenNext(next, 0, 0) /\ currentFileSize' = 0
    BY <1>10 DEF RenameFile, SizeInv
  <2>2. FilesBelowTwice'
    BY <1>1, <2>1, OpenBelowTwice
  <2>3. QED
    BY <1>1, <2>1, <2>2 DEF SteadyInv, LimitHeld
<1>11. CASE EnableRotation
  BY <1>11 DEF EnableRotation, SizeMode
<1>12. CASE Reconfigure
  BY <1>1, <1>12 DEF Reconfigure, directory, counts, SteadyInv, LimitHeld, FilesBelowTwice
<1>13. ASSUME NEW due \in BOOLEAN, Destroy(due) PROVE SteadyInv'
  <2>1. life' # "live" /\ life = "live"
    BY <1>13 DEF Destroy
  <2>2. CASE ShouldRotate(buffered, due)
    <3>1. PICK next : OpenNext(next, 0, 0)
      BY <1>13, <2>2 DEF Destroy
    <3>2. FilesBelowTwice'
      BY <1>1, <3>1, OpenBelowTwice
    <3>3. QED
      BY <2>1, <3>2 DEF SteadyInv, LimitHeld
  <2>3. CASE ~ShouldRotate(buffered, due)
    <3>1. size' = [size EXCEPT ![fd] = @ + buffered] /\ present' = present
      BY <1>13, <2>3 DEF Destroy, AppendBytes
    <3>2. size[fd] + buffered < fileSizeLimit /\ fd \in present
      BY <2>1 DEF SteadyInv, LimitHeld, SizeInv, BeliefExact
    <3>3. QED
      BY <1>1, <2>1, <3>1, <3>2 DEF SteadyInv, LimitHeld, FilesBelowTwice, SizeInv
  <2>4. QED
    BY <2>2, <2>3
<1>14. CASE Tick
  BY <1>1, <1>14 DEF Tick, directory, counts, SteadyInv, LimitHeld, FilesBelowTwice
<1>15. QED
  BY <1>2, <1>3, <1>4, <1>5, <1>6, <1>7, <1>8, <1>9, <1>10, <1>11, <1>12, <1>13, <1>14 DEF Next

(* A target starts with it.                                                 *)
LEMMA SteadyInit == Init => SteadyInv
BY DEF Init, SteadyInv, LimitHeld, FilesBelowTwice

(* The distance to the limit never wraps, and whatever is flushed when, no  *)
(* file reaches twice the limit.                                            *)
THEOREM FilesStayBelowTwice ==
    ASSUME SizeMode, SteadyLimit
    PROVE  Spec => [](LimitHeld /\ FilesBelowTwice)
<1>1. SizeInv /\ [Next]_vars => SizeInv'
  BY SizeStep
<1>2. SizeInv /\ SteadyInv /\ [Next]_vars => SteadyInv'
  BY SteadyStep
<1>3. SteadyInv => LimitHeld /\ FilesBelowTwice
  BY DEF SteadyInv
<1>4. QED
  BY <1>1, <1>2, <1>3, SizeInit, SteadyInit, PTL DEF Spec

-----------------------------------------------------------------------------
(* Without calls between the messages: what is filled is what the buffer    *)
(* and the message have up to the limit, and the rest is buffered.          *)
LEMMA QuietAcross ==
    ASSUME SteadyLimit, SizeInv, SteadyInv, QuietInv, NEW n \in MsgSizes, PrintAcross(n)
    PROVE  QuietInv'
<1> DEFINE filled == LimitDrain(buffered + n)
           rest   == Remainder(n)
<1>a. PICK next : OpenNext(next, filled, LimitDrain(rest)) /\ fd' = next
  BY DEF PrintAcross
<1>1. /\ OpenNext(next, filled, LimitDrain(rest)) /\ fd' = next
      /\ stored' = stored + filled + LimitDrain(rest)
      /\ buffered' = rest - LimitErase(rest)
      /\ logged' = logged + n
      /\ fileSizeLimit' = fileSizeLimit /\ truncateMessage' = truncateMessage
      /\ dropped' = dropped
      /\ life = "live" /\ ShouldRotate(n, FALSE) /\ currentFileSize <= fileSizeLimit
  BY <1>a DEF PrintAcross, Logs, settings
<1>2. n \in Nat /\ rest \in 0 .. n /\ rest < fileSizeLimit
  BY <1>1, RemainderType, RotationAssumption DEF SteadyInv
<1>3. LimitDrain(rest) = 0 /\ LimitErase(rest) = 0 /\ filled <= fileSizeLimit
  BY <1>2, DrainType DEF SizeInv
<1>4. /\ fileSizeLimit \in Nat /\ buffered \in Nat /\ stored \in Nat /\ logged \in Nat
      /\ size \in [present -> Nat] /\ fd \in present /\ size[fd] = 0
      /\ buffered = currentFileSize /\ buffered + n >= fileSizeLimit
  BY <1>1, <1>2, LimitType DEF SizeInv, QuietInv, BeliefExact, ShouldRotate
<1>5. filled = fileSizeLimit
  BY <1>4 DEF LimitDrain
<1>6. ~truncateMessage => rest = n - (fileSizeLimit - buffered)
  BY <1>4 DEF Remainder
<1> HIDE DEF filled, rest
<1>7. /\ size' \in [present' -> Nat] /\ next \in present' /\ size'[next] = 0
      /\ \A g \in present' : g # next => /\ g \in present
                                         /\ g # fd => size'[g] = size[g]
                                         /\ g = fd => size'[g] = size[g] + filled
  BY <1>1, <1>3, <1>4, <1>5, OpenStep
<1>8. FilesWithinLimit'
  BY <1>1, <1>4, <1>5, <1>7 DEF QuietInv, FilesWithinLimit
<1>9. NoLoss'
  BY <1>1, <1>2, <1>3, <1>4, <1>5, <1>6 DEF QuietInv, NoLoss
<1>10. QED
  BY <1>1, <1>7, <1>8, <1>9 DEF QuietInv

(* Every step keeps the files within the limit and the bytes accounted for. *)
LEMMA QuietStep ==
    ASSUME SizeMode, SteadyLimit, Calls = {}, SizeInv, SteadyInv, QuietInv, [Next]_vars
    PROVE  QuietInv'
<1>1. /\ fileSizeLimit \in Nat /\ fileSizeLimit > 0 /\ fileSizeLimit' = fileSizeLimit
      /\ SizeInv'
  BY LimitType, SizeStep DEF SizeInv, SteadyLimit
<1>2. CASE UNCHANGED vars
  BY <1>2 DEF vars, directory, time, names, settings, counts, history, QuietInv, FilesWithinLimit,
              NoLoss
<1>3. ASSUME NEW b \in Bases, Construct(b) PROVE QuietInv'
  <2>a. PICK f : OpenNext(f, 0, 0) /\ fd' = f
    BY <1>3 DEF Construct
  <2>1. /\ OpenNext(f, 0, 0) /\ fd' = f /\ buffered' = 0 /\ stored' = 0 /\ logged' = 0
        /\ dropped' = FALSE /\ life = "none"
    BY <1>3, <2>a DEF Construct
  <2>2. /\ size \in [present -> Nat] /\ size' \in [present' -> Nat] /\ size'[f] = 0
        /\ \A g \in present' : g # f => /\ g \in present
                                        /\ g # fd => size'[g] = size[g]
                                        /\ g = fd => size'[g] = size[g] + 0
    BY <2>1, OpenStep DEF SizeInv
  <2>3. FilesWithinLimit'
    BY <1>1, <2>2 DEF QuietInv, FilesWithinLimit
  <2>4. QED
    BY <2>1, <2>2, <2>3 DEF QuietInv, NoLoss
<1>4. ASSUME NEW n \in MsgSizes, NEW due \in BOOLEAN, PrintInFile(n, due) PROVE QuietInv'
  <2>1. /\ life = "live" /\ buffered' = buffered + n /\ logged' = logged + n
        /\ UNCHANGED <<size, present, fd, truncateMessage, life, stored, dropped>>
    BY <1>4, InFileStep
  <2>2. n \in Nat /\ buffered \in Nat /\ logged \in Nat /\ stored \in Nat
    BY RotationAssumption DEF SizeInv
  <2>3. QED
    BY <1>1, <2>1, <2>2 DEF QuietInv, FilesWithinLimit, NoLoss
<1>5. ASSUME NEW n \in MsgSizes, PrintAcross(n) PROVE QuietInv'
  BY <1>5, QuietAcross
<1>6. ASSUME NEW n \in MsgSizes, PrintThrows(n) PROVE FALSE
  BY <1>1, <1>6 DEF PrintThrows, Logs, SteadyInv, LimitHeld, SizeInv
<1>7. ASSUME NEW n \in MsgSizes, PrintOnInterval(n) PROVE FALSE
  BY <1>7 DEF PrintOnInterval, SizeInv
<1>8. ~ Flush /\ ~ RotateFile /\ ~ EnableRotation /\ ~ Reconfigure
  BY DEF Flush, RotateFile, EnableRotation, Reconfigure
<1>9. ASSUME NEW b \in Bases, RenameFile(b) PROVE FALSE
  BY <1>9 DEF RenameFile
<1>10. ASSUME NEW due \in BOOLEAN, Destroy(due) PROVE QuietInv'
  <2>1. life' # "live" /\ life = "live"
    BY <1>10 DEF Destroy
  <2>2. CASE ShouldRotate(buffered, due)
    <3>1. PICK next : OpenNext(next, 0, 0)
      BY <1>10, <2>2 DEF Destroy
    <3>2. /\ size \in [present -> Nat] /\ size' \in [present' -> Nat] /\ size'[next] = 0
          /\ \A g \in present' : g # next => /\ g \in present
                                             /\ g # fd => size'[g] = size[g]
                                             /\ g = fd => size'[g] = size[g] + 0
      BY <3>1, OpenStep DEF SizeInv
    <3>3. FilesWithinLimit'
      BY <1>1, <3>2 DEF QuietInv, FilesWithinLimit
    <3>4. buffered \in 1 .. fileSizeLimit - 1
      BY <1>1, <2>1, <2>2
         DEF ShouldRotate, SizeInv, BeliefExact, SteadyInv, LimitHeld, QuietInv
    <3>5. ~dropped /\ dropped' = TRUE /\ UNCHANGED <<stored, logged, truncateMessage>>
      BY <1>10, <2>1, <2>2 DEF Destroy, settings, QuietInv
    <3>6. NoLoss'
      BY <1>1, <3>4, <3>5 DEF QuietInv, NoLoss, SizeInv
    <3>7. QED
      BY <2>1, <3>3, <3>6 DEF QuietInv
  <2>3. CASE ~ShouldRotate(buffered, due)
    <3>1. size' = [size EXCEPT ![fd] = @ + buffered] /\ present' = present
      BY <1>10, <2>3 DEF Destroy, AppendBytes
    <3>2. size[fd] + buffered < fileSizeLimit /\ fd \in present
      BY <2>1 DEF SteadyInv, LimitHeld, SizeInv, BeliefExact
    <3>3. FilesWithinLimit'
      BY <1>1, <3>1, <3>2 DEF QuietInv, FilesWithinLimit, SizeInv
    <3>4. /\ stored' = stored + buffered /\ buffered' = 0
          /\ UNCHANGED <<logged, dropped, truncateMessage>>
      BY <1>10, <2>3 DEF Destroy, AppendBytes, settings
    <3>5. NoLoss'
      BY <2>1, <3>4 DEF QuietInv, NoLoss, SizeInv
    <3>6. QED
      BY <2>1, <3>3, <3>5 DEF QuietInv
  <2>4. QED
    BY <2>2, <2>3
<1>11. CASE Tick
  BY <1>11 DEF Tick, directory, names, settings, counts, history, QuietInv, FilesWithinLimit,
               NoLoss
<1>12. QED
  BY <1>2, <1>3, <1>4, <1>5, <1>6, <1>7, <1>8, <1>9, <1>10, <1>11 DEF Next

(* A target starts with it.                                                 *)
LEMMA QuietInit == Init => QuietInv
BY DEF Init, QuietInv, FilesWithinLimit, NoLoss

(* Where nothing but messages, constructors and destructors touches the     *)
(* target, no file exceeds the limit and, without truncation, no byte is    *)
(* lost or written twice, except by a destructor that rotates: it drops     *)
(* what is buffered, less than a file.                                      *)
THEOREM QuietTargetsKeepEverything ==
    ASSUME SizeMode, SteadyLimit, Calls = {}
    PROVE  Spec => [](FilesWithinLimit /\ NoLoss)
<1>1. SizeInv /\ [Next]_vars => SizeInv'
  BY SizeStep
<1>2. SizeInv /\ SteadyInv /\ [Next]_vars => SteadyInv'
  BY SteadyStep
<1>3. SizeInv /\ SteadyInv /\ QuietInv /\ [Next]_vars => QuietInv'
  BY QuietStep
<1>4. QuietInv => FilesWithinLimit /\ NoLoss
  BY DEF QuietInv
<1>5. QED
  BY <1>1, <1>2, <1>3, <1>4, SizeInit, SteadyInit, QuietInit, PTL DEF Spec

(* A target whose limit is set once, and not exceeded by a message, never   *)
(* computes a distance to its limit that wraps.                             *)
THEOREM DistanceNeverWraps ==
    ASSUME SizeMode, SteadyLimit
    PROVE  Spec => []LimitHeld
<1>1. Spec => [](LimitHeld /\ FilesBelowTwice)
  BY FilesStayBelowTwice
<1>2. QED
  BY <1>1, PTL

(* Where nothing but messages, constructors and destructors touches the     *)
(* target, no file exceeds the limit: what RotatingTests.cpp expects.       *)
THEOREM QuietFilesWithinLimit ==
    ASSUME SizeMode, SteadyLimit, Calls = {}
    PROVE  Spec => []FilesWithinLimit
<1>1. Spec => [](FilesWithinLimit /\ NoLoss)
  BY QuietTargetsKeepEverything
<1>2. QED
  BY <1>1, PTL

-----------------------------------------------------------------------------
(* The open file was written in the tick in which it was opened, or later.  *)
OpenedWritten == life = "live" => opened <= lastWrite[fd]

FilesInv == TypeOK /\ OpenedWritten

(* The smallest free number is one of the free numbers.                     *)
LEMMA FreeChosen ==
    ASSUME NEW b, NEW max, Free(b, max) # {}, NEW filled, NEW f \in NextFiles(b, max, filled)
    PROVE  \E k \in 1 .. max : f = <<b, k>> /\ <<b, k>> \notin present
BY DEF NextFiles, Free

(* If no number is free the choice is among the files with the name, and    *)
(* none of them was written before it.                                      *)
LEMMA OldestChosen ==
    ASSUME NEW b, NEW max, Free(b, max) = {}, NEW filled, NEW f \in NextFiles(b, max, filled)
    PROVE  /\ f \in Matching(b) /\ f \in present
           /\ \A g \in Matching(b) : WriteTimes(filled)[f] <= WriteTimes(filled)[g]
BY DEF NextFiles, Oldest, Matching

(* The write times are ticks up to the present one; a write to the open     *)
(* file does not make its time earlier.                                     *)
LEMMA WriteTimesType ==
    ASSUME FilesInv, NEW filled
    PROVE  /\ WriteTimes(filled) \in [present -> 0 .. clock]
           /\ \A g \in present \ {fd} : WriteTimes(filled)[g] = lastWrite[g]
           /\ life = "live" => WriteTimes(filled)[fd] >= lastWrite[fd]
BY DEF FilesInv, TypeOK, WriteTimes

(* A rotation always finds a file to open: a number that is free, or one of *)
(* the files with the name that has the least of their write times.         *)
LEMMA NextFound ==
    ASSUME FilesInv, NEW b \in Bases, NEW max \in Nat \ {0}, NEW filled
    PROVE  NextFiles(b, max, filled) # {}
<1>1. CASE Free(b, max) # {}
  <2>1. Free(b, max) \in SUBSET Nat
    BY DEF Free
  <2>2. PICK k \in Free(b, max) : \A j \in Free(b, max) : k <= j
    BY <1>1, <2>1, SmallestExists
  <2>3. <<b, k>> \in NextFiles(b, max, filled)
    BY <1>1, <2>2 DEF NextFiles
  <2>4. QED
    BY <2>3
<1>2. CASE Free(b, max) = {}
  <2> DEFINE times == WriteTimes(filled)
             Ticks == {times[f] : f \in Matching(b)}
  <2>1. <<b, 1>> \in Matching(b)
    BY <1>2, RotationAssumption DEF Free, Matching
  <2>2. Matching(b) \in SUBSET present
    BY DEF Matching
  <2>3. clock \in Nat /\ times \in [present -> 0 .. clock]
    BY WriteTimesType DEF FilesInv, TypeOK
  <2> HIDE DEF times
  <2>4. Ticks \in SUBSET Nat /\ Ticks # {}
    BY <2>1, <2>2, <2>3
  <2>5. PICK tick \in Ticks : \A other \in Ticks : tick <= other
    <3> HIDE DEF Ticks
    <3>1. QED
      BY <2>4, SmallestExists
  <2>6. PICK f \in Matching(b) : times[f] = tick
    BY <2>5
  <2>7. \A g \in Matching(b) : times[f] <= times[g]
    BY <2>5, <2>6
  <2>8. f \in NextFiles(b, max, filled)
    BY <1>2, <2>6, <2>7 DEF NextFiles, Oldest, times
  <2>9. QED
    BY <2>8
<1>3. QED
  BY <1>1, <1>2

(* The file a rotation opens next is a numbered file of the directory.      *)
LEMMA NextFileType ==
    ASSUME FilesInv, NEW b \in Bases, NEW max \in Nat \ {0}, NEW filled,
           NEW f \in NextFiles(b, max, filled)
    PROVE  f \in Files
<1>1. CASE Free(b, max) # {}
  <2>1. PICK k \in 1 .. max : f = <<b, k>> /\ <<b, k>> \notin present
    BY <1>1, FreeChosen
  <2>2. <<b, k>> \in Files
    BY <2>1 DEF Files
  <2>3. QED
    BY <2>1, <2>2
<1>2. CASE Free(b, max) = {}
  BY <1>2, OldestChosen DEF FilesInv, TypeOK
<1>3. QED
  BY <1>1, <1>2

(* A target chooses the file that is open only where the files with the     *)
(* name are indistinct, else one last written before that was opened.       *)
LEMMA NextIsNotOpen ==
    ASSUME FilesInv, life = "live", NEW b \in Bases, ~Indistinct(b), NEW filled,
           NEW f \in NextFiles(b, maxNumberOfFiles, filled)
    PROVE  f # fd
<1>1. fd \in present /\ clock \in Nat
  BY DEF FilesInv, TypeOK
<1>2. CASE Free(b, maxNumberOfFiles) # {}
  BY <1>1, <1>2, FreeChosen
<1>3. CASE fd \notin Matching(b)
  BY <1>1, <1>2, <1>3, OldestChosen
<1>4. ASSUME Free(b, maxNumberOfFiles) = {}, NEW g \in Matching(b), lastWrite[g] < opened
      PROVE  f # fd
  <2>1. g \in present /\ lastWrite[g] \in 0 .. clock /\ lastWrite[fd] \in 0 .. clock
    BY <1>1 DEF Matching, FilesInv, TypeOK
  <2>2. opened \in 0 .. clock /\ opened <= lastWrite[fd]
    BY DEF FilesInv, OpenedWritten, TypeOK
  <2>3. g # fd
    BY <1>4, <2>1, <2>2
  <2>4. /\ WriteTimes(filled)[g] = lastWrite[g] /\ WriteTimes(filled)[fd] >= lastWrite[fd]
        /\ WriteTimes(filled)[fd] \in 0 .. clock
    BY <1>1, <2>1, <2>3, WriteTimesType
  <2>5. WriteTimes(filled)[f] <= WriteTimes(filled)[g]
    BY <1>4, OldestChosen
  <2>6. QED
    BY <1>4, <2>1, <2>2, <2>4, <2>5
<1>5. QED
  <2>1. \A g \in Matching(b) : lastWrite[g] \in 0 .. clock /\ opened \in 0 .. clock
    BY DEF Matching, FilesInv, TypeOK
  <2>2. QED
    BY <1>1, <1>2, <1>3, <1>4, <2>1 DEF Indistinct

(* Opening a file keeps the files typed and writes it now.                  *)
LEMMA OpenTyped ==
    ASSUME FilesInv, NEW f \in Files, NEW filled \in Nat, NEW written \in Nat,
           OpenNext(f, filled, written)
    PROVE  /\ present' \subseteq Files /\ f \in present' /\ path' \in Files
           /\ size' \in [present' -> Nat]
           /\ clock' \in Nat /\ opened' \in 0 .. clock'
           /\ lastWrite' \in [present' -> 0 .. clock'] /\ opened' <= lastWrite'[f]
<1>1. /\ present' = present \union {f} /\ path' = f
      /\ present \subseteq Files /\ size \in [present -> Nat]
      /\ clock \in Nat /\ clock' \in Nat /\ clock <= clock' /\ opened' = clock'
  BY RotationAssumption DEF OpenNext, FilesInv, TypeOK
<1>2. size' \in [present' -> Nat]
  BY <1>1, OpenStep
<1>3. \A g \in present : WriteTimes(filled)[g] \in 0 .. clock
  BY WriteTimesType
<1>4. lastWrite' \in [present' -> 0 .. clock'] /\ lastWrite'[f] = clock'
  BY <1>1, <1>3 DEF OpenNext
<1>5. QED
  BY <1>1, <1>2, <1>4

(* A step that leaves the files and the target alone.                       *)
LEMMA TimesKept ==
    ASSUME FilesInv, UNCHANGED <<lastWrite, opened>>, life' = "live" => UNCHANGED <<fd, life>>,
           TypeOK'
    PROVE  FilesInv'
BY DEF FilesInv, OpenedWritten

(* Opening a file as the one of a live target.                              *)
LEMMA OpenKeeps ==
    ASSUME FilesInv, NEW f \in Files, NEW filled \in Nat, NEW written \in Nat,
           OpenNext(f, filled, written), fd' = f, life' = "live",
           base' \in Bases, rotationEnabled' \in BOOLEAN, m_mode' \in IntervalModes,
           fileSizeLimit' \in Nat \ {0}, maxNumberOfFiles' \in Nat \ {0},
           truncateMessage' \in BOOLEAN, dropped' \in BOOLEAN,
           buffered' \in Nat, currentFileSize' \in Nat, logged' \in Nat, stored' \in Nat
    PROVE  FilesInv'
<1>1. /\ present' \subseteq Files /\ f \in present' /\ path' \in Files
      /\ size' \in [present' -> Nat]
      /\ clock' \in Nat /\ opened' \in 0 .. clock'
      /\ lastWrite' \in [present' -> 0 .. clock'] /\ opened' <= lastWrite'[f]
  BY OpenTyped
<1>2. f # NoFile
  BY RotationAssumption DEF Files
<1>3. TypeOK'
  BY <1>1, <1>2 DEF TypeOK
<1>4. QED
  BY <1>1, <1>3 DEF FilesInv, OpenedWritten

(* Bytes are appended to the open file.                                     *)
LEMMA AppendTyped ==
    ASSUME FilesInv, life = "live", NEW n \in Nat, AppendBytes(n)
    PROVE  /\ size' \in [present' -> Nat] /\ lastWrite' \in [present' -> 0 .. clock']
           /\ stored' \in Nat /\ UNCHANGED <<present, clock, opened, path>>
           /\ opened' <= lastWrite'[fd]
<1>1. /\ fd \in present /\ size \in [present -> Nat] /\ size[fd] + n \in Nat /\ stored \in Nat
      /\ clock \in Nat /\ opened \in 0 .. clock /\ opened <= lastWrite[fd]
      /\ lastWrite[fd] \in 0 .. clock
  BY DEF FilesInv, OpenedWritten, TypeOK
<1>2. /\ WriteTimes(n) \in [present -> 0 .. clock] /\ WriteTimes(n)[fd] >= lastWrite[fd]
      /\ WriteTimes(n)[fd] \in 0 .. clock
  BY <1>1, WriteTimesType
<1>3. QED
  BY <1>1, <1>2 DEF AppendBytes, time

(* What a write hands to the file and what it erases, in any mode.          *)
LEMMA DrainRange ==
    ASSUME TypeOK, NEW total \in Nat
    PROVE  /\ LimitDrain(total) \in 0 .. total /\ LimitErase(total) \in 0 .. total
           /\ total - LimitErase(total) \in Nat
BY DEF LimitDrain, LimitErase, TypeOK

(* Every step keeps the types and the write time of the open file.          *)
LEMMA FilesStep ==
    ASSUME FilesInv, [Next]_vars
    PROVE  FilesInv'
<1> USE DEF TypeOK
<1>1. /\ TypeOK /\ OpenedWritten /\ \A n \in MsgSizes : n \in Nat
      /\ base \in Bases /\ maxNumberOfFiles \in Nat \ {0}
  BY RotationAssumption DEF FilesInv
<1>2. /\ \A m \in Modes : m \in IntervalModes
      /\ \A t \in Truncations : t \in BOOLEAN
      /\ \A l \in Limits : l \in Nat \ {0}
      /\ \A k \in Maxima : k \in Nat \ {0}
  BY RotationAssumption
<1>3. CASE UNCHANGED vars
  <2>1. TypeOK'
    BY <1>1, <1>3 DEF vars, directory, time, names, settings, counts, history
  <2>2. QED
    BY <1>3, <2>1, TimesKept DEF vars, directory, time, names
<1>4. ASSUME NEW b \in Bases, Construct(b) PROVE FilesInv'
  <2>1. PICK f \in IF <<b, 1>> \in present THEN NextFiles(b, DefaultMax, 0) ELSE {<<b, 1>>} :
          OpenNext(f, 0, 0) /\ fd' = f
    BY <1>4 DEF Construct
  <2>2. f \in Files
    <3>1. CASE f \in NextFiles(b, DefaultMax, 0)
      BY <3>1, NextFileType, RotationAssumption
    <3>2. QED
      BY <2>1, <3>1 DEF Files
  <2>3. /\ base' \in Bases /\ rotationEnabled' \in BOOLEAN /\ m_mode' \in IntervalModes
        /\ fileSizeLimit' \in Nat \ {0} /\ maxNumberOfFiles' \in Nat \ {0}
        /\ truncateMessage' \in BOOLEAN /\ life' = "live" /\ dropped' \in BOOLEAN
        /\ buffered' \in Nat /\ currentFileSize' \in Nat /\ logged' \in Nat /\ stored' \in Nat
    BY <1>2, <1>4 DEF Construct
  <2>4. QED
    BY <2>1, <2>2, <2>3, OpenKeeps
<1>5. ASSUME NEW n \in MsgSizes, NEW due \in BOOLEAN, PrintInFile(n, due) PROVE FilesInv'
  <2> DEFINE total == buffered + n
  <2>1. n \in Nat /\ total \in Nat
    BY <1>1
  <2>2. /\ AppendBytes(LimitDrain(total)) /\ buffered' = total - LimitErase(total)
        /\ currentFileSize' = currentFileSize + n /\ logged' = logged + n
        /\ life = "live" /\ UNCHANGED <<fd, base, settings, life, dropped>>
    BY <1>5 DEF PrintInFile, Logs
  <2> HIDE DEF total
  <2>3. LimitDrain(total) \in Nat /\ total - LimitErase(total) \in Nat
    BY <1>1, <2>1, DrainRange
  <2>4. /\ size' \in [present' -> Nat] /\ lastWrite' \in [present' -> 0 .. clock']
        /\ stored' \in Nat /\ UNCHANGED <<present, clock, opened, path>>
        /\ opened' <= lastWrite'[fd]
    BY <2>2, <2>3, AppendTyped
  <2>5. TypeOK'
    BY <1>1, <2>1, <2>2, <2>3, <2>4 DEF settings
  <2>6. QED
    BY <2>2, <2>4, <2>5 DEF FilesInv, OpenedWritten
<1>6. ASSUME NEW n \in MsgSizes, PrintAcross(n) PROVE FilesInv'
  <2> DEFINE filled == LimitDrain(buffered + n)
             rest   == Remainder(n)
  <2>1. n \in Nat /\ buffered + n \in Nat
    BY <1>1
  <2>2. rest \in Nat
    BY <1>1, <1>6, <2>1 DEF PrintAcross, ShouldRotate, Remainder
  <2>3. PICK next \in NextFiles(base, maxNumberOfFiles, filled) :
          OpenNext(next, filled, LimitDrain(rest)) /\ fd' = next
    BY <1>6 DEF PrintAcross
  <2>4. /\ stored' = stored + filled + LimitDrain(rest) /\ buffered' = rest - LimitErase(rest)
        /\ currentFileSize' = rest /\ logged' = logged + n
        /\ life = "live" /\ UNCHANGED <<base, settings, life, dropped>>
    BY <1>6 DEF PrintAcross, Logs
  <2>5. filled \in Nat /\ LimitDrain(rest) \in Nat /\ rest - LimitErase(rest) \in Nat
    BY <1>1, <2>1, <2>2, DrainRange
  <2> HIDE DEF filled, rest
  <2>6. next \in Files
    BY <1>1, <2>3, NextFileType
  <2>7. QED
    BY <1>1, <2>1, <2>2, <2>3, <2>4, <2>5, <2>6, OpenKeeps DEF settings
<1>7. ASSUME NEW n \in MsgSizes, PrintThrows(n) PROVE FilesInv'
  <2>1. TypeOK'
    BY <1>1, <1>7 DEF PrintThrows, Logs, directory, time, counts, settings
  <2>2. QED
    BY <1>7, <2>1, TimesKept DEF PrintThrows, Logs, directory, time
<1>8. ASSUME NEW n \in MsgSizes, PrintOnInterval(n) PROVE FilesInv'
  <2>1. n \in Nat
    BY <1>1
  <2>2. PICK next \in NextFiles(base, maxNumberOfFiles, 0) :
          OpenNext(next, 0, LimitDrain(n)) /\ fd' = next
    BY <1>8 DEF PrintOnInterval
  <2>3. LimitDrain(n) \in Nat /\ n - LimitErase(n) \in Nat
    BY <1>1, <2>1, DrainRange
  <2>4. /\ stored' = stored + LimitDrain(n) /\ buffered' = n - LimitErase(n)
        /\ currentFileSize' = n /\ logged' = logged + n
        /\ life = "live" /\ UNCHANGED <<base, settings, life, dropped>>
    BY <1>8 DEF PrintOnInterval, Logs
  <2>5. next \in Files
    BY <1>1, <2>2, NextFileType
  <2>6. QED
    BY <1>1, <2>1, <2>2, <2>3, <2>4, <2>5, OpenKeeps DEF settings
<1>9. CASE Flush
  <2>1. /\ AppendBytes(buffered) /\ buffered' = 0 /\ life = "live"
        /\ UNCHANGED <<base, fd, settings, currentFileSize, life, logged, dropped>>
    BY <1>9 DEF Flush
  <2>2. /\ size' \in [present' -> Nat] /\ lastWrite' \in [present' -> 0 .. clock']
        /\ stored' \in Nat /\ UNCHANGED <<present, clock, opened, path>>
        /\ opened' <= lastWrite'[fd]
    BY <1>1, <2>1, AppendTyped
  <2>3. TypeOK'
    BY <1>1, <2>1, <2>2 DEF settings
  <2>4. QED
    BY <2>1, <2>2, <2>3 DEF FilesInv, OpenedWritten
<1>10. CASE RotateFile
  <2>1. PICK next \in NextFiles(base, maxNumberOfFiles, 0) : OpenNext(next, 0, 0) /\ fd' = next
    BY <1>10 DEF RotateFile
  <2>2. /\ buffered' = 0 /\ currentFileSize' = 0
        /\ life = "live" /\ UNCHANGED <<base, settings, life, history>>
    BY <1>10 DEF RotateFile
  <2>3. next \in Files
    BY <1>1, <2>1, NextFileType
  <2>4. QED
    BY <1>1, <2>1, <2>2, <2>3, OpenKeeps DEF settings, history
<1>11. ASSUME NEW b \in Bases, RenameFile(b) PROVE FilesInv'
  <2>1. CASE rotationEnabled
    <3>1. PICK next \in NextFiles(b, maxNumberOfFiles, 0) : OpenNext(next, 0, 0) /\ fd' = next
      BY <1>11, <2>1 DEF RenameFile
    <3>2. /\ buffered' = 0 /\ currentFileSize' = 0
          /\ life = "live" /\ base' = b /\ UNCHANGED <<settings, life, history>>
      BY <1>11, <2>1 DEF RenameFile
    <3>3. next \in Files
      BY <1>1, <3>1, NextFileType
    <3>4. QED
      BY <1>1, <3>1, <3>2, <3>3, OpenKeeps DEF settings, history
  <2>2. CASE ~rotationEnabled
    <3>1. TypeOK'
      BY <1>1, <1>11, <2>2 DEF RenameFile, directory, time, counts, settings, history, Files
    <3>2. QED
      BY <1>11, <2>2, <3>1, TimesKept DEF RenameFile, directory, time
  <2>3. QED
    BY <2>1, <2>2
<1>12. CASE EnableRotation
  <2>1. TypeOK'
    BY <1>1, <1>12 DEF EnableRotation, directory, time, names, history
  <2>2. QED
    BY <1>12, <2>1, TimesKept DEF EnableRotation, directory, time, names
<1>13. CASE Reconfigure
  <2>1. TypeOK'
    BY <1>1, <1>2, <1>13 DEF Reconfigure, directory, time, names, counts, history
  <2>2. QED
    BY <1>13, <2>1, TimesKept DEF Reconfigure, directory, time, names
<1>14. ASSUME NEW due \in BOOLEAN, Destroy(due) PROVE FilesInv'
  <2>1. /\ fd' = NoFile /\ buffered' = 0 /\ life' = "none" /\ life = "live"
        /\ UNCHANGED <<base, settings, currentFileSize, logged>>
    BY <1>14 DEF Destroy
  <2>2. CASE ShouldRotate(buffered, due)
    <3>1. PICK next \in NextFiles(base, maxNumberOfFiles, 0) : OpenNext(next, 0, 0)
      BY <1>14, <2>2 DEF Destroy
    <3>2. dropped' = TRUE /\ UNCHANGED stored
      BY <1>14, <2>2 DEF Destroy
    <3>3. next \in Files
      BY <1>1, <3>1, NextFileType
    <3>4. /\ present' \subseteq Files /\ path' \in Files
          /\ size' \in [present' -> Nat]
          /\ clock' \in Nat /\ opened' \in 0 .. clock'
          /\ lastWrite' \in [present' -> 0 .. clock']
      BY <3>1, <3>3, OpenTyped
    <3>5. TypeOK'
      BY <1>1, <2>1, <3>2, <3>4 DEF settings
    <3>6. QED
      BY <2>1, <3>5 DEF FilesInv, OpenedWritten
  <2>3. CASE ~ShouldRotate(buffered, due)
    <3>1. AppendBytes(buffered) /\ UNCHANGED dropped
      BY <1>14, <2>3 DEF Destroy
    <3>2. /\ size' \in [present' -> Nat] /\ lastWrite' \in [present' -> 0 .. clock']
          /\ stored' \in Nat /\ UNCHANGED <<present, clock, opened, path>>
      BY <1>1, <2>1, <3>1, AppendTyped
    <3>3. TypeOK'
      BY <1>1, <2>1, <3>1, <3>2 DEF settings
    <3>4. QED
      BY <2>1, <3>3 DEF FilesInv, OpenedWritten
  <2>4. QED
    BY <2>2, <2>3
<1>15. CASE Tick
  <2>1. clock' = clock + 1 /\ UNCHANGED <<directory, opened, names, settings, counts, life, history>>
    BY <1>15 DEF Tick
  <2>2. opened' \in 0 .. clock' /\ lastWrite' \in [present' -> 0 .. clock']
    BY <1>1, <2>1 DEF directory
  <2>3. TypeOK'
    BY <1>1, <2>1, <2>2 DEF directory, names, settings, counts, history
  <2>4. QED
    BY <2>1, <2>3, TimesKept DEF directory, names
<1>16. QED
  BY <1>3, <1>4, <1>5, <1>6, <1>7, <1>8, <1>9, <1>10, <1>11, <1>12, <1>13, <1>14, <1>15 DEF Next

(* A target starts with it.                                                 *)
LEMMA FilesInit == Init => FilesInv
<1>1. SUFFICES ASSUME Init PROVE TypeOK /\ OpenedWritten
  BY DEF FilesInv
<1>2. /\ present = {} /\ size \in [present -> Nat]
      /\ clock \in Nat /\ opened \in 0 .. clock /\ lastWrite \in [present -> 0 .. clock]
  BY <1>1 DEF Init
<1>3. /\ base \in Bases /\ path \in Files /\ fd = NoFile /\ life = "none"
      /\ fileSizeLimit \in Nat \ {0} /\ maxNumberOfFiles \in Nat \ {0}
  BY <1>1, RotationAssumption DEF Init, Files
<1>4. /\ rotationEnabled \in BOOLEAN /\ m_mode \in IntervalModes /\ truncateMessage \in BOOLEAN
      /\ buffered \in Nat /\ currentFileSize \in Nat /\ logged \in Nat /\ stored \in Nat
      /\ dropped \in BOOLEAN
  BY <1>1 DEF Init, IntervalModes
<1>5. QED
  BY <1>2, <1>3, <1>4 DEF TypeOK, OpenedWritten

(* The variables keep their types: the next file to open is always one of   *)
(* the directory, and no count becomes negative, in any mode and whatever   *)
(* the application calls.                                                   *)
THEOREM FilesTyped == Spec => []TypeOK
<1>1. FilesInv /\ [Next]_vars => FilesInv'
  BY FilesStep
<1>2. FilesInv => TypeOK
  BY DEF FilesInv
<1>3. QED
  BY <1>1, <1>2, FilesInit, PTL DEF Spec

(* A rotation never comes away without a file to open, whatever was renamed *)
(* and whichever limits were set: ReplaceOldFileInRotation is asked for a   *)
(* file only when there is one with the name.                               *)
THEOREM FileToOpen ==
    Spec => [](\A b \in Bases : \A filled \in Nat :
                  NextFiles(b, maxNumberOfFiles, filled) # {})
<1>1. FilesInv /\ [Next]_vars => FilesInv'
  BY FilesStep
<1>2. FilesInv => \A b \in Bases : \A filled \in Nat :
                     NextFiles(b, maxNumberOfFiles, filled) # {}
  BY NextFound DEF FilesInv, TypeOK
<1>3. QED
  BY <1>1, <1>2, FilesInit, PTL DEF Spec

(* Opening a file that is not the open one keeps the open one.              *)
LEMMA OpenOther ==
    ASSUME FilesInv, life = "live", NEW f, f # fd, NEW filled \in Nat, NEW written \in Nat,
           OpenNext(f, filled, written)
    PROVE  fd \in present' /\ size'[fd] >= size[fd]
<1>1. /\ fd \in present /\ size[fd] \in Nat
      /\ present' = present \union {f}
      /\ size' = [g \in present \union {f} |->
                    IF g = f THEN written ELSE IF g = fd THEN size[g] + filled ELSE size[g]]
  BY DEF FilesInv, TypeOK, OpenNext
<1>2. size'[fd] = size[fd] + filled
  BY <1>1
<1>3. QED
  BY <1>1, <1>2

(* Appending to the open file keeps it.                                     *)
LEMMA AppendGrows ==
    ASSUME FilesInv, life = "live", NEW n \in Nat,
           size' = [size EXCEPT ![fd] = @ + n], present' = present
    PROVE  fd \in present' /\ size'[fd] >= size[fd]
<1>1. fd \in present /\ size \in [present -> Nat] /\ size[fd] \in Nat
  BY DEF FilesInv, TypeOK
<1>2. QED
  BY <1>1

(* No step removes or empties the file that was open, unless the write      *)
(* times need not tell the files apart.                                     *)
LEMMA PreviousStep ==
    ASSUME FilesInv, [Next]_vars
    PROVE  [life = "live" /\ ~Indistinct(base')
               => fd \in present' /\ size'[fd] >= size[fd]]_vars
<1>1. SUFFICES ASSUME Next, life = "live", ~Indistinct(base')
               PROVE  fd \in present' /\ size'[fd] >= size[fd]
  OBVIOUS
<1>2. /\ TypeOK /\ base \in Bases /\ buffered \in Nat /\ maxNumberOfFiles \in Nat
      /\ \A n \in MsgSizes : n \in Nat
      /\ fd \in present /\ size[fd] \in Nat
  BY <1>1, RotationAssumption DEF FilesInv, TypeOK
<1>3. ASSUME NEW filled, base' = base PROVE fd \notin NextFiles(base, maxNumberOfFiles, filled)
  BY <1>1, <1>2, <1>3, NextIsNotOpen
<1>4. CASE UNCHANGED <<present, size>>
  BY <1>2, <1>4
<1>5. ASSUME NEW b \in Bases, Construct(b) PROVE FALSE
  BY <1>1, <1>5 DEF Construct
<1>6. ASSUME NEW b \in Bases, RenameFile(b) PROVE fd \in present' /\ size'[fd] >= size[fd]
  <2>1. CASE UNCHANGED directory
    BY <1>4, <2>1 DEF directory
  <2>2. ASSUME NEW next \in NextFiles(b, maxNumberOfFiles, 0), OpenNext(next, 0, 0)
        PROVE  fd \in present' /\ size'[fd] >= size[fd]
    <3>1. base' = b
      BY <1>6 DEF RenameFile
    <3>2. next # fd
      BY <1>1, <2>2, <3>1, NextIsNotOpen
    <3>3. QED
      BY <1>1, <2>2, <3>2, OpenOther
  <2>3. QED
    BY <1>6, <2>1, <2>2 DEF RenameFile
<1>7. ASSUME NEW n \in MsgSizes, NEW due \in BOOLEAN, PrintInFile(n, due)
      PROVE  fd \in present' /\ size'[fd] >= size[fd]
  <2>1. LimitDrain(buffered + n) \in Nat
    BY <1>2, DrainRange
  <2>2. size' = [size EXCEPT ![fd] = @ + LimitDrain(buffered + n)] /\ present' = present
    BY <1>7 DEF PrintInFile, AppendBytes
  <2>3. QED
    BY <1>1, <2>1, <2>2, AppendGrows
<1>8. ASSUME NEW n \in MsgSizes, PrintAcross(n)
      PROVE  fd \in present' /\ size'[fd] >= size[fd]
  <2> DEFINE filled == LimitDrain(buffered + n)
             rest   == Remainder(n)
  <2>1. rest \in Nat
    BY <1>2, <1>8 DEF PrintAcross, ShouldRotate, Remainder, TypeOK
  <2>2. filled \in Nat /\ LimitDrain(rest) \in Nat
    BY <1>2, <2>1, DrainRange
  <2>3. PICK next \in NextFiles(base, maxNumberOfFiles, filled) :
          OpenNext(next, filled, LimitDrain(rest))
    BY <1>8 DEF PrintAcross
  <2> HIDE DEF filled, rest
  <2>4. next # fd
    BY <1>3, <1>8, <2>3 DEF PrintAcross, Logs
  <2>5. QED
    BY <1>1, <2>2, <2>3, <2>4, OpenOther
<1>9. ASSUME NEW n \in MsgSizes, PrintThrows(n) PROVE UNCHANGED <<present, size>>
  BY <1>9 DEF PrintThrows, directory
<1>10. ASSUME NEW n \in MsgSizes, PrintOnInterval(n)
       PROVE  fd \in present' /\ size'[fd] >= size[fd]
  <2>1. LimitDrain(n) \in Nat
    BY <1>2, DrainRange
  <2>2. PICK next \in NextFiles(base, maxNumberOfFiles, 0) : OpenNext(next, 0, LimitDrain(n))
    BY <1>10 DEF PrintOnInterval
  <2>3. next # fd
    BY <1>3, <1>10, <2>2 DEF PrintOnInterval, Logs
  <2>4. QED
    BY <1>1, <2>1, <2>2, <2>3, OpenOther
<1>11. CASE Flush
  BY <1>1, <1>2, <1>11, AppendGrows DEF Flush, AppendBytes
<1>12. CASE RotateFile
  <2>1. PICK next \in NextFiles(base, maxNumberOfFiles, 0) : OpenNext(next, 0, 0)
    BY <1>12 DEF RotateFile
  <2>2. next # fd
    BY <1>3, <1>12, <2>1 DEF RotateFile
  <2>3. QED
    BY <1>1, <2>1, <2>2, OpenOther
<1>13. ASSUME EnableRotation \/ Reconfigure \/ Tick PROVE UNCHANGED <<present, size>>
  BY <1>13 DEF EnableRotation, Reconfigure, Tick, directory
<1>14. ASSUME NEW due \in BOOLEAN, Destroy(due)
       PROVE  fd \in present' /\ size'[fd] >= size[fd]
  <2>1. CASE ShouldRotate(buffered, due)
    <3>1. PICK next \in NextFiles(base, maxNumberOfFiles, 0) : OpenNext(next, 0, 0)
      BY <1>14, <2>1 DEF Destroy
    <3>2. next # fd
      BY <1>3, <1>14, <3>1 DEF Destroy
    <3>3. QED
      BY <1>1, <3>1, <3>2, OpenOther
  <2>2. CASE ~ShouldRotate(buffered, due)
    <3>1. size' = [size EXCEPT ![fd] = @ + buffered] /\ present' = present
      BY <1>14, <2>2 DEF Destroy, AppendBytes
    <3>2. QED
      BY <1>1, <1>2, <3>1, AppendGrows
  <2>3. QED
    BY <2>1, <2>2
<1>15. QED
  BY <1>1, <1>4, <1>5, <1>6, <1>7, <1>8, <1>9, <1>10, <1>11, <1>12, <1>13, <1>14 DEF Next

(* Nothing removes or empties the file that was open, whatever else is in   *)
(* the directory, if a number is free, or a file that bears the name was    *)
(* last written in an earlier tick than that in which the open one was      *)
(* opened: the least write time is then never that of the open file.        *)
THEOREM OpenFileKept == Spec => PreviousKept
<1>1. FilesInv /\ [Next]_vars => FilesInv'
  BY FilesStep
<1>2. FilesInv /\ [Next]_vars => [life = "live" /\ ~Indistinct(base')
                                    => fd \in present' /\ size'[fd] >= size[fd]]_vars
  BY PreviousStep
<1>3. QED
  BY <1>1, <1>2, FilesInit, PTL DEF Spec, PreviousKept

-----------------------------------------------------------------------------
(* One base name, and one maximum that is not below the one a target is     *)
(* constructed with.                                                        *)
OneDirectory == /\ \A b, c \in Bases : b = c
                /\ \A m \in Maxima : DefaultMax <= m /\ \A k \in Maxima : k = m

(* The files are numbered from 1 to the maximum.                            *)
NumbersInv ==
    /\ life = "live" => maxNumberOfFiles \in Maxima
    /\ \A m \in Maxima : \A f \in present : f[2] \in 1 .. m

(* The next file has a number within the maximum.                           *)
LEMMA NextWithin ==
    ASSUME FilesInv, NumbersInv, NEW m \in Maxima, NEW b \in Bases,
           NEW max \in Nat \ {0}, max <= m, NEW filled,
           NEW f \in NextFiles(b, max, filled)
    PROVE  f[2] \in 1 .. m
<1>1. m \in Nat
  BY RotationAssumption
<1>2. CASE Free(b, max) # {}
  <2>1. PICK k \in 1 .. max : f = <<b, k>> /\ <<b, k>> \notin present
    BY <1>2, FreeChosen
  <2>2. <<b, k>>[2] = k
    OBVIOUS
  <2>3. QED
    BY <1>1, <2>1, <2>2
<1>3. CASE Free(b, max) = {}
  <2>1. f \in present
    BY <1>3, OldestChosen
  <2>2. QED
    BY <2>1 DEF NumbersInv
<1>4. QED
  BY <1>2, <1>3

(* Every step keeps the files numbered within the maximum.                  *)
LEMMA NumbersStep ==
    ASSUME OneDirectory, FilesInv, NumbersInv, [Next]_vars
    PROVE  NumbersInv'
<1>1. /\ base \in Bases /\ maxNumberOfFiles \in Nat \ {0} /\ DefaultMax \in Nat \ {0}
      /\ Maxima \subseteq Nat \ {0}
  BY RotationAssumption DEF FilesInv, TypeOK
<1>2. ASSUME UNCHANGED present, life' = "live" => maxNumberOfFiles' \in Maxima PROVE NumbersInv'
  BY <1>2 DEF NumbersInv
<1>3. ASSUME NEW f, present' = present \union {f}, \A m \in Maxima : f[2] \in 1 .. m,
             life' = "live" => maxNumberOfFiles' \in Maxima
      PROVE  NumbersInv'
  BY <1>3 DEF NumbersInv
<1>4. ASSUME life = "live", NEW b \in Bases
      PROVE  \A m \in Maxima : \A filled : \A f \in NextFiles(b, maxNumberOfFiles, filled) :
                f[2] \in 1 .. m
  BY <1>1, <1>4, NextWithin DEF NumbersInv, OneDirectory
<1>5. CASE UNCHANGED vars
  BY <1>2, <1>5 DEF vars, directory, settings, NumbersInv
<1>6. ASSUME NEW b \in Bases, Construct(b) PROVE NumbersInv'
  <2>a. PICK f \in IF <<b, 1>> \in present THEN NextFiles(b, DefaultMax, 0) ELSE {<<b, 1>>} :
          OpenNext(f, 0, 0)
    BY <1>6 DEF Construct
  <2>1. present' = present \union {f} /\ maxNumberOfFiles' \in Maxima
    BY <1>6, <2>a DEF Construct, OpenNext
  <2>2. ASSUME NEW m \in Maxima PROVE f[2] \in 1 .. m
    <3>1. CASE f \in NextFiles(b, DefaultMax, 0)
      BY <1>1, <3>1, NextWithin DEF OneDirectory
    <3>2. 1 \in 1 .. m
      BY <1>1
    <3>3. QED
      BY <2>a, <3>1, <3>2
  <2>3. QED
    BY <1>3, <2>1, <2>2
<1>7. ASSUME NEW n \in MsgSizes,
             \/ \E due \in BOOLEAN : PrintInFile(n, due)
             \/ PrintAcross(n) \/ PrintThrows(n) \/ PrintOnInterval(n)
      PROVE  NumbersInv'
  <2>1. life = "live" /\ maxNumberOfFiles' \in Maxima
    BY <1>7 DEF PrintInFile, PrintAcross, PrintThrows, PrintOnInterval, Logs, settings, NumbersInv
  <2>2. \/ UNCHANGED present
        \/ \E filled : \E f \in NextFiles(base, maxNumberOfFiles, filled) : present' = present \union {f}
    BY <1>7 DEF PrintInFile, PrintAcross, PrintThrows, PrintOnInterval, directory, AppendBytes, OpenNext
  <2>3. QED
    BY <1>1, <1>2, <1>3, <1>4, <2>1, <2>2
<1>8. ASSUME NEW b \in Bases, RenameFile(b) PROVE NumbersInv'
  <2>1. life = "live" /\ maxNumberOfFiles' \in Maxima
    BY <1>8 DEF RenameFile, settings, NumbersInv
  <2>2. \/ UNCHANGED present
        \/ \E filled : \E f \in NextFiles(b, maxNumberOfFiles, filled) : present' = present \union {f}
    BY <1>8 DEF RenameFile, directory, OpenNext
  <2>3. QED
    BY <1>2, <1>3, <1>4, <2>1, <2>2
<1>9. CASE Flush \/ EnableRotation \/ Tick
  BY <1>2, <1>9 DEF Flush, AppendBytes, EnableRotation, Tick, settings, directory, NumbersInv
<1>10. CASE Reconfigure
  BY <1>2, <1>10 DEF Reconfigure, directory
<1>11. CASE RotateFile
  <2>1. life = "live" /\ maxNumberOfFiles' \in Maxima
    BY <1>11 DEF RotateFile, settings, NumbersInv
  <2>2. \E f \in NextFiles(base, maxNumberOfFiles, 0) : present' = present \union {f}
    BY <1>11 DEF RotateFile, OpenNext
  <2>3. QED
    BY <1>1, <1>3, <1>4, <2>1, <2>2
<1>12. ASSUME NEW due \in BOOLEAN, Destroy(due) PROVE NumbersInv'
  <2>1. life = "live" /\ life' = "none"
    BY <1>12 DEF Destroy
  <2>2. \/ UNCHANGED present
        \/ \E filled : \E f \in NextFiles(base, maxNumberOfFiles, filled) : present' = present \union {f}
    BY <1>12 DEF Destroy, AppendBytes, OpenNext
  <2>3. QED
    BY <1>1, <1>2, <1>3, <1>4, <2>1, <2>2
<1>13. QED
  BY <1>5, <1>6, <1>7, <1>8, <1>9, <1>10, <1>11, <1>12 DEF Next

(* A target starts with it.                                                 *)
LEMMA NumbersInit == Init => NumbersInv
BY DEF Init, NumbersInv

(* Numbers within the maximum bound the number of files.                    *)
LEMMA NumbersCount ==
    ASSUME OneDirectory, FilesInv, NumbersInv
    PROVE  FileCountBounded
<1>1. SUFFICES ASSUME life = "live" PROVE Cardinality(present) <= maxNumberOfFiles
  BY DEF FileCountBounded
<1>2. PICK b \in Bases : Bases = {b}
  BY RotationAssumption DEF OneDirectory
<1>3. maxNumberOfFiles \in Maxima /\ maxNumberOfFiles \in Nat
  BY <1>1, RotationAssumption DEF NumbersInv
<1> DEFINE File     == [k \in 1 .. maxNumberOfFiles |-> <<b, k>>]
           Numbered == {File[k] : k \in 1 .. maxNumberOfFiles}
<1>4. present \subseteq Numbered
  <2>1. SUFFICES ASSUME NEW f \in present PROVE f \in Numbered
    OBVIOUS
  <2>2. f[2] \in 1 .. maxNumberOfFiles
    BY <1>3 DEF NumbersInv
  <2>3. f = <<b, f[2]>>
    BY <1>2 DEF FilesInv, TypeOK, Files
  <2>4. f = File[f[2]]
    BY <2>2, <2>3
  <2>5. QED
    BY <2>2, <2>4
<1>5. /\ IsFiniteSet(1 .. maxNumberOfFiles)
      /\ Cardinality(1 .. maxNumberOfFiles) = maxNumberOfFiles
  BY <1>3, FS_Interval
<1>6. IsFiniteSet(Numbered) /\ Cardinality(Numbered) <= maxNumberOfFiles
  <2>1. File \in Surjection(1 .. maxNumberOfFiles, Numbered)
    BY DEF Surjection
  <2> HIDE DEF File, Numbered
  <2>2. QED
    BY <1>5, <2>1, FS_Surjection
<1>7. Cardinality(present) <= Cardinality(Numbered) /\ Cardinality(present) \in Nat
  <2> HIDE DEF File, Numbered
  <2>1. QED
    BY <1>4, <1>6, FS_Subset, FS_CardinalityType
<1> HIDE DEF File, Numbered
<1>8. Cardinality(Numbered) \in Nat
  BY <1>6, FS_CardinalityType
<1>9. QED
  BY <1>3, <1>6, <1>7, <1>8

(* With one base name and one maximum there are never more files than the   *)
(* maximum, however often targets are constructed, rotate and are           *)
(* destroyed: what RotatingTests.cpp expects.                               *)
THEOREM NoMoreFiles ==
    ASSUME OneDirectory
    PROVE  Spec => []FileCountBounded
<1>1. FilesInv /\ [Next]_vars => FilesInv'
  BY FilesStep
<1>2. FilesInv /\ NumbersInv /\ [Next]_vars => NumbersInv'
  BY NumbersStep
<1>3. FilesInv /\ NumbersInv => FileCountBounded
  BY NumbersCount
<1>4. QED
  BY <1>1, <1>2, <1>3, FilesInit, NumbersInit, PTL DEF Spec
=============================================================================
