----------------------------- MODULE FileTarget -----------------------------
(***************************************************************************)
(* FileTarget with the FileHelper it inherits and the BackgroundThread it   *)
(* starts: logging threads that print and then apply the flush policy, the  *)
(* background flush thread, and the thread that owns the target, which      *)
(* installs flush policies, renames the file and destroys the target.       *)
(*                                                                         *)
(* A step reads or writes one shared atomic, takes one mutex, or does the   *)
(* work of one critical section; atomic wait()s are guards.  The contents   *)
(* of the buffer and the file are sequences of bytes, each tagged with the  *)
(* thread that logged it.  The definitions marked "Faulty variant" are       *)
(* plausible bugs; no action uses them.  Each breaks a property below.       *)
(***************************************************************************)
EXTENDS PageBuffer

CONSTANTS
    Writers,       \* the threads that call LogMessage on this target
    Workers,       \* identities for std::jthreads that run BackgroundFlushThread
    Owner,         \* the thread that owns the target object
    NoThread,
    MTSupport,     \* BaseTargetHelper::multiThreadSupport, set before logging
    Policies,      \* the flush policies the application installs
    OpenOutcomes,  \* does opening a file succeed?
    MoveOutcomes,  \* does std::filesystem::rename succeed?  {} : never called
    MsgSizes,      \* sizes of the formatted messages
    MaxMsgs,       \* bound: messages per logging thread
    MaxDisk        \* bound: bytes in the file up to which a race may repeat some

FlushSetting    == {"always", "periodically", "never"}
PeriodicOptions == {"timeBased", "logLevelBased", "undef"}
Policy == [primary : FlushSetting, sub : PeriodicOptions]

(* Without MTSupport a single thread uses the target: then there is one     *)
(* writer, and it and the owner act in turns.                               *)
ASSUME ThreadsAssumption ==
    /\ Owner \notin Writers \union Workers
    /\ Writers \intersect Workers = {}
    /\ NoThread \notin Writers \union Workers \union {Owner}
    /\ MTSupport \in BOOLEAN
    /\ MTSupport \/ \A v, w \in Writers : v = w
ASSUME InputsAssumption ==
    /\ Policies \subseteq Policy
    /\ OpenOutcomes \subseteq BOOLEAN /\ MoveOutcomes \subseteq BOOLEAN
    /\ MsgSizes \subseteq Nat
    /\ MaxMsgs \in Nat /\ MaxDisk \in Nat

Threads == Writers \union Workers \union {Owner}

VARIABLES
    fileMutex,          \* FileTarget::fileMutex: its holder
    fileHelperMutex,    \* FileHelper::fileHelperMutex: its holder
    flushThread,        \* BackgroundThread::flushThread: the jthread it owns
    cleanUpThreads, flushThreadEnabled, flushComplete, threadWriting, pauseThread,
    policy,             \* BaseTargetHelper::policy
    buffer, fileOpen,   \* FileHelper::buffer and fileOpen
    disk,               \* the bytes the file holds
    accepted,           \* history: every byte passed to WriteToFile, in order
    torn,               \* the threads inside buffer that have met another one there
    raced,              \* history: has any thread been torn?
    life,               \* of the target: "live", "dying" (in ~FileTarget), "gone"
    sent,               \* messages each logging thread has started
    installed,          \* history: the policy the application last asked for
    pc,                 \* where each thread is
    enabled,            \* the local copy of flushThreadEnabled
    ret                 \* where StopBackgroundThread() or Flush() returns to

mutexes  == <<fileMutex, fileHelperMutex>>
atomics  == <<cleanUpThreads, flushThreadEnabled, flushComplete, threadWriting, pauseThread>>
contents == <<buffer, fileOpen, disk, accepted, torn, raced>>
locals   == <<enabled, ret>>
app      == <<life, sent, installed>>
vars     == <<mutexes, atomics, flushThread, policy, contents, app, pc, locals>>

WriterPlaces == {"idle", "prAwait", "prAnnounce", "prLock", "writing", "prDone",
                 "polLock", "polMain", "polSub", "polJoin", "polOut"}
StopPlaces   == {"stSignal", "stPolicy", "stDisable"}
FlushPlaces  == {"flEnter", "flAwait", "flAnnounce", "flLock", "flushing", "flDone"}
WorkerPlaces == {"off", "bgTop", "bgPause", "bgSleep", "bgDone"}
OwnerPlaces  == {"own", "clEnter", "closing", "rnMove", "rnOpen", "dtJoin", "gone"}
Places == WriterPlaces \union WorkerPlaces \union OwnerPlaces
            \union StopPlaces \union {"rnPause"} \union FlushPlaces

ContentsType ==
    /\ buffer \in Seq(Writers) /\ disk \in Seq(Writers) /\ accepted \in Seq(Writers)
    /\ fileOpen \in BOOLEAN /\ torn \in SUBSET Threads /\ raced \in BOOLEAN
FlagsType ==
    /\ cleanUpThreads \in BOOLEAN /\ flushThreadEnabled \in BOOLEAN
    /\ flushComplete \in BOOLEAN /\ threadWriting \in BOOLEAN /\ pauseThread \in BOOLEAN
ControlType ==
    /\ fileMutex \in Writers \union {NoThread}
    /\ fileHelperMutex \in Threads \union {NoThread}
    /\ flushThread \in Workers \union {NoThread}
    /\ policy \in Policy /\ installed \in Policy
    /\ life \in {"live", "dying", "gone"}
    /\ sent \in [Writers -> Nat]
    /\ enabled \in [Threads -> BOOLEAN]
    /\ ret \in [Threads -> {"polSub", "polOut", "bgSleep", "flEnter", "clEnter"}]

(* Each kind of thread is at a place of its own, or in a function that      *)
(* returns to where that kind of thread called it: StopBackgroundThread to  *)
(* stopped, Flush to flushed.                                               *)
ProperPlace(t, place, back) ==
    LET Proper(own, stopped, flushed) == \/ place \in own
                                         \/ place \in StopPlaces /\ back \in stopped
                                         \/ place \in FlushPlaces /\ back \in flushed
    IN  \/ t \in Writers /\ Proper(WriterPlaces, {"polSub", "flEnter"}, {"polSub", "polOut"})
        \/ t \in Workers /\ Proper(WorkerPlaces, {}, {"bgSleep"})
        \/ t = Owner     /\ \/ Proper(OwnerPlaces, {"flEnter"}, {"clEnter"})
                            \/ place = "rnPause" /\ back = "clEnter"
PlacesType ==
    /\ pc \in [Threads -> Places]
    /\ \A t \in Threads : ProperPlace(t, pc[t], ret[t])

TypeOK == ContentsType /\ FlagsType /\ ControlType /\ PlacesType

(* After construction: no policy, no flush thread; a failed open is caught  *)
(* by InitializeLogs and leaves a target whose file is closed.              *)
Init ==
    /\ fileMutex = NoThread /\ fileHelperMutex = NoThread /\ flushThread = NoThread
    /\ cleanUpThreads = FALSE /\ flushThreadEnabled = FALSE /\ flushComplete = TRUE
    /\ threadWriting = FALSE /\ pauseThread = FALSE
    /\ policy = [primary |-> "never", sub |-> "undef"] /\ installed = policy
    /\ buffer = <<>> /\ disk = <<>> /\ accepted = <<>>
    /\ torn = {} /\ raced = FALSE
    /\ fileOpen \in OpenOutcomes
    /\ life = "live"
    /\ sent = [w \in Writers |-> 0]
    /\ pc = [t \in Threads |->
                CASE t \in Writers -> "idle" [] t \in Workers -> "off" [] OTHER -> "own"]
    /\ enabled = [t \in Threads |-> FALSE]
    /\ ret = [t \in Threads |-> "polSub"]

-----------------------------------------------------------------------------
(* Control: t is at place p and goes on at place q.                         *)
Goto(t, p, q) == pc[t] = p /\ pc' = [pc EXCEPT ![t] = q]

\* Faulty variant: the lock is never taken.
LockForgotten(mutex, t) == UNCHANGED mutex

(* std::unique_lock: taken only when multi-threading support is on.         *)
Lock(mutex, t)   == IF MTSupport THEN mutex = NoThread /\ mutex' = t ELSE UNCHANGED mutex
Unlock(mutex)    == IF MTSupport THEN mutex' = NoThread ELSE UNCHANGED mutex

(* The threads inside FileHelper::buffer.  Entering it while another thread *)
(* is there is a data race; the outcome of a section that took part in one  *)
(* is any combination of its effects.                                       *)
BufferUsers == {t \in Threads : pc[t] \in {"writing", "flushing", "closing"}}

EnterBuffer(t) ==
    /\ torn' = IF BufferUsers = {} THEN torn ELSE torn \union BufferUsers \union {t}
    /\ raced' = (raced \/ BufferUsers # {})

LeaveBuffer(t, newBuffer, newDisk) ==
    /\ IF t \in torn
         THEN /\ buffer' \in {buffer, newBuffer}
              /\ disk' \in {d \in {disk, newDisk} : Len(d) <= MaxDisk \/ d = disk}
         ELSE buffer' = newBuffer /\ disk' = newDisk
    /\ torn' = torn \ {t}

(* WRITE hands bytes to the file; to a closed descriptor they are lost.     *)
Written(bytes) == IF fileOpen THEN disk \o bytes ELSE disk

-----------------------------------------------------------------------------
(* TargetBase::LogMessage on thread w: PrintMessage, then PolicyFlushOn.    *)

(* PrintMessage copies flushThreadEnabled once; the copy decides whether it *)
(* takes part in the handshake with Flush, before and after writing.        *)
LogMessage(w) ==
    /\ life = "live" /\ sent[w] < MaxMsgs
    /\ MTSupport \/ pc[Owner] = "own"
    /\ Goto(w, "idle", IF flushThreadEnabled THEN "prAwait" ELSE "prLock")
    /\ sent' = [sent EXCEPT ![w] = @ + 1]
    /\ enabled' = [enabled EXCEPT ![w] = flushThreadEnabled]
    /\ UNCHANGED <<mutexes, atomics, flushThread, policy, contents, life, installed, ret>>

(* flushComplete.wait(false)                                                *)
AwaitFlushComplete(w) ==
    /\ flushComplete
    /\ Goto(w, "prAwait", "prAnnounce")
    /\ UNCHANGED <<mutexes, atomics, flushThread, policy, contents, app, locals>>

(* threadWriting.store(true): a separate step from the check above.         *)
AnnounceWriting(w) ==
    /\ Goto(w, "prAnnounce", "prLock")
    /\ threadWriting' = TRUE
    /\ UNCHANGED <<mutexes, cleanUpThreads, flushThreadEnabled, flushComplete, pauseThread,
                   flushThread, policy, contents, app, locals>>

LockToWrite(w) ==
    /\ Goto(w, "prLock", "writing")
    /\ Lock(fileMutex, w)
    /\ EnterBuffer(w)
    /\ UNCHANGED <<fileHelperMutex, atomics, flushThread, policy, buffer, fileOpen, disk,
                   accepted, app, locals>>

(* WriteImpl(msg) and the unlock.                                           *)
WriteToFile(w) ==
    /\ Goto(w, "writing", IF enabled[w] THEN "prDone" ELSE "polLock")
    /\ \E size \in MsgSizes :
          LET msg == [i \in 1 .. size |-> w]
              all == buffer \o msg
              n   == PageDrain(Len(all))
          IN  /\ LeaveBuffer(w, Rest(all, n), Written(Front(all, n)))
              /\ accepted' = accepted \o msg
    /\ Unlock(fileMutex)
    /\ UNCHANGED <<fileHelperMutex, atomics, flushThread, policy, fileOpen, raced, app, locals>>

\* Faulty variant: threadWriting is left set.
WriteDoneUnannounced(w) ==
    /\ Goto(w, "prDone", "polLock")
    /\ UNCHANGED <<mutexes, atomics, flushThread, policy, contents, app, locals>>

(* threadWriting.store(false) and notify_all(): one flag for all writers.   *)
WriteDone(w) ==
    /\ Goto(w, "prDone", "polLock")
    /\ threadWriting' = FALSE
    /\ UNCHANGED <<mutexes, cleanUpThreads, flushThreadEnabled, flushComplete, pauseThread,
                   flushThread, policy, contents, app, locals>>

LockToApplyPolicy(w) ==
    /\ Goto(w, "polLock", "polMain")
    /\ Lock(fileMutex, w)
    /\ UNCHANGED <<fileHelperMutex, atomics, flushThread, policy, contents, app, locals>>

(* StopBackgroundThread on thread t, called at `from` and returning to `to`: *)
(* reads flushThreadEnabled and, if it is set, makes three stores, between  *)
(* which the other threads act.  The stop token handed to the thread is     *)
(* never the one request_stop() reaches, so cleanUpThreads is all it sees;  *)
(* it is not joined, and the installed policy becomes never.                *)
FlushReturn(t) == IF t = Owner THEN "clEnter" ELSE "polSub"
StopBackgroundThread(t, from, to) ==
    /\ Goto(t, from, IF flushThreadEnabled THEN "stSignal" ELSE to)
    /\ ret' = [ret EXCEPT ![t] = IF flushThreadEnabled THEN to ELSE FlushReturn(t)]

(* cleanUpThreads.store(true)                                               *)
SignalCleanUp(t) ==
    /\ Goto(t, "stSignal", "stPolicy")
    /\ cleanUpThreads' = TRUE
    /\ UNCHANGED <<mutexes, flushThreadEnabled, flushComplete, threadWriting, pauseThread,
                   flushThread, policy, contents, app, locals>>

(* SetPrimaryMode(never)                                                    *)
ForgetPolicy(t) ==
    /\ Goto(t, "stPolicy", "stDisable")
    /\ policy' = [policy EXCEPT !.primary = "never"]
    /\ UNCHANGED <<mutexes, atomics, flushThread, contents, app, locals>>

(* flushThreadEnabled.store(false), and on to what the caller does next.    *)
DisableThread(t) ==
    /\ Goto(t, "stDisable", ret[t])
    /\ ret' = [ret EXCEPT ![t] = FlushReturn(t)]
    /\ flushThreadEnabled' = FALSE
    /\ UNCHANGED <<mutexes, cleanUpThreads, flushComplete, threadWriting, pauseThread,
                   flushThread, policy, contents, app, enabled>>

\* Faulty variant: always does not flush.
ApplyAlwaysUnflushed(w) ==
    /\ policy.primary \in {"never", "always"}
    /\ StopBackgroundThread(w, "polMain", "polSub")
    /\ UNCHANGED <<mutexes, atomics, flushThread, policy, contents, app, enabled>>

(* The primary setting.                                                     *)
ApplyPrimary(w) ==
    /\ \/ policy.primary = "never"  /\ StopBackgroundThread(w, "polMain", "polSub")
       \/ policy.primary = "always" /\ StopBackgroundThread(w, "polMain", "flEnter")
    /\ UNCHANGED <<mutexes, atomics, flushThread, policy, contents, app, enabled>>
ApplyPeriodically(w) ==
    /\ policy.primary = "periodically"
    /\ Goto(w, "polMain", "polSub")
    /\ UNCHANGED <<mutexes, atomics, flushThread, policy, contents, app, locals>>

(* The secondary setting is looked at whatever the primary one says.        *)
ApplyNoSub(w) ==
    /\ \/ policy.sub = "undef"
       \/ policy.sub = "timeBased" /\ flushThreadEnabled   \* StartBackgroundThread: running
       \/ policy.sub = "logLevelBased"                     \* MsgLevel() < flushOn
    /\ Goto(w, "polSub", "polOut")
    /\ UNCHANGED <<mutexes, atomics, flushThread, policy, contents, app, locals>>
FlushOnLevel(w) ==
    /\ policy.sub = "logLevelBased"
    /\ Goto(w, "polSub", "flEnter")
    /\ ret' = [ret EXCEPT ![w] = "polOut"]
    /\ UNCHANGED <<mutexes, atomics, flushThread, policy, contents, app, enabled>>

\* Faulty variant: cleanUpThreads keeps the last stop.
StartUnreset(w, g) ==
    /\ policy.sub = "timeBased" /\ ~flushThreadEnabled
    /\ pc[w] = "polSub" /\ pc[g] = "off"
    /\ pc' = [pc EXCEPT ![w] = "polJoin", ![g] = "bgTop"]
    /\ policy' = [policy EXCEPT !.primary = "periodically"]
    /\ UNCHANGED <<mutexes, atomics, flushThread, contents, app, locals>>

(* StartBackgroundThread, up to the construction of the new jthread g: one  *)
(* step, since the thread that starts is alone in this section and only the *)
(* store to cleanUpThreads can be seen by another before the new one runs.  *)
StartBackgroundThread(w, g) ==
    /\ policy.sub = "timeBased" /\ ~flushThreadEnabled
    /\ pc[w] = "polSub" /\ pc[g] = "off"
    /\ pc' = [pc EXCEPT ![w] = "polJoin", ![g] = "bgTop"]
    /\ policy' = [policy EXCEPT !.primary = "periodically"]
    /\ cleanUpThreads' = FALSE
    /\ UNCHANGED <<mutexes, flushThreadEnabled, flushComplete, threadWriting, pauseThread,
                   flushThread, contents, app, locals>>

(* Then the move assignment, which joins the jthread it replaces.           *)
ReplaceFlushThread(w, g) ==
    /\ pc[w] = "polJoin" /\ g # flushThread /\ pc[g] # "off"
    /\ flushThread # NoThread => pc[flushThread] = "bgDone"
    /\ pc' = [t \in Threads |-> IF t = w THEN "polOut"
                                ELSE IF t = flushThread THEN "off" ELSE pc[t]]
    /\ flushThread' = g
    /\ flushThreadEnabled' = TRUE
    /\ UNCHANGED <<mutexes, cleanUpThreads, flushComplete, threadWriting, pauseThread, policy,
                   contents, app, locals>>

ReturnFromPolicy(w) ==
    /\ Goto(w, "polOut", "idle")
    /\ Unlock(fileMutex)
    /\ UNCHANGED <<fileHelperMutex, atomics, flushThread, policy, contents, app, locals>>

-----------------------------------------------------------------------------
(* FileHelper::Flush on thread t: a logging thread that applies the policy, *)
(* the flush thread, or the owner closing the file.                         *)
EnterFlush(t) ==
    /\ Goto(t, "flEnter", IF flushThreadEnabled THEN "flAwait" ELSE "flLock")
    /\ enabled' = [enabled EXCEPT ![t] = flushThreadEnabled]
    /\ UNCHANGED <<mutexes, atomics, flushThread, policy, contents, app, ret>>

(* threadWriting.wait(true)                                                 *)
AwaitWriter(t) ==
    /\ ~threadWriting
    /\ Goto(t, "flAwait", "flAnnounce")
    /\ UNCHANGED <<mutexes, atomics, flushThread, policy, contents, app, locals>>

\* Faulty variant: flushComplete is not reset.
AnnounceNothing(t) ==
    /\ Goto(t, "flAnnounce", "flLock")
    /\ UNCHANGED <<mutexes, atomics, flushThread, policy, contents, app, locals>>

(* flushComplete.store(false): a separate step from the check above.        *)
AnnounceFlush(t) ==
    /\ Goto(t, "flAnnounce", "flLock")
    /\ flushComplete' = FALSE
    /\ UNCHANGED <<mutexes, cleanUpThreads, flushThreadEnabled, threadWriting, pauseThread,
                   flushThread, policy, contents, app, locals>>

LockToFlush(t) ==
    /\ Goto(t, "flLock", "flushing")
    /\ Lock(fileHelperMutex, t)
    /\ EnterBuffer(t)
    /\ UNCHANGED <<fileMutex, atomics, flushThread, policy, buffer, fileOpen, disk, accepted,
                   app, locals>>

\* Faulty variant: the last, partial page is written as a whole page.
FlushImplWholePage(t) ==
    /\ Goto(t, "flushing", IF enabled[t] THEN "flDone" ELSE ret[t])
    /\ LeaveBuffer(t, <<>>, Written(buffer \o [i \in 1 .. PageSize - Len(buffer) |-> NoThread]))
    /\ Unlock(fileHelperMutex)
    /\ UNCHANGED <<fileMutex, atomics, flushThread, policy, fileOpen, accepted, raced, app,
                   locals>>

(* FlushImpl and the unlock.                                                *)
FlushImpl(t) ==
    /\ Goto(t, "flushing", IF enabled[t] THEN "flDone" ELSE ret[t])
    /\ LeaveBuffer(t, <<>>, Written(buffer))
    /\ Unlock(fileHelperMutex)
    /\ UNCHANGED <<fileMutex, atomics, flushThread, policy, fileOpen, accepted, raced, app,
                   locals>>

\* Faulty variant: flushComplete is left reset.
FlushDoneUnannounced(t) ==
    /\ Goto(t, "flDone", ret[t])
    /\ UNCHANGED <<mutexes, atomics, flushThread, policy, contents, app, locals>>

(* flushComplete.store(true) and notify_all()                               *)
FlushDone(t) ==
    /\ Goto(t, "flDone", ret[t])
    /\ flushComplete' = TRUE
    /\ UNCHANGED <<mutexes, cleanUpThreads, flushThreadEnabled, threadWriting, pauseThread,
                   flushThread, policy, contents, app, locals>>

-----------------------------------------------------------------------------
(* BackgroundFlushThread on worker g: cleanUpThreads, pauseThread, Flush,   *)
(* sleep_for(flushInterval).  stop_requested() is never true, see above.    *)
CheckCleanUp(g) ==
    /\ Goto(g, "bgTop", IF cleanUpThreads THEN "bgDone" ELSE "bgPause")
    /\ UNCHANGED <<mutexes, atomics, flushThread, policy, contents, app, locals>>

(* pauseThread.wait(true): cleanUpThreads is not looked at again.           *)
AwaitResume(g) ==
    /\ ~pauseThread
    /\ Goto(g, "bgPause", "flEnter")
    /\ ret' = [ret EXCEPT ![g] = "bgSleep"]
    /\ UNCHANGED <<mutexes, atomics, flushThread, policy, contents, app, enabled>>

\* Faulty variant: one flush, and the thread ends.
WakeUpAndEnd(g) ==
    /\ Goto(g, "bgSleep", "bgDone")
    /\ UNCHANGED <<mutexes, atomics, flushThread, policy, contents, app, locals>>
WakeUp(g) ==
    /\ Goto(g, "bgSleep", "bgTop")
    /\ UNCHANGED <<mutexes, atomics, flushThread, policy, contents, app, locals>>

-----------------------------------------------------------------------------
(* The owner.                                                               *)

(* SetFlushPolicy replaces the policy object the logging threads read, so   *)
(* an application calls it while none of them is inside LogMessage.         *)
SetFlushPolicy(p) ==
    /\ life = "live" /\ pc[Owner] = "own"
    /\ \A w \in Writers : pc[w] = "idle"
    /\ policy' = p /\ installed' = p
    /\ UNCHANGED <<mutexes, atomics, flushThread, contents, life, sent, pc, locals>>

(* RenameFile and ~FileTarget close the file: CloseFile pauses the flush    *)
(* thread, flushes, and then closes without any lock.                       *)
RenameFile ==
    /\ life = "live" /\ MoveOutcomes # {}
    /\ MTSupport \/ \A w \in Writers : pc[w] = "idle"
    /\ Goto(Owner, "own", IF flushThreadEnabled THEN "rnPause" ELSE "flEnter")
    /\ ret' = [ret EXCEPT ![Owner] = "clEnter"]
    /\ UNCHANGED <<mutexes, atomics, flushThread, policy, contents, app, enabled>>

(* PauseBackgroundThread: the thread it pauses need not be the enabled one  *)
(* any more.                                                                *)
PauseBackgroundThread ==
    /\ Goto(Owner, "rnPause", "flEnter")
    /\ pauseThread' = TRUE
    /\ UNCHANGED <<mutexes, cleanUpThreads, flushThreadEnabled, flushComplete, threadWriting,
                   flushThread, policy, contents, app, locals>>

\* Faulty variant: the file is closed without a flush.
DestroyUnflushed ==
    /\ life = "live" /\ \A w \in Writers : pc[w] = "idle"
    /\ StopBackgroundThread(Owner, "own", "clEnter")
    /\ life' = "dying"
    /\ UNCHANGED <<mutexes, atomics, flushThread, policy, contents, sent, installed, enabled>>

(* ~FileTarget: StopBackgroundThread, then CloseFile, which finds nothing   *)
(* to pause.                                                                *)
Destroy ==
    /\ life = "live" /\ \A w \in Writers : pc[w] = "idle"
    /\ StopBackgroundThread(Owner, "own", "flEnter")
    /\ life' = "dying"
    /\ UNCHANGED <<mutexes, atomics, flushThread, policy, contents, sent, installed, enabled>>

EnterClose ==
    /\ Goto(Owner, "clEnter", "closing")
    /\ EnterBuffer(Owner)
    /\ UNCHANGED <<mutexes, atomics, flushThread, policy, buffer, fileOpen, disk, accepted, app,
                   locals>>

CloseImpl ==
    /\ Goto(Owner, "closing", IF life = "dying" THEN "dtJoin" ELSE "rnMove")
    /\ LeaveBuffer(Owner, <<>>, disk)
    /\ fileOpen' = FALSE
    /\ UNCHANGED <<mutexes, atomics, flushThread, policy, accepted, raced, app, locals>>

(* std::filesystem::rename; when it throws, RenameFile returns false.       *)
MoveFile ==
    /\ \E moved \in MoveOutcomes : Goto(Owner, "rnMove", IF moved THEN "rnOpen" ELSE "own")
    /\ UNCHANGED <<mutexes, atomics, flushThread, policy, contents, app, locals>>

\* Faulty variant: the flush thread is left paused.
OpenWithoutResume ==
    /\ Goto(Owner, "rnOpen", "own")
    /\ MTSupport => fileHelperMutex = NoThread
    /\ fileOpen' \in OpenOutcomes
    /\ UNCHANGED <<mutexes, atomics, flushThread, policy, buffer, disk, accepted, torn, raced,
                   app, locals>>

(* OpenFile: under fileHelperMutex, released at once; resumes the flush     *)
(* thread if the file opens (only the owner writes pauseThread, so the two  *)
(* flags it reads and the one it writes are one step).                      *)
OpenFile ==
    /\ Goto(Owner, "rnOpen", "own")
    /\ MTSupport => fileHelperMutex = NoThread
    /\ \E opened \in OpenOutcomes :
          /\ fileOpen' = opened
          /\ pauseThread' = (pauseThread /\ ~(opened /\ flushThreadEnabled))
    /\ UNCHANGED <<mutexes, cleanUpThreads, flushThreadEnabled, flushComplete, threadWriting,
                   flushThread, policy, buffer, disk, accepted, torn, raced, app, locals>>

(* The jthread member is destroyed with the target: it joins.               *)
JoinFlushThread ==
    /\ Goto(Owner, "dtJoin", "gone")
    /\ flushThread # NoThread => pc[flushThread] = "bgDone"
    /\ life' = "gone"
    /\ UNCHANGED <<mutexes, atomics, flushThread, policy, contents, sent, installed, locals>>

Terminated == life = "gone" /\ UNCHANGED vars

-----------------------------------------------------------------------------
FlushStep(t) == \/ EnterFlush(t) \/ AwaitWriter(t) \/ AnnounceFlush(t)
                \/ LockToFlush(t) \/ FlushImpl(t) \/ FlushDone(t)

StopStep(t) == SignalCleanUp(t) \/ ForgetPolicy(t) \/ DisableThread(t)

(* What a logging thread does once it is inside LogMessage.                 *)
WriterStep(w) ==
    \/ AwaitFlushComplete(w) \/ AnnounceWriting(w) \/ LockToWrite(w) \/ WriteToFile(w)
    \/ WriteDone(w) \/ LockToApplyPolicy(w) \/ ApplyPrimary(w) \/ ApplyPeriodically(w)
    \/ ApplyNoSub(w) \/ FlushOnLevel(w) \/ ReturnFromPolicy(w)
    \/ \E g \in Workers : StartBackgroundThread(w, g) \/ ReplaceFlushThread(w, g)
    \/ StopStep(w) \/ FlushStep(w)

WorkerStep(g) == CheckCleanUp(g) \/ AwaitResume(g) \/ WakeUp(g) \/ FlushStep(g)

OwnerStep == \/ PauseBackgroundThread \/ EnterClose \/ CloseImpl \/ MoveFile \/ OpenFile
             \/ JoinFlushThread \/ StopStep(Owner) \/ FlushStep(Owner)

Application == \/ \E w \in Writers : LogMessage(w)
               \/ \E p \in Policies : SetFlushPolicy(p)
               \/ RenameFile \/ Destroy

Next == \/ Application
        \/ \E w \in Writers : WriterStep(w)
        \/ \E g \in Workers : WorkerStep(g)
        \/ OwnerStep
        \/ Terminated

Spec == Init /\ [][Next]_vars

(* Threads are scheduled (weakly fair).  The flush thread sleeps flushEvery *)
(* between flushes, which leaves a thread that waits for flushComplete or   *)
(* for fileHelperMutex the time to see it free: strongly fair.              *)
Fairness ==
    /\ \A w \in Writers : WF_vars(WriterStep(w)) /\ SF_vars(AwaitFlushComplete(w))
    /\ \A g \in Workers : WF_vars(WorkerStep(g))
    /\ WF_vars(OwnerStep)
    /\ \A t \in Threads : SF_vars(LockToFlush(t))
    /\ SF_vars(OpenFile)

FairSpec == Spec /\ Fairness

-----------------------------------------------------------------------------
(* Which places each mutex is held at, when it is used at all.              *)
FileSection == {"writing", "polMain", "polSub", "polJoin", "polOut"}
                  \union StopPlaces \union FlushPlaces
FileMutexHeld   == MTSupport => \A w \in Writers : fileMutex = w <=> pc[w] \in FileSection
HelperMutexHeld == MTSupport => \A t \in Threads : fileHelperMutex = t <=> pc[t] = "flushing"

(* Who can meet inside the buffer when multi-threading support is on.       *)
(* fileMutex keeps logging threads apart both when they write and when they *)
(* flush for the policy, and fileHelperMutex keeps flushes apart, so a race *)
(* always has the flush thread or the owner on one side and a write or a    *)
(* close on the other.                                                      *)
RacePartners ==
    MTSupport => \A s, t \in BufferUsers : s # t =>
        /\ ~(s \in Writers /\ t \in Writers)
        /\ ~(pc[s] = "flushing" /\ pc[t] = "flushing")

(* README.md on the time interval policy: "will protect against data races  *)
(* when flushing the file to disk".                                         *)
NoDataRace == ~raced

(* The handshake that is to bring that about: a write and a flush that both *)
(* take part in it are never in the buffer together.                        *)
HandshakeProtects ==
    \A w \in Writers, t \in Threads :
        pc[w] = "writing" /\ pc[t] = "flushing" => ~(enabled[w] /\ enabled[t])

(* While a flush that takes part in the handshake is at work, PrintMessage  *)
(* can see it: nobody resets flushComplete under it.                        *)
FlushAnnounced ==
    \A t \in Threads : pc[t] \in {"flLock", "flushing"} /\ enabled[t] => ~flushComplete

(* As long as the buffer is not raced on, what was passed to WriteToFile is *)
(* in the file and the buffer, in order, without loss or repetition,        *)
(* through every interleaving of writes, page hand-overs and flushes.       *)
Conserved == ~raced => disk \o buffer = accepted

(* Messages of at most a page leave less than a page in the buffer, which   *)
(* is reserved once with that capacity; WriteImpl hands over one page only. *)
BufferBounded ==
    ~raced /\ (\A size \in MsgSizes : size <= PageSize) => Len(buffer) < PageSize

(* "This value is used to always flush contents after a log message is      *)
(* made": when LogMessage returns under that policy nothing is buffered.    *)
AlwaysFlushed ==
    \A w \in Writers : pc[w] = "polOut" /\ installed.primary = "always" => buffer = <<>>

(* flushThreadEnabled decides whether PrintMessage shakes hands and whether *)
(* StartBackgroundThread does anything.  It is true only of the thread that *)
(* flushThread owns, and that one runs and is not asked to end, except      *)
(* while a thread is between the stores of StopBackgroundThread: there it   *)
(* may be read as true of a thread that is about to end or has ended.       *)
Stopping == \E t \in Threads : pc[t] \in {"stPolicy", "stDisable"}
EnabledThreadRuns ==
    flushThreadEnabled => /\ flushThread \in Workers /\ pc[flushThread] # "off"
                          /\ Stopping \/ (pc[flushThread] # "bgDone" /\ ~cleanUpThreads)

(* ~FileTarget leaves everything that was logged in the file.               *)
DestroyedComplete == life = "gone" => disk = accepted

(* FileTarget is an append-only log.                                        *)
Log == INSTANCE AppendLog WITH Byte <- Writers, log <- disk \o buffer, durable <- Len(disk)
ImplementsLog == Log!Spec

(* Without the flush thread, a rename or a failing open, fileMutex and the  *)
(* rule that an object in use is not destroyed cover every access: the      *)
(* inductive invariant behind NoDataRace, DestroyedComplete, ImplementsLog. *)
Threadless ==
    /\ MTSupport /\ OpenOutcomes = {TRUE} /\ MoveOutcomes = {}
    /\ \A p \in Policies : p.sub # "timeBased"
ThreadlessInv ==
    /\ policy.sub # "timeBased" /\ ~flushThreadEnabled /\ flushThread = NoThread
    /\ \A g \in Workers : pc[g] = "off"
    /\ \A t \in Threads : /\ ~enabled[t]
                          /\ pc[t] \notin {"flAwait", "flAnnounce", "flDone"} \union StopPlaces
    /\ pc[Owner] = "own" <=> life = "live"
    /\ pc[Owner] = "gone" <=> life = "gone"
    /\ pc[Owner] \notin {"rnPause", "rnMove", "rnOpen"}
    /\ life # "live" => \A w \in Writers : pc[w] = "idle"
    /\ pc[Owner] \in {"own"} \union FlushPlaces => fileOpen
    /\ pc[Owner] \in {"clEnter", "closing", "dtJoin", "gone"} => buffer = <<>>
    /\ torn = {} /\ ~raced
    /\ disk \o buffer = accepted

(* Every LogMessage returns; so do RenameFile and the destructor.           *)
LogMessageReturns == \A w \in Writers : pc[w] # "idle" ~> pc[w] = "idle"
RenameReturns == life = "live" /\ pc[Owner] # "own" ~> pc[Owner] = "own" \/ life # "live"
DestructorReturns == life = "dying" ~> life = "gone"

(* As long as the flush thread is enabled, whatever is buffered is          *)
(* eventually handed to the file, even if nobody logs anything more.        *)
BufferDrains ==
    flushThreadEnabled /\ buffer # <<>> ~> buffer = <<>> \/ ~flushThreadEnabled
=============================================================================
