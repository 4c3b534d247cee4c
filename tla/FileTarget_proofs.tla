-------------------------- MODULE FileTarget_proofs --------------------------
(***************************************************************************)
(* Theorems about FileTarget for any threads, page size, message sizes and  *)
(* policies: its type, what a target without the flush thread keeps, and,   *)
(* with the thread, what it keeps until a data race on the buffer, when     *)
(* flushThreadEnabled tells the truth and when a flush under way is         *)
(* announced.                                                               *)
(***************************************************************************)
EXTENDS FileTarget, SequenceTheorems, TLAPS

(* SubSeq stays within sequences, and cutting one in two loses nothing.     *)
LEMMA CutType ==
    ASSUME NEW S, NEW s \in Seq(S), NEW n \in 0 .. Len(s)
    PROVE  /\ Front(s, n) \in Seq(S) /\ Len(Front(s, n)) = n
           /\ Rest(s, n) \in Seq(S)  /\ Len(Rest(s, n)) = Len(s) - n
BY SubSeqProperties DEF Front, Rest

(* What WriteImpl hands over is a part of the buffer.                       *)
LEMMA PageDrainRange ==
    ASSUME NEW size \in Nat
    PROVE  PageDrain(size) \in 0 .. size
BY PageSizeAssumption DEF PageDrain

(* A message is a sequence of tags of its writer.                           *)
LEMMA MessageType ==
    ASSUME NEW w \in Writers, NEW size \in MsgSizes
    PROVE  [i \in 1 .. size |-> w] \in Seq(Writers)
BY InputsAssumption

(* Owner, writers and workers are threads, and no thread is none.           *)
LEMMA ThreadKinds ==
    /\ Owner \in Threads /\ Writers \subseteq Threads /\ Workers \subseteq Threads
    /\ NoThread \notin Threads
BY ThreadsAssumption DEF Threads

(* Whatever a torn section leaves behind is one of the two candidates.      *)
LEMMA LeaveBufferType ==
    ASSUME ContentsType, NEW t \in Threads,
           NEW newBuffer \in Seq(Writers), NEW newDisk \in Seq(Writers),
           LeaveBuffer(t, newBuffer, newDisk)
    PROVE  /\ buffer' \in Seq(Writers) /\ disk' \in Seq(Writers)
           /\ torn' \in SUBSET Threads
BY DEF LeaveBuffer, ContentsType

(* A step keeps every atomic Boolean.                                       *)
LEMMA FlagsStep ==
    ASSUME FlagsType, [Next]_vars
    PROVE  FlagsType'
<1> USE DEF FlagsType, atomics
<1>1. CASE UNCHANGED atomics
  BY <1>1
<1>2. CASE \/ \E w \in Writers : AnnounceWriting(w) \/ WriteDone(w)
           \/ \E t \in Threads : SignalCleanUp(t) \/ DisableThread(t)
  BY <1>2 DEF AnnounceWriting, WriteDone, SignalCleanUp, DisableThread
<1>3. CASE \E w \in Writers, g \in Workers :
              StartBackgroundThread(w, g) \/ ReplaceFlushThread(w, g)
  BY <1>3 DEF StartBackgroundThread, ReplaceFlushThread
<1>4. CASE \E t \in Threads : AnnounceFlush(t) \/ FlushDone(t)
  BY <1>4 DEF AnnounceFlush, FlushDone
<1>5. CASE PauseBackgroundThread \/ OpenFile
  BY <1>5 DEF PauseBackgroundThread, OpenFile
<1> HIDE DEF atomics
<1>6. QED
  BY <1>1, <1>2, <1>3, <1>4, <1>5, ThreadKinds
     DEF Next, Application, WriterStep, WorkerStep, OwnerStep, FlushStep, vars, LogMessage,
         AwaitFlushComplete, LockToWrite, WriteToFile, LockToApplyPolicy, ApplyPrimary,
         ApplyPeriodically, ApplyNoSub, FlushOnLevel, ReturnFromPolicy, StopStep,
         ForgetPolicy, EnterFlush, AwaitWriter, LockToFlush, FlushImpl, CheckCleanUp,
         AwaitResume, WakeUp, SetFlushPolicy, RenameFile, Destroy, EnterClose, CloseImpl,
         MoveFile, JoinFlushThread, Terminated

(* A step keeps the buffer, the file and the history byte sequences.        *)
LEMMA ContentsStep ==
    ASSUME ContentsType, [Next]_vars
    PROVE  ContentsType'
<1> USE DEF ContentsType, contents
<1>1. CASE UNCHANGED contents
  BY <1>1
<1>2. CASE \/ \E w \in Writers : LockToWrite(w)
           \/ \E t \in Threads : LockToFlush(t)
           \/ EnterClose
  BY <1>2, ThreadKinds DEF LockToWrite, LockToFlush, EnterClose, EnterBuffer, BufferUsers
<1>3. ASSUME NEW w \in Writers, WriteToFile(w) PROVE ContentsType'
  <2>1. PICK size \in MsgSizes :
          LET msg == [i \in 1 .. size |-> w]
              all == buffer \o msg
              n   == PageDrain(Len(all))
          IN  /\ LeaveBuffer(w, Rest(all, n), Written(Front(all, n)))
              /\ accepted' = accepted \o msg
    BY <1>3 DEF WriteToFile
  <2> DEFINE msg == [i \in 1 .. size |-> w]
             all == buffer \o msg
             n   == PageDrain(Len(all))
  <2>2. msg \in Seq(Writers)
    BY MessageType
  <2> HIDE DEF msg
  <2>3. all \in Seq(Writers) /\ accepted \o msg \in Seq(Writers)
    BY <2>2
  <2> HIDE DEF all
  <2>4. n \in 0 .. Len(all)
    BY <2>3, PageDrainRange
  <2> HIDE DEF n
  <2>5. Rest(all, n) \in Seq(Writers) /\ Front(all, n) \in Seq(Writers)
    BY <2>3, <2>4, CutType
  <2>6. Written(Front(all, n)) \in Seq(Writers)
    BY <2>5 DEF Written
  <2>7. buffer' \in Seq(Writers) /\ disk' \in Seq(Writers) /\ torn' \in SUBSET Threads
    BY <2>1, <2>5, <2>6, LeaveBufferType, ThreadKinds DEF msg, all, n
  <2>8. QED
    BY <1>3, <2>1, <2>3, <2>7 DEF WriteToFile, msg
<1>4. ASSUME NEW t \in Threads, FlushImpl(t) PROVE ContentsType'
  <2>1. Written(buffer) \in Seq(Writers)
    BY DEF Written
  <2>2. <<>> \in Seq(Writers)
    BY EmptySeq
  <2>3. buffer' \in Seq(Writers) /\ disk' \in Seq(Writers) /\ torn' \in SUBSET Threads
    BY <1>4, <2>1, <2>2, LeaveBufferType DEF FlushImpl
  <2>4. QED
    BY <1>4, <2>3 DEF FlushImpl
<1>5. CASE CloseImpl
  <2>1. <<>> \in Seq(Writers)
    BY EmptySeq
  <2>2. buffer' \in Seq(Writers) /\ disk' \in Seq(Writers) /\ torn' \in SUBSET Threads
    BY <1>5, <2>1, LeaveBufferType, ThreadKinds DEF CloseImpl
  <2>3. QED
    BY <1>5, <2>2 DEF CloseImpl
<1>6. CASE OpenFile
  BY <1>6, InputsAssumption DEF OpenFile
<1> HIDE DEF contents
<1>7. QED
  BY <1>1, <1>2, <1>3, <1>4, <1>5, <1>6, ThreadKinds
     DEF Next, Application, WriterStep, WorkerStep, OwnerStep, FlushStep, vars, LogMessage,
         AwaitFlushComplete, AnnounceWriting, WriteDone, LockToApplyPolicy, ApplyPrimary,
         ApplyPeriodically, ApplyNoSub, FlushOnLevel, ReturnFromPolicy, StopStep,
         SignalCleanUp, ForgetPolicy, DisableThread,
         StartBackgroundThread, ReplaceFlushThread, EnterFlush, AwaitWriter, AnnounceFlush,
         FlushDone, CheckCleanUp, AwaitResume, WakeUp, SetFlushPolicy, RenameFile,
         PauseBackgroundThread, Destroy, MoveFile, JoinFlushThread, Terminated

(* A step keeps the mutex holders, the policies and the locals of Flush and *)
(* PrintMessage within their types.                                         *)
LEMMA ControlStep ==
    ASSUME ControlType, FlagsType, [Next]_vars
    PROVE  ControlType'
<1> USE ThreadKinds DEF ControlType, FlagsType, Goto, Lock, Unlock
<1>1. CASE UNCHANGED vars
  BY <1>1 DEF vars, mutexes, app, locals
<1> USE DEF mutexes, app, locals
<1>2. ASSUME NEW w \in Writers,
             \/ LogMessage(w) \/ AwaitFlushComplete(w) \/ AnnounceWriting(w)
             \/ LockToWrite(w) \/ WriteToFile(w) \/ WriteDone(w) \/ LockToApplyPolicy(w)
      PROVE  ControlType'
  <2>1. CASE LogMessage(w) \/ AwaitFlushComplete(w) \/ AnnounceWriting(w)
    BY <2>1 DEF LogMessage, AwaitFlushComplete, AnnounceWriting
  <2>2. CASE LockToWrite(w) \/ WriteDone(w) \/ LockToApplyPolicy(w)
    BY <2>2 DEF LockToWrite, WriteDone, LockToApplyPolicy
  <2>3. CASE WriteToFile(w)
    BY <2>3 DEF WriteToFile
  <2>4. QED
    BY <1>2, <2>1, <2>2, <2>3
<1>3. ASSUME NEW w \in Writers,
             \/ ApplyPrimary(w) \/ ApplyPeriodically(w) \/ ApplyNoSub(w) \/ FlushOnLevel(w)
             \/ ReturnFromPolicy(w)
      PROVE  ControlType'
  BY <1>3 DEF ApplyPrimary, StopBackgroundThread, FlushReturn, ApplyPeriodically, ApplyNoSub,
              FlushOnLevel, ReturnFromPolicy
<1>4. ASSUME NEW w \in Writers, NEW g \in Workers,
             StartBackgroundThread(w, g) \/ ReplaceFlushThread(w, g)
      PROVE  ControlType'
  BY <1>4 DEF StartBackgroundThread, ReplaceFlushThread, Policy, FlushSetting, PeriodicOptions
<1>5. ASSUME NEW t \in Threads, FlushStep(t) PROVE ControlType'
  BY <1>5 DEF FlushStep, EnterFlush, AwaitWriter, AnnounceFlush, LockToFlush, FlushImpl, FlushDone
<1>6. ASSUME NEW g \in Workers, CheckCleanUp(g) \/ AwaitResume(g) \/ WakeUp(g)
      PROVE  ControlType'
  BY <1>6 DEF CheckCleanUp, AwaitResume, WakeUp
<1>7. ASSUME NEW p \in Policies, SetFlushPolicy(p) PROVE ControlType'
  BY <1>7, InputsAssumption DEF SetFlushPolicy
<1>8. CASE RenameFile \/ PauseBackgroundThread \/ Destroy
  BY <1>8 DEF RenameFile, PauseBackgroundThread, Destroy, StopBackgroundThread, FlushReturn
<1>9. CASE EnterClose \/ CloseImpl \/ MoveFile \/ OpenFile \/ JoinFlushThread
  BY <1>9 DEF EnterClose, CloseImpl, MoveFile, OpenFile, JoinFlushThread
<1>10. ASSUME NEW t \in Threads, StopStep(t) PROVE ControlType'
  BY <1>10 DEF StopStep, SignalCleanUp, ForgetPolicy, DisableThread, FlushReturn, Policy,
               FlushSetting, PeriodicOptions
<1>11. QED
  BY <1>1, <1>2, <1>3, <1>4, <1>5, <1>6, <1>7, <1>8, <1>9, <1>10
     DEF Next, Application, WriterStep, WorkerStep, OwnerStep, Terminated

(* One thread moves to a place that is proper for it, the others stay.      *)
LEMMA MovePlace ==
    ASSUME PlacesType, ControlType, NEW t \in Threads, NEW place,
           pc' = [pc EXCEPT ![t] = place],
           \A u \in Threads \ {t} : ret'[u] = ret[u],
           ProperPlace(t, place, ret'[t])
    PROVE  PlacesType'
<1>1. place \in Places
  BY DEF ProperPlace, Places
<1>2. pc' \in [Threads -> Places]
  BY <1>1 DEF PlacesType
<1>3. ASSUME NEW u \in Threads PROVE ProperPlace(u, pc'[u], ret'[u])
  BY DEF PlacesType
<1>4. QED
  BY <1>2, <1>3, Zenon DEF PlacesType, ProperPlace

(* Every thread goes on within the functions it may be in.                  *)
LEMMA PlacesStep ==
    ASSUME PlacesType, ControlType, FlagsType, [Next]_vars
    PROVE  PlacesType'
<1> USE ThreadKinds, ThreadsAssumption, MovePlace
        DEF Goto, locals, WriterPlaces, StopPlaces, FlushPlaces, WorkerPlaces, OwnerPlaces
<1>1. CASE UNCHANGED vars
  BY <1>1 DEF vars, PlacesType
<1>2. ASSUME NEW w \in Writers,
             \/ LogMessage(w) \/ AwaitFlushComplete(w) \/ AnnounceWriting(w)
             \/ LockToWrite(w) \/ WriteToFile(w) \/ WriteDone(w) \/ LockToApplyPolicy(w)
      PROVE  PlacesType'
  <2> PICK place \in WriterPlaces : pc' = [pc EXCEPT ![w] = place] /\ ret' = ret
    BY <1>2 DEF LogMessage, AwaitFlushComplete, AnnounceWriting, LockToWrite, WriteToFile,
                WriteDone, LockToApplyPolicy
  <2> QED
    BY DEF ProperPlace
<1>3. ASSUME NEW w \in Writers,
             ApplyPeriodically(w) \/ ApplyNoSub(w) \/ ReturnFromPolicy(w)
      PROVE  PlacesType'
  <2> PICK place \in WriterPlaces : pc' = [pc EXCEPT ![w] = place] /\ ret' = ret
    BY <1>3 DEF ApplyPeriodically, ApplyNoSub, ReturnFromPolicy
  <2> QED
    BY DEF ProperPlace
<1>4. ASSUME NEW w \in Writers, ApplyPrimary(w) \/ FlushOnLevel(w) PROVE PlacesType'
  <2>1. PICK place \in {"polSub", "stSignal", "flEnter"}, back \in {"polSub", "polOut", "flEnter"} :
           /\ pc' = [pc EXCEPT ![w] = place] /\ ret' = [ret EXCEPT ![w] = back]
           /\ place = "stSignal" => back \in {"polSub", "flEnter"}
           /\ place = "flEnter" => back \in {"polSub", "polOut"}
    BY <1>4 DEF ApplyPrimary, FlushOnLevel, StopBackgroundThread, FlushReturn
  <2>2. ret'[w] = back /\ \A u \in Threads \ {w} : ret'[u] = ret[u]
    BY <2>1 DEF ControlType
  <2> QED
    BY <2>1, <2>2 DEF ProperPlace
<1>5. ASSUME NEW w \in Writers, NEW g \in Workers, StartBackgroundThread(w, g)
      PROVE  PlacesType'
  <2>1. /\ pc' = [pc EXCEPT ![w] = "polJoin", ![g] = "bgTop"]
        /\ ret' = ret
    BY <1>5 DEF StartBackgroundThread
  <2>2. ASSUME NEW t \in Threads PROVE ProperPlace(t, pc'[t], ret'[t])
    <3>1. pc'[t] = IF t = g THEN "bgTop" ELSE IF t = w THEN "polJoin" ELSE pc[t]
      BY <2>1 DEF PlacesType
    <3>2. QED
      BY <2>1, <3>1 DEF PlacesType, ProperPlace
  <2>3. pc' \in [Threads -> Places]
    BY <2>1 DEF PlacesType, Places
  <2>4. QED
    BY <2>2, <2>3 DEF PlacesType, ProperPlace
<1>6. ASSUME NEW w \in Writers, NEW g \in Workers, ReplaceFlushThread(w, g)
      PROVE  PlacesType'
  <2>1. /\ pc' = [t \in Threads |-> IF t = w THEN "polOut"
                                    ELSE IF t = flushThread THEN "off" ELSE pc[t]]
        /\ ret' = ret
        /\ flushThread \in Workers \union {NoThread}
    BY <1>6 DEF ReplaceFlushThread, ControlType
  <2>2. ASSUME NEW t \in Threads PROVE ProperPlace(t, pc'[t], ret'[t])
    BY <2>1 DEF PlacesType, ProperPlace
  <2>3. pc' \in [Threads -> Places]
    BY <2>1 DEF PlacesType, Places
  <2>4. QED
    BY <2>2, <2>3 DEF PlacesType, ProperPlace
<1>7. ASSUME NEW t \in Threads, FlushStep(t) PROVE PlacesType'
  <2>1. CASE EnterFlush(t) \/ AwaitWriter(t) \/ AnnounceFlush(t) \/ LockToFlush(t)
    <3>1. PICK place \in FlushPlaces : pc' = [pc EXCEPT ![t] = place] /\ ret' = ret
      BY <2>1 DEF EnterFlush, AwaitWriter, AnnounceFlush, LockToFlush
    <3>2. pc[t] \in FlushPlaces \ {"idle", "own", "off"}
      BY <2>1 DEF EnterFlush, AwaitWriter, AnnounceFlush, LockToFlush
    <3>3. QED
      BY <3>1, <3>2 DEF PlacesType, ProperPlace
  <2>2. CASE FlushImpl(t) \/ FlushDone(t)
    <3>1. PICK place \in {"flDone", ret[t]} : pc' = [pc EXCEPT ![t] = place] /\ ret' = ret
      BY <2>2 DEF FlushImpl, FlushDone
    <3>2. pc[t] \in {"flushing", "flDone"}
      BY <2>2 DEF FlushImpl, FlushDone
    <3>3. ProperPlace(t, place, ret'[t])
      BY <3>1, <3>2 DEF PlacesType, ProperPlace
    <3>4. \A u \in Threads \ {t} : ret'[u] = ret[u]
      BY <3>1
    <3>5. QED
      BY <3>1, <3>3, <3>4, MovePlace, Zenon
  <2>3. QED
    BY <1>7, <2>1, <2>2 DEF FlushStep
<1>8. ASSUME NEW g \in Workers, CheckCleanUp(g) \/ AwaitResume(g) \/ WakeUp(g)
      PROVE  PlacesType'
  <2>1. CASE CheckCleanUp(g) \/ WakeUp(g)
    <3>1. PICK place \in WorkerPlaces : pc' = [pc EXCEPT ![g] = place] /\ ret' = ret
      BY <2>1 DEF CheckCleanUp, WakeUp
    <3>2. QED
      BY <3>1 DEF ProperPlace
  <2>2. CASE AwaitResume(g)
    <3>1. pc' = [pc EXCEPT ![g] = "flEnter"] /\ ret' = [ret EXCEPT ![g] = "bgSleep"]
      BY <2>2 DEF AwaitResume
    <3>2. ret'[g] = "bgSleep" /\ \A u \in Threads \ {g} : ret'[u] = ret[u]
      BY <3>1 DEF ControlType
    <3>3. QED
      BY <3>1, <3>2 DEF ProperPlace
  <2>3. QED
    BY <1>8, <2>1, <2>2
<1>9. ASSUME NEW p \in Policies, SetFlushPolicy(p) PROVE PlacesType'
  BY <1>9 DEF SetFlushPolicy, PlacesType
<1>10. CASE RenameFile \/ Destroy
  <2>1. PICK place \in {"rnPause", "stSignal", "flEnter"}, back \in {"flEnter", "clEnter"} :
           /\ pc' = [pc EXCEPT ![Owner] = place] /\ ret' = [ret EXCEPT ![Owner] = back]
           /\ back = IF place = "stSignal" THEN "flEnter" ELSE "clEnter"
    BY <1>10 DEF RenameFile, Destroy, StopBackgroundThread, FlushReturn
  <2>2. ret'[Owner] = back /\ \A u \in Threads \ {Owner} : ret'[u] = ret[u]
    BY <2>1 DEF ControlType
  <2>3. ProperPlace(Owner, place, ret'[Owner])
    BY <2>1, <2>2 DEF ProperPlace
  <2>4. QED
    BY <2>1, <2>2, <2>3, MovePlace, Zenon
<1>11. CASE PauseBackgroundThread
  <2>1. pc[Owner] = "rnPause" /\ pc' = [pc EXCEPT ![Owner] = "flEnter"] /\ ret' = ret
    BY <1>11 DEF PauseBackgroundThread
  <2>2. ret[Owner] = "clEnter"
    BY <2>1 DEF PlacesType, ProperPlace
  <2>3. ProperPlace(Owner, "flEnter", ret'[Owner])
    BY <2>1, <2>2 DEF ProperPlace
  <2>4. QED
    BY <2>1, <2>3, MovePlace, Zenon
<1>12. ASSUME NEW t \in Threads, StopStep(t) PROVE PlacesType'
  <2>1. pc[t] \in StopPlaces
    BY <1>12 DEF StopStep, SignalCleanUp, ForgetPolicy, DisableThread
  <2>2. \/ t \in Writers /\ ret[t] \in {"polSub", "flEnter"} /\ FlushReturn(t) = "polSub"
        \/ t = Owner /\ ret[t] = "flEnter" /\ FlushReturn(t) = "clEnter"
    BY <2>1 DEF PlacesType, ProperPlace, FlushReturn
  <2>3. \/ pc' = [pc EXCEPT ![t] = "stPolicy"] /\ ret' = ret
        \/ pc' = [pc EXCEPT ![t] = "stDisable"] /\ ret' = ret
        \/ pc' = [pc EXCEPT ![t] = ret[t]] /\ ret' = [ret EXCEPT ![t] = FlushReturn(t)]
    BY <1>12 DEF StopStep, SignalCleanUp, ForgetPolicy, DisableThread
  <2>4. ASSUME NEW place \in {"stPolicy", "stDisable"}, pc' = [pc EXCEPT ![t] = place], ret' = ret
        PROVE  PlacesType'
    <3>1. ProperPlace(t, place, ret'[t])
      BY <2>2, <2>4 DEF ProperPlace, StopPlaces
    <3>2. QED
      BY <2>4, <3>1, MovePlace, Zenon
  <2>5. CASE pc' = [pc EXCEPT ![t] = ret[t]] /\ ret' = [ret EXCEPT ![t] = FlushReturn(t)]
    <3>1. ret'[t] = FlushReturn(t) /\ \A u \in Threads \ {t} : ret'[u] = ret[u]
      BY <2>5 DEF ControlType
    <3>2. ProperPlace(t, ret[t], ret'[t])
      BY <2>2, <3>1 DEF ProperPlace
    <3>3. QED
      BY <2>5, <3>1, <3>2, MovePlace, Zenon
  <2>6. QED
    BY <2>3, <2>4, <2>5
<1>13. CASE EnterClose \/ CloseImpl \/ MoveFile \/ OpenFile \/ JoinFlushThread
  <2>1. PICK place \in OwnerPlaces : pc' = [pc EXCEPT ![Owner] = place] /\ ret' = ret
    BY <1>13 DEF EnterClose, CloseImpl, MoveFile, OpenFile, JoinFlushThread
  <2>2. QED
    BY <2>1 DEF ProperPlace
<1>14. QED
  BY <1>1, <1>2, <1>3, <1>4, <1>5, <1>6, <1>7, <1>8, <1>9, <1>10, <1>11, <1>12, <1>13
     DEF Next, Application, WriterStep, WorkerStep, OwnerStep, Terminated

(* Each part of the state keeps the type its declaration in the code gives  *)
(* it, and each thread stays in the functions it may call.                  *)
THEOREM TypeCorrect == Spec => []TypeOK
<1>1. Init => TypeOK
  <2> SUFFICES ASSUME Init PROVE TypeOK
    OBVIOUS
  <2> USE ThreadKinds, ThreadsAssumption
  <2>1. ContentsType
    BY InputsAssumption, EmptySeq DEF Init, ContentsType
  <2>2. FlagsType
    BY DEF Init, FlagsType
  <2>3. ControlType
    BY DEF Init, ControlType, Policy, FlushSetting, PeriodicOptions
  <2>4. PlacesType
    <3>1. ASSUME NEW t \in Threads
          PROVE  \/ pc[t] = "idle" /\ t \in Writers
                 \/ pc[t] = "off" /\ t \in Workers
                 \/ pc[t] = "own" /\ t = Owner
      BY DEF Init, Threads
    <3>2. ASSUME NEW t \in Threads PROVE ProperPlace(t, pc[t], ret[t])
      BY <3>1 DEF ProperPlace, WriterPlaces, WorkerPlaces, OwnerPlaces
    <3>3. pc \in [Threads -> Places]
      <4>1. pc = [t \in Threads |-> pc[t]]
        BY DEF Init
      <4>2. QED
        BY <4>1, <3>2 DEF ProperPlace, Places
    <3>4. QED
      BY <3>2, <3>3 DEF PlacesType
  <2>5. QED
    BY <2>1, <2>2, <2>3, <2>4 DEF TypeOK
<1>2. TypeOK /\ [Next]_vars => TypeOK'
  BY ContentsStep, FlagsStep, ControlStep, PlacesStep DEF TypeOK
<1>3. QED
  BY <1>1, <1>2, PTL DEF Spec

-----------------------------------------------------------------------------
(* The mutexes.  A step of one thread leaves the places of the others       *)
(* alone, so each action is checked for the thread that takes it.           *)
LEMMA FileMutexStep ==
    ASSUME TypeOK, FileMutexHeld, [Next]_vars
    PROVE  FileMutexHeld'
<1> SUFFICES ASSUME MTSupport PROVE FileMutexHeld'
  BY DEF FileMutexHeld
<1> USE ThreadKinds, ThreadsAssumption
        DEF FileMutexHeld, FileSection, StopPlaces, FlushPlaces, Goto, Lock, Unlock, mutexes
<1>1. pc \in [Threads -> Places]
  BY DEF TypeOK, PlacesType
<1>2. CASE UNCHANGED vars
  BY <1>2 DEF vars
<1>3. ASSUME NEW w \in Writers,
             \/ LogMessage(w) \/ AwaitFlushComplete(w) \/ AnnounceWriting(w) \/ WriteDone(w)
      PROVE  FileMutexHeld'
  BY <1>1, <1>3 DEF LogMessage, AwaitFlushComplete, AnnounceWriting, WriteDone
<1>4. ASSUME NEW w \in Writers, LockToWrite(w) \/ LockToApplyPolicy(w) PROVE FileMutexHeld'
  BY <1>1, <1>4 DEF LockToWrite, LockToApplyPolicy
<1>5. ASSUME NEW w \in Writers, WriteToFile(w) \/ ReturnFromPolicy(w) PROVE FileMutexHeld'
  BY <1>1, <1>5 DEF WriteToFile, ReturnFromPolicy
<1>6. ASSUME NEW w \in Writers,
             ApplyPrimary(w) \/ ApplyPeriodically(w) \/ ApplyNoSub(w) \/ FlushOnLevel(w)
      PROVE  FileMutexHeld'
  BY <1>1, <1>6
     DEF ApplyPrimary, StopBackgroundThread, ApplyPeriodically, ApplyNoSub, FlushOnLevel
<1>7. ASSUME NEW w \in Writers, NEW g \in Workers,
             StartBackgroundThread(w, g) \/ ReplaceFlushThread(w, g)
      PROVE  FileMutexHeld'
  BY <1>1, <1>7 DEF StartBackgroundThread, ReplaceFlushThread, TypeOK, ControlType
<1>8. ASSUME NEW t \in Threads, FlushStep(t) PROVE FileMutexHeld'
  <2>1. UNCHANGED fileMutex
    BY <1>8 DEF FlushStep, EnterFlush, AwaitWriter, AnnounceFlush, LockToFlush, FlushImpl,
                FlushDone
  <2>2. PICK place \in FlushPlaces \union {ret[t]} : pc' = [pc EXCEPT ![t] = place]
    BY <1>8 DEF FlushStep, EnterFlush, AwaitWriter, AnnounceFlush, LockToFlush, FlushImpl,
                FlushDone
  <2>3. pc[t] \in FlushPlaces
    BY <1>8 DEF FlushStep, EnterFlush, AwaitWriter, AnnounceFlush, LockToFlush, FlushImpl,
                FlushDone
  <2>4. t \in Writers => place \in FileSection
    BY <2>2, <2>3 DEF TypeOK, PlacesType, ProperPlace, WriterPlaces
  <2>5. QED
    BY <1>1, <2>1, <2>2, <2>3, <2>4
<1>9. ASSUME NEW g \in Workers, CheckCleanUp(g) \/ AwaitResume(g) \/ WakeUp(g)
      PROVE  FileMutexHeld'
  BY <1>1, <1>9 DEF CheckCleanUp, AwaitResume, WakeUp
<1>10. ASSUME NEW p \in Policies, SetFlushPolicy(p) PROVE FileMutexHeld'
  BY <1>10 DEF SetFlushPolicy
<1>11. CASE \/ RenameFile \/ PauseBackgroundThread \/ Destroy \/ EnterClose \/ CloseImpl
            \/ MoveFile \/ OpenFile \/ JoinFlushThread
  BY <1>1, <1>11
     DEF RenameFile, PauseBackgroundThread, Destroy, StopBackgroundThread, EnterClose, CloseImpl,
         MoveFile, OpenFile, JoinFlushThread
<1>12. ASSUME NEW t \in Threads, StopStep(t) PROVE FileMutexHeld'
  <2>1. UNCHANGED fileMutex /\ pc[t] \in StopPlaces
    BY <1>12 DEF StopStep, SignalCleanUp, ForgetPolicy, DisableThread
  <2>2. PICK place \in StopPlaces \union {ret[t]} : pc' = [pc EXCEPT ![t] = place]
    BY <1>12 DEF StopStep, SignalCleanUp, ForgetPolicy, DisableThread
  <2>3. t \in Writers => place \in FileSection
    BY <2>1, <2>2 DEF TypeOK, PlacesType, ProperPlace, WriterPlaces
  <2>4. QED
    BY <1>1, <2>1, <2>2, <2>3
<1>13. QED
  BY <1>2, <1>3, <1>4, <1>5, <1>6, <1>7, <1>8, <1>9, <1>10, <1>11, <1>12
     DEF Next, Application, WriterStep, WorkerStep, OwnerStep, Terminated

(* fileHelperMutex is held exactly while a thread runs FlushImpl.           *)
LEMMA HelperMutexStep ==
    ASSUME TypeOK, HelperMutexHeld, [Next]_vars
    PROVE  HelperMutexHeld'
<1> SUFFICES ASSUME MTSupport PROVE HelperMutexHeld'
  BY DEF HelperMutexHeld
<1> USE ThreadKinds, ThreadsAssumption DEF HelperMutexHeld, Goto, Lock, Unlock, mutexes
<1>1. pc \in [Threads -> Places]
  BY DEF TypeOK, PlacesType
<1>2. CASE UNCHANGED vars
  BY <1>2 DEF vars
<1>3. ASSUME NEW w \in Writers,
             \/ LogMessage(w) \/ AwaitFlushComplete(w) \/ AnnounceWriting(w)
             \/ LockToWrite(w) \/ WriteToFile(w) \/ WriteDone(w) \/ LockToApplyPolicy(w)
             \/ ApplyPrimary(w) \/ ApplyPeriodically(w) \/ ApplyNoSub(w) \/ FlushOnLevel(w)
             \/ ReturnFromPolicy(w)
      PROVE  HelperMutexHeld'
  BY <1>1, <1>3 DEF LogMessage, AwaitFlushComplete, AnnounceWriting, LockToWrite, WriteToFile,
                    WriteDone, LockToApplyPolicy, ApplyPrimary, StopBackgroundThread,
                    ApplyPeriodically, ApplyNoSub, FlushOnLevel, ReturnFromPolicy
<1>4. ASSUME NEW w \in Writers, NEW g \in Workers,
             StartBackgroundThread(w, g) \/ ReplaceFlushThread(w, g)
      PROVE  HelperMutexHeld'
  BY <1>1, <1>4 DEF StartBackgroundThread, ReplaceFlushThread, TypeOK, ControlType
<1>5. ASSUME NEW t \in Threads,
             EnterFlush(t) \/ AwaitWriter(t) \/ AnnounceFlush(t) \/ LockToFlush(t)
      PROVE  HelperMutexHeld'
  BY <1>1, <1>5 DEF EnterFlush, AwaitWriter, AnnounceFlush, LockToFlush
<1>6. ASSUME NEW t \in Threads, FlushImpl(t) \/ FlushDone(t) \/ StopStep(t)
      PROVE  HelperMutexHeld'
  <2>1. ret[t] # "flushing"
    BY DEF TypeOK, ControlType
  <2>2. QED
    BY <1>1, <1>6, <2>1
       DEF FlushImpl, FlushDone, StopStep, SignalCleanUp, ForgetPolicy, DisableThread
<1>7. ASSUME NEW g \in Workers, CheckCleanUp(g) \/ AwaitResume(g) \/ WakeUp(g)
      PROVE  HelperMutexHeld'
  BY <1>1, <1>7 DEF CheckCleanUp, AwaitResume, WakeUp
<1>8. ASSUME NEW p \in Policies, SetFlushPolicy(p) PROVE HelperMutexHeld'
  BY <1>8 DEF SetFlushPolicy
<1>9. CASE \/ RenameFile \/ PauseBackgroundThread \/ Destroy \/ EnterClose \/ CloseImpl
           \/ MoveFile \/ OpenFile \/ JoinFlushThread
  BY <1>1, <1>9
     DEF RenameFile, PauseBackgroundThread, Destroy, StopBackgroundThread, EnterClose, CloseImpl,
         MoveFile, OpenFile, JoinFlushThread
<1>10. QED
  BY <1>2, <1>3, <1>4, <1>5, <1>6, <1>7, <1>8, <1>9
     DEF Next, Application, WriterStep, WorkerStep, OwnerStep, FlushStep, Terminated

(* With multi-threading support on, each mutex is held at exactly the       *)
(* places its unique_lock covers, however threads interleave.               *)
THEOREM MutexesHeld == Spec => [](FileMutexHeld /\ HelperMutexHeld)
<1>1. Init => FileMutexHeld /\ HelperMutexHeld
  BY ThreadKinds, ThreadsAssumption
     DEF Init, FileMutexHeld, HelperMutexHeld, FileSection, StopPlaces, FlushPlaces, Threads
<1>2. TypeOK /\ FileMutexHeld /\ HelperMutexHeld /\ [Next]_vars
        => FileMutexHeld' /\ HelperMutexHeld'
  BY FileMutexStep, HelperMutexStep
<1>3. QED
  BY <1>1, <1>2, TypeCorrect, PTL DEF Spec

(* A race on the buffer always has the flush thread or the owner on one     *)
(* side, and a write or a close on the other.                               *)
THEOREM RacesNeedTheWorker == Spec => []RacePartners
<1>1. TypeOK /\ FileMutexHeld /\ HelperMutexHeld => RacePartners
  <2> SUFFICES ASSUME TypeOK, FileMutexHeld, HelperMutexHeld, MTSupport,
                      NEW s \in BufferUsers, NEW t \in BufferUsers, s # t
               PROVE  /\ ~(s \in Writers /\ t \in Writers)
                      /\ ~(pc[s] = "flushing" /\ pc[t] = "flushing")
    BY DEF RacePartners
  <2>1. ASSUME s \in Writers, t \in Writers PROVE FALSE
    <3>1. pc[s] \in FileSection /\ pc[t] \in FileSection
      BY <2>1, ThreadsAssumption
         DEF BufferUsers, TypeOK, PlacesType, ProperPlace, WriterPlaces, FlushPlaces, FileSection
    <3>2. QED
      BY <2>1, <3>1 DEF FileMutexHeld
  <2>2. ASSUME pc[s] = "flushing", pc[t] = "flushing" PROVE FALSE
    BY <2>2 DEF HelperMutexHeld, BufferUsers
  <2>3. QED
    BY <2>1, <2>2
<1>2. QED
  BY <1>1, TypeCorrect, MutexesHeld, PTL

-----------------------------------------------------------------------------
(* Without the flush thread.                                                *)
LEMMA CutWhole ==
    ASSUME NEW S, NEW s \in Seq(S), NEW n \in 0 .. Len(s)
    PROVE  Front(s, n) \o Rest(s, n) = s
<1>1. Len(s) \in Nat /\ 1 \in 1 .. Len(s) + 1 /\ n \in 1 - 1 .. Len(s) /\ Len(s) \in n .. Len(s)
  OBVIOUS
<1>2. SubSeq(s, 1, n) \o SubSeq(s, n + 1, Len(s)) = SubSeq(s, 1, Len(s))
  BY <1>1, ConcatAdjacentSubSeq, Zenon
<1>3. QED
  BY <1>2, SubSeqFull DEF Front, Rest

(* The parts of the type that say where a thread is.                        *)
LEMMA PcType ==
    ASSUME TypeOK
    PROVE  /\ pc \in [Threads -> Places]
           /\ ret \in [Threads -> {"polSub", "polOut", "bgSleep", "flEnter", "clEnter"}]
           /\ enabled \in [Threads -> BOOLEAN]
BY DEF TypeOK, PlacesType, ControlType

(* Where Flush and StopBackgroundThread return to.                          *)
LEMMA FlushReturns ==
    ASSUME TypeOK, NEW t \in Threads, pc[t] \in FlushPlaces
    PROVE  ret[t] \in {"polSub", "polOut", "bgSleep", "clEnter"}
BY DEF TypeOK, PlacesType, ProperPlace, WriterPlaces, WorkerPlaces, OwnerPlaces, FlushPlaces,
       StopPlaces
LEMMA StopReturns ==
    ASSUME TypeOK, NEW t \in Threads, pc[t] \in StopPlaces
    PROVE  /\ t \notin Workers
           /\ ret[t] \in {"polSub", "flEnter"}
           /\ t = Owner => ret[t] = "flEnter"
BY ThreadsAssumption
   DEF TypeOK, PlacesType, ProperPlace, WriterPlaces, WorkerPlaces, OwnerPlaces, FlushPlaces,
       StopPlaces

(* Whoever enters the buffer is alone in it.                                *)
LEMMA EntersAlone ==
    ASSUME Threadless, TypeOK, FileMutexHeld, ThreadlessInv,
           NEW t \in Threads,
           \/ t \in Writers /\ pc[t] = "prLock" /\ fileMutex = NoThread
           \/ pc[t] = "flLock"
           \/ t = Owner /\ pc[t] = "clEnter"
    PROVE  BufferUsers = {}
<1> SUFFICES ASSUME NEW u \in Threads, pc[u] \in {"writing", "flushing", "closing"}
             PROVE  FALSE
  BY DEF BufferUsers
<1> USE ThreadKinds, ThreadsAssumption
<1>1. CASE u = Owner
  <2>1. life # "live" /\ \A w \in Writers : pc[w] = "idle"
    BY <1>1 DEF ThreadlessInv
  <2>2. t \in Workers \/ t = Owner
    BY <2>1 DEF Threads
  <2>3. QED
    BY <1>1, <2>2 DEF ThreadlessInv
<1>2. CASE u \in Workers
  BY <1>2 DEF ThreadlessInv
<1>3. CASE u \in Writers
  <2>1. pc[u] \in FileSection /\ fileMutex = u /\ life = "live"
    BY <1>3 DEF TypeOK, PlacesType, ProperPlace, WriterPlaces, FlushPlaces, FileSection,
                FileMutexHeld, Threadless, ThreadlessInv
  <2>2. t \in Writers
    BY <2>1 DEF Threads, ThreadlessInv
  <2>3. pc[t] = "flLock" /\ t # u
    BY <1>3, <2>1, <2>2
  <2>4. fileMutex = t
    BY <2>2, <2>3 DEF FileMutexHeld, FileSection, FlushPlaces, Threadless
  <2>5. QED
    BY <2>1, <2>3, <2>4
<1>4. QED
  BY <1>1, <1>2, <1>3 DEF Threads

(* The data a write moves: what is in the file and the buffer grows by the  *)
(* message, whatever part of it is handed to the file.                      *)
LEMMA WriteConserves ==
    ASSUME TypeOK, torn = {}, fileOpen, NEW w \in Writers, WriteToFile(w)
    PROVE  \E msg \in Seq(Writers) :
              /\ disk' \o buffer' = (disk \o buffer) \o msg
              /\ accepted' = accepted \o msg
              /\ Len(disk) <= Len(disk')
<1>1. PICK size \in MsgSizes :
        LET msg == [i \in 1 .. size |-> w]
            all == buffer \o msg
            n   == PageDrain(Len(all))
        IN  /\ LeaveBuffer(w, Rest(all, n), Written(Front(all, n)))
            /\ accepted' = accepted \o msg
  BY DEF WriteToFile
<1> DEFINE msg == [i \in 1 .. size |-> w]
           all == buffer \o msg
           n   == PageDrain(Len(all))
<1>2. /\ buffer' = Rest(all, n) /\ disk' = disk \o Front(all, n)
      /\ accepted' = accepted \o msg
  BY <1>1 DEF LeaveBuffer, Written
<1>3. msg \in Seq(Writers)
  BY MessageType
<1> HIDE DEF msg
<1>4. buffer \in Seq(Writers) /\ disk \in Seq(Writers) /\ all \in Seq(Writers)
  BY <1>3 DEF TypeOK, ContentsType
<1>5. n \in 0 .. Len(all)
  BY <1>4, PageDrainRange
<1> HIDE DEF n, all
<1>6. /\ Front(all, n) \in Seq(Writers) /\ Rest(all, n) \in Seq(Writers)
      /\ Front(all, n) \o Rest(all, n) = all
  BY <1>4, <1>5, CutType, CutWhole
<1>7. disk' \o buffer' = disk \o all
  <2>1. \A f, r \in Seq(Writers) : (disk \o f) \o r = disk \o (f \o r)
    BY <1>4, ConcatAssociative
  <2>2. QED
    BY <2>1, <1>2, <1>6, Zenon
<1>8. disk \o all = (disk \o buffer) \o msg
  BY <1>3, <1>4, ConcatAssociative DEF all
<1>9. Len(disk) <= Len(disk')
  BY <1>2, <1>4, <1>6
<1>10. QED
  BY <1>2, <1>3, <1>7, <1>8, <1>9

(* A flush moves the buffer behind what is in the file.                     *)
LEMMA FlushConserves ==
    ASSUME TypeOK, torn = {}, fileOpen, NEW t \in Threads, FlushImpl(t)
    PROVE  /\ buffer' = <<>> /\ disk' = disk \o buffer /\ accepted' = accepted
           /\ disk' \o buffer' = disk \o buffer
           /\ Len(disk) <= Len(disk')
<1>1. buffer' = <<>> /\ disk' = disk \o buffer /\ accepted' = accepted
  BY DEF FlushImpl, LeaveBuffer, Written
<1>2. disk \in Seq(Writers) /\ buffer \in Seq(Writers)
  BY DEF TypeOK, ContentsType
<1>3. disk \o buffer \in Seq(Writers) /\ Len(disk \o buffer) = Len(disk) + Len(buffer)
  BY <1>2, ConcatProperties
<1>4. (disk \o buffer) \o <<>> = disk \o buffer
  BY <1>3, ConcatEmptySeq
<1>5. QED
  BY <1>1, <1>2, <1>3, <1>4

(* Every step keeps it: whoever enters the buffer is alone there.           *)
LEMMA ThreadlessStep ==
    ASSUME Threadless, TypeOK, FileMutexHeld, ThreadlessInv, [Next]_vars
    PROVE  ThreadlessInv'
<1> USE ThreadKinds, ThreadsAssumption
<1>1. pc \in [Threads -> Places]
  BY DEF TypeOK, PlacesType
<1>2. CASE UNCHANGED vars
  BY <1>2 DEF vars, mutexes, atomics, contents, locals, app, ThreadlessInv
<1> USE DEF mutexes, atomics, contents, locals, app, Goto, StopPlaces, ThreadlessInv
<1>3. ASSUME NEW w \in Writers, LogMessage(w) PROVE ThreadlessInv'
  BY <1>1, <1>3 DEF LogMessage, Threadless, FlushPlaces
<1>4. ASSUME NEW w \in Writers,
             \/ AwaitFlushComplete(w) \/ AnnounceWriting(w) \/ WriteDone(w)
             \/ LockToApplyPolicy(w) \/ ReturnFromPolicy(w)
             \/ ApplyPeriodically(w) \/ ApplyNoSub(w) \/ FlushOnLevel(w)
      PROVE  ThreadlessInv'
  <2>1. /\ UNCHANGED <<contents, life, policy, flushThread, flushThreadEnabled, enabled>>
        /\ life = "live"
    BY <1>4 DEF AwaitFlushComplete, AnnounceWriting, WriteDone, LockToApplyPolicy,
                ReturnFromPolicy, ApplyPeriodically, ApplyNoSub, FlushOnLevel
  <2>2. PICK place \in {"prAnnounce", "prLock", "polLock", "polMain", "idle", "polSub", "polOut",
                        "flEnter"} :
           pc' = [pc EXCEPT ![w] = place]
    BY <1>4 DEF AwaitFlushComplete, AnnounceWriting, WriteDone, LockToApplyPolicy,
                ReturnFromPolicy, ApplyPeriodically, ApplyNoSub, FlushOnLevel
  <2>3. QED
    BY <1>1, <2>1, <2>2
<1>5. ASSUME NEW w \in Writers, ApplyPrimary(w) PROVE ThreadlessInv'
  BY <1>1, <1>5 DEF ApplyPrimary, StopBackgroundThread, StopPlaces
<1>6. ASSUME NEW w \in Writers, NEW g \in Workers,
             StartBackgroundThread(w, g) \/ ReplaceFlushThread(w, g)
      PROVE  FALSE
  BY <1>6 DEF StartBackgroundThread, ReplaceFlushThread
<1>7. ASSUME NEW w \in Writers, LockToWrite(w) PROVE ThreadlessInv'
  <2>1. BufferUsers = {}
    BY <1>7, EntersAlone DEF LockToWrite, Lock, Threadless
  <2>2. QED
    BY <1>1, <1>7, <2>1 DEF LockToWrite, EnterBuffer
<1>8. ASSUME NEW w \in Writers, WriteToFile(w) PROVE ThreadlessInv'
  <2>1. fileOpen /\ life = "live"
    BY <1>8 DEF WriteToFile
  <2>2. disk' \o buffer' = accepted'
    BY <1>8, <2>1, WriteConserves
  <2>3. QED
    BY <1>1, <1>8, <2>1, <2>2 DEF WriteToFile, LeaveBuffer, FlushPlaces
<1>9. ASSUME NEW t \in Threads,
             EnterFlush(t) \/ AwaitWriter(t) \/ AnnounceFlush(t) \/ FlushDone(t)
      PROVE  ThreadlessInv'
  <2>1. EnterFlush(t) /\ pc' = [pc EXCEPT ![t] = "flLock"]
    BY <1>9 DEF EnterFlush, AwaitWriter, AnnounceFlush, FlushDone
  <2>2. t \in Writers \/ t = Owner
    BY <2>1 DEF EnterFlush, Threads
  <2>3. QED
    BY <1>1, <2>1, <2>2 DEF EnterFlush, FlushPlaces, TypeOK, ControlType
<1>10. ASSUME NEW t \in Threads, LockToFlush(t) PROVE ThreadlessInv'
  <2>1. BufferUsers = {}
    BY <1>10, EntersAlone DEF LockToFlush
  <2>2. QED
    BY <1>1, <1>10, <2>1 DEF LockToFlush, EnterBuffer, FlushPlaces
<1>11. ASSUME NEW t \in Threads, FlushImpl(t) PROVE ThreadlessInv'
  <2>1. t \in Writers \/ t = Owner
    BY <1>11 DEF FlushImpl, Threads
  <2>2. fileOpen
    BY <1>11, <2>1 DEF FlushImpl, FlushPlaces
  <2>3. buffer' = <<>> /\ disk' \o buffer' = accepted'
    BY <1>11, <2>2, FlushConserves
  <2>4. ret[t] \in {"polSub", "polOut", "bgSleep", "clEnter"}
    BY <1>11, FlushReturns DEF FlushImpl, FlushPlaces
  <2>5. t \in Writers => life = "live"
    BY <1>11 DEF FlushImpl
  <2>6. t = Owner => ret[t] = "clEnter"
    BY <1>11 DEF FlushImpl, TypeOK, PlacesType, ProperPlace, OwnerPlaces, StopPlaces
  <2>7. pc' = [pc EXCEPT ![t] = "flDone"] \/ pc' = [pc EXCEPT ![t] = ret[t]]
    BY <1>11 DEF FlushImpl
  <2>8. QED
    BY <1>1, <1>11, <2>1, <2>2, <2>3, <2>4, <2>5, <2>6, <2>7 DEF FlushImpl, LeaveBuffer, FlushPlaces
<1>12. ASSUME NEW g \in Workers, CheckCleanUp(g) \/ AwaitResume(g) \/ WakeUp(g) PROVE FALSE
  BY <1>12 DEF CheckCleanUp, AwaitResume, WakeUp
<1>13. ASSUME NEW p \in Policies, SetFlushPolicy(p) PROVE ThreadlessInv'
  BY <1>13 DEF SetFlushPolicy, Threadless
<1>14. CASE Destroy
  BY <1>1, <1>14 DEF Destroy, StopBackgroundThread, StopPlaces, FlushPlaces
<1>15. CASE EnterClose
  <2>1. BufferUsers = {}
    BY <1>15, EntersAlone DEF EnterClose
  <2>2. QED
    BY <1>1, <1>15, <2>1 DEF EnterClose, EnterBuffer, FlushPlaces
<1>16. CASE CloseImpl
  BY <1>1, <1>16 DEF CloseImpl, LeaveBuffer, FlushPlaces, TypeOK, ControlType
<1>17. CASE RenameFile \/ PauseBackgroundThread \/ MoveFile \/ OpenFile
  BY <1>17 DEF RenameFile, PauseBackgroundThread, MoveFile, OpenFile, Threadless
<1>18. CASE JoinFlushThread
  BY <1>1, <1>18 DEF JoinFlushThread, StopPlaces, FlushPlaces
<1>19. ASSUME NEW t \in Threads, StopStep(t) PROVE FALSE
  BY <1>19 DEF StopStep, SignalCleanUp, ForgetPolicy, DisableThread, StopPlaces
<1>20. QED
  BY <1>2, <1>3, <1>4, <1>5, <1>6, <1>7, <1>8, <1>9, <1>10, <1>11, <1>12, <1>13, <1>14,
     <1>15, <1>16, <1>17, <1>18, <1>19
     DEF Next, Application, WriterStep, WorkerStep, OwnerStep, FlushStep, Terminated, vars

(* A target without the time based policy starts with it.                   *)
LEMMA ThreadlessInit == Threadless /\ Init => ThreadlessInv
<1> SUFFICES ASSUME Threadless, Init PROVE ThreadlessInv
  OBVIOUS
<1>1. disk \o buffer = accepted
  BY ConcatEmptySeq, EmptySeq DEF Init
<1>2. ASSUME NEW t \in Threads
      PROVE  \/ pc[t] = "idle" /\ t \in Writers
             \/ pc[t] = "off" /\ t \in Workers
             \/ pc[t] = "own" /\ t = Owner
  BY DEF Init, Threads
<1>3. fileOpen
  BY DEF Init, Threadless
<1>4. QED
  BY <1>1, <1>2, <1>3, ThreadKinds, ThreadsAssumption
     DEF Init, ThreadlessInv, StopPlaces, FlushPlaces

(* Without the flush thread the code is free of data races, and whatever    *)
(* was logged is in the file once the target is destroyed: for any number   *)
(* of logging threads, any page size and any message sizes.                 *)
THEOREM ThreadlessTargets ==
    ASSUME Threadless
    PROVE  Spec => [](ThreadlessInv /\ NoDataRace /\ DestroyedComplete)
<1>1. Init => ThreadlessInv
  BY ThreadlessInit
<1>2. TypeOK /\ FileMutexHeld /\ ThreadlessInv /\ [Next]_vars => ThreadlessInv'
  BY ThreadlessStep
<1>3. TypeOK /\ ThreadlessInv => NoDataRace
  BY DEF ThreadlessInv, NoDataRace
<1>4. TypeOK /\ ThreadlessInv => DestroyedComplete
  <2> SUFFICES ASSUME TypeOK, ThreadlessInv, life = "gone" PROVE disk = accepted
    BY DEF DestroyedComplete
  <2>1. buffer = <<>> /\ disk \o buffer = accepted
    BY DEF ThreadlessInv
  <2>2. disk \in Seq(Writers)
    BY DEF TypeOK, ContentsType
  <2>3. QED
    BY <2>1, <2>2, ConcatEmptySeq
<1>5. QED
  BY <1>1, <1>2, <1>3, <1>4, TypeCorrect, MutexesHeld, PTL DEF Spec

(* The inductive invariant of targets without the flush thread.             *)
THEOREM ThreadlessHolds ==
    ASSUME Threadless
    PROVE  Spec => []ThreadlessInv
<1>1. Spec => [](ThreadlessInv /\ NoDataRace /\ DestroyedComplete)
  BY ThreadlessTargets
<1>2. QED
  BY <1>1, PTL

(* The destructor leaves every byte that was logged in the file.            *)
THEOREM ThreadlessDestroyed ==
    ASSUME Threadless
    PROVE  Spec => []DestroyedComplete
<1>1. Spec => [](ThreadlessInv /\ NoDataRace /\ DestroyedComplete)
  BY ThreadlessTargets
<1>2. QED
  BY <1>1, PTL

-----------------------------------------------------------------------------
(* Under the policy "always" a thread that has flushed, and still holds     *)
(* fileMutex, finds the buffer as its flush left it.  Without the flush     *)
(* thread nothing replaces the policy that was installed.                   *)
AlwaysInv ==
    /\ policy = installed
    /\ \A w \in Writers :
          /\ installed.primary = "always"
          /\ pc[w] \in {"polSub", "polOut"} \/ (pc[w] \in FlushPlaces /\ ret[w] = "polOut")
          => buffer = <<>>

(* Every step keeps the buffer empty between an "always" flush and the      *)
(* return of the message that asked for it.                                 *)
LEMMA AlwaysStep ==
    ASSUME Threadless, TypeOK, FileMutexHeld, ThreadlessInv, AlwaysInv, [Next]_vars
    PROVE  AlwaysInv'
<1> USE ThreadKinds, ThreadsAssumption DEF AlwaysInv, Goto, locals, app, contents
<1>1. /\ pc \in [Threads -> Places]
      /\ ret \in [Threads -> {"polSub", "polOut", "bgSleep", "flEnter", "clEnter"}]
  BY DEF TypeOK, PlacesType, ControlType
<1>2. CASE UNCHANGED vars
  BY <1>2 DEF vars
<1>3. ASSUME NEW w \in Writers,
             \/ LogMessage(w) \/ AwaitFlushComplete(w) \/ AnnounceWriting(w)
             \/ LockToWrite(w) \/ WriteDone(w) \/ LockToApplyPolicy(w)
             \/ ReturnFromPolicy(w)
      PROVE  AlwaysInv'
  <2>1. /\ UNCHANGED <<buffer, policy, installed, ret>>
        /\ pc[w] \notin FlushPlaces
    BY <1>3 DEF LogMessage, AwaitFlushComplete, AnnounceWriting, LockToWrite, WriteDone,
                LockToApplyPolicy, ReturnFromPolicy, FlushPlaces
  <2>2. PICK place \in {"prAwait", "prLock", "prAnnounce", "writing", "polLock", "polMain", "idle"} :
           pc' = [pc EXCEPT ![w] = place]
    BY <1>3 DEF LogMessage, AwaitFlushComplete, AnnounceWriting, LockToWrite, WriteDone,
                LockToApplyPolicy, ReturnFromPolicy
  <2>3. QED
    BY <1>1, <2>1, <2>2 DEF FlushPlaces
<1>4. ASSUME NEW w \in Writers, WriteToFile(w) PROVE AlwaysInv'
  <2>1. \A v \in Writers \ {w} : pc[v] \notin FileSection
    BY <1>4 DEF WriteToFile, FileMutexHeld, FileSection, Threadless
  <2>2. UNCHANGED <<policy, installed, ret>>
    BY <1>4 DEF WriteToFile
  <2>3. PICK place \in {"prDone", "polLock"} : pc' = [pc EXCEPT ![w] = place]
    BY <1>4 DEF WriteToFile
  <2>4. QED
    BY <1>1, <2>1, <2>2, <2>3 DEF FileSection, FlushPlaces
<1>5. ASSUME NEW w \in Writers, ApplyPrimary(w) PROVE AlwaysInv'
  BY <1>1, <1>5 DEF ApplyPrimary, StopBackgroundThread, FlushReturn, ThreadlessInv, FlushPlaces
<1>6. ASSUME NEW w \in Writers, ApplyPeriodically(w) PROVE AlwaysInv'
  BY <1>1, <1>6 DEF ApplyPeriodically, FlushPlaces
<1>7. ASSUME NEW w \in Writers, ApplyNoSub(w) \/ FlushOnLevel(w) PROVE AlwaysInv'
  BY <1>1, <1>7 DEF ApplyNoSub, FlushOnLevel, FlushPlaces
<1>8. ASSUME NEW w \in Writers, NEW g \in Workers,
             StartBackgroundThread(w, g) \/ ReplaceFlushThread(w, g)
      PROVE  FALSE
  BY <1>8 DEF StartBackgroundThread, ReplaceFlushThread, ThreadlessInv
<1>9. ASSUME NEW t \in Threads,
             EnterFlush(t) \/ AwaitWriter(t) \/ AnnounceFlush(t) \/ LockToFlush(t)
      PROVE  AlwaysInv'
  <2>1. UNCHANGED <<buffer, policy, installed, ret>> /\ pc[t] \in FlushPlaces
    BY <1>9 DEF EnterFlush, AwaitWriter, AnnounceFlush, LockToFlush, FlushPlaces
  <2>2. PICK place \in FlushPlaces : pc' = [pc EXCEPT ![t] = place]
    BY <1>9 DEF EnterFlush, AwaitWriter, AnnounceFlush, LockToFlush, FlushPlaces
  <2>3. QED
    BY <1>1, <2>1, <2>2 DEF FlushPlaces
<1>10. ASSUME NEW t \in Threads, FlushImpl(t) PROVE AlwaysInv'
  <2>1. buffer' = <<>> /\ UNCHANGED <<policy, installed>>
    BY <1>10 DEF FlushImpl, LeaveBuffer, ThreadlessInv
  <2>2. QED
    BY <2>1
<1>11. ASSUME NEW t \in Threads, FlushDone(t) PROVE FALSE
  BY <1>11 DEF FlushDone, ThreadlessInv
<1>12. ASSUME NEW g \in Workers, CheckCleanUp(g) \/ AwaitResume(g) \/ WakeUp(g) PROVE FALSE
  BY <1>12 DEF CheckCleanUp, AwaitResume, WakeUp, ThreadlessInv
<1>13. ASSUME NEW p \in Policies, SetFlushPolicy(p) PROVE AlwaysInv'
  BY <1>13 DEF SetFlushPolicy, FlushPlaces
<1>14. CASE Destroy
  BY <1>1, <1>14 DEF Destroy, StopBackgroundThread, ThreadlessInv, FlushPlaces
<1>15. CASE EnterClose \/ JoinFlushThread
  BY <1>1, <1>15 DEF EnterClose, JoinFlushThread
<1>16. CASE CloseImpl
  <2>1. buffer' = <<>> /\ UNCHANGED <<policy, installed>>
    BY <1>16 DEF CloseImpl, LeaveBuffer, ThreadlessInv
  <2>2. QED
    BY <2>1
<1>17. CASE RenameFile \/ PauseBackgroundThread \/ MoveFile \/ OpenFile
  BY <1>17 DEF RenameFile, PauseBackgroundThread, MoveFile, OpenFile, Threadless, ThreadlessInv
<1>18. ASSUME NEW t \in Threads, StopStep(t) PROVE FALSE
  BY <1>18 DEF StopStep, SignalCleanUp, ForgetPolicy, DisableThread, StopPlaces, ThreadlessInv
<1>19. QED
  BY <1>2, <1>3, <1>4, <1>5, <1>6, <1>7, <1>8, <1>9, <1>10, <1>11, <1>12, <1>13, <1>14,
     <1>15, <1>16, <1>17, <1>18
     DEF Next, Application, WriterStep, WorkerStep, OwnerStep, FlushStep, Terminated

(* Under the policy "always" nothing is buffered when LogMessage returns,   *)
(* whatever the other logging threads are doing, as long as no flush thread *)
(* has been used: stopping that one replaces the installed policy.          *)
THEOREM AlwaysFlushes ==
    ASSUME Threadless
    PROVE  Spec => []AlwaysFlushed
<1>1. Init => AlwaysInv
  BY ThreadKinds, ThreadsAssumption DEF Init, AlwaysInv, FlushPlaces
<1>2. TypeOK /\ FileMutexHeld /\ ThreadlessInv /\ AlwaysInv /\ [Next]_vars => AlwaysInv'
  BY AlwaysStep
<1>3. AlwaysInv => AlwaysFlushed
  BY DEF AlwaysInv, AlwaysFlushed
<1>4. QED
  BY <1>1, <1>2, <1>3, TypeCorrect, MutexesHeld, ThreadlessHolds, PTL DEF Spec

-----------------------------------------------------------------------------
(* What a sequence starts with when it is a concatenation.                  *)
LEMMA HeadOfConcat ==
    ASSUME NEW S, NEW s \in Seq(S), NEW r \in Seq(S)
    PROVE  SubSeq(s \o r, 1, Len(s)) = s
<1> DEFINE whole == s \o r
           head  == SubSeq(whole, 1, Len(s))
<1>1. /\ whole \in Seq(S) /\ Len(whole) = Len(s) + Len(r)
      /\ \A i \in 1 .. Len(s) : whole[i] = s[i]
  OBVIOUS
<1> HIDE DEF whole
<1>2. /\ head \in Seq(S) /\ Len(head) = Len(s)
      /\ \A i \in 1 .. Len(s) : head[i] = s[i]
  BY <1>1
<1> HIDE DEF head
<1>3. head = s
  BY <1>2, SeqEqual
<1>4. QED
  BY <1>3 DEF head, whole

(* Appending to what is logged, with the file growing, is a step of Log.    *)
LEMMA AppendExtends ==
    ASSUME disk \in Seq(Writers), buffer \in Seq(Writers),
           disk' \in Seq(Writers), buffer' \in Seq(Writers), NEW msg \in Seq(Writers),
           disk' \o buffer' = (disk \o buffer) \o msg, Len(disk) <= Len(disk')
    PROVE  Log!Extend
<1> DEFINE old == disk \o buffer
           new == disk' \o buffer'
<1>1. old \in Seq(Writers) /\ new \in Seq(Writers) /\ Len(new) = Len(disk') + Len(buffer')
  BY ConcatProperties
<1>2. new = old \o msg
  OBVIOUS
<1> HIDE DEF old, new
<1>3. Len(new) = Len(old) + Len(msg) /\ Len(old) <= Len(new)
  BY <1>1, <1>2
<1>4. SubSeq(new, 1, Len(old)) = old
  BY <1>1, <1>2, HeadOfConcat
<1>5. Len(disk') \in Len(disk) .. Len(new)
  BY <1>1
<1>6. QED
  BY <1>1, <1>3, <1>4, <1>5 DEF Log!Extend, old, new

(* A step of the target appends to the log, hands a part of it to the file, *)
(* or does neither.                                                         *)
LEMMA LogStep ==
    ASSUME Threadless, TypeOK, ThreadlessInv, [Next]_vars
    PROVE  [Log!Extend]_<<disk \o buffer, Len(disk)>>
<1> USE DEF contents
<1>1. CASE UNCHANGED <<buffer, disk>>
  BY <1>1
<1>2. disk \in Seq(Writers) /\ buffer \in Seq(Writers) /\ disk \o buffer \in Seq(Writers)
  BY DEF TypeOK, ContentsType
<1>3. ASSUME NEW w \in Writers, WriteToFile(w) PROVE Log!Extend
  <2>1. fileOpen /\ torn = {}
    BY <1>3 DEF WriteToFile, Goto, ThreadlessInv
  <2>2. PICK msg \in Seq(Writers) :
           disk' \o buffer' = (disk \o buffer) \o msg /\ Len(disk) <= Len(disk')
    BY <1>3, <2>1, WriteConserves
  <2>3. ContentsType'
    BY <1>3, ContentsStep, [Next]_vars DEF TypeOK
  <2>4. disk' \in Seq(Writers) /\ buffer' \in Seq(Writers)
    BY <2>3 DEF ContentsType
  <2>5. QED
    BY <1>2, <2>2, <2>4, AppendExtends
<1>4. ASSUME NEW t \in Threads, FlushImpl(t) PROVE Log!Extend
  <2>1. t \in Writers \/ t = Owner
    BY <1>4, ThreadsAssumption DEF FlushImpl, Goto, Threads, ThreadlessInv
  <2>2. fileOpen /\ torn = {}
    BY <1>4, <2>1 DEF FlushImpl, Goto, FlushPlaces, ThreadlessInv
  <2>3. disk' \o buffer' = (disk \o buffer) \o <<>> /\ Len(disk) <= Len(disk')
    BY <1>2, <1>4, <2>2, FlushConserves, ConcatEmptySeq
  <2>4. disk' \in Seq(Writers) /\ buffer' \in Seq(Writers)
    BY <1>2, <1>4, <2>2, FlushConserves, EmptySeq
  <2>5. QED
    BY <1>2, <2>3, <2>4, AppendExtends, EmptySeq
<1>5. CASE CloseImpl
  BY <1>5 DEF CloseImpl, Goto, LeaveBuffer, ThreadlessInv
<1> HIDE DEF contents
<1>6. QED
  BY <1>1, <1>3, <1>4, <1>5, ThreadKinds
     DEF Next, Application, WriterStep, WorkerStep, OwnerStep, FlushStep, vars, contents,
         LogMessage, AwaitFlushComplete, AnnounceWriting, LockToWrite, WriteDone,
         LockToApplyPolicy, ApplyPrimary, ApplyPeriodically, ApplyNoSub, FlushOnLevel,
         ReturnFromPolicy, StopStep, SignalCleanUp, ForgetPolicy, DisableThread,
         StartBackgroundThread, ReplaceFlushThread, EnterFlush, AwaitWriter,
         AnnounceFlush, LockToFlush, FlushDone, CheckCleanUp, AwaitResume, WakeUp,
         SetFlushPolicy, RenameFile, PauseBackgroundThread, Destroy, EnterClose, MoveFile, OpenFile,
         JoinFlushThread, Terminated

(* Without the flush thread FileTarget implements the append-only log.      *)
THEOREM ThreadlessRefinesLog ==
    ASSUME Threadless
    PROVE  Spec => ImplementsLog
<1>1. Init => Log!Init
  BY ConcatEmptySeq, EmptySeq DEF Init, Log!Init
<1>2. TypeOK /\ ThreadlessInv /\ [Next]_vars => [Log!Extend]_<<disk \o buffer, Len(disk)>>
  BY LogStep
<1>3. QED
  BY <1>1, <1>2, TypeCorrect, ThreadlessTargets, PTL DEF Spec, ImplementsLog, Log!Spec

-----------------------------------------------------------------------------
(***************************************************************************)
(* With the background flush thread.                                        *)
(***************************************************************************)

(* A thread is inside a race only if there has been one.                    *)
RacedInv == torn # {} => raced

(* Whoever meets another in the buffer sets raced, and nothing resets it.   *)
LEMMA RacedStep ==
    ASSUME RacedInv, [Next]_vars
    PROVE  RacedInv'
<1> USE DEF RacedInv, contents
<1>1. CASE UNCHANGED <<torn, raced>>
  BY <1>1
<1>2. CASE \/ \E w \in Writers : LockToWrite(w)
           \/ \E t \in Threads : LockToFlush(t)
           \/ EnterClose
  BY <1>2 DEF LockToWrite, LockToFlush, EnterClose, EnterBuffer
<1>3. CASE \/ \E w \in Writers : WriteToFile(w)
           \/ \E t \in Threads : FlushImpl(t)
           \/ CloseImpl
  BY <1>3 DEF WriteToFile, FlushImpl, CloseImpl, LeaveBuffer
<1> HIDE DEF contents
<1>4. QED
  BY <1>1, <1>2, <1>3, ThreadKinds
     DEF Next, Application, WriterStep, WorkerStep, OwnerStep, FlushStep, vars, contents,
         LogMessage, AwaitFlushComplete, AnnounceWriting, WriteDone,
         LockToApplyPolicy, ApplyPrimary, ApplyPeriodically, ApplyNoSub, FlushOnLevel,
         ReturnFromPolicy, StopStep, SignalCleanUp, ForgetPolicy, DisableThread,
         StartBackgroundThread, ReplaceFlushThread, EnterFlush, AwaitWriter,
         AnnounceFlush, FlushDone, CheckCleanUp, AwaitResume, WakeUp,
         SetFlushPolicy, RenameFile, PauseBackgroundThread, Destroy, MoveFile, OpenFile,
         JoinFlushThread, Terminated

(* So it always holds.                                                      *)
LEMMA SpecRaced == Spec => []RacedInv
<1>1. Init => RacedInv
  BY DEF Init, RacedInv
<1>2. QED
  BY <1>1, RacedStep, PTL DEF Spec

(* A write of at most a page leaves less than a page behind.                *)
LEMMA BoundedStep ==
    ASSUME TypeOK, RacedInv, BufferBounded, [Next]_vars
    PROVE  BufferBounded'
<1> USE DEF contents
<1>1. CASE UNCHANGED <<buffer, raced>>
  BY <1>1 DEF BufferBounded
<1>2. CASE UNCHANGED buffer /\ (raced => raced')
  BY <1>2 DEF BufferBounded
<1>3. CASE \/ \E w \in Writers : LockToWrite(w)
           \/ \E t \in Threads : LockToFlush(t)
           \/ EnterClose
  BY <1>2, <1>3 DEF LockToWrite, LockToFlush, EnterClose, EnterBuffer
<1>4. ASSUME NEW w \in Writers, WriteToFile(w) PROVE BufferBounded'
  <2>1. SUFFICES ASSUME ~raced, \A size \in MsgSizes : size <= PageSize
                 PROVE  Len(buffer') < PageSize
    BY <1>4 DEF BufferBounded, WriteToFile
  <2>2. PICK size \in MsgSizes :
          LET msg == [i \in 1 .. size |-> w]
              all == buffer \o msg
              n   == PageDrain(Len(all))
          IN  LeaveBuffer(w, Rest(all, n), Written(Front(all, n)))
    BY <1>4 DEF WriteToFile
  <2> DEFINE msg == [i \in 1 .. size |-> w]
             all == buffer \o msg
             n   == PageDrain(Len(all))
  <2>3. buffer' = Rest(all, n)
    BY <2>1, <2>2 DEF LeaveBuffer, RacedInv
  <2>4. msg \in Seq(Writers) /\ Len(msg) = size /\ size \in Nat
    BY MessageType, InputsAssumption
  <2> HIDE DEF msg
  <2>5. /\ buffer \in Seq(Writers) /\ Len(buffer) < PageSize
        /\ all \in Seq(Writers) /\ Len(all) = Len(buffer) + size
    BY <2>1, <2>4 DEF TypeOK, ContentsType, BufferBounded
  <2> HIDE DEF all
  <2>6. n \in 0 .. Len(all)
    BY <2>5, PageDrainRange
  <2>7. Len(all) < 2 * PageSize /\ PageSize \in Nat /\ Len(all) \in Nat
    BY <2>1, <2>4, <2>5, PageSizeAssumption
  <2>8. Len(all) - n < PageSize
    BY <2>7 DEF PageDrain
  <2> HIDE DEF n
  <2>9. QED
    BY <2>3, <2>5, <2>6, <2>8, CutType
<1>5. ASSUME NEW t \in Threads, FlushImpl(t) PROVE BufferBounded'
  BY <1>5, PageSizeAssumption DEF BufferBounded, FlushImpl, LeaveBuffer, RacedInv
<1>6. CASE CloseImpl
  BY <1>6, PageSizeAssumption DEF BufferBounded, CloseImpl, LeaveBuffer, RacedInv
<1> HIDE DEF contents
<1>7. QED
  BY <1>1, <1>3, <1>4, <1>5, <1>6, ThreadKinds
     DEF Next, Application, WriterStep, WorkerStep, OwnerStep, FlushStep, vars, contents,
         LogMessage, AwaitFlushComplete, AnnounceWriting, WriteDone,
         LockToApplyPolicy, ApplyPrimary, ApplyPeriodically, ApplyNoSub, FlushOnLevel,
         ReturnFromPolicy, StopStep, SignalCleanUp, ForgetPolicy, DisableThread,
         StartBackgroundThread, ReplaceFlushThread, EnterFlush, AwaitWriter,
         AnnounceFlush, FlushDone, CheckCleanUp, AwaitResume, WakeUp,
         SetFlushPolicy, RenameFile, PauseBackgroundThread, Destroy, MoveFile, OpenFile,
         JoinFlushThread, Terminated

(* Messages of at most a page leave less than a page in the buffer, under   *)
(* any policies, with renames and files that fail to open, as long as       *)
(* nothing races on the buffer: the capacity reserved once is enough.       *)
THEOREM BufferStaysBounded == Spec => []BufferBounded
<1>1. Init => BufferBounded
  BY PageSizeAssumption DEF Init, BufferBounded
<1>2. TypeOK /\ RacedInv /\ BufferBounded /\ [Next]_vars => BufferBounded'
  BY BoundedStep
<1>3. QED
  BY <1>1, <1>2, TypeCorrect, SpecRaced, PTL DEF Spec

-----------------------------------------------------------------------------
(* The file opened with the target and is not renamed.                      *)
NeverRenamed == MoveOutcomes = {} /\ OpenOutcomes = {TRUE}

(* The owner is inside the destructor exactly when the target is no longer  *)
(* live, and no logging thread uses the target then.                        *)
SettledInv ==
    /\ life = "live" <=> pc[Owner] = "own"
    /\ life = "gone" <=> pc[Owner] = "gone"
    /\ pc[Owner] \notin {"rnPause", "rnMove", "rnOpen"}
    /\ life # "live" => \A w \in Writers : pc[w] = "idle"

(* Without renames only the destructor closes the file.                     *)
LEMMA SettledStep ==
    ASSUME MoveOutcomes = {}, TypeOK, SettledInv, [Next]_vars
    PROVE  SettledInv'
<1> USE ThreadKinds, ThreadsAssumption DEF SettledInv, Goto, app
<1>1. /\ pc \in [Threads -> Places]
      /\ ret \in [Threads -> {"polSub", "polOut", "bgSleep", "flEnter", "clEnter"}]
      /\ life \in {"live", "dying", "gone"}
  BY PcType DEF TypeOK, ControlType
<1>2. CASE UNCHANGED vars
  BY <1>2 DEF vars
<1>3. ASSUME NEW w \in Writers, LogMessage(w) PROVE SettledInv'
  BY <1>1, <1>3 DEF LogMessage
<1>4. ASSUME NEW w \in Writers, WriterStep(w) PROVE SettledInv'
  <2>1. UNCHANGED life /\ pc[w] # "idle"
    BY <1>4 DEF WriterStep, FlushStep, AwaitFlushComplete, AnnounceWriting, LockToWrite,
                WriteToFile, WriteDone, LockToApplyPolicy, ApplyPrimary, StopBackgroundThread,
                ApplyPeriodically, ApplyNoSub, FlushOnLevel, ReturnFromPolicy, StopStep,
                SignalCleanUp, ForgetPolicy, DisableThread, StartBackgroundThread,
                ReplaceFlushThread, EnterFlush, AwaitWriter, AnnounceFlush, LockToFlush,
                FlushImpl, FlushDone
  <2>2. pc'[Owner] = pc[Owner]
    BY <1>1, <1>4, TypeOK
       DEF WriterStep, FlushStep, AwaitFlushComplete, AnnounceWriting, LockToWrite,
           WriteToFile, WriteDone, LockToApplyPolicy, ApplyPrimary, StopBackgroundThread,
           ApplyPeriodically, ApplyNoSub, FlushOnLevel, ReturnFromPolicy, StopStep,
           SignalCleanUp, ForgetPolicy, DisableThread, StartBackgroundThread,
           ReplaceFlushThread, EnterFlush, AwaitWriter, AnnounceFlush, LockToFlush,
           FlushImpl, FlushDone, TypeOK, ControlType
  <2>3. QED
    BY <2>1, <2>2
<1>5. ASSUME NEW g \in Workers, WorkerStep(g) PROVE SettledInv'
  <2>1. UNCHANGED life
    BY <1>5 DEF WorkerStep, FlushStep, CheckCleanUp, AwaitResume, WakeUp, EnterFlush,
                AwaitWriter, AnnounceFlush, LockToFlush, FlushImpl, FlushDone
  <2>2. \A t \in Threads \ {g} : pc'[t] = pc[t]
    BY <1>1, <1>5
       DEF WorkerStep, FlushStep, CheckCleanUp, AwaitResume, WakeUp, EnterFlush,
           AwaitWriter, AnnounceFlush, LockToFlush, FlushImpl, FlushDone
  <2>3. QED
    BY <2>1, <2>2
<1>6. ASSUME NEW p \in Policies, SetFlushPolicy(p) PROVE SettledInv'
  BY <1>6 DEF SetFlushPolicy
<1>7. CASE RenameFile \/ PauseBackgroundThread \/ MoveFile \/ OpenFile
  BY <1>7 DEF RenameFile, PauseBackgroundThread, MoveFile, OpenFile
<1>8. CASE Destroy
  BY <1>1, <1>8 DEF Destroy, StopBackgroundThread
<1>9. CASE FlushStep(Owner)
  <2>1. UNCHANGED life /\ pc[Owner] \in FlushPlaces
    BY <1>9 DEF FlushStep, EnterFlush, AwaitWriter, AnnounceFlush, LockToFlush, FlushImpl,
                FlushDone, FlushPlaces
  <2>2. ret[Owner] = "clEnter"
    BY <2>1 DEF TypeOK, PlacesType, ProperPlace, OwnerPlaces, FlushPlaces, StopPlaces
  <2>3. PICK place \in FlushPlaces \union {"clEnter"} : pc' = [pc EXCEPT ![Owner] = place]
    BY <1>9, <2>2 DEF FlushStep, EnterFlush, AwaitWriter, AnnounceFlush, LockToFlush, FlushImpl,
                      FlushDone, FlushPlaces
  <2>4. QED
    BY <1>1, <2>1, <2>3 DEF FlushPlaces
<1>10. CASE EnterClose \/ CloseImpl \/ JoinFlushThread
  BY <1>1, <1>10 DEF EnterClose, CloseImpl, JoinFlushThread
<1>11. CASE StopStep(Owner)
  <2>1. UNCHANGED life /\ pc[Owner] \in StopPlaces
    BY <1>11 DEF StopStep, SignalCleanUp, ForgetPolicy, DisableThread, StopPlaces
  <2>2. ret[Owner] = "flEnter"
    BY <2>1, StopReturns
  <2>3. PICK place \in {"stPolicy", "stDisable", "flEnter"} : pc' = [pc EXCEPT ![Owner] = place]
    BY <1>11, <2>2 DEF StopStep, SignalCleanUp, ForgetPolicy, DisableThread
  <2>4. QED
    BY <1>1, <2>1, <2>3 DEF StopPlaces
<1>12. QED
  BY <1>2, <1>3, <1>4, <1>5, <1>6, <1>7, <1>8, <1>9, <1>10, <1>11
     DEF Next, Application, OwnerStep, Terminated

(* So it always holds.                                                      *)
LEMMA SpecSettled == ASSUME MoveOutcomes = {} PROVE Spec => []SettledInv
<1>1. Init => SettledInv
  BY ThreadKinds, ThreadsAssumption DEF Init, SettledInv
<1>2. TypeOK /\ SettledInv /\ [Next]_vars => SettledInv'
  BY SettledStep
<1>3. QED
  BY <1>1, <1>2, TypeCorrect, PTL DEF Spec

(* The file is open until the destructor closes it, and by then a flush has *)
(* emptied the buffer for good.                                             *)
KeptInv ==
    /\ fileOpen <=> pc[Owner] \notin {"dtJoin", "gone"}
    /\ ~raced /\ pc[Owner] \in {"flDone", "clEnter", "closing", "dtJoin", "gone"}
          => buffer = <<>>
    /\ Conserved

(* Outside of a race a step moves bytes from buffer to file and loses none. *)
LEMMA KeptStep ==
    ASSUME NeverRenamed, TypeOK, RacedInv, SettledInv, KeptInv, [Next]_vars
    PROVE  KeptInv'
<1> USE ThreadKinds, ThreadsAssumption DEF KeptInv, Goto, contents
<1>1. /\ pc \in [Threads -> Places]
      /\ ret \in [Threads -> {"polSub", "polOut", "bgSleep", "flEnter", "clEnter"}]
  BY PcType
<1>2. ASSUME UNCHANGED contents, pc'[Owner] = pc[Owner] PROVE KeptInv'
  BY <1>2 DEF Conserved
<1>3. CASE UNCHANGED vars
  BY <1>2, <1>3 DEF vars
<1>4. ASSUME NEW w \in Writers,
             \/ LogMessage(w) \/ AwaitFlushComplete(w) \/ AnnounceWriting(w) \/ WriteDone(w)
             \/ LockToApplyPolicy(w) \/ ApplyPrimary(w) \/ ApplyPeriodically(w)
             \/ ApplyNoSub(w) \/ FlushOnLevel(w) \/ ReturnFromPolicy(w)
      PROVE  KeptInv'
  <2>1. UNCHANGED contents /\ pc'[Owner] = pc[Owner]
    BY <1>1, <1>4
       DEF LogMessage, AwaitFlushComplete, AnnounceWriting, WriteDone, LockToApplyPolicy,
           ApplyPrimary, StopBackgroundThread, ApplyPeriodically, ApplyNoSub, FlushOnLevel,
           ReturnFromPolicy
  <2>2. QED
    BY <1>2, <2>1
<1>5. ASSUME NEW w \in Writers, NEW g \in Workers,
             StartBackgroundThread(w, g) \/ ReplaceFlushThread(w, g)
      PROVE  KeptInv'
  <2>1. UNCHANGED contents /\ pc'[Owner] = pc[Owner]
    BY <1>1, <1>5 DEF StartBackgroundThread, ReplaceFlushThread, TypeOK, ControlType
  <2>2. QED
    BY <1>2, <2>1
<1>6. ASSUME NEW t \in Threads, pc' = [pc EXCEPT ![t] = pc'[t]], EnterBuffer(t),
             UNCHANGED <<buffer, fileOpen, disk, accepted>>,
             t = Owner => pc'[t] \in {"flushing", "closing"} /\ pc[t] \in {"flLock", "clEnter"}
                          /\ (pc'[t] = "closing" => pc[t] = "clEnter")
      PROVE  KeptInv'
  <2>1. raced => raced'
    BY <1>6 DEF EnterBuffer
  <2>2. pc'[Owner] = pc[Owner] \/ t = Owner
    BY <1>1, <1>6
  <2>3. QED
    BY <1>6, <2>1, <2>2 DEF Conserved
<1>7. ASSUME NEW w \in Writers, LockToWrite(w) PROVE KeptInv'
  BY <1>1, <1>6, <1>7 DEF LockToWrite
<1>8. ASSUME NEW t \in Threads, LockToFlush(t) PROVE KeptInv'
  BY <1>1, <1>6, <1>8 DEF LockToFlush
<1>9. CASE EnterClose
  BY <1>1, <1>6, <1>9 DEF EnterClose
<1>10. ASSUME NEW w \in Writers, WriteToFile(w) PROVE KeptInv'
  <2>1. life = "live" /\ pc[Owner] = "own"
    BY <1>10 DEF WriteToFile, SettledInv
  <2>2. UNCHANGED <<fileOpen, raced>> /\ pc'[Owner] = pc[Owner]
    BY <1>1, <1>10 DEF WriteToFile
  <2>3. ASSUME ~raced PROVE disk' \o buffer' = accepted'
    BY <1>10, <2>1, <2>3, WriteConserves DEF RacedInv, Conserved
  <2>4. QED
    BY <2>1, <2>2, <2>3 DEF Conserved
<1>11. ASSUME NEW t \in Threads, FlushImpl(t) PROVE KeptInv'
  <2>1. UNCHANGED <<fileOpen, raced, accepted>>
    BY <1>11 DEF FlushImpl
  <2>2. t = Owner => ret[t] = "clEnter"
    BY <1>11 DEF FlushImpl, TypeOK, PlacesType, ProperPlace, OwnerPlaces, StopPlaces
  <2>3. /\ t = Owner => pc[Owner] = "flushing" /\ pc'[Owner] \in {"flDone", "clEnter"}
        /\ t # Owner => pc'[Owner] = pc[Owner]
    BY <1>1, <1>11, <2>2 DEF FlushImpl
  <2>4. ASSUME ~raced PROVE buffer' = <<>>
    BY <1>11, <2>4 DEF FlushImpl, LeaveBuffer, RacedInv
  <2>5. ASSUME ~raced, fileOpen PROVE disk' \o buffer' = accepted'
    BY <1>11, <2>5, FlushConserves DEF RacedInv, Conserved
  <2>6. ASSUME ~raced, ~fileOpen PROVE disk' \o buffer' = accepted'
    <3>1. buffer = <<>> /\ disk' = disk
      BY <1>11, <2>6 DEF FlushImpl, LeaveBuffer, Written, RacedInv
    <3>2. QED
      BY <2>1, <2>4, <2>6, <3>1 DEF Conserved
  <2>7. QED
    BY <2>1, <2>3, <2>4, <2>5, <2>6 DEF Conserved
<1>12. ASSUME NEW t \in Threads,
              EnterFlush(t) \/ AwaitWriter(t) \/ AnnounceFlush(t) \/ FlushDone(t)
       PROVE  KeptInv'
  <2>1. UNCHANGED contents
    BY <1>12 DEF EnterFlush, AwaitWriter, AnnounceFlush, FlushDone
  <2>2. t = Owner /\ pc[t] = "flDone" => ret[t] = "clEnter"
    BY <1>12 DEF TypeOK, PlacesType, ProperPlace, OwnerPlaces, StopPlaces
  <2>3. \/ pc'[Owner] = pc[Owner]
        \/ pc[Owner] = "flDone" /\ pc'[Owner] = "clEnter"
        \/ /\ pc[Owner] \in {"flEnter", "flAwait", "flAnnounce"}
           /\ pc'[Owner] \in {"flAwait", "flAnnounce", "flLock"}
    BY <1>1, <1>12, <2>2 DEF EnterFlush, AwaitWriter, AnnounceFlush, FlushDone
  <2>4. QED
    BY <2>1, <2>3 DEF Conserved
<1>13. ASSUME NEW g \in Workers, CheckCleanUp(g) \/ AwaitResume(g) \/ WakeUp(g) PROVE KeptInv'
  <2>1. UNCHANGED contents /\ pc'[Owner] = pc[Owner]
    BY <1>1, <1>13 DEF CheckCleanUp, AwaitResume, WakeUp
  <2>2. QED
    BY <1>2, <2>1
<1>14. ASSUME NEW p \in Policies, SetFlushPolicy(p) PROVE KeptInv'
  BY <1>2, <1>14 DEF SetFlushPolicy
<1>15. CASE RenameFile \/ PauseBackgroundThread \/ MoveFile \/ OpenFile
  BY <1>15 DEF RenameFile, PauseBackgroundThread, MoveFile, OpenFile, NeverRenamed, SettledInv
<1>16. CASE Destroy \/ \E t \in Threads : StopStep(t)
  <2>1. UNCHANGED contents
    BY <1>16 DEF Destroy, StopStep, SignalCleanUp, ForgetPolicy, DisableThread
  <2>2. pc[Owner] \in StopPlaces => ret[Owner] = "flEnter"
    BY StopReturns
  <2>3. \/ pc'[Owner] = pc[Owner]
        \/ /\ pc[Owner] \in {"own"} \union StopPlaces
           /\ pc'[Owner] \in {"flEnter"} \union StopPlaces
    BY <1>1, <1>16, <2>2
       DEF Destroy, StopBackgroundThread, StopStep, SignalCleanUp, ForgetPolicy, DisableThread,
           StopPlaces
  <2>4. QED
    BY <2>1, <2>3 DEF Conserved, StopPlaces
<1>17. CASE CloseImpl
  <2>1. /\ pc[Owner] = "closing" /\ pc'[Owner] = "dtJoin"
        /\ fileOpen' = FALSE /\ UNCHANGED <<accepted, raced>>
    BY <1>1, <1>17 DEF CloseImpl, SettledInv, TypeOK, ControlType
  <2>2. ASSUME ~raced PROVE buffer' = <<>> /\ disk' = disk /\ buffer = <<>>
    BY <1>17, <2>1, <2>2 DEF CloseImpl, LeaveBuffer, RacedInv
  <2>3. QED
    BY <2>1, <2>2 DEF Conserved
<1>18. CASE JoinFlushThread
  BY <1>1, <1>18 DEF JoinFlushThread, Conserved
<1>19. QED
  BY <1>3, <1>4, <1>5, <1>7, <1>8, <1>9, <1>10, <1>11, <1>12, <1>13, <1>14, <1>15, <1>16,
     <1>17, <1>18
     DEF Next, Application, WriterStep, WorkerStep, OwnerStep, FlushStep, Terminated

(* So it always holds.                                                      *)
LEMMA SpecKept == ASSUME NeverRenamed PROVE Spec => []KeptInv
<1>1. Init => KeptInv
  BY ConcatEmptySeq, EmptySeq, ThreadKinds, ThreadsAssumption
     DEF Init, KeptInv, Conserved, NeverRenamed
<1>2. TypeOK /\ RacedInv /\ SettledInv /\ KeptInv /\ [Next]_vars => KeptInv'
  BY KeptStep
<1>3. QED
  BY <1>1, <1>2, TypeCorrect, SpecRaced, SpecSettled, PTL DEF Spec, NeverRenamed

(* Whatever flush policies are installed, with the flush thread at work:    *)
(* unless a data race happens, the file and the buffer hold what was        *)
(* logged, in order, without loss or repetition.                            *)
THEOREM NothingLostUnraced ==
    ASSUME NeverRenamed
    PROVE  Spec => []Conserved
<1>1. KeptInv => Conserved
  BY DEF KeptInv
<1>2. QED
  BY <1>1, SpecKept, PTL

(* A target that was never raced on leaves everything in its file when it   *)
(* is destroyed, the flush thread or not.                                   *)
THEOREM DestroyedCompleteUnraced ==
    ASSUME NeverRenamed
    PROVE  Spec => [](~raced => DestroyedComplete)
<1>1. TypeOK /\ SettledInv /\ KeptInv => (~raced => DestroyedComplete)
  <2>1. SUFFICES ASSUME TypeOK, SettledInv, KeptInv, ~raced, life = "gone"
                 PROVE  disk = accepted
    BY DEF DestroyedComplete
  <2>2. buffer = <<>> /\ disk \o buffer = accepted
    BY <2>1 DEF SettledInv, KeptInv, Conserved
  <2>3. disk \in Seq(Writers)
    BY <2>1 DEF TypeOK, ContentsType
  <2>4. QED
    BY <2>2, <2>3, ConcatEmptySeq
<1>2. QED
  BY <1>1, TypeCorrect, SpecSettled, SpecKept, PTL DEF NeverRenamed

-----------------------------------------------------------------------------
(* Between its two locks of fileMutex a logging thread applies the policy   *)
(* alone: by the mutex, or because it is the only one.                      *)
LEMMA OneInSection ==
    ASSUME FileMutexHeld, NEW v \in Writers, NEW w \in Writers,
           pc[v] \in FileSection, pc[w] \in FileSection
    PROVE  v = w
BY ThreadsAssumption DEF FileMutexHeld

(* StopBackgroundThread goes on only where the flush thread is enabled, and *)
(* one thread at a time is in it: logging threads are in the section, and   *)
(* the destructor runs when none of them uses the target any more.          *)
StopInv ==
    /\ \A t \in Threads : pc[t] \in StopPlaces => flushThreadEnabled
    /\ pc[Owner] \in StopPlaces \union {"dtJoin"} => life # "live"
    /\ life # "live" => \A w \in Writers : pc[w] = "idle"

(* A step of one thread that does not disable the flush thread.             *)
LEMMA StopKept ==
    ASSUME TypeOK, StopInv, NEW t \in Threads, NEW place,
           pc' = [pc EXCEPT ![t] = place], pc[t] # "idle" \/ life = "live",
           place \in StopPlaces => flushThreadEnabled /\ (t = Owner => life # "live"),
           place = "dtJoin" => life # "live",
           UNCHANGED flushThreadEnabled, UNCHANGED life
    PROVE  StopInv'
<1>1. pc'[t] = place /\ \A u \in Threads \ {t} : pc'[u] = pc[u]
  BY PcType
<1>2. t \in Writers => life = "live"
  BY DEF StopInv
<1>3. QED
  BY <1>1, <1>2, ThreadKinds, ThreadsAssumption DEF StopInv

(* Every step keeps it.                                                     *)
LEMMA StopInvStep ==
    ASSUME TypeOK, FileMutexHeld, StopInv, [Next]_vars
    PROVE  StopInv'
<1> USE ThreadKinds, ThreadsAssumption DEF Goto, atomics, app
<1>1. CASE UNCHANGED vars
  BY <1>1 DEF vars, StopInv
<1>2. ASSUME NEW w \in Writers,
             \/ LogMessage(w) \/ AwaitFlushComplete(w) \/ AnnounceWriting(w)
             \/ LockToWrite(w) \/ WriteToFile(w) \/ WriteDone(w) \/ LockToApplyPolicy(w)
             \/ ApplyPeriodically(w) \/ ApplyNoSub(w) \/ FlushOnLevel(w)
             \/ ReturnFromPolicy(w)
      PROVE  StopInv'
  <2>1. /\ UNCHANGED <<flushThreadEnabled, life>> /\ (pc[w] # "idle" \/ life = "live")
        /\ \E place \in WriterPlaces \union {"flEnter"} : pc' = [pc EXCEPT ![w] = place]
    BY <1>2 DEF LogMessage, AwaitFlushComplete, AnnounceWriting, LockToWrite, WriteToFile,
                WriteDone, LockToApplyPolicy, ApplyPeriodically, ApplyNoSub, FlushOnLevel,
                ReturnFromPolicy, WriterPlaces
  <2>2. QED
    BY <2>1, StopKept DEF WriterPlaces, StopPlaces
<1>3. ASSUME NEW w \in Writers, ApplyPrimary(w) PROVE StopInv'
  <2>1. /\ UNCHANGED <<flushThreadEnabled, life>> /\ pc[w] = "polMain"
        /\ \E place \in {"stSignal", "polSub", "flEnter"} :
              pc' = [pc EXCEPT ![w] = place] /\ (place = "stSignal" => flushThreadEnabled)
    BY <1>3 DEF ApplyPrimary, StopBackgroundThread
  <2>2. QED
    BY <2>1, StopKept DEF StopPlaces
<1>4. ASSUME NEW w \in Writers, NEW g \in Workers,
             StartBackgroundThread(w, g) \/ ReplaceFlushThread(w, g)
      PROVE  StopInv'
  <2>1. /\ UNCHANGED life /\ (flushThreadEnabled => flushThreadEnabled') /\ pc[w] # "idle"
        /\ \A t \in Threads : pc'[t] \in {"polJoin", "bgTop", "polOut", "off", pc[t]}
        /\ pc'[Owner] = pc[Owner]
    BY <1>4, PcType DEF StartBackgroundThread, ReplaceFlushThread, TypeOK, ControlType
  <2>2. life = "live"
    BY <2>1 DEF StopInv
  <2>3. \A t \in Threads : pc'[t] \in StopPlaces => pc[t] \in StopPlaces
    BY <2>1 DEF StopPlaces
  <2>4. QED
    BY <2>1, <2>2, <2>3 DEF StopInv
<1>5. ASSUME NEW t \in Threads, FlushStep(t) PROVE StopInv'
  <2>1. /\ pc[t] \in FlushPlaces /\ UNCHANGED <<flushThreadEnabled, life>>
        /\ \E place \in FlushPlaces \union {ret[t]} : pc' = [pc EXCEPT ![t] = place]
    BY <1>5 DEF FlushStep, EnterFlush, AwaitWriter, AnnounceFlush, LockToFlush, FlushImpl,
                FlushDone, FlushPlaces
  <2>2. PICK place \in FlushPlaces \union {"polSub", "polOut", "bgSleep", "clEnter"} :
           pc' = [pc EXCEPT ![t] = place]
    BY <2>1, FlushReturns
  <2>3. place \notin StopPlaces \union {"dtJoin"} /\ pc[t] # "idle"
    BY <2>1 DEF FlushPlaces, StopPlaces
  <2>4. QED
    BY <2>1, <2>2, <2>3, StopKept
<1>6. ASSUME NEW g \in Workers, CheckCleanUp(g) \/ AwaitResume(g) \/ WakeUp(g) PROVE StopInv'
  <2>1. /\ UNCHANGED <<flushThreadEnabled, life>> /\ pc[g] # "idle"
        /\ \E place \in {"bgDone", "bgPause", "flEnter", "bgTop"} : pc' = [pc EXCEPT ![g] = place]
    BY <1>6 DEF CheckCleanUp, AwaitResume, WakeUp
  <2>2. QED
    BY <2>1, StopKept DEF StopPlaces
<1>7. ASSUME NEW p \in Policies, SetFlushPolicy(p) PROVE StopInv'
  BY <1>7 DEF SetFlushPolicy, StopInv
<1>8. CASE RenameFile \/ PauseBackgroundThread \/ EnterClose \/ CloseImpl \/ MoveFile \/ OpenFile
  <2>1. /\ UNCHANGED <<flushThreadEnabled, life>> /\ pc[Owner] # "idle"
        /\ \E place \in {"rnPause", "flEnter", "closing", "dtJoin", "rnMove", "rnOpen", "own"} :
              pc' = [pc EXCEPT ![Owner] = place] /\ (place = "dtJoin" => life # "live")
    BY <1>8
       DEF RenameFile, PauseBackgroundThread, EnterClose, CloseImpl, MoveFile, OpenFile
  <2>2. QED
    BY <2>1, StopKept DEF StopPlaces
<1>9. CASE Destroy
  BY <1>9, PcType DEF Destroy, StopBackgroundThread, StopInv, StopPlaces
<1>10. CASE JoinFlushThread
  <2>1. life # "live"
    BY <1>10 DEF JoinFlushThread, StopInv
  <2>2. QED
    BY <1>10, <2>1, PcType DEF JoinFlushThread, StopInv, StopPlaces
<1>11. ASSUME NEW t \in Threads, SignalCleanUp(t) \/ ForgetPolicy(t) PROVE StopInv'
  <2>1. /\ UNCHANGED <<flushThreadEnabled, life>> /\ pc[t] \in StopPlaces
        /\ \E place \in {"stPolicy", "stDisable"} : pc' = [pc EXCEPT ![t] = place]
    BY <1>11 DEF SignalCleanUp, ForgetPolicy, StopPlaces
  <2>2. flushThreadEnabled /\ (t = Owner => life # "live") /\ pc[t] # "idle"
    BY <2>1 DEF StopInv, StopPlaces
  <2>3. QED
    BY <2>1, <2>2, StopKept
<1>12. ASSUME NEW t \in Threads, DisableThread(t) PROVE StopInv'
  <2>1. /\ UNCHANGED life /\ pc[t] \in StopPlaces /\ pc' = [pc EXCEPT ![t] = ret[t]]
    BY <1>12 DEF DisableThread, StopPlaces
  <2>2. /\ pc'[t] \in {"polSub", "flEnter"}
        /\ \A u \in Threads \ {t} : pc'[u] = pc[u]
    BY <2>1, StopReturns, PcType
  <2>3. ASSUME NEW u \in Threads \ {t}, pc[u] \in StopPlaces PROVE FALSE
    <3>1. u \notin Workers /\ t \notin Workers /\ pc[u] # "idle" /\ pc[t] # "idle"
      BY <2>1, <2>3, StopReturns DEF StopPlaces
    <3>2. CASE u = Owner \/ t = Owner
      BY <2>1, <2>3, <3>1, <3>2 DEF StopInv, Threads
    <3>3. CASE u \in Writers /\ t \in Writers
      BY <2>1, <2>3, <3>3, OneInSection DEF FileSection
    <3>4. QED
      BY <3>1, <3>2, <3>3 DEF Threads
  <2>4. \A u \in Threads : pc'[u] \notin StopPlaces
    BY <2>2, <2>3 DEF StopPlaces
  <2>5. pc'[Owner] = "dtJoin" => pc[Owner] = "dtJoin"
    BY <2>2
  <2>6. life # "live" => \A w \in Writers : pc'[w] = "idle"
    BY <2>1, <2>2 DEF StopInv, StopPlaces
  <2>7. QED
    BY <2>1, <2>4, <2>5, <2>6 DEF StopInv
<1>13. QED
  BY <1>1, <1>2, <1>3, <1>4, <1>5, <1>6, <1>7, <1>8, <1>9, <1>10, <1>11, <1>12
     DEF Next, Application, WriterStep, WorkerStep, OwnerStep, StopStep, Terminated

(* So it always holds.                                                      *)
LEMMA SpecStops == Spec => []StopInv
<1>1. Init => StopInv
  BY ThreadKinds, ThreadsAssumption DEF Init, StopInv, StopPlaces
<1>2. TypeOK /\ FileMutexHeld /\ StopInv /\ [Next]_vars => StopInv'
  BY StopInvStep
<1>3. QED
  BY <1>1, <1>2, TypeCorrect, MutexesHeld, PTL DEF Spec

(* A flush thread that has been started, or has run, and is not the one     *)
(* flushThread owns.                                                        *)
Unowned(g) == pc[g] # "off" /\ g # flushThread

(* flushThreadEnabled is set last when a flush thread starts: between the   *)
(* construction of the jthread and the assignment that joins the one before *)
(* there is a second thread, whose starter is in the section, and nobody is *)
(* asked to stop.                                                           *)
RunsInv ==
    /\ EnabledThreadRuns
    /\ flushThread # NoThread => pc[flushThread] # "off"
    /\ \A g \in Workers : Unowned(g) =>
          /\ pc[g] # "bgDone" /\ ~cleanUpThreads /\ ~flushThreadEnabled
          /\ \E w \in Writers : pc[w] = "polJoin"
    /\ \A g, h \in Workers : Unowned(g) /\ Unowned(h) => g = h

(* A step that moves one logging thread or the owner and leaves the flush   *)
(* thread's flags alone.                                                    *)
LEMMA RunsKept ==
    ASSUME TypeOK, RunsInv, NEW t \in Threads, t \notin Workers, NEW place,
           pc' = [pc EXCEPT ![t] = place], pc[t] # "polJoin",
           pc[t] \in {"stPolicy", "stDisable"} => place \in {"stPolicy", "stDisable"},
           UNCHANGED <<flushThread, flushThreadEnabled, cleanUpThreads>>
    PROVE  RunsInv'
<1>1. /\ \A g \in Workers : g # t /\ pc'[g] = pc[g]
      /\ \A w \in Writers : pc[w] = "polJoin" => pc'[w] = "polJoin"
      /\ flushThread \in Workers \union {NoThread}
  BY PcType, ThreadKinds DEF TypeOK, ControlType
<1>2. Stopping => Stopping'
  BY PcType DEF Stopping
<1>3. EnabledThreadRuns' /\ (flushThread' # NoThread => pc'[flushThread'] # "off")
  BY <1>1, <1>2 DEF RunsInv, EnabledThreadRuns
<1>4. \A g \in Workers : Unowned(g)' => Unowned(g)
  BY <1>1 DEF Unowned
<1>5. QED
  BY <1>1, <1>3, <1>4 DEF RunsInv

(* Stopping the flush thread keeps it, too: the thread is asked to end only *)
(* while it is the owned one, by a thread that is about to disable it.      *)
LEMMA RunsStopped ==
    ASSUME TypeOK, StopInv, RunsInv, NEW t \in Threads, StopStep(t)
    PROVE  RunsInv'
<1> USE ThreadKinds DEF Goto, atomics
<1>1. CASE ForgetPolicy(t)
  <2>1. /\ pc[t] = "stPolicy" /\ pc' = [pc EXCEPT ![t] = "stDisable"]
        /\ UNCHANGED <<flushThread, flushThreadEnabled, cleanUpThreads>>
    BY <1>1 DEF ForgetPolicy
  <2>2. t \notin Workers
    BY <2>1, StopReturns DEF StopPlaces
  <2>3. QED
    BY <2>1, <2>2, RunsKept
<1>2. CASE SignalCleanUp(t) \/ DisableThread(t)
  <2>1. /\ pc[t] \in StopPlaces /\ UNCHANGED flushThread
        /\ \E place : pc' = [pc EXCEPT ![t] = place]
        /\ (flushThreadEnabled' => pc' = [pc EXCEPT ![t] = "stPolicy"])
        /\ flushThreadEnabled' => flushThreadEnabled
    BY <1>2 DEF SignalCleanUp, DisableThread, StopPlaces
  <2>2. flushThreadEnabled /\ t \notin Workers
    BY <2>1, StopReturns DEF StopInv
  <2>3. /\ \A g \in Workers : ~Unowned(g) /\ pc'[g] = pc[g]
        /\ flushThread \in Workers /\ pc[flushThread] # "off"
    BY <2>1, <2>2, PcType DEF RunsInv, EnabledThreadRuns
  <2>4. flushThreadEnabled' => Stopping'
    BY <2>1, PcType DEF Stopping
  <2>5. QED
    BY <2>1, <2>3, <2>4 DEF RunsInv, EnabledThreadRuns, Unowned
<1>3. QED
  BY <1>1, <1>2 DEF StopStep

(* A flush thread goes on, and ends only if it is asked to.                 *)
LEMMA RunsWorker ==
    ASSUME TypeOK, RunsInv, NEW g \in Workers, NEW place,
           pc' = [pc EXCEPT ![g] = place], pc[g] # "off", place # "off",
           pc[g] \notin {"stPolicy", "stDisable"},
           place = "bgDone" => cleanUpThreads,
           UNCHANGED <<flushThread, flushThreadEnabled, cleanUpThreads>>
    PROVE  RunsInv'
<1>1. /\ pc'[g] = place /\ \A t \in Threads \ {g} : pc'[t] = pc[t]
      /\ \A w \in Writers : w \in Threads \ {g}
      /\ flushThread \in Workers \union {NoThread}
  BY PcType, ThreadKinds, ThreadsAssumption DEF TypeOK, ControlType
<1>2. \A h \in Workers : Unowned(h)' <=> Unowned(h)
  BY <1>1, ThreadKinds DEF Unowned
<1>3. EnabledThreadRuns'
  BY <1>1, ThreadKinds DEF RunsInv, EnabledThreadRuns, Stopping
<1>4. flushThread' # NoThread => pc'[flushThread'] # "off"
  BY <1>1, ThreadKinds DEF RunsInv
<1>5. ASSUME NEW h \in Workers, Unowned(h)'
      PROVE  /\ pc'[h] # "bgDone" /\ ~cleanUpThreads' /\ ~flushThreadEnabled'
             /\ \E w \in Writers : pc'[w] = "polJoin"
  BY <1>1, <1>2, <1>5, ThreadKinds DEF RunsInv
<1>6. QED
  BY <1>2, <1>3, <1>4, <1>5 DEF RunsInv

(* Starting and stopping keep it, in whichever order threads act.           *)
LEMMA RunsStep ==
    ASSUME TypeOK, FileMutexHeld, StopInv, RunsInv, [Next]_vars
    PROVE  RunsInv'
<1> USE ThreadKinds, ThreadsAssumption DEF Goto, atomics, app
<1>1. CASE UNCHANGED vars
  BY <1>1 DEF vars, RunsInv, EnabledThreadRuns, Stopping, Unowned
<1>2. ASSUME NEW w \in Writers,
             \/ LogMessage(w) \/ AwaitFlushComplete(w) \/ AnnounceWriting(w)
             \/ LockToWrite(w) \/ WriteToFile(w) \/ WriteDone(w) \/ LockToApplyPolicy(w)
             \/ ApplyPrimary(w) \/ ApplyPeriodically(w) \/ ApplyNoSub(w) \/ FlushOnLevel(w)
             \/ ReturnFromPolicy(w)
      PROVE  RunsInv'
  <2>1. /\ UNCHANGED <<flushThread, flushThreadEnabled, cleanUpThreads>>
        /\ pc[w] \notin {"polJoin", "stPolicy", "stDisable"} /\ \E place : pc' = [pc EXCEPT ![w] = place]
    BY <1>2 DEF LogMessage, AwaitFlushComplete, AnnounceWriting, LockToWrite, WriteToFile,
                WriteDone, LockToApplyPolicy, ApplyPrimary, StopBackgroundThread,
                ApplyPeriodically, ApplyNoSub, FlushOnLevel, ReturnFromPolicy
  <2>2. QED
    BY <2>1, RunsKept
<1>3. ASSUME NEW t \in Threads, StopStep(t) PROVE RunsInv'
  BY <1>3, RunsStopped
<1>4. ASSUME NEW w \in Writers, NEW g \in Workers, StartBackgroundThread(w, g) PROVE RunsInv'
  <2>1. /\ ~flushThreadEnabled /\ pc[w] = "polSub" /\ pc[g] = "off"
        /\ pc' = [pc EXCEPT ![w] = "polJoin", ![g] = "bgTop"] /\ cleanUpThreads' = FALSE
        /\ UNCHANGED <<flushThread, flushThreadEnabled>>
    BY <1>4 DEF StartBackgroundThread
  <2>2. /\ pc'[w] = "polJoin" /\ pc'[g] = "bgTop"
        /\ \A t \in Threads \ {w, g} : pc'[t] = pc[t]
        /\ flushThread \in Workers \union {NoThread}
    BY <2>1, PcType DEF TypeOK, ControlType
  <2>3. ASSUME NEW h \in Workers PROVE ~Unowned(h)
    <3>1. SUFFICES ASSUME NEW v \in Writers, pc[v] = "polJoin" PROVE FALSE
      BY DEF RunsInv
    <3>2. QED
      BY <2>1, <3>1, OneInSection DEF FileSection
  <2>4. g # flushThread
    BY <2>1 DEF RunsInv
  <2>5. flushThread' # NoThread => pc'[flushThread'] # "off"
    BY <2>1, <2>2, <2>4 DEF RunsInv
  <2>6. ASSUME NEW h \in Workers, Unowned(h)' PROVE h = g
    BY <2>1, <2>2, <2>3, <2>6 DEF Unowned
  <2>7. QED
    BY <2>1, <2>2, <2>5, <2>6 DEF RunsInv, EnabledThreadRuns
<1>5. ASSUME NEW w \in Writers, NEW g \in Workers, ReplaceFlushThread(w, g) PROVE RunsInv'
  <2>1. /\ pc[w] = "polJoin" /\ g # flushThread /\ pc[g] # "off"
        /\ flushThread' = g /\ flushThreadEnabled' = TRUE /\ UNCHANGED cleanUpThreads
        /\ pc' = [t \in Threads |-> IF t = w THEN "polOut"
                                     ELSE IF t = flushThread THEN "off" ELSE pc[t]]
    BY <1>5 DEF ReplaceFlushThread
  <2>2. /\ pc'[g] = pc[g]
        /\ \A h \in Workers : pc'[h] = IF h = flushThread THEN "off" ELSE pc[h]
    BY <2>1
  <2>3. Unowned(g)
    BY <2>1 DEF Unowned
  <2>4. pc[g] # "bgDone" /\ ~cleanUpThreads
    BY <2>3 DEF RunsInv
  <2>5. ASSUME NEW h \in Workers PROVE ~Unowned(h)'
    <3>1. SUFFICES ASSUME pc'[h] # "off", h # g PROVE FALSE
      BY <2>1 DEF Unowned
    <3>2. Unowned(h)
      BY <2>2, <3>1 DEF Unowned
    <3>3. QED
      BY <2>3, <3>1, <3>2 DEF RunsInv
  <2>6. QED
    BY <2>1, <2>2, <2>4, <2>5 DEF RunsInv, EnabledThreadRuns
<1>6. ASSUME NEW t \in Threads, FlushStep(t) PROVE RunsInv'
  <2>1. /\ UNCHANGED <<flushThread, flushThreadEnabled, cleanUpThreads>>
        /\ pc[t] \in FlushPlaces
        /\ \E place \in FlushPlaces \union {ret[t]} : pc' = [pc EXCEPT ![t] = place]
    BY <1>6 DEF FlushStep, EnterFlush, AwaitWriter, AnnounceFlush, LockToFlush, FlushImpl,
                FlushDone, FlushPlaces
  <2>2. PICK place \in FlushPlaces \union {ret[t]} : pc' = [pc EXCEPT ![t] = place]
    BY <2>1
  <2>3. /\ place # "off" /\ place # "bgDone"
        /\ pc[t] \notin {"off", "polJoin", "stPolicy", "stDisable"}
    BY <2>1, PcType DEF FlushPlaces
  <2>4. CASE t \in Workers
    BY <2>1, <2>2, <2>3, <2>4, RunsWorker
  <2>5. CASE t \notin Workers
    BY <2>1, <2>2, <2>3, <2>5, RunsKept
  <2>6. QED
    BY <2>4, <2>5
<1>7. ASSUME NEW g \in Workers, CheckCleanUp(g) \/ AwaitResume(g) \/ WakeUp(g) PROVE RunsInv'
  <2>1. /\ UNCHANGED <<flushThread, flushThreadEnabled, cleanUpThreads>>
        /\ pc[g] \notin {"off", "stPolicy", "stDisable"}
        /\ \E place : /\ pc' = [pc EXCEPT ![g] = place] /\ place # "off"
                      /\ place = "bgDone" => cleanUpThreads
    BY <1>7 DEF CheckCleanUp, AwaitResume, WakeUp
  <2>2. QED
    BY <2>1, RunsWorker
<1>8. ASSUME NEW p \in Policies, SetFlushPolicy(p) PROVE RunsInv'
  BY <1>8 DEF SetFlushPolicy, RunsInv, EnabledThreadRuns, Stopping, Unowned
<1>9. CASE \/ RenameFile \/ PauseBackgroundThread \/ Destroy \/ EnterClose \/ CloseImpl
           \/ MoveFile \/ OpenFile \/ JoinFlushThread
  <2>1. /\ UNCHANGED <<flushThread, flushThreadEnabled, cleanUpThreads>>
        /\ pc[Owner] \notin {"polJoin", "stPolicy", "stDisable"}
        /\ \E place : pc' = [pc EXCEPT ![Owner] = place]
    BY <1>9
       DEF RenameFile, PauseBackgroundThread, Destroy, StopBackgroundThread, EnterClose,
           CloseImpl, MoveFile, OpenFile, JoinFlushThread
  <2>2. QED
    BY <2>1, RunsKept
<1>10. QED
  BY <1>1, <1>2, <1>3, <1>4, <1>5, <1>6, <1>7, <1>8, <1>9
     DEF Next, Application, WriterStep, WorkerStep, OwnerStep, Terminated

(* So it always holds.                                                      *)
LEMMA SpecRuns == Spec => []RunsInv
<1>1. Init => RunsInv
  BY ThreadKinds, ThreadsAssumption DEF Init, RunsInv, EnabledThreadRuns, Unowned
<1>2. TypeOK /\ FileMutexHeld /\ StopInv /\ RunsInv /\ [Next]_vars => RunsInv'
  BY RunsStep
<1>3. QED
  BY <1>1, <1>2, TypeCorrect, MutexesHeld, SpecStops, PTL DEF Spec

(* flushThreadEnabled is true only of the thread that flushThread owns, and *)
(* outside of StopBackgroundThread only of one that runs and is not asked   *)
(* to end, however policies are installed, flush threads replaced and the   *)
(* stores of StopBackgroundThread interleaved with other threads.           *)
THEOREM EnabledIsTrue == Spec => []EnabledThreadRuns
<1>1. RunsInv => EnabledThreadRuns
  BY DEF RunsInv
<1>2. QED
  BY <1>1, SpecRuns, PTL

-----------------------------------------------------------------------------
(* The target is not renamed, and no policy flushes on the message level:   *)
(* then only the flush thread shakes hands with PrintMessage.               *)
OneHandshaker == MoveOutcomes = {} /\ \A p \in Policies : p.sub # "logLevelBased"

(* A thread inside the handshaking part of Flush.                           *)
HandShakes(t) == \/ pc[t] \in {"flAwait", "flAnnounce", "flDone"}
                 \/ pc[t] \in {"flLock", "flushing"} /\ enabled[t]

(* A logging thread that flushes for "always", and the destructor, have     *)
(* stopped the flush thread before, so they do not shake hands.             *)
AnnounceInv ==
    /\ policy.sub # "logLevelBased"
    /\ life # "live" => ~flushThreadEnabled \/ pc[Owner] \in StopPlaces
    /\ \A w \in Writers : pc[w] \in FlushPlaces => ~flushThreadEnabled
    /\ \A t \in Threads : HandShakes(t) => t = flushThread
    /\ FlushAnnounced

(* A step of a thread outside Flush that stays outside, or enters it with   *)
(* the flush thread stopped.                                                *)
LEMMA AnnounceKept ==
    ASSUME TypeOK, AnnounceInv, NEW t \in Threads, NEW place,
           pc' = [pc EXCEPT ![t] = place], place \notin FlushPlaces \ {"flEnter"},
           place = "flEnter" /\ t \in Writers => ~flushThreadEnabled',
           \A u \in Threads \ {t} : enabled'[u] = enabled[u],
           policy'.sub = policy.sub,
           life' # "live" => ~flushThreadEnabled' \/ pc'[Owner] \in StopPlaces,
           flushThreadEnabled' => flushThreadEnabled, UNCHANGED <<flushThread, flushComplete>>
    PROVE  AnnounceInv'
<1>1. pc'[t] = place /\ \A u \in Threads \ {t} : pc'[u] = pc[u] /\ enabled'[u] = enabled[u]
  BY PcType
<1>2. \A u \in Threads : HandShakes(u)' => HandShakes(u) /\ u # t
  BY <1>1 DEF HandShakes, FlushPlaces
<1>3. FlushAnnounced'
  BY <1>1 DEF AnnounceInv, FlushAnnounced, FlushPlaces
<1>4. QED
  BY <1>1, <1>2, <1>3, ThreadKinds DEF AnnounceInv

(* A flush resets flushComplete when it begins, and only its end sets it.   *)
LEMMA AnnounceStep ==
    ASSUME OneHandshaker, TypeOK, FileMutexHeld, SettledInv, RunsInv, AnnounceInv, [Next]_vars
    PROVE  AnnounceInv'
<1> USE ThreadKinds, ThreadsAssumption DEF Goto, atomics, app, locals
<1>1. CASE UNCHANGED vars
  BY <1>1 DEF vars, AnnounceInv, FlushAnnounced, HandShakes
<1>2. ASSUME NEW w \in Writers,
             \/ LogMessage(w) \/ AwaitFlushComplete(w) \/ AnnounceWriting(w)
             \/ LockToWrite(w) \/ WriteToFile(w) \/ WriteDone(w) \/ LockToApplyPolicy(w)
             \/ ApplyPeriodically(w) \/ ApplyNoSub(w) \/ ReturnFromPolicy(w)
      PROVE  AnnounceInv'
  <2>1. /\ UNCHANGED <<flushThread, flushThreadEnabled, flushComplete, policy, life>>
        /\ \E place \in WriterPlaces : pc' = [pc EXCEPT ![w] = place]
        /\ \A u \in Threads \ {w} : enabled'[u] = enabled[u]
    BY <1>2, PcType
       DEF LogMessage, AwaitFlushComplete, AnnounceWriting, LockToWrite, WriteToFile,
           WriteDone, LockToApplyPolicy, ApplyPeriodically, ApplyNoSub, ReturnFromPolicy,
           WriterPlaces
  <2>2. WriterPlaces \intersect FlushPlaces = {}
    BY DEF WriterPlaces, FlushPlaces
  <2>3. life' # "live" => ~flushThreadEnabled' \/ pc'[Owner] \in StopPlaces
    BY <2>1, PcType DEF AnnounceInv
  <2>4. QED
    BY <2>1, <2>2, <2>3, AnnounceKept DEF FlushPlaces
<1>3. ASSUME NEW w \in Writers, ApplyPrimary(w) PROVE AnnounceInv'
  <2>1. /\ UNCHANGED <<flushThread, flushThreadEnabled, flushComplete, policy, life, enabled>>
        /\ \E place \in {"stSignal", "polSub", "flEnter"} :
              pc' = [pc EXCEPT ![w] = place] /\ (place = "flEnter" => ~flushThreadEnabled)
    BY <1>3 DEF ApplyPrimary, StopBackgroundThread
  <2>2. life' # "live" => ~flushThreadEnabled' \/ pc'[Owner] \in StopPlaces
    BY <2>1, PcType DEF AnnounceInv
  <2>3. QED
    BY <2>1, <2>2, AnnounceKept DEF FlushPlaces
<1>4. ASSUME NEW w \in Writers, FlushOnLevel(w) PROVE FALSE
  BY <1>4 DEF FlushOnLevel, AnnounceInv
<1>5. ASSUME NEW w \in Writers, NEW g \in Workers, StartBackgroundThread(w, g)
      PROVE  AnnounceInv'
  <2>1. /\ pc[w] = "polSub" /\ pc[g] = "off"
        /\ pc' = [pc EXCEPT ![w] = "polJoin", ![g] = "bgTop"]
        /\ policy' = [policy EXCEPT !.primary = "periodically"]
        /\ UNCHANGED <<flushThread, flushThreadEnabled, flushComplete, life, enabled>>
    BY <1>5 DEF StartBackgroundThread
  <2>2. /\ pc'[w] = "polJoin" /\ pc'[g] = "bgTop"
        /\ \A t \in Threads \ {w, g} : pc'[t] = pc[t]
        /\ policy'.sub = policy.sub
    BY <2>1, PcType DEF TypeOK, ControlType, Policy
  <2>3. \A t \in Threads : HandShakes(t)' => HandShakes(t)
    BY <2>1, <2>2 DEF HandShakes
  <2>4. FlushAnnounced'
    BY <2>1, <2>2 DEF AnnounceInv, FlushAnnounced
  <2>5. QED
    BY <2>1, <2>2, <2>3, <2>4 DEF AnnounceInv, FlushPlaces
<1>6. ASSUME NEW w \in Writers, NEW g \in Workers, ReplaceFlushThread(w, g)
      PROVE  AnnounceInv'
  <2>1. /\ pc[w] = "polJoin" /\ g # flushThread
        /\ flushThread # NoThread => pc[flushThread] = "bgDone"
        /\ flushThread' = g /\ flushThreadEnabled' = TRUE
        /\ UNCHANGED <<flushComplete, policy, life, enabled>>
        /\ pc' = [t \in Threads |-> IF t = w THEN "polOut"
                                     ELSE IF t = flushThread THEN "off" ELSE pc[t]]
    BY <1>6 DEF ReplaceFlushThread
  <2>2. \A t \in Threads : ~HandShakes(t)
    BY <2>1 DEF AnnounceInv, HandShakes
  <2>3. \A t \in Threads : pc'[t] \in {"off", "polOut", pc[t]}
    BY <2>1
  <2>4. \A t \in Threads : ~HandShakes(t)'
    BY <2>1, <2>2, <2>3 DEF HandShakes
  <2>5. life = "live"
    BY <2>1 DEF SettledInv
  <2>6. ASSUME NEW v \in Writers, pc'[v] \in FlushPlaces PROVE FALSE
    <3>1. pc[v] \in FlushPlaces
      BY <2>3, <2>6 DEF FlushPlaces
    <3>2. v = w
      BY <2>1, <3>1, OneInSection DEF FileSection
    <3>3. QED
      BY <2>1, <3>1, <3>2 DEF FlushPlaces
  <2>7. FlushAnnounced'
    BY <2>4 DEF FlushAnnounced, HandShakes
  <2>8. QED
    BY <2>1, <2>4, <2>5, <2>6, <2>7 DEF AnnounceInv
<1>7. ASSUME NEW t \in Threads, EnterFlush(t) PROVE AnnounceInv'
  <2>1. /\ pc[t] = "flEnter" /\ enabled' = [enabled EXCEPT ![t] = flushThreadEnabled]
        /\ pc' = [pc EXCEPT ![t] = IF flushThreadEnabled THEN "flAwait" ELSE "flLock"]
        /\ UNCHANGED <<flushThread, flushThreadEnabled, flushComplete, policy, life>>
    BY <1>7 DEF EnterFlush
  <2>2. ASSUME flushThreadEnabled PROVE t = flushThread
    <3>1. t \notin Writers
      BY <2>1, <2>2 DEF AnnounceInv, FlushPlaces
    <3>2. t # Owner
      BY <2>1, <2>2 DEF AnnounceInv, SettledInv, StopPlaces
    <3>3. QED
      BY <2>1, <2>2, <3>1, <3>2 DEF RunsInv, Unowned, Threads
  <2>3. /\ enabled'[t] = flushThreadEnabled
        /\ pc'[t] = IF flushThreadEnabled THEN "flAwait" ELSE "flLock"
        /\ \A u \in Threads \ {t} : pc'[u] = pc[u] /\ enabled'[u] = enabled[u]
    BY <2>1, PcType
  <2>4. \A u \in Threads : HandShakes(u)' => u = flushThread
    BY <2>2, <2>3 DEF AnnounceInv, HandShakes
  <2>5. FlushAnnounced'
    BY <2>1, <2>3 DEF AnnounceInv, FlushAnnounced
  <2>6. QED
    BY <2>1, <2>3, <2>4, <2>5 DEF AnnounceInv, FlushPlaces, StopPlaces
<1>8. ASSUME NEW t \in Threads, AwaitWriter(t) \/ AnnounceFlush(t) PROVE AnnounceInv'
  <2>1. /\ pc[t] \in {"flAwait", "flAnnounce"}
        /\ \/ pc' = [pc EXCEPT ![t] = "flAnnounce"] /\ UNCHANGED flushComplete
           \/ pc' = [pc EXCEPT ![t] = "flLock"] /\ flushComplete' = FALSE
        /\ UNCHANGED <<flushThread, flushThreadEnabled, policy, life, enabled>>
    BY <1>8 DEF AwaitWriter, AnnounceFlush
  <2>2. /\ pc'[t] \in {"flAnnounce", "flLock"} /\ (pc'[t] = "flLock" => ~flushComplete')
        /\ \A u \in Threads \ {t} : pc'[u] = pc[u]
        /\ flushComplete' => flushComplete
    BY <2>1, PcType
  <2>3. \A u \in Threads : HandShakes(u)' => HandShakes(u)
    BY <2>1, <2>2 DEF HandShakes
  <2>4. FlushAnnounced'
    BY <2>1, <2>2 DEF AnnounceInv, FlushAnnounced
  <2>5. QED
    BY <2>1, <2>2, <2>3, <2>4 DEF AnnounceInv, FlushPlaces, StopPlaces
<1>9. ASSUME NEW t \in Threads, LockToFlush(t) PROVE AnnounceInv'
  <2>1. /\ pc[t] = "flLock" /\ pc' = [pc EXCEPT ![t] = "flushing"]
        /\ UNCHANGED <<flushThread, flushThreadEnabled, flushComplete, policy, life, enabled>>
    BY <1>9 DEF LockToFlush
  <2>2. pc'[t] = "flushing" /\ \A u \in Threads \ {t} : pc'[u] = pc[u]
    BY <2>1, PcType
  <2>3. \A u \in Threads : HandShakes(u)' => HandShakes(u)
    BY <2>1, <2>2 DEF HandShakes
  <2>4. FlushAnnounced'
    BY <2>1, <2>2 DEF AnnounceInv, FlushAnnounced
  <2>5. QED
    BY <2>1, <2>2, <2>3, <2>4 DEF AnnounceInv, FlushPlaces, StopPlaces
<1>10. ASSUME NEW t \in Threads, FlushImpl(t) PROVE AnnounceInv'
  <2>1. /\ pc[t] = "flushing"
        /\ pc' = [pc EXCEPT ![t] = IF enabled[t] THEN "flDone" ELSE ret[t]]
        /\ UNCHANGED <<flushThread, flushThreadEnabled, flushComplete, policy, life, enabled>>
    BY <1>10 DEF FlushImpl
  <2>2. /\ pc'[t] = IF enabled[t] THEN "flDone" ELSE ret[t]
        /\ ret[t] \in {"polSub", "polOut", "bgSleep", "clEnter"}
        /\ \A u \in Threads \ {t} : pc'[u] = pc[u]
    BY <2>1, PcType, FlushReturns DEF FlushPlaces
  <2>3. \A u \in Threads : HandShakes(u)' => HandShakes(u)
    BY <2>1, <2>2 DEF HandShakes
  <2>4. FlushAnnounced'
    BY <2>1, <2>2 DEF AnnounceInv, FlushAnnounced
  <2>5. QED
    BY <2>1, <2>2, <2>3, <2>4 DEF AnnounceInv, FlushPlaces, StopPlaces
<1>11. ASSUME NEW t \in Threads, FlushDone(t) PROVE AnnounceInv'
  <2>1. /\ pc[t] = "flDone" /\ pc' = [pc EXCEPT ![t] = ret[t]]
        /\ UNCHANGED <<flushThread, flushThreadEnabled, policy, life, enabled>>
    BY <1>11 DEF FlushDone
  <2>2. /\ pc'[t] \in {"polSub", "polOut", "bgSleep", "clEnter"}
        /\ \A u \in Threads \ {t} : pc'[u] = pc[u]
    BY <2>1, PcType, FlushReturns DEF FlushPlaces
  <2>3. t = flushThread
    BY <2>1 DEF AnnounceInv, HandShakes
  <2>4. \A u \in Threads : ~HandShakes(u)'
    BY <2>1, <2>2, <2>3 DEF AnnounceInv, HandShakes
  <2>5. FlushAnnounced'
    BY <2>4 DEF FlushAnnounced, HandShakes
  <2>6. QED
    BY <2>1, <2>2, <2>4, <2>5 DEF AnnounceInv, FlushPlaces, StopPlaces
<1>12. ASSUME NEW g \in Workers, CheckCleanUp(g) \/ AwaitResume(g) \/ WakeUp(g)
       PROVE  AnnounceInv'
  <2>1. /\ UNCHANGED <<flushThread, flushThreadEnabled, flushComplete, policy, life, enabled>>
        /\ g \notin Writers
        /\ \E place \in {"bgDone", "bgPause", "flEnter", "bgTop"} : pc' = [pc EXCEPT ![g] = place]
    BY <1>12 DEF CheckCleanUp, AwaitResume, WakeUp
  <2>2. life' # "live" => ~flushThreadEnabled' \/ pc'[Owner] \in StopPlaces
    BY <2>1, PcType DEF AnnounceInv
  <2>3. QED
    BY <2>1, <2>2, AnnounceKept DEF FlushPlaces
<1>13. ASSUME NEW p \in Policies, SetFlushPolicy(p) PROVE AnnounceInv'
  BY <1>13 DEF SetFlushPolicy, AnnounceInv, FlushAnnounced, HandShakes, OneHandshaker
<1>14. CASE RenameFile \/ PauseBackgroundThread \/ MoveFile \/ OpenFile
  BY <1>14 DEF RenameFile, PauseBackgroundThread, MoveFile, OpenFile, OneHandshaker, SettledInv
<1>15. CASE Destroy
  <2>1. /\ UNCHANGED <<flushThread, flushThreadEnabled, flushComplete, policy, enabled>>
        /\ \E place \in {"stSignal", "flEnter"} :
              /\ pc' = [pc EXCEPT ![Owner] = place]
              /\ ~flushThreadEnabled \/ place = "stSignal"
    BY <1>15 DEF Destroy, StopBackgroundThread
  <2>2. ~flushThreadEnabled' \/ pc'[Owner] \in StopPlaces
    BY <2>1, PcType DEF StopPlaces
  <2>3. QED
    BY <2>1, <2>2, AnnounceKept DEF FlushPlaces
<1>16. CASE EnterClose \/ CloseImpl \/ JoinFlushThread
  <2>1. /\ UNCHANGED <<flushThread, flushThreadEnabled, flushComplete, policy, enabled>>
        /\ \E place \in {"closing", "dtJoin", "rnMove", "gone"} :
              pc' = [pc EXCEPT ![Owner] = place]
    BY <1>16 DEF EnterClose, CloseImpl, JoinFlushThread
  <2>2. life # "live"
    BY <1>16 DEF EnterClose, CloseImpl, JoinFlushThread, SettledInv
  <2>3. ~flushThreadEnabled'
    BY <1>16, <2>1, <2>2 DEF AnnounceInv, StopPlaces, EnterClose, CloseImpl, JoinFlushThread
  <2>4. QED
    BY <2>1, <2>3, AnnounceKept DEF FlushPlaces
<1>17. ASSUME NEW t \in Threads, SignalCleanUp(t) \/ ForgetPolicy(t) PROVE AnnounceInv'
  <2>1. /\ UNCHANGED <<flushThread, flushThreadEnabled, flushComplete, life, enabled>>
        /\ pc[t] \in StopPlaces
        /\ \E place \in {"stPolicy", "stDisable"} : pc' = [pc EXCEPT ![t] = place]
    BY <1>17 DEF SignalCleanUp, ForgetPolicy, StopPlaces
  <2>2. policy'.sub = policy.sub
    BY <1>17 DEF SignalCleanUp, ForgetPolicy, TypeOK, ControlType, Policy
  <2>3. life' # "live" => ~flushThreadEnabled' \/ pc'[Owner] \in StopPlaces
    BY <2>1, PcType DEF AnnounceInv, StopPlaces
  <2>4. QED
    BY <2>1, <2>2, <2>3, AnnounceKept DEF FlushPlaces
<1>18. ASSUME NEW t \in Threads, DisableThread(t) PROVE AnnounceInv'
  <2>1. /\ UNCHANGED <<flushThread, flushComplete, policy, life, enabled>>
        /\ pc[t] \in StopPlaces /\ pc' = [pc EXCEPT ![t] = ret[t]] /\ ~flushThreadEnabled'
    BY <1>18 DEF DisableThread, StopPlaces
  <2>2. ret[t] \in {"polSub", "flEnter"}
    BY <2>1, StopReturns
  <2>3. QED
    BY <2>1, <2>2, AnnounceKept DEF FlushPlaces
<1>19. QED
  BY <1>1, <1>2, <1>3, <1>4, <1>5, <1>6, <1>7, <1>8, <1>9, <1>10, <1>11, <1>12, <1>13, <1>14,
     <1>15, <1>16, <1>17, <1>18
     DEF Next, Application, WriterStep, WorkerStep, OwnerStep, StopStep, FlushStep, Terminated

(* While a flush that takes part in the handshake is at work flushComplete  *)
(* is reset, so that PrintMessage can see it: nobody else's flush sets it   *)
(* too early, even while flush threads are stopped and replaced.            *)
THEOREM FlushesAnnounced ==
    ASSUME OneHandshaker
    PROVE  Spec => []FlushAnnounced
<1>1. Init => AnnounceInv
  BY ThreadKinds, ThreadsAssumption DEF Init, AnnounceInv, FlushAnnounced, HandShakes, FlushPlaces
<1>2. TypeOK /\ FileMutexHeld /\ SettledInv /\ RunsInv /\ AnnounceInv /\ [Next]_vars
        => AnnounceInv'
  BY AnnounceStep
<1>3. AnnounceInv => FlushAnnounced
  BY DEF AnnounceInv
<1>4. QED
  BY <1>1, <1>2, <1>3, TypeCorrect, MutexesHeld, SpecSettled, SpecRuns, PTL
     DEF Spec, OneHandshaker
=============================================================================
