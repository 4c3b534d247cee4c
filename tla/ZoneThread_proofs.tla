--------------------------- MODULE ZoneThread_proofs ---------------------------
(***************************************************************************)
(* The zone thread of a target, for any number of restarts and any periods  *)
(* of the time zone: who holds timeMutex, which threads are still there,    *)
(* and what isThreadActive being false says of them.                        *)
(***************************************************************************)
EXTENDS ZoneThread, TLAPS

InStart == {"assigning", "joining"}
InDestruction == {"members", "lastJoin", "gone"}

\* The mutex is held by exactly the one that is between lock and unlock.
Locks ==
    /\ \A t \in ZoneThreads : pc[t] \in {"updating", "caching", "deriving"} <=> mutex = t
    /\ owner \in {"starting", "stopping", "destroying"} \union InStart <=> mutex = Owner

\* Of the threads started, only the last may be alive, and the one before it
\* while the new one is being stored.
Threads ==
    /\ \A t \in ZoneThreads : pc[t] = "none" <=> t > created
    /\ owner = "starting" => created < MaxThreads
    /\ owner # "assigning" => tzUpdateThread = created
    /\ owner = "assigning" => created > 0 /\ tzUpdateThread = created - 1
    /\ owner = "joining" => created > 0 /\ old = created - 1
    /\ owner \in InStart => pc[created] = "started"
    /\ \A t \in ZoneThreads : t < created /\ pc[t] # "ended" => owner \in InStart /\ t = created - 1

\* A thread that is not active any more was told so, and woken.
Stops ==
    /\ stopRequested \subseteq 1 .. created
    /\ owner \in InStart => ~isThreadActive /\ created \notin stopRequested
    /\ owner \in InDestruction => ~isThreadActive
    /\ ~cvAlive => owner \in InDestruction
    /\ isThreadActive => created > 0 /\ created \notin stopRequested
    /\ ~isThreadActive /\ owner \notin InStart =>
           /\ created > 0 => created \in stopRequested
           /\ \A t \in ZoneThreads : pc[t] = "waiting" => t \in notified

Savings == (\A t \in ZoneThreads : pc[t] # "deriving") => isDaylightSavings = Saves[sysCache]

Tries ==
    /\ \A t \in ZoneThreads : pc[t] = "updating" => tries[t] < Last
    /\ isThreadActive /\ pc[created] = "ended" => tries[created] = Last

Inv == TypeOK /\ Locks /\ Threads /\ Stops /\ OwnToken /\ Savings /\ Tries

\* It holds before the first thread is started.
LEMMA InitInv == Init => Inv
  <1> SUFFICES ASSUME Init PROVE Inv OBVIOUS
  <1> USE ZoneAssumption DEF Init, ZoneThreads, Periods, None, Free, Owner, Last
  <1>1. TypeOK
    <2>1. clock \in 1 .. Len(Saves) /\ sysCache \in 1 .. Len(Saves) OBVIOUS
    <2>2. pc \in [ZoneThreads -> {"none", "started", "waiting", "updating", "caching", "deriving", "ended"}]
      OBVIOUS
    <2>3. stopToken \in [ZoneThreads -> 0 .. MaxThreads] /\ tries \in [ZoneThreads -> 0 .. Last] OBVIOUS
    <2>4. created \in 0 .. MaxThreads /\ tzUpdateThread \in 0 .. MaxThreads /\ old \in 0 .. MaxThreads OBVIOUS
    <2> QED BY <2>1, <2>2, <2>3, <2>4 DEF TypeOK
  <1>2. Locks BY DEF Locks, InStart
  <1>3. Threads BY DEF Threads, InStart
  <1>4. Stops BY DEF Stops, InStart, InDestruction
  <1>5. OwnToken /\ Savings /\ Tries BY DEF OwnToken, Savings, Tries
  <1> QED BY <1>1, <1>2, <1>3, <1>4, <1>5 DEF Inv

\* The number of threads is a number.
LEMMA Bound == MaxThreads \in Nat
  BY ZoneAssumption

\* The calls, before the mutex is theirs.
LEMMA LockStep ==
  ASSUME Inv, NEW to \in {"starting", "stopping", "destroying"}, Lock("idle", to),
         to = "starting" => created < MaxThreads
  PROVE  Inv'
  <1> USE DEF Inv, Lock, threadVars, cacheVars, ZoneThreads, Free, Owner, None
  <1>1. TypeOK' BY DEF TypeOK
  <1>2. Locks' BY DEF TypeOK, Locks, InStart
  <1>3. Threads' BY DEF Threads, InStart
  <1>4. Stops' BY DEF Stops, InStart, InDestruction
  <1>5. OwnToken' /\ Savings' /\ Tries' BY DEF OwnToken, Savings, Tries
  <1> QED BY <1>1, <1>2, <1>3, <1>4, <1>5

\* The steps of EnableZoneThread(true).
LEMMA StartStep ==
  ASSUME Inv, StartAgain \/ StartZoneThread \/ AssignThread \/ JoinOld
  PROVE  Inv'
  <1> USE Bound DEF Inv, threadVars, cacheVars, ZoneThreads, Free, Owner, None
  <1>1. CASE StartAgain
    <2> USE <1>1 DEF StartAgain
    <2>1. TypeOK' BY DEF TypeOK
    <2>2. Locks' BY DEF TypeOK, Locks, InStart
    <2>3. Threads' BY DEF Threads, InStart
    <2>4. Stops' BY DEF Stops, InStart, InDestruction
    <2>5. OwnToken' /\ Savings' /\ Tries' BY DEF OwnToken, Savings, Tries
    <2> QED BY <2>1, <2>2, <2>3, <2>4, <2>5
  <1>2. CASE StartZoneThread
    <2> USE <1>2 DEF StartZoneThread
    <2>1. TypeOK' BY DEF TypeOK, Threads
    <2>2. Locks' BY DEF TypeOK, Locks, InStart
    <2>3. Threads' BY DEF TypeOK, Threads, InStart
    <2>4. Stops' BY DEF TypeOK, Stops, InStart, InDestruction
    <2>5. OwnToken' BY DEF TypeOK, OwnToken
    <2>6. Savings' BY DEF TypeOK, Savings, Threads
    <2>7. Tries' BY DEF TypeOK, Tries, Stops
    <2> QED BY <2>1, <2>2, <2>3, <2>4, <2>5, <2>6, <2>7
  <1>3. CASE AssignThread
    <2> USE <1>3 DEF AssignThread
    <2>1. TypeOK' BY DEF TypeOK, Threads
    <2>2. Locks' BY DEF TypeOK, Locks, InStart
    <2>3. Threads' BY DEF TypeOK, Threads, InStart
    <2>4. Stops' BY DEF TypeOK, Threads, Stops, InStart, InDestruction
    <2>5. OwnToken' /\ Savings' /\ Tries' BY DEF OwnToken, Savings, Tries
    <2> QED BY <2>1, <2>2, <2>3, <2>4, <2>5
  <1>4. CASE JoinOld
    <2> USE <1>4 DEF JoinOld, Ended
    <2>1. TypeOK' BY DEF TypeOK
    <2>2. Locks' BY DEF TypeOK, Locks, InStart
    <2>3. Threads' BY DEF TypeOK, Threads, InStart
    <2>4. Stops' BY DEF TypeOK, Threads, Stops, InStart, InDestruction
    <2>5. OwnToken' /\ Savings' BY DEF OwnToken, Savings
    <2>6. Tries' BY DEF TypeOK, Threads, Tries, InStart
    <2> QED BY <2>1, <2>2, <2>3, <2>4, <2>5, <2>6
  <1> QED BY <1>1, <1>2, <1>3, <1>4

\* EnableZoneThread(false), and what ~Message_Time does after it.
LEMMA StopStep ==
  ASSUME Inv, StopZoneThread \/ DestroyCv \/ JoinLast
  PROVE  Inv'
  <1> USE Bound DEF Inv, threadVars, cacheVars, ZoneThreads, Free, Owner, None
  <1>1. CASE StopZoneThread
    <2> USE <1>1 DEF StopZoneThread, RequestStop
    <2>a. tzUpdateThread \in 0 .. MaxThreads BY DEF TypeOK
    <2>b. stopRequested' \subseteq stopRequested \union ({tzUpdateThread} \ {None})
          /\ notified' \subseteq notified \union ({tzUpdateThread} \ {None})
      OBVIOUS
    <2>c. stopRequested' \subseteq ZoneThreads /\ notified' \subseteq ZoneThreads
      BY <2>a, <2>b DEF TypeOK
    <2>1. TypeOK' BY <2>c DEF TypeOK
    <2>2. Locks' BY DEF TypeOK, Locks, InStart
    <2>3. Threads' BY DEF TypeOK, Threads, InStart
    <2>4. stopRequested' \subseteq 1 .. created'
      <3>1. tzUpdateThread = created /\ created \in Nat /\ created' = created BY DEF TypeOK, Threads
      <3> QED BY <2>b, <3>1 DEF Stops
    <2>5. ~isThreadActive'
      <3>1. isThreadActive => tzUpdateThread # None BY DEF TypeOK, Threads, Stops
      <3> QED BY <3>1 DEF TypeOK
    <2>6. created > 0 => created \in stopRequested' BY DEF TypeOK, Threads, Stops, InStart
    <2>7. ASSUME NEW t \in ZoneThreads, pc[t] = "waiting" PROVE t \in notified'
      <3>1. t = created /\ tzUpdateThread = t /\ t # None BY <2>7 DEF TypeOK, Threads, InStart
      <3>2. CASE isThreadActive BY <2>7, <3>1, <3>2
      <3>3. CASE ~isThreadActive BY <2>7, <3>3 DEF Stops, InStart
      <3> QED BY <3>2, <3>3
    <2>8. Stops' BY <2>4, <2>5, <2>6, <2>7 DEF Stops, InStart, InDestruction
    <2>9. OwnToken' /\ Savings' BY DEF OwnToken, Savings
    <2>10. Tries' BY <2>5 DEF Tries
    <2> QED BY <2>1, <2>2, <2>3, <2>8, <2>9, <2>10
  <1>2. CASE DestroyCv
    <2> USE <1>2 DEF DestroyCv
    <2>a. stopRequested' \subseteq ZoneThreads
      <3>1. tzUpdateThread \in 0 .. MaxThreads BY DEF TypeOK
      <3> QED BY <3>1 DEF TypeOK
    <2>1. TypeOK' BY <2>a DEF TypeOK
    <2>2. Locks' BY DEF TypeOK, Locks, InStart
    <2>3. Threads' BY DEF TypeOK, Threads, InStart
    <2>4. Stops' BY DEF TypeOK, Threads, Stops, InStart, InDestruction
    <2>5. OwnToken' /\ Savings' /\ Tries' BY DEF OwnToken, Savings, Tries
    <2> QED BY <2>1, <2>2, <2>3, <2>4, <2>5
  <1>3. CASE JoinLast
    <2> USE <1>3 DEF JoinLast
    <2>1. TypeOK' BY DEF TypeOK
    <2>2. Locks' BY DEF TypeOK, Locks, InStart
    <2>3. Threads' BY DEF TypeOK, Threads, InStart
    <2>4. Stops' BY DEF Stops, InStart, InDestruction
    <2>5. OwnToken' /\ Savings' /\ Tries' BY DEF OwnToken, Savings, Tries
    <2> QED BY <2>1, <2>2, <2>3, <2>4, <2>5
  <1> QED BY <1>1, <1>2, <1>3

\* A thread takes the mutex: for the first time, or when it wakes.
LEMMA AcquireStep ==
  ASSUME Inv, NEW t \in ZoneThreads, Begin(t) \/ Wake(t)
  PROVE  Inv'
  <1> USE Bound
      DEF Inv, ThreadUnchanged, ownerVars, cacheVars, ZoneThreads, Free, Owner, None, Goto, Last
  <1>1. CASE Begin(t)
    <2> USE <1>1 DEF Begin, LoopHead
    <2>1. owner \notin InStart \union {"starting", "stopping", "destroying"} BY DEF Locks
    <2>2. t = created /\ tzUpdateThread = t BY <2>1 DEF TypeOK, Threads, InStart
    <2>3. TypeOK' BY DEF TypeOK
    <2>4. Locks' BY <2>1 DEF TypeOK, Locks, InStart
    <2>5. Threads' BY <2>1, <2>2 DEF TypeOK, Threads, InStart
    <2>6. Stops' BY <2>1, <2>2 DEF TypeOK, Stops, InStart, InDestruction
    <2>7. OwnToken' BY <2>2 DEF TypeOK, OwnToken
    <2>8. Savings' BY DEF TypeOK, Savings
    <2>9. Tries' BY <2>1, <2>2 DEF TypeOK, Stops, Tries
    <2> QED BY <2>3, <2>4, <2>5, <2>6, <2>7, <2>8, <2>9
  <1>2. CASE Wake(t)
    <2> USE <1>2 DEF Wake
    <2>1. owner \notin InStart \union {"starting", "stopping", "destroying"} BY DEF Locks
    <2>2. TypeOK' BY DEF TypeOK
    <2>3. Locks' BY <2>1 DEF TypeOK, Locks, InStart
    <2>4. Threads' BY <2>1 DEF TypeOK, Threads, InStart
    <2>5. Stops' BY <2>1 DEF TypeOK, Stops, InStart, InDestruction
    <2>6. OwnToken' BY DEF TypeOK, OwnToken
    <2>7. Savings' BY DEF TypeOK, Savings
    <2>8. Tries' BY DEF TypeOK, Tries
    <2> QED BY <2>2, <2>3, <2>4, <2>5, <2>6, <2>7, <2>8
  <1> QED BY <1>1, <1>2

\* A thread goes on with the mutex, or gives it up.
LEMMA HolderStep ==
  ASSUME Inv, NEW t \in ZoneThreads,
         StopSeen(t) \/ ReloadSucceeds(t) \/ ReloadFails(t) \/ CacheInfo(t) \/ DeriveSavings(t)
  PROVE  Inv'
  <1> USE Bound
      DEF Inv, ThreadUnchanged, ownerVars, ZoneThreads, Free, Owner, None, Goto, Last
  <1>1. mutex = t /\ pc[t] \in {"updating", "caching", "deriving"}
    BY DEF Locks, StopSeen, ReloadSucceeds, ReloadFails, CacheInfo, DeriveSavings
  <1>2. owner \notin InStart \union {"starting", "stopping", "destroying"} BY <1>1 DEF Locks
  <1>3. t = created /\ stopToken[t] = t BY <1>1, <1>2 DEF TypeOK, Threads, OwnToken, InStart
  <1>4. \A u \in ZoneThreads \ {t} : pc[u] \notin {"updating", "caching", "deriving"} BY <1>1 DEF Locks
  <1>5. CASE StopSeen(t)
    <2> USE <1>5 DEF StopSeen, StopRequested, cacheVars
    <2>1. TypeOK' BY DEF TypeOK
    <2>2. Locks' BY <1>1, <1>2, <1>4 DEF TypeOK, Locks, InStart
    <2>3. Threads' BY <1>2, <1>3 DEF TypeOK, Threads, InStart
    <2>4. Stops' BY <1>2, <1>3 DEF TypeOK, Stops, InStart, InDestruction
    <2>5. OwnToken' /\ Savings' BY <1>1 DEF TypeOK, OwnToken, Savings
    <2>6. Tries' BY <1>3 DEF TypeOK, Stops, Tries
    <2> QED BY <2>1, <2>2, <2>3, <2>4, <2>5, <2>6
  <1>6. CASE ReloadSucceeds(t)
    <2> USE <1>6 DEF ReloadSucceeds, cacheVars
    <2>1. TypeOK' BY DEF TypeOK
    <2>2. Locks' BY <1>1, <1>2, <1>4 DEF TypeOK, Locks, InStart
    <2>3. Threads' BY <1>2, <1>3 DEF TypeOK, Threads, InStart
    <2>4. Stops' BY <1>2, <1>3 DEF TypeOK, Stops, InStart, InDestruction
    <2>5. OwnToken' /\ Savings' BY <1>1 DEF TypeOK, OwnToken, Savings
    <2>6. Tries' BY <1>3 DEF TypeOK, Stops, Tries
    <2> QED BY <2>1, <2>2, <2>3, <2>4, <2>5, <2>6
  <1>7. CASE ReloadFails(t)
    <2> USE <1>7 DEF ReloadFails, cacheVars
    <2>a. tries[t] < 3 /\ tries[t] \in 0 .. 3 BY <1>1 DEF TypeOK, Tries
    <2>b. tries[t] + 1 \in 0 .. 3 BY <2>a
    <2>c. tries' \in [ZoneThreads -> 0 .. 3] BY <2>b DEF TypeOK
    <2>1. TypeOK' BY <2>c DEF TypeOK
    <2>2. Locks' BY <1>1, <1>2, <1>4 DEF TypeOK, Locks, InStart
    <2>3. Threads' BY <1>2, <1>3 DEF TypeOK, Threads, InStart
    <2>4. Stops' BY <1>2, <1>3 DEF TypeOK, Stops, InStart, InDestruction
    <2>5. OwnToken' /\ Savings' BY <1>1 DEF TypeOK, OwnToken, Savings
    <2>6. Tries' BY <1>3 DEF TypeOK, Stops, Tries
    <2> QED BY <2>1, <2>2, <2>3, <2>4, <2>5, <2>6
  <1>8. CASE CacheInfo(t)
    <2> USE <1>8 DEF CacheInfo
    <2>1. TypeOK' BY DEF TypeOK
    <2>2. Locks' BY <1>1, <1>2, <1>4 DEF TypeOK, Locks, InStart
    <2>3. Threads' BY <1>2, <1>3 DEF TypeOK, Threads, InStart
    <2>4. Stops' BY <1>2, <1>3 DEF TypeOK, Stops, InStart, InDestruction
    <2>5. OwnToken' /\ Savings' BY <1>1 DEF TypeOK, OwnToken, Savings
    <2>6. Tries' BY <1>3 DEF TypeOK, Stops, Tries
    <2> QED BY <2>1, <2>2, <2>3, <2>4, <2>5, <2>6
  <1>9. CASE DeriveSavings(t)
    <2> USE <1>9 DEF DeriveSavings, LoopHead, StopRequested
    <2>1. TypeOK' BY DEF TypeOK
    <2>2. Locks' BY <1>1, <1>2, <1>4 DEF TypeOK, Locks, InStart
    <2>3. Threads' BY <1>2, <1>3 DEF TypeOK, Threads, InStart
    <2>4. Stops' BY <1>2, <1>3 DEF TypeOK, Stops, InStart, InDestruction
    <2>5. OwnToken' /\ Savings' BY <1>1 DEF TypeOK, OwnToken, Savings
    <2>6. Tries' BY <1>3 DEF TypeOK, Stops, Tries
    <2> QED BY <2>1, <2>2, <2>3, <2>4, <2>5, <2>6
  <1> QED BY <1>5, <1>6, <1>7, <1>8, <1>9

\* Every step of the owner and of a thread keeps it.
LEMMA NextInv == Inv /\ [Next]_vars => Inv'
  <1> SUFFICES ASSUME Inv, [Next]_vars PROVE Inv' OBVIOUS
  <1>1. CASE EnableZoneThread BY <1>1, LockStep DEF EnableZoneThread
  <1>2. CASE DisableZoneThread BY <1>2, LockStep DEF DisableZoneThread
  <1>3. CASE DestroyMessageTime BY <1>3, LockStep DEF DestroyMessageTime
  <1>4. CASE StartAgain \/ StartZoneThread \/ AssignThread \/ JoinOld BY <1>4, StartStep
  <1>5. CASE StopZoneThread \/ DestroyCv \/ JoinLast BY <1>5, StopStep
  <1>6. ASSUME NEW t \in ZoneThreads, Begin(t) \/ Wake(t) PROVE Inv' BY <1>6, AcquireStep
  <1>7. ASSUME NEW t \in ZoneThreads,
               StopSeen(t) \/ ReloadSucceeds(t) \/ ReloadFails(t) \/ CacheInfo(t) \/ DeriveSavings(t)
        PROVE  Inv'
    BY <1>7, HolderStep
  <1>8. CASE Tick
    <2> USE <1>8 DEF Tick, ownerVars, cacheVars, threadVars
    <2>1. TypeOK' BY DEF Inv, TypeOK, ZoneThreads
    <2>2. (Locks /\ Threads /\ Stops)' BY DEF Inv, Locks, Threads, Stops, InStart, InDestruction
    <2>3. (OwnToken /\ Savings /\ Tries)' BY DEF Inv, OwnToken, Savings, Tries
    <2> QED BY <2>1, <2>2, <2>3 DEF Inv
  <1>9. CASE UNCHANGED vars
    <2> USE <1>9 DEF vars, ownerVars, cacheVars, threadVars
    <2>1. TypeOK' BY DEF Inv, TypeOK, ZoneThreads
    <2>2. (Locks /\ Threads /\ Stops)' BY DEF Inv, Locks, Threads, Stops, InStart, InDestruction
    <2>3. (OwnToken /\ Savings /\ Tries)' BY DEF Inv, OwnToken, Savings, Tries
    <2> QED BY <2>1, <2>2, <2>3 DEF Inv
  <1> QED BY <1>1, <1>2, <1>3, <1>4, <1>5, <1>6, <1>7, <1>8, <1>9 DEF Next, Terminated

\* So it always holds.
LEMMA SpecInv == Spec => []Inv
  BY InitInv, NextInv, PTL DEF Spec

\* The variables keep their types, whoever takes the mutex when and however often
\* zone threads are stopped and started again.
THEOREM Typed == Spec => []TypeOK
  <1>1. Inv => TypeOK BY DEF Inv
  <1> QED BY <1>1, SpecInv, PTL

\* Every thread listens to the request made to itself, however the owner and the
\* thread it has just started interleave.
THEOREM Token == Spec => []OwnToken
  <1>1. Inv => OwnToken BY DEF Inv
  <1> QED BY <1>1, SpecInv, PTL

\* Whoever takes the mutex finds the savings flag and the cached information agreed.
THEOREM Whole == Spec => []CacheWhole
  <1>1. Inv => CacheWhole
    <2> SUFFICES ASSUME Inv, mutex \notin ZoneThreads PROVE isDaylightSavings = Saves[sysCache]
      BY DEF CacheWhole
    <2> QED BY DEF Inv, Locks, Savings
  <1> QED BY <1>1, SpecInv, PTL

\* The condition variable is destroyed when no thread sleeps on it.
THEOREM CvUnused == Spec => []NobodyWaits
  <1>1. Inv => NobodyWaits BY DEF Inv, NobodyWaits, Stops, InStart, InDestruction
  <1> QED BY <1>1, SpecInv, PTL

\* An active thread is alive unless all its tries to reload have failed.
THEOREM Active == Spec => []ActiveOrGivenUp
  <1>1. Inv => ActiveOrGivenUp
    BY DEF Inv, ActiveOrGivenUp, TypeOK, Threads, Stops, Tries, InStart, None
  <1> QED BY <1>1, SpecInv, PTL
=============================================================================
