------------------------------ MODULE ZoneThread ------------------------------
(***************************************************************************)
(* Message_Time's thread that keeps the offset from UTC up to date: the      *)
(* owner (the thread that builds, uses and destroys a target) starts, stops *)
(* and at last destroys it, and a zone thread sleeps until the information   *)
(* it has cached ends.  timeMutex is held over several steps, and one of    *)
(* them, the assignment to tzUpdateThread, joins the thread stored before.  *)
(***************************************************************************)
EXTENDS Integers, Sequences

CONSTANTS
    Saves,          \* daylight savings of each period of the time zone, in order
    MaxThreads      \* how many threads may be started

Last == 3           \* maxAttempt + 1
Periods == 1 .. Len(Saves)
ZoneThreads == 1 .. MaxThreads
None == 0
Free == 0
Owner == -1

ASSUME ZoneAssumption ==
    /\ MaxThreads \in Nat
    /\ Saves \in Seq(BOOLEAN) /\ Saves # <<>>

VARIABLES
    clock,              \* the period the system clock is in
    mutex,              \* timeMutex: Free, Owner, or the zone thread that holds it
    owner,              \* what the owner is doing
    created,            \* threads started so far
    tzUpdateThread, old,    \* the thread in the member, and the one it replaced
    stopRequested,      \* threads whose stop_source was asked to stop
    notified,           \* threads notified while waiting
    isThreadActive, cvAlive,
    sysCache, isDaylightSavings,    \* the period cached, and what was derived from it
    pc, stopToken, tries            \* of each zone thread

ownerVars == <<owner, created, tzUpdateThread, old, isThreadActive, cvAlive>>
cacheVars == <<sysCache, isDaylightSavings>>
threadVars == <<pc, stopToken, tries>>
vars == <<clock, mutex, ownerVars, stopRequested, notified, cacheVars, threadVars>>

Init ==
    /\ clock \in Periods /\ mutex = Free /\ owner = "idle" /\ created = 0
    /\ tzUpdateThread = None /\ old = None /\ isThreadActive = FALSE /\ cvAlive = TRUE
    /\ stopRequested = {} /\ notified = {}
    /\ sysCache = clock /\ isDaylightSavings = Saves[clock]
    /\ pc = [t \in ZoneThreads |-> "none"]
    /\ stopToken = [t \in ZoneThreads |-> None]
    /\ tries = [t \in ZoneThreads |-> 0]

\* A thread that has none to ask is never told to stop.
StopRequested(t) == stopToken[t] \in stopRequested

-----------------------------------------------------------------------------
(* The owner.                                                                *)
Lock(from, to) ==
    /\ owner = from /\ mutex = Free
    /\ owner' = to /\ mutex' = Owner
    /\ UNCHANGED <<clock, created, tzUpdateThread, old, isThreadActive, cvAlive, stopRequested,
                   notified, cacheVars, threadVars>>

EnableZoneThread == created < MaxThreads /\ Lock("idle", "starting")
DisableZoneThread == Lock("idle", "stopping")
DestroyMessageTime == Lock("idle", "destroying")

StartAgain ==
    /\ owner = "starting" /\ isThreadActive
    /\ owner' = "idle" /\ mutex' = Free
    /\ UNCHANGED <<clock, created, tzUpdateThread, old, isThreadActive, cvAlive, stopRequested,
                   notified, cacheVars, threadVars>>

\* The new thread runs before it is stored.
StartZoneThread ==
    /\ owner = "starting" /\ ~isThreadActive
    /\ created' = created + 1 /\ pc' = [pc EXCEPT ![created + 1] = "started"]
    /\ owner' = "assigning"
    /\ UNCHANGED <<clock, mutex, tzUpdateThread, old, isThreadActive, cvAlive, stopRequested, notified,
                   cacheVars, stopToken, tries>>

AssignThread ==
    /\ owner = "assigning"
    /\ old' = tzUpdateThread /\ tzUpdateThread' = created
    /\ stopRequested' = stopRequested \union ({tzUpdateThread} \ {None})
    /\ owner' = "joining"
    /\ UNCHANGED <<clock, mutex, created, isThreadActive, cvAlive, notified, cacheVars, threadVars>>

Ended(t) == t # None => pc[t] = "ended"

JoinOld ==
    /\ owner = "joining" /\ Ended(old)
    /\ isThreadActive' = TRUE /\ owner' = "idle" /\ mutex' = Free
    /\ UNCHANGED <<clock, created, tzUpdateThread, old, cvAlive, stopRequested, notified, cacheVars,
                   threadVars>>

\* Faulty variant: the thread is asked to stop and not woken.
RequestStopSilently ==
    IF isThreadActive /\ tzUpdateThread # None
    THEN /\ stopRequested' = stopRequested \union {tzUpdateThread}
         /\ isThreadActive' = FALSE
         /\ UNCHANGED notified
    ELSE UNCHANGED <<stopRequested, notified, isThreadActive>>

RequestStop ==
    IF isThreadActive /\ tzUpdateThread # None
    THEN /\ stopRequested' = stopRequested \union {tzUpdateThread}
         /\ notified' = notified \union {t \in {tzUpdateThread} : pc[t] = "waiting"}
         /\ isThreadActive' = FALSE
    ELSE UNCHANGED <<stopRequested, notified, isThreadActive>>

StopZoneThread ==
    /\ owner \in {"stopping", "destroying"}
    /\ RequestStop
    /\ owner' = IF owner = "stopping" THEN "idle" ELSE "members"
    /\ mutex' = Free
    /\ UNCHANGED <<clock, created, tzUpdateThread, old, cvAlive, cacheVars, threadVars>>

\* The members go in the reverse of their order: cv first, then the thread,
\* which is joined without being notified again.
DestroyCv ==
    /\ owner = "members"
    /\ cvAlive' = FALSE
    /\ stopRequested' = stopRequested \union ({tzUpdateThread} \ {None})
    /\ owner' = "lastJoin"
    /\ UNCHANGED <<clock, mutex, created, tzUpdateThread, old, isThreadActive, notified, cacheVars,
                   threadVars>>

JoinLast ==
    /\ owner = "lastJoin" /\ Ended(tzUpdateThread)
    /\ owner' = "gone"
    /\ UNCHANGED <<clock, mutex, created, tzUpdateThread, old, isThreadActive, cvAlive, stopRequested,
                   notified, cacheVars, threadVars>>

-----------------------------------------------------------------------------
(* A zone thread.                                                            *)
ThreadUnchanged ==
    UNCHANGED <<clock, ownerVars, stopRequested>>

Goto(t, label) == pc' = [pc EXCEPT ![t] = label]

\* The head of the loop: leave, or wait and give the mutex up.
LoopHead(t, stop) ==
    /\ mutex' = Free
    /\ Goto(t, IF stop THEN "ended" ELSE "waiting")

\* Faulty variant: the token is read before the mutex is locked.
BeginAtOnce(t) ==
    /\ pc[t] = "started"
    /\ stopToken' = [stopToken EXCEPT ![t] = tzUpdateThread]
    /\ LoopHead(t, tzUpdateThread \in stopRequested)
    /\ UNCHANGED <<tries, notified, cacheVars>> /\ ThreadUnchanged

Begin(t) ==
    /\ pc[t] = "started" /\ mutex = Free
    /\ stopToken' = [stopToken EXCEPT ![t] = tzUpdateThread]
    /\ LoopHead(t, tzUpdateThread \in stopRequested)
    /\ UNCHANGED <<tries, notified, cacheVars>> /\ ThreadUnchanged

\* Faulty variant: the thread sleeps until it is notified.
WakeNotified(t) ==
    /\ pc[t] = "waiting" /\ mutex = Free /\ t \in notified
    /\ mutex' = t /\ notified' = notified \ {t}
    /\ Goto(t, "updating") /\ tries' = [tries EXCEPT ![t] = 0]
    /\ UNCHANGED <<stopToken, cacheVars>> /\ ThreadUnchanged

\* wait_until returns: stop was requested, or the cached period has ended.
Wake(t) ==
    /\ pc[t] = "waiting" /\ mutex = Free
    /\ (t \in notified /\ StopRequested(t)) \/ clock # sysCache
    /\ mutex' = t /\ notified' = notified \ {t}
    /\ Goto(t, "updating") /\ tries' = [tries EXCEPT ![t] = 0]
    /\ UNCHANGED <<stopToken, cacheVars>> /\ ThreadUnchanged

StopSeen(t) ==
    /\ pc[t] = "updating" /\ StopRequested(t)
    /\ mutex' = Free /\ Goto(t, "ended")
    /\ UNCHANGED <<stopToken, tries, notified, cacheVars>> /\ ThreadUnchanged

ReloadSucceeds(t) ==
    /\ pc[t] = "updating" /\ ~StopRequested(t)
    /\ Goto(t, "caching")
    /\ UNCHANGED <<mutex, stopToken, tries, notified, cacheVars>> /\ ThreadUnchanged

\* Faulty variant: the last try but one is the last.
ReloadFailsOneShort(t) ==
    /\ pc[t] = "updating" /\ ~StopRequested(t)
    /\ tries' = [tries EXCEPT ![t] = tries[t] + 1]
    /\ IF tries[t] + 1 = Last - 1 THEN mutex' = Free /\ Goto(t, "ended") ELSE UNCHANGED <<mutex, pc>>
    /\ UNCHANGED <<stopToken, notified, cacheVars>> /\ ThreadUnchanged

\* Faulty variant: one more try than there are.
ReloadFailsOneMore(t) ==
    /\ pc[t] = "updating" /\ ~StopRequested(t)
    /\ tries' = [tries EXCEPT ![t] = tries[t] + 1]
    /\ IF tries[t] = Last THEN mutex' = Free /\ Goto(t, "ended") ELSE UNCHANGED <<mutex, pc>>
    /\ UNCHANGED <<stopToken, notified, cacheVars>> /\ ThreadUnchanged

ReloadFails(t) ==
    /\ pc[t] = "updating" /\ ~StopRequested(t)
    /\ tries' = [tries EXCEPT ![t] = tries[t] + 1]
    /\ IF tries[t] + 1 = Last THEN mutex' = Free /\ Goto(t, "ended") ELSE UNCHANGED <<mutex, pc>>
    /\ UNCHANGED <<stopToken, notified, cacheVars>> /\ ThreadUnchanged

CacheInfo(t) ==
    /\ pc[t] = "caching"
    /\ sysCache' = clock
    /\ Goto(t, "deriving")
    /\ UNCHANGED <<mutex, isDaylightSavings, stopToken, tries, notified>> /\ ThreadUnchanged

\* Faulty variant: savings are derived from the clock, which goes on meanwhile.
DeriveSavingsFromClock(t) ==
    /\ pc[t] = "deriving"
    /\ isDaylightSavings' = Saves[clock]
    /\ LoopHead(t, StopRequested(t))
    /\ UNCHANGED <<sysCache, stopToken, tries, notified>> /\ ThreadUnchanged

DeriveSavings(t) ==
    /\ pc[t] = "deriving"
    /\ isDaylightSavings' = Saves[sysCache]
    /\ LoopHead(t, StopRequested(t))
    /\ UNCHANGED <<sysCache, stopToken, tries, notified>> /\ ThreadUnchanged

-----------------------------------------------------------------------------
Tick ==
    /\ clock + 1 \in Periods /\ clock' = clock + 1
    /\ UNCHANGED <<mutex, ownerVars, stopRequested, notified, cacheVars, threadVars>>

\* The owner joins a thread that waits for the mutex the owner holds.
Stuck == owner = "joining" /\ old # None /\ pc[old] \in {"started", "waiting"}
(* Where everything may stand still: whether the last join returns is what
   DestructionReturns asks.                                                  *)
Terminated == (owner \in {"lastJoin", "gone"} \/ Stuck) /\ UNCHANGED vars

InCall == StartAgain \/ StartZoneThread \/ AssignThread \/ JoinOld \/ StopZoneThread \/ DestroyCv \/ JoinLast
Thread(t) ==
    \/ Begin(t) \/ Wake(t) \/ StopSeen(t) \/ ReloadSucceeds(t) \/ ReloadFails(t)
    \/ CacheInfo(t) \/ DeriveSavings(t)

Next ==
    \/ EnableZoneThread \/ DisableZoneThread \/ DestroyMessageTime
    \/ StartAgain \/ StartZoneThread \/ AssignThread \/ JoinOld
    \/ StopZoneThread \/ DestroyCv \/ JoinLast
    \/ \E t \in ZoneThreads :
          \/ Begin(t) \/ Wake(t) \/ StopSeen(t) \/ ReloadSucceeds(t) \/ ReloadFails(t)
          \/ CacheInfo(t) \/ DeriveSavings(t)
    \/ Tick \/ Terminated

(* The scheduler runs every thread, and a mutex that comes free again and
   again is got in the end; nobody has to call, and the clock may stand.     *)
Fairness ==
    /\ WF_vars(InCall)
    /\ \A t \in ZoneThreads : WF_vars(Thread(t)) /\ SF_vars(Begin(t)) /\ SF_vars(Wake(t))
Spec == Init /\ [][Next]_vars /\ Fairness

-----------------------------------------------------------------------------
\* The mutex has one holder, tokens name threads that were made, and no thread
\* tries more often than maxAttempt allows (UpdateTimeZoneInfoThread).
TypeOK ==
    /\ clock \in Periods /\ sysCache \in Periods
    /\ mutex \in {Free, Owner} \union ZoneThreads
    /\ owner \in {"idle", "starting", "assigning", "joining", "stopping", "destroying", "members",
                  "lastJoin", "gone"}
    /\ created \in 0 .. MaxThreads /\ tzUpdateThread \in 0 .. MaxThreads /\ old \in 0 .. MaxThreads
    /\ stopRequested \subseteq ZoneThreads /\ notified \subseteq ZoneThreads
    /\ isThreadActive \in BOOLEAN /\ cvAlive \in BOOLEAN
    /\ pc \in [ZoneThreads -> {"none", "started", "waiting", "updating", "caching", "deriving", "ended"}]
    /\ stopToken \in [ZoneThreads -> 0 .. MaxThreads]
    /\ tries \in [ZoneThreads -> 0 .. Last]

\* A thread listens to its own stop_source, although it is running before it is
\* stored (StartZoneThread, and the lock and get_stop_token of the thread).
OwnToken == \A t \in ZoneThreads : pc[t] \notin {"none", "started"} => stopToken[t] = t

\* What a reader gets under the mutex belongs together: the savings flag is that
\* of the cached information (UpdateTimeZoneInfoThread, IsDayLightSavings).
CacheWhole == mutex \notin ZoneThreads => isDaylightSavings = Saves[sysCache]

\* No thread sleeps on the condition variable when it is destroyed: one that was
\* waiting has been notified, and the others will not wait (~Message_Time).
NobodyWaits == ~cvAlive => \A t \in ZoneThreads : pc[t] = "waiting" => t \in notified

\* isThreadActive is true of a thread that is gone only when every attempt to
\* reload the time zone database failed (UpdateTimeZoneInfoThread).
ActiveOrGivenUp ==
    isThreadActive =>
        /\ tzUpdateThread # None
        /\ pc[tzUpdateThread] = "ended" => tries[tzUpdateThread] = Last

\* A target can be destroyed at any time: the thread is told and woken, and joined
\* while the mutex is free (~Message_Time, ~ZoneThread).
DestructionReturns == owner = "destroying" ~> owner = "gone"

\* While the thread runs, what it has cached catches up with the clock.
Runs == isThreadActive /\ pc[tzUpdateThread] # "ended" /\ owner # "joining"
CacheFollowsClock == Runs /\ sysCache # clock ~> sysCache = clock \/ ~Runs
=============================================================================
