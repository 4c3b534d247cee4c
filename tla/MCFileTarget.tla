---------------------------- MODULE MCFileTarget ----------------------------
(***************************************************************************)
(* FileTarget for TLC: which flush policies the application installs.       *)
(***************************************************************************)
EXTENDS FileTarget, TLC

Never       == [primary |-> "never", sub |-> "undef"]
Always      == [primary |-> "always", sub |-> "undef"]
OnLevel     == [primary |-> "periodically", sub |-> "logLevelBased"]
AlwaysLevel == [primary |-> "always", sub |-> "logLevelBased"]
TimeBased   == [primary |-> "periodically", sub |-> "timeBased"]

\* No policy that needs the flush thread.
ThreadlessPolicies == {Never, Always, OnLevel, AlwaysLevel}
\* The flush thread is started and never stopped.
TimeOnly           == {TimeBased}
TimeThenAlways     == {TimeBased, Always}
TimeThenNever      == {TimeBased, Never}
TimeThenLevel      == {TimeBased, OnLevel}

WriterSymmetry == Permutations(Writers)
=============================================================================
