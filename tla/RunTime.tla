------------------------------- MODULE RunTime -------------------------------
(***************************************************************************)
(* What RunLifecycle promises about time: the elapsed seconds it records   *)
(* and the end of every foreground execution.                              *)
(***************************************************************************)
EXTENDS RunLifecycle, Functions

AttemptsOf(r) == {k \in Keys : k[1] = r}

\* A run's elapsed_seconds, which every transaction increments in place, is the
\* sum over its attempts: no interruption, failure or recovery counts an attempt
\* twice or not at all.
ElapsedAccounts ==
  \A r \in RunIds : runs[r].state # "ABSENT" =>
    runs[r].elapsed = SumFunction([k \in AttemptsOf(r) |-> attempts[k].elapsed])

\* start() and resume() end: the watchdog bounds every executor, whether it
\* returns or not.  (Sessions that begin too late for the bounded clock to reach
\* their limit are excepted.)
CallsEnd ==
  \A p \in Pids :
    (pc[p] \in BusyPcs) ~> (pc[p] \in {"idle", "dead"} \/ ses[p].began + HardLimit > MaxTime)
=============================================================================
