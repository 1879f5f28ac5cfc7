-------------------------- MODULE MCMatchweekFreeze --------------------------
EXTENDS MatchweekFreeze

Says(f, k, s) == [fixture |-> f, kickoff |-> k, status |-> s]

\* One fixture goes back and forth inside the window or is postponed, another one
\* is in the window or outside of it.
MCRevisions ==
  {Says("f1", 3, "SCHEDULED"), Says("f1", 4, "SCHEDULED"), Says("f1", None, "POSTPONED"),
   Says("f2", 4, "SCHEDULED"), Says("f2", 5, "SCHEDULED")}
=============================================================================
