-------------------------- MODULE MCMatchweekSelection --------------------------
(* Small instances: two v1, a v2 and a legacy candidate compete for one        *)
(* Matchweek, and a second Matchweek has a v2 candidate of its own.           *)
EXTENDS MatchweekSelection

CONSTANTS a, b, c, d, l

MCWeek == [x \in Candidates |-> IF x = d THEN "w2" ELSE "w1"]
MCContract == [x \in Candidates |-> IF x \in {c, d} THEN "v2" ELSE IF x = l THEN "legacy" ELSE "v1"]
MCCutoff == [x \in Candidates |-> IF x = b THEN 1 ELSE 2]
=============================================================================
