----------------------------- MODULE MCSettlement -----------------------------
(* A small instance of Settlement for TLC: one fixture and a preference of      *)
(* every kind of facts.                                                         *)
EXTENDS Settlement, TLC

Record(rank, set, kind, facts, predecessor) ==
  [rank |-> rank, set |-> set, kind |-> kind, predecessor |-> predecessor,
   facts |-> facts @@ [f \in Facts |-> None]]

Score(home, away) == [home |-> home, away |-> away]
HalfScore(home, away) == [homeHalf |-> home, awayHalf |-> away]
CornerScore(home, away) == [homeCorners |-> home, awayCorners |-> away]
Nothing == [f \in {} |-> None]

\* The league's result, its correction to another score, a suspension it reports,
\* a second record of its own that disagrees, a club's postponement, and a data
\* provider's score, by itself and naming the league's record as predecessor.
MCEvidence ==
  [league     |-> Record(0, "league", "COMPLETE", Score(2, 1) @@ CornerScore(3, 4), None),
   corrected  |-> Record(0, "league2", "COMPLETE", Score(1, 2) @@ HalfScore(1, 0), "league"),
   suspended  |-> Record(0, "league3", "PENDING", Nothing, None),
   contested  |-> Record(0, "league", "COMPLETE", Score(1, 1) @@ HalfScore(0, 2), None),
   postponed  |-> Record(2, "club", "VOID", Nothing, None),
   provider   |-> Record(3, "data", "COMPLETE", Score(1, 2) @@ HalfScore(1, 1), None),
   successor  |-> Record(3, "data2", "COMPLETE", Score(1, 2) @@ HalfScore(0, 0), "league")]

MCPacks ==
  {{}, {"league"}, {"league", "corrected"}, {"suspended"}, {"league", "suspended"},
   {"league", "contested"}, {"postponed"}, {"provider"}, {"league", "successor"}}

Pref(family, side, line) == [family |-> family, side |-> side, line |-> line]

\* Away, 1X, first half over 0.5, and Home corners.
MCPreferences ==
  <<Pref("WINNER", "Away", 0), Pref("DOUBLE_CHANCE", "1X", 0),
    Pref("HALF_OVER_1", "Both", 1), Pref("CORNER_WINNER", "Home", 0)>>
=============================================================================
