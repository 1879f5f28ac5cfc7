------------------------------ MODULE Settlement ------------------------------
(***************************************************************************)
(* Settlement grading (T10) of one fixture: src/matchvet/t10.py.           *)
(*                                                                         *)
(* A call grades every preference from the pack of evidence it is given,   *)
(* SettlementGrader.grade_all, and then merges these grades, preference by *)
(* preference in one transaction, with what the store already holds,       *)
(* SettlementGradeRecorder.record_many.  Packs of later calls may correct, *)
(* repeat, contradict or fall behind those of earlier ones.                *)
(*                                                                         *)
(* Source levels are ranks, 0 the most authoritative.  A fact is a small   *)
(* number; a record without it has None.                                   *)
(***************************************************************************)
EXTENDS Integers, Sequences, FiniteSets

CONSTANTS
  None,
  Evidence,      \* the records that exist: evidence identity -> record
  Packs,         \* sets of evidence identities a caller may grade from
  Digests,       \* prediction digests a caller may name
  Preferences,   \* the catalog: a sequence of [family, side, line], lines in half goals
  MaxCalls, MaxKills

Ids == DOMAIN Evidence
Ranks == {Evidence[i].rank : i \in Ids}
Sets == {Evidence[i].set : i \in Ids}

Goals == {"home", "away"}
Halves == Goals \cup {"homeHalf", "awayHalf"}
Corners == {"homeCorners", "awayCorners"}
Facts == Halves \cup Corners

Prefs == {Preferences[n] : n \in DOMAIN Preferences}

\* A record set belongs to one source at one level (_evidence_groups groups by
\* all three), and no result is spelled None.
ASSUME SettlementAssumption ==
  /\ Evidence \in [Ids -> [rank : Nat, set : Sets, kind : {"COMPLETE", "PENDING", "VOID"},
                           facts : [Facts -> Nat \cup {None}], predecessor : Ids \cup {None}]]
  /\ \A i, j \in Ids : Evidence[i].set = Evidence[j].set => Evidence[i].rank = Evidence[j].rank
  /\ Packs \subseteq SUBSET Ids
  /\ Preferences \in Seq(Prefs)
  /\ None \notin Nat /\ None \notin {"WIN", "LOSS", "PUSH", "VOID"}

VARIABLES
  evidence,   \* evidence sets stored so far
  grades,     \* preference -> its grades, the last one current
  call,       \* the call in progress
  calls, kills

gradingVars == <<evidence, grades, call, calls, kills>>

NoCall == [at |-> "none"]

GradingInit ==
  /\ evidence = {} /\ grades = [p \in Prefs |-> <<>>]
  /\ call = NoCall /\ calls = 0 /\ kills = 0

-----------------------------------------------------------------------------
(* The catalog: what a preference needs, and how it is settled *)

Required(p) ==
  CASE p.family \in {"HALF_OVER_1", "HALF_OVER_2"} -> Halves
    [] p.family \in {"CORNER_WINNER", "CORNERS_OVER"} -> Corners
    [] OTHER -> Goals

Settled(wins) == IF wins THEN "WIN" ELSE "LOSS"

Over(n, p) == Settled(2 * n > p.line)

\* An Asian handicap on a whole goal may be a push.
Handicap(margin) ==
  IF margin > 0 THEN "WIN" ELSE IF margin = 0 THEN "PUSH" ELSE "LOSS"

Winner(h, a, side) ==
  Settled(CASE side = "Home" -> h > a [] side = "Away" -> a > h [] side = "Draw" -> h = a)

\* _settle_preference
Settle(p, v) ==
  CASE p.family = "WINNER" -> Winner(v["home"], v["away"], p.side)
    [] p.family = "DOUBLE_CHANCE" ->
         Settled(CASE p.side = "1X" -> v["home"] >= v["away"]
                   [] p.side = "X2" -> v["away"] >= v["home"]
                   [] p.side = "12" -> v["home"] # v["away"])
    [] p.family = "HANDICAP" ->
         Handicap(2 * (IF p.side = "Home" THEN v["home"] - v["away"]
                                         ELSE v["away"] - v["home"]) + p.line)
    [] p.family = "HALF_OVER_1" -> Over(v["homeHalf"] + v["awayHalf"], p)
    [] p.family = "HALF_OVER_2" ->
         Over(v["home"] - v["homeHalf"] + v["away"] - v["awayHalf"], p)
    [] p.family = "GOALS_OVER" ->
         Over(CASE p.side = "Home" -> v["home"] [] p.side = "Away" -> v["away"]
                [] p.side = "Both" -> v["home"] + v["away"], p)
    [] p.family = "CORNER_WINNER" -> Winner(v["homeCorners"], v["awayCorners"], p.side)
    [] p.family = "CORNERS_OVER" ->
         Over(CASE p.side = "Home" -> v["homeCorners"] [] p.side = "Away" -> v["awayCorners"]
                [] p.side = "Both" -> v["homeCorners"] + v["awayCorners"], p)

-----------------------------------------------------------------------------
(* The pure grader *)

Least(S) == CHOOSE n \in S : \A k \in S : n <= k

\* Whatever another record of the pack names as its predecessor is superseded,
\* whichever level either of them has.
Active(pack) == {i \in pack : \A j \in pack : Evidence[j].predecessor # i}

Groups(pack) == {Evidence[i].set : i \in Active(pack)}
Members(pack, g) == {i \in Active(pack) : Evidence[i].set = g}
RankOf(g) == Evidence[CHOOSE i \in Ids : Evidence[i].set = g].rank
Kinds(pack, g) == {Evidence[i].kind : i \in Members(pack, g)}
Values(pack, g, f) == {Evidence[i].facts[f] : i \in Members(pack, g)} \ {None}
Value(pack, g, f) == CHOOSE v \in Values(pack, g, f) : TRUE

\* More goals before half-time than in the match.
Invalid(v) == v["homeHalf"] > v["home"] \/ v["awayHalf"] > v["away"]

Signature(pack, g, need) == [f \in need |-> Value(pack, g, f)]

Complete(pack, g, need) ==
  /\ Kinds(pack, g) = {"COMPLETE"}
  /\ \A f \in need : Cardinality(Values(pack, g, f)) = 1
  /\ need = Halves => ~Invalid(Signature(pack, g, need))

Conflicts(pack, g, need) ==
  /\ Kinds(pack, g) = {"COMPLETE"}
  /\ \E f \in need : Cardinality(Values(pack, g, f)) > 1

Highest(G) == {g \in G : RankOf(g) = Least({RankOf(h) : h \in G})}

EvidenceOf(pack, G) == UNION {Members(pack, g) : g \in G}

Grade(state, result, reason, level, pack, conflict, digest) ==
  [state |-> state, result |-> result, reason |-> reason, level |-> level,
   pack |-> pack, conflict |-> conflict, digest |-> digest]

Unresolved(c, reason, G) ==
  Grade(IF c.finalize THEN "FINAL" ELSE "PENDING", IF c.finalize THEN "VOID" ELSE None,
        reason, None, c.pack, EvidenceOf(c.pack, G), c.digest)

\* _fact_group: the groups that contradict one another, or themselves, at the
\* level that would control.
Controlling(pack, need) ==
  LET complete == {g \in Groups(pack) : Complete(pack, g, need)}
      conflicts == {g \in Groups(pack) : Conflicts(pack, g, need)}
      first == Highest(complete)
      blocking == {g \in conflicts : \E h \in first : RankOf(g) <= RankOf(h)}
  IN IF complete = {} THEN [selected |-> {}, conflict |-> Highest(conflicts)]
     ELSE IF blocking # {} THEN [selected |-> {}, conflict |-> Highest(blocking)]
     ELSE IF Cardinality({Signature(pack, g, need) : g \in first}) > 1
          THEN [selected |-> {}, conflict |-> first]
     ELSE [selected |-> first, conflict |-> {}]

\* A record may lack the score of a side, or of its half.
AnyInvalid(pack) ==
  \E i \in pack, side \in {<<"home", "homeHalf">>, <<"away", "awayHalf">>} :
    LET f == Evidence[i].facts IN
    f[side[1]] # None /\ f[side[2]] # None /\ f[side[2]] > f[side[1]]

GradeFacts(p, c) ==
  LET found == Controlling(c.pack, Required(p))
      g == CHOOSE g \in found.selected : TRUE
  IN IF found.conflict # {} THEN Unresolved(c, "SOURCE_CONFLICT", found.conflict)
     ELSE IF found.selected = {}
          THEN Unresolved(c, IF AnyInvalid(c.pack) THEN "INVALID" ELSE "MISSING", {})
     ELSE Grade("FINAL", Settle(p, Signature(c.pack, g, Required(p))), "GRADED",
                RankOf(g), c.pack, {}, c.digest)

\* SettlementGrader.grade
GradeOf(p, c) ==
  LET top == Highest(Groups(c.pack))
      kinds == UNION {Kinds(c.pack, g) : g \in top}
  IN IF c.withdrawn THEN Grade("FINAL", "VOID", "WITHDRAWN", None, c.pack, {}, c.digest)
     ELSE IF top = {} THEN Unresolved(c, "NO_STATUS", {})
     ELSE IF Cardinality(kinds) > 1 THEN Unresolved(c, "SOURCE_CONFLICT", top)
     ELSE IF kinds = {"VOID"}
          THEN Grade("FINAL", "VOID", "VOID_STATUS",
                     RankOf(CHOOSE g \in top : TRUE), c.pack, {}, c.digest)
     ELSE IF kinds = {"PENDING"} THEN Unresolved(c, "PENDING_STATUS", {})
     ELSE GradeFacts(p, c)

-----------------------------------------------------------------------------
(* The recorder *)

RanksOf(S) == {Evidence[i].rank : i \in S}
Current(chain) == chain[Len(chain)]

\* All evidence of g is of a lower level than rank r; so is none at all.
Below(g, r) == \A k \in RanksOf(g.pack) : k > r

FrozenChanged(current, g) == g.digest # None /\ g.digest # current.digest

SameInput(current, g) ==
  /\ current.pack = g.pack /\ current.state = g.state
  /\ current.result = g.result /\ current.reason = g.reason

Stays_NewestWins(current, g) == SameInput(current, g)

\* _effective_grade keeps the current grade.
Stays(current, g) ==
  \/ /\ current.reason = "SOURCE_CONFLICT" /\ g.pack # {}
     /\ Least(RanksOf(current.conflict)) < Least(RanksOf(g.pack))
  \/ /\ current.level # None /\ g.level = None /\ g.reason # "WITHDRAWN"
     /\ Below(g, current.level)
  \/ SameInput(current, g)
  \/ /\ current.level # None /\ g.level # None /\ g.level > current.level

\* A successor keeps the frozen reference of its predecessor, if that has one.
Merge(chain, g) ==
  IF chain = <<>> THEN <<g>>
  ELSE LET current == Current(chain) IN
       IF Stays(current, g) THEN chain
       ELSE Append(chain, IF current.digest = None THEN g
                          ELSE [g EXCEPT !.digest = current.digest])

\* grade_all, before the transaction opens.
BeginCall(c) ==
  /\ call.at = "none" /\ calls < MaxCalls
  /\ calls' = calls + 1
  /\ call' = [at |-> "recording", next |-> 1,
              matrix |-> [p \in Prefs |-> GradeOf(p, c)],
              evidence |-> evidence, grades |-> grades]
  /\ UNCHANGED <<evidence, grades, kills>>

\* One turn of record_many, in the open transaction; a changed frozen reference
\* raises and rolls everything back.
Recorded ==
  LET p == Preferences[call.next]
      g == call.matrix[p]
      chain == call.grades[p]
  IN IF chain # <<>> /\ FrozenChanged(Current(chain), g) THEN NoCall
     ELSE [call EXCEPT !.next = @ + 1, !.evidence = @ \cup g.pack,
                       !.grades[p] = Merge(chain, g)]

RecordOne_Commits ==
  /\ call.at = "recording" /\ call.next <= Len(Preferences)
  /\ call' = Recorded
  /\ IF Recorded = NoCall THEN UNCHANGED <<evidence, grades>>
     ELSE evidence' = Recorded.evidence /\ grades' = Recorded.grades
  /\ UNCHANGED <<calls, kills>>

RecordOne ==
  /\ call.at = "recording" /\ call.next <= Len(Preferences)
  /\ call' = Recorded
  /\ UNCHANGED <<evidence, grades, calls, kills>>

CommitGrades ==
  /\ call.at = "recording" /\ call.next > Len(Preferences)
  /\ evidence' = call.evidence /\ grades' = call.grades
  /\ call' = NoCall
  /\ UNCHANGED <<calls, kills>>

\* The process dies, or a statement fails: the transaction is rolled back.
Kill ==
  /\ call.at = "recording" /\ kills < MaxKills
  /\ call' = NoCall /\ kills' = kills + 1
  /\ UNCHANGED <<evidence, grades, calls>>

GradingNext ==
  \/ \E pack \in Packs, finalize, withdrawn \in BOOLEAN, digest \in Digests \cup {None} :
       BeginCall([pack |-> pack, finalize |-> finalize, withdrawn |-> withdrawn,
                  digest |-> digest])
  \/ RecordOne \/ CommitGrades \/ Kill

GradingSpec == GradingInit /\ [][GradingNext]_gradingVars

-----------------------------------------------------------------------------
(* Properties *)

Graded(p) == grades[p] # <<>>

\* Preferences that need the same facts are always settled by the same evidence:
\* no kill, refusal or correction between two of them leaves a match that Away won
\* and did not lose either.
MarketsAgree ==
  \A p, q \in Prefs :
    Required(p) = Required(q) =>
      /\ Graded(p) <=> Graded(q)
      /\ Graded(p) =>
           LET g == Current(grades[p])
               h == Current(grades[q])
           IN /\ g.pack = h.pack /\ g.reason = h.reason
              /\ g.level = h.level /\ g.digest = h.digest
              /\ p.family = "WINNER" /\ p.side = "Away" /\ g.result = "WIN" =>
                   ~(q.family = "DOUBLE_CHANCE" /\ q.side = "1X" /\ h.result = "WIN")

\* What a grade rests on: the level that settled it, or the one in conflict.
Authority(g) ==
  IF g.reason = "SOURCE_CONFLICT" THEN Least(RanksOf(g.conflict)) ELSE g.level

\* "A lower source cannot replace a complete higher source": a call whose evidence
\* is all of lower levels leaves a settled or contested preference as it is, in
\* whatever state the calls before it left the chain.
LowerEvidenceIsInert ==
  [][\A p \in Prefs :
       (/\ Graded(p) /\ call.at = "recording"
        /\ Authority(Current(grades[p])) # None
        /\ call.matrix[p].pack # {} /\ call.matrix[p].reason # "WITHDRAWN"
        /\ Below(call.matrix[p], Authority(Current(grades[p]))))
       => grades'[p] = grades[p]]_gradingVars
=============================================================================
