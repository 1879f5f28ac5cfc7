--------------------------- MODULE PersistenceProofs ---------------------------
(***************************************************************************)
(* What the two records that everything else is read back from guarantee:  *)
(* the grades of a settled fixture, for any catalog, evidence, source       *)
(* levels and number of calls and kills, and the artifact store, for any    *)
(* contents, snapshots and number of crashes, damages and power failures.   *)
(*                                                                         *)
(* The grades agree because each is what the pure grader gave from one pack *)
(* (GradesReplay), because preferences with the same facts end in grades of *)
(* the same call (ChainsAlike), and because the recorder's decisions depend *)
(* on the preference only through these facts (StaysAlike).                 *)
(***************************************************************************)
EXTENDS ArtifactInspector, Settlement, FiniteSetTheorems, WellFoundedInduction, TLAPS

-----------------------------------------------------------------------------
(* The grades of a fixture *)

\* What a caller may ask for.
Calls == [pack : Packs, finalize : BOOLEAN, withdrawn : BOOLEAN, digest : Digests \cup {None}]

Dated(g, d) == [g EXCEPT !.digest = d]

\* What the pure grader yields for a preference, with any frozen reference.
GradesOf(p) == {Dated(GradeOf(p, c), d) : c \in Calls, d \in Digests \cup {None}}

\* Every stored grade is one the pure grader gave from one pack.
GradesReplay ==
  /\ grades = [p \in Prefs |-> grades[p]]
  /\ \A p \in Prefs : grades[p] \in Seq(GradesOf(p))

\* The chains of two preferences end in grades of the same call.
EndAlike(p, q, ch, dh) ==
  /\ ch = <<>> <=> dh = <<>>
  /\ ch # <<>> =>
       \E c \in Calls, d \in Digests \cup {None} :
         Current(ch) = Dated(GradeOf(p, c), d) /\ Current(dh) = Dated(GradeOf(q, c), d)

ChainsAlike ==
  \A p, q \in Prefs : Required(p) = Required(q) => EndAlike(p, q, grades[p], grades[q])

\* A call in progress has merged the grades it is past, from one pack, into the
\* chains it began with.
CallFits ==
  \/ call = NoCall
  \/ /\ call = [at |-> "recording", next |-> call.next, matrix |-> call.matrix,
                evidence |-> call.evidence, grades |-> call.grades]
     /\ call.next \in 1 .. Len(Preferences) + 1
     /\ \E c \in Calls : call.matrix = [p \in Prefs |-> GradeOf(p, c)]
     /\ call.grades = [p \in Prefs |-> call.grades[p]]
     /\ \A p \in Prefs : call.grades[p] \in {grades[p], Merge(grades[p], call.matrix[p])}
     /\ \A n \in 1 .. call.next - 1 :
          call.grades[Preferences[n]] =
            Merge(grades[Preferences[n]], call.matrix[Preferences[n]])

GradingInv == GradesReplay /\ ChainsAlike /\ CallFits

-----------------------------------------------------------------------------
(* The pure grader *)

LEMMA LeastIsLeast ==
  ASSUME NEW S \in SUBSET Nat, S # {}
  PROVE  Least(S) \in S /\ \A k \in S : Least(S) <= k
<1>1. IsWellFoundedOn(OpToRel(<, Nat), Nat)
  BY NatLessThanWellFounded
<1>2. PICK n \in S : \A k \in S : ~(<<k, n>> \in OpToRel(<, Nat))
  BY <1>1, WFMin
<1>3. \A k \in S : k < n => <<k, n>> \in OpToRel(<, Nat)
  BY DEF OpToRel
<1>4. \A k \in S : ~(k < n)
  BY <1>2, <1>3, Zenon
<1>5. \A k \in S : n <= k
  BY <1>4
<1> QED
  BY <1>5 DEF Least

\* A grade is a record whose reference can be replaced.
LEMMA DatedFields ==
  ASSUME NEW p, NEW c, NEW d
  PROVE  LET g == GradeOf(p, c) IN
         /\ g = [state |-> g.state, result |-> g.result, reason |-> g.reason, level |-> g.level,
                 pack |-> c.pack, conflict |-> g.conflict, digest |-> c.digest]
         /\ Dated(g, d) =
              [state |-> g.state, result |-> g.result, reason |-> g.reason, level |-> g.level,
               pack |-> c.pack, conflict |-> g.conflict, digest |-> d]
<1>1. \A s, r, why, l, x :
        LET g == Grade(s, r, why, l, c.pack, x, c.digest) IN
        g = [state |-> g.state, result |-> g.result, reason |-> g.reason, level |-> g.level,
             pack |-> c.pack, conflict |-> g.conflict, digest |-> c.digest]
  BY DEF Grade
<1>2. \E s, r, why, l, x : GradeOf(p, c) = Grade(s, r, why, l, c.pack, x, c.digest)
  BY DEF GradeOf, GradeFacts, Unresolved
<1>3. GradeOf(p, c).pack = c.pack /\ GradeOf(p, c).digest = c.digest
  BY <1>2 DEF Grade
<1>4. LET g == GradeOf(p, c) IN
      g = [state |-> g.state, result |-> g.result, reason |-> g.reason, level |-> g.level,
           pack |-> c.pack, conflict |-> g.conflict, digest |-> c.digest]
  BY <1>1, <1>2
<1> QED
  BY <1>4 DEF Dated

\* Preferences that need the same facts are graded alike, up to the result.
LEMMA GradedAlike ==
  ASSUME NEW p, NEW q, NEW c, Required(p) = Required(q)
  PROVE  /\ GradeOf(p, c).state = GradeOf(q, c).state
         /\ GradeOf(p, c).reason = GradeOf(q, c).reason
         /\ GradeOf(p, c).level = GradeOf(q, c).level
         /\ GradeOf(p, c).conflict = GradeOf(q, c).conflict
BY DEF GradeOf, GradeFacts, Unresolved, Grade

\* Pack, state and reason of a grade determine its result.
LEMMA ResultFollows ==
  ASSUME NEW p, NEW c \in Calls, NEW e \in Calls, c.pack = e.pack,
         GradeOf(p, c).state = GradeOf(p, e).state, GradeOf(p, c).reason = GradeOf(p, e).reason
  PROVE  GradeOf(p, c).result = GradeOf(p, e).result
BY DEF GradeOf, GradeFacts, Unresolved, Grade, Calls

\* The level of a grade is the level of evidence in its pack.
LEMMA LevelIsARank ==
  ASSUME NEW p, NEW c \in Calls, GradeOf(p, c).level # None
  PROVE  GradeOf(p, c).level \in RanksOf(c.pack)
<1>1. c.pack \in SUBSET Ids
  BY SettlementAssumption DEF Calls
<1>2. \A g \in Groups(c.pack) : RankOf(g) \in RanksOf(c.pack)
  <2> SUFFICES ASSUME NEW g \in Groups(c.pack) PROVE RankOf(g) \in RanksOf(c.pack)
    OBVIOUS
  <2>1. PICK i \in c.pack : Evidence[i].set = g
    BY DEF Groups, Active
  <2>2. PICK j \in Ids : Evidence[j].set = g /\ RankOf(g) = Evidence[j].rank
    BY <1>1, <2>1 DEF RankOf
  <2>3. RankOf(g) = Evidence[i].rank
    BY <1>1, <2>1, <2>2, SettlementAssumption
  <2> QED
    BY <2>3 DEF RanksOf
<1>3. Highest(Groups(c.pack)) \subseteq Groups(c.pack)
  BY DEF Highest
<1>4. Controlling(c.pack, Required(p)).selected \subseteq Groups(c.pack)
  BY DEF Controlling, Highest
<1>5. \/ GradeOf(p, c).level = None
      \/ \E g \in Groups(c.pack) : GradeOf(p, c).level = RankOf(g)
  BY <1>3, <1>4 DEF GradeOf, GradeFacts, Unresolved, Grade
<1> QED
  BY <1>2, <1>5

\* The evidence that decides.
Deciding(pack, need) == CHOOSE h \in Controlling(pack, need).selected : TRUE

\* Only a graded preference can be won, and only by its own rule on the evidence.
LEMMA WonByRule ==
  ASSUME NEW p, NEW c \in Calls, NEW need, Required(p) = need, GradeOf(p, c).result = "WIN"
  PROVE  /\ Complete(c.pack, Deciding(c.pack, need), need)
         /\ Settle(p, Signature(c.pack, Deciding(c.pack, need), need)) = "WIN"
<1>1. /\ Controlling(c.pack, need).selected # {}
      /\ Settle(p, Signature(c.pack, Deciding(c.pack, need), need)) = "WIN"
  BY SettlementAssumption DEF GradeOf, GradeFacts, Unresolved, Grade, Deciding
<1>2. \A h \in Controlling(c.pack, need).selected : Complete(c.pack, h, need)
  BY DEF Controlling, Highest
<1> QED
  BY <1>1, <1>2 DEF Deciding

\* The score of complete evidence is a number for each fact that is needed.
LEMMA ScoreTyped ==
  ASSUME NEW c \in Calls, NEW g, NEW need \in SUBSET Facts, Complete(c.pack, g, need),
         NEW f \in need
  PROVE  Signature(c.pack, g, need)[f] \in Nat
<1>1. Values(c.pack, g, f) # {}
  BY FS_EmptySet DEF Complete
<1>2. \A i \in Members(c.pack, g) : Evidence[i].facts[f] \in Nat \cup {None}
  BY SettlementAssumption DEF Members, Active, Calls
<1>3. Values(c.pack, g, f) \subseteq Nat
  BY <1>2 DEF Values
<1> QED
  BY <1>1, <1>3 DEF Signature, Value

\* A match that Away won is not one that Away did not win.
LEMMA AwayOrNot ==
  ASSUME NEW p, NEW q, NEW c \in Calls, Required(p) = Required(q),
         p.family = "WINNER", p.side = "Away", q.family = "DOUBLE_CHANCE", q.side = "1X",
         GradeOf(p, c).result = "WIN"
  PROVE  GradeOf(q, c).result # "WIN"
<1> SUFFICES ASSUME GradeOf(q, c).result = "WIN" PROVE FALSE
  OBVIOUS
<1>1. Required(p) = Goals
  BY DEF Required
<1>2. Required(q) = Goals
  BY <1>1
<1> DEFINE g == Deciding(c.pack, Goals)
           v == Signature(c.pack, g, Goals)
<1>3. Complete(c.pack, g, Goals) /\ Settle(p, v) = "WIN" /\ Settle(q, v) = "WIN"
  BY <1>1, <1>2, WonByRule
<1> HIDE DEF g, v
<1>4. v["home"] \in Nat /\ v["away"] \in Nat
  BY <1>3, ScoreTyped DEF Goals, Facts, Halves, v
<1>5. v["away"] > v["home"]
  <2>1. Settle(p, v) = Settled(v["away"] > v["home"])
    BY DEF Settle, Winner
  <2> QED
    BY <1>3, <2>1 DEF Settled
<1>6. v["home"] >= v["away"]
  <2>1. Settle(q, v) = Settled(v["home"] >= v["away"])
    BY DEF Settle
  <2> QED
    BY <1>3, <2>1 DEF Settled
<1> QED
  BY <1>4, <1>5, <1>6

-----------------------------------------------------------------------------
(* Merging a grade into its chain *)

LEMMA CurrentInChain ==
  ASSUME NEW S, NEW ch \in Seq(S), ch # <<>>
  PROVE  Current(ch) \in S
BY DEF Current

LEMMA CurrentOfAppend ==
  ASSUME NEW S, NEW ch \in Seq(S), NEW g \in S
  PROVE  Append(ch, g) # <<>> /\ Current(Append(ch, g)) = g
BY DEF Current

\* What a merge leaves: the chain as it was, or one more grade, which keeps the
\* frozen reference there is.
LEMMA MergeShape ==
  ASSUME NEW p, NEW c \in Calls, NEW ch \in Seq(GradesOf(p))
  PROVE  LET g == GradeOf(p, c)
             new == IF ch = <<>> \/ Current(ch).digest = None THEN g
                    ELSE Dated(g, Current(ch).digest)
         IN /\ new \in GradesOf(p)
            /\ Merge(ch, g) = IF ch # <<>> /\ Stays(Current(ch), g) THEN ch ELSE Append(ch, new)
<1> DEFINE g == GradeOf(p, c)
           new == IF ch = <<>> \/ Current(ch).digest = None THEN g
                  ELSE Dated(g, Current(ch).digest)
<1>1. g = Dated(g, c.digest)
  BY DatedFields
<1>2. g \in GradesOf(p)
  BY <1>1 DEF GradesOf, Calls
<1>3. ASSUME ch # <<>> PROVE Current(ch).digest \in Digests \cup {None}
  <2>1. PICK e \in Calls, d \in Digests \cup {None} : Current(ch) = Dated(GradeOf(p, e), d)
    BY <1>3, CurrentInChain DEF GradesOf
  <2> QED
    BY <2>1, DatedFields
<1>4. new \in GradesOf(p)
  BY <1>2, <1>3 DEF GradesOf
<1>5. ch = <<>> => Append(ch, g) = <<g>>
  OBVIOUS
<1> QED
  BY <1>4, <1>5 DEF Merge, Dated

LEMMA MergeTyped ==
  ASSUME NEW p, NEW c \in Calls, NEW ch \in Seq(GradesOf(p))
  PROVE  /\ Merge(ch, GradeOf(p, c)) \in Seq(GradesOf(p))
         /\ Merge(ch, GradeOf(p, c)) # <<>>
<1> DEFINE g == GradeOf(p, c)
           new == IF ch = <<>> \/ Current(ch).digest = None THEN g
                  ELSE Dated(g, Current(ch).digest)
<1>1. /\ new \in GradesOf(p)
      /\ Merge(ch, g) = IF ch # <<>> /\ Stays(Current(ch), g) THEN ch ELSE Append(ch, new)
  BY MergeShape
<1> HIDE DEF new, g
<1>2. Append(ch, new) \in Seq(GradesOf(p)) /\ Append(ch, new) # <<>>
  BY <1>1
<1> QED
  BY <1>1, <1>2 DEF g

\* Where a grade is added, it is the current one from then on.
LEMMA MergeAdds ==
  ASSUME NEW p, NEW c \in Calls, NEW ch \in Seq(GradesOf(p)),
         ch = <<>> \/ ~Stays(Current(ch), GradeOf(p, c))
  PROVE  LET g == GradeOf(p, c)
             new == IF ch = <<>> \/ Current(ch).digest = None THEN g
                    ELSE Dated(g, Current(ch).digest)
         IN  Current(Merge(ch, g)) = new
<1> DEFINE g == GradeOf(p, c)
           new == IF ch = <<>> \/ Current(ch).digest = None THEN g
                  ELSE Dated(g, Current(ch).digest)
<1>1. /\ new \in GradesOf(p)
      /\ Merge(ch, g) = IF ch # <<>> /\ Stays(Current(ch), g) THEN ch ELSE Append(ch, new)
  BY MergeShape
<1>2. ~(ch # <<>> /\ Stays(Current(ch), g))
  OBVIOUS
<1> HIDE DEF new, g
<1>3. Merge(ch, g) = Append(ch, new)
  BY <1>1, <1>2
<1>4. Current(Append(ch, new)) = new
  BY <1>1, CurrentOfAppend
<1>5. Current(Merge(ch, g)) = new
  BY <1>3, <1>4
<1> QED
  BY <1>5 DEF new, g

\* A grade that is merged is not merged again.
LEMMA MergeTwice ==
  ASSUME NEW p, NEW c \in Calls, NEW ch \in Seq(GradesOf(p))
  PROVE  Merge(Merge(ch, GradeOf(p, c)), GradeOf(p, c)) = Merge(ch, GradeOf(p, c))
<1> DEFINE g == GradeOf(p, c)
           new == IF ch = <<>> \/ Current(ch).digest = None THEN g
                  ELSE Dated(g, Current(ch).digest)
           merged == Merge(ch, g)
<1>1. /\ new \in GradesOf(p)
      /\ merged = IF ch # <<>> /\ Stays(Current(ch), g) THEN ch ELSE Append(ch, new)
  BY MergeShape
<1>2. SameInput(g, g) /\ \A d : SameInput(Dated(g, d), g)
  BY DatedFields DEF SameInput
<1>3. SameInput(new, g)
  BY <1>2
<1> HIDE DEF new, g
<1>4. merged # <<>> /\ Stays(Current(merged), g)
  <2>1. CASE ch # <<>> /\ Stays(Current(ch), g)
    BY <1>1, <2>1
  <2>2. CASE ~(ch # <<>> /\ Stays(Current(ch), g))
    <3>1. merged # <<>> /\ Current(merged) = new
      BY <1>1, <2>2, CurrentOfAppend
    <3> QED
      BY <1>3, <3>1 DEF Stays
  <2> QED
    BY <2>1, <2>2
<1> HIDE DEF merged
<1>5. Merge(merged, g) = merged
  BY <1>4 DEF Merge
<1> QED
  BY <1>5 DEF merged, g

\* Two chains that end alike treat a grade of the same call alike.
LEMMA StaysAlike ==
  ASSUME NEW p, NEW q, Required(p) = Required(q), NEW e \in Calls, NEW c \in Calls,
         NEW d, Stays(Dated(GradeOf(p, e), d), GradeOf(p, c))
  PROVE  Stays(Dated(GradeOf(q, e), d), GradeOf(q, c))
<1> DEFINE a == Dated(GradeOf(p, e), d)
           b == Dated(GradeOf(q, e), d)
           g == GradeOf(p, c)
           h == GradeOf(q, c)
<1>1. /\ a.state = b.state /\ a.reason = b.reason /\ a.level = b.level
      /\ a.conflict = b.conflict /\ a.pack = e.pack /\ b.pack = e.pack
      /\ b.result = GradeOf(q, e).result /\ b.state = GradeOf(q, e).state
      /\ b.reason = GradeOf(q, e).reason
  BY DatedFields, GradedAlike
<1>2. /\ g.state = h.state /\ g.reason = h.reason /\ g.level = h.level
      /\ g.conflict = h.conflict /\ g.pack = c.pack /\ h.pack = c.pack
  <2>1. g.pack = c.pack /\ h.pack = c.pack
    BY DatedFields
  <2> QED
    BY <2>1, GradedAlike
<1>3. SameInput(a, g) => SameInput(b, h)
  <2> SUFFICES ASSUME SameInput(a, g) PROVE SameInput(b, h)
    OBVIOUS
  <2>1. e.pack = c.pack /\ b.state = h.state /\ b.reason = h.reason
    BY <1>1, <1>2 DEF SameInput
  <2>2. b.result = h.result
    BY <1>1, <2>1, ResultFollows
  <2> QED
    BY <1>1, <1>2, <2>1, <2>2 DEF SameInput
<1>4. Stays(a, g)
  OBVIOUS
<1> HIDE DEF a, b, g, h
<1>5. Stays(b, h)
  BY <1>1, <1>2, <1>3, <1>4 DEF Stays, Below
<1> QED
  BY <1>5 DEF b, h

\* Merging keeps the chains of preferences with the same facts alike.
LEMMA MergeAlike ==
  ASSUME NEW p, NEW q, Required(p) = Required(q), NEW c \in Calls,
         NEW ch \in Seq(GradesOf(p)), NEW dh \in Seq(GradesOf(q)), EndAlike(p, q, ch, dh)
  PROVE  EndAlike(p, q, Merge(ch, GradeOf(p, c)), Merge(dh, GradeOf(q, c)))
<1> DEFINE g == GradeOf(p, c)
           h == GradeOf(q, c)
           new(x, k) == IF x = <<>> \/ Current(x).digest = None THEN k
                        ELSE Dated(k, Current(x).digest)
<1>1. /\ new(ch, g) \in GradesOf(p)
      /\ Merge(ch, g) = IF ch # <<>> /\ Stays(Current(ch), g) THEN ch
                        ELSE Append(ch, new(ch, g))
  BY MergeShape
<1>2. /\ new(dh, h) \in GradesOf(q)
      /\ Merge(dh, h) = IF dh # <<>> /\ Stays(Current(dh), h) THEN dh
                        ELSE Append(dh, new(dh, h))
  BY MergeShape
<1>3. Merge(ch, g) # <<>> /\ Merge(dh, h) # <<>>
  BY MergeTyped
<1>4. CASE ch = <<>>
  <2>1. dh = <<>>
    BY <1>4 DEF EndAlike
  <2>2. Current(Merge(ch, g)) = g /\ Current(Merge(dh, h)) = h
    <3>1. Current(Merge(ch, g)) = new(ch, g) /\ Current(Merge(dh, h)) = new(dh, h)
      BY <1>4, <2>1, MergeAdds
    <3>2. new(ch, g) = g /\ new(dh, h) = h
      BY <1>4, <2>1
    <3> QED
      BY <3>1, <3>2
  <2>3. g = Dated(g, c.digest) /\ h = Dated(h, c.digest) /\ c.digest \in Digests \cup {None}
    BY DatedFields DEF Calls
  <2> QED
    BY <1>3, <2>2, <2>3 DEF EndAlike
<1>5. CASE ch # <<>>
  <2>1. PICK e \in Calls, d \in Digests \cup {None} :
          Current(ch) = Dated(GradeOf(p, e), d) /\ Current(dh) = Dated(GradeOf(q, e), d)
    BY <1>5 DEF EndAlike
  <2>2. dh # <<>>
    BY <1>5 DEF EndAlike
  <2>3. Stays(Current(ch), g) <=> Stays(Current(dh), h)
    BY <2>1, StaysAlike
  <2>4. CASE Stays(Current(ch), g)
    BY <1>1, <1>2, <1>5, <2>2, <2>3, <2>4
  <2>5. CASE ~Stays(Current(ch), g)
    <3>1. Current(ch).digest = d /\ Current(dh).digest = d
      BY <2>1, DatedFields
    <3>2. Current(Merge(ch, g)) = new(ch, g) /\ Current(Merge(dh, h)) = new(dh, h)
      BY <2>3, <2>5, MergeAdds
    <3>3. \E x \in Digests \cup {None} : new(ch, g) = Dated(g, x) /\ new(dh, h) = Dated(h, x)
      <4>1. g = Dated(g, c.digest) /\ h = Dated(h, c.digest) /\ c.digest \in Digests \cup {None}
        BY DatedFields DEF Calls
      <4> QED
        BY <1>5, <2>2, <3>1, <4>1
    <3> QED
      BY <1>3, <3>2, <3>3 DEF EndAlike
  <2> QED
    BY <2>4, <2>5
<1> QED
  BY <1>4, <1>5

-----------------------------------------------------------------------------
(* The invariant *)

LEMMA InitialGrades == GradingInit => GradingInv
BY DEF GradingInit, GradingInv, GradesReplay, ChainsAlike, CallFits, EndAlike

LEMMA CallBegins ==
  ASSUME GradingInv, NEW c \in Calls, BeginCall(c)
  PROVE  GradingInv'
<1>1. GradesReplay' /\ ChainsAlike'
  BY DEF GradingInv, GradesReplay, ChainsAlike, BeginCall
<1>2. CallFits'
  <2>1. Len(Preferences) \in Nat
    BY SettlementAssumption
  <2> QED
    BY <2>1 DEF GradingInv, GradesReplay, BeginCall, CallFits
<1> QED
  BY <1>1, <1>2 DEF GradingInv

LEMMA GradeRecorded ==
  ASSUME GradingInv, RecordOne
  PROVE  GradingInv'
<1>1. GradesReplay' /\ ChainsAlike'
  BY DEF GradingInv, GradesReplay, ChainsAlike, RecordOne
<1>2. CASE call' = NoCall
  BY <1>1, <1>2 DEF GradingInv, CallFits
<1>3. CASE call' # NoCall
  <2> DEFINE p == Preferences[call.next]
             g == call.matrix[p]
  <2>1. /\ call.at = "recording" /\ call.next <= Len(Preferences) /\ Len(Preferences) \in Nat
        /\ call' = [call EXCEPT !.next = @ + 1, !.evidence = @ \cup g.pack,
                                !.grades[p] = Merge(call.grades[p], g)]
    BY <1>3, SettlementAssumption DEF RecordOne, Recorded
  <2>2. /\ call = [at |-> "recording", next |-> call.next, matrix |-> call.matrix,
                   evidence |-> call.evidence, grades |-> call.grades]
        /\ call.next \in 1 .. Len(Preferences) + 1
        /\ call.grades = [r \in Prefs |-> call.grades[r]]
        /\ \A r \in Prefs : call.grades[r] \in {grades[r], Merge(grades[r], call.matrix[r])}
        /\ \A n \in 1 .. call.next - 1 :
             call.grades[Preferences[n]] =
               Merge(grades[Preferences[n]], call.matrix[Preferences[n]])
    BY <2>1 DEF GradingInv, CallFits, NoCall
  <2>3. PICK c \in Calls : call.matrix = [r \in Prefs |-> GradeOf(r, c)]
    BY <2>1 DEF GradingInv, CallFits, NoCall
  <2>4. p \in Prefs
    BY <2>1, <2>2, SettlementAssumption DEF Prefs
  <2>5. Merge(call.grades[p], g) = Merge(grades[p], g)
    <3>1. g = GradeOf(p, c) /\ grades[p] \in Seq(GradesOf(p))
      BY <2>3, <2>4 DEF GradingInv, GradesReplay
    <3>2. Merge(Merge(grades[p], g), g) = Merge(grades[p], g)
      BY <3>1, MergeTwice
    <3> QED
      BY <2>2, <2>4, <3>2
  <2> DEFINE new == [call.grades EXCEPT ![p] = Merge(grades[p], g)]
  <2>6. call' = [at |-> "recording", next |-> call.next + 1, matrix |-> call.matrix,
                 evidence |-> call.evidence \cup g.pack, grades |-> new]
    BY <2>1, <2>2, <2>5
  <2>7. new = [r \in Prefs |-> new[r]]
    BY <2>2
  <2>8. \A r \in Prefs : new[r] \in {grades[r], Merge(grades[r], call.matrix[r])}
    BY <2>2, <2>4
  <2>9. \A n \in 1 .. call.next :
          new[Preferences[n]] = Merge(grades[Preferences[n]], call.matrix[Preferences[n]])
    <3> SUFFICES ASSUME NEW n \in 1 .. call.next
                 PROVE  new[Preferences[n]] =
                          Merge(grades[Preferences[n]], call.matrix[Preferences[n]])
      OBVIOUS
    <3>1. Preferences[n] \in Prefs
      BY <2>1, <2>2, SettlementAssumption DEF Prefs
    <3>2. CASE Preferences[n] = p
      BY <2>2, <2>4, <3>2
    <3>3. CASE Preferences[n] # p
      <4>1. n \in 1 .. call.next - 1
        BY <2>2, <3>3
      <4> QED
        BY <2>2, <3>1, <3>3, <4>1
    <3> QED
      BY <3>2, <3>3
  <2> HIDE DEF new, g, p
  <2>10. grades' = grades
    BY DEF RecordOne
  <2>11. call'.next \in 1 .. Len(Preferences) + 1 /\ call'.next - 1 = call.next
    <3>1. call'.next = call.next + 1
      BY <2>6
    <3> QED
      BY <2>1, <2>2, <3>1
  <2>12. CallFits'
    BY <2>3, <2>6, <2>7, <2>8, <2>9, <2>10, <2>11 DEF CallFits
  <2> QED
    BY <1>1, <2>12 DEF GradingInv
<1> QED
  BY <1>2, <1>3

\* A call that is committed has merged every preference.
LEMMA CommitMergesAll ==
  ASSUME GradingInv, CommitGrades
  PROVE  \E c \in Calls :
           /\ call.matrix = [p \in Prefs |-> GradeOf(p, c)]
           /\ grades' = [p \in Prefs |-> Merge(grades[p], GradeOf(p, c))]
<1>1. /\ call.grades = [p \in Prefs |-> call.grades[p]]
      /\ \A n \in 1 .. call.next - 1 :
           call.grades[Preferences[n]] =
             Merge(grades[Preferences[n]], call.matrix[Preferences[n]])
      /\ call.next \in 1 .. Len(Preferences) + 1
  BY DEF GradingInv, CallFits, CommitGrades, NoCall
<1>2. PICK c \in Calls : call.matrix = [p \in Prefs |-> GradeOf(p, c)]
  BY DEF GradingInv, CallFits, CommitGrades, NoCall
<1>3. \A p \in Prefs : call.grades[p] = Merge(grades[p], GradeOf(p, c))
  <2> SUFFICES ASSUME NEW p \in Prefs PROVE call.grades[p] = Merge(grades[p], GradeOf(p, c))
    OBVIOUS
  <2>1. PICK n \in 1 .. Len(Preferences) : Preferences[n] = p
    BY SettlementAssumption DEF Prefs
  <2>2. n \in 1 .. call.next - 1
    BY <1>1, <2>1, SettlementAssumption DEF CommitGrades
  <2> QED
    BY <1>1, <1>2, <2>1, <2>2
<1>4. grades' = call.grades
  BY DEF CommitGrades
<1>5. grades' = [p \in Prefs |-> Merge(grades[p], GradeOf(p, c))]
  BY <1>1, <1>3, <1>4
<1> QED
  BY <1>2, <1>5

LEMMA GradesCommitted ==
  ASSUME GradingInv, CommitGrades
  PROVE  GradingInv'
<1>1. PICK c \in Calls : grades' = [p \in Prefs |-> Merge(grades[p], GradeOf(p, c))]
  BY CommitMergesAll
<1>2. GradesReplay'
  <2>1. \A p \in Prefs : Merge(grades[p], GradeOf(p, c)) \in Seq(GradesOf(p))
    BY MergeTyped DEF GradingInv, GradesReplay
  <2> QED
    BY <1>1, <2>1 DEF GradesReplay
<1>3. ChainsAlike'
  <2> SUFFICES ASSUME NEW p \in Prefs, NEW q \in Prefs, Required(p) = Required(q)
               PROVE  EndAlike(p, q, Merge(grades[p], GradeOf(p, c)),
                                     Merge(grades[q], GradeOf(q, c)))
    BY <1>1 DEF ChainsAlike
  <2>1. /\ grades[p] \in Seq(GradesOf(p)) /\ grades[q] \in Seq(GradesOf(q))
        /\ EndAlike(p, q, grades[p], grades[q])
    BY DEF GradingInv, GradesReplay, ChainsAlike
  <2> QED
    BY <2>1, MergeAlike
<1>4. CallFits'
  BY DEF CommitGrades, CallFits
<1> QED
  BY <1>2, <1>3, <1>4 DEF GradingInv

LEMMA GradingStep ==
  ASSUME GradingInv, [GradingNext]_gradingVars
  PROVE  GradingInv'
<1>1. ASSUME NEW pack \in Packs, NEW finalize \in BOOLEAN, NEW withdrawn \in BOOLEAN,
             NEW digest \in Digests \cup {None},
             BeginCall([pack |-> pack, finalize |-> finalize, withdrawn |-> withdrawn,
                        digest |-> digest])
      PROVE  GradingInv'
  BY <1>1, CallBegins DEF Calls
<1>2. CASE Kill
  BY <1>2 DEF Kill, GradingInv, GradesReplay, ChainsAlike, CallFits
<1>3. CASE UNCHANGED gradingVars
  BY <1>3 DEF gradingVars, GradingInv, GradesReplay, ChainsAlike, CallFits
<1> QED
  BY <1>1, <1>2, <1>3, GradeRecorded, GradesCommitted DEF GradingNext

\* The invariant holds at every moment, whichever calls are made and die.
THEOREM GradingIsConsistent == GradingSpec => []GradingInv
BY InitialGrades, GradingStep, PTL DEF GradingSpec

-----------------------------------------------------------------------------
(* What it promises *)

LEMMA ChainsAgree == GradingInv => MarketsAgree
<1> SUFFICES ASSUME GradingInv, NEW p \in Prefs, NEW q \in Prefs, Required(p) = Required(q)
             PROVE  /\ Graded(p) <=> Graded(q)
                    /\ Graded(p) =>
                         LET g == Current(grades[p])
                             h == Current(grades[q])
                         IN /\ g.pack = h.pack /\ g.reason = h.reason
                            /\ g.level = h.level /\ g.digest = h.digest
                            /\ p.family = "WINNER" /\ p.side = "Away" /\ g.result = "WIN" =>
                                 ~(q.family = "DOUBLE_CHANCE" /\ q.side = "1X"
                                   /\ h.result = "WIN")
  BY DEF MarketsAgree
<1>1. EndAlike(p, q, grades[p], grades[q])
  BY DEF GradingInv, ChainsAlike
<1>2. Graded(p) <=> Graded(q)
  BY <1>1 DEF EndAlike, Graded
<1> SUFFICES ASSUME Graded(p)
             PROVE  LET g == Current(grades[p])
                        h == Current(grades[q])
                    IN /\ g.pack = h.pack /\ g.reason = h.reason
                       /\ g.level = h.level /\ g.digest = h.digest
                       /\ p.family = "WINNER" /\ p.side = "Away" /\ g.result = "WIN" =>
                            ~(q.family = "DOUBLE_CHANCE" /\ q.side = "1X" /\ h.result = "WIN")
  BY <1>2
<1>3. PICK c \in Calls, d \in Digests \cup {None} :
        /\ Current(grades[p]) = Dated(GradeOf(p, c), d)
        /\ Current(grades[q]) = Dated(GradeOf(q, c), d)
  BY <1>1 DEF EndAlike, Graded
<1> DEFINE g == Current(grades[p])
           h == Current(grades[q])
<1>4. /\ g.pack = c.pack /\ h.pack = c.pack /\ g.digest = d /\ h.digest = d
      /\ g.reason = GradeOf(p, c).reason /\ h.reason = GradeOf(q, c).reason
      /\ g.level = GradeOf(p, c).level /\ h.level = GradeOf(q, c).level
      /\ g.result = GradeOf(p, c).result /\ h.result = GradeOf(q, c).result
  BY <1>3, DatedFields
<1>5. g.reason = h.reason /\ g.level = h.level
  BY <1>4, GradedAlike
<1> QED
  BY <1>4, <1>5, AwayOrNot

\* Markets of the same facts are settled by the same evidence in every reachable
\* state, for any catalog, evidence and number of calls and kills (record_many).
THEOREM MarketsAlwaysAgree == GradingSpec => []MarketsAgree
BY GradingIsConsistent, ChainsAgree, PTL

\* What the recorder does with a call that rests on lower levels only.
LEMMA LowerStays ==
  ASSUME NEW p, NEW c \in Calls, NEW current \in GradesOf(p), Authority(current) # None,
         c.pack # {}, GradeOf(p, c).reason # "WITHDRAWN",
         Below(GradeOf(p, c), Authority(current))
  PROVE  Stays(current, GradeOf(p, c))
<1> DEFINE g == GradeOf(p, c)
<1>1. g.pack = c.pack /\ c.pack \in SUBSET Ids
  <2>1. g.pack = c.pack
    BY DatedFields
  <2> QED
    BY <2>1, SettlementAssumption DEF Calls
<1>2. RanksOf(c.pack) \in SUBSET Nat /\ RanksOf(c.pack) # {}
  BY <1>1, SettlementAssumption DEF RanksOf
<1>3. \A k \in RanksOf(c.pack) : k > Authority(current)
  BY <1>1 DEF Below
<1>4. CASE current.reason = "SOURCE_CONFLICT"
  <2>1. Least(RanksOf(c.pack)) > Authority(current)
    BY <1>2, <1>3, LeastIsLeast
  <2>2. Authority(current) = Least(RanksOf(current.conflict))
    BY <1>4 DEF Authority
  <2>3. Authority(current) < Least(RanksOf(c.pack))
    BY <2>1
  <2> QED
    BY <1>1, <1>4, <2>2, <2>3 DEF Stays
<1>5. CASE current.reason # "SOURCE_CONFLICT" /\ g.level = None
  BY <1>1, <1>5 DEF Stays, Authority
<1>6. CASE current.reason # "SOURCE_CONFLICT" /\ g.level # None
  <2>1. g.level > Authority(current)
    BY <1>3, <1>6, LevelIsARank
  <2>2. Authority(current) = current.level
    BY <1>6 DEF Authority
  <2> QED
    BY <1>6, <2>1, <2>2 DEF Stays
<1> QED
  BY <1>4, <1>5, <1>6

LEMMA LowerStep ==
  ASSUME GradingInv, [GradingNext]_gradingVars, NEW p \in Prefs,
         Graded(p), call.at = "recording", Authority(Current(grades[p])) # None,
         call.matrix[p].pack # {}, call.matrix[p].reason # "WITHDRAWN",
         Below(call.matrix[p], Authority(Current(grades[p])))
  PROVE  grades'[p] = grades[p]
<1>1. CASE UNCHANGED grades
  BY <1>1
<1>2. CASE CommitGrades
  <2>1. PICK c \in Calls : /\ call.matrix = [r \in Prefs |-> GradeOf(r, c)]
                           /\ grades' = [r \in Prefs |-> Merge(grades[r], GradeOf(r, c))]
    BY <1>2, CommitMergesAll
  <2>2. call.matrix[p] = GradeOf(p, c)
    BY <2>1
  <2>3. c.pack # {}
    BY <2>2, DatedFields
  <2>4. Current(grades[p]) \in GradesOf(p)
    BY CurrentInChain DEF Graded, GradingInv, GradesReplay
  <2>5. Stays(Current(grades[p]), GradeOf(p, c))
    BY <2>2, <2>3, <2>4, LowerStays
  <2>6. Merge(grades[p], GradeOf(p, c)) = grades[p]
    BY <2>5 DEF Merge, Graded
  <2> QED
    BY <2>1, <2>6
<1> QED
  BY <1>1, <1>2 DEF GradingNext, BeginCall, RecordOne, Kill, gradingVars

\* "A lower source cannot replace a complete higher source"
\* (docs/settlement-grading.md:11), whatever came before, for any levels.
THEOREM LowerIsInert == GradingSpec => LowerEvidenceIsInert
<1>1. GradingInv /\ [GradingNext]_gradingVars =>
        [\A p \in Prefs :
           (/\ Graded(p) /\ call.at = "recording"
            /\ Authority(Current(grades[p])) # None
            /\ call.matrix[p].pack # {} /\ call.matrix[p].reason # "WITHDRAWN"
            /\ Below(call.matrix[p], Authority(Current(grades[p]))))
           => grades'[p] = grades[p]]_gradingVars
  BY LowerStep
<1> QED
  BY <1>1, GradingIsConsistent, PTL DEF GradingSpec, LowerEvidenceIsInert

\* A call that is not refused and does not die enters all its grades at once, each
\* merged into the chain as it was before: the transaction of record_many.
OneCall ==
  \E c \in Calls : grades' = [p \in Prefs |-> Merge(grades[p], GradeOf(p, c))]

\* Grades are only ever added: _insert_grade, and no UPDATE or DELETE.
ChainsGrow ==
  \A p \in Prefs :
    /\ Len(grades'[p]) >= Len(grades[p])
    /\ \A n \in 1 .. Len(grades[p]) : grades'[p][n] = grades[p][n]

LEMMA GradesChange ==
  ASSUME GradingInv, [GradingNext]_gradingVars, grades' # grades
  PROVE  OneCall
BY CommitMergesAll DEF OneCall, GradingNext, BeginCall, RecordOne, Kill, gradingVars

LEMMA MergeExtends ==
  ASSUME NEW p, NEW c \in Calls, NEW ch \in Seq(GradesOf(p))
  PROVE  LET merged == Merge(ch, GradeOf(p, c)) IN
         Len(merged) >= Len(ch) /\ \A n \in 1 .. Len(ch) : merged[n] = ch[n]
<1> DEFINE g == GradeOf(p, c)
           new == IF ch = <<>> \/ Current(ch).digest = None THEN g
                  ELSE Dated(g, Current(ch).digest)
           merged == Merge(ch, g)
<1>1. /\ new \in GradesOf(p)
      /\ merged = ch \/ merged = Append(ch, new)
  BY MergeShape
<1> HIDE DEF new, merged
<1>2. Len(merged) >= Len(ch) /\ \A n \in 1 .. Len(ch) : merged[n] = ch[n]
  BY <1>1
<1> QED
  BY <1>2 DEF merged

\* The store holds complete calls only, whatever was refused or killed half-way
\* (the transaction of record_many).
THEOREM CallsAreAtomic == GradingSpec => [][grades' # grades => OneCall]_gradingVars
<1>1. GradingInv /\ [GradingNext]_gradingVars => [grades' # grades => OneCall]_gradingVars
  BY GradesChange
<1> QED
  BY <1>1, GradingIsConsistent, PTL DEF GradingSpec

\* A correction adds a grade and takes none away (the append-only table of grades).
THEOREM HistoryOnlyGrows == GradingSpec => [][ChainsGrow]_gradingVars
<1>1. GradingInv /\ [GradingNext]_gradingVars => [ChainsGrow]_gradingVars
  <2> SUFFICES ASSUME GradingInv, [GradingNext]_gradingVars PROVE ChainsGrow
    OBVIOUS
  <2>1. CASE grades' = grades
    <3>1. \A p \in Prefs : Len(grades[p]) \in Nat
      BY DEF GradingInv, GradesReplay
    <3> QED
      BY <2>1, <3>1 DEF ChainsGrow
  <2>2. CASE grades' # grades
    <3>1. PICK c \in Calls : grades' = [p \in Prefs |-> Merge(grades[p], GradeOf(p, c))]
      BY <2>2, GradesChange DEF OneCall
    <3>2. \A p \in Prefs : grades[p] \in Seq(GradesOf(p))
      BY DEF GradingInv, GradesReplay
    <3> QED
      BY <3>1, <3>2, MergeExtends DEF ChainsGrow
  <2> QED
    BY <2>1, <2>2
<1> QED
  BY <1>1, GradingIsConsistent, PTL DEF GradingSpec

-----------------------------------------------------------------------------
(* The frozen reference *)

\* From the first grade that names a frozen prediction on, all of a chain name it.
KeepsReference(ch) ==
  \A m, n \in 1 .. Len(ch) : m <= n /\ ch[m].digest # None => ch[n].digest = ch[m].digest

ReferencesKept == \A p \in Prefs : KeepsReference(grades[p])

LEMMA MergeKeepsReference ==
  ASSUME NEW p, NEW c \in Calls, NEW ch \in Seq(GradesOf(p)), KeepsReference(ch)
  PROVE  KeepsReference(Merge(ch, GradeOf(p, c)))
<1> DEFINE g == GradeOf(p, c)
           new == IF ch = <<>> \/ Current(ch).digest = None THEN g
                  ELSE Dated(g, Current(ch).digest)
           merged == Merge(ch, g)
<1>1. /\ new \in GradesOf(p)
      /\ merged = ch \/ merged = Append(ch, new)
  BY MergeShape
<1>2. ch # <<>> /\ Current(ch).digest # None => new.digest = Current(ch).digest
  BY DatedFields
<1> HIDE DEF new, merged, g
<1>3. CASE merged = Append(ch, new)
  <2>1. /\ Len(merged) = Len(ch) + 1 /\ Len(ch) \in Nat
        /\ \A n \in 1 .. Len(ch) : merged[n] = ch[n]
        /\ merged[Len(merged)] = new
    BY <1>1, <1>3
  <2> SUFFICES ASSUME NEW m \in 1 .. Len(merged), NEW n \in 1 .. Len(merged), m <= n,
                      merged[m].digest # None
               PROVE  merged[n].digest = merged[m].digest
    BY DEF KeepsReference, merged, g
  <2>2. CASE n \in 1 .. Len(ch)
    <3>1. m \in 1 .. Len(ch)
      BY <2>1, <2>2
    <3> QED
      BY <2>1, <2>2, <3>1 DEF KeepsReference
  <2>3. CASE m \in 1 .. Len(ch) /\ n = Len(merged)
    <3>1. ch # <<>> /\ Len(ch) \in 1 .. Len(ch) /\ m <= Len(ch)
      BY <2>1, <2>3
    <3>2. Current(ch).digest = ch[m].digest
      BY <2>1, <2>3, <3>1 DEF KeepsReference, Current
    <3> QED
      BY <1>2, <2>1, <2>3, <3>1, <3>2
  <2>4. CASE m = Len(merged) /\ n = Len(merged)
    BY <2>4
  <2> QED
    BY <2>1, <2>2, <2>3, <2>4
<1> QED
  BY <1>1, <1>3 DEF merged, g

\* Settling never moves a preference to another frozen prediction: _effective_grade
\* raises on another reference and carries over the one there is.
THEOREM ReferenceIsFinal == GradingSpec => []ReferencesKept
<1>1. GradingInit => ReferencesKept
  BY DEF GradingInit, ReferencesKept, KeepsReference
<1>2. GradingInv /\ ReferencesKept /\ [GradingNext]_gradingVars => ReferencesKept'
  <2> SUFFICES ASSUME GradingInv, ReferencesKept, [GradingNext]_gradingVars
               PROVE  ReferencesKept'
    OBVIOUS
  <2>1. CASE grades' = grades
    BY <2>1 DEF ReferencesKept
  <2>2. CASE grades' # grades
    <3>1. PICK c \in Calls : grades' = [p \in Prefs |-> Merge(grades[p], GradeOf(p, c))]
      BY <2>2, GradesChange DEF OneCall
    <3>2. \A p \in Prefs : grades[p] \in Seq(GradesOf(p)) /\ KeepsReference(grades[p])
      BY DEF GradingInv, GradesReplay, ReferencesKept
    <3>3. \A p \in Prefs : KeepsReference(Merge(grades[p], GradeOf(p, c)))
      BY <3>2, MergeKeepsReference
    <3> QED
      BY <3>1, <3>3 DEF ReferencesKept
  <2> QED
    BY <2>1, <2>2
<1> QED
  BY <1>1, <1>2, GradingIsConsistent, PTL DEF GradingSpec

-----------------------------------------------------------------------------
(* The artifact store *)

\* An object that has its path and is being published has not been damaged: the
\* writer installed it or has just verified it.
PlacedInv ==
  pc \in {"installed", "placed", "synced"} => job.object \in files \ bad

\* A synced graph is on the disk.
SyncedInv ==
  pc = "synced" =>
    /\ job.object \in ManifestObjects
    /\ {job.object} \cup job.object.members \subseteq disk

\* Only a manifest is protected, and the manifest being published has its media
\* type and members that are all catalogued.
JobInv ==
  job # NoJob =>
    /\ job.protected => job.object \in ManifestObjects
    /\ job.object \in ManifestObjects =>
         job.media = "manifest" /\ job.object.members \subseteq Catalogued

\* A manifest's row never is without its members and versions, which say what
\* its bytes say, and its catalog row tells that it is a manifest.
DetailInv ==
  /\ \A row \in manifestArtifacts : row.member \in row.manifest.members
  /\ \A row \in manifests :
       /\ row.object \in manifestVersions
       /\ \A b \in row.object.members :
            [manifest |-> row.object, member |-> b] \in manifestArtifacts
  /\ \A row \in catalog : row.digest \in ManifestObjects => row.media = "manifest"

\* Protected rows stay on the disk, apart from what damage has taken.
DurableInv ==
  \A row \in manifests : row.protected =>
    ({row.object} \cup row.object.members) \ struck \subseteq disk

Inv == /\ TypeOK /\ bad \subseteq struck /\ PlacedInv /\ SyncedInv /\ JobInv
       /\ DetailInv /\ DurableInv /\ CatalogIsBacked /\ ManifestsAreClosed

USE BoundsAssumption, NullAssumption

THEOREM InitInv == Init => Inv
BY DEF Init, Inv, TypeOK, Pcs, Publishing, PlacedInv, SyncedInv, JobInv, DetailInv, DurableInv,
   CatalogIsBacked, ManifestsAreClosed, Catalogued

\* Opening, stopping, discarding and giving up change no object and no row.
LEMMA QuietStep ==
  ASSUME Inv, Open \/ Stop \/ DiscardStaging \/ FinishStaging \/ Fail \/ Interrupt
  PROVE  Inv'
<1>1. /\ UNCHANGED <<files, bad, disk, catalog, manifests, manifestArtifacts, manifestVersions,
                     stamp, struck, power>>
      /\ stage' \subseteq stage
      /\ \/ pc' \in {"down", "idle", "recovery"} /\ job' = NoJob
         \/ pc = "staging" /\ pc' = "staged" /\ job' = job
  BY DEF Inv, TypeOK, Pcs, Publishing, Open, Stop, DiscardStaging, FinishStaging, Fail,
     Interrupt, world, details
<1>2. TypeOK'
  BY <1>1 DEF Inv, TypeOK, Pcs, Publishing
<1>3. PlacedInv' /\ SyncedInv'
  BY <1>1 DEF PlacedInv, SyncedInv
<1>4. JobInv'
  BY <1>1 DEF Inv, JobInv, Catalogued
<1>5. DetailInv' /\ DurableInv' /\ CatalogIsBacked' /\ ManifestsAreClosed'
  BY <1>1 DEF Inv, DetailInv, DurableInv, CatalogIsBacked, ManifestsAreClosed, Catalogued
<1> QED
  BY <1>1, <1>2, <1>3, <1>4, <1>5 DEF Inv

LEMMA BeginStep ==
  ASSUME Inv, NEW j \in Jobs, BeginStaging(j), stamp' \in 0..MaxStamps,
         j.protected => j.object \in ManifestObjects,
         j.object \in ManifestObjects =>
           j.media = "manifest" /\ j.object.members \subseteq Catalogued
  PROVE  Inv'
<1>1. /\ UNCHANGED <<files, bad, disk, catalog, manifests, manifestArtifacts, manifestVersions,
                     struck, power>>
      /\ stage' = stage \cup {j.object} /\ pc' = "staging" /\ job' = j
  BY DEF BeginStaging, world, details
<1>2. j.object \in Objects /\ j # NoJob
  BY DEF Jobs
<1>3. TypeOK'
  BY <1>1, <1>2 DEF Inv, TypeOK, Pcs, Publishing
<1>4. PlacedInv' /\ SyncedInv'
  BY <1>1 DEF PlacedInv, SyncedInv
<1>5. JobInv'
  BY <1>1 DEF Inv, JobInv, Catalogued
<1>6. DetailInv' /\ DurableInv' /\ CatalogIsBacked' /\ ManifestsAreClosed'
  BY <1>1 DEF Inv, DetailInv, DurableInv, CatalogIsBacked, ManifestsAreClosed, Catalogued
<1> QED
  BY <1>1, <1>3, <1>4, <1>5, <1>6 DEF Inv

LEMMA PublishStep ==
  ASSUME Inv,
         \/ \E b \in Blobs, media \in Medias : PublishArtifact(b, media)
         \/ \E s \in Snapshots, members \in SUBSET Blobs, protected \in BOOLEAN :
              PublishManifest(s, members, protected)
  PROVE  Inv'
<1>1. ASSUME NEW b \in Blobs, NEW media \in Medias, PublishArtifact(b, media)
      PROVE  Inv'
  <2> DEFINE j == [object |-> b, media |-> media, protected |-> FALSE]
  <2>1. j \in Jobs /\ j.object \notin ManifestObjects
    BY DEF Jobs, Objects
  <2>2. j.protected = FALSE
    OBVIOUS
  <2>3. BeginStaging(j) /\ stamp' \in 0..MaxStamps
    BY <1>1 DEF PublishArtifact, Inv, TypeOK
  <2> QED
    BY <2>1, <2>2, <2>3, BeginStep
<1>2. ASSUME NEW s \in Snapshots, NEW members \in SUBSET Blobs, NEW protected \in BOOLEAN,
             PublishManifest(s, members, protected)
      PROVE  Inv'
  <2> DEFINE object == [snapshot |-> s, members |-> members, stamp |-> stamp + 1]
             j == [object |-> object, media |-> "manifest", protected |-> protected]
  <2>1. stamp + 1 \in 1..MaxStamps /\ stamp' = stamp + 1
    BY <1>2 DEF PublishManifest, Inv, TypeOK
  <2>2. object \in ManifestObjects /\ object.members = members
    BY <2>1 DEF ManifestObjects
  <2> HIDE DEF object
  <2>3. j \in Jobs /\ j.object = object /\ j.media = "manifest"
    BY <2>2 DEF Jobs, Objects
  <2>4. BeginStaging(j) /\ members \subseteq Catalogued
    BY <1>2 DEF PublishManifest, object
  <2> QED
    BY <2>1, <2>2, <2>3, <2>4, BeginStep
<1> QED
  BY <1>1, <1>2

\* Installing, reusing and syncing change files and disk, and no row.
LEMMA FileStep ==
  ASSUME Inv, Install \/ Reuse \/ SyncDirectory \/ SyncGraph
  PROVE  Inv'
<1>1. /\ UNCHANGED <<job, bad, catalog, manifests, manifestArtifacts, manifestVersions,
                     stamp, struck, power>>
      /\ job # NoJob /\ job \in Jobs
      /\ pc' \in {"installed", "placed", "synced"}
  BY DEF Inv, TypeOK, Publishing, Pcs, Install, Reuse, SyncDirectory, SyncGraph, world, details
<1>2. job.object \in Objects
  BY <1>1 DEF Jobs
<1>3. files' \subseteq Objects /\ files \subseteq files' /\ job.object \in files' \ bad'
  BY <1>1, <1>2 DEF Inv, TypeOK, PlacedInv, Install, Reuse, Intact, SyncDirectory, SyncGraph
<1>4. disk \subseteq disk' /\ disk' \subseteq files' /\ stage' \subseteq Objects
  <2>1. CASE Install \/ Reuse
    BY <2>1, <1>3 DEF Install, Reuse, Inv, TypeOK
  <2>2. CASE SyncDirectory
    BY <2>2, <1>3, <1>1 DEF SyncDirectory, Inv, TypeOK
  <2>3. CASE SyncGraph
    BY <2>3, <1>3, <1>1 DEF SyncGraph, Intact, Inv, TypeOK
  <2> QED
    BY <2>1, <2>2, <2>3
<1>5. TypeOK'
  BY <1>1, <1>3, <1>4 DEF Inv, TypeOK, Pcs, Publishing
<1>6. PlacedInv'
  BY <1>1, <1>3 DEF PlacedInv
<1>7. SyncedInv'
  BY <1>1 DEF Inv, JobInv, SyncedInv, Install, Reuse, SyncDirectory, SyncGraph
<1>8. JobInv'
  BY <1>1 DEF Inv, JobInv, Catalogued
<1>9. DetailInv' /\ DurableInv' /\ CatalogIsBacked' /\ ManifestsAreClosed'
  BY <1>1, <1>3, <1>4 DEF Inv, DetailInv, DurableInv, CatalogIsBacked, ManifestsAreClosed, Catalogued
<1> QED
  BY <1>1, <1>5, <1>6, <1>7, <1>8, <1>9 DEF Inv

LEMMA CatalogGrows ==
  ASSUME Commit
  PROVE  Catalogued' = Catalogued \cup {job.object}
<1> DEFINE row == CatalogRow
<1>1. catalog' = catalog \cup {row} /\ row.digest = job.object
  BY DEF Commit, CatalogRow
<1> HIDE DEF row
<1>2. {r.digest : r \in catalog \cup {row}} = {r.digest : r \in catalog} \cup {job.object}
  BY <1>1
<1> QED
  BY <1>1, <1>2 DEF Catalogued

LEMMA CommitStep ==
  ASSUME Inv, Commit
  PROVE  Inv'
<1> DEFINE o == job.object
           row == [object |-> o, protected |-> job.protected]
           new == {[manifest |-> o, member |-> b] : b \in o.members}
<1>1. /\ job # NoJob /\ job \in Jobs /\ pc \in {"placed", "synced"}
      /\ job.protected => pc = "synced"
      /\ o \in Objects /\ o \in files \ bad
      /\ UNCHANGED <<stage, files, bad, disk, stamp, struck, power>>
      /\ pc' = "idle" /\ job' = NoJob
  BY DEF Inv, TypeOK, Publishing, Pcs, Commit, world, details, PlacedInv, Jobs
<1>2. Catalogued' = Catalogued \cup {o}
  BY CatalogGrows
<1>3. \/ /\ o \notin ManifestObjects /\ manifests' = manifests
         /\ manifestArtifacts' = manifestArtifacts /\ manifestVersions' = manifestVersions
      \/ /\ o \in ManifestObjects /\ manifests' = manifests \cup {row}
         /\ manifestArtifacts' = manifestArtifacts \cup new
         /\ manifestVersions' = manifestVersions \cup {o}
  BY DEF Commit, ManifestRow, RecordDetails, details
<1>4. TypeOK'
  <2>1. [digest |-> o, media |-> job.media] \in [digest : Objects, media : Medias \cup {"manifest"}]
    BY <1>1 DEF Jobs
  <2>2. o \in ManifestObjects => row \in [object : ManifestObjects, protected : BOOLEAN]
    BY <1>1 DEF Jobs
  <2>3. o \in ManifestObjects => new \subseteq [manifest : ManifestObjects, member : Blobs]
    BY DEF ManifestObjects
  <2>4. /\ catalog' \subseteq [digest : Objects, media : Medias \cup {"manifest"}]
        /\ manifests' \subseteq [object : ManifestObjects, protected : BOOLEAN]
    BY <1>3, <2>1, <2>2 DEF Inv, TypeOK, Commit, CatalogRow
  <2> HIDE DEF new
  <2>5. /\ manifestArtifacts' \subseteq [manifest : ManifestObjects, member : Blobs]
        /\ manifestVersions' \subseteq ManifestObjects
    BY <1>3, <2>3 DEF Inv, TypeOK
  <2> QED
    BY <1>1, <2>4, <2>5 DEF Inv, TypeOK, Pcs, Publishing
<1>5. PlacedInv' /\ SyncedInv' /\ JobInv'
  BY <1>1 DEF PlacedInv, SyncedInv, JobInv
<1>6. DurableInv'
  BY <1>1, <1>3 DEF Inv, DurableInv, SyncedInv
<1>7. CatalogIsBacked'
  BY <1>1, <1>2 DEF Inv, CatalogIsBacked
<1>8. ManifestsAreClosed'
  <2>1. o \in ManifestObjects => {o} \cup o.members \subseteq Catalogued'
    BY <1>1, <1>2 DEF Inv, JobInv
  <2>2. o \in ManifestObjects =>
          \A other \in manifests : other.object.snapshot # o.snapshot
    BY DEF Commit, Admissible
  <2> QED
    BY <1>2, <1>3, <2>1, <2>2 DEF Inv, ManifestsAreClosed
<1>9. DetailInv'
  <2>1. \A r \in catalog' : r.digest \in ManifestObjects => r.media = "manifest"
    BY <1>1 DEF Inv, DetailInv, JobInv, Commit, CatalogRow
  <2>2. CASE o \notin ManifestObjects
    BY <1>3, <2>1, <2>2 DEF Inv, DetailInv
  <2>3. CASE o \in ManifestObjects
    <3>1. \A r \in new : r.member \in r.manifest.members
      OBVIOUS
    <3>2. \A b \in o.members : [manifest |-> o, member |-> b] \in new
      OBVIOUS
    <3> HIDE DEF new
    <3>3. \A r \in manifestArtifacts' : r.member \in r.manifest.members
      BY <1>3, <2>3, <3>1 DEF Inv, DetailInv
    <3>4. \A r \in manifests' :
            /\ r.object \in manifestVersions'
            /\ \A b \in r.object.members :
                 [manifest |-> r.object, member |-> b] \in manifestArtifacts'
      BY <1>3, <2>3, <3>2 DEF Inv, DetailInv
    <3> QED
      BY <2>1, <3>3, <3>4 DEF DetailInv
  <2> QED
    BY <2>2, <2>3
<1> QED
  BY <1>1, <1>4, <1>5, <1>6, <1>7, <1>8, <1>9 DEF Inv

LEMMA MachineStep ==
  ASSUME Inv, PowerLoss \/ \E o \in Objects : Damage(o)
  PROVE  Inv'
<1>1. CASE PowerLoss
  <2>1. PICK lost \in SUBSET (files \ disk) :
          files' = files \ lost /\ bad' = bad \ lost /\ disk' = files \ lost
    BY <1>1 DEF PowerLoss
  <2>2. /\ UNCHANGED <<catalog, manifests, manifestArtifacts, manifestVersions,
                     stamp, struck>> /\ stage' \subseteq stage
        /\ pc' = "down" /\ job' = NoJob /\ power' = power + 1
    BY <1>1 DEF PowerLoss, details
  <2>3. TypeOK'
    BY <2>1, <2>2 DEF Inv, TypeOK, Pcs, Publishing
  <2>4. PlacedInv' /\ SyncedInv' /\ JobInv'
    BY <2>2 DEF PlacedInv, SyncedInv, JobInv
  <2>5. disk \subseteq disk' /\ bad' \subseteq struck'
    BY <2>1, <2>2 DEF Inv, TypeOK
  <2>6. DetailInv' /\ DurableInv' /\ ManifestsAreClosed'
    BY <2>2, <2>5 DEF Inv, DetailInv, DurableInv, ManifestsAreClosed, Catalogued
  <2>7. CatalogIsBacked'
    <3>1. power' # 0
      BY <2>2 DEF Inv, TypeOK
    <3> QED
      BY <3>1 DEF CatalogIsBacked
  <2> QED
    BY <2>3, <2>4, <2>5, <2>6, <2>7 DEF Inv
<1>2. ASSUME NEW o \in Objects, Damage(o) PROVE Inv'
  <2>1. /\ pc \in {"down", "idle"} /\ struck' = struck \cup {o}
        /\ UNCHANGED <<pc, job, stage, catalog, manifests, manifestArtifacts, manifestVersions,
                     stamp, power>>
        /\ files \ {o} \subseteq files' /\ files' \subseteq files
        /\ disk \ {o} \subseteq disk' /\ disk' \subseteq files' /\ disk' \subseteq disk
        /\ bad' \subseteq bad \cup {o} /\ bad' \subseteq files'
    BY <1>2 DEF Damage, Inv, TypeOK, details
  <2>2. TypeOK'
    BY <2>1 DEF Inv, TypeOK
  <2>3. PlacedInv' /\ SyncedInv'
    BY <2>1 DEF PlacedInv, SyncedInv
  <2>4. JobInv'
    BY <2>1 DEF Inv, JobInv, Catalogued
  <2>5. DetailInv' /\ DurableInv' /\ CatalogIsBacked' /\ ManifestsAreClosed'
    BY <2>1 DEF Inv, DetailInv, DurableInv, CatalogIsBacked, ManifestsAreClosed, Catalogued
  <2> QED
    BY <2>1, <2>2, <2>3, <2>4, <2>5 DEF Inv
<1> QED
  BY <1>1, <1>2

\* The inductive invariant holds in every reachable state.
THEOREM Invariance == Spec => []Inv
<1>1. Inv /\ [Next]_vars => Inv'
  <2> SUFFICES ASSUME Inv, [Next]_vars PROVE Inv'
    OBVIOUS
  <2>1. CASE Next
    BY <2>1, QuietStep, PublishStep, FileStep, CommitStep, MachineStep DEF Next
  <2>2. CASE UNCHANGED vars
    BY <2>2 DEF vars, details, Inv, TypeOK, PlacedInv, SyncedInv, JobInv, DetailInv, DurableInv,
       CatalogIsBacked, ManifestsAreClosed, Catalogued
  <2> QED
    BY <2>1, <2>2
<1> QED
  BY <1>1, InitInv, PTL DEF Spec

\* Artifact first, for any contents: while the power holds, every catalog row
\* has its undamaged object.
THEOREM CatalogBacked == Spec => []CatalogIsBacked
<1>1. Inv => CatalogIsBacked
  BY DEF Inv
<1> QED
  BY <1>1, Invariance, PTL

\* The complete graph of a research selection survives every power failure.
THEOREM ProtectedGraphDurable == Spec => []ProtectedGraphSurvives
<1>1. Inv => ProtectedGraphSurvives
  BY DEF Inv, TypeOK, DurableInv, ProtectedGraphSurvives
<1> QED
  BY <1>1, Invariance, PTL

\* One manifest per snapshot, with catalogued members, however publications are
\* repeated, interrupted or in conflict.
THEOREM ManifestsClosed == Spec => []ManifestsAreClosed
<1>1. Inv => ManifestsAreClosed
  BY DEF Inv
<1> QED
  BY <1>1, Invariance, PTL

\* No step admits an object into the catalog unless its bytes are intact.
THEOREM IntactAdmission == Spec => OnlyIntactIsAdmitted
<1> DEFINE Admits == \A o \in Objects : o \notin Catalogued /\ o \in Catalogued' => Intact(o)
<1>1. Inv /\ [Next]_vars => [Admits]_vars
  <2> SUFFICES ASSUME Inv, Next PROVE Admits
    OBVIOUS
  <2>1. CASE Commit
    <3>1. job # NoJob /\ pc \in {"placed", "synced"}
      BY <2>1 DEF Commit, Inv, TypeOK, Publishing, Pcs
    <3>2. Catalogued' = Catalogued \cup {job.object} /\ Intact(job.object)
      BY <2>1, <3>1, CatalogGrows DEF Inv, PlacedInv, Intact
    <3> QED
      BY <3>2
  <2>2. CASE catalog' = catalog
    BY <2>2 DEF Catalogued
  <2>3. Commit \/ catalog' = catalog
    BY DEF Next, Open, Stop, DiscardStaging, PublishArtifact, PublishManifest, BeginStaging,
       FinishStaging, Install, Reuse, SyncDirectory, SyncGraph, Fail, Interrupt, Damage,
       PowerLoss
  <2> QED
    BY <2>1, <2>2, <2>3
<1>2. Spec => [][Admits]_vars
  BY <1>1, Invariance, PTL DEF Spec
<1> QED
  BY <1>2 DEF OnlyIntactIsAdmitted

-----------------------------------------------------------------------------
(* The inspector, whose statements and file checks each see another moment of a  *)
(* store that is being written.                                                  *)

SeenShape ==
  seen = [at |-> seen.at, todo |-> seen.todo, rows |-> seen.rows, digests |-> seen.digests,
          metadata |-> seen.metadata, versions |-> seen.versions, members |-> seen.members,
          missing |-> seen.missing, corrupt |-> seen.corrupt, malformed |-> seen.malformed,
          orphans |-> seen.orphans]

\* What was read is still in the tables, since no row is ever removed, and the
\* digests that have had their turn have got all their rows.
ReadsInv ==
  /\ seen.rows \subseteq catalog
  /\ seen.digests \subseteq {row.object : row \in manifests}
  /\ seen.members \subseteq manifestArtifacts
  /\ seen.todo \subseteq ((1..3) \X seen.digests) \cup ({4} \X seen.rows)
  /\ \A o \in seen.digests :
       /\ <<1, o>> \in seen.todo \/ \E m \in seen.metadata : m.object = o
       /\ <<2, o>> \in seen.todo \/ o \in seen.versions
       /\ <<3, o>> \in seen.todo
            \/ \A b \in o.members : [manifest |-> o, member |-> b] \in seen.members

SeenInv == SeenShape /\ ReadsInv /\ AlarmsAreReal

\* Rows, marks of damage and power failures only accumulate.
LEMMA StoreAccumulates ==
  ASSUME Inv, Next
  PROVE  /\ catalog \subseteq catalog' /\ manifests \subseteq manifests'
         /\ manifestArtifacts \subseteq manifestArtifacts'
         /\ struck \subseteq struck'
         /\ power' = 0 => power = 0
<1>1. /\ catalog \subseteq catalog' /\ manifests \subseteq manifests'
      /\ manifestArtifacts \subseteq manifestArtifacts'
  BY DEF Next, Open, Stop, DiscardStaging, PublishArtifact, PublishManifest, BeginStaging,
     FinishStaging, Install, Reuse, SyncDirectory, SyncGraph, Commit, RecordDetails, Fail,
     Interrupt, Damage, PowerLoss, details
<1>2. struck \subseteq struck'
  BY DEF Next, Open, Stop, DiscardStaging, PublishArtifact, PublishManifest, BeginStaging,
     FinishStaging, Install, Reuse, SyncDirectory, SyncGraph, Commit, Fail, Interrupt, Damage,
     PowerLoss, world
<1>3. power' \in {power, power + 1}
  BY DEF Next, Open, Stop, DiscardStaging, PublishArtifact, PublishManifest, BeginStaging,
     FinishStaging, Install, Reuse, SyncDirectory, SyncGraph, Commit, Fail, Interrupt, Damage,
     PowerLoss, world
<1>4. power \in Nat
  BY DEF Inv, TypeOK
<1> QED
  BY <1>1, <1>2, <1>3, <1>4

\* Once its statements have had their turn, only damage tells a manifest's file
\* from its rows.
LEMMA ComparedWhole ==
  ASSUME Inv, SeenInv, NEW row \in seen.rows, row.digest \in seen.digests,
         \A n \in 1..3 : <<n, row.digest>> \notin seen.todo, Intact(row.digest)
  PROVE  AsPublished(row)
<1> DEFINE o == row.digest
           read == {r \in seen.members : r.manifest = o}
<1>1. \E m \in seen.metadata : m.object = o
  BY DEF SeenInv, ReadsInv
<1>2. o \in seen.versions
  BY DEF SeenInv, ReadsInv
<1>3. \A b \in o.members : [manifest |-> o, member |-> b] \in seen.members
  BY DEF SeenInv, ReadsInv
<1>4. {m.member : m \in read} = o.members
  <2>1. \A m \in read : m.member \in o.members
    BY DEF Inv, DetailInv, SeenInv, ReadsInv
  <2>2. ASSUME NEW b \in o.members PROVE \E m \in read : m.member = b
    <3> DEFINE m == [manifest |-> o, member |-> b]
    <3>1. m \in seen.members /\ m.manifest = o /\ m.member = b
      BY <1>3
    <3> HIDE DEF m
    <3> QED
      BY <3>1
  <2> QED
    BY <2>1, <2>2
<1>5. row.media = "manifest"
  BY DEF Inv, TypeOK, DetailInv, SeenInv, ReadsInv
<1> QED
  BY <1>1, <1>2, <1>4, <1>5 DEF AsPublished

LEMMA InspectStep ==
  ASSUME Inv, SeenInv, Inspect
  PROVE  SeenInv'
<1>1. UNCHANGED <<files, bad, catalog, manifests, manifestArtifacts, struck, power>>
  BY DEF Inspect, vars, details
<1>2. CASE ReadCatalog
  <2>1. /\ SeenShape' /\ seen'.at = "catalog" /\ seen'.rows = catalog
        /\ UNCHANGED <<seen.todo, seen.digests, seen.metadata, seen.versions, seen.members,
                       seen.missing, seen.corrupt, seen.malformed>>
    BY <1>2 DEF ReadCatalog, SeenInv, SeenShape
  <2>2. ReadsInv'
    BY <1>1, <2>1 DEF SeenInv, ReadsInv
  <2> QED
    BY <1>1, <2>1, <2>2 DEF SeenInv, AlarmsAreReal
<1>3. CASE ReadDigests
  <2> DEFINE digests == {row.object : row \in manifests}
             todo == ((1..3) \X digests) \cup ({4} \X seen.rows)
  <2>1. seen' = [seen EXCEPT !.at = "asking", !.digests = digests, !.todo = todo]
    BY <1>3 DEF ReadDigests
  <2>2. \A o \in digests : <<1, o>> \in todo /\ <<2, o>> \in todo /\ <<3, o>> \in todo
    OBVIOUS
  <2> HIDE DEF digests, todo
  <2>3. /\ SeenShape' /\ seen'.digests = digests /\ seen'.todo = todo
        /\ seen'.at = "asking" /\ seen'.rows = seen.rows /\ seen'.members = seen.members
        /\ UNCHANGED <<seen.missing, seen.corrupt, seen.malformed>>
    BY <2>1 DEF SeenInv, SeenShape
  <2>4. ReadsInv'
    <3>1. \A o \in seen'.digests :
            <<1, o>> \in seen'.todo /\ <<2, o>> \in seen'.todo /\ <<3, o>> \in seen'.todo
      BY <2>2, <2>3
    <3>2. seen'.todo = ((1..3) \X seen'.digests) \cup ({4} \X seen'.rows)
      BY <2>3 DEF todo
    <3>3. seen'.digests = {row.object : row \in manifests'}
      BY <1>1, <2>3 DEF digests
    <3>4. seen'.rows \subseteq catalog' /\ seen'.members \subseteq manifestArtifacts'
      BY <1>1, <2>3 DEF SeenInv, ReadsInv
    <3>5. /\ seen'.digests \subseteq {row.object : row \in manifests'}
          /\ seen'.todo \subseteq ((1..3) \X seen'.digests) \cup ({4} \X seen'.rows)
      BY <3>2, <3>3, Zenon
    <3> HIDE DEF digests
    <3> QED
      BY <3>1, <3>4, <3>5, Zenon DEF ReadsInv
  <2> QED
    BY <1>1, <2>3, <2>4 DEF SeenInv, AlarmsAreReal
<1>4. ASSUME NEW o \in ManifestObjects, ReadMetadata(o) PROVE SeenInv'
  <2> DEFINE found == {row \in manifests : row.object = o}
  <2>1. /\ <<1, o>> \in seen.todo
        /\ seen' = [seen EXCEPT !.todo = Done(1, o), !.metadata = @ \cup found,
                                !.at = IF found = {} THEN "raised" ELSE @]
    BY <1>4 DEF ReadMetadata, Turn
  <2>2. o \in seen.digests
    BY <2>1 DEF SeenInv, ReadsInv
  <2>3. \E m \in found : m.object = o
    BY <2>2 DEF SeenInv, ReadsInv
  <2> HIDE DEF found
  <2>4. /\ SeenShape' /\ seen'.todo = Done(1, o) /\ seen'.metadata = seen.metadata \cup found
        /\ seen'.at = seen.at
        /\ UNCHANGED <<seen.rows, seen.digests, seen.versions, seen.members,
                       seen.missing, seen.corrupt, seen.malformed>>
    BY <2>1, <2>3 DEF SeenInv, SeenShape
  <2>5. ReadsInv'
    BY <1>1, <2>3, <2>4 DEF SeenInv, ReadsInv, Done
  <2> QED
    BY <1>1, <2>4, <2>5 DEF SeenInv, AlarmsAreReal
<1>5. ASSUME NEW o \in ManifestObjects, ReadVersions(o) PROVE SeenInv'
  <2>1. /\ <<2, o>> \in seen.todo
        /\ seen' = [seen EXCEPT !.todo = Done(2, o),
                                !.versions = @ \cup ({o} \cap manifestVersions)]
    BY <1>5 DEF ReadVersions, Turn
  <2>2. o \in manifestVersions
    BY <2>1 DEF SeenInv, ReadsInv, Inv, DetailInv
  <2>3. /\ SeenShape' /\ seen'.todo = Done(2, o) /\ seen'.versions = seen.versions \cup {o}
        /\ UNCHANGED <<seen.at, seen.rows, seen.digests, seen.metadata, seen.members,
                       seen.missing, seen.corrupt, seen.malformed>>
    BY <2>1, <2>2 DEF SeenInv, SeenShape
  <2>4. ReadsInv'
    BY <1>1, <2>3 DEF SeenInv, ReadsInv, Done
  <2> QED
    BY <1>1, <2>3, <2>4 DEF SeenInv, AlarmsAreReal
<1>6. ASSUME NEW o \in ManifestObjects, ReadMembers(o) PROVE SeenInv'
  <2> DEFINE found == {row \in manifestArtifacts : row.manifest = o}
  <2>1. /\ <<3, o>> \in seen.todo
        /\ seen' = [seen EXCEPT !.todo = Done(3, o), !.members = @ \cup found]
    BY <1>6 DEF ReadMembers, Turn
  <2>2. \A b \in o.members : [manifest |-> o, member |-> b] \in found
    BY <2>1 DEF SeenInv, ReadsInv, Inv, DetailInv
  <2>3. found \subseteq manifestArtifacts
    OBVIOUS
  <2> HIDE DEF found
  <2>4. /\ SeenShape' /\ seen'.todo = Done(3, o) /\ seen'.members = seen.members \cup found
        /\ UNCHANGED <<seen.at, seen.rows, seen.digests, seen.metadata, seen.versions,
                       seen.missing, seen.corrupt, seen.malformed>>
    BY <2>1 DEF SeenInv, SeenShape
  <2>5. ReadsInv'
    BY <1>1, <2>2, <2>3, <2>4 DEF SeenInv, ReadsInv, Done
  <2> QED
    BY <1>1, <2>4, <2>5 DEF SeenInv, AlarmsAreReal
<1>7. ASSUME NEW row \in seen.rows, CheckFile(row) PROVE SeenInv'
  <2> DEFINE o == row.digest
             malformed == IF o \in seen.digests /\ ~AsPublished(row)
                          THEN seen.malformed \cup {o} ELSE seen.malformed
  <2>1. /\ \A other \in seen.todo : 4 <= other[1]
        /\ seen' = [seen EXCEPT !.todo = Done(4, row), !.missing = @ \cup ({o} \ files),
                                !.corrupt = @ \cup ({o} \cap bad), !.malformed = malformed]
    BY <1>7 DEF CheckFile, Turn
  <2>2. \A n \in 1..3 : <<n, o>> \notin seen.todo
    BY <2>1
  <2>3. o \in Catalogued
    BY DEF SeenInv, ReadsInv, Catalogued
  <2>4. ~Intact(o) /\ power = 0 => o \in struck
    BY <2>3 DEF Inv, CatalogIsBacked, Intact
  <2>5. malformed \subseteq seen.malformed \cup (IF Intact(o) THEN {} ELSE {o})
    BY <2>2, ComparedWhole
  <2> HIDE DEF malformed
  <2>6. /\ SeenShape' /\ seen'.todo = Done(4, row)
        /\ seen'.missing = seen.missing \cup ({o} \ files)
        /\ seen'.corrupt = seen.corrupt \cup ({o} \cap bad) /\ seen'.malformed = malformed
        /\ UNCHANGED <<seen.at, seen.rows, seen.digests, seen.metadata, seen.versions, seen.members>>
    BY <2>1 DEF SeenInv, SeenShape
  <2>7. ReadsInv'
    BY <1>1, <2>6 DEF SeenInv, ReadsInv, Done
  <2>8. AlarmsAreReal'
    BY <1>1, <2>4, <2>5, <2>6 DEF SeenInv, AlarmsAreReal, Intact
  <2> QED
    BY <2>6, <2>7, <2>8 DEF SeenInv
<1>8. CASE ScanObjects
  BY <1>1, <1>8 DEF ScanObjects, SeenInv, SeenShape, ReadsInv, AlarmsAreReal
<1>9. CASE Return
  BY <1>1, <1>9 DEF Return, NothingSeen, SeenInv, SeenShape, ReadsInv, AlarmsAreReal
<1> QED
  BY <1>2, <1>3, <1>4, <1>5, <1>6, <1>7, <1>8, <1>9 DEF Inspect

\* `matchvet doctor` raises no false alarm and always comes to its end, for any
\* contents and any number of publications, damages and restarts that fall
\* between its statements.
THEOREM NoFalseAlarm == InspectSpec => []AlarmsAreReal
<1>1. InspectSpec => Spec
  <2>1. InspectInit => Init
    BY DEF InspectInit
  <2>2. [InspectNext]_<<vars, seen>> => [Next]_vars
    BY DEF InspectNext, Inspect
  <2> QED
    BY <2>1, <2>2, PTL DEF InspectSpec, Spec
<1>2. InspectInit => SeenInv
  BY DEF InspectInit, NothingSeen, SeenInv, SeenShape, ReadsInv, AlarmsAreReal
<1>3. Inv /\ SeenInv /\ [InspectNext]_<<vars, seen>> => SeenInv'
  <2> SUFFICES ASSUME Inv, SeenInv, [InspectNext]_<<vars, seen>> PROVE SeenInv'
    OBVIOUS
  <2>1. CASE Next /\ UNCHANGED seen
    BY <2>1, StoreAccumulates DEF SeenInv, SeenShape, ReadsInv, AlarmsAreReal
  <2>2. CASE UNCHANGED <<vars, seen>>
    BY <2>2 DEF vars, details, SeenInv, SeenShape, ReadsInv, AlarmsAreReal
  <2> QED
    BY <2>1, <2>2, InspectStep DEF InspectNext
<1>4. SeenInv => AlarmsAreReal
  BY DEF SeenInv
<1> QED
  BY <1>1, <1>2, <1>3, <1>4, Invariance, PTL DEF InspectSpec
=============================================================================
