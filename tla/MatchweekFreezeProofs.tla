-------------------------- MODULE MatchweekFreezeProofs --------------------------
(***************************************************************************)
(* What MatchweekFreeze promises of the manifest and of the appendix, for  *)
(* any revisions, source levels, windows and number of imports, kills and  *)
(* calls.                                                                  *)
(*                                                                         *)
(* A withdrawal is final because only a member can be withdrawn and the    *)
(* freeze it is a member of is written once, before the appendix.  A pass  *)
(* is complete because it accounts for every revision it takes off its     *)
(* list; where an entry of the same event stands already, the event itself *)
(* tells whether that entry withdraws.                                     *)
(***************************************************************************)
EXTENDS MatchweekFreeze, WellFoundedInduction, TLAPS

Entries ==
  [subject : Subjects, revision : Revisions \cup {None},
   kind : {"REVISION_LEARNED", "MOVED_IN", "ADDED", "POSTPONED", "CANCELLED", "KICKOFF_CHANGE",
           "MOVED_OUT", "IDENTITY", "INVALID_TIMING"},
   disposition : {"WITHDRAWN", "PRESERVED", "APPENDIX_ONLY"}]

\* Events after which a target cannot be played as frozen.
Ending == CalledOff \cup {"IDENTITY", "INVALID_TIMING", "MOVED_OUT"}

\* What the appendix says, and of whom.
AppendixFits ==
  /\ appendix \subseteq Entries
  /\ freeze = None => appendix = {}
  /\ \A e \in appendix :
       /\ e.disposition = "WITHDRAWN" => e.subject \in Included
       /\ e.subject \in Included /\ e.kind \in Ending => e.disposition = "WITHDRAWN"

\* A call is a freeze that has published its manifest, or a pass over the changes.
CallFits ==
  \/ op = Idle
  \/ op = [at |-> "published", rows |-> op.rows] /\ freeze = None /\ manifest = op.rows
  \/ /\ op = [at |-> "appending", asOf |-> op.asOf, todo |-> op.todo, rows |-> op.rows]
     /\ freeze # None /\ op.todo \subseteq Revisions /\ op.rows \subseteq Rows

\* A revision is accounted for by an entry, and by a withdrawal if it ends a target.
Accounted(r) ==
  /\ \E e \in appendix : e.revision = r
  /\ r.fixture \in Included /\ Lost(r) => Withdrawn(r.fixture)

Noted(u) == \E e \in appendix : e.subject = u

\* What a pass has taken off its list is accounted for.
PassSoFar ==
  op.at = "appending" =>
    /\ \A r \in Candidates : AfterCutoff(r, op.asOf) => r \in op.todo \/ Accounted(r)
    /\ \A u \in Rows :
         rows[u] # None /\ freeze.cutoff < rows[u] /\ rows[u] <= op.asOf =>
           u \in op.rows \/ Noted(u)

\* The captures of a revision; a revision keeps its first one.
SourcesFit ==
  /\ observed \in [Revisions -> Time \cup {None}]
  /\ supports \in [Revisions -> SUBSET [rank : Ranks, at : Time]]

\* What a manifest m says is true of the captures obs and sup.
Justified(m, obs, sup) ==
  /\ IncludedIn(m.members) \subseteq Fixtures
  /\ \A s \in IncludedIn(m.members) :
       LET r == m.members[s].revision
       IN /\ r \in Revisions /\ m.cutoff + Lead <= r.kickoff
          /\ obs[r] # None /\ obs[r] <= m.cutoff
          /\ \E q \in sup[r] : q.at <= m.cutoff
  /\ \E s \in IncludedIn(m.members) : m.members[s].revision.kickoff = m.cutoff + Lead
  /\ \A s \in DOMAIN m.members :
       LET r == m.members[s].revision
       IN r # None => r \in Revisions /\ obs[r] # None

FreezeFits ==
  /\ op.at = "published" => Justified(op.rows, observed, supports)
  /\ freeze # None => manifest = freeze /\ Justified(freeze, observed, supports)

Inv == SourcesFit /\ AppendixFits /\ CallFits /\ PassSoFar /\ FreezeFits

-----------------------------------------------------------------------------
(* Entries *)

\* The entry of a revision has that revision and its fixture, and says what it must:
\* only members are withdrawn, an ending event withdraws a member, and a revision
\* that ends a member is an ending event unless the member is withdrawn already.
LEMMA EntryIsRight ==
  ASSUME NEW r \in Revisions, NEW review \in Reviews
  PROVE  LET e == EntryFor(r, review)
         IN /\ e \in Entries /\ e.revision = r /\ e.subject = r.fixture
            /\ e.disposition = "WITHDRAWN" => r.fixture \in Included
            /\ r.fixture \in Included /\ e.kind \in Ending => e.disposition = "WITHDRAWN"
            /\ r.fixture \in Included /\ Lost(r) =>
                 e.disposition = "WITHDRAWN" /\ (Withdrawn(r.fixture) \/ e.kind \in Ending)
            /\ Withdrawn(r.fixture) /\ r.fixture \in Included => e.disposition = "WITHDRAWN"
<1>1. r.fixture \in Subjects
  BY DEF Subjects, Fixtures
<1>2. \A kind, d : LET e == Entry(r.fixture, r, kind, d)
                   IN e.revision = r /\ e.subject = r.fixture /\ e.kind = kind /\ e.disposition = d
  BY DEF Entry
<1>3. CASE r.fixture \notin Included
  <2>1. EntryFor(r, review) = OutsiderEntry(r)
    BY <1>3 DEF EntryFor
  <2>2. PICK kind \in {"REVISION_LEARNED", "MOVED_IN", "ADDED"} :
          OutsiderEntry(r) = Entry(r.fixture, r, kind, "APPENDIX_ONLY")
    BY DEF OutsiderEntry
  <2>3. Entry(r.fixture, r, kind, "APPENDIX_ONLY") \in Entries
    BY <1>1 DEF Entry, Entries
  <2> QED BY <1>2, <1>3, <2>1, <2>2, <2>3
<1>4. CASE r.fixture \in Included /\ Withdrawn(r.fixture)
  <2>1. EntryFor(r, review) = WithdrawnEntry(r)
    BY <1>4 DEF EntryFor
  <2>2. PICK kind \in {"POSTPONED", "CANCELLED", "REVISION_LEARNED", "KICKOFF_CHANGE", "MOVED_OUT"} :
          WithdrawnEntry(r) = Entry(r.fixture, r, kind, "WITHDRAWN")
    BY DEF WithdrawnEntry, CalledOff
  <2>3. Entry(r.fixture, r, kind, "WITHDRAWN") \in Entries
    BY <1>1 DEF Entry, Entries
  <2> QED BY <1>2, <1>4, <2>1, <2>2, <2>3
<1>5. CASE r.fixture \in Included /\ ~Withdrawn(r.fixture)
  <2>1. EntryFor(r, review) = TargetEntry(r, review)
    BY <1>5 DEF EntryFor
  <2>2. CASE \E kind \in Ending : TargetEntry(r, review) = Entry(r.fixture, r, kind, "WITHDRAWN")
    <3>1. PICK kind \in Ending : TargetEntry(r, review) = Entry(r.fixture, r, kind, "WITHDRAWN")
      BY <2>2
    <3>2. Entry(r.fixture, r, kind, "WITHDRAWN") \in Entries
      BY <1>1 DEF Entry, Entries, Ending, CalledOff
    <3> QED BY <1>2, <1>5, <2>1, <3>1, <3>2
  <2>3. CASE /\ ~Lost(r)
             /\ \E kind \in {"KICKOFF_CHANGE", "REVISION_LEARNED"}, d \in {"PRESERVED", "WITHDRAWN"} :
                  TargetEntry(r, review) = Entry(r.fixture, r, kind, d)
    <3>1. PICK kind \in {"KICKOFF_CHANGE", "REVISION_LEARNED"}, d \in {"PRESERVED", "WITHDRAWN"} :
            TargetEntry(r, review) = Entry(r.fixture, r, kind, d)
      BY <2>3
    <3>2. Entry(r.fixture, r, kind, d) \in Entries
      BY <1>1 DEF Entry, Entries
    <3>3. kind \notin Ending
      BY DEF Ending, CalledOff
    <3> QED BY <1>2, <1>5, <2>1, <2>3, <3>1, <3>2, <3>3
  <2>4. CASE Lost(r)
    <3>1. \E kind \in Ending : TargetEntry(r, review) = Entry(r.fixture, r, kind, "WITHDRAWN")
      BY <2>4 DEF Lost, TargetEntry, Ending, CalledOff
    <3> QED BY <2>2, <3>1
  <2>5. CASE ~Lost(r)
    <3>1. r.status \notin CalledOff /\ InWindow(r.kickoff) /\ ~(r.kickoff <= freeze.cutoff)
          /\ r.kickoff # None
      BY <2>5 DEF Lost, InWindow
    <3>2. CASE review = "identity"
      BY <2>2, <3>1, <3>2 DEF TargetEntry, Ending
    <3>3. CASE review # "identity"
      BY <2>3, <2>5, <3>1, <3>3 DEF TargetEntry
    <3> QED BY <3>2, <3>3
  <2> QED BY <2>4, <2>5
<1> QED BY <1>3, <1>4, <1>5

\* An entry is added, or one of the same event stands already.
LEMMA StoredIsThere ==
  ASSUME appendix \subseteq Entries, NEW e \in Entries, appendix' = Stored(e)
  PROVE  /\ appendix \subseteq appendix' /\ appendix' \subseteq appendix \cup {e}
         /\ \E old \in appendix' :
              old.subject = e.subject /\ old.revision = e.revision /\ old.kind = e.kind
<1>1. CASE \E old \in appendix : [old EXCEPT !.disposition = e.disposition] = e
  <2>1. PICK old \in appendix : [old EXCEPT !.disposition = e.disposition] = e
    BY <1>1
  <2>2. old \in Entries /\ appendix' = appendix
    BY <1>1 DEF Stored
  <2>3. old.subject = e.subject /\ old.revision = e.revision /\ old.kind = e.kind
    BY <2>1, <2>2 DEF Entries
  <2> QED BY <2>2, <2>3
<1>2. CASE ~\E old \in appendix : [old EXCEPT !.disposition = e.disposition] = e
  BY <1>2 DEF Stored
<1> QED BY <1>1, <1>2
-----------------------------------------------------------------------------
(* Least and greatest numbers *)

\* The least-number principle, from the well-foundedness of the natural numbers.
LEMMA LeastExists ==
  ASSUME NEW T \in SUBSET Nat, T # {}
  PROVE  \E m \in T : \A k \in T : m <= k
<1>1. IsWellFoundedOn(OpToRel(<, Nat), Nat)
  BY NatLessThanWellFounded
<1>2. PICK m \in T : \A k \in T : ~(<<k, m>> \in OpToRel(<, Nat))
  BY <1>1, WFMin
<1>3. \A k \in T : k < m => <<k, m>> \in OpToRel(<, Nat)
  BY DEF OpToRel
<1>4. \A k \in T : ~(k < m)
  BY <1>2, <1>3, Zenon
<1> QED BY <1>4

\* A set of numbers below a bound has a greatest one.
LEMMA GreatestExists ==
  ASSUME NEW b \in Nat, NEW T \in SUBSET (0..b), T # {}
  PROVE  \E m \in T : \A k \in T : m >= k
<1> DEFINE D == {b - k : k \in T}
<1>1. \A k \in T : b - k \in Nat
  OBVIOUS
<1>2. D \in SUBSET Nat /\ D # {}
  BY <1>1
<1> HIDE DEF D
<1>3. PICK d \in D : \A k \in D : d <= k
  BY <1>2, LeastExists
<1>4. PICK m \in T : d = b - m
  BY DEF D
<1>5. \A k \in T : b - m <= b - k
  BY <1>3, <1>4 DEF D
<1> QED BY <1>4, <1>5

LEMMA MinIsLeast ==
  ASSUME NEW T \in SUBSET Nat, T # {}
  PROVE  Min(T) \in T /\ \A k \in T : Min(T) <= k
BY LeastExists DEF Min

LEMMA MaxIsGreatest ==
  ASSUME NEW b \in Nat, NEW T \in SUBSET (0..b), T # {}
  PROVE  Max(T) \in T /\ \A k \in T : Max(T) >= k
BY GreatestExists DEF Max

-----------------------------------------------------------------------------
(* What a freeze publishes *)

\* The highest level and the last capture of a revision are those of a capture.
LEMMA RevisionKey ==
  ASSUME SourcesFit, NEW r \in Revisions, NEW b, ValidSupports(r, b) # {}
  PROVE  Rank(r, b) \in 0..500 /\ Latest(r, b) \in 0..MaxTime
<1>1. ValidSupports(r, b) \subseteq [rank : Ranks, at : Time]
  BY DEF ValidSupports, SourcesFit
<1>2. Ranks \subseteq 0..500 /\ Time \subseteq 0..MaxTime /\ MaxTime \in Nat
  BY FreezeAssumption DEF Time
<1> DEFINE K == {s.rank : s \in ValidSupports(r, b)}
           A == {s.at : s \in ValidSupports(r, b)}
<1>3. PICK s \in ValidSupports(r, b) : TRUE
  OBVIOUS
<1>4. \A q \in ValidSupports(r, b) : q.rank \in 0..500 /\ q.at \in 0..MaxTime
  BY <1>1, <1>2
<1>5. K \in SUBSET (0..500) /\ s.rank \in K
  BY <1>3, <1>4
<1>6. A \in SUBSET (0..MaxTime) /\ s.at \in A
  BY <1>3, <1>4
<1> HIDE DEF K, A
<1>7. K # {} /\ A # {} /\ 500 \in Nat
  BY <1>5, <1>6
<1>8. Max(K) \in K
  BY <1>5, <1>7, MaxIsGreatest
<1>9. Max(A) \in A
  <2>1. A # {} /\ MaxTime \in Nat
    BY <1>2, <1>7
  <2> QED
    BY <1>6, <2>1, MaxIsGreatest
<1>10. Max(K) \in 0..500 /\ Max(A) \in 0..MaxTime
  <2>1. Max(K) \in 0..500
    BY <1>5, <1>8, Zenon
  <2>2. Max(A) \in 0..MaxTime
    BY <1>6, <1>9, Zenon
  <2> QED
    BY <2>1, <2>2
<1> QED BY <1>10 DEF Rank, Latest, K, A

\* A function to a bounded range is somewhere greatest.
LEMMA SomewhereGreatest ==
  ASSUME NEW b \in Nat, NEW S, S # {}, NEW g \in [S -> 0..b]
  PROVE  \E x \in S : \A y \in S : g[x] >= g[y]
<1> DEFINE T == {g[x] : x \in S}
<1>1. T \in SUBSET (0..b) /\ T # {}
  OBVIOUS
<1> HIDE DEF T
<1>2. PICK k \in T : \A n \in T : k >= n
  BY <1>1, GreatestExists
<1> QED BY <1>2 DEF T

\* The selection is one of the revisions it is made from: no two precede each other.
LEMMA SelectionIsKnown ==
  ASSUME SourcesFit, NEW f, NEW b, Selected(f, b) # None
  PROVE  Selected(f, b) \in Known(f) /\ ValidSupports(Selected(f, b), b) # {}
<1> DEFINE valid == {r \in Known(f) : ValidSupports(r, b) # {}}
<1>1. valid # {} /\ Selected(f, b) = CHOOSE r \in valid : \A q \in valid : ~Precedes(r, q, b)
  BY DEF Selected
<1>2. \A r \in valid : r \in Revisions /\ ValidSupports(r, b) # {}
  BY DEF Known
<1>3. ASSUME NEW r \in valid PROVE Rank(r, b) \in 0..500 /\ Latest(r, b) \in 0..MaxTime
  <2>1. r \in Revisions /\ ValidSupports(r, b) # {}
    BY <1>2
  <2> QED
    BY <2>1, RevisionKey
<1> HIDE DEF valid
<1> DEFINE rank == [r \in valid |-> Rank(r, b)]
<1>4. rank \in [valid -> 0..500] /\ 500 \in Nat
  BY <1>3
<1>5. PICK top \in valid : \A q \in valid : rank[top] >= rank[q]
  <2> HIDE DEF rank
  <2>1. valid # {}
    BY <1>1
  <2> QED
    BY <1>4, <2>1, SomewhereGreatest
<1>6. \A q \in valid : Rank(top, b) >= Rank(q, b)
  BY <1>5
<1> DEFINE first == {r \in valid : Rank(r, b) = Rank(top, b)}
           latest == [r \in first |-> Latest(r, b)]
<1>7. first # {} /\ latest \in [first -> 0..MaxTime] /\ MaxTime \in Nat
  BY <1>3, <1>5, FreezeAssumption
<1>8. PICK r \in first : \A q \in first : latest[r] >= latest[q]
  <2> HIDE DEF first, latest
  <2> QED BY <1>7, SomewhereGreatest
<1>9. r \in valid /\ Rank(r, b) = Rank(top, b) /\ \A q \in first : Latest(r, b) >= Latest(q, b)
  BY <1>8
<1>10. ASSUME NEW q \in valid PROVE ~Precedes(r, q, b)
  <2>1. /\ Rank(r, b) \in 0..500 /\ Rank(q, b) \in 0..500
        /\ Latest(r, b) \in 0..MaxTime /\ Latest(q, b) \in 0..MaxTime
    BY <1>3, <1>9, <1>10
  <2>2. ~(Rank(r, b) < Rank(q, b))
    <3>1. Rank(top, b) >= Rank(q, b) /\ Rank(r, b) = Rank(top, b)
      BY <1>6, <1>9, <1>10
    <3>2. Rank(r, b) >= Rank(q, b)
      BY <3>1
    <3>3. \A x, y \in 0..500 : x >= y => ~(x < y)
      OBVIOUS
    <3> QED BY <2>1, <3>2, <3>3, Zenon
  <2>3. Rank(q, b) = Rank(r, b) => ~(Latest(r, b) < Latest(q, b))
    BY <1>7, <1>9, <2>1
  <2> QED BY <2>2, <2>3 DEF Precedes
<1>11. Selected(f, b) \in valid
  BY <1>1, <1>9, <1>10
<1> QED BY <1>11 DEF valid

\* A stable derivation is justified by the captures there are.
LEMMA FrozenIsJustified ==
  ASSUME SourcesFit, NEW m, NEW b, m.cutoff = b, m.members = Members(b), Stable(b, m.members)
  PROVE  Justified(m, observed, supports)
<1> DEFINE M == Members(b)
           I == IncludedIn(M)
           Keys == {Kickoff(M, s) : s \in I}
<1>1. DOMAIN M \subseteq Fixtures \cup Rows
  BY DEF Members
<1>2. \A s \in DOMAIN M :
        IF s \in Rows THEN M[s] = [state |-> "INDETERMINATE", revision |-> None]
        ELSE M[s] = [state |-> StateOf(Selected(s, b)), revision |-> Selected(s, b)]
  BY DEF Members
<1> HIDE DEF M
<1>3. \A s \in DOMAIN M : M[s].revision # None =>
        s \notin Rows /\ M[s].revision = Selected(s, b) /\ M[s].state = StateOf(Selected(s, b))
  BY <1>2
<1>4. ASSUME NEW s \in DOMAIN M, M[s].revision # None
      PROVE  /\ M[s].revision \in Revisions /\ observed[M[s].revision] # None
             /\ ValidSupports(M[s].revision, b) # {}
  BY <1>3, <1>4, SelectionIsKnown DEF Known
<1>5. ASSUME NEW s \in I
      PROVE  s \in Fixtures /\ M[s].revision # None /\ M[s].revision.kickoff \in Nat
  <2>1. s \in DOMAIN M /\ M[s].state = "INCLUDED"
    BY DEF IncludedIn
  <2>2. s \notin Rows /\ M[s].revision = Selected(s, b) /\ StateOf(Selected(s, b)) = "INCLUDED"
    BY <1>2, <2>1
  <2>3. Eligible(M[s].revision) /\ M[s].revision # None
    BY <2>2 DEF StateOf, Eligible
  <2>4. M[s].revision.kickoff \in Nat \cup {None} /\ M[s].revision.kickoff # None
    BY <1>4, <2>1, <2>3, FreezeAssumption DEF Eligible, InWindow
  <2> QED BY <1>1, <2>1, <2>2, <2>3, <2>4
<1>6. Keys \in SUBSET Nat /\ Keys # {} /\ b = Min(Keys) - Lead
  BY <1>5 DEF Stable, Kickoff, M
<1>7. Min(Keys) \in Keys /\ \A k \in Keys : Min(Keys) <= k
  BY <1>6, MinIsLeast
<1>8. Lead \in Nat /\ Min(Keys) \in Nat /\ b + Lead = Min(Keys)
  BY <1>6, <1>7, FreezeAssumption
<1>9. \A s \in I : b + Lead <= M[s].revision.kickoff
  BY <1>7, <1>8 DEF Kickoff
<1>10. \E s \in I : M[s].revision.kickoff = b + Lead
  BY <1>7, <1>8 DEF Kickoff
<1>11. ASSUME NEW s \in I
       PROVE  /\ observed[M[s].revision] <= b
              /\ \E q \in supports[M[s].revision] : q.at <= b
  <2>1. s \in DOMAIN M /\ M[s].revision # None
    BY <1>5 DEF IncludedIn
  <2> QED BY <1>4, <2>1 DEF ValidSupports
<1>12. \A s \in I : s \in DOMAIN M
  BY DEF IncludedIn
<1> QED BY <1>4, <1>5, <1>9, <1>10, <1>11, <1>12 DEF Justified, M

\* More captures leave what was justified justified.
LEMMA JustifiedStays ==
  ASSUME NEW m, NEW obs, NEW sup, NEW newObs, NEW newSup, Justified(m, obs, sup),
         \A r \in Revisions : /\ obs[r] # None => newObs[r] = obs[r]
                              /\ sup[r] \subseteq newSup[r]
  PROVE  Justified(m, newObs, newSup)
BY DEF Justified

-----------------------------------------------------------------------------
(* One action after the other *)

\* A step that leaves the captures alone leaves what rests on them.
LEMMA SourcesStay ==
  ASSUME Inv, UNCHANGED sourceVars, UNCHANGED <<manifest, freeze>>, op'.at # "published"
  PROVE  SourcesFit' /\ FreezeFits'
BY DEF Inv, SourcesFit, FreezeFits, sourceVars

\* The initial state.
LEMMA Start == Init => Inv
<1> SUFFICES ASSUME Init PROVE Inv OBVIOUS
<1>1. SourcesFit
  BY DEF Init, SourcesFit
<1>2. AppendixFits /\ CallFits /\ PassSoFar /\ FreezeFits
  BY DEF Init, AppendixFits, CallFits, PassSoFar, FreezeFits, Idle
<1> QED BY <1>1, <1>2 DEF Inv

\* What is published is justified, and the manifest, old or new, is the same.
LEMMA BeginFreezeKeeps == ASSUME Inv, NEW given, BeginFreeze(given) PROVE Inv'
<1> DEFINE asOf == IF given = None THEN Newest ELSE given
           m == Frozen(asOf)
<1>1. /\ op = Idle /\ freeze = None /\ Stable(m.cutoff, m.members) /\ MayPublish(m)
      /\ manifest' = IF manifest = None THEN m ELSE manifest
      /\ op' = [at |-> "published", rows |-> m]
      /\ UNCHANGED <<sourceVars, freeze, appendix>>
  BY DEF BeginFreeze
<1>2. m.members = Members(m.cutoff)
  BY DEF Frozen
<1> HIDE DEF m
<1>3. Justified(m, observed, supports)
  BY <1>1, <1>2, FrozenIsJustified DEF Inv
<1>4. op'.at = "published" /\ op'.rows = m /\ manifest' = m
  BY <1>1 DEF MayPublish
<1>5. SourcesFit' /\ observed' = observed /\ supports' = supports
  BY <1>1 DEF Inv, SourcesFit, sourceVars
<1>6. AppendixFits'
  BY <1>1 DEF Inv, AppendixFits, Included
<1>7. CallFits' /\ PassSoFar'
  BY <1>1, <1>4 DEF CallFits, PassSoFar
<1>8. FreezeFits'
  BY <1>1, <1>3, <1>4, <1>5 DEF FreezeFits
<1> QED BY <1>5, <1>6, <1>7, <1>8 DEF Inv

\* The rows are those of the manifest, and the appendix is still empty.
LEMMA InsertFreezeKeeps == ASSUME Inv, InsertFreeze PROVE Inv'
<1>1. /\ op.at = "published" /\ freeze' = op.rows /\ op' = Idle
      /\ UNCHANGED <<sourceVars, manifest, appendix>>
  BY DEF InsertFreeze
<1>2. freeze = None /\ manifest = op.rows
  BY <1>1 DEF Inv, CallFits, Idle
<1>3. SourcesFit' /\ observed' = observed /\ supports' = supports
  BY <1>1 DEF Inv, SourcesFit, sourceVars
<1>4. AppendixFits'
  BY <1>1, <1>2 DEF Inv, AppendixFits
<1>5. CallFits' /\ PassSoFar'
  BY <1>1 DEF CallFits, PassSoFar, Idle
<1>6. FreezeFits'
  BY <1>1, <1>2, <1>3 DEF Inv, FreezeFits, Idle
<1> QED BY <1>3, <1>4, <1>5, <1>6 DEF Inv

\* An entry for a revision keeps what the appendix says and accounts for it.
LEMMA RevisionEntered ==
  ASSUME AppendixFits, freeze # None, NEW r \in Revisions, NEW review \in Reviews,
         appendix' = Stored(EntryFor(r, review)), freeze' = freeze
  PROVE  /\ AppendixFits' /\ Accounted(r)'
         /\ appendix \subseteq appendix'
         /\ \A e \in appendix' \ appendix : e.subject \in Included /\ Withdrawn(e.subject) =>
              e.disposition = "WITHDRAWN"
<1> DEFINE e == EntryFor(r, review)
<1>1. /\ e \in Entries /\ e.revision = r /\ e.subject = r.fixture
      /\ e.disposition = "WITHDRAWN" => r.fixture \in Included
      /\ r.fixture \in Included /\ e.kind \in Ending => e.disposition = "WITHDRAWN"
      /\ r.fixture \in Included /\ Lost(r) =>
           e.disposition = "WITHDRAWN" /\ (Withdrawn(r.fixture) \/ e.kind \in Ending)
      /\ Withdrawn(r.fixture) /\ r.fixture \in Included => e.disposition = "WITHDRAWN"
  BY EntryIsRight
<1> HIDE DEF e
<1>2. /\ appendix \subseteq appendix' /\ appendix' \subseteq appendix \cup {e}
      /\ \E old \in appendix' :
           old.subject = e.subject /\ old.revision = e.revision /\ old.kind = e.kind
  BY <1>1, StoredIsThere DEF AppendixFits, e
<1>3. Included' = Included /\ (Lost(r)' <=> Lost(r))
  BY DEF Included, Lost
<1>4. AppendixFits'
  BY <1>1, <1>2, <1>3 DEF AppendixFits
<1>5. r.fixture \in Included /\ Lost(r) => Withdrawn(r.fixture)'
  BY <1>1, <1>2, <1>3, <1>4 DEF AppendixFits, Withdrawn
<1>6. Accounted(r)'
  BY <1>1, <1>2, <1>3, <1>5 DEF Accounted, Withdrawn
<1> QED BY <1>1, <1>2, <1>4, <1>6

\* What is accounted for stays so while the appendix only grows.
LEMMA AccountedStays ==
  ASSUME appendix \subseteq appendix', freeze' = freeze
  PROVE  /\ \A r \in Revisions : Accounted(r) => Accounted(r)'
         /\ \A u \in Rows : Noted(u) => Noted(u)'
BY DEF Accounted, Noted, Withdrawn, Included, Lost

\* A single append.
LEMMA AppendRevisionKeeps ==
  ASSUME Inv, NEW r \in Revisions, NEW asOf, NEW review \in Reviews,
         AppendRevision(r, asOf, review)
  PROVE  Inv'
<1>1. /\ op = Idle /\ freeze # None /\ appendix' = Stored(EntryFor(r, review))
      /\ UNCHANGED <<sourceVars, manifest, freeze, op>>
  BY DEF AppendRevision
<1>2. AppendixFits'
  BY <1>1, RevisionEntered DEF Inv
<1>3. CallFits' /\ PassSoFar'
  BY <1>1 DEF CallFits, PassSoFar, Idle
<1>4. SourcesFit' /\ FreezeFits'
  BY <1>1, SourcesStay DEF Idle
<1> QED BY <1>2, <1>3, <1>4 DEF Inv

\* A pass starts with nothing accounted for but what it does not list.
LEMMA BeginChangesKeeps == ASSUME Inv, NEW asOf, BeginChanges(asOf) PROVE Inv'
<1> DEFINE todo == {r \in Candidates : AfterCutoff(r, asOf)}
           left == {u \in Rows : rows[u] # None /\ freeze.cutoff < rows[u] /\ rows[u] <= asOf}
<1>1. /\ freeze # None /\ UNCHANGED <<sourceVars, storeVars>>
      /\ op' = [at |-> "appending", asOf |-> asOf, todo |-> todo, rows |-> left]
  BY DEF BeginChanges
<1>2. todo \subseteq Revisions /\ left \subseteq Rows
  BY DEF Candidates
<1>3. CallFits'
  BY <1>1, <1>2 DEF CallFits, storeVars
<1>4. PassSoFar'
  BY <1>1 DEF PassSoFar, Candidates, AfterCutoff, PostCutoffSupports, sourceVars, storeVars
<1>5. AppendixFits'
  BY <1>1 DEF Inv, AppendixFits, Included, storeVars
<1>6. SourcesFit' /\ FreezeFits'
  BY <1>1, SourcesStay DEF storeVars
<1> QED BY <1>3, <1>4, <1>5, <1>6 DEF Inv

\* A pass under way has the shape of one.
LEMMA PassUnderWay ==
  ASSUME CallFits, op.at = "appending"
  PROVE  /\ op = [at |-> "appending", asOf |-> op.asOf, todo |-> op.todo, rows |-> op.rows]
         /\ freeze # None /\ op.todo \subseteq Revisions /\ op.rows \subseteq Rows
<1>1. op # Idle
  BY DEF Idle
<1>2. op # [at |-> "published", rows |-> op.rows]
  OBVIOUS
<1> QED BY <1>1, <1>2 DEF CallFits

\* A revision leaves the list of the pass with its entry.
LEMMA AppendNextKeeps ==
  ASSUME Inv, NEW r \in Revisions, NEW review \in Reviews, AppendNext(r, review)
  PROVE  Inv'
<1>1. /\ op.at = "appending" /\ r \in op.todo /\ appendix' = Stored(EntryFor(r, review))
      /\ op' = [op EXCEPT !.todo = @ \ {r}]
      /\ UNCHANGED <<sourceVars, manifest, freeze>>
  BY DEF AppendNext
<1>2. /\ op = [at |-> "appending", asOf |-> op.asOf, todo |-> op.todo, rows |-> op.rows]
      /\ freeze # None /\ op.todo \subseteq Revisions /\ op.rows \subseteq Rows
  BY <1>1, PassUnderWay DEF Inv
<1>3. /\ op'.at = "appending" /\ op'.asOf = op.asOf /\ op'.rows = op.rows
      /\ op'.todo = op.todo \ {r}
      /\ op' = [at |-> "appending", asOf |-> op'.asOf, todo |-> op'.todo, rows |-> op'.rows]
  BY <1>1, <1>2
<1>4. AppendixFits' /\ Accounted(r)' /\ appendix \subseteq appendix'
  BY <1>1, <1>2, RevisionEntered DEF Inv
<1>5. CallFits'
  BY <1>1, <1>2, <1>3 DEF CallFits
<1>6. /\ \A q \in Revisions : Accounted(q) => Accounted(q)'
      /\ \A u \in Rows : Noted(u) => Noted(u)'
  BY <1>1, <1>4, AccountedStays
<1>7. PassSoFar'
  <2>1. ASSUME NEW q \in Candidates', AfterCutoff(q, op.asOf)'
        PROVE  q \in op'.todo \/ Accounted(q)'
    <3>1. q \in Candidates /\ q \in Revisions /\ AfterCutoff(q, op.asOf)
      BY <1>1, <1>3, <2>1 DEF Candidates, AfterCutoff, PostCutoffSupports, sourceVars
    <3>2. q \in op.todo \/ Accounted(q)
      BY <1>1, <3>1 DEF Inv, PassSoFar
    <3> QED BY <1>3, <1>4, <1>6, <3>1, <3>2
  <2>2. ASSUME NEW u \in Rows,
               rows'[u] # None /\ freeze'.cutoff < rows'[u] /\ rows'[u] <= op'.asOf
        PROVE  u \in op'.rows \/ Noted(u)'
    <3>1. u \in op.rows \/ Noted(u)
      BY <1>1, <1>3, <2>2 DEF Inv, PassSoFar, sourceVars
    <3> QED BY <1>3, <1>6, <3>1
  <2> QED BY <2>1, <2>2 DEF PassSoFar
<1>8. SourcesFit' /\ FreezeFits'
  BY <1>1, <1>3, SourcesStay
<1> QED BY <1>4, <1>5, <1>7, <1>8 DEF Inv

\* So does an unresolved row, which is no member.
LEMMA AppendRowKeeps == ASSUME Inv, NEW u \in Rows, AppendRow(u) PROVE Inv'
<1> DEFINE e == Entry(u, None, "IDENTITY", "APPENDIX_ONLY")
<1>1. /\ op.at = "appending" /\ op.todo = {} /\ u \in op.rows /\ appendix' = Stored(e)
      /\ op' = [op EXCEPT !.rows = @ \ {u}]
      /\ UNCHANGED <<sourceVars, manifest, freeze>>
  BY DEF AppendRow
<1>2. /\ op = [at |-> "appending", asOf |-> op.asOf, todo |-> op.todo, rows |-> op.rows]
      /\ freeze # None /\ op.todo \subseteq Revisions /\ op.rows \subseteq Rows
  BY <1>1, PassUnderWay DEF Inv
<1>3. /\ op'.at = "appending" /\ op'.asOf = op.asOf /\ op'.todo = op.todo
      /\ op'.rows = op.rows \ {u}
      /\ op' = [at |-> "appending", asOf |-> op'.asOf, todo |-> op'.todo, rows |-> op'.rows]
  BY <1>1, <1>2
<1>4. e \in Entries /\ e.subject = u /\ e.disposition = "APPENDIX_ONLY"
  BY DEF Entry, Entries, Subjects
<1> HIDE DEF e
<1>5. /\ appendix \subseteq appendix' /\ appendix' \subseteq appendix \cup {e}
      /\ \E old \in appendix' : old.subject = u
  BY <1>1, <1>4, StoredIsThere DEF Inv, AppendixFits
<1>6. u \notin Included /\ Included' = Included
  BY <1>1, <1>2, FreezeAssumption DEF Inv, FreezeFits, Justified, Included
<1>7. AppendixFits'
  BY <1>1, <1>2, <1>4, <1>5, <1>6 DEF Inv, AppendixFits
<1>8. CallFits'
  BY <1>1, <1>2, <1>3 DEF CallFits
<1>9. /\ \A q \in Revisions : Accounted(q) => Accounted(q)'
      /\ \A w \in Rows : Noted(w) => Noted(w)'
  BY <1>1, <1>5, AccountedStays
<1>10. PassSoFar'
  <2>1. ASSUME NEW q \in Candidates', AfterCutoff(q, op.asOf)'
        PROVE  q \in op'.todo \/ Accounted(q)'
    <3>1. q \in Candidates /\ q \in Revisions /\ AfterCutoff(q, op.asOf)
      BY <1>1, <1>3, <2>1 DEF Candidates, AfterCutoff, PostCutoffSupports, sourceVars
    <3>2. q \in op.todo \/ Accounted(q)
      BY <1>1, <3>1 DEF Inv, PassSoFar
    <3> QED BY <1>3, <1>9, <3>1, <3>2
  <2>2. ASSUME NEW w \in Rows,
               rows'[w] # None /\ freeze'.cutoff < rows'[w] /\ rows'[w] <= op'.asOf
        PROVE  w \in op'.rows \/ Noted(w)'
    <3>1. w \in op.rows \/ Noted(w)
      BY <1>1, <1>3, <2>2 DEF Inv, PassSoFar, sourceVars
    <3>2. Noted(u)'
      BY <1>5 DEF Noted
    <3> QED BY <1>3, <1>9, <3>1, <3>2
  <2> QED BY <2>1, <2>2 DEF PassSoFar
<1>11. SourcesFit' /\ FreezeFits'
  BY <1>1, <1>3, SourcesStay
<1> QED BY <1>7, <1>8, <1>10, <1>11 DEF Inv

\* A call that ends, refused, killed or complete, leaves what it has written.
LEMMA EndKeeps ==
  ASSUME Inv, op' = Idle, UNCHANGED <<sourceVars, storeVars>> PROVE Inv'
<1>1. AppendixFits'
  BY DEF Inv, AppendixFits, Included, storeVars
<1>2. CallFits' /\ PassSoFar' /\ op'.at # "published"
  BY DEF CallFits, PassSoFar, Idle
<1>3. SourcesFit' /\ FreezeFits'
  BY <1>2, SourcesStay DEF storeVars
<1> QED BY <1>1, <1>2, <1>3 DEF Inv

\* Between calls, sources only add to what is known, and time passes.
LEMMA SourcesKeep ==
  ASSUME Inv, op = Idle, UNCHANGED <<storeVars, op>>, SourcesFit',
         \A r \in Revisions : /\ observed[r] # None => observed'[r] = observed[r]
                              /\ supports[r] \subseteq supports'[r]
  PROVE  Inv'
<1>1. AppendixFits'
  BY DEF Inv, AppendixFits, Included, storeVars
<1>2. CallFits' /\ PassSoFar'
  BY DEF CallFits, PassSoFar, Idle
<1>3. FreezeFits'
  <2>1. ASSUME freeze # None PROVE Justified(freeze, observed', supports')
    BY <2>1, JustifiedStays DEF Inv, FreezeFits
  <2> QED BY <2>1 DEF Inv, FreezeFits, Idle, storeVars
<1> QED BY <1>1, <1>2, <1>3 DEF Inv

LEMMA ImportKeeps ==
  ASSUME Inv, NEW r \in Revisions, NEW rank \in Ranks, NEW t \in Retrieved, Import(r, rank, t)
  PROVE  Inv'
<1>1. t \in Time /\ [rank |-> rank, at |-> t] \in [rank : Ranks, at : Time]
  BY DEF Retrieved
<1>2. /\ op = Idle /\ UNCHANGED <<storeVars, op>>
      /\ observed' = [observed EXCEPT ![r] = IF @ = None THEN t ELSE @]
      /\ supports' = [supports EXCEPT ![r] = @ \cup {[rank |-> rank, at |-> t]}]
  BY DEF Import
<1>3. SourcesFit'
  BY <1>1, <1>2 DEF Inv, SourcesFit
<1>4. \A q \in Revisions : /\ observed[q] # None => observed'[q] = observed[q]
                           /\ supports[q] \subseteq supports'[q]
  BY <1>2 DEF Inv, SourcesFit
<1> QED BY <1>2, <1>3, <1>4, SourcesKeep

LEMMA ElseKeeps ==
  ASSUME Inv, (\E u \in Rows, t \in Retrieved : ImportRow(u, t)) \/ Tick PROVE Inv'
<1>1. op = Idle /\ UNCHANGED <<storeVars, op>> /\ UNCHANGED <<observed, supports>>
  BY DEF ImportRow, Tick
<1>2. SourcesFit'
  BY <1>1 DEF Inv, SourcesFit
<1> QED BY <1>1, <1>2, SourcesKeep

LEMMA StutterKeeps == ASSUME Inv, UNCHANGED vars PROVE Inv'
<1>1. UNCHANGED <<now, observed, supports, rows, manifest, freeze, appendix, op>>
  BY DEF vars, sourceVars, storeVars
<1>2. SourcesFit' /\ AppendixFits' /\ CallFits' /\ FreezeFits'
  BY <1>1 DEF Inv, SourcesFit, AppendixFits, CallFits, FreezeFits, Included
<1>3. PassSoFar'
  BY <1>1 DEF Inv, PassSoFar, Candidates, AfterCutoff, PostCutoffSupports, Accounted, Noted,
              Included, Withdrawn, Lost
<1> QED BY <1>2, <1>3 DEF Inv

LEMMA StepKeeps == Inv /\ [Next]_vars => Inv'
<1> SUFFICES ASSUME Inv, [Next]_vars PROVE Inv' OBVIOUS
<1>1. CASE \E given \in Moments \cup {None} : BeginFreeze(given)
  BY <1>1, BeginFreezeKeeps
<1>2. CASE InsertFreeze
  BY <1>2, InsertFreezeKeeps
<1>3. CASE \E r \in Revisions, asOf \in Moments, review \in Reviews : AppendRevision(r, asOf, review)
  BY <1>3, AppendRevisionKeeps
<1>4. CASE \E asOf \in Moments : BeginChanges(asOf)
  BY <1>4, BeginChangesKeeps
<1>5. CASE \E r \in Revisions, review \in Reviews : AppendNext(r, review)
  BY <1>5, AppendNextKeeps
<1>6. CASE \E u \in Rows : AppendRow(u)
  BY <1>6, AppendRowKeeps
<1>7. CASE RefusePass \/ EndChanges \/ Kill
  <2>1. op' = Idle /\ UNCHANGED <<sourceVars, storeVars>>
    BY <1>7 DEF RefusePass, EndChanges, Kill
  <2> QED BY <2>1, EndKeeps
<1>8. CASE \E r \in Revisions, rank \in Ranks, t \in Retrieved : Import(r, rank, t)
  BY <1>8, ImportKeeps
<1>9. CASE (\E u \in Rows, t \in Retrieved : ImportRow(u, t)) \/ Tick
  BY <1>9, ElseKeeps
<1>10. CASE UNCHANGED vars
  BY <1>10, StutterKeeps
<1> QED BY <1>1, <1>2, <1>3, <1>4, <1>5, <1>6, <1>7, <1>8, <1>9, <1>10 DEF Next

-----------------------------------------------------------------------------
(* Theorems *)

\* The inductive invariant.
THEOREM Invariance == Spec => []Inv
BY Start, StepKeeps, PTL DEF Spec

\* However the schedule went back and forth, the members of a freeze rest on
\* captures of before the cutoff their own kickoffs have set.
THEOREM Led == Spec => []CutoffLeadsMembers
<1>1. Inv => CutoffLeadsMembers
  <2> SUFFICES ASSUME Inv, freeze # None
               PROVE  /\ Included # {}
                      /\ \A f \in Included :
                           LET r == freeze.members[f].revision
                           IN /\ freeze.cutoff + Lead <= r.kickoff
                              /\ observed[r] <= freeze.cutoff
                              /\ \E s \in supports[r] : s.at <= freeze.cutoff
                      /\ \E f \in Included : Kickoff(freeze.members, f) = freeze.cutoff + Lead
    BY DEF CutoffLeadsMembers
  <2>1. Justified(freeze, observed, supports) /\ Included = IncludedIn(freeze.members)
    BY DEF Inv, FreezeFits, Included
  <2> QED BY <2>1 DEF Justified, Kickoff
<1> QED BY <1>1, Invariance, PTL

\* The rows are those of the manifest, and every revision they freeze is there.
THEOREM Replayable == Spec => []FreezeIsReplayable
<1>1. Inv => FreezeIsReplayable
  BY DEF Inv, FreezeFits, Justified, FreezeIsReplayable
<1> QED BY <1>1, Invariance, PTL

\* A step that adds to the appendix adds one entry, and a withdrawn member is never
\* preserved by it.
LEMMA EntriesOfAStep ==
  ASSUME Inv, [Next]_vars
  PROVE  /\ appendix \subseteq appendix'
         /\ \A e \in appendix' \ appendix :
              e.subject \in Included /\ Withdrawn(e.subject) => e.disposition = "WITHDRAWN"
<1>1. CASE \E r \in Revisions, review \in Reviews :
             appendix' = Stored(EntryFor(r, review)) /\ freeze # None /\ freeze' = freeze
  BY <1>1, RevisionEntered DEF Inv
<1>2. CASE \E u \in Rows : AppendRow(u)
  <2>1. PICK u \in Rows : AppendRow(u)
    BY <1>2
  <2> DEFINE e == Entry(u, None, "IDENTITY", "APPENDIX_ONLY")
  <2>2. appendix' = Stored(e) /\ freeze # None
    BY <2>1, PassUnderWay DEF AppendRow, Inv
  <2>3. e \in Entries /\ e.subject = u
    BY DEF Entry, Entries, Subjects
  <2>4. u \notin Included
    BY <2>2, FreezeAssumption DEF Inv, FreezeFits, Justified, Included
  <2> HIDE DEF e
  <2>5. appendix \subseteq appendix' /\ appendix' \subseteq appendix \cup {e}
    BY <2>2, <2>3, StoredIsThere DEF Inv, AppendixFits
  <2> QED BY <2>3, <2>4, <2>5
<1>3. CASE appendix' = appendix
  BY <1>3
<1>4. \A r, review : AppendNext(r, review) =>
        appendix' = Stored(EntryFor(r, review)) /\ freeze # None /\ freeze' = freeze
  BY PassUnderWay DEF Inv, AppendNext
<1>5. \A r, asOf, review : AppendRevision(r, asOf, review) =>
        appendix' = Stored(EntryFor(r, review)) /\ freeze # None /\ freeze' = freeze
  BY DEF AppendRevision
<1>6. \/ appendix' = appendix
      \/ \E u \in Rows : AppendRow(u)
      \/ \E r \in Revisions, review \in Reviews : AppendNext(r, review)
      \/ \E r \in Revisions, asOf \in Moments, review \in Reviews : AppendRevision(r, asOf, review)
  BY DEF Next, vars, storeVars, BeginFreeze, InsertFreeze, BeginChanges, RefusePass, EndChanges,
         Import, ImportRow, Tick, Kill
<1> QED BY <1>1, <1>2, <1>3, <1>4, <1>5, <1>6

\* A withdrawn target stays withdrawn, whatever is appended about it later.
THEOREM WithdrawnForGood == Spec => WithdrawalIsFinal
<1>1. Inv /\ [Next]_vars =>
        [\A f \in Fixtures : Withdrawn(f) =>
           /\ Withdrawn(f)'
           /\ \A e \in appendix' \ appendix : e.subject = f => e.disposition = "WITHDRAWN"]_vars
  <2> SUFFICES ASSUME Inv, [Next]_vars, NEW f \in Fixtures, Withdrawn(f)
               PROVE  /\ Withdrawn(f)'
                      /\ \A e \in appendix' \ appendix :
                           e.subject = f => e.disposition = "WITHDRAWN"
    OBVIOUS
  <2>1. f \in Included
    BY DEF Inv, AppendixFits, Withdrawn
  <2>2. Withdrawn(f)'
    BY EntriesOfAStep DEF Withdrawn
  <2> QED BY <2>1, <2>2, EntriesOfAStep
<1> QED BY <1>1, Invariance, PTL DEF Spec, WithdrawalIsFinal

\* A pass that ends has accounted for every capture of after the cutoff.
THEOREM PassCompletes == Spec => PassIsComplete
<1> DEFINE Complete ==
      /\ \A r \in Candidates :
           (\E s \in supports[r] : freeze.cutoff < s.at /\ s.at <= op.asOf) =>
             /\ \E e \in appendix' : e.revision = r
             /\ r.fixture \in Included /\ Lost(r) => Withdrawn(r.fixture)'
      /\ \A u \in Rows : rows[u] # None /\ freeze.cutoff < rows[u] /\ rows[u] <= op.asOf =>
           \E e \in appendix' : e.subject = u
<1>1. Inv /\ [Next]_vars => [op.at = "appending" /\ EndChanges => Complete]_vars
  <2> SUFFICES ASSUME Inv, op.at = "appending", EndChanges PROVE Complete
    OBVIOUS
  <2>1. op.todo = {} /\ op.rows = {} /\ appendix' = appendix
    BY DEF EndChanges, storeVars
  <2>2. ASSUME NEW r \in Candidates,
               \E s \in supports[r] : freeze.cutoff < s.at /\ s.at <= op.asOf
        PROVE  /\ \E e \in appendix' : e.revision = r
               /\ r.fixture \in Included /\ Lost(r) => Withdrawn(r.fixture)'
    <3>1. AfterCutoff(r, op.asOf)
      BY <2>2 DEF AfterCutoff, PostCutoffSupports
    <3>2. Accounted(r)
      BY <2>1, <3>1 DEF Inv, PassSoFar
    <3> QED BY <2>1, <3>2 DEF Accounted, Withdrawn
  <2>3. ASSUME NEW u \in Rows, rows[u] # None /\ freeze.cutoff < rows[u] /\ rows[u] <= op.asOf
        PROVE  \E e \in appendix' : e.subject = u
    BY <2>1, <2>3 DEF Inv, PassSoFar, Noted
  <2> QED BY <2>2, <2>3
<1> QED BY <1>1, Invariance, PTL DEF Spec, PassIsComplete
=============================================================================
