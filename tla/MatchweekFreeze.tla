--------------------------- MODULE MatchweekFreeze ---------------------------
(***************************************************************************)
(* The membership freeze of one Matchweek (T05), src/matchvet/matchweek.py. *)
(*                                                                         *)
(* Imports observe revisions of fixtures, again and again and sometimes     *)
(* late.  freeze_matchweek derives the research cutoff from them, decides   *)
(* who is in, publishes the manifest and writes the rows; what is observed  *)
(* after the cutoff goes to an append-only appendix, which may withdraw a   *)
(* member.  Everything but the imports' captures is written under the store *)
(* writer lock, so calls do not overlap, but any of them may die half-way.  *)
(***************************************************************************)
EXTENDS Integers, FiniteSets, FiniteSetsExt, SequencesExt

CONSTANTS
  None,
  Revisions,     \* what sources may say: a set of [fixture, kickoff, status]
  Rows,          \* source rows of unknown teams
  Ranks,         \* authority levels of sources
  Lead,          \* MATCHWEEK_LEAD_TIME
  Opens, Closes, \* the window: kickoffs from Opens on, before Closes
  Moments,       \* observation times a caller may name (as_of_utc)
  MaxTime, MaxDelay, MaxImports, MaxKills, MaxAppends

Time == 1..MaxTime
Fixtures == {r.fixture : r \in Revisions}
Subjects == Fixtures \cup Rows

ASSUME FreezeAssumption ==
  /\ Revisions \subseteq [fixture : Fixtures, kickoff : Nat \cup {None},
                          status : {"SCHEDULED", "POSTPONED", "CANCELLED", "COMPLETED"}]
  /\ Fixtures \cap Rows = {}
  /\ Ranks \subseteq 0..500    \* _authority_rank
  /\ Lead \in Nat \ {0} /\ Opens \in Nat /\ Closes \in Nat
  /\ MaxTime \in Nat \ {0} /\ MaxDelay \in Nat /\ Moments \subseteq Time

VARIABLES
  now,
  observed,   \* revision -> when it was first captured, or None (observed_at_utc)
  supports,   \* revision -> its captures: [rank, at]
  rows,       \* unresolved row -> when it was captured, or None
  manifest,   \* the published snapshot manifest with its two artifacts, or None
  freeze,     \* the freeze record with its membership rows, or None
  appendix,   \* post_cutoff_fixture_appendix
  op,         \* the call in progress
  imports, kills, appends

storeVars == <<manifest, freeze, appendix>>
sourceVars == <<now, observed, supports, rows, imports>>
vars == <<sourceVars, storeVars, op, kills, appends>>

Idle == [at |-> "idle"]

Init ==
  /\ now = 1 /\ imports = 0 /\ kills = 0 /\ appends = 0
  /\ observed = [r \in Revisions |-> None] /\ supports = [r \in Revisions |-> {}]
  /\ rows = [u \in Rows |-> None]
  /\ manifest = None /\ freeze = None /\ appendix = {} /\ op = Idle

-----------------------------------------------------------------------------
(* Reading the revisions *)

Known(f) == {r \in Revisions : r.fixture = f /\ observed[r] # None}
Candidates == {r \in Revisions : observed[r] # None}

\* valid_supports: a revision first captured after the boundary has none, even if
\* an older capture of it was imported later.
ValidSupports(r, b) ==
  {s \in supports[r] : observed[r] <= b /\ s.at <= b}

PostCutoffSupports(r, cutoff, asOf) ==
  {s \in supports[r] : cutoff < s.at /\ s.at <= asOf}

Rank(r, b) == Max({s.rank : s \in ValidSupports(r, b)})
Latest(r, b) == Max({s.at : s \in ValidSupports(r, b)})

\* _revision_key, without the digest that breaks ties.
Precedes(r, q, b) ==
  \/ Rank(r, b) < Rank(q, b)
  \/ Rank(r, b) = Rank(q, b) /\ Latest(r, b) < Latest(q, b)

\* _select_revision
Selected(f, b) ==
  LET valid == {r \in Known(f) : ValidSupports(r, b) # {}}
  IN IF valid = {} THEN None
     ELSE CHOOSE r \in valid : \A q \in valid : ~Precedes(r, q, b)

InWindow(k) == k # None /\ Opens <= k /\ k < Closes

Eligible(r) == r # None /\ r.status = "SCHEDULED" /\ InWindow(r.kickoff)

-----------------------------------------------------------------------------
(* Deriving the cutoff and the members *)

\* Six hours before the earliest kickoff of a set of revisions.
LeadOf(R) == IF R = {} THEN None ELSE Min({r.kickoff : r \in R}) - Lead

\* What the schedule known at a cutoff makes the cutoff.
Following(cutoff) ==
  LeadOf({Selected(f, cutoff) : f \in {g \in Fixtures : Eligible(Selected(g, cutoff))}})

Rounds == 8

\* _derive_cutoff: from the earliest kickoff ever announced until nothing changes,
\* a cutoff comes back, or the rounds are over; None when no fixture is left.
DerivedCutoff(asOf) ==
  LET Seed == LeadOf({r \in Candidates : ValidSupports(r, asOf) # {} /\ Eligible(r)})
      Round(s, n) ==
        LET next == Following(s.cutoff)
        IN IF s.done THEN s
           ELSE [cutoff |-> IF next # None /\ s.cutoff \in s.seen THEN s.cutoff ELSE next,
                 seen |-> s.seen \cup {s.cutoff},
                 done |-> next = None \/ next = s.cutoff \/ s.cutoff \in s.seen]
  IN FoldLeft(Round, [cutoff |-> Seed, seen |-> {}, done |-> Seed = None],
              [n \in 1..Rounds |-> n]).cutoff

StateOf(r) ==
  CASE r = None -> "EXCLUDED"
    [] r # None /\ r.kickoff = None -> "INDETERMINATE"
    [] r # None /\ r.kickoff # None -> IF Eligible(r) THEN "INCLUDED" ELSE "EXCLUDED"

\* _build_memberships: every fixture known when it runs, and the unresolved rows
\* of before the cutoff.
Members(cutoff) ==
  [s \in {f \in Fixtures : Known(f) # {}}
           \cup {u \in Rows : rows[u] # None /\ rows[u] <= cutoff} |->
     IF s \in Rows THEN [state |-> "INDETERMINATE", revision |-> None]
     ELSE [state |-> StateOf(Selected(s, cutoff)), revision |-> Selected(s, cutoff)]]

IncludedIn(members) == {s \in DOMAIN members : members[s].state = "INCLUDED"}
Kickoff(members, s) == members[s].revision.kickoff

\* _revision_snapshot_bytes: the revisions known as of a moment, with all captures
\* they have now.
Snapshot(asOf) ==
  [asOf |-> asOf,
   supports |-> [r \in {q \in Candidates : observed[q] <= asOf} |-> supports[r]]]

Stable_Ignored(cutoff, members) == IncludedIn(members) # {}

Stable(cutoff, members) ==
  /\ IncludedIn(members) # {}
  /\ cutoff = Min({Kickoff(members, s) : s \in IncludedIn(members)}) - Lead

-----------------------------------------------------------------------------
(* freeze_matchweek *)

Newest == Max({observed[r] : r \in Candidates})

Frozen(asOf) ==
  [cutoff |-> DerivedCutoff(asOf), members |-> Members(DerivedCutoff(asOf)),
   snapshot |-> Snapshot(asOf)]

MayPublish_Any(m) == TRUE

\* The snapshot identity is fixed for a Matchweek: another manifest is refused.
MayPublish(m) == manifest \in {None, m}

\* Both artifacts and the manifest are published; a kill before the manifest
\* leaves objects nobody refers to.
BeginFreeze(given) ==
  LET asOf == IF given = None THEN Newest ELSE given
      m == Frozen(asOf)
  IN /\ op = Idle /\ freeze = None /\ Candidates # {}
     /\ DerivedCutoff(asOf) # None
     /\ Stable(m.cutoff, m.members) /\ MayPublish(m)
     /\ manifest' = IF manifest = None THEN m ELSE manifest
     /\ op' = [at |-> "published", rows |-> m]
     /\ UNCHANGED <<sourceVars, freeze, appendix, kills, appends>>

\* _insert_freeze, one transaction.
InsertFreeze ==
  /\ op.at = "published"
  /\ freeze' = op.rows
  /\ op' = Idle
  /\ UNCHANGED <<sourceVars, manifest, appendix, kills, appends>>

-----------------------------------------------------------------------------
(* The post-cutoff appendix *)

Included == IF freeze = None THEN {} ELSE IncludedIn(freeze.members)

\* withdrawn_fixture_ids
Withdrawn(f) == \E e \in appendix : e.subject = f /\ e.disposition = "WITHDRAWN"

CalledOff == {"POSTPONED", "CANCELLED"}

\* What a PostCutoffValidityReview says: every condition holds, the identity has
\* changed, or anything else, no review included.
Reviews == {"passed", "identity", "other"}

Entry(subject, r, kind, disposition) ==
  [subject |-> subject, revision |-> r, kind |-> kind, disposition |-> disposition]

\* A fixture that is no target stays out, however it moves.
OutsiderEntry(r) ==
  Entry(r.fixture, r,
        IF ~InWindow(r.kickoff) THEN "REVISION_LEARNED"
        ELSE IF \E q \in Known(r.fixture) : ValidSupports(q, freeze.cutoff) # {}
             THEN "MOVED_IN" ELSE "ADDED",
        "APPENDIX_ONLY")

\* "A later reschedule cannot restore a withdrawn original membership."
WithdrawnEntry(r) ==
  Entry(r.fixture, r,
        IF r.status \in CalledOff THEN r.status
        ELSE IF r.kickoff = None THEN "REVISION_LEARNED"
        ELSE IF InWindow(r.kickoff) THEN "KICKOFF_CHANGE" ELSE "MOVED_OUT",
        "WITHDRAWN")

\* A target that still stands.
TargetEntry(r, review) ==
  IF r.status \in CalledOff THEN Entry(r.fixture, r, r.status, "WITHDRAWN")
  ELSE IF review = "identity" THEN Entry(r.fixture, r, "IDENTITY", "WITHDRAWN")
  ELSE IF r.kickoff = None \/ r.kickoff <= freeze.cutoff
       THEN Entry(r.fixture, r, "INVALID_TIMING", "WITHDRAWN")
  ELSE IF ~InWindow(r.kickoff) THEN Entry(r.fixture, r, "MOVED_OUT", "WITHDRAWN")
  ELSE IF r.kickoff # Kickoff(freeze.members, r.fixture)
       THEN Entry(r.fixture, r, "KICKOFF_CHANGE",
                  IF review = "passed" THEN "PRESERVED" ELSE "WITHDRAWN")
  ELSE Entry(r.fixture, r, "REVISION_LEARNED", "PRESERVED")

EntryFor_Restores(r, review) ==
  IF r.fixture \notin Included THEN OutsiderEntry(r) ELSE TargetEntry(r, review)

EntryFor(r, review) ==
  IF r.fixture \notin Included THEN OutsiderEntry(r)
  ELSE IF Withdrawn(r.fixture) THEN WithdrawnEntry(r)
  ELSE TargetEntry(r, review)

\* _store_appendix_entry: an event that is there already is returned as it is.
Stored(e) ==
  IF \E old \in appendix : [old EXCEPT !.disposition = e.disposition] = e
  THEN appendix ELSE appendix \cup {e}

AfterCutoff_New(r, asOf) == freeze.cutoff < observed[r] /\ observed[r] <= asOf

\* Observed after the cutoff, for the first time or again.
AfterCutoff(r, asOf) ==
  \/ PostCutoffSupports(r, freeze.cutoff, asOf) # {}
  \/ freeze.cutoff < observed[r] /\ observed[r] <= asOf

\* append_post_cutoff_revision
AppendRevision(r, asOf, review) ==
  /\ op = Idle /\ freeze # None /\ appends < MaxAppends
  /\ r \in Candidates /\ observed[r] <= asOf /\ AfterCutoff(r, asOf)
  /\ appendix' = Stored(EntryFor(r, review))
  /\ appends' = appends + 1
  /\ UNCHANGED <<sourceVars, manifest, freeze, op, kills>>

\* append_post_cutoff_changes: one transaction for every revision, the ones
\* observed first after the cutoff first, and then for every unresolved row.
BeginChanges(asOf) ==
  /\ op = Idle /\ freeze # None /\ appends < MaxAppends
  /\ op' = [at |-> "appending", asOf |-> asOf,
            todo |-> {r \in Candidates : AfterCutoff(r, asOf)},
            rows |-> {u \in Rows : rows[u] # None /\ freeze.cutoff < rows[u] /\ rows[u] <= asOf}]
  /\ appends' = appends + 1
  /\ UNCHANGED <<sourceVars, storeVars, kills>>

\* _post_cutoff_observation
FirstAfter(r, asOf) ==
  LET post == PostCutoffSupports(r, freeze.cutoff, asOf)
  IN IF post = {} THEN observed[r] ELSE Min({s.at : s \in post})

AppendNext(r, review) ==
  /\ op.at = "appending" /\ r \in op.todo
  /\ \A q \in op.todo : FirstAfter(r, op.asOf) <= FirstAfter(q, op.asOf)
  /\ observed[r] <= op.asOf
  /\ appendix' = Stored(EntryFor(r, review))
  /\ op' = [op EXCEPT !.todo = @ \ {r}]
  /\ UNCHANGED <<sourceVars, manifest, freeze, kills, appends>>

\* A revision first captured after that moment, of which an older capture was
\* imported later: MV-T05-REVISION_NOT_AVAILABLE ends the pass.
RefusePass ==
  /\ op.at = "appending"
  /\ \E r \in op.todo :
       /\ \A q \in op.todo : FirstAfter(r, op.asOf) <= FirstAfter(q, op.asOf)
       /\ observed[r] > op.asOf
  /\ op' = Idle
  /\ UNCHANGED <<sourceVars, storeVars, kills, appends>>

AppendRow(u) ==
  /\ op.at = "appending" /\ op.todo = {} /\ u \in op.rows
  /\ appendix' = Stored(Entry(u, None, "IDENTITY", "APPENDIX_ONLY"))
  /\ op' = [op EXCEPT !.rows = @ \ {u}]
  /\ UNCHANGED <<sourceVars, manifest, freeze, kills, appends>>

EndChanges ==
  /\ op.at = "appending" /\ op.todo = {} /\ op.rows = {}
  /\ op' = Idle
  /\ UNCHANGED <<sourceVars, storeVars, kills, appends>>

-----------------------------------------------------------------------------
(* The imports and the clock *)

Retrieved == {t \in Time : now - MaxDelay <= t /\ t <= now}

\* FixtureHistoryImporter._import_row: what is said again is the same revision
\* with one more capture.
Import(r, rank, t) ==
  /\ op = Idle /\ imports < MaxImports
  /\ [rank |-> rank, at |-> t] \notin supports[r]
  /\ observed' = [observed EXCEPT ![r] = IF @ = None THEN t ELSE @]
  /\ supports' = [supports EXCEPT ![r] = @ \cup {[rank |-> rank, at |-> t]}]
  /\ imports' = imports + 1
  /\ UNCHANGED <<now, rows, storeVars, op, kills, appends>>

ImportRow(u, t) ==
  /\ op = Idle /\ imports < MaxImports /\ rows[u] = None
  /\ rows' = [rows EXCEPT ![u] = t]
  /\ imports' = imports + 1
  /\ UNCHANGED <<now, observed, supports, storeVars, op, kills, appends>>

Tick ==
  /\ op = Idle /\ now < MaxTime
  /\ now' = now + 1
  /\ UNCHANGED <<observed, supports, rows, imports, storeVars, op, kills, appends>>

Kill ==
  /\ op # Idle /\ kills < MaxKills
  /\ op' = Idle /\ kills' = kills + 1
  /\ UNCHANGED <<sourceVars, storeVars, appends>>

Next ==
  \/ \E given \in Moments \cup {None} : BeginFreeze(given)
  \/ InsertFreeze
  \/ \E r \in Revisions, asOf \in Moments, review \in Reviews : AppendRevision(r, asOf, review)
  \/ \E asOf \in Moments : BeginChanges(asOf)
  \/ \E r \in Revisions, review \in Reviews : AppendNext(r, review)
  \/ \E u \in Rows : AppendRow(u)
  \/ RefusePass \/ EndChanges
  \/ \E r \in Revisions, rank \in Ranks, t \in Retrieved : Import(r, rank, t)
  \/ \E u \in Rows, t \in Retrieved : ImportRow(u, t)
  \/ Tick \/ Kill

Spec == Init /\ [][Next]_vars

-----------------------------------------------------------------------------
(* Properties *)

\* "The cutoff is created once, at six hours before the earliest cutoff-valid
\* INCLUDED kickoff": however often the schedule went back and forth, no member
\* rests on evidence from after the cutoff its own kickoff has set.
CutoffLeadsMembers ==
  freeze # None =>
    /\ Included # {}
    /\ \A f \in Included :
         LET r == freeze.members[f].revision
         IN /\ freeze.cutoff + Lead <= r.kickoff
            /\ observed[r] <= freeze.cutoff
            /\ \E s \in supports[r] : s.at <= freeze.cutoff
    /\ \E f \in Included : Kickoff(freeze.members, f) = freeze.cutoff + Lead

\* "Historical replay verifies that manifest, loads the stored membership
\* artifact, and resolves only each frozen revision": rows and manifest agree even
\* when the process died between them and the sources had changed when the freeze
\* was tried again, and the frozen revisions are there.
FreezeIsReplayable ==
  freeze # None =>
    /\ manifest = freeze
    /\ \A s \in DOMAIN freeze.members :
         freeze.members[s].revision # None => observed[freeze.members[s].revision] # None

\* "A later reschedule cannot restore a withdrawn original membership": no entry
\* after a withdrawal preserves the fixture, in whatever order revisions, reviews,
\* single appends and interrupted passes come.
WithdrawalIsFinal ==
  [][\A f \in Fixtures : Withdrawn(f) =>
       /\ Withdrawn(f)'
       /\ \A e \in appendix' \ appendix : e.subject = f => e.disposition = "WITHDRAWN"]_vars

\* A target that cannot be played as frozen.
Lost(r) ==
  r.status \in CalledOff \/ ~InWindow(r.kickoff) \/ r.kickoff <= freeze.cutoff

\* When a pass over the changes ends, after whatever interruptions, every target
\* that any revision observed after the cutoff, or observed again, shows lost is
\* withdrawn, and every other revision and row of that time has its entry.
PassIsComplete ==
  [][op.at = "appending" /\ EndChanges =>
       /\ \A r \in Candidates :
            (\E s \in supports[r] : freeze.cutoff < s.at /\ s.at <= op.asOf) =>
              /\ \E e \in appendix' : e.revision = r
              /\ r.fixture \in Included /\ Lost(r) => Withdrawn(r.fixture)'
       /\ \A u \in Rows : rows[u] # None /\ freeze.cutoff < rows[u] /\ rows[u] <= op.asOf =>
            \E e \in appendix' : e.subject = u]_vars
=============================================================================
