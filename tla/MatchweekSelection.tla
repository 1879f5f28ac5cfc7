--------------------------- MODULE MatchweekSelection ---------------------------
(***************************************************************************)
(* The selection of one complete result graph per Matchweek:               *)
(* matchweek_research.py (protocol v1, a trusted UTC upper bound),         *)
(* causal_selection.py (protocol v2, one external witness) and the         *)
(* _ResearchOperation of store.py both run through, with the guards that    *)
(* candidate work passes in artifacts.py and causal_candidate.py.           *)
(*                                                                         *)
(* A candidate is the context a graph is made in: for v1 a freeze and a    *)
(* corrected cutoff policy, for v2 an explicit descriptor; legacy research  *)
(* has another cutoff rule and cannot be selected.  The writer lock makes   *)
(* one process enough; it may die at any step.  Time is true UTC.           *)
(***************************************************************************)
EXTENDS Integers

CONSTANTS
  Weeks, Candidates,
  Week,      \* candidate -> logical Matchweek
  Contract,  \* candidate -> "legacy", "v1" or "v2"
  Cutoff,    \* candidate -> T, the common cutoff of its boundary
  Variants,  \* complete graphs that one candidate may come to
  None,      \* null value
  MaxTime,   \* bound: true time
  MaxRecords \* bound: records the owner appends

ASSUME TimesAssumption == MaxTime \in Nat /\ MaxRecords \in Nat
ASSUME CandidatesAssumption ==
  /\ Week \in [Candidates -> Weeks]
  /\ Contract \in [Candidates -> {"legacy", "v1", "v2"}]
  /\ Cutoff \in [Candidates -> Nat]

Graphs == [of : Candidates, variant : Variants]
Selections == [graph : Graphs, at : Nat]
Receipts == [upper : Nat, record : Nat]

ASSUME NullAssumption ==
  None \notin Candidates \cup Graphs \cup Selections \cup Receipts \cup Nat

VARIABLES
  now,       \* true UTC
  work,      \* candidates that have admitted artifacts or a run
  graphs,    \* complete F16 manifests in the catalog
  selection, \* week -> the manifest in its selection slot, with its commit time
  receipt,   \* week -> the manifest in its completion slot
  owner,     \* the external owner's history: its last record, withdrawn from
  pc,        \* the call in progress; from "fresh" on, phases of _ResearchOperation
  op         \* its locals

vars == <<now, work, graphs, selection, receipt, owner, pc, op>>
tables == <<work, graphs, selection, receipt>>

Phases == {"fresh", "selection_attempt", "selection_insert", "selection_committed",
           "witness_attempt", "sent", "stamped", "acknowledged",
           "receipt_attempt", "receipt_insert"}
Occupying == Phases \ {"fresh", "selection_attempt", "selection_insert"}

NoOp == [graph |-> None, candidate |-> None, bound |-> 0, upper |-> 0, record |-> 0]

Init ==
  /\ now = 0
  /\ work = {} /\ graphs = {}
  /\ selection = [w \in Weeks |-> None]
  /\ receipt = [w \in Weeks |-> None]
  /\ owner = [record |-> 1, withdrawn |-> None]
  /\ pc = "down" /\ op = NoOp

-----------------------------------------------------------------------------
(* Shared checks *)

\* snapshot_manifest_digest_for_snapshot(selection_slot(...)) is None.
SlotFree(w) == selection[w] = None

\* check_occupancy that looks for its own contract only.
Conflicts_SameContract(c) ==
  {d \in work \ {c} : Week[d] = Week[c] /\ Contract[d] = Contract[c]
                      /\ Contract[c] # "legacy"}

\* check_occupancy and _require_candidate_identity: a v2 candidate admits no
\* other work in its week, v1 no v2 and no other v1, legacy no v2.
Conflicts(c) ==
  {d \in work \ {c} :
     /\ Week[d] = Week[c]
     /\ \/ "v2" \in {Contract[c], Contract[d]}
        \/ Contract[c] = "v1" /\ Contract[d] = "v1"}

\* _observe: the provider returns an upper bound of true UTC and never goes back.
Observed(b) == b \in now..MaxTime /\ b >= op.bound

\* _require_before.
Before(b, c) == Observed(b) /\ b < Cutoff[c]

\* The guard of candidate_artifacts.  v2 has an advisory clock only.
GateOpen(b, c) ==
  /\ Conflicts(c) = {}
  /\ SlotFree(Week[c])
  /\ Contract[c] = "v1" => Before(b, c)

\* _require_current: the owner has appended nothing since the operation began.
OwnerIsCurrent == owner.withdrawn = None /\ owner.record = op.record

CandidateOf == op.graph.of
OpWeek == Week[op.graph.of]

-----------------------------------------------------------------------------
(* Candidate work: ArtifactStore.publish_artifact under candidate_artifacts *)

\* The guards before the object is published and before the transaction.
WriteBegin(c, b) ==
  /\ pc = "idle"
  /\ GateOpen(b, c)
  /\ pc' = "writing"
  /\ op' = [op EXCEPT !.candidate = c, !.bound = b]
  /\ UNCHANGED <<now, tables, owner>>

\* The guard inside the catalog transaction.
WriteGuard(b) ==
  /\ pc = "writing"
  /\ GateOpen(b, op.candidate)
  /\ pc' = "committing"
  /\ op' = [op EXCEPT !.bound = b]
  /\ UNCHANGED <<now, tables, owner>>

\* The commit, after which publish_artifact returns and checks nothing more.  The
\* artifact is part of the work, or an F16 manifest over it.
WriteCommit ==
  /\ pc = "committing"
  /\ pc' = "returned"
  /\ work' = work \cup {op.candidate}
  /\ \E new \in {{}} \cup {{g} : g \in {h \in Graphs : h.of = op.candidate}} :
       graphs' = graphs \cup new
  /\ UNCHANGED <<now, selection, receipt, owner, op>>

\* require_candidate_write again, in the stage that published.
WriterChecks(b) ==
  /\ pc = "returned"
  /\ GateOpen(b, op.candidate)
  /\ pc' = "idle" /\ op' = NoOp
  /\ UNCHANGED <<now, tables, owner>>

-----------------------------------------------------------------------------
(* seal_completed and seal_completed_v2 *)

\* A retry that takes up an occupied slot where the dead operation stopped.
OpenOperation_Adopts(g) ==
  /\ pc = "idle"
  /\ g \in graphs
  /\ Contract[g.of] = "v1"
  /\ \/ SlotFree(Week[g.of]) /\ pc' = "fresh"
     \/ /\ ~SlotFree(Week[g.of])
        /\ receipt[Week[g.of]] = None
        /\ selection[Week[g.of]].graph = g
        /\ pc' = "selection_committed"
  /\ op' = [NoOp EXCEPT !.graph = g]
  /\ UNCHANGED <<now, tables, owner>>

\* Admission up to _research_operation.  An occupied slot is only replayed, which
\* changes nothing; v2 loads the owner's approval and wants a free receipt slot.
OpenOperation(g) ==
  /\ pc = "idle"
  /\ g \in graphs
  /\ SlotFree(Week[g.of])
  /\ \/ Contract[g.of] = "v1"
     \/ /\ Contract[g.of] = "v2"
        /\ receipt[Week[g.of]] = None
        /\ owner.withdrawn = None
  /\ pc' = "fresh"
  /\ op' = [NoOp EXCEPT !.graph = g, !.record = owner.record]
  /\ UNCHANGED <<now, tables, owner>>

\* created = _require_before (v1), then _start("selection"); v2 has no clock here.
StartSelection(b) ==
  /\ pc = "fresh"
  /\ Contract[CandidateOf] = "v1" => Before(b, CandidateOf)
  /\ pc' = "selection_attempt"
  /\ op' = [op EXCEPT !.bound = IF Contract[CandidateOf] = "v1" THEN b ELSE @]
  /\ UNCHANGED <<now, tables, owner>>

\* The object and its graph are synced; _before_commit asks the clock again.
BeforeCommit(b) ==
  /\ pc = "selection_attempt"
  /\ Contract[CandidateOf] = "v1" => Before(b, CandidateOf)
  /\ pc' = "selection_insert"
  /\ op' = [op EXCEPT !.bound = IF Contract[CandidateOf] = "v1" THEN b ELSE @]
  /\ UNCHANGED <<now, tables, owner>>

\* The protected transaction with _authorize_insert, then _committed.
CommitSelection ==
  /\ pc = "selection_insert"
  /\ SlotFree(OpWeek)
  /\ Contract[CandidateOf] = "v2" => receipt[OpWeek] = None
  /\ pc' = "selection_committed"
  /\ selection' = [selection EXCEPT ![OpWeek] = [graph |-> op.graph, at |-> now]]
  /\ UNCHANGED <<now, work, graphs, receipt, owner, op>>

\* The bound taken before the commit acknowledges it.
Acknowledge_Precommit(b) ==
  /\ pc = "selection_committed"
  /\ Contract[CandidateOf] = "v1"
  /\ b = op.bound
  /\ pc' = "acknowledged"
  /\ op' = [op EXCEPT !.upper = b]
  /\ UNCHANGED <<now, tables, owner>>

\* v1: a bound taken after the commit, strictly before the cutoff.
Acknowledge(b) ==
  /\ pc = "selection_committed"
  /\ Contract[CandidateOf] = "v1"
  /\ Before(b, CandidateOf)
  /\ pc' = "acknowledged"
  /\ op' = [op EXCEPT !.bound = b, !.upper = b]
  /\ UNCHANGED <<now, tables, owner>>

\* v2: _begin_witness consumes the only attempt and draws the nonce.
BeginWitness ==
  /\ pc = "selection_committed"
  /\ Contract[CandidateOf] = "v2"
  /\ pc' = "witness_attempt"
  /\ UNCHANGED <<now, tables, owner, op>>

\* _obtain dispatches the request under the approval it began with.
Send ==
  /\ pc = "witness_attempt"
  /\ OwnerIsCurrent
  /\ pc' = "sent"
  /\ UNCHANGED <<now, tables, owner, op>>

\* The time-stamping authority signs the request; its interval contains that
\* moment.  The nonce ties the answer to this very attempt.
WitnessStamps(u) ==
  /\ pc = "sent"
  /\ u \in now..MaxTime
  /\ pc' = "stamped"
  /\ op' = [op EXCEPT !.upper = u]
  /\ UNCHANGED <<now, tables, owner>>

\* _accept_witness, whenever the answer arrives.
AcceptWitness ==
  /\ pc = "stamped"
  /\ op.upper < Cutoff[CandidateOf]
  /\ pc' = "acknowledged"
  /\ UNCHANGED <<now, tables, owner, op>>

\* _start("receipt") consumes the authority before anything is staged.
StartReceipt ==
  /\ pc = "acknowledged"
  /\ pc' = "receipt_attempt"
  /\ UNCHANGED <<now, tables, owner, op>>

\* _authorize_insert for the receipt; v2 reloads the owner's state.
InsertReceipt ==
  /\ pc = "receipt_attempt"
  /\ receipt[OpWeek] = None
  /\ Contract[CandidateOf] = "v2" => OwnerIsCurrent
  /\ pc' = "receipt_insert"
  /\ UNCHANGED <<now, tables, owner, op>>

CommitReceipt ==
  /\ pc = "receipt_insert"
  /\ receipt' = [receipt EXCEPT ![OpWeek] = [upper |-> op.upper, record |-> op.record]]
  /\ pc' = "idle" /\ op' = NoOp
  /\ UNCHANGED <<now, work, graphs, selection, owner>>

-----------------------------------------------------------------------------
(* Failures and the environment *)

\* A refusal or error anywhere: the exception revokes the operation.
Fail ==
  /\ pc \notin {"down", "idle"}
  /\ pc' = "idle" /\ op' = NoOp
  /\ UNCHANGED <<now, tables, owner>>

Start ==
  /\ pc = "down"
  /\ pc' = "idle"
  /\ UNCHANGED <<now, tables, owner, op>>

Die ==
  /\ pc # "down"
  /\ pc' = "down" /\ op' = NoOp
  /\ UNCHANGED <<now, tables, owner>>

Tick ==
  /\ now < MaxTime
  /\ now' = now + 1
  /\ UNCHANGED <<tables, owner, pc, op>>

\* admit and reconcile.
OwnerAppends ==
  /\ owner.record < MaxRecords
  /\ owner' = [owner EXCEPT !.record = @ + 1]
  /\ UNCHANGED <<now, tables, pc, op>>

\* A withdrawal appends exact adverse evidence once.
OwnerWithdraws(t) ==
  /\ owner.record < MaxRecords
  /\ owner.withdrawn = None
  /\ owner' = [record |-> owner.record + 1, withdrawn |-> t]
  /\ UNCHANGED <<now, tables, pc, op>>

Next ==
  \/ \E c \in Candidates, b \in 0..MaxTime : WriteBegin(c, b)
  \/ \E b \in 0..MaxTime : WriteGuard(b) \/ WriterChecks(b) \/ StartSelection(b)
                           \/ BeforeCommit(b) \/ Acknowledge(b)
                           \/ WitnessStamps(b)
  \/ WriteCommit
  \/ \E g \in Graphs : OpenOperation(g)
  \/ CommitSelection \/ BeginWitness \/ Send \/ AcceptWitness
  \/ StartReceipt \/ InsertReceipt \/ CommitReceipt
  \/ Fail \/ Start \/ Die \/ Tick
  \/ OwnerAppends \/ \E t \in 0..MaxTime : OwnerWithdraws(t)

Spec == Init /\ [][Next]_vars

-----------------------------------------------------------------------------
(* Qualification *)

\* A reader that requires the approval of the receipt to be the owner's last.
Qualified_LastRecord(w) ==
  /\ selection[w] # None /\ receipt[w] # None
  /\ receipt[w].upper < Cutoff[selection[w].graph.of]
  /\ Contract[selection[w].graph.of] = "v2" =>
       receipt[w].record = owner.record /\ owner.withdrawn = None

\* replay and _verify_receipt: when the indexed selection of a week counts.
Qualified(w) ==
  /\ selection[w] # None /\ receipt[w] # None
  /\ receipt[w].upper < Cutoff[selection[w].graph.of]
  /\ Contract[selection[w].graph.of] = "v2" =>
       owner.withdrawn = None \/ receipt[w].upper < owner.withdrawn

-----------------------------------------------------------------------------
(* Properties *)

Ops == [graph : Graphs \cup {None}, candidate : Candidates \cup {None},
        bound : Nat, upper : Nat, record : Nat]

\* The shape of the slots, of the owner's history and of the call in progress.
TypeOK ==
  /\ now \in Nat
  /\ work \subseteq Candidates /\ graphs \subseteq Graphs
  /\ selection \in [Weeks -> Selections \cup {None}]
  /\ receipt \in [Weeks -> Receipts \cup {None}]
  /\ owner \in [record : Nat, withdrawn : Nat \cup {None}]
  /\ pc \in Phases \cup {"down", "idle", "writing", "committing", "returned"}
  /\ op \in Ops
  /\ pc \in Phases => op.graph \in Graphs
  /\ pc \in {"writing", "committing", "returned"} => op.candidate \in Candidates

\* The point of both protocols: a qualified selection had really been committed
\* before the cutoff of its Matchweek, whatever the clock, delays and restarts.
QualifiedWasInTime ==
  \A w \in Weeks : Qualified(w) => selection[w].at < Cutoff[selection[w].graph.of]

\* Whatever was interrupted, a v2 candidate with admitted work is alone in its
\* Matchweek and a v1 candidate is the only v1 one; and the selection belongs to
\* an admitted graph.
OneCandidateChain ==
  /\ \A c, d \in work :
       c # d /\ Week[c] = Week[d] =>
         "v2" \notin {Contract[c], Contract[d]} /\ "legacy" \in {Contract[c], Contract[d]}
  /\ \A w \in Weeks : selection[w] # None => selection[w].graph \in graphs

\* The first committed selection and receipt of a Matchweek stay for ever.
SelectionIsFinal ==
  [][\A w \in Weeks : /\ selection[w] # None => selection'[w] = selection[w]
                      /\ receipt[w] # None => receipt'[w] = receipt[w]]_vars

\* An occupied slot that its operation left unqualified is terminal: no retry,
\* restart, later bound or owner record ever qualifies it (ADR 0003).
Terminal(w) ==
  /\ selection[w] # None
  /\ ~(pc \in Occupying /\ OpWeek = w)
  /\ ~Qualified(w)

NeverQualifiedLater == [][\A w \in Weeks : Terminal(w) => Terminal(w)']_vars

\* What is qualified stays so after its cutoff, crashes and new owner records;
\* only a withdrawal that reaches back to the witnessed event ends it.
OnlyWithdrawalDisqualifies ==
  [][\A w \in Weeks : Qualified(w) /\ ~Qualified(w)' =>
       /\ owner.withdrawn = None
       /\ owner'.withdrawn # None /\ owner'.withdrawn <= receipt[w].upper]_vars
=============================================================================
