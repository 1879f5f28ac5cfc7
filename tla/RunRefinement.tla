---------------------------- MODULE RunRefinement ----------------------------
(***************************************************************************)
(* RunLifecycle implements ResumableRun: the ledger of a run is its        *)
(* checkpoint outputs in phase order, and the seal is the list of outputs  *)
(* in its published completion.                                            *)
(***************************************************************************)
EXTENDS RunLifecycle, Sequences

\* The null value is not a matchweek with a contract.
ASSUME SubjectAssumption == NoRun \notin Matchweeks \X Contracts

Subject(r) ==
  IF runs[r].state = "ABSENT" THEN NoRun ELSE <<runs[r].mw, runs[r].contract>>

\* A function whose domain is 1..n is a sequence: this is well formed because
\* checkpoints form a prefix (CheckpointChain).
Ledger(r) == [i \in Checkpointed(r) |-> ckpts[<<r, i>>].output]

Promise == INSTANCE ResumableRun WITH
  Subjects <- Matchweeks \X Contracts,
  Outputs  <- Results,
  Unopened <- NoRun,
  subject  <- [r \in RunIds |-> Subject(r)],
  ledger   <- [r \in RunIds |-> Ledger(r)],
  sealed   <- [r \in RunIds |-> {c.outputs : c \in completions[r]}]

\* The coordinator, with all its crashes, exceptions, retries and resumes,
\* behaves as the ledger does.
KeepsItsPromise == Promise!Spec
=============================================================================
