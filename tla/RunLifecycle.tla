----------------------------- MODULE RunLifecycle -----------------------------
(***************************************************************************)
(* The checkpointed research run of src/matchvet/runs.py: RunCoordinator,  *)
(* its SQLite tables (_RunRepository), the writer lock of store.py and the *)
(* processes that own them.                                                *)
(*                                                                         *)
(* A process opens the store by taking the exclusive writer lock, then     *)
(* starts or resumes a run.  A run is a fixed list of phases; each phase   *)
(* is attempted until one attempt checkpoints, and the run completes when  *)
(* every phase has a checkpoint.  One action is one SQLite transaction or  *)
(* one step between two of them, so a process may die (Die) or an          *)
(* exception may leave the coordinator (RaiseOut) at every point where the *)
(* tables are visible to somebody else.                                    *)
(***************************************************************************)
EXTENDS Integers, FiniteSets

CONSTANTS
  Pids,            \* kernel process numbers; a number is reused after death
  RunIds,          \* CanonicalIdentifier.new("research_run"): never repeated
  Matchweeks,      \* the Friday keys given to `matchvet run`
  Contracts,       \* RunInputContract values, told apart by aggregate_digest
  Results,         \* WorkResult values; each names one output artifact
  NumPhases,       \* len(RUN_PHASES), 7 in the code
  HardLimit,       \* ResourceBudget.hard_duration_seconds
  Guards,          \* whether coordinators may carry a write_guard
  StatReadable,    \* /proc/<pid>/stat can be read for a live process
  NoRun, NoResult, \* null values
  MaxSpawns,       \* bound: processes ever started
  MaxAttempts,     \* bound: attempts of one work unit
  MaxTime,         \* bound: the clock
  MaxRot           \* bound: artifacts damaged on disk

ASSUME BoundsAssumption ==
  /\ NumPhases \in Nat \ {0}
  /\ HardLimit \in Nat
  /\ MaxSpawns \in Nat
  /\ MaxAttempts \in Nat
  /\ MaxTime \in Nat
  /\ MaxRot \in Nat
  /\ Guards \subseteq BOOLEAN
  /\ StatReadable \in BOOLEAN

ASSUME NullAssumption == NoRun \notin RunIds /\ NoResult \notin Results

Phases == 1..NumPhases
Tries  == 1..MaxAttempts
Time   == 0..MaxTime
Spawns == 0..MaxSpawns

\* start_ticks == "unknown" when /proc/<pid>/stat cannot be read.
Unknown == -1

Tokens == Pids \X (Spawns \cup {Unknown})

VARIABLES
  pc,          \* where each process is
  ses,         \* the locals of its start() or resume() call
  ticks,       \* the kernel's start time of the process that last had the pid
  spawned,     \* processes started so far
  lock,        \* holder of .matchvet-writer.lock, or the empty set
  gate,        \* the write_guard of candidate research: TRUE while it admits
  runs,        \* table research_runs
  units,       \* table run_work_units
  attempts,    \* table run_attempts
  ckpts,       \* table run_checkpoints
  completions, \* table run_completions with its publication
  published,   \* completion artifacts in the artifact catalog
  rotten,      \* catalogued artifacts whose verification fails
  now          \* the clock

procVars  == <<pc, ses, ticks, spawned, lock>>
tables    == <<runs, units, attempts, ckpts, completions, published>>
envVars   == <<gate, rotten, now>>
vars      == <<pc, ses, ticks, spawned, lock, gate, runs, units, attempts,
               ckpts, completions, published, rotten, now>>

-----------------------------------------------------------------------------
(* Rows and their states *)

RunStates     == {"ABSENT", "INCOMPLETE", "COMPLETE"}
ReuseStates   == {"NOT_REUSED", "NONE", "REUSABLE", "REUSED", "BLOCKED"}
UnitStates    == {"PENDING", "RUNNING", "COMPLETE"}
AttemptStates == {"ABSENT", "RUNNING", "COMPLETED", "INTERRUPTED", "FAILED"}
Digests       == Contracts \cup Results

NoToken   == <<"none", Unknown>>
NoRow     == [state |-> "ABSENT"]
NoAttempt == [status |-> "ABSENT", owner |-> NoToken, started |-> 0, elapsed |-> 0]
NoCkpt    == [present |-> FALSE]

RunRows == [state : {"INCOMPLETE", "COMPLETE"}, mw : Matchweeks,
            contract : Contracts, phase : Phases, last : 0..NumPhases,
            elapsed : Nat, reuse : ReuseStates]
AttemptRows == [status : AttemptStates, owner : Tokens \cup {NoToken}, started : Time,
                elapsed : Nat]
CompletionDocs == [run : RunIds, contract : Contracts,
                   outputs : UNION {[done -> Results] : done \in SUBSET Phases}]
CkptRows == [present : {TRUE}, attempt : Tries,
             input : Contracts \X Phases \X Digests, output : Results]

Keys == RunIds \X Phases \X Tries

Present(r, i) == ckpts[<<r, i>>].present
Checkpointed(r) == {i \in Phases : Present(r, i)}
Running == {k \in Keys : attempts[k].status = "RUNNING"}

\* _work_input_digest: SHA-256 is injective, so the digest is its preimage.
WorkInput(contract, phase, predecessor) == <<contract, phase, predecessor>>

\* The output digest covers the result digest and its artifact digests.
OutputDigest(result) == result

\* What the checkpoint of phase i of run r must have been computed from: the
\* contract's own predecessor digest, or the output of the phase before.
Predecessor(r, i) ==
  IF i = 1 THEN runs[r].contract ELSE ckpts[<<r, i - 1>>].output

-----------------------------------------------------------------------------
(* Processes and their identity *)

\* What this session knows: the locals of start(), resume() and _execute().
NoSession == [op |-> "none", run |-> NoRun, mw |-> "none", contract |-> "none",
              guarded |-> FALSE, todo |-> {}, pred |-> NoResult, phase |-> 0,
              attempt |-> 0, began |-> 0, started |-> 0, ended |-> 0,
              result |-> NoResult, outcome |-> "none"]

OpenPcs == {"idle", "called", "swept", "executing", "working", "returned",
            "stopping", "completing", "recovery"}
BusyPcs == OpenPcs \ {"idle", "recovery"}

Token(p) == <<p, IF StatReadable /\ pc[p] # "dead" THEN ticks[p] ELSE Unknown>>

TokenIsAlive_Coordinating(token) == Token(token[1]) = token /\ pc[token[1]] \in BusyPcs

TokenIsAlive(token) == Token(token[1]) = token

GateAdmits(p) == ses[p].guarded => gate

Goto(p, where, session) ==
  /\ pc' = [pc EXCEPT ![p] = where]
  /\ ses' = [ses EXCEPT ![p] = session]

\* start() or resume() returns or raises; the store stays open.
Leave(p) == Goto(p, "idle", NoSession)

Init ==
  /\ pc = [p \in Pids |-> "dead"]
  /\ ses = [p \in Pids |-> NoSession]
  /\ ticks = [p \in Pids |-> 0]
  /\ spawned = 0
  /\ lock = {}
  /\ gate = TRUE
  /\ runs = [r \in RunIds |-> NoRow]
  /\ units = [k \in RunIds \X Phases |-> [state |-> "PENDING", count |-> 0]]
  /\ attempts = [k \in Keys |-> NoAttempt]
  /\ ckpts = [k \in RunIds \X Phases |-> NoCkpt]
  /\ completions = [r \in RunIds |-> {}]
  /\ published = {}
  /\ rotten = {}
  /\ now = 0

\* A new process gets a pid nobody alive has and a start time never used.
Spawn(p) ==
  /\ pc[p] = "dead"
  /\ spawned < MaxSpawns
  /\ spawned' = spawned + 1
  /\ ticks' = [ticks EXCEPT ![p] = spawned + 1]
  /\ Goto(p, "started", NoSession)
  /\ UNCHANGED <<lock, tables, envVars>>

\* open_store: flock(LOCK_EX | LOCK_NB); a busy lock raises StoreBusyError and
\* changes nothing.  Every catalogued object is verified before writes are
\* allowed.
OpenStore(p) ==
  /\ pc[p] = "started"
  /\ lock = {}
  /\ rotten = {}
  /\ lock' = {p}
  /\ Goto(p, "idle", NoSession)
  /\ UNCHANGED <<ticks, spawned, tables, envVars>>

\* MV-STORE-ACTIVE_ARTIFACT_FAILED: the store is returned in
\* READ_ONLY_RECOVERY with the lock held, and every write raises.
OpenRecovery(p) ==
  /\ pc[p] = "started"
  /\ lock = {}
  /\ rotten # {}
  /\ lock' = {p}
  /\ Goto(p, "recovery", NoSession)
  /\ UNCHANGED <<ticks, spawned, tables, envVars>>

CloseStore(p) ==
  /\ pc[p] \in {"idle", "recovery"}
  /\ lock' = {}
  /\ Goto(p, "started", NoSession)
  /\ UNCHANGED <<ticks, spawned, tables, envVars>>

\* Exit, kill or power loss.  The kernel drops the flock with the process.
Die(p) ==
  /\ pc[p] # "dead"
  /\ lock' = lock \ {p}
  /\ Goto(p, "dead", NoSession)
  /\ UNCHANGED <<ticks, spawned, tables, envVars>>

\* An exception that _execute does not turn into a finished attempt: a write
\* guard that refuses before or after a commit, a database error outside the
\* checkpoint, a KeyboardInterrupt between two statements.
RaiseOut(p) ==
  /\ pc[p] \in BusyPcs
  /\ Leave(p)
  /\ UNCHANGED <<ticks, spawned, lock, tables, envVars>>

-----------------------------------------------------------------------------
(* start() and resume() up to the first attempt *)

InputsVerify(contract) == contract \notin rotten

\* start: guard, preflight, staging discard, then _verify_input_artifacts.
\* A refusal by any of them changes nothing and is not an action.  The bound
\* of RunIds is here.
CallStart(p, mw, c, g) ==
  /\ pc[p] = "idle"
  /\ \E r \in RunIds : runs[r].state = "ABSENT"
  /\ g => gate
  /\ InputsVerify(c)
  /\ Goto(p, "called", [NoSession EXCEPT !.op = "start", !.mw = mw,
                                         !.contract = c, !.guarded = g])
  /\ UNCHANGED <<ticks, spawned, lock, tables, envVars>>

\* resume: guard, preflight and staging discard.  The attempt bound is here.
CallResume(p, r, c, g) ==
  /\ pc[p] = "idle"
  /\ g => gate
  /\ \A i \in Phases : units[<<r, i>>].count < MaxAttempts
  /\ Goto(p, "called", [NoSession EXCEPT !.op = "resume", !.run = r,
                                         !.contract = c, !.guarded = g])
  /\ UNCHANGED <<ticks, spawned, lock, tables, envVars>>

\* interrupt_abandoned finds a RUNNING attempt whose owner is alive: the call
\* is refused with MV-RUN-COORDINATOR_BUSY.
RefuseBusy(p) ==
  /\ pc[p] = "called"
  /\ \E k \in Running : TokenIsAlive(attempts[k].owner)
  /\ Leave(p)
  /\ UNCHANGED <<ticks, spawned, lock, tables, envVars>>

\* elapsed_by_run: the wall-clock time since the RUNNING attempts of r started.
\* The sum has one term, because AtMostOneRunning holds.
AbandonedCost_Uncharged(r) == 0

AbandonedCost(r) == now - attempts[CHOOSE k \in Running : k[1] = r].started

\* A work unit whose attempt ended without a checkpoint.
Reopened_Forgotten(unit) == unit

Reopened(unit) == [unit EXCEPT !.state = "PENDING"]

\* A recovery that looks for live owners and leaves the dead ones alone.
InterruptAbandoned_OnlyLooks(p) ==
  /\ pc[p] = "called"
  /\ \A k \in Running : ~TokenIsAlive(attempts[k].owner)
  /\ Goto(p, "swept", ses[p])
  /\ UNCHANGED <<ticks, spawned, lock, tables, envVars>>

\* interrupt_abandoned: every RUNNING attempt belongs to a dead process.  All
\* are closed in one transaction.
InterruptAbandoned(p) ==
  LET touched == {k[1] : k \in Running} IN
  /\ pc[p] = "called"
  /\ \A k \in Running : ~TokenIsAlive(attempts[k].owner)
  /\ Running # {} => GateAdmits(p)
  /\ attempts' = [k \in Keys |->
       IF k \in Running
       THEN [attempts[k] EXCEPT !.status = "INTERRUPTED",
                                !.elapsed = now - attempts[k].started]
       ELSE attempts[k]]
  /\ units' = [u \in RunIds \X Phases |->
       IF units[u].state = "RUNNING" /\ \E k \in Running : <<k[1], k[2]>> = u
       THEN Reopened(units[u])
       ELSE units[u]]
  /\ runs' = [r \in RunIds |->
       IF r \in touched /\ runs[r].state = "INCOMPLETE"
       THEN [runs[r] EXCEPT !.elapsed = @ + AbandonedCost(r),
                            !.reuse = IF runs[r].last = 0 THEN "NONE" ELSE "REUSABLE"]
       ELSE runs[r]]
  /\ Goto(p, "swept", ses[p])
  /\ UNCHANGED <<ticks, spawned, lock, ckpts, completions, published, envVars>>

\* A lookup that passes over runs whose last resume was refused.
Compatible_NotBlocked(mw, c) ==
  {r \in RunIds : runs[r].state = "INCOMPLETE" /\ runs[r].reuse # "BLOCKED"
                   /\ runs[r].mw = mw /\ runs[r].contract = c}

\* compatible_incomplete: an unfinished run of the same matchweek and inputs.
Compatible(mw, c) ==
  {r \in RunIds : runs[r].state = "INCOMPLETE" /\ runs[r].mw = mw
                                               /\ runs[r].contract = c}

\* MV-RUN-RESUME_REQUIRED.
RefuseStart(p) ==
  /\ pc[p] = "swept"
  /\ ses[p].op = "start"
  /\ Compatible(ses[p].mw, ses[p].contract) # {}
  /\ Leave(p)
  /\ UNCHANGED <<ticks, spawned, lock, tables, envVars>>

\* The session in which _execute enters its loop: the checkpoints it reads now
\* fix the phases it will skip and the predecessor of the next one.
Entering(s, r, done, predecessor) ==
  [s EXCEPT !.run = r, !.mw = "none", !.todo = Phases \ done,
            !.pred = predecessor, !.began = now]

CreateRun(p, r) ==
  LET s == ses[p] IN
  /\ pc[p] = "swept"
  /\ s.op = "start"
  /\ Compatible(s.mw, s.contract) = {}
  /\ runs[r].state = "ABSENT"
  /\ GateAdmits(p)
  /\ runs' = [runs EXCEPT ![r] =
       [state |-> "INCOMPLETE", mw |-> s.mw, contract |-> s.contract,
        phase |-> 1, last |-> 0, elapsed |-> 0, reuse |-> "NOT_REUSED"]]
  /\ units' = [u \in RunIds \X Phases |->
       IF u[1] = r THEN [state |-> "PENDING", count |-> 0] ELSE units[u]]
  /\ Goto(p, "executing", Entering(s, r, {}, s.contract))
  /\ UNCHANGED <<ticks, spawned, lock, attempts, ckpts, completions, published,
                 envVars>>

\* MV-RESUME-RUN_NOT_FOUND and MV-RESUME-ALREADY_COMPLETE.
RefuseResume(p) ==
  /\ pc[p] = "swept"
  /\ ses[p].op = "resume"
  /\ runs[ses[p].run].state # "INCOMPLETE"
  /\ Leave(p)
  /\ UNCHANGED <<ticks, spawned, lock, tables, envVars>>

\* o is what the work of phase i continues from: the output of the last
\* checkpoint before it, or the contract's own predecessor digest.
IsOutputBefore_Restarts(r, c, i, o) == o = c

IsOutputBefore(r, c, i, o) ==
  LET before == {j \in Checkpointed(r) : j < i} IN
  \/ before = {} /\ o = c
  \/ \E j \in before : (\A k \in before : k <= j) /\ o = ckpts[<<r, j>>].output

\* _validate_checkpoints: each checkpoint names the digest of this contract,
\* its phase and the output before it.
ChainVerifies(r, c) ==
  \A i \in Checkpointed(r), o \in Digests :
    IsOutputBefore(r, c, i, o) => ckpts[<<r, i>>].input = WorkInput(c, i, o)

ArtifactsVerify(r) == \A i \in Checkpointed(r) : ckpts[<<r, i>>].output \notin rotten

Resumable(r, c) ==
  /\ c = runs[r].contract
  /\ InputsVerify(c)
  /\ ChainVerifies(r, c)
  /\ ArtifactsVerify(r)

\* record_error without its WHERE state = 'INCOMPLETE'.
BlockResume_AnyState(p) ==
  /\ pc[p] = "swept"
  /\ ses[p].op = "resume"
  /\ runs[ses[p].run].state # "ABSENT"
  /\ ~Resumable(ses[p].run, ses[p].contract)
  /\ runs' = [runs EXCEPT ![ses[p].run].reuse = "BLOCKED"]
  /\ Leave(p)
  /\ UNCHANGED <<ticks, spawned, lock, units, attempts, ckpts, completions,
                 published, envVars>>

\* MV-RESUME-DIGEST_MISMATCH, -ARTIFACT_INVALID, -CHECKPOINT_MISMATCH and
\* -CHECKPOINT_ARTIFACT_INVALID: record_error with reuse state BLOCKED.
BlockResume(p) ==
  LET r == ses[p].run IN
  /\ pc[p] = "swept"
  /\ ses[p].op = "resume"
  /\ runs[r].state = "INCOMPLETE"
  /\ ~Resumable(r, ses[p].contract)
  /\ GateAdmits(p)
  /\ runs' = [runs EXCEPT ![r].reuse = "BLOCKED"]
  /\ Leave(p)
  /\ UNCHANGED <<ticks, spawned, lock, units, attempts, ckpts, completions,
                 published, envVars>>

\* mark_resumed, then _execute reads the checkpoints.
MarkResumed(p) ==
  LET s == ses[p]
      r == s.run
  IN
  /\ pc[p] = "swept"
  /\ s.op = "resume"
  /\ runs[r].state = "INCOMPLETE"
  /\ Resumable(r, s.contract)
  /\ GateAdmits(p)
  /\ runs' = [runs EXCEPT ![r].reuse = "REUSED"]
  /\ \E o \in Digests :
       /\ IsOutputBefore(r, s.contract, NumPhases + 1, o)
       /\ Goto(p, "executing", Entering(s, r, Checkpointed(r), o))
  /\ UNCHANGED <<ticks, spawned, lock, units, attempts, ckpts, completions,
                 published, envVars>>

-----------------------------------------------------------------------------
(* _execute: one attempt per phase *)

\* The first phase without a checkpoint.  start_attempt refuses a unit that is
\* already COMPLETE (then RaiseOut).
StartAttempt(p) ==
  LET s == ses[p]
      r == s.run
  IN
  /\ pc[p] = "executing"
  /\ GateAdmits(p)
  /\ \E i \in s.todo : \E n \in Tries :
       /\ \A j \in s.todo : i <= j
       /\ n = units[<<r, i>>].count + 1
       /\ units[<<r, i>>].state # "COMPLETE"
       /\ units' = [units EXCEPT ![<<r, i>>] = [state |-> "RUNNING", count |-> n]]
       /\ attempts' = [attempts EXCEPT ![<<r, i, n>>] =
            [status |-> "RUNNING", owner |-> Token(p), started |-> now, elapsed |-> 0]]
       /\ runs' = IF runs[r].state = "INCOMPLETE"
                  THEN [runs EXCEPT ![r].phase = i] ELSE runs
       /\ Goto(p, "working", [s EXCEPT !.phase = i, !.attempt = n, !.started = now])
  /\ UNCHANGED <<ticks, spawned, lock, ckpts, completions, published, envVars>>

Stopping(s, outcome) == [s EXCEPT !.ended = now, !.result = NoResult,
                                  !.outcome = outcome]

\* The executor raises: WorkInterrupted and KeyboardInterrupt interrupt the
\* attempt, everything else fails it.
WorkFails(p) ==
  /\ pc[p] = "working"
  /\ \E outcome \in {"INTERRUPTED", "FAILED"} :
       Goto(p, "stopping", Stopping(ses[p], outcome))
  /\ UNCHANGED <<ticks, spawned, lock, tables, envVars>>

\* Time used by this start() or resume() call.
SessionElapsed_OfAttempt(s) == now - s.started

SessionElapsed(s) == now - s.began

\* _execute_with_deadline: SIGALRM after the remaining allowance, or no
\* allowance left when the attempt began.
WatchdogFires(p) ==
  /\ pc[p] = "working"
  /\ SessionElapsed(ses[p]) >= HardLimit
  /\ Goto(p, "stopping", Stopping(ses[p], "FAILED"))
  /\ UNCHANGED <<ticks, spawned, lock, tables, envVars>>

\* The executor returns a WorkResult; a session past the hard limit is stopped
\* before anything of the result is kept.
WorkReturns(p, result) ==
  LET s == ses[p] IN
  /\ pc[p] = "working"
  /\ s.started - s.began < HardLimit
  /\ IF SessionElapsed(s) > HardLimit
     THEN Goto(p, "stopping", Stopping(s, "FAILED"))
     ELSE Goto(p, "returned", [s EXCEPT !.ended = now, !.result = result])
  /\ UNCHANGED <<ticks, spawned, lock, tables, envVars>>

\* MV-RUN-CHECKPOINT_ARTIFACT_INVALID or MV-RUN-CHECKPOINT_FAILED.
CheckpointFails(p) ==
  /\ pc[p] = "returned"
  /\ Goto(p, "stopping", [ses[p] EXCEPT !.result = NoResult, !.outcome = "FAILED"])
  /\ UNCHANGED <<ticks, spawned, lock, tables, envVars>>

\* A resumed run stays REUSED; any other becomes worth resuming.
ReuseAfterCheckpoint(reuse) == IF reuse = "REUSED" THEN "REUSED" ELSE "REUSABLE"

Checkpoint(p) ==
  LET s == ses[p]
      r == s.run
      i == s.phase
      n == s.attempt
      elapsed == s.ended - s.started
      output  == OutputDigest(s.result)
  IN
  /\ pc[p] = "returned"
  /\ s.result \notin rotten
  /\ ~Present(r, i)
  /\ GateAdmits(p)
  /\ ckpts' = [ckpts EXCEPT ![<<r, i>>] =
       [present |-> TRUE, attempt |-> n, output |-> output,
        input |-> WorkInput(s.contract, i, s.pred)]]
  /\ attempts' = IF attempts[<<r, i, n>>].status = "RUNNING"
                 THEN [attempts EXCEPT ![<<r, i, n>>].status = "COMPLETED",
                                       ![<<r, i, n>>].elapsed = elapsed]
                 ELSE attempts
  /\ units' = IF units[<<r, i>>].state = "RUNNING"
              THEN [units EXCEPT ![<<r, i>>].state = "COMPLETE"] ELSE units
  /\ runs' = IF runs[r].state = "INCOMPLETE"
             THEN [runs EXCEPT ![r].last = i,
                               ![r].elapsed = @ + elapsed,
                               ![r].reuse = ReuseAfterCheckpoint(@)]
             ELSE runs
  /\ Goto(p, "executing",
          [s EXCEPT !.todo = @ \ {i}, !.pred = output, !.phase = 0, !.attempt = 0,
                    !.started = 0, !.ended = 0, !.result = NoResult])
  /\ UNCHANGED <<ticks, spawned, lock, completions, published, envVars>>

\* _stop_attempt and finish_attempt; the coordinator then raises.
FinishAttempt(p) ==
  LET s == ses[p]
      r == s.run
      i == s.phase
      n == s.attempt
      elapsed == s.ended - s.started
  IN
  /\ pc[p] = "stopping"
  /\ GateAdmits(p)
  /\ attempts' = IF attempts[<<r, i, n>>].status = "RUNNING"
                 THEN [attempts EXCEPT ![<<r, i, n>>].status = s.outcome,
                                       ![<<r, i, n>>].elapsed = elapsed]
                 ELSE attempts
  /\ units' = IF units[<<r, i>>].state = "RUNNING"
              THEN [units EXCEPT ![<<r, i>>] = Reopened(@)] ELSE units
  /\ runs' = IF runs[r].state = "INCOMPLETE"
             THEN [runs EXCEPT ![r].elapsed = @ + elapsed,
                    ![r].reuse = IF \E j \in Phases : units[<<r, j>>].state = "COMPLETE"
                                 THEN "REUSABLE" ELSE "NONE"]
             ELSE runs
  /\ Leave(p)
  /\ UNCHANGED <<ticks, spawned, lock, ckpts, completions, published, envVars>>

-----------------------------------------------------------------------------
(* _publish_completion *)

\* A payload built from the checkpoints read before the last one committed.
Completion_OneShort(r) ==
  [run |-> r, contract |-> runs[r].contract,
   outputs |-> [i \in Checkpointed(r) \ {NumPhases} |-> ckpts[<<r, i>>].output]]

\* The run-completion payload.
Completion(r) ==
  [run |-> r, contract |-> runs[r].contract,
   outputs |-> [i \in Checkpointed(r) |-> ckpts[<<r, i>>].output]]

\* complete_run without publish_artifact before it.
PublishCompletion_Skipped(p) ==
  /\ pc[p] = "executing"
  /\ ses[p].todo = {}
  /\ Goto(p, "completing", ses[p])
  /\ UNCHANGED <<ticks, spawned, lock, tables, envVars>>

\* publish_artifact: the completion payload enters the artifact catalog in a
\* transaction of its own, before the run refers to it.
PublishCompletion(p) ==
  LET r == ses[p].run IN
  /\ pc[p] = "executing"
  /\ ses[p].todo = {}
  /\ GateAdmits(p)
  /\ published' = published \cup {Completion(r)}
  /\ Goto(p, "completing", ses[p])
  /\ UNCHANGED <<ticks, spawned, lock, runs, units, attempts, ckpts, completions,
                 envVars>>

\* complete_run: the completion row (a trigger counts the checkpoints) and the
\* COMPLETE state in one transaction.
CompleteRun(p) ==
  LET r == ses[p].run IN
  /\ pc[p] = "completing"
  /\ Cardinality(Checkpointed(r)) = NumPhases
  /\ completions[r] = {}
  /\ GateAdmits(p)
  /\ completions' = [completions EXCEPT ![r] = {Completion(r)}]
  /\ runs' = IF runs[r].state = "INCOMPLETE"
             THEN [runs EXCEPT ![r].state = "COMPLETE",
                               ![r].reuse = IF @ = "REUSED" THEN @ ELSE "NOT_REUSED"]
             ELSE runs
  /\ Leave(p)
  /\ UNCHANGED <<ticks, spawned, lock, units, attempts, ckpts, published, envVars>>

\* MV-RUN-COMPLETION_PUBLICATION_FAILED, before or after publish_artifact.
CompletionFails(p) ==
  LET r == ses[p].run IN
  /\ \/ pc[p] = "executing" /\ ses[p].todo = {}
     \/ pc[p] = "completing"
  /\ GateAdmits(p)
  /\ runs' = IF runs[r].state = "INCOMPLETE"
             THEN [runs EXCEPT ![r].reuse = "REUSABLE"] ELSE runs
  /\ Leave(p)
  /\ UNCHANGED <<ticks, spawned, lock, units, attempts, ckpts, completions,
                 published, envVars>>

-----------------------------------------------------------------------------
(* The environment *)

\* The candidate window closes (selection sealed, or the cutoff passed).
CloseGate ==
  /\ TRUE \in Guards
  /\ gate
  /\ gate' = FALSE
  /\ UNCHANGED <<procVars, tables, rotten, now>>

\* An object file of the catalog is lost or altered on disk.  Input and result
\* artifacts may be in the catalog from an earlier run, so any of them can be.
Rot(a) ==
  /\ a \in Digests \ rotten
  /\ Cardinality(rotten) < MaxRot
  /\ rotten' = rotten \cup {a}
  /\ UNCHANGED <<procVars, tables, gate, now>>

\* The exact bytes are put back under their digest.
Repair(a) ==
  /\ a \in rotten
  /\ rotten' = rotten \ {a}
  /\ UNCHANGED <<procVars, tables, gate, now>>

Tick ==
  /\ now < MaxTime
  /\ now' = now + 1
  /\ UNCHANGED <<procVars, tables, gate, rotten>>

\* The steps of a call that its own code decides on.
Advance(p) ==
  \/ RefuseBusy(p)
  \/ InterruptAbandoned(p)
  \/ RefuseStart(p)
  \/ \E r \in RunIds : CreateRun(p, r)
  \/ RefuseResume(p)
  \/ BlockResume(p)
  \/ MarkResumed(p)
  \/ StartAttempt(p)
  \/ WatchdogFires(p)
  \/ Checkpoint(p)
  \/ FinishAttempt(p)
  \/ PublishCompletion(p)
  \/ CompleteRun(p)

Next ==
  \/ \E p \in Pids :
       \/ Spawn(p)
       \/ OpenStore(p)
       \/ OpenRecovery(p)
       \/ CloseStore(p)
       \/ Die(p)
       \/ RaiseOut(p)
       \/ \E g \in Guards, c \in Contracts :
            \/ \E mw \in Matchweeks : CallStart(p, mw, c, g)
            \/ \E r \in RunIds : CallResume(p, r, c, g)
       \/ Advance(p)
       \/ WorkFails(p)
       \/ \E result \in Results : WorkReturns(p, result)
       \/ CheckpointFails(p)
       \/ CompletionFails(p)
  \/ CloseGate
  \/ \E a \in Digests : Rot(a) \/ Repair(a)
  \/ Tick

Spec == Init /\ [][Next]_vars

\* What the code does next without anybody's leave: its own steps, and the two
\* failures that the state forces on it.
Proceed(p) ==
  \/ Advance(p)
  \/ ~GateAdmits(p) /\ RaiseOut(p)
  \/ ses[p].result \in rotten /\ CheckpointFails(p)

\* The operating system schedules a living process and time passes.  Nothing is
\* assumed of the executor, of whoever starts processes, or of other failures.
Fairness == (\A p \in Pids : WF_vars(Proceed(p))) /\ WF_vars(Tick)

FairSpec == Spec /\ Fairness

-----------------------------------------------------------------------------
(* Properties *)

Sessions ==
  [op : {"none", "start", "resume"}, run : RunIds \cup {NoRun},
   mw : Matchweeks \cup {"none"}, contract : Contracts \cup {"none"},
   guarded : BOOLEAN, todo : SUBSET Phases, pred : Digests \cup {NoResult},
   phase : 0..NumPhases, attempt : 0..MaxAttempts, began : Time, started : Time,
   ended : Time, result : Results \cup {NoResult},
   outcome : {"none", "INTERRUPTED", "FAILED"}]

\* The shape of every table row and of every session.
TypeOK ==
  /\ pc \in [Pids -> OpenPcs \cup {"dead", "started"}]
  /\ ses \in [Pids -> Sessions]
  /\ ticks \in [Pids -> Spawns]
  /\ spawned \in Spawns
  /\ lock \subseteq Pids
  /\ gate \in BOOLEAN
  /\ runs \in [RunIds -> RunRows \cup {NoRow}]
  /\ units \in [RunIds \X Phases -> [state : UnitStates, count : 0..MaxAttempts]]
  /\ attempts \in [Keys -> AttemptRows]
  /\ ckpts \in [RunIds \X Phases -> CkptRows \cup {NoCkpt}]
  /\ completions \in [RunIds -> SUBSET CompletionDocs]
  /\ published \subseteq CompletionDocs
  /\ rotten \subseteq Digests
  /\ now \in Time

\* interrupt_abandoned and the writer lock keep at most one attempt RUNNING in
\* the whole store, whatever crashes and exceptions have left behind.
AtMostOneRunning == \A j, k \in Running : j = k

\* The four tables written by separate UPDATE statements never disagree: a unit
\* is RUNNING exactly with its latest attempt, is COMPLETE exactly when it has a
\* checkpoint, and that checkpoint belongs to its latest and only COMPLETED
\* attempt.
TablesAgree ==
  \A r \in RunIds, i \in Phases :
    LET u == units[<<r, i>>] IN
    /\ u.state = "COMPLETE" <=> Present(r, i)
    /\ u.state = "RUNNING" <=> \E n \in Tries : <<r, i, n>> \in Running
    /\ \A n \in Tries :
         /\ attempts[<<r, i, n>>].status # "ABSENT" <=> n <= u.count
         /\ attempts[<<r, i, n>>].status = "RUNNING" => n = u.count
         /\ attempts[<<r, i, n>>].status = "COMPLETED"
              <=> Present(r, i) /\ ckpts[<<r, i>>].attempt = n
    /\ Present(r, i) => ckpts[<<r, i>>].attempt = u.count

\* The checkpoints of a run are a prefix of its phases, each computed from this
\* run's contract and from the output that is stored before it: no crash, retry
\* or resume mixes two histories, and _validate_checkpoints can only refuse a
\* resume for damaged artifacts.
CheckpointChain ==
  \A r \in RunIds, i \in Phases :
    Present(r, i) =>
      /\ runs[r].state # "ABSENT"
      /\ i > 1 => Present(r, i - 1)
      /\ ckpts[<<r, i>>].input = WorkInput(runs[r].contract, i, Predecessor(r, i))

\* A COMPLETE run has a completion that was published first and that lists the
\* outputs its checkpoint table holds, one for every phase.
CompletionAttests ==
  \A r \in RunIds :
    /\ runs[r].state = "COMPLETE" <=> completions[r] # {}
    /\ completions[r] \subseteq published
    /\ runs[r].state = "COMPLETE" =>
         /\ Checkpointed(r) = Phases
         /\ completions[r] = {Completion(r)}

\* `matchvet run` never leaves two unfinished runs of one matchweek and one
\* input contract, however often it is interrupted (MV-RUN-RESUME_REQUIRED).
NoCompatibleTwins ==
  \A r, q \in RunIds :
    /\ runs[q].state = "INCOMPLETE"
    /\ r \in Compatible(runs[q].mw, runs[q].contract)
    => r = q

\* The process that started attempt k has ended, even if its pid lives on.
OwnerGone(k) ==
  LET p == attempts[k].owner[1] IN
  pc[p] = "dead" \/ ticks[p] # attempts[k].owner[2]

\* An attempt is closed over its owner's head only when that exact process is
\* gone; whoever else closes one as INTERRUPTED is its own coordinator.
OnlyAbandonedAreInterrupted ==
  [][\A k \in Running : attempts'[k].status = "INTERRUPTED" =>
       LET p == attempts[k].owner[1] IN
       \/ pc[p] = "stopping" /\ <<ses[p].run, ses[p].phase, ses[p].attempt>> = k
       \/ OwnerGone(k)]_vars

\* What the triggers of migration 3 enforce never has to be enforced: terminal
\* attempts, checkpoints, completions and completed runs are final, also across
\* crashes, retries and resumes.
HistoryIsFinal ==
  [][/\ \A k \in Keys :
          attempts[k].status \in {"COMPLETED", "INTERRUPTED", "FAILED"}
            => attempts'[k] = attempts[k]
     /\ \A u \in RunIds \X Phases : ckpts[u].present => ckpts'[u] = ckpts[u]
     /\ \A r \in RunIds :
          /\ completions[r] # {} => completions'[r] = completions[r]
          /\ runs[r].state = "COMPLETE" => runs'[r] = runs[r]]_vars
=============================================================================
