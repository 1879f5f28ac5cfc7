# MatchVet: a TLA+ verification project

MatchVet (`src/src/matchvet`) is a local, single-user research tool: command
line processes that share one SQLite database and one content-addressed object
store, with no server. Its promises are about what survives: a run that was
killed is resumed from exactly what it had checkpointed, a catalogued artifact
is there and intact, a selection that counts was really committed before its
cutoff, a backup that was reported COMPLETE is one consistent state, an upgrade
never leaves the operator without a copy. This directory states those promises
in TLA+, checks them with TLC on small instances, and proves the most important
ones with TLAPS for every instance.

Paths below are relative to the repository (`src/…`) unless they are modules of
this directory. `PROJECT.json` maps every definition that models code to the
lines it models.

## 1. The system

### Components

| Component | State it keeps | Operations | Modelled by |
|---|---|---|---|
| Store (`store.py`) | database file, writer lock file, private pre-migration copies, migration ledger | `open_store`, migrate, recover read-only, `transaction`, close | `StoreOpening`, `AtomicUpgrade`, `UpgradeRefinement`; lock and recovery mode also in `RunLifecycle` |
| Artifact store (`artifacts.py`) | `staging/`, `objects/sha256/`, tables `artifacts`, `snapshot_manifests`, `manifest_artifacts` | publish artifact, publish manifest, discard staging, inspect | `ArtifactStore`, `ArtifactInspector` |
| Run coordinator (`runs.py`) | tables `research_runs`, `run_work_units`, `run_attempts`, `run_checkpoints`, `run_completions` | start, resume, recovery of abandoned attempts, completion, status | `RunLifecycle`, `RunTime`, `RunStatusReader`, `ResumableRun`, `RunRefinement` |
| Matchweek selection (`matchweek_research.py`, `causal_selection.py`, `causal_candidate.py`, `causal_activation.py`) | the selection and the receipt slot of each Matchweek, the owner's history, the single-use `_ResearchOperation` | candidate publication, `seal_completed` (v1), `seal_completed_v2`, owner records, replay | `MatchweekSelection` |
| Backup and restore (`t17.py`) | bundle directory and its `.partial`, restore staging, restore target | `backup_store`, `verify_backup`, `restore_backup`, cleanup | `BackupRestore`, `AtomicRestore`, `RestoreRefinement` |
| Source download (`ingestion.py`, `ResumableSourceDownloader`) | retained copy, its metadata, the partial file, budgets of the process | `fetch` with retries, redirects, resumption, admission | `SourceDownload`, `AtomicCache`, `CacheRefinement` |
| Matchweek freeze (`matchweek.py`) | freeze manifest, freeze and membership rows, post-cutoff appendix; reads the revisions and their captures | `freeze_matchweek`, `append_post_cutoff_revision`, `append_post_cutoff_changes` | `MatchweekFreeze` |
| Settlement grading (`t10.py`) | evidence sets, one chain of grades per preference | `SettlementGrader.grade_all`, `SettlementGradeRecorder.record_many` | `Settlement` |
| CB01 enrolment (`cb01.py`, `cb01_trust.py`) | staged rows and batch, trust states, requests, attempts, responses, results, verifications, records, receipt | `enroll_fixture`, `resume` with its retry, `replay` | `Enrolment` (outcomes, denominators and evaluation planned) |
| Membership V2, match cutoffs (`matchweek_membership*.py`, `match_evidence_cutoff.py`), settlements V2 (`f19.py`) | decisions, observations, chains of facts and versions | decide, observe, build, correct, attach | planned |
| Policy evaluation (`t18.py`), reports (`t16.py`) | checkpoints, completion markers | evaluate, publish | planned |
| Importer and evidence (`ingestion.py`, `evidence.py`, `t08.py`, `t09.py`, coverage and provider health) | append-only captures, assertions, corrections, conflicts | import, admit, correct | planned |
| Models, ranking, contracts (`t11`–`t15`, `f10`–`f16`), trust checks, command line | none of their own | pure functions, codecs, printing | not modelled |

The complete list, file by file, is `components` in `PROJECT.json`.

### How they interact

* Every writing command is a process that calls `open_store`. The kernel's
  `flock` on `.matchvet-writer.lock` admits one at a time and releases it when
  the process dies. `status`, `doctor`, `backup` and `restore` of a store take
  no lock and run beside a writer.
* The run coordinator calls an executor for each phase. The executor publishes
  artifacts through the artifact store and returns a `WorkResult`, which the
  coordinator records in a checkpoint. A completion artifact is published
  before the run row refers to it.
* Candidate research is the same coordinator with a `write_guard`, called
  before and after transactions: it closes when the cutoff has passed or the
  Matchweek has been selected.
* Selection runs a protected manifest publication (object and graph synced
  before the commit) under `_ResearchOperation`, whose phases can be consumed
  once, and then publishes a receipt.
* A backup reads the database with SQLite's online backup, then copies every
  catalogued object; a restore installs objects first and the database last.
* The importer feeds the revisions that a freeze decides from; it runs under the
  writer lock, like the freeze, so that captures arrive between two calls and
  never during one. The freeze publishes its manifest before it writes its rows.
* The downloader knows nothing of the store: it hands over retained bytes with
  their provenance. It runs inside commands that hold the writer lock
  (`cli.py:1211`), hence never twice at once on one cache.
* An enrolment asks a witness over the network and keeps every step of it as an
  artifact; the command that runs it holds the writer lock, so that calls follow
  one another and each starts from what the last one published.
* The grader is pure; its recorder merges a whole matrix of grades in one
  transaction with what earlier calls stored.

### What is hard about it

| Hard behaviour | Where |
|---|---|
| A process may be killed or an exception may escape between any two transactions; each command must make sense of what the last one left | run coordinator, store opening, artifacts, selection, backup |
| Values read once and used over many transactions (checkpoint digests, approvals, existence of a target) | `_execute`, `seal_completed_v2`, `restore_backup` |
| Lock-free readers of several tables and directories | status, doctor, backup |
| Time: a watchdog racing a late result; a commit delayed over a cutoff; a witness that answers late or never | `_execute_with_deadline`, both selection protocols |
| Facts that arrive late, again, or from a lower authority; what is decided once must not drift | freeze and appendix, grade chains |
| A request that may be made once only, over deaths between its artifacts and answers that are lost, late or of another request | CB01 enrolment |
| An upstream that breaks off, redirects, challenges or changes in the middle of a file | `ResumableSourceDownloader` |
| Durability: what is in the page cache and what is on the disk | artifact publication |
| Several releases working on one store | migration, restore |
| Identity reuse: pids, snapshot identifiers, digest paths | owner tokens, manifests, deduplication |

`hazards` in `PROJECT.json` lists each at its line with the properties that
would catch it, and says why where no property does.

### What makes each component correct

* Store: an unfinished upgrade is covered by a verified copy; a database that
  somebody has used is never treated as new; an older release never writes to a
  newer store.
* Artifacts: no catalog row without its intact object; no altered bytes adopted
  by deduplication; a protected graph survives power loss; inspection raises no
  false alarm.
* Runs: one running attempt in the whole store; tables that agree; one chain of
  checkpoints; one unfinished run per input; final history; elapsed time that
  adds up; calls that end.
* Selection: what is qualified was in time; one candidate chain per Matchweek;
  an occupied slot that did not qualify never does.
* Backup: what was reported COMPLETE stays a state the source was in; a target
  never shows a database without its artifacts.
* Download: what is retained is in order and as long as announced, holds no
  challenge page whose phrase has arrived, and is served only with the
  description written for it; every bound holds; every fetch ends.
* Freeze: no member rests on evidence from after the cutoff; rows and manifest
  agree; a withdrawal is final; a pass over the changes misses nothing.
* Grading: preferences that need the same facts are settled by the same evidence;
  lower evidence never replaces higher.
* Enrolment: what is published was stamped in time, for its own attempt; no
  request leaves twice; no death between two artifacts leaves a second request,
  response, result or verdict (a FAILED verdict for a passing reason and conflicting
  records do arise, section 3); a publication is whole, with at most one record of
  another attempt beside it.
* Planned components: an interrupted evaluation resumes to the same result; a
  report is visible only when complete; corrections never rewrite what a frozen
  state has admitted.

## 2. The modules and the code

### RunLifecycle, RunTime, RunRefinement, ResumableRun, RunStatusReader

`RunLifecycle` is `RunCoordinator` with its repository. One action is one SQLite
transaction or one step between two of them.

| In the model | In `runs.py` and `store.py` |
|---|---|
| `pc`, `ses` | a process and the locals of its `start()`, `resume()` and `_execute()`; `ses.todo`, `ses.pred` are the completed keys and the predecessor digest that `_execute` reads once |
| `ticks`, `spawned` | the kernel's process start time; a pid is reused with a new start time, so an owner token is `<<pid, ticks>>` |
| `lock` | holder of `.matchvet-writer.lock` |
| `runs`, `units`, `attempts`, `ckpts`, `completions`, `published` | the tables and the completion artifacts |
| `gate`, `rotten`, `now` | the write guard, artifacts whose verification fails, the clock |
| `InterruptAbandoned`, `RefuseBusy` | `interrupt_abandoned`, with the liveness test of the owner token |
| `CallStart` … `CreateRun`, `RefuseStart` | `start`: the checks, recovery, `compatible_incomplete`, `create_run` |
| `CallResume`, `BlockResume`, `RefuseResume`, `MarkResumed` | `resume` with `_validate_checkpoints` |
| `StartAttempt`, `WorkReturns`, `WorkFails`, `WatchdogFires`, `Checkpoint`, `CheckpointFails`, `FinishAttempt` | one round of the loop of `_execute` |
| `PublishCompletion`, `CompleteRun`, `CompletionFails` | `_publish_completion` |
| `Die`, `RaiseOut` | a kill, and an exception that leaves the coordinator, at every point |

A digest is its preimage: SHA-256 is taken to be injective. `RaiseOut` may happen
at any busy point because the write guard and the database may raise there; a
step whose guard raised *after* the commit is the step followed by `RaiseOut`.

`RunTime` adds what the run promises about time. `ResumableRun` is the abstract
specification: a ledger that is opened once for its inputs, appended to and
sealed, with no processes, attempts or crashes. `RunRefinement` gives the
mapping (ledger = checkpoint outputs in phase order, seal = outputs in the
published completion), and `KeepsItsPromise` says that the coordinator
implements it. `RunStatusReader` composes the coordinator with `read_run_status`,
three reads at three moments without a transaction.

### ArtifactStore, ArtifactInspector

The writer is one program counter, since the lock admits one. `files` is what
the page cache shows at the digest paths, `disk` what a power failure leaves,
`bad` what has been altered. `Install`, `Reuse`, `SyncDirectory`, `SyncGraph` and
`Commit` are the steps of `_publish_object` and its callers in their order;
`Fail` and `Interrupt` are the two ways an exception leaves, which differ in
the partial file. A manifest carries the moment of its verification (`stamp`),
so publishing one twice makes two objects. A commit inserts the catalog row, the
manifest row and the rows of `manifest_artifacts` and `manifest_versions` in one
transaction; of the version rows only their presence is modelled, since they are
copied from the manifest as the members are.

`ArtifactInspector` interleaves `inspect_artifacts` with the writer. Every
statement is an action: the catalog, the manifest digests, then metadata,
versions and members, each digest by digest (`ReadCatalog`, `ReadDigests`,
`ReadMetadata`, `ReadVersions`, `ReadMembers`), and after them every file
(`CheckFile`). `AsPublished` is the comparison of `_inspect_catalog`: the bytes
against what the statements returned. A digest whose metadata row is gone would
end the inspection with a `TypeError` (`"raised"`). The completions, read last,
only feed the list of unreferenced artifacts, which reports no damage, and are
left out.

### MatchweekSelection

The phases of `_ResearchOperation` from `fresh` to `receipt_insert` are values of
`pc`; `op` holds what the call has observed. `now` is true UTC, which the code
never sees: v1 observes an upper bound of it (`Observed`), v2 gets the witness's
interval (`WitnessStamps`, between `Send` and `AcceptWitness`, at any distance
from either). Graph replay, TUF metadata and signatures are verdicts. Candidate
publications are `WriteBegin`, `WriteGuard`, `WriteCommit`, `WriterChecks`, the
four moments at which the guard of `candidate_artifacts` is or is not asked.

### BackupRestore, AtomicRestore, RestoreRefinement

A database is what tells two of them apart: catalog, commits and schema. The
store commits and migrates beside both commands. The bundle is filled file by
file with the marker last; the target is filled with the database last.
Every exception path removes in the code's order (`RemovePartial`,
`RemoveBundleFile`, `RemoveTarget`, `RemoveObject`), and what cannot be removed is
skipped (`RemovalFails`).

Nothing keeps two backups apart, so `Backups` may hold any number; `Join` starts
one and notes who is `alone`. `VerifyBundle` is the verification that each makes
before it reports COMPLETE, of whatever then stands there. `AckedBundleIsKept`
speaks of them all: a backup that was alone from its first step to its last and
reports COMPLETE leaves the bundle of one state of the source, as a whole; and while
a bundle stands and no backup is at work, none begins and the bundle stays.

`AtomicRestore` is what all this promises to whoever looks at the target: nothing
is there, or one state of the source as a whole, which appears in one step and may
only disappear again. `RestoreRefinement` maps a database at the target, with those
of its artifacts that are there, to what is `Shown`; one that a cleanup had to leave
behind does not count, since the failure is reported. `RestoreIsAtomic` says that
the model implements it.

### StoreOpening, AtomicUpgrade, UpgradeRefinement

`open_store` step by step, with the private pre-migration copy per call, and
releases that differ in the number of migrations they know. A kill, an error
that is raised and `close()` are one action, `Leave`; an error that ends in
read-only recovery is `Recover`. `base` is a history variable: the database as
it stood when somebody last had it complete.

`AtomicUpgrade` is the store as its operator sees it, created once and then changed
by whole transactions and whole upgrades, with no processes, locks or copies.
`UpgradeRefinement` maps the files to what can be got back from them
(`Recoverable`: the database, or a verified private copy beside it), and
`UpgradeIsAtomic` says that `open_store` implements it. Damage to the files is
outside this promise: it is what a backup is for.

### SourceDownload, AtomicCache, CacheRefinement

`fetch` for one cache key. A file is a sequence of blocks that know their version
of the source and their place in it; version 0 is a challenge page, of which one
block (`PhraseAt`) has a phrase of `_REFUSAL_TEXT`. The code recognises a page by
that phrase alone, in the first 512,000 bytes of the content (`Searched`), so does
`Challenged`; a page without any phrase is like any other source.

| In the model | In `ingestion.py` |
|---|---|
| `data`, `meta`, `part` | the retained copy, its metadata file, the partial file |
| `op`, `used` | counters of this fetch and of this process; `op.offset` is the resume offset of the turn |
| `Fetch` | cache look-up with `_read_cache`, authorization, size of the partial file |
| `CheckBudgets`, `Resolve`, `Send` | one turn of the loop up to the answer; each may end the fetch or use up a retry (`Retry`) |
| `FollowRedirect`, `ReadErrorStatus`, `OpenBody` | the kinds of answer; 206 continues the partial file, 200 starts it again |
| `ReceiveBlock`, `LoseBody`, `EndBody` | `_receive_body` |
| `Admit`, `Install`, `WriteMetadata` | content checks, `os.replace`, metadata |

Whether time is left is a choice wherever the code reads a clock.

`AtomicCache` is what the cache promises to whoever fetches from it: it shows
nothing or one copy, a fetch answers with what is shown or with what it has just
put there, and a replacement that is not finished may leave a cache that refuses
from then on. A copy is content with its description. `CacheRefinement` maps the two
files to what is `Shown`, as long as they are `Paired`, and the time between their
replacements to `replacing`. That the two are seen as one is all this promises: as
to the content, `Copies` asks that its blocks are in order and all there if their
number was announced. The code uses no validator, so a content may be the beginning
of one version, or of a challenge cut off before its phrase, with the end of
another; and a body of no announced length may have been cut short. `Paired`
looks at the files themselves, not at what `_read_cache` checks (`Torn`): that the
check is enough is what `CacheIsAtomic` is about.

### MatchweekFreeze

Revisions are what sources may say of a fixture; `observed` and `supports` are
their first capture and all captures, which `Import` adds, with a delay.
`BeginFreeze` derives the cutoff (`DerivedCutoff`, at most eight rounds from the
earliest kickoff ever announced), decides the members, tests stability and
publishes the manifest; `InsertFreeze` writes the rows. `AppendRevision` is
`append_post_cutoff_revision`; `BeginChanges`, `AppendNext`, `AppendRow`,
`RefusePass`, `EndChanges` are `append_post_cutoff_changes`, whose entries are
committed one by one. `Kill` strikes between any two.

### Settlement

`GradeOf` is the pure grader over a pack of evidence records (active records,
groups by set, the group or the conflict that controls, the market tables of
`Settle`). `RecordOne` is one turn of the transaction of `record_many`, with
`Stays` and `Merge` for `_effective_grade`; `CommitGrades` ends it and `Kill` rolls
it back. A level is a rank, 0 the most authoritative.

### Enrolment

One batch of rows in `BootstrapRepository`. Each artifact is a step of its own; an
attempt is named by the nonce of its request.

| In the model | In `cb01.py` |
|---|---|
| `staged`, `batch`, `trusts`, `requests`, `attempts`, `responses`, `results`, `verdicts`, `records`, `receipts` | the artifact kinds, in the order in which they are published |
| `stamped`, `sent` | what the witness has done, which the code never sees: history |
| `CallEnroll`, `StageRow`, `StageBatch`, `FindEnrolled`, `AdoptRequest` | `enroll_fixture`: rows, batch, then replay, drive, adopt or ask |
| `CallResume`, `MayRetry`, `NoAttempt` | `resume` and its explicit retry |
| `RefreshTrust`, `RetainRequest`, `RetainAttempt` | `_new_attempt` |
| `Send`, `SendFails`, `RetainResponse`, `RetainResult` | `_send_attempt`; the answer is any stamp issued so far, another page, a part, or nothing |
| `Drive`, `Rebuilt` | `_drive_attempt`, which writes the result a dead call did not write |
| `Finish`, `Verify` | `_finish_result`: verification, with failures that pass (`Flake`) |
| `PublishRecord`, `PublishReceipt` | `_publish_records` |
| `CallReplay` | `replay` |

Signatures, certificates and TUF metadata are verdicts: a stamp is good when its
nonce is the request's and its time lies strictly between cutoff and kickoff.
`TimestampFailure` records explain a result and decide nothing; they are left out.

## 3. What is checked

`tlc -config X.cfg M` with the module and the configuration of the table. All
runs switch off the deadlock check: every process may be gone for good once its
bounded lives, calls or records are used up, and a store nobody opens is a
normal state. Where `CallsEnd` is checked, getting stuck is what it would find.

| Run | Configuration, module | Properties | Distinct states |
|---|---|---|---|
| `run_core` | `RunCore`, `MCRunStatusReader` | `AtMostOneRunning`, `TablesAgree`, `ReportIsCoherent`, `OnlyAbandonedAreInterrupted` | 0.5 M |
| `run_history` | `RunHistory`, `MCRunRefinement` | `NoCompatibleTwins`, `CheckpointChain`, `CompletionAttests`, `HistoryIsFinal`, `KeepsItsPromise` | 0.6 M |
| `run_execution` | `RunExecution`, `MCRunTime` | `ElapsedAccounts`, `CallsEnd` | 0.8 M |
| `artifact_store` | `ArtifactStore`, `MCArtifactInspector` | `CatalogIsBacked`, `ManifestsAreClosed`, `ProtectedGraphSurvives`, `AlarmsAreReal` | 1.7 M |
| `matchweek_selection` | `Selection`, `MCMatchweekSelection` | `QualifiedWasInTime`, `OneCandidateChain`, `NeverQualifiedLater`, `OnlyWithdrawalDisqualifies` | 2.5 M |
| `backup_restore` | `BackupRestore`, `MCBackupRestore` | `AckedBundleIsKept`, `RestoreIsFaithful`, `RestoreIsAtomic` | 1.8 M |
| `store_opening` | `StoreOpening`, `MCStoreOpening` | `NewIsReallyNew`, `NewerStoreIsUntouched`, `UpgradeIsAtomic` | 0.1 M |
| `source_download` | `SourceDownload`, `MCSourceDownload` | `RetainedIsWhole`, `RefusalIsNeverRetained`, `BoundsHold`, `CacheIsAtomic`, `FetchEnds` | 1.6 M |
| `matchweek_freeze` | `MatchweekFreeze`, `MCMatchweekFreeze` | `CutoffLeadsMembers`, `FreezeIsReplayable`, `WithdrawalIsFinal`, `PassIsComplete` | 0.7 M |
| `settlement` | `Settlement`, `MCSettlement` | `MarketsAgree`, `LowerEvidenceIsInert` | 0.3 M |
| `enrolment` | `Enrolment`, `MCEnrolment` | `WitnessedInTime`, `RequestBudget`, `GraphIsExact`, `PublicationIsWhole` | 3.3 M |
| `backup_overwrites` | `BackupPair`, `MCBackupRestore` | violates `BundleIsImmutable` | |

### Bounds, and why they are enough

* `run_core`: two pids and two process lives (`MaxSpawns`), so that two processes
  live at once, or the second has the pid of the first, and so that an owner is
  dead, and somebody else commits, between two of the three reads of a status; two runs and two attempts, so that
  an abandoned attempt of one run is met by a call about the other, and a retry
  follows a failure. One phase: the chain is `run_history`'s subject. Time
  stands still here; time is `run_execution`'s. Runs and pids are
  interchangeable, hence the symmetry.
* `run_history`: one pid suffices (two are never in the tables together,
  `AtMostOneRunning`) and lives twice; two contracts and two results, so that a
  resume with the wrong inputs and a retry with another output exist; two
  phases, so that there is a first and a later link of the chain.
* `run_execution`: one pid living twice, a hard limit of 2 and a clock to 3, so
  that a result can be early, on the limit and late, a session can exceed the
  limit in its second attempt only, and a death can be charged; one damaged
  artifact; coordinators with and without a write guard.
* `artifact_store`: one content under two media types and two manifests of one
  snapshot make every conflict of `record_artifact`; one damage and one power
  loss at any moment. Different contents do not meet in the protocol: they have
  different paths and rows.
* `matchweek_selection`: two v1 candidates with different cutoffs, a v2 and a
  legacy one in one week and a v2 in another; two graphs per candidate; four
  instants, so that each of observation, commit and acknowledgement falls
  before, on or after a cutoff; two owner records, so that an approval becomes
  stale or is withdrawn.
* `backup_restore`: one backup process at a time, which may be started again and
  again (of two that overlap, `backup_overwrites` shows what becomes, and the
  theorems speak for any number); two objects, so that a bundle can be half filled;
  two commits; two releases, either installed at any time; one lost file.
* `store_opening`: three releases with 1, 2 and 4 migrations, so that an upgrade
  has a middle and an older release can find it there; five calls, so that an
  upgrade is tried and killed repeatedly; two processes; one damage.
* `source_download`: two versions of the source, of two and of three blocks (so
  that a resumption can end in the middle of a longer or a shorter version), a
  page of two blocks with its phrase in the second, so that it is cut off before
  and after the phrase; a source bound that just admits the longer version, budgets
  of the fetch and of the process that either can exhaust first, one retry, one
  redirect, three fetches, one kill and one withdrawal at any moment.
* `matchweek_freeze`: lead 1 and a window of two kickoffs; five revisions of two
  fixtures, of which one goes back and forth, is postponed, or moves out of the
  window; one unresolved row; three imports with a delay of up to 1, so that a
  capture from before the cutoff comes after it; two appends and one kill.
* `settlement`: seven records that correct, contest, repeat or fall behind one
  another on three levels, nine packs of them, a preference of each kind of
  facts; three calls, so that a correction is itself overtaken, and one kill.
* `enrolment`: two rows, so that a batch and its records can be half published;
  three instants with the cutoff at 1 and kickoff at 3, so that a stamp can be
  early, in time and late; four calls (enrol, retry, and two that meet what these
  left), one kill, two failures that pass, three nonces for at most two attempts,
  two versions of the trust metadata.

Every bound is a constant named in the module's `CONSTANTS` and appears in the
guard of the action it limits (`CallStart` for runs, `CallResume` for attempts,
`Spawn`, `Tick`, `PublishManifest`, `Damage`, `OwnerAppends`, `AcquireWriterLock`…).

### Fairness

Two runs need any. In `run_execution`, `FairSpec` assumes that a living process
takes its next own step (`WF` of `Proceed(p)`: the coordinator is sequential code
that waits for nobody, and the operating system schedules it) and that time
passes (`WF` of `Tick`). Nothing is assumed of the executor, which may hang for
ever, of the people who start processes, or of failures, except the two the
state forces (`GateAdmits` and a damaged result). `CallsEnd` then shows that the
watchdog alone bounds a call. A call that begins so late that the bounded clock
cannot reach its limit is excepted in the property.

In `source_download`, `FairSpec` assumes `WF` of `Step`: a fetch is one thread, and
every read and sleep in it has a timeout. Which step it takes, a failure
included, is not assumed. `FetchEnds` shows that the counters alone end the loop,
whatever names, connections and answers do.

### What the violation shows

The run quotes a sentence of the repository that the code does not keep; its
trace is the argument. None of the passing properties depends on it.

* `backup_overwrites`: "immutable bundles are never overwritten", but of two
  backups to one destination the second may overwrite, or remove when it fails,
  what the first reported COMPLETE.

### Observations without a run

Seen while modelling, each at its line, none contradicted by a passing property.
The first four were runs of an earlier version of this suite.

* "A lower source cannot replace a complete higher source"
  (`docs/settlement-grading.md:11`), but an unresolved grade of the same level
  comes between and has no level of its own: WIN by the competition, PENDING,
  LOSS by the data provider (`t10.py:2072`). What one call may do is right
  (`LowerEvidenceIsInert`); a sequence of three is not.
* A publication interrupted between rename and directory fsync and then retried
  takes the reuse path, which syncs nothing (`artifacts.py:989`;
  `docs/artifacts.md:11` says the directory is fsynced before the catalog row). A
  protected graph is safe: `_sync_graph` syncs every member.
* A candidate publication may commit after the cutoff: `publish_artifact` does not
  recheck after the commit, only its callers do (`artifacts.py:595`;
  `docs/matchweek-research.md:20`).
* A restore looks for an existing target once, before it stages and verifies the
  bundle, and replaces what has appeared since (`t17.py:1340`;
  `docs/local-store.md:120`).
* A failed or killed restore leaves the objects directory it made, and later
  restores to that target are refused (`t17.py:1189`).
* A cache whose two files do not fit, as after a kill between them, is refused by
  every later fetch; nothing removes it. A complete partial file, kept because the
  cache was full, is asked for from its end, which a server answers with 416,
  and stays (`ingestion.py:3584`).
* A freeze made before its own cutoff does not see what is observed between the
  two, and the appendix takes only what is observed after the cutoff
  (`matchweek.py:1612`). Repeating `append_post_cutoff_changes` after a withdrawal
  appends further WITHDRAWN entries for earlier revisions of the fixture.
* Grading again from an older input undoes a correction: within one level the
  newest call wins (`t10.py:2056`).
* A store killed between `application_id` and `journal_mode` is not recognised
  as new; copies of unfinished upgrades stay (`store.py:3418`, `store.py:4364`).
* `doctor` reads version, ledger and schema in separate statements
  (`store.py:5535`); where `/proc` cannot be read all owner tokens of a pid are
  equal (`runs.py:1689`).
* An enrolment record is published before it is compared with the others of its
  row (`cb01.py:1056`). When the first attempt had a good answer whose trust did
  not replay when it was looked at, and a second attempt was published, driving
  the first one again leaves a conflicting record, and the publication can neither
  be replayed nor enrolled again. The run reaches this; `PublicationIsWhole` bounds
  it: the record is one of the first row, it takes a good answer that was passed
  over (`GoodAnswerPassedOver`), and the publication keeps its verdict and all its
  own records.
* A verification that failed for a passing reason is published all the same, and
  every later drive of the attempt, which finds another verdict, raises; so does
  the retry that `docs/design/cb01-operator-workflow.md:44` provides, since `resume`
  drives before it retries.
* `replay` takes a publication whose trust does not replay for a success: it does
  not look at what `_finish_result` returns. A retry is not limited to the time
  before kickoff (`docs/design/cb01-enrollment-contract.md:89`); a stamp from after
  it is refused all the same, which `WitnessedInTime` shows. Two attempts answered
  with the same bytes collide in `_publish_raw`, and the later one ends up as
  UNAVAILABLE.
* An outcome fact attachment names the digest of the source files of its rules
  (`cb01.py:2153`), and a replay compares it with the files installed now
  (`cb01.py:1965`). A release that changes `t10.py` or `t12.py` in any byte makes
  every earlier attachment fail its replay; one interrupted after its fact
  can no longer be finished, although "identical retries replay"
  (`docs/design/cb01-enrollment-contract.md:112`).
* Reports (`t16.py`, `_latest_publication`): publishing an older audit again after a
  newer one keeps the old marker's time, so readers still show the newer one;
  `read_report` looks up the latest marker twice and may take what was published
  in between for a damaged record.

## 4. What is proved

`tlapm M.tla` for the eight proof modules. The theorems hold for every value of
the constants that the named assumptions allow: the bounds are any natural
numbers, null values are outside the sets they are compared with
(`NullAssumption`, `BoundsAssumption`, `TimesAssumption`, `CandidatesAssumption`,
`BackupAssumption`, `StoreAssumption`, `DownloadAssumption`, `NoneAssumption`, `FreezeAssumption`,
`EnrolmentAssumption`, `SubjectAssumption`, `SettlementAssumption`). TLC evaluates these assumptions in the passing runs.

| Theorem | States | Argument |
|---|---|---|
| `RunLifecycleProofs!TypeCorrect` | `TypeOK` of the coordinator | `TypeInv` adds `SessionOK`, what a call's locals hold at each program point, and `AttemptsOK` (no attempt starts in the future, only existing runs have one): without them `elapsed` need not be a natural number nor a row be found |
| `RunLifecycleProofs!AtMostOneRunningAlways` | `AtMostOneRunning` | `LockInv`: whoever has the store open holds the lock, alone. `SweepInv`: from its sweep on, a coordinator knows every RUNNING attempt, none or its own. Exclusion alone is not inductive: `StartAttempt` is safe only because the sweep came first and nobody could start one since. Holds with and without a readable `/proc` |
| `RunLifecycleProofs!TablesAgreeAlways`, `OnlyAbandonedAlways` | `TablesAgree`, `OnlyAbandonedAreInterrupted` | `OwnInv`: a RUNNING attempt names its coordinator as owner, and that process, if alive, stands between the start and the close of just this attempt. So whoever finds it either is the owner or sees that the owner has ended |
| `RunLifecycleProofs!CheckpointChainAlways`, `CompletionAttestsAlways`, `NoCompatibleTwinsAlways` | `CheckpointChain`, `CompletionAttests`, `NoCompatibleTwins` | `ChainOK` says of a run's checkpoints that they are those of the phases 1..n, each from the one before. `FollowInv`: the todo list and the predecessor that `_execute` read once are still those of the tables, and a published completion awaits its row: without it the next checkpoint could be anybody's |
| `RunLifecycleProofs!HistoryIsFinalAlways` | `HistoryIsFinal` | every step that writes a row finds it absent or open; `CompletedRunsStay` rests on `FollowInv` (nobody is still inside a COMPLETE run) |
| `RunLifecycleProofs!ElapsedAlwaysAccounts` | `ElapsedAccounts` | `UnpaidInv`: an attempt that is not closed has cost nothing yet, so closing it moves its own `elapsed` and that of its run by the same amount. `SumMoves`: a sum over a finite set moves by what its one changed term moves by, in whatever order it is taken. A RUNNING attempt belongs to an unfinished run (`RunningIsUnfinished`, from `CompletionAttests` and `TablesAgree`), otherwise the UPDATE of `research_runs` would match no row and the time would be lost |
| `RunLifecycleProofs!PromiseKept` | `KeepsItsPromise`: the coordinator implements `ResumableRun` | simulation step by step: `CreateOpens`, `CheckpointExtends` and `CompleteSeals` map to the three actions of the ledger, every other step to a stutter. That a run's ledger is a sequence is `ChainOK` |
| `RunLifecycleProofs!ReportCoherent` | `ReportIsCoherent`, for the reader composed with any coordinators | `LastInv` ties `last_checkpoint` to the checkpoint rows; `ReaderInv`: what the first read returned bounds what later reads can return, since checkpoints are only added and COMPLETE is final |
| `PersistenceProofs!CatalogBacked`, `ManifestsClosed`, `IntactAdmission` | `CatalogIsBacked`, `ManifestsAreClosed`, `OnlyIntactIsAdmitted` | `PlacedInv`: what is about to be catalogued is intact at its path, since the writer installed or verified it and damage at rest does not happen in that instant. `JobInv`: its members are catalogued |
| `PersistenceProofs!ProtectedGraphDurable` | `ProtectedGraphSurvives`, for any number of power failures | `SyncedInv` and `DurableInv`: a protected graph is on the disk, not only in the page cache, before its row is committed |
| `PersistenceProofs!NoFalseAlarm` | `AlarmsAreReal`, for the inspector composed with the store | `DetailInv`: a manifest row never is without its members and versions, because one transaction inserts them. `ReadsInv`: what was read is still in the tables, and a digest that has had its turn has got all its rows; hence `ComparedWhole`: once the statements are done, only damage tells a manifest's file from its rows. `CatalogIsBacked` then applies to the files; `StoreAccumulates`: rows and marks of damage are never undone |
| `PersistenceProofs!MarketsAlwaysAgree` | `MarketsAgree` | `ChainsAlike`: preferences that need the same facts have current grades of the same evidence, level and reason, or none. `MergeAlike`: a merge keeps this, since `_effective_grade` looks at nothing of a grade that two such preferences do not share. `CommitMergesAll`: a committed call has merged every preference, so no two of them are ever a call apart |
| `PersistenceProofs!LowerIsInert` | `LowerEvidenceIsInert` | `LowerStays`: each of the three ways in which a grade may be of a lower level (its own level, a conflict among lower sets, no level of its own over a pack of lower ones) is one in which `_effective_grade` keeps what there is |
| `PersistenceProofs!CallsAreAtomic`, `HistoryOnlyGrows`, `ReferenceIsFinal` | `OneCall`, `ChainsGrow`, `ReferencesKept` | `GradesReplay` (what is stored are grades of the catalog) and `CallFits` (what the transaction holds is, for the preferences it has come by, the merge of the stored grades with the matrix of the call) |
| `MatchweekSelectionProofs!InTime` | `QualifiedWasInTime` | `ReceiptInv`: a receipt's bound is not earlier than the commit of its selection and before the cutoff; `OpInv` carries both through the phases of the operation |
| `MatchweekSelectionProofs!OneChain` | `OneCandidateChain` | `WriteInv`: between guard and commit no competitor can have been admitted; `ChainInv` follows since `Conflicts` is symmetric |
| `MatchweekSelectionProofs!Final`, `NeverLater` | `SelectionIsFinal`, `NeverQualifiedLater` | `OpenInv`: while an operation occupies a Matchweek, its receipt has not been written. With `WhoWrites` (one action writes each slot) a retry finds its slot taken, and a selection without an operation never gets its receipt |
| `MatchweekSelectionProofs!UntilWithdrawn` | `OnlyWithdrawalDisqualifies` | from `Final`: what is written stays, so that of the conditions of `Qualified` only the withdrawal can change |
| `BackupRestoreProofs!TypeCorrect`, `AlwaysWhole`, `Faithful` | type correctness, `TargetIsWhole`, `RestoreIsFaithful`, for any number of artifacts and of backups that run at once | `SourceInv`: every database in a backup's hands or in the bundle is one the source committed. `RestoreInv`: what a restore has verified at each point, and that a database it has not made is not there. `FinalInv`: a COMPLETE restore is the last one at its target |
| `BackupRestoreProofs!RestoreAppearsAtomic` | `RestoreIsAtomic`: the restore implements `AtomicRestore` | simulation step by step. `ShownIsSeen`: by `TargetIsWhole` nothing is missing of what is shown. `Appears` (only the rename of the database shows anything, and `RestoreInv` knows that it is a source state brought forward, at an empty target), `Disappears` (the cleanup takes it first), `SourceAdvances`; `NothingShows` for all else |
| `BackupRestoreProofs!AckedKept` | `AckedBundleIsKept`, for any number of backups that run at once | `AloneInv`: while a backup is alone the marker in the bundle is its own, and what it has verified is its own (`WholeIsBundle`). `GivenIsTrue`: so it is told COMPLETE only of a whole copy. `RestsOn`: a backup that is not at work yet finds the destination and refuses. What a backup may do that had begun before is `backup_overwrites` |
| `StoreOpeningProofs!Covered` | `UpgradeIsCovered` | `BaseInv`, `CallInv`, `StepInv`: a call that is migrating from what the operator last had holds a whole copy of it, and a call only ever removes its own |
| `StoreOpeningProofs!UpgradeAppearsAtomic` | `UpgradeIsAtomic`: `open_store` implements `AtomicUpgrade` | `NothingIsLost`: what can be got back is what the last completed upgrade or transaction left (`base`). `UpInv`: nothing was ever committed to a store nobody could open, and what is opened is `base`. So `FinishMigrations` creates or upgrades, `Commit` commits, and all else is a stutter |
| `StoreOpeningProofs!NewIsNew`, `NewerUntouched` | `NewIsReallyNew`, `NewerStoreIsUntouched` | `LockInv` (the database is looked up under the lock) and `StepInv` (from `verified` on the schema is not newer than the release) |
| `SourceDownloadProofs!Retained`, `Served`, `Unchallenged`, `Bounded` | `RetainedIsWhole`, `ServedWasRetained`, `RefusalIsNeverRetained`, `BoundsHold`, for any versions of any length and any budgets | `OffsetIsKept` (the resume offset is the length of the partial file), `BodyFits` (the next block is the one after the last), `ReceivedIsWhole` and `InstalledIsWhole` carry order and completeness from the body to the cache, and that no phrase was found in what was admitted (`Clean`); `CanRequest` says that a budget tested in one step is still there in the next |
| `SourceDownloadProofs!CacheAppearsAtomic` | `CacheIsAtomic`: the downloader implements `AtomicCache` | simulation step by step. `WorksOnPaired`: a fetch past the check works on a cache whose two files belong together, so that only its own `Install` parts them (`InstallIsSeen`). `FileIsCopy`: what is installed is in order and whole if announced, and so a copy with its description. `FetchIsSeen` answers only from paired files (`TornIsUnpaired`), `MetadataIsSeen` puts, `KillIsSeen` gives up; all that lies between is a stutter (`Aside`) |
| `SourceDownloadProofs!FetchesAreBounded` | the safety half of `FetchEnds`: every fetch ends after at most `9 * (RetryCount + RedirectCount) + 8 + OpBytes` of its steps | the measure `StepsLeft`: turns left, then the way to the end of a turn, then bytes left. `TurnsInv` bounds it; `StepIsNearer`: every step ends the fetch, brings it nearer to the end of its turn, reads on or begins another turn. Neither a redirect nor a retry gives turns back |
| `RunLifecycleProofs!CallsAreBounded` | the safety half of `CallsEnd`: a call to `start()` or `resume()` takes at most `4 * NumPhases + 4` steps | the measure `CallLeft`, four steps for each phase on the todo list. It falls because a session between `StartAttempt` and the close of its attempt is at a phase it still has to do (`HistoryInv`), and a checkpoint takes that phase off the list. `OthersStand`: no process moves another |
| `RunLifecycleProofs!StatementsAlwaysFit` | `StatementsFit`: what each statement of a call expects of the rows is so when it runs, and what refuses the resume of an open run with its own contract is a damaged artifact, never its history | from the invariants above: `ExecutingFits` (`FollowInv`), `AttemptingFits` (`OwnInv`, `SweepInv`), `CompletingFits` (`CheckpointChain` counts to `NumPhases`), `OpenRunContinues` (a chain whose keys and contracts are those of its run verifies against it, and its last output is there) |
| `MatchweekFreezeProofs!Led`, `Replayable`, `WithdrawnForGood`, `PassCompletes` | `CutoffLeadsMembers`, `FreezeIsReplayable`, `WithdrawalIsFinal`, `PassIsComplete`, for any revisions, windows and leads | `FreezeFits`: what a manifest says was true when it was published, and what it rests on (`SourcesFit`: captures are only added, a first capture never changes) stays true. `AppendixFits`: only members are withdrawn, and an ending event withdraws its member. `PassSoFar`: what a pass has taken off its list is accounted for. Minima exist by well-founded induction on `<` |
| `EnrolmentProofs!InTime`, `Budget`, `Exact`, `Stands` | `WitnessedInTime`, `RequestBudget`, `GraphIsExact`, `PublicationIsWhole`, for any number of rows, calls and deaths and any times | `References`: every artifact refers to one that is there, and what has left has its attempt. `Attempted`: no attempt, the normal one, or a retry of one that has its result. `Retained`, `Told`: nothing is retained twice, a result repeats its response, a verified one was stamped. `OpFits` says which artifacts of the attempt are *not* there yet at each point of a call: without it neither the single sending nor the single result is inductive. `RecordInv` is what `Stands` needs besides: a call that is past the first row saw no record of another attempt, and the records of an attempt begin with the first row; so the comparison, although it comes after the publication, stops the second attempt at its first record. Records of two attempts rest on a good answer of both (`BothVerified`) |

`TypeOK`, `OnlyIntactIsAdmitted`, `SelectionIsFinal`, `OneCall`, `ChainsGrow` and
`ReferencesKept` hold for every instance by these proofs and are in no run any
more; `UpgradeIsCovered`, `TargetIsWhole` and `ServedWasRetained` are not either, because
`UpgradeIsAtomic`, `RestoreIsAtomic` and `CacheIsAtomic`, which take their places, fail
where they would. The other properties of the table are checked by a run as well.

Each module proves `Init => Inv` and `Inv /\ [Next]_vars => Inv'` with one lemma per
group of actions, and the theorem by PTL. The inductive invariants were checked
with TLC before they were proved.

An assumption of the artifact model to know of: damage to an object strikes
while the writer is idle or down, not in the moment between verifying an
object and committing its row (`Damage`).

### What is only model-checked

* Liveness (`CallsEnd`, `FetchEnds`): the prover does not reach ENABLED and
  fairness. That neither a call nor a fetch can go on for ever is proved
  (`CallsAreBounded`, `FetchesAreBounded`); what TLC alone checks is that neither
  stops on its way: in every state in between, a step or the watchdog is enabled,
  and the fairness stated in section 3 makes it happen. For a call that part is
  proved too, short of ENABLED itself: the rows its next statement needs are there
  (`StatementsAlwaysFit`).

Sums and minima over sets are defined by recursion, and the library's induction
theorems take an operator as a parameter, which no installed prover instantiates.
Where a proof needs such an argument it is made by least counterexample: a set of
natural numbers that is not empty has a least element (`WFMin`), the sizes at
which a statement fails are such a set, and the least of them leads to a
contradiction (`SumsExist`, `SumsMove` in `RunLifecycleProofs`).

## 5. What is not modelled, and why

* Numerical models, calibration, ranking and grading tables over floating-point
  data (`t11.py`–`t15.py`): no state a model checker could explore.
* Parsing, canonical JSON, identifiers, TUF and RFC 3161 verification: verdicts.
* Network transport beyond the single dispatch of the witness request.
* `preflight_resources`, `inspect_store`, table-specific triggers and
  `export_matchweek`: within the modelled files, but not in the modules (the
  components are marked `partly` for it). What the triggers of the run tables
  enforce is stated as a property (`HistoryIsFinal`), so that they never fire.
* The importer that turns retained bytes into revisions, and the parsing of feeds;
  `MatchweekFreeze` takes its effect on revisions and captures as `Import`.
* Of the freeze: marks of material conflicts on members and entries, the parsing
  of manifests at replay, and the run of the coordinator it may be wrapped in
  (`RunLifecycle` has the executor as a step).
* The adaptation of V2 evaluations to the grader, and its chains of facts and
  versions (`f19.py`).
* Where `/proc` cannot be read, a dead owner looks alive. `StatReadable` is a
  constant; the runs assume it true, the exclusion theorem does not.
* Everything listed as `not_modelled` in `PROJECT.json`, with its reason.

## 6. Plan

The order follows what a loss would cost: first what every command relies on
(runs, artifacts, selection, backup, store opening), then what decides about a
Matchweek (downloads, freeze, grades, enrolments), all above; then the remaining append-only
domains.

The suite keeps to a dozen TLC runs, each under five minutes, so that it can be
re-run whole. When a module is added, a run of the table above that has said
what it has to say makes room, a violation first.

1. `Outcomes`, composed with `Enrolment` and `Settlement`: the outcomes attached to
   an enrolment (`attach_outcome`, `f19.py`), the denominator view and the
   evaluation; an attachment interrupted after its fact has to be repeated with
   the same evidence.
2. `PolicyEvaluation` (`t18.py`) and `ReportPublication` (`t16.py`): an
   interrupted evaluation resumes to the result an uninterrupted one has
   (refinement of one atomic evaluation); a report is visible only behind its
   completion marker. `export_matchweek` joins `BackupRestore` here.
3. `Membership` (`matchweek_membership*.py`, `match_evidence_cutoff.py`):
   decisions of policies 2 and 3 and append-only observations after the freeze,
   composed with `MatchweekFreeze`; its cutoffs then replace the constants of
   `MatchweekSelection`.
4. `Ingestion` and `Evidence` (`ingestion.py`, `evidence.py`, `t09.py`):
   append-only assertions, corrections and conflicts; what a frozen state admits
   never changes with later corrections. `ProviderHealth` and `FixtureCoverage`
   as append-only records.
5. Pure functions: `preflight_resources` and the preference ordering of `t15.py`
   against reference definitions.

Theorems: one write-once theorem for each append-only domain that is added.
