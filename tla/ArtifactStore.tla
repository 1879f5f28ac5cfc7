----------------------------- MODULE ArtifactStore -----------------------------
(***************************************************************************)
(* Publication into the content-addressed store of src/matchvet/           *)
(* artifacts.py: ArtifactStore.publish_artifact, _publish_manifest and     *)
(* _publish_object, with the catalog tables of store.py.                   *)
(*                                                                         *)
(* There is one writer at a time (the lock of RunLifecycle), so one program *)
(* counter is enough; it may be killed between any two steps, and the      *)
(* machine may lose power.  The file system is the page cache (files) and   *)
(* the directory entries that have reached the disk (disk).  Distinct       *)
(* digests lie in distinct directories: syncing one tells nothing of        *)
(* another.                                                                 *)
(***************************************************************************)
EXTENDS Integers, FiniteSets

CONSTANTS
  Blobs,         \* contents given to publish_artifact, named by their digest
  Medias,        \* media types
  Snapshots,     \* snapshot ids
  NoJob,         \* null value
  MaxStamps,     \* bound: manifests ever built
  MaxDamage,     \* bound: objects struck by disk damage
  MaxPowerLoss   \* bound: power failures

ASSUME BoundsAssumption ==
  MaxStamps \in Nat /\ MaxDamage \in Nat /\ MaxPowerLoss \in Nat

\* The bytes of a published manifest hold its verification time, so publishing
\* the same snapshot twice makes two different objects.
ManifestObjects ==
  [snapshot : Snapshots, members : SUBSET Blobs, stamp : 1..MaxStamps]

Objects == Blobs \cup ManifestObjects

Jobs == [object : Objects, media : Medias \cup {"manifest"}, protected : BOOLEAN]

ASSUME NullAssumption ==
  NoJob \notin Jobs /\ Blobs \cap ManifestObjects = {} /\ "manifest" \notin Medias

VARIABLES
  pc,        \* where the writer is
  job,       \* what it is publishing
  stage,     \* digests with .partial files under staging/artifacts, however many
  files,     \* objects that exist under objects/sha256
  bad,       \* those whose bytes have been altered
  disk,      \* objects whose directory entry is on the disk
  catalog,   \* table artifacts
  manifests, \* table snapshot_manifests
  manifestArtifacts, \* table manifest_artifacts
  manifestVersions,  \* manifests that have their rows of table manifest_versions
  stamp,     \* manifests built so far
  struck,    \* history: objects ever damaged
  power      \* history: power failures

details == <<manifestArtifacts, manifestVersions>>
vars == <<pc, job, stage, files, bad, disk, catalog, manifests, details, stamp,
          struck, power>>
world == <<struck, power>>

Pcs == {"down", "idle", "recovery", "staging", "staged", "installed", "placed", "synced"}
Publishing == Pcs \ {"down", "idle", "recovery"}

Intact(o) == o \in files \ bad
Catalogued == {row.digest : row \in catalog}

Init ==
  /\ pc = "down"
  /\ job = NoJob
  /\ stage = {} /\ files = {} /\ bad = {} /\ disk = {}
  /\ catalog = {} /\ manifests = {} /\ manifestArtifacts = {} /\ manifestVersions = {}
  /\ stamp = 0
  /\ struck = {} /\ power = 0

-----------------------------------------------------------------------------
(* The writer *)

\* open_store: _verify_artifact_objects decides between READ_WRITE and
\* READ_ONLY_RECOVERY, in which nothing can be published.
Open ==
  /\ pc = "down"
  /\ pc' = IF \A o \in Catalogued : Intact(o) THEN "idle" ELSE "recovery"
  /\ UNCHANGED <<job, stage, files, bad, disk, catalog, manifests, details, stamp, world>>

\* Close, exit or kill: files stay as they are.
Stop ==
  /\ pc # "down"
  /\ pc' = "down" /\ job' = NoJob
  /\ UNCHANGED <<stage, files, bad, disk, catalog, manifests, details, stamp, world>>

\* discard_incomplete_staging, called by RunCoordinator.start and resume.
DiscardStaging ==
  /\ pc = "idle"
  /\ stage' = {}
  /\ UNCHANGED <<pc, job, files, bad, disk, catalog, manifests, details, stamp, world>>

\* _publish_object creates the partial file first.
BeginStaging(j) ==
  /\ pc = "idle"
  /\ pc' = "staging" /\ job' = j
  /\ stage' = stage \cup {j.object}
  /\ UNCHANGED <<files, bad, disk, catalog, manifests, details, world>>

PublishArtifact(b, media) ==
  /\ BeginStaging([object |-> b, media |-> media, protected |-> FALSE])
  /\ UNCHANGED stamp

\* _publish_manifest up to _publish_object.  Every member verifies.  A snapshot
\* that is already published with the same content is returned as it is, which
\* changes nothing; a protected one (a research operation) must be new.
PublishManifest(s, members, protected) ==
  LET published == {row \in manifests : row.object.snapshot = s}
      object == [snapshot |-> s, members |-> members, stamp |-> stamp + 1]
  IN
  /\ stamp < MaxStamps
  /\ \A b \in members : b \in Catalogued /\ Intact(b)
  /\ \A row \in published :
       ~protected /\ Intact(row.object) /\ row.object.members # members
  /\ stamp' = stamp + 1
  /\ BeginStaging([object |-> object, media |-> "manifest", protected |-> protected])

\* Written, fsynced, read back and found to be what its digest says.
FinishStaging ==
  /\ pc = "staging"
  /\ pc' = "staged"
  /\ UNCHANGED <<job, stage, files, bad, disk, catalog, manifests, details, stamp, world>>

\* renameat2(RENAME_NOREPLACE) puts the staged file at its digest path.
Install ==
  /\ pc = "staged"
  /\ job.object \notin files
  /\ pc' = "installed"
  /\ files' = files \cup {job.object}
  /\ stage' = stage \ {job.object}
  /\ UNCHANGED <<job, bad, disk, catalog, manifests, details, stamp, world>>

\* The digest path exists: its bytes are verified and the staged file dropped.
\* No directory is synced.  Altered bytes are an error (Fail).
Reuse ==
  /\ pc = "staged"
  /\ Intact(job.object)
  /\ pc' = "placed"
  /\ stage' = stage \ {job.object}
  /\ UNCHANGED <<job, files, bad, disk, catalog, manifests, details, stamp, world>>

\* _fsync_directory(target.parent).
SyncDirectory ==
  /\ pc = "installed"
  /\ pc' = "placed"
  /\ disk' = disk \cup {job.object}
  /\ UNCHANGED <<job, stage, files, bad, catalog, manifests, details, stamp, world>>

\* The graph of a selection that syncs its manifest and trusts its members.
SyncGraph_ManifestOnly ==
  /\ pc = "placed"
  /\ job.protected
  /\ pc' = "synced"
  /\ disk' = disk \cup {job.object}
  /\ UNCHANGED <<job, stage, files, bad, catalog, manifests, details, stamp, world>>

\* _sync_graph: a research manifest and every member, with all directories.
SyncGraph ==
  /\ pc = "placed"
  /\ job.protected
  /\ \A b \in job.object.members : Intact(b)
  /\ pc' = "synced"
  /\ disk' = disk \cup {job.object} \cup job.object.members
  /\ UNCHANGED <<job, stage, files, bad, catalog, manifests, details, stamp, world>>

\* snapshot_manifests without its unique snapshot id.
Admissible_AnySnapshot(j) ==
  \A row \in catalog : row.digest = j.object => row.media = j.media

\* record_artifact refuses a row that differs from the one it has; a snapshot
\* id is unique.
Admissible(j) ==
  /\ \A row \in catalog : row.digest = j.object => row.media = j.media
  /\ j.object \in ManifestObjects =>
       \A row \in manifests : row.object.snapshot # j.object.snapshot

\* The catalog transaction before the object is installed.
Commit_CatalogFirst ==
  /\ pc = "staged"
  /\ pc' = "staged"
  /\ Admissible(job)
  /\ catalog' = catalog \cup {[digest |-> job.object, media |-> job.media]}
  /\ UNCHANGED <<job, stage, files, bad, disk, manifests, details, stamp, world>>

\* The row of the job's object, and of its manifest.
CatalogRow == [digest |-> job.object, media |-> job.media]
ManifestRow == [object |-> job.object, protected |-> job.protected]

\* record_manifest_artifact and record_manifest_version for every reference of
\* the manifest.
RecordDetails ==
  IF job.object \in ManifestObjects
  THEN /\ manifestArtifacts' = manifestArtifacts \cup
            {[manifest |-> job.object, member |-> b] : b \in job.object.members}
       /\ manifestVersions' = manifestVersions \cup {job.object}
  ELSE UNCHANGED details

ManifestRecorded == \E row \in manifests : row.object = job.object

\* A manifest's members and versions in a second transaction.
Commit_DetailsLater ==
  /\ pc = IF job # NoJob /\ job.protected THEN "synced" ELSE "placed"
  /\ ManifestRecorded \/ Admissible(job)
  /\ catalog' = catalog \cup {CatalogRow}
  /\ manifests' = IF job.object \in ManifestObjects THEN manifests \cup {ManifestRow}
                  ELSE manifests
  /\ IF job.object \in Blobs \/ ManifestRecorded
     THEN pc' = "idle" /\ job' = NoJob /\ RecordDetails
     ELSE UNCHANGED <<pc, job, details>>
  /\ UNCHANGED <<stage, files, bad, disk, stamp, world>>

\* The catalog transaction, durable when it commits (WAL, synchronous = FULL).
Commit ==
  /\ pc = IF job # NoJob /\ job.protected THEN "synced" ELSE "placed"
  /\ Admissible(job)
  /\ pc' = "idle" /\ job' = NoJob
  /\ catalog' = catalog \cup {CatalogRow}
  /\ manifests' = IF job.object \in ManifestObjects THEN manifests \cup {ManifestRow}
                  ELSE manifests
  /\ RecordDetails
  /\ UNCHANGED <<stage, files, bad, disk, stamp, world>>

\* An ArtifactError or OSError: the partial file is removed.  In the catalog
\* transaction, a refusing write guard or a rollback.
Fail ==
  /\ pc \in Publishing
  /\ pc' = "idle" /\ job' = NoJob
  /\ stage' = stage \ {job.object}
  /\ UNCHANGED <<files, bad, disk, catalog, manifests, details, stamp, world>>

\* Any other exception (a KeyboardInterrupt) leaves the partial file behind.
Interrupt ==
  /\ pc \in {"staging", "staged"}
  /\ pc' = "idle" /\ job' = NoJob
  /\ UNCHANGED <<stage, files, bad, disk, catalog, manifests, details, stamp, world>>

-----------------------------------------------------------------------------
(* The machine *)

\* An object at rest is lost or altered.
Damage(o) ==
  /\ o \in files
  /\ o \notin struck
  /\ Cardinality(struck) < MaxDamage
  /\ pc \in {"down", "idle"}
  /\ struck' = struck \cup {o}
  /\ \/ files' = files \ {o} /\ disk' = disk \ {o} /\ bad' = bad \ {o}
     \/ bad' = bad \cup {o} /\ UNCHANGED <<files, disk>>
  /\ UNCHANGED <<pc, job, stage, catalog, manifests, details, stamp, power>>

\* What has not been synced may or may not survive.
PowerLoss ==
  /\ power < MaxPowerLoss
  /\ power' = power + 1
  /\ pc' = "down" /\ job' = NoJob
  /\ \E lost \in SUBSET (files \ disk), kept \in SUBSET stage :
       /\ files' = files \ lost
       /\ bad' = bad \ lost
       /\ disk' = files \ lost
       /\ stage' = kept
  /\ UNCHANGED <<catalog, manifests, details, stamp, struck>>

Next ==
  \/ Open \/ Stop \/ DiscardStaging
  \/ \E b \in Blobs, media \in Medias : PublishArtifact(b, media)
  \/ \E s \in Snapshots, members \in SUBSET Blobs, protected \in BOOLEAN :
       PublishManifest(s, members, protected)
  \/ FinishStaging \/ Install \/ Reuse \/ SyncDirectory \/ SyncGraph \/ Commit
  \/ Fail \/ Interrupt
  \/ \E o \in Objects : Damage(o)
  \/ PowerLoss

Spec == Init /\ [][Next]_vars

-----------------------------------------------------------------------------
(* Properties *)

\* The shape of the catalog, the file system and the writer's job.
TypeOK ==
  /\ pc \in Pcs
  /\ job \in Jobs \cup {NoJob}
  /\ pc \in Publishing <=> job # NoJob
  /\ stage \subseteq Objects /\ files \subseteq Objects
  /\ bad \subseteq files /\ disk \subseteq files
  /\ catalog \subseteq [digest : Objects, media : Medias \cup {"manifest"}]
  /\ manifests \subseteq [object : ManifestObjects, protected : BOOLEAN]
  /\ manifestArtifacts \subseteq [manifest : ManifestObjects, member : Blobs]
  /\ manifestVersions \subseteq ManifestObjects
  /\ stamp \in 0..MaxStamps
  /\ struck \subseteq Objects
  /\ power \in Nat

\* Artifact first: while the power holds, a committed catalog row always has its
\* object, whatever was killed, raised or retried, so that only damage can send
\* the store into read-only recovery.
CatalogIsBacked == power = 0 => Catalogued \ struck \subseteq files \ bad

\* Deduplication and retries never admit altered bytes into the catalog.
OnlyIntactIsAdmitted ==
  [][\A o \in Objects : o \notin Catalogued /\ o \in Catalogued' => Intact(o)]_vars

\* A research selection is durable with its complete graph (ADR 0001): even a
\* power failure right after the commit loses neither it nor a member, also a
\* member that an earlier interrupted publication had left unsynced.
ProtectedGraphSurvives ==
  \A row \in manifests : row.protected =>
    ({row.object} \cup row.object.members) \ struck \subseteq files \ bad

\* A published manifest stays the only one of its snapshot, and its members stay
\* catalogued: a conflicting or repeated publication leaves at most an orphan.
ManifestsAreClosed ==
  \A row \in manifests :
    /\ {row.object} \cup row.object.members \subseteq Catalogued
    /\ \A other \in manifests : other.object.snapshot = row.object.snapshot => other = row
=============================================================================
