----------------------------- MODULE BackupRestore -----------------------------
(***************************************************************************)
(* `matchvet backup` and `matchvet restore` of src/matchvet/t17.py.         *)
(*                                                                         *)
(* Neither takes the writer lock.  A backup copies the database and every   *)
(* catalogued object of a store that a writer may be extending into a       *)
(* bundle, marker last; a restore copies a bundle to a new target,          *)
(* database last.  Either may fail or be killed between any two files.      *)
(*                                                                         *)
(* A database is named by what tells two of them apart: its catalog, how    *)
(* many commits it has seen and its schema version.  A manifest and a       *)
(* completion marker are named by the database they describe.  A file that  *)
(* was altered is one that is missing: both are refused by the same checks. *)
(***************************************************************************)
EXTENDS Integers, FiniteSets

CONSTANTS
  Objects,     \* artifacts, named by their digest
  Backups,     \* processes that run matchvet backup to one destination
  None,        \* null value
  MaxCommits,  \* bound: commits of one database
  MaxDamage    \* bound: files lost from the source store or from the bundle

Schemas == 1..2  \* len(MIGRATIONS) of two releases of the application

Databases ==
  [objects : SUBSET Objects, commits : 0..MaxCommits, schema : Schemas]

ASSUME BackupAssumption ==
  /\ MaxCommits \in Nat /\ MaxDamage \in Nat
  /\ None \notin Databases /\ "database" \notin Objects

VARIABLES
  source,    \* the authoritative database
  lost,      \* source objects that have been lost
  app,       \* schema version of the installed application
  bk,        \* per backup process, its locals
  partial,   \* <destination>.partial exists
  bundle,    \* the destination directory
  rs,        \* locals of the restore process
  target,    \* the restore target: database, objects/ directory, object files
  committed, \* history: databases the source has been
  acked,     \* history: what the last backup that returned COMPLETE has named
  restored,  \* history: what the last restore that returned COMPLETE installed
  damage     \* history: files lost, whether the bundle lost any, and whether a
             \* cleanup could not remove the target database

vars == <<source, lost, app, bk, partial, bundle, rs, target, committed,
          acked, restored, damage>>
sourceVars == <<source, lost, app, committed>>
backupVars == <<bk, partial, bundle, acked>>
restoreVars == <<rs, target, restored>>

NoBundle == [there |-> FALSE, database |-> None, objects |-> {}, manifest |-> None,
             marker |-> None]
\* alone is of the model: no other backup has been at work since this one began.
IdleBackup == [at |-> "idle", database |-> None, todo |-> {}, made |-> FALSE,
               alone |-> FALSE]
IdleRestore == [at |-> "idle", database |-> None, release |-> 1, todo |-> {},
                made |-> FALSE, mine |-> {}]
FirstDatabase == [objects |-> {}, commits |-> 0, schema |-> 1]

Init ==
  /\ source = FirstDatabase /\ lost = {} /\ app = 1
  /\ bk = [p \in Backups |-> IdleBackup]
  /\ partial = FALSE
  /\ bundle = NoBundle
  /\ rs = IdleRestore
  /\ target = [database |-> None, tree |-> FALSE, objects |-> {}]
  /\ committed = {FirstDatabase}
  /\ acked = None /\ restored = None
  /\ damage = [files |-> 0, bundle |-> FALSE, cleanup |-> FALSE]

-----------------------------------------------------------------------------
(* The authoritative store, beside both commands *)

SourceBecomes(d) ==
  /\ source' = d
  /\ committed' = committed \cup {d}

\* A commit of the writer; publish_artifact has put the object in place before.
Commit ==
  /\ source.schema = app
  /\ source.commits < MaxCommits
  /\ \E o \in SUBSET Objects :
       /\ Cardinality(o \ source.objects) <= 1 /\ source.objects \subseteq o
       /\ SourceBecomes([source EXCEPT !.objects = o, !.commits = @ + 1])
  /\ UNCHANGED <<lost, app, backupVars, restoreVars, damage>>

\* Another release is installed, newer or older; only a newer one migrates the
\* store, and an older one refuses it.
SwitchRelease ==
  /\ app' = 3 - app
  /\ UNCHANGED <<source, lost, committed, backupVars, restoreVars, damage>>

MigrateSource ==
  /\ source.schema < app
  /\ SourceBecomes([source EXCEPT !.schema = app])
  /\ UNCHANGED <<lost, app, backupVars, restoreVars, damage>>

LoseObject(o) ==
  /\ o \in source.objects \ lost
  /\ damage.files < MaxDamage
  /\ lost' = lost \cup {o}
  /\ damage' = [damage EXCEPT !.files = @ + 1]
  /\ UNCHANGED <<source, app, committed, backupVars, restoreVars>>

-----------------------------------------------------------------------------
(* backup_store *)

\* What no step of a backup changes.
elsewhere == <<sourceVars, restoreVars, damage>>

BackupGoes(p, at) == bk' = [bk EXCEPT ![p].at = at]

Quiet == \A p \in Backups : bk[p].at = "idle"

\* A backup is alone if none is at work, and none is alone any more once it is.
Join(p) ==
  bk' = [q \in Backups |->
           IF q = p
           THEN [IdleBackup EXCEPT !.at = "checked", !.database = source, !.alone = Quiet]
           ELSE [bk[q] EXCEPT !.alone = FALSE]]

\* BeginBackup that replaces an existing bundle.
BeginBackup_Replaces(p) ==
  /\ bk[p].at = "idle"
  /\ source.schema = app
  /\ source.objects \cap lost = {}
  /\ Join(p)
  /\ UNCHANGED <<partial, bundle, acked, elsewhere>>

\* The destination and its .partial do not exist, inspect_store says HEALTHY, and
\* every catalogued object verifies.
BeginBackup(p) ==
  /\ bk[p].at = "idle"
  /\ ~bundle.there /\ ~partial
  /\ source.schema = app
  /\ source.objects \cap lost = {}
  /\ Join(p)
  /\ UNCHANGED <<partial, bundle, acked, elsewhere>>

\* _online_backup: what it copied must still have the catalog that was read first.
StageDatabase(p) ==
  /\ bk[p].at = "checked"
  /\ source.objects = bk[p].database.objects
  /\ source.schema = bk[p].database.schema
  /\ bk' = [bk EXCEPT ![p].at = "staged", ![p].database = source]
  /\ UNCHANGED <<partial, bundle, acked, elsewhere>>

\* Every object of the staged catalog is copied and the manifest written, then
\* everything goes to .partial, which is verified.  Creating .partial succeeds
\* when it exists already.
FillPartial(p) ==
  /\ bk[p].at = "staged"
  /\ bk[p].database.objects \cap lost = {}
  /\ partial' = TRUE
  /\ BackupGoes(p, "partial")
  /\ UNCHANGED <<bundle, acked, elsewhere>>

\* _ensure_directory, which succeeds when the directory exists already.
MakeDestination(p) ==
  /\ bk[p].at = "partial"
  /\ bundle' = [bundle EXCEPT !.there = TRUE]
  /\ bk' = [bk EXCEPT ![p].at = "copying", ![p].made = TRUE,
                      ![p].todo = {"database"} \cup bk[p].database.objects]
  /\ UNCHANGED <<partial, acked, elsewhere>>

\* It was made but its parent could not be synced: not yet counted as created.
MakeDestinationFails(p) ==
  /\ bk[p].at = "partial"
  /\ bundle' = [bundle EXCEPT !.there = TRUE]
  /\ BackupGoes(p, "failing")
  /\ UNCHANGED <<partial, acked, elsewhere>>

\* _copy_file_verified: written beside, read back, renamed over what is there.
CopyDatabase(p) ==
  /\ bk[p].at = "copying" /\ "database" \in bk[p].todo
  /\ bundle' = [bundle EXCEPT !.there = TRUE, !.database = bk[p].database]
  /\ bk' = [bk EXCEPT ![p].todo = @ \ {"database"}]
  /\ UNCHANGED <<partial, acked, elsewhere>>

CopyObject(p, o) ==
  /\ bk[p].at = "copying" /\ o \in bk[p].todo /\ "database" \notin bk[p].todo
  /\ bundle' = [bundle EXCEPT !.there = TRUE, !.objects = @ \cup {o}]
  /\ bk' = [bk EXCEPT ![p].todo = @ \ {o}]
  /\ UNCHANGED <<partial, acked, elsewhere>>

CopyManifest(p) ==
  /\ bk[p].at = "copying" /\ bk[p].todo = {}
  /\ bundle' = [bundle EXCEPT !.there = TRUE, !.manifest = bk[p].database]
  /\ BackupGoes(p, "described")
  /\ UNCHANGED <<partial, acked, elsewhere>>

WriteMarker(p) ==
  /\ bk[p].at = "described"
  /\ bundle' = [bundle EXCEPT !.there = TRUE, !.marker = bk[p].database]
  /\ BackupGoes(p, "marked")
  /\ UNCHANGED <<partial, acked, elsewhere>>

\* verify_backup and _verify_backup_contents: marker, manifest, database and
\* objects all describe the same database, and nothing else is there.
Whole(b) ==
  /\ b.there
  /\ b.marker # None /\ b.marker = b.manifest /\ b.manifest = b.database
  /\ b.objects = b.database.objects

VerifyBundle(p) ==
  /\ bk[p].at = "marked"
  /\ Whole(bundle)
  /\ BackupGoes(p, "verified")
  /\ UNCHANGED <<partial, bundle, acked, elsewhere>>

\* The result is COMPLETE once the private stage and .partial are removed, and
\* names the manifest this backup has written; an error in the removal takes the
\* result away, not the bundle.
FinishBackup(p) ==
  /\ bk[p].at = "verified"
  /\ bk' = [bk EXCEPT ![p] = IdleBackup]
  /\ partial' = FALSE
  /\ acked' \in {acked, bk[p].database}
  /\ UNCHANGED <<bundle, elsewhere>>

\* An exception at any step: what the operation created is removed.
BackupFails(p) ==
  /\ bk[p].at \notin {"idle", "failing", "cleaning"}
  /\ BackupGoes(p, "failing")
  /\ UNCHANGED <<partial, bundle, acked, elsewhere>>

RemovePartial(p) ==
  /\ bk[p].at = "failing"
  /\ partial' = FALSE
  /\ bk' = [bk EXCEPT ![p] = IF bk[p].made THEN [@ EXCEPT !.at = "cleaning"] ELSE IdleBackup]
  /\ UNCHANGED <<bundle, acked, elsewhere>>

\* shutil.rmtree takes the files in any order.
RemoveBundleFile(p) ==
  /\ bk[p].at = "cleaning"
  /\ \/ bundle' = [bundle EXCEPT !.database = None] 
     \/ bundle' = [bundle EXCEPT !.manifest = None]
     \/ bundle' = [bundle EXCEPT !.marker = None]
     \/ \E o \in bundle.objects : bundle' = [bundle EXCEPT !.objects = @ \ {o}]
  /\ bundle' # bundle
  /\ UNCHANGED <<bk, partial, acked, elsewhere>>

RemoveBundle(p) ==
  /\ bk[p].at = "cleaning"
  /\ bundle \in {NoBundle, [NoBundle EXCEPT !.there = TRUE]}
  /\ bundle' = NoBundle
  /\ bk' = [bk EXCEPT ![p] = IdleBackup]
  /\ UNCHANGED <<partial, acked, elsewhere>>

\* Killed, or interrupted by a signal, which the cleanup does not catch.
BackupDies(p) ==
  /\ bk[p].at # "idle"
  /\ bk' = [bk EXCEPT ![p] = IdleBackup]
  /\ UNCHANGED <<partial, bundle, acked, elsewhere>>

\* Shared storage is outside MatchVet's control.
LoseBundleFile ==
  /\ damage.files < MaxDamage
  /\ \/ bundle' = [bundle EXCEPT !.database = None]
     \/ bundle' = [bundle EXCEPT !.manifest = None]
     \/ bundle' = [bundle EXCEPT !.marker = None]
     \/ \E o \in bundle.objects : bundle' = [bundle EXCEPT !.objects = @ \ {o}]
  /\ bundle' # bundle
  /\ damage' = [damage EXCEPT !.files = @ + 1, !.bundle = TRUE]
  /\ UNCHANGED <<sourceVars, bk, partial, acked, restoreVars>>

-----------------------------------------------------------------------------
(* restore_backup *)

\* What no step of a restore changes.
outside == <<sourceVars, backupVars, damage>>

RestoreGoes(at) == rs' = [rs EXCEPT !.at = at]

\* BeginRestore that accepts a bundle of any release.
BeginRestore_AnySchema ==
  /\ rs.at = "idle"
  /\ target.database = None /\ ~target.tree
  /\ Whole(bundle)
  /\ rs' = [IdleRestore EXCEPT !.at = "verified", !.database = bundle.manifest,
                                !.release = app]
  /\ UNCHANGED <<target, restored, outside>>

\* Neither the target nor an objects directory beside it exists, the bundle
\* verifies, and its schema is not newer than the application's.
BeginRestore ==
  /\ rs.at = "idle"
  /\ target.database = None /\ ~target.tree
  /\ Whole(bundle)
  /\ bundle.manifest.schema <= app
  /\ rs' = [IdleRestore EXCEPT !.at = "verified", !.database = bundle.manifest,
                                !.release = app]
  /\ UNCHANGED <<target, restored, outside>>

\* Every member is copied to private staging and its digest compared with the
\* manifest that was read before, then the staged copy is verified.
StageBundle ==
  /\ rs.at = "verified"
  /\ bundle.database = rs.database /\ bundle.manifest = rs.database
  /\ rs.database.objects \subseteq bundle.objects
  /\ RestoreGoes("staged")
  /\ UNCHANGED <<target, restored, outside>>

\* A backup of an older release is migrated in staging, never in place.
MigrateStage ==
  /\ rs.at = "staged"
  /\ rs' = [rs EXCEPT !.at = "installing", !.database.schema = rs.release,
                      !.todo = rs.database.objects]
  /\ UNCHANGED <<target, restored, outside>>

\* An object that is at its path already and verifies is left alone and is not
\* the operation's own.
InstallObject(o) ==
  /\ rs.at = "installing" /\ o \in rs.todo
  /\ target' = [target EXCEPT !.tree = TRUE, !.objects = @ \cup {o}]
  /\ rs' = [rs EXCEPT !.todo = @ \ {o},
                      !.mine = IF o \in target.objects THEN @ ELSE @ \cup {o}]
  /\ UNCHANGED <<restored, outside>>

\* os.replace puts the database over whatever is at the target by now.
InstallDatabase ==
  /\ rs.at = "installing" /\ rs.todo = {}
  /\ target' = [target EXCEPT !.database = rs.database]
  /\ rs' = [rs EXCEPT !.at = "installed", !.made = TRUE]
  /\ UNCHANGED <<restored, outside>>

\* The copy fails before the replacement; created_target is set before it.
InstallDatabaseFails ==
  /\ rs.at = "installing" /\ rs.todo = {}
  /\ rs' = [rs EXCEPT !.at = "failing", !.made = TRUE]
  /\ UNCHANGED <<target, restored, outside>>

\* The digest of the installed database and of every object.
CheckTarget ==
  /\ rs.at = "installed"
  /\ target.database = rs.database
  /\ rs.database.objects \subseteq target.objects
  /\ RestoreGoes("checked")
  /\ UNCHANGED <<target, restored, outside>>

\* The F01 replay opens a copy of the database in the same directory, hence needs
\* the writer lock there; then inspect_store must say HEALTHY.
FinishRestore ==
  /\ rs.at = "checked"
  /\ target.database # None
  /\ target.database.objects \subseteq target.objects
  /\ rs' = IdleRestore
  /\ restored' = rs.database
  /\ UNCHANGED <<target, outside>>

\* Copying an object makes its directories first; they outlive the failure.
RestoreFails ==
  /\ rs.at \notin {"idle", "failing"}
  /\ RestoreGoes("failing")
  /\ target' \in {target} \cup
       (IF rs.at = "installing" /\ rs.todo # {} THEN {[target EXCEPT !.tree = TRUE]} ELSE {})
  /\ UNCHANGED <<restored, outside>>

\* Cleanup that takes the objects first and the database at the end.
RemoveTarget_Last ==
  /\ rs.at = "failing" /\ rs.made
  /\ IF rs.mine # {}
     THEN \E o \in rs.mine :
            /\ target' = [target EXCEPT !.objects = @ \ {o}]
            /\ rs' = [rs EXCEPT !.mine = @ \ {o}]
     ELSE /\ target' = [target EXCEPT !.database = None]
          /\ rs' = [rs EXCEPT !.made = FALSE]
  /\ UNCHANGED <<restored, outside>>

\* _cleanup_restore_failure: the database first, then the objects.
RemoveTarget ==
  /\ rs.at = "failing" /\ rs.made
  /\ target' = [target EXCEPT !.database = None]
  /\ rs' = [rs EXCEPT !.made = FALSE]
  /\ UNCHANGED <<restored, outside>>

RemoveObject(o) ==
  /\ rs.at = "failing" /\ ~rs.made /\ o \in rs.mine
  /\ target' = [target EXCEPT !.objects = @ \ {o}]
  /\ rs' = [rs EXCEPT !.mine = @ \ {o}]
  /\ UNCHANGED <<restored, outside>>

\* Cleanup is best effort: what cannot be removed is skipped.
RemovalFails ==
  /\ rs.at = "failing"
  /\ \/ /\ rs.made
        /\ rs' = [rs EXCEPT !.made = FALSE]
        /\ damage' = [damage EXCEPT !.cleanup = target.database # None]
     \/ /\ ~rs.made
        /\ \E o \in rs.mine : rs' = [rs EXCEPT !.mine = @ \ {o}]
        /\ UNCHANGED damage
  /\ UNCHANGED <<target, restored, sourceVars, backupVars>>

RestoreRefuses ==
  /\ rs.at = "failing" /\ ~rs.made /\ rs.mine = {}
  /\ rs' = IdleRestore
  /\ UNCHANGED <<target, restored, outside>>

RestoreDies ==
  /\ rs.at # "idle"
  /\ rs' = IdleRestore
  /\ UNCHANGED <<target, restored, outside>>

-----------------------------------------------------------------------------

Store == Commit \/ SwitchRelease \/ MigrateSource \/ (\E o \in Objects : LoseObject(o))

Backup(p) ==
  \/ BeginBackup(p) \/ StageDatabase(p) \/ FillPartial(p)
  \/ MakeDestination(p) \/ MakeDestinationFails(p)
  \/ CopyDatabase(p) \/ CopyManifest(p) \/ WriteMarker(p)
  \/ VerifyBundle(p) \/ FinishBackup(p)
  \/ BackupFails(p) \/ RemovePartial(p) \/ RemoveBundleFile(p) \/ RemoveBundle(p)
  \/ BackupDies(p)
  \/ \E o \in Objects : CopyObject(p, o)

Restore ==
  \/ BeginRestore \/ StageBundle \/ MigrateStage
  \/ InstallDatabase \/ InstallDatabaseFails \/ CheckTarget \/ FinishRestore
  \/ RestoreFails \/ RemoveTarget \/ RemovalFails \/ RestoreRefuses \/ RestoreDies
  \/ \E o \in Objects : InstallObject(o) \/ RemoveObject(o)

Next == Store \/ LoseBundleFile \/ Restore \/ \E p \in Backups : Backup(p)

Spec == Init /\ [][Next]_vars

-----------------------------------------------------------------------------

BackupLocals ==
  [at : {"idle", "checked", "staged", "partial", "copying", "described", "marked",
         "verified", "failing", "cleaning"},
   database : Databases \cup {None}, todo : SUBSET (Objects \cup {"database"}),
   made : BOOLEAN, alone : BOOLEAN]

Bundles ==
  [there : BOOLEAN, database : Databases \cup {None}, objects : SUBSET Objects,
   manifest : Databases \cup {None}, marker : Databases \cup {None}]

RestoreLocals ==
  [at : {"idle", "verified", "staged", "installing", "installed", "checked", "failing"},
   database : Databases \cup {None}, release : Schemas, todo : SUBSET Objects,
   made : BOOLEAN, mine : SUBSET Objects]

Targets == [database : Databases \cup {None}, tree : BOOLEAN, objects : SUBSET Objects]

\* The shape of the store, the bundle, the target and both commands' locals.
TypeOK ==
  /\ source \in Databases /\ committed \subseteq Databases
  /\ lost \subseteq Objects
  /\ app \in Schemas
  /\ bk \in [Backups -> BackupLocals]
  /\ partial \in BOOLEAN
  /\ bundle \in Bundles
  /\ rs \in RestoreLocals
  /\ target \in Targets
  /\ acked \in Databases \cup {None} /\ restored \in Databases \cup {None}
  /\ damage \in [files : 0..MaxDamage, bundle : BOOLEAN, cleanup : BOOLEAN]

\* What a backup of d leaves at its destination.
BundleOf(d) == [there |-> TRUE, database |-> d, objects |-> d.objects, manifest |-> d,
                marker |-> d]

\* A backup that no other has overlapped is reported COMPLETE only of a complete
\* copy of one state of the source store, database and artifacts alike; and what
\* is at the destination when no backup is at work is touched by none that is
\* begun later, whatever is killed, fails or is tried again.  Only damage to shared
\* storage, or a backup that had begun before, can take an acknowledged bundle
\* away: for the latter see BundleIsImmutable.
AckedBundleIsKept ==
  [][~damage'.bundle =>
       /\ acked' # acked /\ (\E p \in Backups : bk[p].alone) =>
            Quiet' /\ acked' \in committed' /\ bundle' = BundleOf(acked')
       /\ Quiet /\ bundle.there => Quiet' /\ bundle' = bundle]_vars

\* "immutable bundles are never overwritten": what has been reported COMPLETE is
\* touched by no later step of a backup.
BundleIsImmutable ==
  [][acked # None /\ ~damage'.bundle => bundle' = bundle]_vars

\* Whenever a database is found at the restore target, all its artifacts are
\* there too: at every moment of an activation, a failure or a cleanup, and
\* after a kill, as long as no cleanup had to leave the database behind.
TargetIsWhole ==
  target.database # None /\ ~damage.cleanup => target.database.objects \subseteq target.objects

\* A restore reported COMPLETE has installed a state the source really was in,
\* brought forward to a schema that is not older, and nothing takes it away.
RestoreIsFaithful ==
  restored # None =>
    /\ \E d \in committed :
         d.schema <= restored.schema /\ restored = [d EXCEPT !.schema = restored.schema]
    /\ target.database = restored
=============================================================================
