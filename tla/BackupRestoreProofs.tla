-------------------------- MODULE BackupRestoreProofs --------------------------
(***************************************************************************)
(* For any number of artifacts, commits and concurrent backups: what the     *)
(* restore installs, what the target shows at every moment, and what a       *)
(* backup that was alone has made when it reports that it is complete.       *)
(***************************************************************************)
EXTENDS RestoreRefinement, TLAPS

\* A database that some committed one becomes by migrating forwards.
Forward(x) ==
  \E d \in committed : d.schema <= x.schema /\ x = [d EXCEPT !.schema = x.schema]

\* Whatever a backup holds or a bundle contains was once the source.
SourceInv ==
  /\ source \in committed
  /\ \A p \in Backups : bk[p].at # "idle" => bk[p].database \in committed
  /\ {bundle.database, bundle.manifest, bundle.marker} \subseteq committed \cup {None}

\* What a restore has established at each point, and what is at the target then.
RestoreInv ==
  /\ rs.at \in {"verified", "staged"} =>
       rs.database \in committed /\ rs.database.schema <= rs.release
  /\ rs.at \in {"installing", "installed", "checked"} =>
       rs.database \in Databases /\ Forward(rs.database)
  /\ rs.at \in {"verified", "staged", "installing"} =>
       target.database = None /\ rs.made = FALSE
  /\ rs.at = "installing" => rs.database.objects \subseteq target.objects \cup rs.todo
  /\ rs.at \in {"installed", "checked"} =>
       target.database = rs.database /\ rs.made = TRUE
  /\ rs.at = "failing" /\ rs.made = FALSE /\ damage.cleanup = FALSE =>
       target.database = None

\* A restore that was reported COMPLETE is the last one at its target.
FinalInv ==
  restored # None =>
    Forward(restored) /\ target.database = restored /\ rs.at = "idle"

Inv == TypeOK /\ SourceInv /\ RestoreInv /\ FinalInv /\ TargetIsWhole

USE BackupAssumption

\* The initial state.
LEMMA InitInv == Init => Inv
<1> SUFFICES ASSUME Init PROVE Inv
  OBVIOUS
<1>1. FirstDatabase \in Databases
  BY DEF FirstDatabase, Databases, Schemas
<1>2. TypeOK
  <2>1. IdleBackup \in BackupLocals
    BY DEF IdleBackup, BackupLocals
  <2>2. IdleRestore \in RestoreLocals
    BY DEF IdleRestore, RestoreLocals, Schemas
  <2>3. NoBundle \in Bundles
    BY DEF NoBundle, Bundles
  <2>4. [database |-> None, tree |-> FALSE, objects |-> {}] \in Targets
    BY DEF Targets
  <2>5. [files |-> 0, bundle |-> FALSE, cleanup |-> FALSE]
          \in [files : 0..MaxDamage, bundle : BOOLEAN, cleanup : BOOLEAN]
    <3>1. 0 \in 0..MaxDamage
      OBVIOUS
    <3> QED BY <3>1
  <2>6. app \in Schemas
    BY DEF Init, Schemas
  <2>7. bk \in [Backups -> BackupLocals]
    BY <2>1 DEF Init
  <2> QED
    BY <1>1, <2>2, <2>3, <2>4, <2>5, <2>6, <2>7 DEF Init, TypeOK
<1> QED
  BY <1>1, <1>2 DEF Init, Inv, SourceInv, RestoreInv, FinalInv, TargetIsWhole, IdleBackup,
     IdleRestore, NoBundle
\* What was once committed stays committed, so a restored database stays one.
LEMMA ForwardStays ==
  ASSUME committed \subseteq committed', NEW x, Forward(x)
  PROVE  Forward(x)'
BY DEF Forward

\* Steps outside the restore leave what it knows and shows.
LEMMA RestoreUntouched ==
  ASSUME Inv, UNCHANGED <<rs, target, restored>>, committed \subseteq committed',
         damage'.cleanup = damage.cleanup
  PROVE  RestoreInv' /\ FinalInv' /\ TargetIsWhole'
<1>1. RestoreInv'
  BY ForwardStays DEF Inv, RestoreInv
<1>2. FinalInv'
  BY ForwardStays DEF Inv, FinalInv
<1>3. TargetIsWhole'
  BY DEF Inv, TargetIsWhole
<1> QED BY <1>1, <1>2, <1>3

\* The writer of the source store.
LEMMA StoreStep ==
  ASSUME Inv, Store
  PROVE  Inv'
<1>1. UNCHANGED <<backupVars, restoreVars>> /\ committed \subseteq committed'
  BY DEF Store, Commit, SwitchRelease, MigrateSource, LoseObject, SourceBecomes, sourceVars
<1>2. source' \in Databases /\ committed' = committed \cup {source'}
  <2>1. source \in Databases /\ source \in committed /\ app \in Schemas
    BY DEF Inv, TypeOK, SourceInv
  <2>2. CASE Commit
    <3>1. PICK o \in SUBSET Objects :
            SourceBecomes([source EXCEPT !.objects = o, !.commits = @ + 1])
      BY <2>2 DEF Commit
    <3>2. source.commits + 1 \in 0..MaxCommits
      <4>1. source.commits \in 0..MaxCommits
        BY <2>1 DEF Databases
      <4>2. source.commits < MaxCommits
        BY <2>2 DEF Commit
      <4> QED BY <4>1, <4>2
    <3>3. [source EXCEPT !.objects = o, !.commits = @ + 1] \in Databases
      BY <2>1, <3>2 DEF Databases
    <3> QED BY <3>1, <3>3 DEF SourceBecomes
  <2>3. CASE MigrateSource
    <3>1. [source EXCEPT !.schema = app] \in Databases
      BY <2>1 DEF Databases
    <3> QED BY <2>3, <3>1 DEF MigrateSource, SourceBecomes
  <2>4. CASE SwitchRelease \/ \E o \in Objects : LoseObject(o)
    <3>1. source' = source /\ committed' = committed
      BY <2>4 DEF SwitchRelease, LoseObject
    <3> QED BY <2>1, <3>1
  <2> QED BY <2>2, <2>3, <2>4 DEF Store
<1>3. lost' \subseteq Objects
  <2>1. lost' = lost \/ \E o \in Objects : lost' = lost \cup {o}
    BY DEF Store, Commit, SwitchRelease, MigrateSource, LoseObject
  <2> QED BY <2>1 DEF Inv, TypeOK
<1>4. app' \in Schemas
  <2>1. app' = app \/ app' = 3 - app
    BY DEF Store, Commit, SwitchRelease, MigrateSource, LoseObject
  <2>2. app \in 1..2
    BY DEF Inv, TypeOK, Schemas
  <2> QED BY <2>1, <2>2 DEF Schemas
<1>5. /\ damage' \in [files : 0..MaxDamage, bundle : BOOLEAN, cleanup : BOOLEAN]
      /\ damage'.cleanup = damage.cleanup
  <2>1. CASE \E o \in Objects : LoseObject(o)
    <3>1. damage.files + 1 \in 0..MaxDamage
      <4>1. damage.files \in 0..MaxDamage /\ damage.files < MaxDamage
        BY <2>1 DEF LoseObject, Inv, TypeOK
      <4> QED BY <4>1
    <3> QED BY <2>1, <3>1 DEF LoseObject, Inv, TypeOK
  <2>2. CASE Commit \/ SwitchRelease \/ MigrateSource
    BY <2>2 DEF Inv, TypeOK, Commit, SwitchRelease, MigrateSource
  <2> QED BY <2>1, <2>2 DEF Store
<1>6. TypeOK'
  BY <1>1, <1>2, <1>3, <1>4, <1>5 DEF Inv, TypeOK, backupVars, restoreVars
<1>7. SourceInv'
  BY <1>1, <1>2 DEF Inv, SourceInv, backupVars
<1>8. RestoreInv' /\ FinalInv' /\ TargetIsWhole'
  BY <1>1, <1>5, RestoreUntouched DEF restoreVars
<1> QED
  BY <1>6, <1>7, <1>8 DEF Inv

\* Shared storage loses a file of the bundle.
LEMMA LossStep ==
  ASSUME Inv, LoseBundleFile
  PROVE  Inv'
<1>1. UNCHANGED <<source, lost, app, committed, bk, partial, acked, rs, target, restored>>
  BY DEF LoseBundleFile, sourceVars, restoreVars
<1>2. /\ bundle' \in Bundles
      /\ {bundle'.database, bundle'.manifest, bundle'.marker} \subseteq committed \cup {None}
  BY DEF LoseBundleFile, Inv, TypeOK, SourceInv, Bundles
<1>3. /\ damage' \in [files : 0..MaxDamage, bundle : BOOLEAN, cleanup : BOOLEAN]
      /\ damage'.cleanup = damage.cleanup
  <2>1. damage.files + 1 \in 0..MaxDamage
    <3>1. damage.files \in 0..MaxDamage /\ damage.files < MaxDamage
      BY DEF LoseBundleFile, Inv, TypeOK
    <3> QED BY <3>1
  <2> QED BY <2>1 DEF LoseBundleFile, Inv, TypeOK
<1>4. TypeOK'
  BY <1>1, <1>2, <1>3 DEF Inv, TypeOK
<1>5. SourceInv'
  BY <1>1, <1>2 DEF Inv, SourceInv
<1>6. RestoreInv' /\ FinalInv' /\ TargetIsWhole'
  BY <1>1, <1>3, RestoreUntouched
<1> QED
  BY <1>4, <1>5, <1>6 DEF Inv

\* The locals that a step of backup p leaves.
LEMMA BackupGoesOn ==
  ASSUME Inv, NEW p \in Backups, Backup(p)
  PROVE  /\ bk' \in [Backups -> BackupLocals]
         /\ \A q \in Backups : bk'[q].at # "idle" => bk'[q].database \in committed
<1>1. /\ bk \in [Backups -> BackupLocals] /\ bk[p] \in BackupLocals
      /\ source \in Databases /\ source \in committed
      /\ \A q \in Backups : bk[q].at # "idle" => bk[q].database \in committed
  BY DEF Inv, TypeOK, SourceInv
<1> DEFINE Next1(new) == /\ new \in BackupLocals
                         /\ new.at # "idle" => new.database \in committed
<1>2. SUFFICES ASSUME NEW new, bk' = [bk EXCEPT ![p] = new], Next1(new)
               PROVE  /\ bk' \in [Backups -> BackupLocals]
                      /\ \A q \in Backups : bk'[q].at # "idle" => bk'[q].database \in committed
  <2>1. IdleBackup \in BackupLocals /\ IdleBackup.at = "idle"
    BY DEF IdleBackup, BackupLocals
  <2>2. CASE BeginBackup(p)
    <3> DEFINE first == [IdleBackup EXCEPT !.at = "checked", !.database = source,
                                           !.alone = Quiet]
    <3>1. Quiet \in BOOLEAN
      BY DEF Quiet
    <3>2. Next1(first)
      BY <1>1, <2>1, <3>1 DEF IdleBackup, BackupLocals
    <3> HIDE DEF first
    <3>3. bk' = [q \in Backups |-> IF q = p THEN first ELSE [bk[q] EXCEPT !.alone = FALSE]]
      BY <2>2 DEF BeginBackup, Join, first
    <3>4. \A q \in Backups : Next1([bk[q] EXCEPT !.alone = FALSE])
      <4>1. \A q \in Backups : bk[q] \in BackupLocals
        BY <1>1
      <4> QED
        BY <1>1, <4>1 DEF BackupLocals
    <3>5. \A q \in Backups : Next1(bk'[q])
      BY <3>2, <3>3, <3>4
    <3> QED
      BY <3>3, <3>5
  <2>3. CASE StageDatabase(p)
    <3>1. Next1([bk[p] EXCEPT !.at = "staged", !.database = source])
      BY <1>1 DEF BackupLocals
    <3>2. bk' = [bk EXCEPT ![p] = [bk[p] EXCEPT !.at = "staged", !.database = source]]
      BY <2>3, <1>1 DEF StageDatabase, BackupLocals
    <3> QED BY <3>1, <3>2, <1>2
  <2>4. CASE \/ FillPartial(p) \/ MakeDestinationFails(p) \/ CopyManifest(p) \/ WriteMarker(p)
             \/ VerifyBundle(p) \/ BackupFails(p)
    <3>1. PICK at \in {"partial", "failing", "described", "marked", "verified"} :
            bk' = [bk EXCEPT ![p].at = at] /\ bk[p].at # "idle"
      BY <2>4 DEF FillPartial, MakeDestinationFails, CopyManifest, WriteMarker,
         VerifyBundle, BackupFails, BackupGoes
    <3>2. Next1([bk[p] EXCEPT !.at = at])
      BY <3>1, <1>1 DEF BackupLocals
    <3>3. bk' = [bk EXCEPT ![p] = [bk[p] EXCEPT !.at = at]]
      BY <3>1, <1>1
    <3> QED BY <3>2, <3>3, <1>2
  <2>5. CASE MakeDestination(p)
    <3> DEFINE todo == {"database"} \cup bk[p].database.objects
    <3>1. bk[p].at = "partial"
      BY <2>5 DEF MakeDestination
    <3>2. bk[p].database \in Databases
      BY <1>1, <3>1 DEF Inv, TypeOK
    <3>3. todo \in SUBSET (Objects \cup {"database"})
      BY <3>2 DEF Databases
    <3> HIDE DEF todo
    <3>4. Next1([bk[p] EXCEPT !.at = "copying", !.made = TRUE, !.todo = todo])
      BY <1>1, <3>1, <3>3 DEF BackupLocals
    <3>5. bk' = [bk EXCEPT ![p] = [bk[p] EXCEPT !.at = "copying", !.made = TRUE, !.todo = todo]]
      BY <2>5, <1>1 DEF MakeDestination, BackupLocals, todo
    <3> QED BY <3>4, <3>5, <1>2
  <2>6. CASE CopyDatabase(p) \/ \E o \in Objects : CopyObject(p, o)
    <3>1. PICK o : bk' = [bk EXCEPT ![p].todo = @ \ {o}] /\ bk[p].at # "idle"
      BY <2>6 DEF CopyDatabase, CopyObject
    <3>2. Next1([bk[p] EXCEPT !.todo = @ \ {o}])
      BY <3>1, <1>1 DEF BackupLocals
    <3>3. bk' = [bk EXCEPT ![p] = [bk[p] EXCEPT !.todo = @ \ {o}]]
      BY <3>1, <1>1
    <3> QED BY <3>2, <3>3, <1>2
  <2>7. CASE FinishBackup(p) \/ RemoveBundle(p) \/ BackupDies(p)
    <3>1. bk' = [bk EXCEPT ![p] = IdleBackup]
      BY <2>7 DEF FinishBackup, RemoveBundle, BackupDies
    <3> QED BY <3>1, <2>1, <1>2
  <2>8. CASE RemovePartial(p)
    <3>1. Next1([bk[p] EXCEPT !.at = "cleaning"])
      BY <2>8, <1>1 DEF RemovePartial, BackupLocals
    <3>2. \/ bk' = [bk EXCEPT ![p] = [bk[p] EXCEPT !.at = "cleaning"]]
          \/ bk' = [bk EXCEPT ![p] = IdleBackup]
      BY <2>8, <1>1 DEF RemovePartial
    <3> QED BY <3>1, <3>2, <2>1, <1>2
  <2>9. CASE RemoveBundleFile(p)
    BY <2>9, <1>1 DEF RemoveBundleFile
  <2> QED
    BY <2>2, <2>3, <2>4, <2>5, <2>6, <2>7, <2>8, <2>9 DEF Backup
<1> QED
  BY <1>1, <1>2

\* The bundle after a step of backup p.
LEMMA BundleGoesOn ==
  ASSUME Inv, NEW p \in Backups, Backup(p)
  PROVE  /\ bundle' \in Bundles
         /\ {bundle'.database, bundle'.manifest, bundle'.marker} \subseteq committed \cup {None}
<1>1. /\ bundle \in Bundles
      /\ {bundle.database, bundle.manifest, bundle.marker} \subseteq committed \cup {None}
      /\ bk[p].at # "idle" => bk[p].database \in committed /\ bk[p].database \in Databases
      /\ bk[p] \in BackupLocals
  BY DEF Inv, TypeOK, SourceInv
<1>2. CASE bundle' = bundle
  BY <1>1, <1>2
<1>3. CASE MakeDestination(p) \/ MakeDestinationFails(p)
  <2>1. bundle' = [bundle EXCEPT !.there = TRUE]
    BY <1>3 DEF MakeDestination, MakeDestinationFails
  <2> QED BY <1>1, <2>1 DEF Bundles
<1>4. CASE CopyDatabase(p)
  <2>1. bundle' = [bundle EXCEPT !.there = TRUE, !.database = bk[p].database]
        /\ bk[p].at = "copying"
    BY <1>4 DEF CopyDatabase
  <2> QED BY <1>1, <2>1 DEF Bundles
<1>5. CASE \E o \in Objects : CopyObject(p, o)
  <2>1. PICK o \in Objects : bundle' = [bundle EXCEPT !.there = TRUE, !.objects = @ \cup {o}]
    BY <1>5 DEF CopyObject
  <2> QED BY <1>1, <2>1 DEF Bundles
<1>6. CASE CopyManifest(p)
  <2>1. bundle' = [bundle EXCEPT !.there = TRUE, !.manifest = bk[p].database]
        /\ bk[p].at = "copying"
    BY <1>6 DEF CopyManifest
  <2> QED BY <1>1, <2>1 DEF Bundles
<1>7. CASE WriteMarker(p)
  <2>1. bundle' = [bundle EXCEPT !.there = TRUE, !.marker = bk[p].database]
        /\ bk[p].at = "described"
    BY <1>7 DEF WriteMarker
  <2> QED BY <1>1, <2>1 DEF Bundles
<1>8. CASE RemoveBundleFile(p)
  BY <1>1, <1>8 DEF RemoveBundleFile, Bundles
<1>9. CASE RemoveBundle(p)
  <2>1. bundle' = NoBundle
    BY <1>9 DEF RemoveBundle
  <2> QED BY <2>1 DEF NoBundle, Bundles
<1> QED
  BY <1>2, <1>3, <1>4, <1>5, <1>6, <1>7, <1>8, <1>9 DEF Backup, BeginBackup, StageDatabase,
     FillPartial, VerifyBundle, FinishBackup, BackupFails, RemovePartial, BackupDies

LEMMA BackupStep ==
  ASSUME Inv, NEW p \in Backups, Backup(p)
  PROVE  Inv'
<1>1. UNCHANGED <<source, lost, app, committed, rs, target, restored, damage>>
  BY DEF Backup, BeginBackup, StageDatabase, FillPartial, MakeDestination,
     MakeDestinationFails, CopyDatabase, CopyObject, CopyManifest, WriteMarker, VerifyBundle, FinishBackup,
     BackupFails, RemovePartial, RemoveBundleFile, RemoveBundle, BackupDies, elsewhere,
     sourceVars, restoreVars
<1>2. partial' \in BOOLEAN
  BY DEF Inv, TypeOK, Backup, BeginBackup, StageDatabase, FillPartial, MakeDestination,
     MakeDestinationFails, CopyDatabase, CopyObject, CopyManifest, WriteMarker, VerifyBundle, FinishBackup,
     BackupFails, RemovePartial, RemoveBundleFile, RemoveBundle, BackupDies
<1>3. acked' = acked \/ (acked' = bk[p].database /\ bk[p].at = "verified")
  BY DEF Backup, BeginBackup, StageDatabase, FillPartial, MakeDestination,
     MakeDestinationFails, CopyDatabase, CopyObject, CopyManifest, WriteMarker, VerifyBundle, FinishBackup,
     BackupFails, RemovePartial, RemoveBundleFile, RemoveBundle, BackupDies
<1>4. acked' \in Databases \cup {None}
  BY <1>3 DEF Inv, TypeOK, SourceInv
<1>5. TypeOK'
  BY <1>1, <1>2, <1>4, BackupGoesOn, BundleGoesOn DEF Inv, TypeOK
<1>6. SourceInv'
  BY <1>1, BackupGoesOn, BundleGoesOn DEF Inv, SourceInv
<1>7. RestoreInv' /\ FinalInv' /\ TargetIsWhole'
  BY <1>1, RestoreUntouched
<1> QED
  BY <1>5, <1>6, <1>7 DEF Inv

-----------------------------------------------------------------------------
(* The restore *)

\* What a step of the restore leaves alone, and what has to be shown of the rest.
LEMMA RestoreKeeps ==
  ASSUME Inv, UNCHANGED <<sourceVars, backupVars>>,
         rs' \in RestoreLocals, target' \in Targets, restored' \in Databases \cup {None},
         damage' \in [files : 0..MaxDamage, bundle : BOOLEAN, cleanup : BOOLEAN],
         RestoreInv', FinalInv', TargetIsWhole'
  PROVE  Inv'
<1>1. TypeOK' /\ SourceInv'
  BY DEF Inv, TypeOK, SourceInv, sourceVars, backupVars
<1> QED
  BY <1>1 DEF Inv

\* Reading and verifying the bundle; nothing is at the target yet.
LEMMA ReadStep ==
  ASSUME Inv, BeginRestore \/ StageBundle \/ MigrateStage
  PROVE  Inv'
<1>1. /\ rs \in RestoreLocals /\ target \in Targets /\ app \in Schemas
      /\ committed \subseteq Databases
  BY DEF Inv, TypeOK
<1>2. UNCHANGED <<sourceVars, backupVars, damage, target, restored>>
  BY DEF BeginRestore, StageBundle, MigrateStage, outside
<1>3. restored = None
  BY DEF Inv, RestoreInv, FinalInv, BeginRestore, StageBundle, MigrateStage, TypeOK
<1>4. target.database = None
  BY DEF Inv, RestoreInv, BeginRestore, StageBundle, MigrateStage
<1>5. rs' \in RestoreLocals /\ RestoreInv'
  <2>1. CASE BeginRestore
    <3>1. /\ bundle.manifest \in committed /\ bundle.manifest \in Databases
          /\ bundle.manifest.schema <= app
      BY <2>1 DEF BeginRestore, Whole, Inv, SourceInv, TypeOK
    <3>2. rs' = [IdleRestore EXCEPT !.at = "verified", !.database = bundle.manifest,
                                    !.release = app]
      BY <2>1 DEF BeginRestore
    <3>3. rs' \in RestoreLocals
      BY <1>1, <3>1, <3>2 DEF IdleRestore, RestoreLocals
    <3>4. /\ rs'.at = "verified" /\ rs'.database = bundle.manifest /\ rs'.release = app
          /\ rs'.made = FALSE
      BY <3>2 DEF IdleRestore
    <3> QED BY <1>2, <1>4, <3>1, <3>3, <3>4 DEF RestoreInv, sourceVars
  <2>2. CASE StageBundle
    <3>1. rs' = [rs EXCEPT !.at = "staged"] /\ rs.at = "verified"
      BY <2>2 DEF StageBundle, RestoreGoes
    <3>2. rs' \in RestoreLocals
      BY <1>1, <3>1 DEF RestoreLocals
    <3>3. /\ rs'.at = "staged" /\ rs'.database = rs.database /\ rs'.release = rs.release
          /\ rs'.made = rs.made
      BY <1>1, <3>1 DEF RestoreLocals
    <3> QED BY <1>2, <1>4, <3>1, <3>2, <3>3 DEF Inv, RestoreInv, sourceVars
  <2>3. CASE MigrateStage
    <3> DEFINE new == [rs.database EXCEPT !.schema = rs.release]
    <3>1. /\ rs.at = "staged" /\ rs.database \in committed /\ rs.database \in Databases
          /\ rs.database.schema <= rs.release /\ rs.release \in Schemas /\ rs.made = FALSE
      BY <1>1, <2>3 DEF MigrateStage, Inv, RestoreInv, RestoreLocals
    <3>2. new \in Databases /\ new.objects = rs.database.objects /\ new.schema = rs.release
      BY <3>1 DEF Databases
    <3>3. rs' = [rs EXCEPT !.at = "installing", !.database = new, !.todo = rs.database.objects]
      BY <1>1, <2>3 DEF MigrateStage, RestoreLocals
    <3>4. new = [rs.database EXCEPT !.schema = new.schema]
      BY <3>2
    <3> HIDE DEF new
    <3>5. rs.database.objects \subseteq Objects
      BY <3>1 DEF Databases
    <3>6. rs' \in RestoreLocals
      BY <1>1, <3>2, <3>3, <3>5 DEF RestoreLocals
    <3>7. /\ rs'.at = "installing" /\ rs'.database = new /\ rs'.todo = new.objects
          /\ rs'.made = rs.made
      BY <1>1, <3>2, <3>3 DEF RestoreLocals
    <3>8. Forward(rs.database)'
      BY <1>2, <3>1, <3>2, <3>4, <3>7 DEF Forward, sourceVars
    <3>9. target' = target /\ rs'.made = FALSE /\ new.objects \subseteq target.objects \cup rs'.todo
      BY <1>2, <3>1, <3>7
    <3> QED BY <1>4, <3>2, <3>6, <3>7, <3>8, <3>9 DEF RestoreInv
  <2> QED BY <2>1, <2>2, <2>3
<1>6. FinalInv' /\ TargetIsWhole'
  BY <1>2, <1>3, <1>4 DEF FinalInv, TargetIsWhole
<1> QED
  BY <1>1, <1>2, <1>5, <1>6, RestoreKeeps DEF Inv, TypeOK

\* Installing objects, then the database, leaves no database without its objects.
LEMMA InstallStep ==
  ASSUME Inv, InstallDatabase \/ InstallDatabaseFails \/ \E o \in Objects : InstallObject(o)
  PROVE  Inv'
<1>1. /\ rs \in RestoreLocals /\ target \in Targets /\ rs.at = "installing"
      /\ rs.database \in Databases /\ Forward(rs.database)
      /\ target.database = None /\ rs.made = FALSE /\ restored = None
      /\ rs.database.objects \subseteq target.objects \cup rs.todo
  BY DEF Inv, TypeOK, RestoreInv, FinalInv, InstallDatabase, InstallDatabaseFails, InstallObject
<1>2. UNCHANGED <<sourceVars, backupVars, damage, restored>>
  BY DEF InstallDatabase, InstallDatabaseFails, InstallObject, outside
<1>3. CASE \E o \in Objects : InstallObject(o)
  <2>1. PICK o \in Objects : InstallObject(o)
    BY <1>3
  <2>2. target' = [target EXCEPT !.tree = TRUE, !.objects = @ \cup {o}]
    BY <2>1 DEF InstallObject
  <2> DEFINE mine == IF o \in target.objects THEN rs.mine ELSE rs.mine \cup {o}
  <2>3. mine \subseteq Objects
    BY <1>1 DEF RestoreLocals
  <2>4. rs' = [rs EXCEPT !.todo = @ \ {o}, !.mine = mine]
    BY <1>1, <2>1 DEF InstallObject, RestoreLocals
  <2> HIDE DEF mine
  <2>5. target' \in Targets /\ target'.database = None /\ target'.objects = target.objects \cup {o}
    BY <1>1, <2>2 DEF Targets
  <2>6. rs' \in RestoreLocals
    BY <1>1, <2>3, <2>4 DEF RestoreLocals
  <2>7. /\ rs'.at = "installing" /\ rs'.database = rs.database /\ rs'.made = rs.made
        /\ rs'.todo = rs.todo \ {o}
    BY <1>1, <2>4 DEF RestoreLocals
  <2>8. Forward(rs.database)'
    BY <1>1, <1>2, <2>7 DEF Forward, sourceVars
  <2>9. RestoreInv' /\ FinalInv' /\ TargetIsWhole'
    BY <1>1, <1>2, <2>5, <2>7, <2>8 DEF RestoreInv, FinalInv, TargetIsWhole
  <2> QED
    BY <1>2, <2>5, <2>6, <2>9, RestoreKeeps DEF Inv, TypeOK
<1>4. CASE InstallDatabase
  <2>1. target' = [target EXCEPT !.database = rs.database] /\ rs.todo = {}
    BY <1>4 DEF InstallDatabase
  <2>2. rs' = [rs EXCEPT !.at = "installed", !.made = TRUE]
    BY <1>4 DEF InstallDatabase
  <2>3. /\ target' \in Targets /\ target'.database = rs.database
        /\ target'.objects = target.objects
    BY <1>1, <2>1 DEF Targets
  <2>4. rs' \in RestoreLocals
    BY <1>1, <2>2 DEF RestoreLocals
  <2>5. rs'.at = "installed" /\ rs'.database = rs.database /\ rs'.made = TRUE
    BY <1>1, <2>2 DEF RestoreLocals
  <2>6. Forward(rs.database)'
    BY <1>1, <1>2, <2>5 DEF Forward, sourceVars
  <2>7. RestoreInv' /\ FinalInv' /\ TargetIsWhole'
    BY <1>1, <1>2, <2>1, <2>3, <2>5, <2>6 DEF RestoreInv, FinalInv, TargetIsWhole
  <2> QED
    BY <1>2, <2>3, <2>4, <2>7, RestoreKeeps DEF Inv, TypeOK
<1>5. CASE InstallDatabaseFails
  <2>1. target' = target /\ rs' = [rs EXCEPT !.at = "failing", !.made = TRUE]
    BY <1>5 DEF InstallDatabaseFails
  <2>2. rs' \in RestoreLocals
    BY <1>1, <2>1 DEF RestoreLocals
  <2>3. rs'.at = "failing"
    BY <1>1, <2>1 DEF RestoreLocals
  <2>4. RestoreInv' /\ FinalInv' /\ TargetIsWhole'
    BY <1>1, <1>2, <2>1, <2>3 DEF RestoreInv, FinalInv, TargetIsWhole
  <2> QED
    BY <1>1, <1>2, <2>1, <2>2, <2>4, RestoreKeeps DEF Inv, TypeOK
<1> QED
  BY <1>3, <1>4, <1>5

\* The checks that end in COMPLETE.
LEMMA CompleteStep ==
  ASSUME Inv, CheckTarget \/ FinishRestore
  PROVE  Inv'
<1>1. /\ rs \in RestoreLocals /\ target \in Targets /\ rs.at \in {"installed", "checked"}
      /\ rs.database \in Databases /\ Forward(rs.database)
      /\ target.database = rs.database /\ rs.made = TRUE /\ restored = None
  BY DEF Inv, TypeOK, RestoreInv, FinalInv, CheckTarget, FinishRestore
<1>2. UNCHANGED <<sourceVars, backupVars, damage, target>>
  BY DEF CheckTarget, FinishRestore, outside
<1>3. TargetIsWhole'
  BY <1>2 DEF Inv, TargetIsWhole
<1>5. CASE CheckTarget
  <2>1. rs' = [rs EXCEPT !.at = "checked"] /\ restored' = restored
    BY <1>5 DEF CheckTarget, RestoreGoes
  <2>2. rs' \in RestoreLocals
    BY <1>1, <2>1 DEF RestoreLocals
  <2>3. rs'.at = "checked" /\ rs'.database = rs.database /\ rs'.made = TRUE
    BY <1>1, <2>1 DEF RestoreLocals
  <2>4. Forward(rs.database)'
    BY <1>1, <1>2, <2>3 DEF Forward, sourceVars
  <2>5. RestoreInv' /\ FinalInv'
    BY <1>1, <1>2, <2>1, <2>3, <2>4 DEF RestoreInv, FinalInv
  <2> QED
    BY <1>1, <1>2, <1>3, <2>1, <2>2, <2>5, RestoreKeeps DEF Inv, TypeOK
<1>6. CASE FinishRestore
  <2>1. rs' = IdleRestore /\ restored' = rs.database
    BY <1>6 DEF FinishRestore
  <2>2. rs' \in RestoreLocals /\ rs'.at = "idle"
    BY <2>1 DEF IdleRestore, RestoreLocals, Schemas
  <2>3. Forward(restored)'
    BY <1>1, <1>2, <2>1 DEF Forward, sourceVars
  <2>4. RestoreInv' /\ FinalInv'
    BY <1>1, <1>2, <2>1, <2>2, <2>3 DEF RestoreInv, FinalInv
  <2> QED
    BY <1>1, <1>2, <1>3, <2>1, <2>2, <2>4, RestoreKeeps DEF Inv, TypeOK
<1> QED
  BY <1>5, <1>6

\* Failures and the cleanup, which takes the database before the objects.
LEMMA CleanupStep ==
  ASSUME Inv,
         \/ RestoreFails \/ RemoveTarget \/ RemovalFails \/ RestoreRefuses \/ RestoreDies
         \/ \E o \in Objects : RemoveObject(o)
  PROVE  Inv'
<1>1. /\ rs \in RestoreLocals /\ target \in Targets /\ rs.at # "idle" /\ restored = None
      /\ damage \in [files : 0..MaxDamage, bundle : BOOLEAN, cleanup : BOOLEAN]
  BY DEF Inv, TypeOK, FinalInv, RestoreFails, RemoveTarget, RemovalFails, RestoreRefuses,
     RestoreDies, RemoveObject
<1>2. UNCHANGED <<sourceVars, backupVars, restored>>
  BY DEF RestoreFails, RemoveTarget, RemovalFails, RestoreRefuses, RestoreDies, RemoveObject,
     outside
<1>3. FinalInv'
  BY <1>1, <1>2 DEF FinalInv
<1>4. CASE RestoreFails
  <2>1. damage' = damage /\ rs' = [rs EXCEPT !.at = "failing"]
        /\ (target' = target \/ target' = [target EXCEPT !.tree = TRUE])
    BY <1>4 DEF RestoreFails, RestoreGoes, outside
  <2>2. /\ target' \in Targets
        /\ target'.database = target.database /\ target'.objects = target.objects
    BY <1>1, <2>1 DEF Targets
  <2>3. rs' \in RestoreLocals
    BY <1>1, <2>1 DEF RestoreLocals
  <2>4. rs'.at = "failing" /\ rs'.made = rs.made
    BY <1>1, <2>1 DEF RestoreLocals
  <2>5. rs.made = FALSE => target.database = None
    BY <1>1, <1>4 DEF Inv, RestoreInv, RestoreFails, RestoreLocals
  <2>6. RestoreInv' /\ TargetIsWhole'
    BY <2>1, <2>2, <2>4, <2>5 DEF Inv, RestoreInv, TargetIsWhole
  <2> QED
    BY <1>1, <1>2, <1>3, <2>1, <2>2, <2>3, <2>6, RestoreKeeps DEF Inv, TypeOK
<1>5. CASE RemoveTarget
  <2>1. damage' = damage /\ target' = [target EXCEPT !.database = None]
        /\ rs' = [rs EXCEPT !.made = FALSE] /\ rs.at = "failing"
    BY <1>5 DEF RemoveTarget, outside
  <2>2. target' \in Targets /\ target'.database = None
    BY <1>1, <2>1 DEF Targets
  <2>3. rs' \in RestoreLocals
    BY <1>1, <2>1 DEF RestoreLocals
  <2>4. rs'.at = "failing"
    BY <1>1, <2>1 DEF RestoreLocals
  <2>5. RestoreInv' /\ TargetIsWhole'
    BY <2>2, <2>4 DEF RestoreInv, TargetIsWhole
  <2> QED
    BY <1>1, <1>2, <1>3, <2>1, <2>2, <2>3, <2>5, RestoreKeeps DEF Inv, TypeOK
<1>6. CASE \E o \in Objects : RemoveObject(o)
  <2>1. PICK o \in Objects : RemoveObject(o)
    BY <1>6
  <2>2. damage' = damage /\ target' = [target EXCEPT !.objects = @ \ {o}]
        /\ rs' = [rs EXCEPT !.mine = @ \ {o}] /\ rs.at = "failing" /\ ~rs.made
    BY <2>1 DEF RemoveObject, outside
  <2>3. target' \in Targets /\ target'.database = target.database
    BY <1>1, <2>2 DEF Targets
  <2>4. rs' \in RestoreLocals
    BY <1>1, <2>2 DEF RestoreLocals
  <2>5. rs'.at = "failing" /\ rs'.made = rs.made
    BY <1>1, <2>2 DEF RestoreLocals
  <2>6. damage.cleanup = FALSE => target.database = None
    BY <1>1, <2>2 DEF Inv, RestoreInv, RestoreLocals
  <2>7. RestoreInv' /\ TargetIsWhole'
    BY <1>1, <2>2, <2>3, <2>5, <2>6 DEF RestoreInv, TargetIsWhole
  <2> QED
    BY <1>1, <1>2, <1>3, <2>2, <2>3, <2>4, <2>7, RestoreKeeps DEF Inv, TypeOK
<1>7. CASE RemovalFails
  <2>1. target' = target /\ rs.at = "failing"
    BY <1>7 DEF RemovalFails
  <2>2. CASE rs.made
    <3>1. /\ rs' = [rs EXCEPT !.made = FALSE]
          /\ damage' = [damage EXCEPT !.cleanup = target.database # None]
      BY <1>7, <2>2 DEF RemovalFails
    <3>2. rs' \in RestoreLocals
      BY <1>1, <3>1 DEF RestoreLocals
    <3>3. rs'.at = "failing"
      BY <1>1, <2>1, <3>1 DEF RestoreLocals
    <3>4. /\ damage' \in [files : 0..MaxDamage, bundle : BOOLEAN, cleanup : BOOLEAN]
          /\ damage'.cleanup = (target.database # None)
      BY <1>1, <3>1
    <3>5. RestoreInv'
      BY <2>1, <3>3, <3>4 DEF RestoreInv
    <3>6. TargetIsWhole'
      BY <2>1, <3>4 DEF TargetIsWhole
    <3> QED
      BY <1>1, <1>2, <1>3, <2>1, <3>2, <3>4, <3>5, <3>6, RestoreKeeps DEF Inv, TypeOK
  <2>3. CASE ~rs.made
    <3>1. PICK o \in rs.mine : rs' = [rs EXCEPT !.mine = @ \ {o}] /\ damage' = damage
      BY <1>7, <2>3 DEF RemovalFails
    <3>2. rs' \in RestoreLocals
      BY <1>1, <3>1 DEF RestoreLocals
    <3>3. rs'.at = "failing" /\ rs'.made = rs.made
      BY <1>1, <2>1, <3>1 DEF RestoreLocals
    <3>4. RestoreInv' /\ TargetIsWhole'
      BY <2>1, <3>1, <3>3 DEF Inv, RestoreInv, TargetIsWhole
    <3> QED
      BY <1>1, <1>2, <1>3, <2>1, <3>1, <3>2, <3>4, RestoreKeeps DEF Inv, TypeOK
  <2> QED BY <2>2, <2>3
<1>8. CASE RestoreRefuses \/ RestoreDies
  <2>1. target' = target /\ damage' = damage /\ rs' = IdleRestore
    BY <1>8 DEF RestoreRefuses, RestoreDies, outside
  <2>2. rs' \in RestoreLocals /\ rs'.at = "idle"
    BY <2>1 DEF IdleRestore, RestoreLocals, Schemas
  <2>3. RestoreInv' /\ TargetIsWhole'
    BY <2>1, <2>2 DEF Inv, RestoreInv, TargetIsWhole
  <2> QED
    BY <1>1, <1>2, <1>3, <2>1, <2>2, <2>3, RestoreKeeps DEF Inv, TypeOK
<1> QED
  BY <1>4, <1>5, <1>6, <1>7, <1>8

-----------------------------------------------------------------------------

\* Every step preserves the invariant.
LEMMA InvStep == Inv /\ [Next]_vars => Inv'
<1> SUFFICES ASSUME Inv, [Next]_vars PROVE Inv'
  OBVIOUS
<1>1. CASE Store
  BY <1>1, StoreStep
<1>2. CASE LoseBundleFile
  BY <1>2, LossStep
<1>3. CASE \E p \in Backups : Backup(p)
  BY <1>3, BackupStep
<1>4. CASE Restore
  BY <1>4, ReadStep, InstallStep, CompleteStep, CleanupStep DEF Restore
<1>5. CASE UNCHANGED vars
  BY <1>5, RestoreUntouched
     DEF vars, Inv, TypeOK, SourceInv
<1> QED
  BY <1>1, <1>2, <1>3, <1>4, <1>5 DEF Next

\* The invariant holds always.
THEOREM Invariance == Spec => []Inv
  BY InitInv, InvStep, PTL DEF Spec

\* Type correctness of store, bundle, target and both commands.
THEOREM TypeCorrect == Spec => []TypeOK
<1>1. Inv => TypeOK
  BY DEF Inv
<1> QED
  BY <1>1, Invariance, PTL

\* The restore target never shows a database without its artifacts, for any
\* number of artifacts and concurrent backups, whatever fails or is killed.
THEOREM AlwaysWhole == Spec => []TargetIsWhole
<1>1. Inv => TargetIsWhole
  BY DEF Inv
<1> QED
  BY <1>1, Invariance, PTL

\* What a COMPLETE restore installed is a state the source was in, brought
\* forward, and stays at the target; concurrent backups cannot mix two states
\* into what it accepts.
THEOREM Faithful == Spec => []RestoreIsFaithful
<1>1. Inv => RestoreIsFaithful
  BY DEF Inv, FinalInv, Forward, RestoreIsFaithful
<1> QED
  BY <1>1, Invariance, PTL

-----------------------------------------------------------------------------
(* What becomes of an acknowledged bundle *)

\* While a backup is alone, the marker in the bundle is the one it has written, and
\* what it has verified is its own.
AloneFits(p) ==
  bk[p].alone =>
    /\ bk[p].at # "idle" /\ \A q \in Backups : q # p => bk[q].at = "idle"
    /\ bk[p].at = "marked" /\ ~damage.bundle => bundle.marker = bk[p].database
    /\ bk[p].at = "verified" /\ ~damage.bundle => bundle = BundleOf(bk[p].database)

AloneInv == \A p \in Backups : AloneFits(p)

\* A bundle that verifies is a backup of what its marker names.
LEMMA WholeIsBundle == ASSUME Inv, Whole(bundle) PROVE bundle = BundleOf(bundle.marker)
<1>1. /\ bundle.there = TRUE /\ bundle.database = bundle.marker
      /\ bundle.manifest = bundle.marker /\ bundle.objects = bundle.marker.objects
  BY DEF Whole, Inv, TypeOK, Bundles
<1> QED
  BY <1>1 DEF BundleOf, Inv, TypeOK, Bundles

\* The source, damage to the bundle and the restore leave backups and bundle alone,
\* or say that it was damaged.
LEMMA OthersLeaveBundle ==
  ASSUME Inv, Store \/ LoseBundleFile \/ Restore \/ UNCHANGED vars
  PROVE  /\ acked' = acked /\ bk' = bk
         /\ damage'.bundle \/ (bundle' = bundle /\ damage'.bundle = damage.bundle)
<1>1. acked' = acked /\ bk' = bk
  BY DEF Store, Commit, SwitchRelease, MigrateSource, LoseObject, LoseBundleFile,
     Restore, BeginRestore, StageBundle, MigrateStage, InstallObject, InstallDatabase,
     InstallDatabaseFails, CheckTarget, FinishRestore, RestoreFails, RemoveTarget, RemoveObject,
     RemovalFails, RestoreRefuses, RestoreDies, outside, backupVars, vars
<1>2. CASE LoseBundleFile
  BY <1>1, <1>2 DEF LoseBundleFile, Inv, TypeOK
<1>3. CASE Store
  BY <1>1, <1>3 DEF Store, Commit, SwitchRelease, MigrateSource, LoseObject, backupVars, Inv, TypeOK
<1>4. CASE Restore \/ UNCHANGED vars
  BY <1>1, <1>4 DEF Restore, BeginRestore, StageBundle, MigrateStage, InstallObject,
     InstallDatabase, InstallDatabaseFails, CheckTarget, FinishRestore, RestoreFails,
     RemoveTarget, RemoveObject, RemovalFails, RestoreRefuses, RestoreDies, outside,
     backupVars, vars, Inv, TypeOK
<1> QED
  BY <1>2, <1>3, <1>4

\* A backup goes on by itself: it ends, writes the marker, verifies, or is elsewhere.
LEMMA BackupGoesAlone ==
  ASSUME Inv, NEW p \in Backups, Backup(p), ~BeginBackup(p)
  PROVE  /\ bk[p].at # "idle" /\ \A q \in Backups : q # p => bk'[q] = bk[q]
         /\ \/ bk'[p] = IdleBackup
            \/ /\ bk'[p].alone = bk[p].alone
               /\ \/ WriteMarker(p) \/ VerifyBundle(p)
                  \/ bk'[p].at \notin {"idle", "marked", "verified"}
<1>1. bk \in [Backups -> BackupLocals] /\ bk[p] \in BackupLocals
  BY DEF Inv, TypeOK
<1>2. CASE FinishBackup(p) \/ RemoveBundle(p) \/ BackupDies(p)
  BY <1>1, <1>2 DEF FinishBackup, RemoveBundle, BackupDies
<1>3. CASE StageDatabase(p) \/ MakeDestination(p)
  BY <1>1, <1>3 DEF StageDatabase, MakeDestination, BackupLocals
<1>4. CASE \/ FillPartial(p) \/ MakeDestinationFails(p) \/ CopyManifest(p) \/ BackupFails(p)
           \/ WriteMarker(p) \/ VerifyBundle(p)
  <2>1. PICK at \in {"partial", "failing", "described", "marked", "verified"} :
          /\ bk' = [bk EXCEPT ![p].at = at] /\ bk[p].at # "idle"
          /\ WriteMarker(p) \/ VerifyBundle(p) \/ at \notin {"marked", "verified"}
    BY <1>4 DEF FillPartial, MakeDestinationFails, CopyManifest, BackupFails, WriteMarker,
       VerifyBundle, BackupGoes
  <2> QED
    BY <1>1, <2>1 DEF BackupLocals
<1>5. CASE CopyDatabase(p) \/ \E o \in Objects : CopyObject(p, o)
  <2>1. PICK o : bk' = [bk EXCEPT ![p].todo = @ \ {o}] /\ bk[p].at = "copying"
    BY <1>5 DEF CopyDatabase, CopyObject
  <2> QED
    BY <1>1, <2>1 DEF BackupLocals
<1>6. CASE RemovePartial(p)
  BY <1>1, <1>6 DEF RemovePartial, BackupLocals
<1>7. CASE RemoveBundleFile(p)
  BY <1>1, <1>7 DEF RemoveBundleFile
<1> QED
  BY <1>2, <1>3, <1>4, <1>5, <1>6, <1>7 DEF Backup

\* What the step of one backup does to it, and what it leaves of the others.
LEMMA AloneByBackup ==
  ASSUME Inv, AloneInv, NEW p \in Backups, Backup(p)
  PROVE  AloneInv'
<1>1. /\ bk \in [Backups -> BackupLocals] /\ \A q \in Backups : bk[q] \in BackupLocals
      /\ damage' = damage /\ IdleBackup.at = "idle" /\ IdleBackup.alone = FALSE
  BY DEF Inv, TypeOK, Backup, BeginBackup, StageDatabase, FillPartial, MakeDestination,
     MakeDestinationFails, CopyDatabase, CopyObject, CopyManifest, WriteMarker, VerifyBundle,
     FinishBackup, BackupFails, RemovePartial, RemoveBundleFile, RemoveBundle, BackupDies,
     elsewhere, IdleBackup
<1>2. CASE BeginBackup(p)
  <2>1. ASSUME NEW q \in Backups, q # p PROVE bk'[q].alone = FALSE
    BY <1>1, <1>2, <2>1 DEF BeginBackup, Join, BackupLocals
  <2>2. /\ bk'[p].alone = Quiet /\ bk'[p].at = "checked"
    BY <1>1, <1>2 DEF BeginBackup, Join, IdleBackup
  <2>3. ASSUME NEW q \in Backups, q # p PROVE bk'[q].at = bk[q].at
    BY <1>1, <1>2, <2>3 DEF BeginBackup, Join, BackupLocals
  <2>4. AloneFits(p)'
    BY <2>2, <2>3 DEF AloneFits, Quiet
  <2> QED
    BY <2>1, <2>4 DEF AloneInv, AloneFits
<1>3. CASE ~BeginBackup(p)
  <2>1. /\ bk[p].at # "idle"
        /\ \A q \in Backups : q # p => bk'[q] = bk[q]
        /\ bk'[p] = IdleBackup \/ bk'[p].alone = bk[p].alone
    BY <1>3, BackupGoesAlone
  <2>2. \A q \in Backups : q # p => bk[q].alone = FALSE
    <3>1. \A q \in Backups : bk[q].alone \in BOOLEAN
      BY <1>1 DEF BackupLocals
    <3> QED
      BY <2>1, <3>1 DEF AloneInv, AloneFits
  <2>3. bk'[p].alone => bk[p].alone /\ \A q \in Backups : q # p => bk'[q].at = "idle"
    BY <1>1, <2>1 DEF AloneInv, AloneFits
  <2>4. CASE WriteMarker(p)
    <3>1. bk'[p].at = "marked" /\ bk'[p].database = bk[p].database
          /\ bundle'.marker = bk[p].database
      BY <1>1, <2>4 DEF WriteMarker, BackupGoes, BackupLocals, Inv, TypeOK, Bundles
    <3>2. AloneFits(p)'
      BY <2>3, <3>1 DEF AloneFits
    <3> QED
      BY <2>1, <2>2, <3>2 DEF AloneInv, AloneFits
  <2>5. CASE VerifyBundle(p)
    <3>1. /\ bk[p].at = "marked" /\ bundle' = bundle /\ Whole(bundle)
          /\ bk'[p].at = "verified" /\ bk'[p].database = bk[p].database
      BY <1>1, <2>5 DEF VerifyBundle, BackupGoes, BackupLocals
    <3>2. bk'[p].alone /\ ~damage'.bundle => bundle' = BundleOf(bk'[p].database)
      BY <1>1, <2>3, <3>1, WholeIsBundle DEF AloneInv, AloneFits
    <3>3. AloneFits(p)'
      BY <2>3, <3>1, <3>2 DEF AloneFits, BundleOf
    <3> QED
      BY <2>1, <2>2, <3>3 DEF AloneInv, AloneFits
  <2>6. CASE ~WriteMarker(p) /\ ~VerifyBundle(p)
    <3>1. bk'[p].alone => bk'[p].at \notin {"idle", "marked", "verified"}
      <4>1. bk'[p] = IdleBackup \/ bk'[p].at \notin {"idle", "marked", "verified"}
        BY <1>3, <2>6, BackupGoesAlone
      <4> QED
        BY <1>1, <4>1
    <3>2. AloneFits(p)'
      BY <2>3, <3>1 DEF AloneFits
    <3> QED
      BY <2>1, <2>2, <3>2 DEF AloneInv, AloneFits
  <2> QED
    BY <2>4, <2>5, <2>6
<1> QED
  BY <1>2, <1>3

LEMMA AloneStep == ASSUME Inv, AloneInv, [Next]_vars PROVE AloneInv'
<1>1. CASE Store \/ LoseBundleFile \/ Restore \/ UNCHANGED vars
  BY <1>1, OthersLeaveBundle DEF AloneInv, AloneFits, BundleOf
<1> QED
  BY <1>1, AloneByBackup DEF Next

\* What is acknowledged has been verified by a backup, and it is the only one if
\* it is alone.
LEMMA GivenIsTrue ==
  ASSUME Inv, AloneInv, [Next]_vars, ~damage'.bundle,
         acked' # acked, \E p \in Backups : bk[p].alone
  PROVE  Quiet' /\ acked' \in committed' /\ bundle' = BundleOf(acked')
<1>1. PICK p \in Backups : FinishBackup(p)
  <2>1. PICK p \in Backups : Backup(p)
    BY OthersLeaveBundle DEF Next
  <2>2. FinishBackup(p)
    BY <2>1 DEF Backup, BeginBackup, StageDatabase, FillPartial, MakeDestination,
       MakeDestinationFails, CopyDatabase, CopyObject, CopyManifest, WriteMarker, VerifyBundle,
       BackupFails, RemovePartial, RemoveBundleFile, RemoveBundle, BackupDies
  <2> QED
    BY <2>2
<1>2. /\ bk[p].at = "verified" /\ bk' = [bk EXCEPT ![p] = IdleBackup]
      /\ acked' = bk[p].database /\ bundle' = bundle /\ committed' = committed
      /\ damage' = damage
  BY <1>1 DEF FinishBackup, elsewhere, sourceVars
<1>3. bk[p].alone /\ \A q \in Backups : q # p => bk[q].at = "idle"
  BY <1>2 DEF AloneInv, AloneFits
<1>4. bundle = BundleOf(bk[p].database) /\ bk[p].database \in committed
  BY <1>2, <1>3 DEF AloneInv, AloneFits, Inv, SourceInv
<1>5. Quiet'
  BY <1>2, <1>3 DEF Quiet, IdleBackup, Inv, TypeOK
<1> QED
  BY <1>2, <1>4, <1>5

\* A backup that is not at work yet finds the destination and refuses.
LEMMA RestsOn ==
  ASSUME Inv, Quiet, bundle.there, [Next]_vars, ~damage'.bundle
  PROVE  Quiet' /\ bundle' = bundle
<1>1. \A p \in Backups : ~Backup(p)
  BY DEF Quiet, Backup, BeginBackup, StageDatabase, FillPartial, MakeDestination,
     MakeDestinationFails, CopyDatabase, CopyObject, CopyManifest, WriteMarker, VerifyBundle,
     FinishBackup, BackupFails, RemovePartial, RemoveBundleFile, RemoveBundle, BackupDies
<1>2. bk' = bk /\ bundle' = bundle
  BY <1>1, OthersLeaveBundle DEF Next
<1> QED
  BY <1>2 DEF Quiet

\* For any number of backups at once: one that no other has overlapped is told
\* COMPLETE only of a complete copy of one committed state of the store; and once
\* no backup is at work, what is at the destination is never touched again by one
\* that begins later, whatever is killed or fails.  That an overlapping backup may
\* still overwrite it is what the run backup_overwrites shows.
THEOREM AckedKept == Spec => AckedBundleIsKept
<1> DEFINE Keeps ==
      ~damage'.bundle =>
        /\ acked' # acked /\ (\E p \in Backups : bk[p].alone) =>
             Quiet' /\ acked' \in committed' /\ bundle' = BundleOf(acked')
        /\ Quiet /\ bundle.there => Quiet' /\ bundle' = bundle
<1>1. Init => AloneInv
  BY DEF Init, AloneInv, AloneFits, IdleBackup
<1>2. Inv /\ AloneInv /\ [Next]_vars => AloneInv'
  BY AloneStep
<1>3. Inv /\ AloneInv /\ [Next]_vars => [Keeps]_vars
  BY GivenIsTrue, RestsOn
<1>4. Spec => [][Keeps]_vars
  BY <1>1, <1>2, <1>3, Invariance, PTL DEF Spec
<1> QED
  BY <1>4 DEF AckedBundleIsKept
-----------------------------------------------------------------------------
(* BackupRestore implements AtomicRestore *)

Seen == IF target.database = None \/ damage.cleanup THEN None ELSE target.database

\* No artifact of a database at the target is missing.
LEMMA ShownIsSeen == Inv => Shown = Seen
<1> SUFFICES ASSUME Inv PROVE Shown = Seen
  OBVIOUS
<1>1. CASE target.database = None \/ damage.cleanup
  BY <1>1 DEF Shown, Seen
<1>2. CASE target.database # None /\ ~damage.cleanup
  <2>1. /\ target.database \in Databases
        /\ target.database.objects \cap target.objects = target.database.objects
    BY <1>2 DEF Inv, TypeOK, Targets, TargetIsWhole
  <2>2. [target.database EXCEPT !.objects = @ \cap target.objects] = target.database
    BY <2>1 DEF Databases
  <2> QED
    BY <1>2, <2>2 DEF Shown, Seen
<1> QED
  BY <1>1, <1>2

\* The history of the source grows by one state at a time, while nothing changes
\* at the target.
LEMMA SourceAdvances ==
  ASSUME Inv, Inv', Store
  PROVE  /\ Seen' = Seen
         /\ committed' = committed \/ \E d \in Databases : committed' = committed \cup {d}
<1>1. Seen' = Seen
  BY DEF Store, Commit, SwitchRelease, MigrateSource, LoseObject, restoreVars, Seen, Inv, TypeOK
<1>2. source' \in Databases
  BY DEF Inv, TypeOK
<1>3. committed' = committed \/ committed' = committed \cup {source'}
  BY DEF Store, Commit, SwitchRelease, MigrateSource, LoseObject, SourceBecomes
<1> QED
  BY <1>1, <1>2, <1>3

\* Steps at which nothing appears or disappears.
LEMMA NothingShows ==
  ASSUME Inv,
         \/ UNCHANGED vars \/ LoseBundleFile \/ \E p \in Backups : Backup(p)
         \/ BeginRestore \/ StageBundle \/ MigrateStage \/ InstallDatabaseFails
         \/ CheckTarget \/ FinishRestore \/ RestoreFails \/ RestoreRefuses \/ RestoreDies
         \/ \E o \in Objects : InstallObject(o) \/ RemoveObject(o)
  PROVE  Seen' = Seen /\ committed' = committed
<1>1. committed' = committed
  BY DEF vars, LoseBundleFile, Backup, BeginBackup, StageDatabase, FillPartial,
     MakeDestination, MakeDestinationFails, CopyDatabase, CopyObject, CopyManifest, WriteMarker,
     VerifyBundle, FinishBackup, BackupFails, RemovePartial, RemoveBundleFile, RemoveBundle, BackupDies,
     BeginRestore, StageBundle, MigrateStage, InstallObject, InstallDatabaseFails, CheckTarget,
     FinishRestore, RestoreFails, RemoveObject, RestoreRefuses, RestoreDies, elsewhere, outside,
     sourceVars
<1>2. damage'.cleanup = damage.cleanup
  <2>1. CASE LoseBundleFile
    BY <2>1 DEF LoseBundleFile, Inv, TypeOK
  <2>2. CASE ~LoseBundleFile
    <3>1. damage' = damage
      BY <2>2 DEF vars, Backup, BeginBackup, StageDatabase, FillPartial,
         MakeDestination, MakeDestinationFails, CopyDatabase, CopyObject, CopyManifest,
         WriteMarker, VerifyBundle, FinishBackup, BackupFails, RemovePartial, RemoveBundleFile, RemoveBundle,
         BackupDies, BeginRestore, StageBundle, MigrateStage, InstallObject,
         InstallDatabaseFails, CheckTarget, FinishRestore, RestoreFails, RemoveObject,
         RestoreRefuses, RestoreDies, elsewhere, outside
    <3> QED
      BY <3>1
  <2> QED
    BY <2>1, <2>2
<1>3. target'.database = target.database
  <2>1. CASE \E o \in Objects : InstallObject(o) \/ RemoveObject(o)
    BY <2>1 DEF InstallObject, RemoveObject, Inv, TypeOK, Targets
  <2>2. CASE RestoreFails
    BY <2>2 DEF RestoreFails, Inv, TypeOK, Targets
  <2>3. CASE ~RestoreFails /\ ~\E o \in Objects : InstallObject(o) \/ RemoveObject(o)
    <3>1. target' = target
      BY <2>3 DEF vars, LoseBundleFile, Backup, BeginBackup, StageDatabase, FillPartial,
         MakeDestination, MakeDestinationFails, CopyDatabase, CopyObject, CopyManifest,
         WriteMarker, VerifyBundle, FinishBackup, BackupFails, RemovePartial, RemoveBundleFile, RemoveBundle,
         BackupDies, BeginRestore, StageBundle, MigrateStage, InstallDatabaseFails, CheckTarget,
         FinishRestore, RestoreRefuses, RestoreDies, elsewhere, restoreVars
    <3> QED
      BY <3>1
  <2> QED
    BY <2>1, <2>2, <2>3
<1> QED
  BY <1>1, <1>2, <1>3 DEF Seen

\* The database is put in place last, when it is a state of the source brought
\* forward, and nothing was at the target.
LEMMA Appears ==
  ASSUME Inv, InstallDatabase
  PROVE  /\ committed' = committed
         /\ \/ Seen' = Seen
            \/ /\ Seen = None /\ Seen' \in Databases
               /\ Forward(Seen')
<1>1. /\ rs.at = "installing" /\ target' = [target EXCEPT !.database = rs.database]
      /\ damage' = damage /\ committed' = committed
  BY DEF InstallDatabase, outside, sourceVars
<1>2. /\ target.database = None /\ rs.database \in Databases /\ Forward(rs.database)
  BY <1>1 DEF Inv, RestoreInv
<1>3. target'.database = rs.database /\ Seen = None
  BY <1>1, <1>2 DEF Inv, TypeOK, Targets, Seen
<1>4. CASE damage.cleanup
  BY <1>1, <1>3, <1>4 DEF Seen
<1>5. CASE ~damage.cleanup
  <2>1. Seen' = rs.database
    BY <1>1, <1>2, <1>3, <1>5 DEF Seen
  <2>2. Forward(Seen')
    BY <1>2, <2>1
  <2> QED
    BY <1>1, <1>2, <1>3, <2>1, <2>2
<1> QED
  BY <1>4, <1>5

\* The cleanup takes the database first, or has to leave it and says so.
LEMMA Disappears ==
  ASSUME Inv, RemoveTarget \/ RemovalFails
  PROVE  committed' = committed /\ (Seen' = Seen \/ Seen' = None)
<1>1. committed' = committed
  BY DEF RemoveTarget, RemovalFails, outside, sourceVars
<1>2. CASE RemoveTarget
  <2>1. target'.database = None
    BY <1>2 DEF RemoveTarget, Inv, TypeOK, Targets
  <2> QED
    BY <1>1, <2>1 DEF Seen
<1>3. CASE RemovalFails /\ rs.made
  <2>1. target' = target /\ damage'.cleanup = (target.database # None)
    BY <1>3 DEF RemovalFails, Inv, TypeOK
  <2> QED
    BY <1>1, <2>1 DEF Seen
<1>4. CASE RemovalFails /\ ~rs.made
  BY <1>1, <1>4 DEF RemovalFails, Seen
<1> QED
  BY <1>2, <1>3, <1>4

LEMMA ShownStep ==
  ASSUME Inv, Inv', [Next]_vars
  PROVE  \/ UNCHANGED <<committed, Seen>>
         \/ Seen' = Seen /\ \E d \in Databases : committed' = committed \cup {d}
         \/ /\ committed' = committed
            /\ Seen = None /\ Seen' \in Databases /\ Forward(Seen')
         \/ committed' = committed /\ Seen # None /\ Seen' = None
<1>1. CASE Store
  BY <1>1, SourceAdvances
<1>2. CASE InstallDatabase
  BY <1>2, Appears
<1>3. CASE RemoveTarget \/ RemovalFails
  BY <1>3, Disappears
<1>4. CASE ~Store /\ ~InstallDatabase /\ ~RemoveTarget /\ ~RemovalFails
  BY <1>4, NothingShows DEF Next, Restore
<1> QED
  BY <1>1, <1>2, <1>3, <1>4

\* Between the first file a restore copies and the last, through failures,
\* cleanups and kills, and whatever the source and its backups do meanwhile: the
\* target shows nothing, or one whole state of the source brought forward.
THEOREM RestoreAppearsAtomic == Spec => RestoreIsAtomic
<1>1. Init => Promise!Init
  BY DEF Init, Promise!Init, Shown
<1>2. Inv' => (Shown = Seen)'
  BY ShownIsSeen, PTL
<1>3. Inv /\ Inv' /\ [Next]_vars => [Promise!Next]_<<committed, Shown>>
  <2> SUFFICES ASSUME Inv, Inv', [Next]_vars
               PROVE  [Promise!Next]_<<committed, Shown>>
    OBVIOUS
  <2>1. Shown = Seen /\ Shown' = Seen'
    BY <1>2, ShownIsSeen
  <2>2. CASE UNCHANGED <<committed, Seen>>
    BY <2>1, <2>2
  <2>3. CASE Seen' = Seen /\ \E d \in Databases : committed' = committed \cup {d}
    BY <2>1, <2>3 DEF Promise!Next, Promise!Advance
  <2>4. CASE /\ committed' = committed
             /\ Seen = None /\ Seen' \in Databases /\ Forward(Seen')
    <3>1. PICK d \in committed :
            d.schema <= Seen'.schema /\ Seen' = [d EXCEPT !.schema = Seen'.schema]
      BY <2>4 DEF Forward
    <3>2. d \in Databases
      BY DEF Inv, TypeOK
    <3>3. <<d, Shown'>> \in {pair \in Databases \X Databases :
                                /\ pair[1].schema <= pair[2].schema
                                /\ pair[2] = [pair[1] EXCEPT !.schema = pair[2].schema]}
      BY <2>1, <2>4, <3>1, <3>2
    <3> QED
      BY <2>1, <2>4, <3>3 DEF Promise!Next, Promise!Appear
  <2>5. CASE committed' = committed /\ Seen # None /\ Seen' = None
    BY <2>1, <2>5 DEF Promise!Next, Promise!Disappear
  <2> QED
    BY <2>2, <2>3, <2>4, <2>5, ShownStep
<1> QED
  BY <1>1, <1>3, Invariance, PTL DEF Spec, RestoreIsAtomic, Promise!Spec
=============================================================================
