----------------------------- MODULE StoreOpening -----------------------------
(***************************************************************************)
(* open_store of src/matchvet/store.py: creation, verification, forward-only *)
(* migration and read-only recovery of the authoritative database, by        *)
(* matchvet processes of several releases that are killed at any step.       *)
(*                                                                         *)
(* The content of the database is the number of transactions committed to    *)
(* it.  Every check of its structure (identity, quick_check, foreign keys,   *)
(* ledger, schema manifest) is one verdict: it is damaged or it is not.      *)
(***************************************************************************)
EXTENDS Integers

CONSTANTS
  Processes,   \* matchvet processes
  Releases,    \* installed releases, named by len(MIGRATIONS)
  None,        \* null value
  MaxOpens,    \* bound: calls of open_store
  MaxCommits,  \* bound: transactions
  MaxDamage    \* bound: damages

Opens == 1..MaxOpens

Schemas == UNION {0..r : r \in Releases}
Contents == [version : Schemas, commits : 0..MaxCommits]
Copies == [of : Contents, whole : BOOLEAN]

ASSUME StoreAssumption ==
  /\ Releases \subseteq Nat \ {0} /\ Releases # {}
  /\ MaxOpens \in Nat /\ MaxCommits \in Nat /\ MaxDamage \in Nat
  /\ None \notin Processes \cup Copies \cup Contents

VARIABLES
  file,    \* the database file
  faults,  \* which of the database and its artifact objects is damaged
  copies,  \* per call, the private pre-migration copy it has left on disk
  lock,    \* holder of the writer lock
  proc,    \* per process, its locals in open_store
  opens,   \* calls of open_store so far
  damage,  \* history: number of damages
  base     \* history: the database when a call last completed its upgrade or
           \* committed a transaction

vars == <<file, faults, copies, lock, proc, opens, damage, base>>

Idle == [at |-> "idle", new |-> FALSE, release |-> 0, call |-> 0]
NoFile == [there |-> FALSE, wal |-> FALSE, version |-> 0, commits |-> 0]

Content == [version |-> file.version, commits |-> file.commits]

Init ==
  /\ file = NoFile /\ faults = {}
  /\ copies = [c \in Opens |-> None]
  /\ lock = None
  /\ proc = [p \in Processes |-> Idle]
  /\ opens = 0 /\ damage = 0
  /\ base = None

Goes(p, at) == proc' = [proc EXCEPT ![p].at = at]

\* The steps between the lock and the open store.
Opening == {"locked", "created", "stamped", "existing", "verified", "copying",
            "migrating", "migrated"}

-----------------------------------------------------------------------------

\* A lock that does not exclude.
AcquireWriterLock_Shared(p, r) ==
  /\ proc[p].at = "idle" /\ opens < MaxOpens
  /\ opens' = opens + 1
  /\ lock' = p
  /\ proc' = [proc EXCEPT ![p] = [Idle EXCEPT !.at = "locked", !.release = r, !.call = opens + 1]]
  /\ UNCHANGED <<file, faults, copies, damage, base>>

\* flock with LOCK_NB; another holder is StoreBusyError.
AcquireWriterLock(p, r) ==
  /\ proc[p].at = "idle" /\ opens < MaxOpens
  /\ lock = None
  /\ opens' = opens + 1
  /\ lock' = p
  /\ proc' = [proc EXCEPT ![p] = [Idle EXCEPT !.at = "locked", !.release = r, !.call = opens + 1]]
  /\ UNCHANGED <<file, faults, copies, damage, base>>

\* new_database is looked up under the lock.
Look(p) ==
  /\ proc[p].at = "locked"
  /\ proc' = [proc EXCEPT ![p].new = ~file.there,
                          ![p].at = IF file.there THEN "existing" ELSE "created"]
  /\ UNCHANGED <<file, faults, copies, lock, opens, damage, base>>

\* PRAGMA application_id writes the first page, in rollback-journal mode.
StampIdentity(p) ==
  /\ proc[p].at = "created"
  /\ file' = [NoFile EXCEPT !.there = TRUE]
  /\ Goes(p, "stamped")
  /\ UNCHANGED <<faults, copies, lock, opens, damage, base>>

UseWal(p) ==
  /\ proc[p].at = "stamped"
  /\ file' = [file EXCEPT !.wal = TRUE]
  /\ Goes(p, "verified")
  /\ UNCHANGED <<faults, copies, lock, opens, damage, base>>

\* VerifyExisting that does not look for a newer schema.
VerifyExisting_AnyVersion(p) ==
  /\ proc[p].at = "existing"
  /\ file.wal
  /\ "database" \notin faults
  /\ Goes(p, "verified")
  /\ UNCHANGED <<file, faults, copies, lock, opens, damage, base>>

\* Identity, journal mode, operating profile, integrity, ledger and schema.
VerifyExisting(p) ==
  /\ proc[p].at = "existing"
  /\ file.wal
  /\ "database" \notin faults
  /\ file.version <= proc[p].release
  /\ Goes(p, "verified")
  /\ UNCHANGED <<file, faults, copies, lock, opens, damage, base>>

\* A database that this call created, or that is current, needs no copy.
NeedsCopy(p) == ~proc[p].new /\ file.version < proc[p].release

SkipCopy(p) ==
  /\ proc[p].at = "verified" /\ ~NeedsCopy(p)
  /\ Goes(p, "migrating")
  /\ UNCHANGED <<file, faults, copies, lock, opens, damage, base>>

BeginCopy(p) ==
  /\ proc[p].at = "verified" /\ NeedsCopy(p)
  /\ copies' = [copies EXCEPT ![proc[p].call] = [of |-> Content, whole |-> FALSE]]
  /\ Goes(p, "copying")
  /\ UNCHANGED <<file, faults, lock, opens, damage, base>>

\* Verified with a full integrity check and synced.
FinishCopy(p) ==
  /\ proc[p].at = "copying"
  /\ "database" \notin faults
  /\ copies' = [copies EXCEPT ![proc[p].call] = [of |-> Content, whole |-> TRUE]]
  /\ Goes(p, "migrating")
  /\ UNCHANGED <<file, faults, lock, opens, damage, base>>

\* An I/O or SQLite error removes the copy; a failed verification leaves it.
CopyFails(p) ==
  /\ proc[p].at = "copying"
  /\ copies' = [copies EXCEPT ![proc[p].call] = None]
  /\ Goes(p, "recovery")
  /\ UNCHANGED <<file, faults, lock, opens, damage, base>>

\* One migration and its ledger entry, in one transaction; its failure is Recover
\* before this step, a failed verification after its commit is Recover after it.
Migrate(p) ==
  /\ proc[p].at = "migrating"
  /\ file.version < proc[p].release
  /\ "database" \notin faults
  /\ file' = [file EXCEPT !.version = @ + 1]
  /\ UNCHANGED <<faults, copies, lock, proc, opens, damage, base>>

\* The copy is removed after the last migration.
FinishMigrations(p) ==
  /\ proc[p].at = "migrating"
  /\ file.version >= proc[p].release
  /\ copies' = [copies EXCEPT ![proc[p].call] = None]
  /\ base' = Content
  /\ Goes(p, "migrated")
  /\ UNCHANGED <<file, faults, lock, opens, damage>>

\* The artifact objects and quick_check, then an observation is recorded.
FinishOpen(p) ==
  /\ proc[p].at = "migrated"
  /\ faults = {}
  /\ Goes(p, "open")
  /\ UNCHANGED <<file, faults, copies, lock, opens, damage, base>>

\* Recover that cleans up after a failed migration.
Recover_Cleans(p) ==
  /\ proc[p].at \in Opening
  /\ copies' = [copies EXCEPT ![proc[p].call] = None]
  /\ Goes(p, "recovery")
  /\ UNCHANGED <<file, faults, lock, opens, damage, base>>

\* StoreVerificationError or a SQLite error at any step: the store is returned
\* read-only, with its lock, and the database as it is.
Recover(p) ==
  /\ proc[p].at \in Opening
  /\ Goes(p, "recovery")
  /\ UNCHANGED <<file, faults, copies, lock, opens, damage, base>>

\* A bounded transaction of an open store; recovery mode refuses it.
Commit(p) ==
  /\ proc[p].at = "open"
  /\ file.commits < MaxCommits
  /\ file' = [file EXCEPT !.commits = @ + 1]
  /\ base' = [Content EXCEPT !.commits = @ + 1]
  /\ UNCHANGED <<faults, copies, lock, proc, opens, damage>>

\* close(), an error that is raised instead of recovered from, or a kill.
Leave(p) ==
  /\ proc[p].at # "idle"
  /\ proc' = [proc EXCEPT ![p] = Idle]
  /\ lock' = IF lock = p THEN None ELSE lock
  /\ UNCHANGED <<file, faults, copies, opens, damage, base>>

Damage(x) ==
  /\ file.there /\ damage < MaxDamage
  /\ faults' = faults \cup {x}
  /\ damage' = damage + 1
  /\ UNCHANGED <<file, copies, lock, proc, opens, base>>

Step(p) ==
  \/ \E r \in Releases : AcquireWriterLock(p, r)
  \/ Look(p) \/ StampIdentity(p) \/ UseWal(p) \/ VerifyExisting(p)
  \/ SkipCopy(p) \/ BeginCopy(p) \/ FinishCopy(p) \/ CopyFails(p)
  \/ Migrate(p) \/ FinishMigrations(p) \/ FinishOpen(p)
  \/ Recover(p) \/ Commit(p) \/ Leave(p)

Next == (\E p \in Processes : Step(p)) \/ (\E x \in {"database", "objects"} : Damage(x))

Spec == Init /\ [][Next]_vars

-----------------------------------------------------------------------------

Locals ==
  [at : {"idle", "recovery", "open"} \cup Opening, new : BOOLEAN,
   release : Releases \cup {0}, call : Opens \cup {0}]

TypeOK ==
  /\ file \in [there : BOOLEAN, wal : BOOLEAN, version : Schemas, commits : 0..MaxCommits]
  /\ faults \subseteq {"database", "objects"}
  /\ copies \in [Opens -> Copies \cup {None}]
  /\ lock \in Processes \cup {None}
  /\ proc \in [Processes -> Locals]
  /\ opens \in 0..MaxOpens /\ damage \in 0..MaxDamage
  /\ base \in Contents \cup {None}

\* While a database stands at a schema that no completed upgrade has left it at,
\* because one is under way, failed or was killed, perhaps several times and by
\* several releases, a verified copy of what the operator last had is on disk.
UpgradeIsCovered ==
  base # None /\ file.version # base.version =>
    \E c \in Opens : copies[c] = [of |-> base, whole |-> TRUE]

\* A process that takes the database for new, and would stamp it and migrate it
\* without a copy, never stands before one that anybody has worked with.
NewIsReallyNew ==
  \A p \in Processes : proc[p].new => base = None \/ proc[p].at \in {"migrated", "open", "recovery"}

\* A release never commits anything to a database with a newer schema, and no
\* schema ever goes back.
NewerStoreIsUntouched ==
  [][file' # file =>
       /\ file'.version >= file.version
       /\ \E p \in Processes : proc[p].at # "idle" /\ proc[p].release >= file'.version]_vars
=============================================================================
