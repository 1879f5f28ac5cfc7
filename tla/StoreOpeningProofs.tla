-------------------------- MODULE StoreOpeningProofs --------------------------
(***************************************************************************)
(* open_store for any number of processes, releases, calls and transactions. *)
(***************************************************************************)
EXTENDS UpgradeRefinement, TLAPS

\* Only the holder of the writer lock is inside open_store or has it open.
LockInv ==
  \A p \in Processes :
    /\ proc[p].at # "idle" => lock = p
    /\ proc[p].at = "idle" => ~proc[p].new

\* The operator's transactions are in the database, whose schema is not older.
BaseInv ==
  base # None =>
    /\ file.there
    /\ base.commits = file.commits /\ base.version <= file.version

FileInv == ~file.there => file = NoFile

\* A call has left no copy before it makes its own, and an unfinished copy is
\* not counted as one.
CallInv ==
  /\ \A c \in Opens : c > opens => copies[c] = None
  /\ \A p \in Processes : proc[p].at # "idle" =>
       /\ proc[p].call \in Opens /\ proc[p].call <= opens
       /\ proc[p].at \in {"locked", "created", "stamped", "existing", "verified"} =>
            copies[proc[p].call] = None
       /\ proc[p].at = "copying" => ~copies[proc[p].call].whole

\* What a call has established when it reaches a step.
StepInv ==
  \A p \in Processes :
    /\ proc[p].at = "created" => ~file.there
    /\ proc[p].at \in {"stamped", "existing", "verified", "copying", "migrating", "migrated", "open"} =>
         file.there
    /\ proc[p].at \in {"created", "stamped", "verified", "copying", "migrating", "migrated", "open"} =>
         file.version <= proc[p].release
    /\ proc[p].at = "copying" => NeedsCopy(p)
    /\ proc[p].at = "migrating" /\ NeedsCopy(p) /\ base # None /\ base.version = file.version =>
         copies[proc[p].call] = [of |-> base, whole |-> TRUE]

Inv ==
  /\ TypeOK /\ LockInv /\ BaseInv /\ FileInv /\ CallInv /\ StepInv
  /\ UpgradeIsCovered /\ NewIsReallyNew

USE StoreAssumption

\* There is a release, hence a schema 0.
LEMMA ZeroSchema == 0 \in Schemas
<1>1. PICK r \in Releases : r \in Nat
  OBVIOUS
<1>2. 0 \in 0..r
  BY <1>1
<1> QED
  BY <1>1, <1>2 DEF Schemas

\* The file that creation leaves is well-typed.
LEMMA FreshFile ==
  [there |-> TRUE, wal |-> FALSE, version |-> 0, commits |-> 0]
    \in [there : BOOLEAN, wal : BOOLEAN, version : Schemas, commits : 0..MaxCommits]
<1>1. 0 \in 0..MaxCommits
  OBVIOUS
<1> QED
  BY <1>1, ZeroSchema

\* The invariant holds of a private directory without a database.
LEMMA InitInv == Init => Inv
<1> SUFFICES ASSUME Init PROVE Inv
  OBVIOUS
<1>1. TypeOK
  BY ZeroSchema DEF Init, TypeOK, NoFile, Idle, Locals, Opening, Opens, Contents
<1> QED
  BY <1>1 DEF Init, Inv, LockInv, BaseInv, FileInv, CallInv, StepInv, UpgradeIsCovered,
     NewIsReallyNew, NoFile, Idle, Opens

\* A schema that is not the newest of some release has a successor.
LEMMA SuccessorSchema ==
  ASSUME NEW v \in Schemas, NEW r \in Releases, v < r
  PROVE  v + 1 \in Schemas
<1>1. v \in Nat /\ r \in Nat
  <2>1. PICK q \in Releases : v \in 0..q
    BY DEF Schemas
  <2> QED
    BY <2>1
<1>2. v + 1 \in 0..r
  BY <1>1
<1> QED
  BY <1>2 DEF Schemas

\* Moving to another step keeps the locals of every process well-typed.
LEMMA GoesType ==
  ASSUME proc \in [Processes -> Locals], NEW p \in Processes,
         NEW a \in {"idle", "recovery", "open"} \cup Opening, Goes(p, a)
  PROVE  proc' \in [Processes -> Locals]
<1>1. [proc[p] EXCEPT !.at = a] \in Locals
  BY DEF Locals
<1> QED
  BY <1>1 DEF Goes

\* Looking the database up keeps the locals of a process well-typed.
LEMMA LookType ==
  ASSUME proc \in [Processes -> Locals], NEW p \in Processes
  PROVE  [proc[p] EXCEPT !.new = ~file.there,
                         !.at = IF file.there THEN "existing" ELSE "created"] \in Locals
<1> DEFINE next == IF file.there THEN "existing" ELSE "created"
<1>1. next \in {"idle", "recovery", "open"} \cup Opening
  BY DEF Opening
<1>2. proc[p] \in Locals
  OBVIOUS
<1>3. (~file.there) \in BOOLEAN
  OBVIOUS
<1> HIDE DEF next
<1>4. [proc[p] EXCEPT !.new = ~file.there, !.at = next] \in Locals
  BY <1>1, <1>2, <1>3 DEF Locals
<1> QED
  BY <1>4 DEF next

LEMMA TypeStep == TypeOK /\ [Next]_vars => TypeOK'
<1> SUFFICES ASSUME TypeOK, [Next]_vars PROVE TypeOK'
  OBVIOUS
<1> USE DEF TypeOK
<1>1. CASE UNCHANGED vars
  BY <1>1 DEF vars
<1>2. ASSUME NEW p \in Processes, NEW r \in Releases, AcquireWriterLock(p, r) PROVE TypeOK'
  <2>1. opens + 1 \in Opens
    BY <1>2 DEF AcquireWriterLock, Opens
  <2>2. [Idle EXCEPT !.at = "locked", !.release = r, !.call = opens + 1] \in Locals
    BY <2>1 DEF Idle, Locals, Opening
  <2> QED
    BY <1>2, <2>1, <2>2 DEF AcquireWriterLock, Opens
<1>3. ASSUME NEW p \in Processes, Look(p) PROVE TypeOK'
  <2>1. [proc[p] EXCEPT !.new = ~file.there,
                        !.at = IF file.there THEN "existing" ELSE "created"] \in Locals
    BY LookType
  <2> QED
    BY <1>3, <2>1 DEF Look
<1>4. ASSUME NEW p \in Processes,
             \/ StampIdentity(p) \/ UseWal(p) \/ VerifyExisting(p) \/ SkipCopy(p)
             \/ BeginCopy(p) \/ FinishCopy(p) \/ CopyFails(p) \/ FinishMigrations(p)
             \/ FinishOpen(p) \/ Recover(p)
      PROVE  TypeOK'
  <2>1. \E a \in {"recovery", "open"} \cup Opening : Goes(p, a)
    BY <1>4 DEF StampIdentity, UseWal, VerifyExisting, SkipCopy, BeginCopy, FinishCopy,
       CopyFails, FinishMigrations, FinishOpen, Recover, Opening
  <2>2. proc' \in [Processes -> Locals]
    BY <2>1, GoesType
  <2>3. Content \in Contents /\ 0 \in Schemas
    BY ZeroSchema DEF Content, Contents
  <2>4. /\ file' \in [there : BOOLEAN, wal : BOOLEAN, version : Schemas, commits : 0..MaxCommits]
        /\ UNCHANGED <<faults, lock, opens, damage>>
    <3>1. CASE StampIdentity(p)
      <4>1. file' = [there |-> TRUE, wal |-> FALSE, version |-> 0, commits |-> 0]
        BY <3>1 DEF StampIdentity, NoFile
      <4>2. file' \in [there : BOOLEAN, wal : BOOLEAN, version : Schemas, commits : 0..MaxCommits]
        BY <4>1, FreshFile
      <4>3. UNCHANGED <<faults, lock, opens, damage>>
        BY <3>1 DEF StampIdentity
      <4> QED
        BY <4>2, <4>3
    <3>2. CASE UseWal(p)
      BY <3>2 DEF UseWal
    <3> QED
      BY <1>4, <3>1, <3>2 DEF VerifyExisting, SkipCopy, BeginCopy, FinishCopy, CopyFails,
         FinishMigrations, FinishOpen, Recover
  <2>5. copies' \in [Opens -> Copies \cup {None}]
    <3>1. CASE BeginCopy(p) \/ FinishCopy(p)
      <4>1. PICK w \in BOOLEAN :
              copies' = [copies EXCEPT ![proc[p].call] = [of |-> Content, whole |-> w]]
        BY <3>1 DEF BeginCopy, FinishCopy
      <4>2. [of |-> Content, whole |-> w] \in Copies
        BY <2>3 DEF Copies
      <4> QED
        BY <4>1, <4>2
    <3>2. CASE CopyFails(p) \/ FinishMigrations(p)
      BY <3>2 DEF CopyFails, FinishMigrations
    <3> QED
      BY <1>4, <3>1, <3>2 DEF StampIdentity, UseWal, VerifyExisting, SkipCopy, FinishOpen,
         Recover
  <2>6. base' \in Contents \cup {None}
    BY <1>4, <2>3 DEF StampIdentity, UseWal, VerifyExisting, SkipCopy, BeginCopy, FinishCopy,
       CopyFails, FinishMigrations, FinishOpen, Recover
  <2> QED
    BY <2>2, <2>4, <2>5, <2>6
<1>5. ASSUME NEW p \in Processes, Migrate(p) PROVE TypeOK'
  <2>1. proc[p].release \in Releases
    <3>1. file.version \in Nat
      <4>1. PICK r \in Releases : file.version \in 0..r
        BY DEF Schemas
      <4> QED
        BY <4>1
    <3>2. proc[p] \in Locals /\ file.version < proc[p].release
      BY <1>5 DEF Migrate
    <3> QED
      BY <3>1, <3>2 DEF Locals
  <2>2. file.version + 1 \in Schemas
    BY <1>5, <2>1, SuccessorSchema DEF Migrate
  <2> QED
    BY <1>5, <2>2 DEF Migrate
<1>6. ASSUME NEW p \in Processes, Commit(p) PROVE TypeOK'
  BY <1>6 DEF Commit, Content, Contents
<1>7. ASSUME NEW p \in Processes, Leave(p) PROVE TypeOK'
  BY <1>7 DEF Leave, Idle, Locals
<1>8. ASSUME NEW x \in {"database", "objects"}, Damage(x) PROVE TypeOK'
  <2>1. faults' \subseteq {"database", "objects"}
    BY <1>8 DEF Damage
  <2>2. damage' \in 0..MaxDamage
    BY <1>8 DEF Damage
  <2>3. UNCHANGED <<file, copies, lock, proc, opens, base>>
    BY <1>8 DEF Damage
  <2> QED
    BY <2>1, <2>2, <2>3
<1> QED
  BY <1>1, <1>2, <1>3, <1>4, <1>5, <1>6, <1>7, <1>8 DEF Next, Step

\* A process that holds the lock is alone.
LEMMA Alone ==
  ASSUME LockInv, NEW p \in Processes, proc[p].at # "idle"
  PROVE  lock = p /\ \A q \in Processes \ {p} : proc[q].at = "idle"
BY DEF LockInv

\* What the operator last had is what a copy of an untouched database holds.
LEMMA BaseIsContent ==
  ASSUME TypeOK, BaseInv, base # None, base.version = file.version
  PROVE  base = Content
<1>1. base \in Contents /\ Content \in Contents
  BY DEF TypeOK, Content, Contents
<1>2. base.version = Content.version /\ base.commits = Content.commits
  BY DEF BaseInv, Content
<1> QED
  BY <1>1, <1>2 DEF Contents

\* Taking the lock.
LEMMA AcquireStep ==
  ASSUME Inv, NEW p \in Processes, NEW r \in Releases, AcquireWriterLock(p, r)
  PROVE  Inv'
<1>1. TypeOK'
  BY TypeStep DEF Inv, Next, Step
<1>2. /\ \A q \in Processes : proc[q].at = "idle"
      /\ UNCHANGED <<file, copies, base>> /\ opens' = opens + 1 /\ lock' = p
      /\ opens \in Nat /\ opens + 1 \in Opens
  <2>1. lock = None /\ opens \in 0..MaxOpens /\ opens < MaxOpens
    BY DEF Inv, TypeOK, AcquireWriterLock
  <2> QED
    BY <2>1 DEF Inv, LockInv, AcquireWriterLock, Opens
<1>3. /\ proc'[p] = [at |-> "locked", new |-> FALSE, release |-> r, call |-> opens + 1]
      /\ \A q \in Processes \ {p} : proc'[q] = proc[q]
  BY DEF Inv, TypeOK, AcquireWriterLock, Idle
<1>4. LockInv' /\ BaseInv' /\ FileInv' /\ UpgradeIsCovered'
  <2>1. LockInv'
    BY <1>2, <1>3 DEF Inv, LockInv
  <2>2. BaseInv' /\ FileInv' /\ UpgradeIsCovered'
    BY <1>2 DEF Inv, BaseInv, FileInv, UpgradeIsCovered
  <2> QED
    BY <2>1, <2>2
<1>5. StepInv'
  BY <1>2, <1>3 DEF StepInv
<1>6. CallInv'
  BY <1>2, <1>3 DEF Inv, CallInv, Opens
<1>7. NewIsReallyNew'
  BY <1>2, <1>3 DEF Inv, NewIsReallyNew
<1> QED
  BY <1>1, <1>4, <1>5, <1>6, <1>7 DEF Inv

\* Schemas are numbers.
LEMMA Numbers ==
  ASSUME TypeOK
  PROVE  /\ file.version \in Nat /\ file.commits \in Nat
         /\ \A p \in Processes : proc[p].release \in Nat
         /\ base # None => base.version \in Nat
<1>1. Schemas \subseteq Nat
  <2> SUFFICES ASSUME NEW v \in Schemas PROVE v \in Nat
    OBVIOUS
  <2>1. PICK r \in Releases : v \in 0..r
    BY DEF Schemas
  <2> QED
    BY <2>1
<1>2. file.version \in Nat /\ file.commits \in Nat
  <2>1. file.version \in Schemas /\ file.commits \in 0..MaxCommits
    BY DEF TypeOK
  <2>2. 0..MaxCommits \subseteq Nat
    OBVIOUS
  <2> QED
    BY <1>1, <2>1, <2>2
<1>3. ASSUME NEW p \in Processes PROVE proc[p].release \in Nat
  <2>1. proc[p] \in Locals
    BY DEF TypeOK
  <2>2. proc[p].release \in Releases \cup {0}
    BY <2>1 DEF Locals
  <2>3. Releases \cup {0} \subseteq Nat
    OBVIOUS
  <2> QED
    BY <2>2, <2>3
<1>4. base # None => base.version \in Nat
  BY <1>1 DEF TypeOK, Contents
<1> QED
  BY <1>2, <1>3, <1>4

\* What moving to another step changes, and that nobody else can move.
LEMMA GoesAlone ==
  ASSUME TypeOK, LockInv, NEW p \in Processes, proc[p].at # "idle", NEW a, Goes(p, a)
  PROVE  /\ proc'[p].at = a /\ proc'[p].new = proc[p].new
         /\ proc'[p].release = proc[p].release /\ proc'[p].call = proc[p].call
         /\ \A q \in Processes \ {p} : proc'[q].at = "idle" /\ ~proc'[q].new
         /\ lock = p
<1>1. proc[p] \in Locals /\ p \in DOMAIN proc
  BY DEF TypeOK
<1>2. proc'[p] = [proc[p] EXCEPT !.at = a]
  BY <1>1 DEF Goes
<1>3. \A q \in Processes \ {p} : proc'[q] = proc[q]
  BY DEF TypeOK, Goes
<1> QED
  BY <1>1, <1>2, <1>3, Alone DEF Locals, LockInv

\* Steps that only move their process.
LEMMA QuietStep ==
  ASSUME Inv, NEW p \in Processes,
         VerifyExisting(p) \/ SkipCopy(p) \/ FinishOpen(p) \/ Recover(p)
  PROVE  Inv'
<1>1. TypeOK'
  BY TypeStep DEF Inv, Next, Step
<1>2. UNCHANGED <<file, copies, lock, opens, base>>
  BY DEF VerifyExisting, SkipCopy, FinishOpen, Recover
<1>3. \/ /\ Goes(p, "verified") /\ proc[p].at = "existing"
         /\ file.version <= proc[p].release
      \/ /\ Goes(p, "migrating") /\ proc[p].at = "verified"
         /\ ~NeedsCopy(p)
      \/ Goes(p, "open") /\ proc[p].at = "migrated"
      \/ Goes(p, "recovery") /\ proc[p].at \in Opening
  BY DEF VerifyExisting, SkipCopy, FinishOpen, Recover
<1>4. /\ proc[p].at # "idle"
      /\ \/ /\ proc'[p].at = "verified" /\ proc[p].at = "existing"
            /\ file.version <= proc[p].release
         \/ /\ proc'[p].at = "migrating" /\ proc[p].at = "verified"
            /\ ~NeedsCopy(p)
         \/ proc'[p].at = "open" /\ proc[p].at = "migrated"
         \/ proc'[p].at = "recovery"
      /\ proc'[p].new = proc[p].new
      /\ proc'[p].release = proc[p].release /\ proc'[p].call = proc[p].call
      /\ \A q \in Processes \ {p} : proc'[q].at = "idle" /\ ~proc'[q].new
      /\ lock = p
  BY <1>3, GoesAlone DEF Inv, Opening
<1>5. LockInv' /\ BaseInv' /\ FileInv' /\ UpgradeIsCovered'
  BY <1>2, <1>4 DEF Inv, LockInv, BaseInv, FileInv, UpgradeIsCovered
<1>6. CallInv'
  BY <1>2, <1>4 DEF Inv, CallInv
<1>7. StepInv'
  BY <1>2, <1>4 DEF Inv, StepInv, NeedsCopy
<1>8. NewIsReallyNew'
  BY <1>2, <1>4 DEF Inv, NewIsReallyNew
<1> QED
  BY <1>1, <1>5, <1>6, <1>7, <1>8 DEF Inv

\* Looking for the database, and the two steps that create one.
LEMMA CreationStep ==
  ASSUME Inv, NEW p \in Processes, Look(p) \/ StampIdentity(p) \/ UseWal(p)
  PROVE  Inv'
<1>1. TypeOK'
  BY TypeStep DEF Inv, Next, Step
<1>2. /\ UNCHANGED <<copies, lock, opens, base>>
      /\ \/ /\ proc[p].at = "locked" /\ file' = file
            /\ proc'[p].at = IF file.there THEN "existing" ELSE "created"
            /\ proc'[p].new = ~file.there
         \/ /\ proc[p].at = "created" /\ proc'[p].at = "stamped"
            /\ file' = [there |-> TRUE, wal |-> FALSE, version |-> 0, commits |-> 0]
            /\ proc'[p].new = proc[p].new
         \/ /\ proc[p].at = "stamped" /\ proc'[p].at = "verified"
            /\ file' = [file EXCEPT !.wal = TRUE]
            /\ proc'[p].new = proc[p].new
      /\ proc'[p].release = proc[p].release /\ proc'[p].call = proc[p].call
      /\ \A q \in Processes \ {p} : proc'[q].at = "idle" /\ ~proc'[q].new
      /\ lock = p
  <2>1. CASE Look(p)
    <3>1. proc[p].at # "idle" /\ p \in DOMAIN proc /\ proc[p] \in Locals
      BY <2>1 DEF Look, Inv, TypeOK
    <3>2. proc'[p] = [proc[p] EXCEPT !.new = ~file.there,
                                     !.at = IF file.there THEN "existing" ELSE "created"]
      BY <2>1, <3>1 DEF Look
    <3>3. \A q \in Processes \ {p} : proc'[q] = proc[q]
      BY <2>1 DEF Look, Inv, TypeOK
    <3>4. /\ proc'[p].at = IF file.there THEN "existing" ELSE "created"
          /\ proc'[p].new = ~file.there
          /\ proc'[p].release = proc[p].release /\ proc'[p].call = proc[p].call
      BY <3>1, <3>2 DEF Locals
    <3>5. /\ \A q \in Processes \ {p} : proc'[q].at = "idle" /\ ~proc'[q].new
          /\ lock = p
      BY <3>1, <3>3, Alone DEF Inv, LockInv
    <3> QED
      BY <2>1, <3>4, <3>5 DEF Look
  <2>2. CASE StampIdentity(p)
    BY <2>2, GoesAlone DEF StampIdentity, NoFile, Inv
  <2>3. CASE UseWal(p)
    BY <2>3, GoesAlone DEF UseWal, Inv
  <2> QED
    BY <2>1, <2>2, <2>3
<1>3. LockInv'
  BY <1>2 DEF Inv, LockInv
<1>4. CallInv'
  BY <1>2 DEF Inv, CallInv
<1>5. /\ file'.version = file.version /\ file'.commits = file.commits
      /\ file.there => file'.there
      /\ proc'[p].at \in {"stamped", "verified", "existing"} => file'.there
      /\ proc'[p].at = "created" => ~file'.there
  BY <1>2 DEF Inv, TypeOK, StepInv, FileInv, NoFile
<1>6. BaseInv' /\ FileInv' /\ UpgradeIsCovered'
  BY <1>2, <1>5 DEF Inv, BaseInv, FileInv, UpgradeIsCovered
<1>7. StepInv'
  <2>1. ~file.there => file.version <= proc[p].release
    BY Numbers DEF Inv, FileInv, NoFile
  <2> QED
    BY <1>2, <1>5, <2>1 DEF Inv, StepInv
<1>8. NewIsReallyNew'
  BY <1>2 DEF Inv, NewIsReallyNew, BaseInv
<1> QED
  BY <1>1, <1>3, <1>4, <1>6, <1>7, <1>8 DEF Inv

\* Making the private copy: another call's copy is never touched.
LEMMA CopyStep ==
  ASSUME Inv, NEW p \in Processes, BeginCopy(p) \/ FinishCopy(p) \/ CopyFails(p)
  PROVE  Inv'
<1>1. TypeOK'
  BY TypeStep DEF Inv, Next, Step
<1>2. /\ UNCHANGED <<file, lock, opens, base>>
      /\ proc[p].at # "idle"
      /\ \/ /\ proc[p].at = "verified" /\ Goes(p, "copying") /\ NeedsCopy(p)
            /\ copies' = [copies EXCEPT ![proc[p].call] = [of |-> Content, whole |-> FALSE]]
         \/ /\ proc[p].at = "copying" /\ Goes(p, "migrating")
            /\ copies' = [copies EXCEPT ![proc[p].call] = [of |-> Content, whole |-> TRUE]]
         \/ /\ proc[p].at = "copying" /\ Goes(p, "recovery")
            /\ copies' = [copies EXCEPT ![proc[p].call] = None]
  BY DEF BeginCopy, FinishCopy, CopyFails
<1>3. proc[p].call \in Opens /\ proc[p].call <= opens
  BY <1>2 DEF Inv, CallInv
<1>4. /\ \/ /\ proc[p].at = "verified" /\ proc'[p].at = "copying" /\ NeedsCopy(p)
            /\ copies'[proc[p].call] = [of |-> Content, whole |-> FALSE]
         \/ /\ proc[p].at = "copying" /\ proc'[p].at = "migrating"
            /\ copies'[proc[p].call] = [of |-> Content, whole |-> TRUE]
         \/ /\ proc[p].at = "copying" /\ proc'[p].at = "recovery"
            /\ copies'[proc[p].call] = None
      /\ proc'[p].new = proc[p].new
      /\ proc'[p].release = proc[p].release /\ proc'[p].call = proc[p].call
      /\ \A q \in Processes \ {p} : proc'[q].at = "idle" /\ ~proc'[q].new
      /\ lock = p
  <2>1. copies \in [Opens -> Copies \cup {None}]
    BY DEF Inv, TypeOK
  <2> QED
    BY <1>2, <1>3, <2>1, GoesAlone DEF Inv
<1>5. \A c \in Opens \ {proc[p].call} : copies'[c] = copies[c]
  BY <1>2, <1>3 DEF Inv, TypeOK
<1>6. LockInv' /\ BaseInv' /\ FileInv'
  BY <1>2, <1>4 DEF Inv, LockInv, BaseInv, FileInv
<1>7. CallInv'
  <2>1. \A c \in Opens : c > opens' => copies'[c] = None
    BY <1>2, <1>3, <1>5 DEF Inv, CallInv, Opens, TypeOK
  <2> QED
    BY <1>2, <1>3, <1>4, <2>1 DEF CallInv
<1>8. StepInv'
  <2>1. base # None /\ base.version = file.version => base = Content
    BY BaseIsContent DEF Inv
  <2> QED
    BY <1>2, <1>4, <2>1 DEF Inv, StepInv, NeedsCopy
<1>9. UpgradeIsCovered'
  <2>1. copies[proc[p].call] # [of |-> base, whole |-> TRUE] \/ base = None
    <3>1. base # None => [of |-> base, whole |-> TRUE] \in Copies
      BY DEF Inv, TypeOK, Copies
    <3>2. copies[proc[p].call] = None \/ ~copies[proc[p].call].whole
      BY <1>2 DEF Inv, CallInv
    <3> QED
      BY <3>1, <3>2
  <2> QED
    BY <1>2, <1>5, <2>1 DEF Inv, UpgradeIsCovered
<1>10. NewIsReallyNew'
  BY <1>2, <1>4 DEF Inv, NewIsReallyNew
<1> QED
  BY <1>1, <1>6, <1>7, <1>8, <1>9, <1>10 DEF Inv

\* A migration takes the schema past what the operator had: the copy that was
\* made for it, or that an earlier upgrade left, covers that.
LEMMA MigrateStep ==
  ASSUME Inv, NEW p \in Processes, Migrate(p)
  PROVE  Inv'
<1>1. TypeOK'
  BY TypeStep DEF Inv, Next, Step
<1>2. /\ UNCHANGED <<copies, lock, proc, opens, base>>
      /\ proc[p].at = "migrating" /\ file.version < proc[p].release
      /\ file'.version = file.version + 1
      /\ file'.commits = file.commits /\ file'.there = file.there
  BY DEF Migrate, Inv, TypeOK
<1>3. /\ file.version \in Nat /\ proc[p].release \in Nat
      /\ base # None => base.version \in Nat
      /\ \A q \in Processes \ {p} : proc[q].at = "idle"
  BY <1>2, Numbers, Alone DEF Inv
<1>4. LockInv' /\ CallInv' /\ NewIsReallyNew'
  BY <1>2 DEF Inv, LockInv, CallInv, NewIsReallyNew
<1>5. BaseInv'
  BY <1>2, <1>3 DEF Inv, BaseInv
<1>6. FileInv'
  BY <1>2 DEF Inv, FileInv, StepInv
<1>7. StepInv'
  BY <1>2, <1>3 DEF Inv, StepInv, BaseInv, NeedsCopy
<1>8. UpgradeIsCovered'
  <2>1. CASE base = None
    BY <1>2, <2>1 DEF UpgradeIsCovered
  <2>2. CASE base # None /\ file.version # base.version
    BY <1>2, <2>2 DEF Inv, UpgradeIsCovered
  <2>3. CASE base # None /\ file.version = base.version
    <3>1. NeedsCopy(p)
      BY <1>2, <2>3 DEF Inv, NewIsReallyNew, NeedsCopy
    <3>2. copies[proc[p].call] = [of |-> base, whole |-> TRUE] /\ proc[p].call \in Opens
      BY <1>2, <2>3, <3>1 DEF Inv, StepInv, CallInv
    <3> QED
      BY <1>2, <3>2 DEF UpgradeIsCovered
  <2> QED
    BY <2>1, <2>2, <2>3
<1> QED
  BY <1>1, <1>4, <1>5, <1>6, <1>7, <1>8 DEF Inv

\* The upgrade is complete: what the operator has is the database itself.
LEMMA FinishStep ==
  ASSUME Inv, NEW p \in Processes, FinishMigrations(p)
  PROVE  Inv'
<1>1. TypeOK'
  BY TypeStep DEF Inv, Next, Step
<1>2. /\ UNCHANGED <<file, lock, opens>>
      /\ proc[p].at = "migrating" /\ proc'[p].at = "migrated"
      /\ base' = Content
      /\ copies' = [copies EXCEPT ![proc[p].call] = None]
      /\ proc'[p].new = proc[p].new
      /\ proc'[p].release = proc[p].release /\ proc'[p].call = proc[p].call
      /\ \A q \in Processes \ {p} : proc'[q].at = "idle" /\ ~proc'[q].new
      /\ lock = p
  BY GoesAlone DEF FinishMigrations, Inv
<1>3. base'.version = file.version /\ base'.commits = file.commits /\ file.version \in Nat
  BY <1>2, Numbers DEF Inv, Content
<1>4. file.there /\ file.version <= proc[p].release
      /\ proc[p].call \in Opens /\ proc[p].call <= opens
  BY <1>2 DEF Inv, StepInv, CallInv
<1>5. LockInv' /\ FileInv' /\ NewIsReallyNew' /\ UpgradeIsCovered'
  BY <1>2, <1>3 DEF Inv, LockInv, FileInv, NewIsReallyNew, UpgradeIsCovered
<1>6. BaseInv'
  BY <1>2, <1>3, <1>4 DEF BaseInv
<1>7. CallInv'
  BY <1>2, <1>4 DEF Inv, CallInv, TypeOK
<1>8. StepInv'
  BY <1>2, <1>4 DEF StepInv
<1> QED
  BY <1>1, <1>5, <1>6, <1>7, <1>8 DEF Inv

\* A transaction of an open store.
LEMMA CommitStep ==
  ASSUME Inv, NEW p \in Processes, Commit(p)
  PROVE  Inv'
<1>1. TypeOK'
  BY TypeStep DEF Inv, Next, Step
<1>2. /\ UNCHANGED <<copies, lock, proc, opens>>
      /\ proc[p].at = "open"
      /\ file'.version = file.version /\ file'.there = file.there
      /\ base'.version = file'.version /\ base'.commits = file'.commits
  BY DEF Commit, Content, Inv, TypeOK
<1>3. /\ \A q \in Processes \ {p} : proc[q].at = "idle" /\ ~proc[q].new
      /\ file.version \in Nat
      /\ file.there
  BY <1>2, Numbers, Alone DEF Inv, LockInv, StepInv
<1>4. LockInv' /\ CallInv' /\ NewIsReallyNew' /\ UpgradeIsCovered'
  BY <1>2, <1>3 DEF Inv, LockInv, CallInv, NewIsReallyNew, UpgradeIsCovered
<1>5. BaseInv' /\ FileInv'
  BY <1>2, <1>3 DEF BaseInv, FileInv
<1>6. StepInv'
  BY <1>2, <1>3 DEF Inv, StepInv
<1> QED
  BY <1>1, <1>4, <1>5, <1>6 DEF Inv

\* Ending a process and damaging a file.
LEMMA LeaveStep ==
  ASSUME Inv, NEW p \in Processes, Leave(p)
  PROVE  Inv'
<1>1. TypeOK'
  BY TypeStep DEF Inv, Next, Step
<1>2. /\ UNCHANGED <<file, copies, opens, base>>
      /\ \A q \in Processes : proc'[q].at = "idle" /\ ~proc'[q].new
  BY Alone DEF Leave, Idle, Inv, TypeOK, LockInv
<1> QED
  BY <1>1, <1>2 DEF Inv, LockInv, BaseInv, FileInv, CallInv, StepInv, UpgradeIsCovered,
     NewIsReallyNew

\* The invariant is inductive.
LEMMA InvStep == Inv /\ [Next]_vars => Inv'
<1> SUFFICES ASSUME Inv, [Next]_vars PROVE Inv'
  OBVIOUS
<1>1. ASSUME UNCHANGED <<file, copies, lock, proc, opens, base>> PROVE Inv'
  <2>1. TypeOK'
    BY TypeStep DEF Inv
  <2> QED
    BY <1>1, <2>1 DEF Inv, LockInv, BaseInv, FileInv, CallInv, StepInv, UpgradeIsCovered,
       NewIsReallyNew, NeedsCopy
<1>2. CASE UNCHANGED vars
  BY <1>1, <1>2 DEF vars
<1>3. CASE \E x \in {"database", "objects"} : Damage(x)
  BY <1>1, <1>3 DEF Damage
<1>4. ASSUME NEW p \in Processes, Step(p) PROVE Inv'
  BY <1>4, AcquireStep, CreationStep, QuietStep, CopyStep, MigrateStep, FinishStep, CommitStep,
     LeaveStep DEF Step
<1> QED
  BY <1>2, <1>3, <1>4 DEF Next

LEMMA Invariant == Spec => []Inv
<1>1. Init => Inv
  BY InitInv
<1>2. Inv /\ [Next]_vars => Inv'
  BY InvStep
<1> QED
  BY <1>1, <1>2, PTL DEF Spec

\* However often an upgrade of the store fails or is killed, in whatever order
\* releases try it, what the operator last had is in the database or in a
\* verified private copy beside it.
THEOREM Covered == Spec => []UpgradeIsCovered
<1>1. Inv => UpgradeIsCovered
  BY DEF Inv
<1> QED
  BY <1>1, Invariant, PTL

\* A database that somebody has worked with is never taken for a new one.
THEOREM NewIsNew == Spec => []NewIsReallyNew
<1>1. Inv => NewIsReallyNew
  BY DEF Inv
<1> QED
  BY <1>1, Invariant, PTL

\* No release writes to a database whose schema is newer than its own, and no
\* schema goes back.
THEOREM NewerUntouched == Spec => NewerStoreIsUntouched
<1> DEFINE Kept == file' # file =>
             /\ file'.version >= file.version
             /\ \E p \in Processes : proc[p].at # "idle" /\ proc[p].release >= file'.version
<1>1. Inv /\ [Next]_vars => [Kept]_vars
  <2> SUFFICES ASSUME Inv, Next, file' # file PROVE Kept
    BY DEF vars
  <2>1. PICK p \in Processes : StampIdentity(p) \/ UseWal(p) \/ Migrate(p) \/ Commit(p)
    BY DEF Next, Step, AcquireWriterLock, Look, VerifyExisting, SkipCopy, BeginCopy,
       FinishCopy, CopyFails, FinishMigrations, FinishOpen, Recover, Leave, Damage
  <2>2. proc[p].at # "idle" /\ file.version <= proc[p].release
        /\ file.version \in Nat /\ proc[p].release \in Nat
    BY <2>1, Numbers DEF StampIdentity, UseWal, Migrate, Commit, Inv, StepInv
  <2>3. /\ file'.version >= file.version
        /\ file'.version <= proc[p].release
    <3>1. CASE StampIdentity(p)
      BY <2>2, <3>1 DEF StampIdentity, Inv, StepInv, FileInv, NoFile
    <3>2. CASE UseWal(p) \/ Migrate(p) \/ Commit(p)
      BY <2>2, <3>2 DEF UseWal, Migrate, Commit, Inv, TypeOK
    <3> QED
      BY <2>1, <3>1, <3>2
  <2> QED
    BY <2>2, <2>3
<1>2. Spec => [][Kept]_vars
  BY <1>1, Invariant, PTL DEF Spec
<1> QED
  BY <1>2 DEF NewerStoreIsUntouched
-----------------------------------------------------------------------------
(* StoreOpening implements AtomicUpgrade *)

\* Nothing was committed to a database that nobody could open; what is opened is
\* what the operator last had; and a release that is running is installed.
UpInv ==
  /\ base = None => file.commits = 0
  /\ \A p \in Processes :
       /\ proc[p].at # "idle" => proc[p].release \in Releases
       /\ proc[p].at \in {"migrated", "open"} => base # None /\ base.version = file.version

\* What can be got back is what the last completed upgrade or transaction left.
LEMMA NothingIsLost == Inv => Recoverable = base
<1> SUFFICES ASSUME Inv PROVE Recoverable = base
  OBVIOUS
<1>1. CASE base = None
  BY <1>1 DEF Recoverable
<1>2. CASE base # None /\ base.version = file.version
  BY <1>2, BaseIsContent DEF Recoverable, Inv
<1>3. CASE base # None /\ base.version # file.version
  BY <1>3 DEF Recoverable, Inv, UpgradeIsCovered
<1> QED
  BY <1>1, <1>2, <1>3

\* A step that leaves base alone and neither opens nor starts anything.
LEMMA UpQuiet ==
  ASSUME Inv, UpInv, NEW p \in Processes,
         \/ Look(p) \/ StampIdentity(p) \/ UseWal(p) \/ VerifyExisting(p) \/ SkipCopy(p)
         \/ BeginCopy(p) \/ FinishCopy(p) \/ CopyFails(p) \/ Migrate(p) \/ FinishOpen(p)
         \/ Recover(p)
  PROVE  UpInv' /\ base' = base
<1>1. base' = base /\ proc[p].at # "idle"
  BY DEF Look, StampIdentity, UseWal, VerifyExisting, SkipCopy, BeginCopy, FinishCopy,
     CopyFails, Migrate, FinishOpen, Recover, Opening
<1>2. \A q \in Processes \ {p} : proc'[q].at = "idle"
  <2>1. \A q \in Processes \ {p} : proc[q].at = "idle"
    BY <1>1, Alone DEF Inv
  <2>2. \A q \in Processes \ {p} : proc'[q] = proc[q]
    BY DEF Look, StampIdentity, UseWal, VerifyExisting, SkipCopy, BeginCopy, FinishCopy,
       CopyFails, Migrate, FinishOpen, Recover, Goes, Inv, TypeOK
  <2> QED
    BY <2>1, <2>2
<1>3. proc'[p].release = proc[p].release
  BY DEF Look, StampIdentity, UseWal, VerifyExisting, SkipCopy, BeginCopy, FinishCopy,
     CopyFails, Migrate, FinishOpen, Recover, Goes, Inv, TypeOK, Locals
<1>4. file'.commits = file.commits
  <2>1. CASE StampIdentity(p)
    BY <2>1 DEF StampIdentity, NoFile, Inv, StepInv, FileInv
  <2>2. CASE ~StampIdentity(p)
    BY <2>2 DEF Look, UseWal, VerifyExisting, SkipCopy, BeginCopy, FinishCopy,
       CopyFails, Migrate, FinishOpen, Recover, Inv, TypeOK
  <2> QED
    BY <2>1, <2>2
<1>5. proc'[p].at \in {"migrated", "open"} =>
        proc[p].at = "migrated" /\ file' = file
  BY DEF Look, StampIdentity, UseWal, VerifyExisting, SkipCopy, BeginCopy, FinishCopy,
     CopyFails, Migrate, FinishOpen, Recover, Goes, Inv, TypeOK, Locals
<1> QED
  BY <1>1, <1>2, <1>3, <1>4, <1>5 DEF UpInv

\* Completing the migrations creates the store or takes it to the release.
LEMMA UpFinishes ==
  ASSUME Inv, UpInv, NEW p \in Processes, FinishMigrations(p)
  PROVE  /\ UpInv'
         /\ \E r \in Releases :
              \/ base = None /\ base' = [version |-> r, commits |-> 0]
              \/ base # None /\ r >= base.version /\ base' = [base EXCEPT !.version = r]
<1>1. /\ file' = file /\ base' = Content /\ proc[p].at = "migrating"
      /\ file.version >= proc[p].release
      /\ proc'[p].at = "migrated" /\ proc'[p].release = proc[p].release
      /\ \A q \in Processes \ {p} : proc'[q].at = "idle"
  BY GoesAlone DEF FinishMigrations, Inv
<1>2. proc[p].release \in Releases
  BY <1>1 DEF UpInv
<1>3. file.version = proc[p].release
  <2>1. file.version <= proc[p].release
    BY <1>1 DEF Inv, StepInv
  <2> QED
    BY <1>1, <2>1, Numbers DEF Inv
<1>4. base' # None /\ base'.version = file.version
  <2>1. Content \in Contents
    BY DEF Content, Contents, Inv, TypeOK
  <2> QED
    BY <1>1, <2>1 DEF Content
<1>5. UpInv'
  BY <1>1, <1>2, <1>4 DEF UpInv
<1>6. CASE base = None
  <2>1. base' = [version |-> proc[p].release, commits |-> 0]
    BY <1>1, <1>3, <1>6 DEF UpInv, Content
  <2>2. \E r \in Releases : base = None /\ base' = [version |-> r, commits |-> 0]
    BY <1>2, <1>6, <2>1
  <2> QED
    BY <1>5, <2>2
<1>7. CASE base # None
  <2>1. base \in Contents /\ base.commits = file.commits /\ base.version <= file.version
    BY <1>7 DEF Inv, TypeOK, BaseInv
  <2>2. base' = [base EXCEPT !.version = proc[p].release]
    BY <1>1, <1>3, <2>1 DEF Content, Contents
  <2>3. proc[p].release >= base.version
    BY <1>3, <1>7, <2>1, Numbers DEF Inv
  <2> QED
    BY <1>2, <1>5, <1>7, <2>2, <2>3
<1> QED
  BY <1>5, <1>6, <1>7

\* A transaction is one of the store that was opened.
LEMMA UpCommits ==
  ASSUME Inv, UpInv, NEW p \in Processes, Commit(p)
  PROVE  /\ UpInv'
         /\ base # None /\ base' = [base EXCEPT !.commits = @ + 1]
<1>1. /\ proc' = proc /\ proc[p].at = "open"
      /\ file' = [file EXCEPT !.commits = @ + 1]
      /\ base' = [Content EXCEPT !.commits = @ + 1]
  BY DEF Commit
<1>2. base # None /\ base.version = file.version
  BY <1>1 DEF UpInv
<1>3. base = Content
  BY <1>2, BaseIsContent DEF Inv
<1>4. base' \in Contents
  <2>1. base' \in Contents \cup {None}
    BY TypeStep DEF Inv, Next, Step, TypeOK
  <2>2. file.commits + 1 \in 0..MaxCommits
    BY DEF Inv, TypeOK, Commit
  <2> QED
    BY <1>1, <2>2 DEF Content, Contents, Inv, TypeOK
<1>5. base' # None /\ base'.version = file'.version
  BY <1>1, <1>4 DEF Content, Inv, TypeOK
<1>6. \A q \in Processes \ {p} : proc[q].at = "idle"
  BY <1>1, Alone DEF Inv
<1> QED
  BY <1>1, <1>2, <1>3, <1>5, <1>6 DEF UpInv

LEMMA UpStep ==
  ASSUME Inv, UpInv, [Next]_vars
  PROVE  /\ UpInv'
         /\ \/ base' = base
            \/ base # None /\ base' = [base EXCEPT !.commits = @ + 1]
            \/ \E r \in Releases :
                 \/ base = None /\ base' = [version |-> r, commits |-> 0]
                 \/ base # None /\ r >= base.version /\ base' = [base EXCEPT !.version = r]
<1>1. CASE UNCHANGED vars \/ \E x \in {"database", "objects"} : Damage(x)
  <2>1. UNCHANGED <<file, proc, base>>
    BY <1>1 DEF vars, Damage
  <2> QED
    BY <2>1 DEF UpInv
<1>2. ASSUME NEW p \in Processes, NEW r \in Releases, AcquireWriterLock(p, r)
      PROVE  UpInv' /\ base' = base
  <2>1. UNCHANGED <<file, base>>
    BY <1>2 DEF AcquireWriterLock
  <2>2. /\ proc'[p] = [at |-> "locked", new |-> FALSE, release |-> r, call |-> opens + 1]
        /\ \A q \in Processes \ {p} : proc'[q] = proc[q]
    BY <1>2 DEF AcquireWriterLock, Idle, Inv, TypeOK
  <2> QED
    BY <2>1, <2>2 DEF UpInv
<1>3. ASSUME NEW p \in Processes, Leave(p) PROVE UpInv' /\ base' = base
  <2>1. /\ UNCHANGED <<file, base>> /\ proc'[p].at = "idle"
        /\ \A q \in Processes \ {p} : proc'[q] = proc[q]
    BY <1>3 DEF Leave, Idle, Inv, TypeOK
  <2> QED
    BY <2>1 DEF UpInv
<1>4. ASSUME NEW p \in Processes, Step(p)
      PROVE  \/ UpInv' /\ base' = base
             \/ FinishMigrations(p) \/ Commit(p)
  BY <1>2, <1>3, <1>4, UpQuiet DEF Step
<1> QED
  BY <1>1, <1>4, UpFinishes, UpCommits DEF Next

\* Whatever a call of open_store makes of the database and its copies on the
\* way, for any number of processes, releases, failures and kills: what can be
\* got back changes in whole upgrades and whole transactions only.
THEOREM UpgradeAppearsAtomic == Spec => UpgradeIsAtomic
<1>1. Init => UpInv /\ Promise!Init
  BY DEF Init, UpInv, NoFile, Idle, Promise!Init, Recoverable
<1>2. Inv' => (Recoverable = base)'
  BY NothingIsLost, PTL
<1>3. Inv /\ Inv' /\ UpInv /\ [Next]_vars => UpInv' /\ [Promise!Next]_Recoverable
  <2> SUFFICES ASSUME Inv, Inv', UpInv, [Next]_vars
               PROVE  UpInv' /\ [Promise!Next]_Recoverable
    OBVIOUS
  <2>1. Recoverable = base /\ Recoverable' = base'
    BY <1>2, NothingIsLost
  <2> QED
    BY <2>1, UpStep DEF Promise!Next, Promise!Create, Promise!Upgrade, Promise!Commit
<1> QED
  BY <1>1, <1>3, Invariant, PTL DEF Spec, UpgradeIsAtomic, Promise!Spec
=============================================================================
