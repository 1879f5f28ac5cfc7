-------------------------- MODULE RestoreRefinement --------------------------
(***************************************************************************)
(* BackupRestore implements AtomicRestore: of the files a backup and a     *)
(* restore copy one by one, nothing shows at the target but the whole.     *)
(***************************************************************************)
EXTENDS BackupRestore

\* The database found at the target, with those of its artifacts that are there.
\* A database that a cleanup had to leave behind is reported and does not count.
Shown ==
  IF target.database = None \/ damage.cleanup THEN None
  ELSE [target.database EXCEPT !.objects = @ \cap target.objects]

Promise == INSTANCE AtomicRestore WITH
  Stores   <- Databases,
  Forwards <- {pair \in Databases \X Databases :
                 /\ pair[1].schema <= pair[2].schema
                 /\ pair[2] = [pair[1] EXCEPT !.schema = pair[2].schema]},
  past     <- committed,
  shown    <- Shown

\* Between the first file of a restore and its last, through failures, cleanups
\* and kills, the target shows nothing or one whole state of the source; the
\* artifacts come before the database and go after it.
RestoreIsAtomic == Promise!Spec
=============================================================================
