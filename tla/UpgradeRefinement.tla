-------------------------- MODULE UpgradeRefinement --------------------------
(***************************************************************************)
(* StoreOpening implements AtomicUpgrade: whatever step of open_store      *)
(* fails or is killed, one database can be got back, and it is the one the *)
(* last completed upgrade or transaction left.                             *)
(***************************************************************************)
EXTENDS StoreOpening

\* In the database itself, or in a verified private copy beside it.
Recoverable ==
  IF base # None /\ (Content = base \/ \E c \in Opens : copies[c] = [of |-> base, whole |-> TRUE])
  THEN base ELSE None

Promise == INSTANCE AtomicUpgrade WITH kept <- Recoverable

\* Migrations that several releases begin, abandon and take up again appear as
\* one step from release to release: nothing in between can be got back or
\* worked with, and no transaction is lost on the way.
UpgradeIsAtomic == Promise!Spec
=============================================================================
