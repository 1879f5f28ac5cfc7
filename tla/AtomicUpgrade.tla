---------------------------- MODULE AtomicUpgrade ----------------------------
(***************************************************************************)
(* What opening the store promises to somebody who sees neither processes  *)
(* nor copies nor single migrations: a database that is created, advances  *)
(* by whole transactions and by whole upgrades to a release, and never     *)
(* goes back or gets lost.  What is kept is what can be got back.          *)
(***************************************************************************)
EXTENDS Integers

CONSTANTS Releases, None

VARIABLE kept  \* schema version and transactions, or None

Init == kept = None

Create(r) == kept = None /\ kept' = [version |-> r, commits |-> 0]

Upgrade(r) ==
  /\ kept # None /\ r >= kept.version
  /\ kept' = [kept EXCEPT !.version = r]

Commit == kept # None /\ kept' = [kept EXCEPT !.commits = @ + 1]

Next == Commit \/ \E r \in Releases : Create(r) \/ Upgrade(r)

Spec == Init /\ [][Next]_kept
=============================================================================
