---------------------------- MODULE ResumableRun ----------------------------
(***************************************************************************)
(* What the run lifecycle promises to somebody who sees neither processes  *)
(* nor attempts nor transactions: a ledger.  A run is opened once for its  *)
(* inputs, its phases append their outputs one after the other, and it is  *)
(* sealed with exactly the outputs appended.  Crashes, retries and resumes *)
(* do not exist at this level.                                             *)
(***************************************************************************)
EXTENDS Integers, Sequences

CONSTANTS RunIds, Subjects, Outputs, NumPhases, Unopened

VARIABLES
  subject,  \* what each run was opened for
  ledger,   \* the outputs its phases have appended
  sealed    \* the outputs it was completed with

vars == <<subject, ledger, sealed>>

Init ==
  /\ subject = [r \in RunIds |-> Unopened]
  /\ ledger = [r \in RunIds |-> <<>>]
  /\ sealed = [r \in RunIds |-> {}]

\* A second run for the same subject waits until the first is sealed.
Open(r, s) ==
  /\ subject[r] = Unopened
  /\ \A q \in RunIds : subject[q] = s => sealed[q] # {}
  /\ subject' = [subject EXCEPT ![r] = s]
  /\ UNCHANGED <<ledger, sealed>>

Extend(r, output) ==
  /\ subject[r] # Unopened
  /\ sealed[r] = {}
  /\ Len(ledger[r]) < NumPhases
  /\ ledger' = [ledger EXCEPT ![r] = Append(@, output)]
  /\ UNCHANGED <<subject, sealed>>

Seal(r) ==
  /\ sealed[r] = {}
  /\ Len(ledger[r]) = NumPhases
  /\ sealed' = [sealed EXCEPT ![r] = {ledger[r]}]
  /\ UNCHANGED <<subject, ledger>>

Next ==
  \E r \in RunIds :
    \/ \E s \in Subjects : Open(r, s)
    \/ \E output \in Outputs : Extend(r, output)
    \/ Seal(r)

Spec == Init /\ [][Next]_vars
=============================================================================
