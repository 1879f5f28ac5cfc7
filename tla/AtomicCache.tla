------------------------------ MODULE AtomicCache ------------------------------
(***************************************************************************)
(* What the cache of a source promises to whoever fetches from it: it      *)
(* shows nothing or one copy, a fetch answers with what is shown or with   *)
(* what it has just put there, and one copy takes the place of another     *)
(* without anything in between being answered.  A replacement that is not  *)
(* finished may leave a cache that refuses from then on.                   *)
(***************************************************************************)
CONSTANTS
  Copies, \* what may be shown
  None

VARIABLES
  shown,     \* the copy that a fetch would find
  sound,     \* FALSE where it would be refused instead
  replacing, \* a fetch is putting another one in its place
  answer     \* what the last fetch has answered, until the next begins

vars == <<shown, sound, replacing, answer>>

Init == shown = None /\ sound = TRUE /\ replacing = FALSE /\ answer = None

Serve ==
  /\ sound /\ ~replacing /\ shown # None
  /\ answer' = shown
  /\ UNCHANGED <<shown, sound, replacing>>

\* A fetch begins, or ends without an answer.
Miss ==
  /\ ~replacing
  /\ answer' = None
  /\ UNCHANGED <<shown, sound, replacing>>

Begin ==
  /\ sound /\ ~replacing
  /\ replacing' = TRUE /\ answer' = None
  /\ UNCHANGED <<shown, sound>> \/ (shown' = None /\ sound' = FALSE)

Put ==
  /\ replacing
  /\ replacing' = FALSE /\ sound' = TRUE
  /\ shown' \in Copies /\ answer' = shown'

GiveUp ==
  /\ replacing
  /\ replacing' = FALSE /\ answer' = None
  /\ UNCHANGED <<shown, sound>>

Next == Serve \/ Miss \/ Begin \/ Put \/ GiveUp

Spec == Init /\ [][Next]_vars
=============================================================================
