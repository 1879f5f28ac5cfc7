---------------------------- MODULE AtomicRestore ----------------------------
(***************************************************************************)
(* What `matchvet restore` promises to whoever looks at its target: either *)
(* nothing is there, or one state that the source store was in, as a whole *)
(* and brought forward to a schema.  It appears in one step, never changes *)
(* into another and may only disappear again.                              *)
(***************************************************************************)
CONSTANTS
  Stores,   \* what a store may hold
  Forwards, \* which of them are the same, the second at a schema not older
  None

VARIABLES
  past,  \* what the source has been
  shown  \* what is at the target

Init == shown = None

Advance ==
  /\ \E s \in Stores : past' = past \cup {s}
  /\ UNCHANGED shown

Appear ==
  /\ shown = None
  /\ \E s \in past : <<s, shown'>> \in Forwards
  /\ UNCHANGED past

Disappear ==
  /\ shown # None /\ shown' = None
  /\ UNCHANGED past

Next == Advance \/ Appear \/ Disappear

Spec == Init /\ [][Next]_<<past, shown>>
=============================================================================
