------------------------ MODULE MatchweekSelectionProofs ------------------------
(***************************************************************************)
(* The selection protocols for any candidates, Matchweeks, cutoffs and      *)
(* delays.                                                                  *)
(***************************************************************************)
EXTENDS MatchweekSelection, TLAPS

\* An indexed selection was committed in the past, in its own slot, for a graph
\* of the catalog.
SlotInv ==
  \A w \in Weeks : selection[w] # None =>
    /\ selection[w].at <= now
    /\ selection[w].graph \in graphs
    /\ Week[selection[w].graph.of] = w

\* A receipt bounds the commit of its selection from above, before the cutoff.
ReceiptInv ==
  \A w \in Weeks : receipt[w] # None =>
    /\ selection[w] # None
    /\ selection[w].at <= receipt[w].upper
    /\ receipt[w].upper < Cutoff[selection[w].graph.of]

\* What an operation has established when it reaches a phase.
OpInv ==
  /\ pc \in Phases => op.graph \in graphs
  /\ pc \in Occupying =>
       selection[OpWeek] # None /\ selection[OpWeek].graph = op.graph
  /\ pc \in {"stamped", "acknowledged", "receipt_attempt", "receipt_insert"} =>
       selection[OpWeek].at <= op.upper
  /\ pc \in {"acknowledged", "receipt_attempt", "receipt_insert"} =>
       op.upper < Cutoff[op.graph.of]

\* The candidate about to be admitted has no competitor.
WriteInv ==
  pc \in {"writing", "committing", "returned"} => Conflicts(op.candidate) = {}

ChainInv == \A c \in work : Conflicts(c) = {}

Inv == TypeOK /\ SlotInv /\ ReceiptInv /\ OpInv /\ WriteInv /\ ChainInv

USE TimesAssumption, CandidatesAssumption, NullAssumption

\* The initial state.
LEMMA InitInv == Init => Inv
BY DEF Init, Inv, TypeOK, Ops, NoOp, SlotInv, ReceiptInv, OpInv, WriteInv, ChainInv,
   Phases, Occupying

\* Ending or starting a process, refusals, time and the owner.
LEMMA QuietStep ==
  ASSUME Inv, Fail \/ Start \/ Die \/ Tick \/ OwnerAppends
              \/ (\E t \in 0..MaxTime : OwnerWithdraws(t)) \/ UNCHANGED vars
  PROVE  Inv'
<1>1. /\ UNCHANGED <<work, graphs, selection, receipt>>
      /\ now' \in Nat /\ now <= now'
      /\ \/ op' = NoOp /\ pc' \in {"down", "idle"}
         \/ UNCHANGED <<pc, op>>
         \/ pc = "down" /\ pc' = "idle" /\ op' = op
  BY DEF Inv, TypeOK, Fail, Start, Die, Tick, OwnerAppends, OwnerWithdraws, tables, vars
<1>2. owner' \in [record : Nat, withdrawn : Nat \cup {None}]
  BY DEF Inv, TypeOK, Fail, Start, Die, Tick, OwnerAppends, OwnerWithdraws, tables, vars
<1>3. TypeOK'
  BY <1>1, <1>2 DEF Inv, TypeOK, Ops, NoOp, Phases
<1>4. SlotInv' /\ ReceiptInv'
  BY <1>1 DEF Inv, TypeOK, SlotInv, ReceiptInv, Selections
<1>5. OpInv'
  BY <1>1 DEF Inv, OpInv, OpWeek, Phases, Occupying
<1>6. WriteInv' /\ ChainInv'
  BY <1>1 DEF Inv, WriteInv, ChainInv, Conflicts
<1> QED
  BY <1>3, <1>4, <1>5, <1>6 DEF Inv

\* Passing the gate leaves the tables alone and finds no competitor.
LEMMA GateStep ==
  ASSUME Inv, NEW b \in 0..MaxTime,
         (\E c \in Candidates : WriteBegin(c, b)) \/ WriteGuard(b) \/ WriterChecks(b)
  PROVE  Inv'
<1>1. /\ UNCHANGED <<now, work, graphs, selection, receipt, owner>>
      /\ pc' \in {"writing", "committing", "idle"}
  BY DEF WriteBegin, WriteGuard, WriterChecks, tables
<1>2. /\ op' \in Ops
      /\ pc' \in {"writing", "committing"} =>
           op'.candidate \in Candidates /\ Conflicts(op'.candidate) = {}
  <2>1. b \in Nat /\ op \in Ops /\ NoOp \in Ops
    BY DEF Inv, TypeOK, Ops, NoOp
  <2>2. CASE \E c \in Candidates : WriteBegin(c, b)
    <3>1. PICK c \in Candidates :
            Conflicts(c) = {} /\ op' = [op EXCEPT !.candidate = c, !.bound = b]
      BY <2>2 DEF WriteBegin, GateOpen
    <3>2. op' \in Ops /\ op'.candidate = c
      BY <3>1, <2>1 DEF Ops
    <3> QED BY <3>1, <3>2
  <2>3. CASE WriteGuard(b)
    <3>1. op.candidate \in Candidates /\ Conflicts(op.candidate) = {}
      BY <2>3 DEF Inv, TypeOK, WriteGuard, GateOpen
    <3>2. op' = [op EXCEPT !.bound = b]
      BY <2>3 DEF WriteGuard
    <3>3. op' \in Ops /\ op'.candidate = op.candidate
      BY <3>2, <2>1 DEF Ops
    <3> QED BY <3>1, <3>3
  <2>4. CASE WriterChecks(b)
    BY <2>1, <2>4 DEF WriterChecks
  <2> QED BY <2>2, <2>3, <2>4
<1>4. TypeOK' /\ OpInv'
  BY <1>1, <1>2 DEF Inv, TypeOK, OpInv, Phases, Occupying
<1>5. SlotInv' /\ ReceiptInv' /\ ChainInv'
  BY <1>1 DEF Inv, SlotInv, ReceiptInv, ChainInv, Conflicts
<1>6. WriteInv'
  BY <1>1, <1>2 DEF WriteInv, Conflicts
<1> QED
  BY <1>4, <1>5, <1>6 DEF Inv

\* Admitting a candidate without competitors gives none to the others.
LEMMA CommitStep ==
  ASSUME Inv, WriteCommit
  PROVE  Inv'
<1> DEFINE c == op.candidate
<1>1. /\ UNCHANGED <<now, selection, receipt, owner, op>>
      /\ pc = "committing" /\ pc' = "returned"
      /\ work' = work \cup {c} /\ graphs \subseteq graphs' /\ graphs' \subseteq Graphs
  BY DEF Inv, TypeOK, WriteCommit
<1>2. c \in Candidates /\ Conflicts(c) = {}
  BY <1>1 DEF Inv, TypeOK, WriteInv
<1>3. TypeOK'
  BY <1>1, <1>2 DEF Inv, TypeOK, Phases
<1>4. SlotInv' /\ ReceiptInv' /\ OpInv'
  BY <1>1 DEF Inv, SlotInv, ReceiptInv, OpInv, Phases, Occupying
<1>5. WriteInv'
  BY <1>1, <1>2 DEF WriteInv, Conflicts
<1>6. ChainInv'
  <2> SUFFICES ASSUME NEW d \in work', NEW e \in work', d # e, Week[e] = Week[d],
                      \/ "v2" \in {Contract[d], Contract[e]}
                      \/ Contract[d] = "v1" /\ Contract[e] = "v1"
               PROVE  FALSE
    BY DEF ChainInv, Conflicts
  <2>1. CASE d \in work /\ e \in work
    BY <2>1 DEF Inv, ChainInv, Conflicts
  <2>2. CASE d = c \/ e = c
    BY <1>1, <1>2, <2>2 DEF Conflicts
  <2> QED BY <1>1, <2>1, <2>2
<1> QED
  BY <1>3, <1>4, <1>5, <1>6 DEF Inv

\* Steps of the operation that write no table.
LEMMA OperationStep ==
  ASSUME Inv, NEW b \in 0..MaxTime,
         \/ \E g \in Graphs : OpenOperation(g)
         \/ StartSelection(b) \/ BeforeCommit(b) \/ Acknowledge(b) \/ BeginWitness
         \/ Send \/ WitnessStamps(b) \/ AcceptWitness \/ StartReceipt \/ InsertReceipt
  PROVE  Inv'
<1>1. UNCHANGED <<now, work, graphs, selection, receipt, owner>> /\ pc' \in Phases
  BY DEF OpenOperation, StartSelection, BeforeCommit, Acknowledge, BeginWitness, Send,
     WitnessStamps, AcceptWitness, StartReceipt, InsertReceipt, tables, Phases
<1>2. op' \in Ops /\ op'.graph \in graphs
  <2>1. b \in Nat /\ op \in Ops /\ NoOp \in Ops /\ owner.record \in Nat
        /\ graphs \subseteq Graphs
    BY DEF Inv, TypeOK, Ops, NoOp
  <2>2. CASE \E g \in Graphs : OpenOperation(g)
    <3>1. PICK g \in graphs : op' = [NoOp EXCEPT !.graph = g, !.record = owner.record]
      BY <2>2 DEF OpenOperation
    <3>2. op' = [graph |-> g, candidate |-> None, bound |-> 0, upper |-> 0,
                 record |-> owner.record]
      BY <3>1 DEF NoOp
    <3> QED BY <3>2, <2>1 DEF Ops
  <2>3. CASE ~\E g \in Graphs : OpenOperation(g)
    <3>1. op.graph \in graphs
      BY <2>3 DEF Inv, OpInv, Phases, StartSelection, BeforeCommit, Acknowledge, BeginWitness,
         Send, WitnessStamps, AcceptWitness, StartReceipt, InsertReceipt
    <3>2. \/ op' = op
          \/ op' = [op EXCEPT !.bound = b]
          \/ op' = [op EXCEPT !.bound = op.bound]
          \/ op' = [op EXCEPT !.bound = b, !.upper = b]
          \/ op' = [op EXCEPT !.upper = b]
      BY <2>3 DEF StartSelection, BeforeCommit, Acknowledge, BeginWitness,
         Send, WitnessStamps, AcceptWitness, StartReceipt, InsertReceipt
    <3>3. /\ op.bound \in Nat /\ [op EXCEPT !.bound = op.bound] = op
          /\ op.graph \in Graphs
      BY <2>1, <3>1 DEF Ops
    <3>4. /\ [op EXCEPT !.bound = b] \in Ops /\ [op EXCEPT !.upper = b] \in Ops
          /\ [op EXCEPT !.bound = b, !.upper = b] \in Ops
      BY <2>1 DEF Ops
    <3>5. op' \in Ops
      BY <3>2, <3>3, <3>4, <2>1
    <3>6. op'.graph = op.graph
      BY <3>2, <3>3, <2>1 DEF Ops
    <3> QED BY <3>1, <3>5, <3>6
  <2> QED BY <2>2, <2>3
<1>4. TypeOK'
  BY <1>1, <1>2 DEF Inv, TypeOK, Phases
<1>5. SlotInv' /\ ReceiptInv' /\ ChainInv' /\ WriteInv'
  BY <1>1 DEF Inv, SlotInv, ReceiptInv, ChainInv, WriteInv, Conflicts, Phases
<1>6. OpInv'
  <2>1. CASE pc' \in {"fresh", "selection_attempt", "selection_insert"}
    <3>1. pc' \notin Occupying /\ op'.graph \in graphs'
      BY <1>1, <1>2, <2>1 DEF Occupying
    <3>2. /\ pc' \notin {"stamped", "acknowledged", "receipt_attempt", "receipt_insert"}
          /\ pc' \notin {"acknowledged", "receipt_attempt", "receipt_insert"}
      BY <2>1
    <3> QED
      BY <3>1, <3>2 DEF OpInv
  <2>2. CASE pc' \notin {"fresh", "selection_attempt", "selection_insert"}
    <3>1. pc \in Occupying /\ op'.graph = op.graph
      <4>1. ~\E g \in Graphs : OpenOperation(g)
        BY <2>2 DEF OpenOperation
      <4>2. pc \in Occupying
        BY <2>2, <4>1 DEF StartSelection, BeforeCommit, Acknowledge, BeginWitness, Send,
           WitnessStamps, AcceptWitness, StartReceipt, InsertReceipt, Phases, Occupying
      <4>3. \/ op' = op
            \/ op' = [op EXCEPT !.bound = b]
            \/ op' = [op EXCEPT !.bound = op.bound]
            \/ op' = [op EXCEPT !.bound = b, !.upper = b]
            \/ op' = [op EXCEPT !.upper = b]
        BY <4>1, <2>2 DEF StartSelection, BeforeCommit, Acknowledge, BeginWitness, Send,
           WitnessStamps, AcceptWitness, StartReceipt, InsertReceipt
      <4>4. op \in Ops
        BY DEF Inv, TypeOK
      <4>5. op'.graph = op.graph
        BY <4>3, <4>4 DEF Ops
      <4> QED BY <4>2, <4>5
    <3>2. selection[OpWeek] # None /\ selection[OpWeek].graph = op.graph
      BY <3>1 DEF Inv, OpInv
    <3>3. selection[OpWeek].at <= now /\ selection[OpWeek].at \in Nat
      BY <3>1, <3>2 DEF Inv, TypeOK, SlotInv, OpWeek, Occupying, Graphs, Selections
    <3>4. op \in Ops /\ now \in Nat /\ b \in Nat
      BY DEF Inv, TypeOK
    <3>5. pc' \in {"stamped", "acknowledged", "receipt_attempt", "receipt_insert"} =>
            selection[OpWeek].at <= op'.upper
      <4>1. CASE Acknowledge(b) \/ WitnessStamps(b)
        <5>1. now <= b
          BY <4>1, <3>4 DEF Acknowledge, WitnessStamps, Before, Observed
        <5>2. CASE Acknowledge(b)
          <6>1. op'.upper = b
            BY <5>2, <3>4 DEF Acknowledge, Ops
          <6> QED BY <5>1, <6>1, <3>3, <3>4
        <5>3. CASE WitnessStamps(b)
          <6>1. op'.upper = b
            BY <5>3, <3>4 DEF WitnessStamps, Ops
          <6> QED BY <5>1, <6>1, <3>3, <3>4
        <5> QED BY <4>1, <5>2, <5>3
      <4>2. CASE AcceptWitness \/ StartReceipt \/ InsertReceipt
        BY <4>2 DEF Inv, OpInv, AcceptWitness, StartReceipt, InsertReceipt
      <4>3. CASE BeginWitness \/ Send
        BY <4>3 DEF BeginWitness, Send
      <4> QED BY <2>2, <4>1, <4>2, <4>3 DEF OpenOperation, StartSelection, BeforeCommit
    <3>6. pc' \in {"acknowledged", "receipt_attempt", "receipt_insert"} =>
            op'.upper < Cutoff[op.graph.of]
      BY DEF Inv, TypeOK, Ops, OpInv, OpenOperation, StartSelection, BeforeCommit,
         Acknowledge, BeginWitness, Send, WitnessStamps, AcceptWitness, StartReceipt,
         InsertReceipt, Before, CandidateOf
    <3> QED
      BY <1>1, <1>2, <3>1, <3>2, <3>5, <3>6 DEF OpInv, OpWeek
  <2> QED BY <2>1, <2>2
<1> QED
  BY <1>4, <1>5, <1>6 DEF Inv

\* The commit of a selection.
LEMMA SelectStep ==
  ASSUME Inv, CommitSelection
  PROVE  Inv'
<1> DEFINE new == [graph |-> op.graph, at |-> now]
<1>1. /\ UNCHANGED <<now, work, graphs, receipt, owner, op>>
      /\ pc = "selection_insert" /\ pc' = "selection_committed"
      /\ selection[OpWeek] = None
      /\ selection' = [selection EXCEPT ![OpWeek] = new]
  BY DEF CommitSelection, SlotFree
<1>2. /\ op.graph \in Graphs /\ op.graph \in graphs /\ new \in Selections
      /\ OpWeek \in Weeks /\ Week[op.graph.of] = OpWeek
  BY <1>1 DEF Inv, TypeOK, OpInv, OpWeek, Phases, Graphs, Selections
<1>3. selection' \in [Weeks -> Selections \cup {None}]
  BY <1>1, <1>2 DEF Inv, TypeOK
<1>4. TypeOK'
  BY <1>1, <1>2, <1>3 DEF Inv, TypeOK, Phases
<1>5. selection'[OpWeek] = new /\ \A w \in Weeks \ {OpWeek} : selection'[w] = selection[w]
  BY <1>1, <1>2 DEF Inv, TypeOK
<1>6. new # None /\ new.graph = op.graph /\ new.at = now
  BY <1>2
<1>7. SlotInv'
  BY <1>1, <1>2, <1>5, <1>6 DEF Inv, TypeOK, SlotInv
<1>8. receipt[OpWeek] = None
  BY <1>1, <1>2 DEF Inv, ReceiptInv
<1>9. ReceiptInv'
  BY <1>1, <1>5, <1>8 DEF Inv, ReceiptInv
<1>10. OpInv'
  BY <1>1, <1>2, <1>5, <1>6 DEF OpInv, OpWeek, Phases
<1>11. WriteInv' /\ ChainInv'
  BY <1>1 DEF Inv, WriteInv, ChainInv, Conflicts
<1> QED
  BY <1>4, <1>7, <1>9, <1>10, <1>11 DEF Inv

\* The commit of a receipt.
LEMMA ReceiptStep ==
  ASSUME Inv, CommitReceipt
  PROVE  Inv'
<1> DEFINE new == [upper |-> op.upper, record |-> op.record]
<1>1. /\ UNCHANGED <<now, work, graphs, selection, owner>>
      /\ pc = "receipt_insert" /\ pc' = "idle" /\ op' = NoOp
      /\ receipt' = [receipt EXCEPT ![OpWeek] = new]
  BY DEF CommitReceipt
<1>2. op.graph \in Graphs /\ new \in Receipts /\ OpWeek \in Weeks
  BY <1>1 DEF Inv, TypeOK, Ops, OpWeek, Phases, Graphs, Receipts
<1>3. receipt' \in [Weeks -> Receipts \cup {None}]
  BY <1>1, <1>2 DEF Inv, TypeOK
<1>4. TypeOK'
  BY <1>1, <1>3 DEF Inv, TypeOK, Ops, NoOp, Phases
<1>5. receipt'[OpWeek] = new /\ \A w \in Weeks \ {OpWeek} : receipt'[w] = receipt[w]
  BY <1>1, <1>2 DEF Inv, TypeOK
<1>6. /\ selection[OpWeek] # None /\ selection[OpWeek].graph = op.graph
      /\ selection[OpWeek].at <= op.upper /\ op.upper < Cutoff[op.graph.of]
  BY <1>1 DEF Inv, OpInv, Occupying, Phases
<1>7. ReceiptInv'
  BY <1>1, <1>5, <1>6 DEF Inv, ReceiptInv
<1>8. SlotInv' /\ OpInv' /\ WriteInv' /\ ChainInv'
  BY <1>1 DEF Inv, SlotInv, OpInv, WriteInv, ChainInv, Conflicts, Phases, Occupying
<1> QED
  BY <1>4, <1>7, <1>8 DEF Inv

\* Every step preserves the invariant.
LEMMA InvStep == Inv /\ [Next]_vars => Inv'
<1> SUFFICES ASSUME Inv, [Next]_vars PROVE Inv'
  OBVIOUS
<1>1. CASE Fail \/ Start \/ Die \/ Tick \/ OwnerAppends
           \/ (\E t \in 0..MaxTime : OwnerWithdraws(t)) \/ UNCHANGED vars
  BY <1>1, QuietStep
<1>2. CASE \E b \in 0..MaxTime :
             (\E c \in Candidates : WriteBegin(c, b)) \/ WriteGuard(b) \/ WriterChecks(b)
  BY <1>2, GateStep
<1>3. CASE WriteCommit
  BY <1>3, CommitStep
<1>4. CASE \E b \in 0..MaxTime : StartSelection(b) \/ BeforeCommit(b) \/ Acknowledge(b)
                                 \/ WitnessStamps(b)
  BY <1>4, OperationStep
<1>5. CASE (\E g \in Graphs : OpenOperation(g)) \/ BeginWitness \/ Send \/ AcceptWitness
           \/ StartReceipt \/ InsertReceipt
  <2>1. 0 \in 0..MaxTime
    OBVIOUS
  <2> QED BY <1>5, <2>1, OperationStep
<1>6. CASE CommitSelection
  BY <1>6, SelectStep
<1>7. CASE CommitReceipt
  BY <1>7, ReceiptStep
<1> QED
  BY <1>1, <1>2, <1>3, <1>4, <1>5, <1>6, <1>7 DEF Next

\* The invariant holds always.
THEOREM Invariance == Spec => []Inv
  BY InitInv, InvStep, PTL DEF Spec

\* A qualified selection had been committed before its cutoff: protocols v1 and
\* v2, for any clock provider and witness that keep their contract.
THEOREM InTime == Spec => []QualifiedWasInTime
<1>1. Inv => QualifiedWasInTime
  <2> SUFFICES ASSUME Inv, NEW w \in Weeks, Qualified(w)
               PROVE  selection[w].at < Cutoff[selection[w].graph.of]
    BY DEF QualifiedWasInTime
  <2>1. /\ selection[w] \in Selections /\ receipt[w] \in Receipts
        /\ selection[w].at <= receipt[w].upper
        /\ receipt[w].upper < Cutoff[selection[w].graph.of]
    BY DEF Inv, TypeOK, ReceiptInv, Qualified
  <2>2. /\ selection[w].at \in Nat /\ receipt[w].upper \in Nat
        /\ Cutoff[selection[w].graph.of] \in Nat
    BY <2>1 DEF Selections, Receipts, Graphs
  <2> QED BY <2>1, <2>2
<1> QED
  BY <1>1, Invariance, PTL

\* No candidate shares a Matchweek with a competitor, over any interruptions.
THEOREM OneChain == Spec => []OneCandidateChain
<1>1. Inv => OneCandidateChain
  <2> SUFFICES ASSUME Inv PROVE OneCandidateChain
    OBVIOUS
  <2>1. \A w \in Weeks : selection[w] # None => selection[w].graph \in graphs
    BY DEF Inv, SlotInv
  <2>2. ASSUME NEW c \in work, NEW d \in work, c # d, Week[c] = Week[d]
        PROVE  /\ "v2" \notin {Contract[c], Contract[d]}
               /\ "legacy" \in {Contract[c], Contract[d]}
    <3>1. c \in Candidates /\ d \in Candidates
      BY DEF Inv, TypeOK
    <3>2. d \notin Conflicts(c)
      BY DEF Inv, ChainInv
    <3> QED
      BY <2>2, <3>1, <3>2 DEF Conflicts
  <2> QED
    BY <2>1, <2>2 DEF OneCandidateChain
<1> QED
  BY <1>1, Invariance, PTL
-----------------------------------------------------------------------------
(* What a step can do to the slots *)

\* An operation that occupies a selection slot has not issued its receipt.
OpenInv == pc \in Occupying => receipt[OpWeek] = None

\* Only two actions write the slots, and only one enters the occupying phases.
LEMMA WhoWrites ==
  ASSUME TypeOK, [Next]_vars
  PROVE  /\ selection' = selection \/ CommitSelection
         /\ receipt' = receipt \/ CommitReceipt
         /\ pc' \in Occupying =>
              CommitSelection \/ (pc \in Occupying /\ op'.graph = op.graph)
<1> op \in Ops
  BY DEF TypeOK
<1>1. CASE UNCHANGED vars \/ Fail \/ Start \/ Die \/ Tick \/ OwnerAppends
           \/ (\E t \in 0..MaxTime : OwnerWithdraws(t))
  BY <1>1 DEF vars, tables, Fail, Start, Die, Tick, OwnerAppends, OwnerWithdraws,
     Occupying, Phases
<1>2. CASE WriteCommit \/ \E b \in 0..MaxTime :
             (\E c \in Candidates : WriteBegin(c, b)) \/ WriteGuard(b) \/ WriterChecks(b)
  BY <1>2 DEF tables, WriteCommit, WriteBegin, WriteGuard, WriterChecks, Occupying, Phases
<1>3. CASE (\E g \in Graphs : OpenOperation(g))
           \/ \E b \in 0..MaxTime : StartSelection(b) \/ BeforeCommit(b)
  BY <1>3 DEF tables, OpenOperation, StartSelection, BeforeCommit, Occupying, Phases
<1>4. CASE \E b \in 0..MaxTime : Acknowledge(b) \/ WitnessStamps(b)
  BY <1>4 DEF tables, Acknowledge, WitnessStamps, Occupying, Phases, Ops
<1>5. CASE BeginWitness \/ Send \/ AcceptWitness \/ StartReceipt \/ InsertReceipt
  BY <1>5 DEF tables, BeginWitness, Send, AcceptWitness, StartReceipt, InsertReceipt,
     Occupying, Phases
<1>6. CASE CommitSelection
  BY <1>6 DEF CommitSelection
<1>7. CASE CommitReceipt
  BY <1>7 DEF CommitReceipt, Occupying, Phases
<1> QED
  BY <1>1, <1>2, <1>3, <1>4, <1>5, <1>6, <1>7 DEF Next

\* A selection is committed into a slot of its own, which is free.
LEMMA SelectionWrites ==
  ASSUME Inv, CommitSelection
  PROVE  /\ selection[OpWeek] = None /\ receipt[OpWeek] = None
         /\ receipt' = receipt /\ OpWeek' = OpWeek
         /\ \A w \in Weeks \ {OpWeek} : selection'[w] = selection[w]
<1>1. OpWeek \in Weeks
  BY DEF Inv, TypeOK, CommitSelection, OpWeek, Phases, Graphs
<1>2. selection[OpWeek] = None
  BY DEF CommitSelection, SlotFree
<1>3. receipt[OpWeek] = None
  BY <1>1, <1>2 DEF Inv, ReceiptInv
<1> QED
  BY <1>2, <1>3 DEF Inv, TypeOK, CommitSelection, OpWeek

\* A receipt is committed into the slot of its operation, which is free.
LEMMA ReceiptWrites ==
  ASSUME Inv, OpenInv, CommitReceipt
  PROVE  /\ pc \in Occupying /\ receipt[OpWeek] = None
         /\ selection' = selection /\ owner' = owner
         /\ \A w \in Weeks \ {OpWeek} : receipt'[w] = receipt[w]
<1>1. pc \in Occupying
  BY DEF CommitReceipt, Occupying, Phases
<1> QED
  BY <1>1 DEF Inv, TypeOK, OpenInv, CommitReceipt

\* No receipt appears while its operation is still to issue it.
LEMMA OpenStep == Inv /\ OpenInv /\ [Next]_vars => OpenInv'
<1> SUFFICES ASSUME Inv, OpenInv, [Next]_vars, pc' \in Occupying
             PROVE  receipt'[OpWeek'] = None
  BY DEF OpenInv
<1>1. CASE CommitSelection
  BY <1>1, SelectionWrites
<1>2. CASE ~CommitSelection
  <2>1. pc \in Occupying /\ op'.graph = op.graph
    BY <1>2, WhoWrites DEF Inv
  <2>2. ~CommitReceipt
    BY DEF CommitReceipt, Occupying, Phases
  <2>3. receipt' = receipt /\ OpWeek' = OpWeek
    BY <2>1, <2>2, WhoWrites DEF Inv, OpWeek
  <2> QED BY <2>1, <2>3 DEF OpenInv
<1> QED BY <1>1, <1>2

LEMMA OpenInvariance == Spec => []OpenInv
<1>1. Init => OpenInv
  BY DEF Init, OpenInv, Occupying, Phases
<1> QED
  BY <1>1, OpenStep, Invariance, PTL DEF Spec

\* An occupied slot keeps what it has.
LEMMA SlotsAreKept ==
  ASSUME Inv, OpenInv, [Next]_vars, NEW w \in Weeks
  PROVE  /\ selection[w] # None => selection'[w] = selection[w]
         /\ receipt[w] # None => receipt'[w] = receipt[w]
         /\ receipt'[w] # receipt[w] => pc \in Occupying /\ OpWeek = w
<1>1. selection[w] # None => selection'[w] = selection[w]
  <2>1. CASE CommitSelection
    BY <2>1, SelectionWrites
  <2> QED BY <2>1, WhoWrites DEF Inv
<1>2. /\ receipt[w] # None => receipt'[w] = receipt[w]
      /\ receipt'[w] # receipt[w] => pc \in Occupying /\ OpWeek = w
  <2>1. CASE CommitReceipt
    BY <2>1, ReceiptWrites
  <2> QED BY <2>1, WhoWrites DEF Inv
<1> QED BY <1>1, <1>2

\* The first committed selection and receipt of a Matchweek stay for ever: no
\* transaction of either protocol ever meets the unique constraint of its slot.
THEOREM Final == Spec => SelectionIsFinal
<1>1. Inv /\ OpenInv /\ [Next]_vars =>
        [\A w \in Weeks : /\ selection[w] # None => selection'[w] = selection[w]
                          /\ receipt[w] # None => receipt'[w] = receipt[w]]_vars
  BY SlotsAreKept
<1> QED
  BY <1>1, Invariance, OpenInvariance, PTL DEF Spec, SelectionIsFinal

\* The owner's history only grows, and is withdrawn at most once.
LEMMA OwnerKeeps ==
  ASSUME TypeOK, [Next]_vars, owner.withdrawn # None
  PROVE  owner'.withdrawn = owner.withdrawn
<1>1. CASE OwnerAppends
  BY <1>1 DEF OwnerAppends, TypeOK
<1>2. owner' = owner \/ OwnerAppends
  BY DEF Next, vars, tables, Fail, Start, Die, Tick, OwnerWithdraws, WriteCommit, WriteBegin,
     WriteGuard, WriterChecks, OpenOperation, StartSelection, BeforeCommit, Acknowledge,
     WitnessStamps, BeginWitness, Send, AcceptWitness, StartReceipt, InsertReceipt,
     CommitSelection, CommitReceipt
<1> QED BY <1>1, <1>2

\* An occupied slot whose operation is over and that does not qualify never will.
LEMMA TerminalStays ==
  ASSUME Inv, OpenInv, [Next]_vars, NEW w \in Weeks, Terminal(w)
  PROVE  Terminal(w)'
<1>1. /\ selection[w] # None /\ ~(pc \in Occupying /\ OpWeek = w) /\ ~Qualified(w)
  BY DEF Terminal
<1>2. selection'[w] = selection[w] /\ receipt'[w] = receipt[w]
  BY <1>1, SlotsAreKept
<1>3. ~(pc' \in Occupying /\ OpWeek' = w)
  <2> SUFFICES ASSUME pc' \in Occupying, OpWeek' = w PROVE FALSE
    OBVIOUS
  <2>1. CASE CommitSelection
    BY <1>1, <2>1, SelectionWrites
  <2>2. CASE ~CommitSelection
    <3>1. pc \in Occupying /\ op'.graph = op.graph
      BY <2>2, WhoWrites DEF Inv
    <3> QED BY <1>1, <3>1 DEF OpWeek
  <2> QED BY <2>1, <2>2
<1>4. owner.withdrawn # None => owner'.withdrawn = owner.withdrawn
  BY OwnerKeeps DEF Inv
<1>5. ~Qualified(w)'
  BY <1>1, <1>2, <1>4 DEF Qualified
<1> QED
  BY <1>1, <1>2, <1>3, <1>5 DEF Terminal

\* ADR 0003: no retry, restart, later bound or owner record qualifies a slot that
\* its operation left unqualified.
THEOREM NeverLater == Spec => NeverQualifiedLater
<1>1. Inv /\ OpenInv /\ [Next]_vars => [\A w \in Weeks : Terminal(w) => Terminal(w)']_vars
  BY TerminalStays
<1> QED
  BY <1>1, Invariance, OpenInvariance, PTL DEF Spec, NeverQualifiedLater

\* A withdrawal is the only record that changes whether one is withdrawn.
LEMMA WithdrawalOnly ==
  ASSUME Inv, OpenInv, [Next]_vars, NEW w \in Weeks, Qualified(w), ~Qualified(w)'
  PROVE  /\ owner.withdrawn = None
         /\ owner'.withdrawn # None /\ owner'.withdrawn <= receipt[w].upper
<1>1. selection'[w] = selection[w] /\ receipt'[w] = receipt[w]
  BY SlotsAreKept DEF Qualified
<1>2. owner'.withdrawn # None /\ ~(receipt[w].upper < owner'.withdrawn)
  BY <1>1 DEF Qualified
<1>3. owner.withdrawn = None
  <2> SUFFICES ASSUME owner.withdrawn # None PROVE FALSE
    OBVIOUS
  <2>1. owner'.withdrawn = owner.withdrawn
    BY OwnerKeeps DEF Inv
  <2> QED BY <1>1, <2>1 DEF Qualified
<1>4. owner'.withdrawn \in Nat
  <2>1. Inv'
    BY InvStep
  <2> QED BY <1>2, <2>1 DEF Inv, TypeOK
<1>5. receipt[w].upper \in Nat
  BY DEF Inv, TypeOK, Qualified, Receipts
<1> QED
  BY <1>2, <1>3, <1>4, <1>5

\* What is qualified stays so after its cutoff, over crashes and further owner
\* records, until a withdrawal that reaches back to the witnessed event.
THEOREM UntilWithdrawn == Spec => OnlyWithdrawalDisqualifies
<1>1. Inv /\ OpenInv /\ [Next]_vars =>
        [\A w \in Weeks : Qualified(w) /\ ~Qualified(w)' =>
           /\ owner.withdrawn = None
           /\ owner'.withdrawn # None /\ owner'.withdrawn <= receipt[w].upper]_vars
  BY WithdrawalOnly
<1> QED
  BY <1>1, Invariance, OpenInvariance, PTL DEF Spec, OnlyWithdrawalDisqualifies

=============================================================================
