----------------------------- MODULE EnrolmentProofs -----------------------------
(***************************************************************************)
(* What Enrolment promises, for any number of rows, calls, kills and       *)
(* passing failures, and for all times of cutoff and kickoff.              *)
(*                                                                         *)
(* The artifacts of an attempt appear in one order, each referring to the   *)
(* one before.  What has to be said besides (OpFits) is which of them are   *)
(* there at each point of a call, above all which are not: a request leaves *)
(* only while nothing shows that it has left before.                       *)
(***************************************************************************)
EXTENDS Enrolment, FiniteSetTheorems, TLAPS

Points == {"idle", "staging", "staged", "trusted", "requested", "sending", "answered",
           "responded", "driving", "finishing", "recording", "retrying"}
States == {"RECEIVED", "MALFORMED", "REJECTED", "UNAVAILABLE"}
Bodies == [nonce : Nat, time : Nat]
Heard == [body : Bodies \cup {None}, state : States]
Ops ==
  [at : Points, nonce : Nat, number : Nat, trust : Nat, row : Nat, retry : BOOLEAN,
   send : BOOLEAN, replay : BOOLEAN, answer : Heard \cup {None}]

Verified(n) == [nonce |-> n, failed |-> {}]
Entry(n, r) == [nonce |-> n, row |-> r]

TypeOK ==
  /\ now \in Nat /\ tuf \in Nat /\ trusts \subseteq Nat
  /\ stamped \subseteq Bodies /\ sent \in [Nonces -> Nat]
  /\ op \in Ops
  /\ staged \subseteq Rows /\ (batch => staged = Rows)
  /\ attempts \subseteq [nonce : Nonces, number : Nat]
  /\ requests \subseteq [nonce : Nonces, trust : trusts] /\ IsFiniteSet(requests)
  /\ verdicts \subseteq [nonce : Nat, failed : SUBSET {"answer", "check"}]
  /\ records \subseteq [nonce : Nat, row : Rows]

\* Each artifact refers to one that is there, and nonces and trust only grow.
References ==
  /\ \A q \in requests : q.nonce \in 1..Cardinality(requests)
  /\ \A p, q \in requests : p.nonce <= q.nonce => p.trust <= q.trust
  /\ \A a \in attempts : Of(requests, a.nonce) # {}
  /\ \A r \in responses \cup results : Of(attempts, r.nonce) # {}
  /\ \A n \in Nonces : sent[n] <= 1 /\ (sent[n] > 0 => Of(attempts, n) # {})

Alone(a) == attempts = {a} /\ a.number = 1
Follows(a, b) ==
  /\ attempts = {a, b} /\ a.number = 1 /\ b.number = 2
  /\ a.nonce < b.nonce /\ Of(results, a.nonce) # {}

\* No attempt, the normal one, or the retry of a normal one that has its result.
Attempted ==
  /\ attempts = {} => requests = {} \/ \E q : requests = {q}
  /\ attempts = {} \/ (\E a : Alone(a)) \/ (\E a, b : Follows(a, b))

\* Nothing is retained twice, and a result repeats its response.
Retained ==
  /\ \A r \in responses \cup results : r.body \in stamped \cup {Page, None}
  /\ \A r \in responses : r.body # None
  /\ \A r \in results : r.body # None => r \in responses
  /\ \A r, s \in responses \cup results : r.nonce = s.nonce => r = s

\* What has been told rests on what was retained.
Told ==
  /\ \A v, w \in verdicts : v.nonce = w.nonce => v = w
  /\ \A v \in verdicts : v.failed = {} =>
       \E r \in results : r.nonce = v.nonce /\ Good(r) /\ r.body # None
  /\ \A e \in records : Verified(e.nonce) \in verdicts
  /\ \A n \in receipts : Verified(n) \in verdicts /\ \A r \in Rows : Entry(n, r) \in records
  /\ receipts = {} \/ \E n : receipts = {n}

Driven == {"sending", "answered", "responded", "driving", "finishing", "recording", "retrying"}

OpFits ==
  /\ op.at \in Driven => Of(attempts, op.nonce) # {}
  /\ op.at \in {"trusted", "requested"} =>
       /\ op.trust \in trusts /\ \A t \in trusts : t <= op.trust
       /\ \/ op.number = 1 /\ attempts = {}
          \/ op.number = 2 /\ \E a : Alone(a) /\ Of(results, a.nonce) # {}
  /\ op.at = "trusted" /\ attempts = {} => requests = {}
  /\ op.at = "requested" =>
       /\ op.nonce = Cardinality(requests)
       /\ Of(requests, op.nonce) # {} /\ Of(attempts, op.nonce) = {}
  /\ op.at = "sending" \/ (op.at = "driving" /\ op.send) => sent[op.nonce] = 0
  /\ op.at \in {"sending", "answered"} => Of(responses, op.nonce) = {}
  /\ op.at \in {"sending", "answered", "responded"} => Of(results, op.nonce) = {}
  /\ op.at \in {"answered", "responded"} =>
       op.answer \in Heard /\ op.answer.body \in stamped \cup {Page, None}
  /\ op.at = "responded" =>
       LET r == [nonce |-> op.nonce, body |-> op.answer.body, state |-> op.answer.state]
       IN  Of(responses, op.nonce) = IF op.answer.body = None THEN {} ELSE {r}
  /\ op.at = "finishing" => Of(results, op.nonce) # {}
  /\ op.at = "recording" =>
       /\ Verified(op.nonce) \in verdicts
       /\ op.row >= 1 /\ \A r \in 1..(op.row - 1) : Entry(op.nonce, r) \in records

Inv == TypeOK /\ References /\ Attempted /\ Retained /\ Told /\ OpFits

-----------------------------------------------------------------------------
(* What the state is made of *)

\* The definite description of a set that is not empty is one of its members.
LEMMA TheIn == ASSUME NEW S, S # {} PROVE The(S) \in S
BY DEF The

\* Two members at most.
LEMMA Pairs ==
  /\ \A x : IsFiniteSet({x}) /\ Cardinality({x}) = 1
  /\ \A x, y : x # y => Cardinality({x, y}) = 2
<1>1. \A x : IsFiniteSet({x}) /\ Cardinality({x}) = 1
  BY FS_Singleton
<1>2. ASSUME NEW x, NEW y, x # y PROVE Cardinality({x, y}) = 2
  <2>1. {x} \cup {y} = {x, y} /\ y \notin {x}
    BY <1>2
  <2>2. Cardinality({x} \cup {y}) = Cardinality({x}) + 1
    BY <1>1, <2>1, FS_AddElement
  <2> QED BY <1>1, <2>1, <2>2
<1> QED BY <1>1, <1>2

\* Members that are all the same are one at most.
LEMMA AtMostOne ==
  ASSUME NEW S, \A x, y \in S : x = y
  PROVE  Cardinality(S) <= 1
<1>1. CASE S = {}
  BY <1>1, FS_EmptySet
<1>2. CASE S # {}
  <2>1. PICK x \in S : S = {x}
    BY <1>2
  <2> QED BY <2>1, FS_Singleton
<1> QED BY <1>1, <1>2

\* One attempt, and it is the normal one, or none or two.
LEMMA CountAttempts ==
  ASSUME Attempted
  PROVE  /\ attempts = {} => Cardinality(attempts) = 0
         /\ \A a : Alone(a) => Cardinality(attempts) = 1
         /\ \A a, b : Follows(a, b) => Cardinality(attempts) = 2
         /\ Cardinality(attempts) = 1 => \E a : Alone(a)
<1>1. attempts = {} => Cardinality(attempts) = 0
  BY FS_EmptySet
<1>2. \A a : Alone(a) => Cardinality(attempts) = 1
  BY Pairs DEF Alone
<1>4. ASSUME NEW a, NEW b, Follows(a, b) PROVE Cardinality(attempts) = 2
  <2>1. a # b /\ attempts = {a, b}
    BY <1>4 DEF Follows
  <2>2. Cardinality({a, b}) = 2
    BY <2>1, Pairs
  <2> QED BY <2>1, <2>2
<1>5. Cardinality(attempts) = 1 => \E a : Alone(a)
  <2>1. attempts = {} \/ (\E a : Alone(a)) \/ (\E a, b : Follows(a, b))
    BY DEF Attempted
  <2>2. CASE \E a, b : Follows(a, b)
    BY <1>4, <2>2
  <2> QED BY <1>1, <2>1, <2>2
<1> QED BY <1>1, <1>2, <1>4, <1>5

LEMMA IdleTyped == Idle \in Ops /\ Idle.at = "idle"
BY DEF Idle, Ops, Points

THEOREM InitInv == Init => Inv
<1> SUFFICES ASSUME Init PROVE Inv
  OBVIOUS
<1>1. IsFiniteSet(requests)
  BY FS_EmptySet DEF Init
<1>2. sent \in [Nonces -> Nat] /\ \A n \in Nonces : sent[n] = 0
  BY DEF Init
<1>3. TypeOK
  BY <1>1, <1>2, IdleTyped DEF Init, TypeOK
<1>4. References
  BY <1>2 DEF Init, References
<1>5. Attempted /\ Retained /\ Told
  BY DEF Init, Attempted, Retained, Told
<1>6. OpFits
  BY IdleTyped DEF Init, OpFits, Driven
<1> QED BY <1>3, <1>4, <1>5, <1>6 DEF Inv

\* Where a call ends nothing has to be said of it.
LEMMA Stops == ASSUME Stop PROVE op' \in Ops /\ OpFits'
BY IdleTyped DEF Stop, OpFits, Driven

\* A step that only moves the call.
LEMMA OnlyOp ==
  ASSUME Inv, UNCHANGED <<world, stage, asked, heard, told>>, op' \in Ops, OpFits'
  PROVE  Inv'
<1>1. TypeOK'
  BY DEF Inv, TypeOK, world, stage, asked, heard, told
<1>2. References'
  BY DEF Inv, References, Of, world, asked, heard
<1>3. Attempted'
  BY DEF Inv, Attempted, Alone, Follows, Of, asked, heard
<1>4. Retained'
  BY DEF Inv, Retained, world, heard, Page
<1>5. Told'
  BY DEF Inv, Told, heard, told, Good, Verified, Entry, Rows
<1> QED BY <1>1, <1>2, <1>3, <1>4, <1>5 DEF Inv

\* A drive that ends INCOMPLETE knows its attempt.
LEMMA IncompleteFits ==
  ASSUME op \in Ops, Incomplete, Of(attempts', op.nonce) # {}
  PROVE  op' \in Ops /\ OpFits'
<1>1. CASE op.retry
  <2>1. op' = [op EXCEPT !.at = "retrying"]
    BY <1>1 DEF Incomplete, Goto
  <2>2. op' \in Ops /\ op'.at = "retrying" /\ op'.nonce = op.nonce
    BY <2>1 DEF Ops, Points
  <2> QED BY <2>2 DEF OpFits, Driven, Of
<1>2. CASE ~op.retry
  BY <1>2, Stops DEF Incomplete
<1> QED BY <1>1, <1>2

-----------------------------------------------------------------------------
(* The calls, and where enroll_fixture goes on *)

\* Only an attempt that has a result is replayed.
LEMMA ReplayFits ==
  ASSUME Inv, NEW n \in Nat, op' = Replaying(n), UNCHANGED <<attempts, results>>
  PROVE  op' \in Ops /\ OpFits'
<1>1. CASE op' = Idle
  BY <1>1, Stops DEF Stop
<1>2. CASE op' # Idle
  <2>1. /\ op' = [Idle EXCEPT !.at = "finishing", !.nonce = n, !.replay = TRUE]
        /\ Of(results, n) # {}
    BY <1>2 DEF Replaying
  <2>2. op' \in Ops /\ op'.at = "finishing" /\ op'.nonce = n
    BY <2>1, IdleTyped DEF Ops, Points
  <2>3. Of(attempts, n) # {}
    BY <2>1 DEF Inv, References, Of
  <2> QED BY <2>1, <2>2, <2>3 DEF OpFits, Driven, Of
<1> QED BY <1>1, <1>2

\* Nonces are numbers.
LEMMA ReceiptsTyped == ASSUME Inv, NEW n \in receipts PROVE n \in Nat
<1>1. Verified(n) \in [nonce : Nat, failed : SUBSET {"answer", "check"}]
  BY DEF Inv, Told, TypeOK
<1> QED BY <1>1 DEF Verified

LEMMA CallsKeep ==
  ASSUME Inv,
         \/ CallEnroll
         \/ \E a \in attempts, retry \in BOOLEAN : CallResume(a, retry)
         \/ \E n \in receipts : CallReplay(n)
  PROVE  Inv'
<1>1. CASE CallEnroll
  <2>1. op' \in Ops /\ op'.at = "staging"
    BY <1>1 DEF CallEnroll, Called, Idle, Ops, Points
  <2>2. OpFits'
    BY <2>1 DEF OpFits, Driven
  <2> QED BY <1>1, <2>1, <2>2, OnlyOp DEF CallEnroll, Called
<1>2. ASSUME NEW a \in attempts, NEW retry \in BOOLEAN, CallResume(a, retry) PROVE Inv'
  <2>1. a.nonce \in Nat
    BY DEF Inv, TypeOK, Nonces
  <2>2. op' = [Idle EXCEPT !.at = "driving", !.nonce = a.nonce, !.retry = retry]
    BY <1>2 DEF CallResume, Called
  <2>3. op' \in Ops /\ op'.at = "driving" /\ op'.nonce = a.nonce /\ op'.send = FALSE
    BY <2>1, <2>2 DEF Idle, Ops, Points
  <2>4. UNCHANGED <<world, stage, asked, heard, told>>
    BY <1>2 DEF CallResume, Called
  <2>5. OpFits'
    BY <2>3, <2>4 DEF OpFits, Driven, Of, asked
  <2> QED BY <2>3, <2>4, <2>5, OnlyOp
<1>3. ASSUME NEW n \in receipts, CallReplay(n) PROVE Inv'
  <2>1. UNCHANGED <<world, stage, asked, heard, told>> /\ op' = Replaying(n)
    BY <1>3 DEF CallReplay, Called
  <2>2. op' \in Ops /\ OpFits'
    BY <2>1, ReplayFits, ReceiptsTyped DEF asked, heard
  <2> QED BY <2>1, <2>2, OnlyOp
<1> QED BY <1>1, <1>2, <1>3

\* Publishing rows and the batch.
LEMMA StagingKeeps ==
  ASSUME Inv, (\E r \in Rows : StageRow(r)) \/ StageBatch
  PROVE  Inv'
<1>1. UNCHANGED <<world, asked, heard, told>>
  BY DEF StageRow, StageBatch, world, asked, heard, told
<1>2. /\ op' \in Ops /\ op'.at \in {"staging", "staged"}
      /\ staged' \subseteq Rows /\ (batch' => staged' = Rows)
  BY DEF Inv, TypeOK, StageRow, StageBatch, Goto, Ops, Points
<1>3. OpFits'
  BY <1>2 DEF OpFits, Driven
<1>4. TypeOK'
  BY <1>1, <1>2 DEF Inv, TypeOK, world, asked, heard, told
<1>5. References'
  BY <1>1 DEF Inv, References, Of, world, asked, heard
<1>6. Attempted'
  BY <1>1 DEF Inv, Attempted, Alone, Follows, Of, asked, heard
<1>7. Retained'
  BY <1>1 DEF Inv, Retained, world, heard, Page
<1>8. Told'
  BY <1>1 DEF Inv, Told, heard, told, Good, Verified, Entry, Rows
<1> QED BY <1>3, <1>4, <1>5, <1>6, <1>7, <1>8 DEF Inv

\* An attempt that is found is driven without sending.
LEMMA FindEnrolledKeeps == ASSUME Inv, FindEnrolled PROVE Inv'
<1>1. UNCHANGED <<world, stage, asked, heard, told>>
  BY DEF FindEnrolled
<1>2. CASE receipts # {} /\ Cardinality(receipts) = 1
  <2>1. The(receipts) \in Nat /\ op' = Replaying(The(receipts))
    BY <1>2, TheIn, ReceiptsTyped DEF FindEnrolled
  <2>2. op' \in Ops /\ OpFits'
    BY <1>1, <2>1, ReplayFits DEF asked, heard
  <2> QED BY <1>1, <2>2, OnlyOp
<1>3. CASE receipts = {} /\ Cardinality(attempts) = 1
  <2> DEFINE a == The(attempts)
  <2>1. a \in attempts
    BY <1>3, TheIn DEF FindEnrolled
  <2>2. a.nonce \in Nat
    BY <2>1 DEF Inv, TypeOK, Nonces
  <2>3. op' = [op EXCEPT !.at = "driving", !.nonce = a.nonce, !.send = FALSE]
    BY <1>3 DEF FindEnrolled, MayResend
  <2> HIDE DEF a
  <2>4. op' \in Ops /\ op'.at = "driving" /\ op'.nonce = a.nonce /\ op'.send = FALSE
    BY <2>2, <2>3 DEF Inv, TypeOK, Ops, Points
  <2>5. OpFits'
    BY <1>1, <2>1, <2>4 DEF OpFits, Driven, Of, asked
  <2> QED BY <1>1, <2>4, <2>5, OnlyOp
<1>4. CASE Stop
  BY <1>1, <1>4, Stops, OnlyOp
<1> QED BY <1>2, <1>3, <1>4 DEF FindEnrolled, Stop

-----------------------------------------------------------------------------
(* A new attempt *)

\* The first attempt is made for the request of a call that died, which was not sent.
LEMMA AdoptRequestKeeps == ASSUME Inv, AdoptRequest PROVE Inv'
<1>1. UNCHANGED <<world, stage, trusts, requests, heard, told>>
  BY DEF AdoptRequest
<1>2. CASE Cardinality(Unattached) # 1
  <2>1. Stop /\ UNCHANGED <<world, stage, asked, heard, told>>
    BY <1>2 DEF AdoptRequest, asked
  <2> QED BY <2>1, Stops, OnlyOp
<1>3. CASE Cardinality(Unattached) = 1
  <2> DEFINE q == The(Unattached)
             a == [nonce |-> q.nonce, number |-> 1]
  <2>1. q \in requests /\ attempts = {}
    BY TheIn DEF AdoptRequest, Unattached
  <2>2. attempts' = {a} /\ op' = [op EXCEPT !.at = "driving", !.nonce = q.nonce, !.send = TRUE]
    BY <1>3 DEF AdoptRequest
  <2>3. q.nonce \in Nonces /\ q.nonce \in Nat /\ Of(requests, q.nonce) # {}
    BY <2>1 DEF Inv, TypeOK, Of, Nonces
  <2>4. a \in [nonce : Nonces, number : Nat] /\ a.nonce = q.nonce /\ a.number = 1
    BY <2>3
  <2>5. responses = {} /\ results = {} /\ \A n \in Nonces : sent[n] = 0
    BY <2>1 DEF Inv, TypeOK, References, Of
  <2> HIDE DEF a, q
  <2>6. op' \in Ops /\ op'.at = "driving" /\ op'.nonce = q.nonce
    BY <2>2, <2>3 DEF Inv, TypeOK, Ops, Points
  <2>7. TypeOK'
    BY <1>1, <2>2, <2>4, <2>6 DEF Inv, TypeOK, world, stage, told
  <2>8. References'
    BY <1>1, <2>2, <2>3, <2>4, <2>5 DEF Inv, References, Of, world, heard
  <2>9. Attempted'
    BY <2>2, <2>4 DEF Attempted, Alone
  <2>10. Retained'
    BY <1>1 DEF Inv, Retained, world, heard, Page
  <2>11. Told'
    BY <1>1 DEF Inv, Told, heard, told, Good, Verified, Entry, Rows
  <2>12. OpFits'
    BY <1>1, <2>2, <2>3, <2>4, <2>5, <2>6 DEF OpFits, Driven, Of, world
  <2> QED BY <2>7, <2>8, <2>9, <2>10, <2>11, <2>12 DEF Inv
<1> QED BY <1>2, <1>3

\* The metadata kept for the new attempt is none older than what there was.
LEMMA RefreshTrustKeeps == ASSUME Inv, NEW v \in 1..tuf, RefreshTrust(v) PROVE Inv'
<1>1. UNCHANGED <<world, stage, requests, attempts, heard, told>> /\ trusts' = trusts \cup {v}
  BY DEF RefreshTrust
<1>2. /\ op' \in Ops /\ op'.at = "trusted" /\ op'.trust = v
      /\ op'.number = IF op.at = "staged" THEN 1 ELSE 2
  <2>1. v \in Nat /\ op \in Ops
    BY DEF Inv, TypeOK
  <2> QED BY <2>1 DEF RefreshTrust, Ops, Points
<1>3. TypeOK'
  BY <1>1, <1>2 DEF Inv, TypeOK, world, stage, told
<1>4. References'
  BY <1>1 DEF Inv, References, Of, world, heard
<1>5. Attempted'
  BY <1>1 DEF Inv, Attempted, Alone, Follows, Of, heard
<1>6. Retained'
  BY <1>1 DEF Inv, Retained, world, heard, Page
<1>7. Told'
  BY <1>1 DEF Inv, Told, heard, told, Good, Verified, Entry, Rows
<1>8. v \in Nat /\ \A t \in trusts' : t <= v
  BY <1>1 DEF RefreshTrust, Inv, TypeOK
<1>9. \/ op'.number = 1 /\ attempts = {} /\ requests = {}
      \/ op'.number = 2 /\ \E a : Alone(a) /\ Of(results, a.nonce) # {}
  <2>1. CASE IsNew
    BY <1>2, <2>1 DEF IsNew, Unattached, Of
  <2>2. CASE MayRetry
    <3>1. op.at = "retrying" /\ Of(results, op.nonce) # {} /\ Of(attempts, op.nonce) # {}
      BY <2>2 DEF MayRetry, Inv, OpFits, Driven
    <3>2. PICK a : Alone(a)
      BY <2>2, CountAttempts DEF MayRetry, Inv
    <3>3. a.nonce = op.nonce
      BY <3>1, <3>2 DEF Alone, Of
    <3> QED BY <1>2, <3>1, <3>2, <3>3
  <2> QED BY <2>1, <2>2 DEF RefreshTrust
<1>10. OpFits'
  BY <1>1, <1>2, <1>8, <1>9 DEF OpFits, Driven, Of, Alone, heard
<1> QED BY <1>3, <1>4, <1>5, <1>6, <1>7, <1>10 DEF Inv

\* A request has a nonce of its own.
LEMMA RetainRequestKeeps == ASSUME Inv, RetainRequest PROVE Inv'
<1> DEFINE n == Cardinality(requests) + 1
           q == [nonce |-> n, trust |-> op.trust]
<1>1. UNCHANGED <<world, stage, trusts, attempts, heard, told>>
  BY DEF RetainRequest
<1>2. /\ op.at = "trusted" /\ n \in Nonces /\ requests' = requests \cup {q}
      /\ op' = [op EXCEPT !.at = "requested", !.nonce = n]
  BY DEF RetainRequest
<1>3. Cardinality(requests) \in Nat /\ n \in Nat
  BY FS_CardinalityType DEF Inv, TypeOK
<1>4. q \notin requests
  BY <1>3 DEF Inv, References
<1>5. IsFiniteSet(requests') /\ Cardinality(requests') = n
  BY <1>2, <1>4, FS_AddElement DEF Inv, TypeOK
<1>6. op.trust \in trusts /\ (\A t \in trusts : t <= op.trust) /\ op.trust \in Nat
  BY <1>2 DEF Inv, OpFits, TypeOK
<1>7. q \in [nonce : Nonces, trust : trusts] /\ q.nonce = n /\ q.trust = op.trust
  BY <1>2, <1>6
<1>8. Of(attempts, n) = {}
  BY <1>3 DEF Inv, References, Of
<1> HIDE DEF n, q
<1>9. op' \in Ops /\ op'.at = "requested" /\ op'.nonce = n /\ op'.number = op.number
      /\ op'.trust = op.trust
  BY <1>2, <1>3 DEF Inv, TypeOK, Ops, Points
<1>10. TypeOK'
  BY <1>1, <1>2, <1>5, <1>7, <1>9 DEF Inv, TypeOK, world, stage, told
<1>11. References'
  <2>1. \A p \in requests : p.nonce \in 1..Cardinality(requests) /\ p.nonce < n /\ p.trust <= op.trust
    <3> SUFFICES ASSUME NEW p \in requests
                 PROVE  p.nonce \in 1..Cardinality(requests) /\ p.nonce < n /\ p.trust <= op.trust
      OBVIOUS
    <3>1. p.nonce \in 1..Cardinality(requests)
      BY DEF Inv, References
    <3>2. p.trust \in trusts
      BY DEF Inv, TypeOK
    <3> QED BY <1>3, <1>6, <3>1, <3>2 DEF n
  <2>2. \A p \in requests' : p.nonce \in 1..Cardinality(requests')
    BY <1>2, <1>3, <1>5, <1>7, <2>1 DEF n
  <2>3. \A p, r \in requests' : p.nonce <= r.nonce => p.trust <= r.trust
    BY <1>2, <1>3, <1>6, <1>7, <2>1 DEF n, Inv, References
  <2>4. /\ \A a \in attempts' : Of(requests', a.nonce) # {}
        /\ \A r \in responses' \cup results' : Of(attempts', r.nonce) # {}
        /\ \A m \in Nonces : sent'[m] <= 1 /\ (sent'[m] > 0 => Of(attempts', m) # {})
    BY <1>1, <1>2 DEF Inv, References, Of, world, heard
  <2> QED BY <2>2, <2>3, <2>4 DEF References, Of
<1>12. Attempted'
  <2>1. attempts = {} => requests' = {q}
    BY <1>2 DEF Inv, OpFits
  <2> QED BY <1>1, <2>1 DEF Inv, Attempted, Alone, Follows, Of, heard
<1>13. Retained'
  BY <1>1 DEF Inv, Retained, world, heard, Page
<1>14. Told'
  BY <1>1 DEF Inv, Told, heard, told, Good, Verified, Entry, Rows
<1>15. OpFits'
  <2>1. \/ op.number = 1 /\ attempts = {}
        \/ op.number = 2 /\ \E a : Alone(a) /\ Of(results, a.nonce) # {}
    BY <1>2 DEF Inv, OpFits
  <2> QED BY <1>1, <1>2, <1>5, <1>6, <1>7, <1>8, <1>9, <2>1 DEF OpFits, Driven, Of, Alone, heard
<1> QED BY <1>10, <1>11, <1>12, <1>13, <1>14, <1>15 DEF Inv

\* What has a request and no attempt has been neither sent nor answered.
LEMMA RetainAttemptKeeps == ASSUME Inv, RetainAttempt PROVE Inv'
<1> DEFINE n == op.nonce
           a == [nonce |-> n, number |-> op.number]
<1>1. UNCHANGED <<world, stage, trusts, requests, heard, told>>
  BY DEF RetainAttempt
<1>2. /\ op.at = "requested" /\ attempts' = attempts \cup {a}
      /\ op' = [op EXCEPT !.at = "sending"]
  BY DEF RetainAttempt, Goto
<1>3. n = Cardinality(requests) /\ Of(requests, n) # {} /\ Of(attempts, n) = {}
  BY <1>2 DEF Inv, OpFits
<1>4. n \in Nonces /\ n \in Nat
  BY <1>3 DEF Inv, TypeOK, Of, Nonces
<1>5. a \in [nonce : Nonces, number : Nat] /\ a.nonce = n /\ a.number = op.number
  BY <1>4 DEF Inv, TypeOK, Ops
<1>6. \A b \in attempts : b.nonce < n
  <2> SUFFICES ASSUME NEW b \in attempts PROVE b.nonce < n
    OBVIOUS
  <2>1. PICK q \in requests : q.nonce = b.nonce
    BY DEF Inv, References, Of
  <2>2. q.nonce \in 1..n
    BY <1>3 DEF Inv, References
  <2>3. b.nonce # n
    BY <1>3 DEF Of
  <2> QED BY <1>4, <2>1, <2>2, <2>3
<1>7. \/ op.number = 1 /\ attempts = {}
      \/ op.number = 2 /\ \E b : Alone(b) /\ Of(results, b.nonce) # {}
  BY <1>2 DEF Inv, OpFits
<1>8. Of(responses, n) = {} /\ Of(results, n) = {} /\ sent[n] = 0
  <2>1. ~(sent[n] > 0) /\ sent[n] \in Nat
    BY <1>3, <1>4 DEF Inv, References, TypeOK
  <2>2. \A r \in responses \cup results : r.nonce # n
    BY <1>3 DEF Inv, References, Of
  <2> QED BY <2>1, <2>2 DEF Of
<1> HIDE DEF a, n
<1>9. op' \in Ops /\ op'.at = "sending" /\ op'.nonce = n
  BY <1>2 DEF n, Inv, TypeOK, Ops, Points
<1>10. TypeOK'
  BY <1>1, <1>2, <1>5, <1>9 DEF Inv, TypeOK, world, stage, told
<1>11. References'
  <2>1. \A b \in attempts' : Of(requests', b.nonce) # {}
    BY <1>1, <1>2, <1>3, <1>5 DEF Inv, References
  <2>2. \A r : Of(attempts, r) # {} => Of(attempts', r) # {}
    BY <1>2 DEF Of
  <2> QED BY <1>1, <2>1, <2>2 DEF Inv, References, Of, world, heard
<1>12. Attempted'
  <2>1. attempts' # {}
    BY <1>2
  <2>2. CASE op.number = 1 /\ attempts = {}
    BY <1>2, <1>5, <2>1, <2>2 DEF Attempted, Alone
  <2>3. CASE op.number = 2 /\ \E b : Alone(b) /\ Of(results, b.nonce) # {}
    <3>1. PICK b : Alone(b) /\ Of(results, b.nonce) # {}
      BY <2>3
    <3>2. attempts' = {b, a} /\ b \in attempts /\ b.number = 1
      BY <1>2, <3>1 DEF Alone
    <3>3. PICK x : x = a
      OBVIOUS
    <3>4. /\ attempts' = {b, x} /\ b.number = 1 /\ x.number = 2
          /\ b.nonce < x.nonce /\ Of(results', b.nonce) # {}
      BY <1>1, <1>5, <1>6, <2>3, <3>1, <3>2, <3>3 DEF heard
    <3>5. Follows(b, x)'
      BY <3>4 DEF Follows, Of
    <3> QED BY <2>1, <3>5 DEF Attempted
  <2> QED BY <1>7, <2>2, <2>3
<1>13. Retained'
  BY <1>1 DEF Inv, Retained, world, heard, Page
<1>14. Told'
  BY <1>1 DEF Inv, Told, heard, told, Good, Verified, Entry, Rows
<1>15. OpFits'
  <2>1. Of(attempts', n) # {}
    BY <1>2, <1>5 DEF Of
  <2> QED BY <1>1, <1>8, <1>9, <2>1 DEF OpFits, Driven, Of, heard, world
<1> QED BY <1>10, <1>11, <1>12, <1>13, <1>14, <1>15 DEF Inv

\* Refusals, and the ends of a call that leave everything as it is.
LEMMA RefusalsKeep == ASSUME Inv, NoAttempt \/ SendFails \/ Kill PROVE Inv'
<1>1. UNCHANGED <<world, stage, asked, heard, told>>
  BY DEF NoAttempt, SendFails, Kill
<1>2. CASE NoAttempt \/ Kill
  BY <1>1, <1>2, Stops, OnlyOp DEF NoAttempt, Kill
<1>3. CASE SendFails
  <2>1. Of(attempts, op.nonce) # {}
    BY <1>3 DEF SendFails, Inv, OpFits, Driven
  <2>2. op' \in Ops /\ OpFits'
    BY <1>1, <1>3, <2>1, IncompleteFits DEF SendFails, Inv, TypeOK, asked
  <2> QED BY <1>1, <2>2, OnlyOp
<1> QED BY <1>2, <1>3

-----------------------------------------------------------------------------
(* Sending, and what is retained of the answer *)

\* What the transport may bring has a body that was stamped, a page, or none.
LEMMA AnswersTyped ==
  ASSUME NEW S \in SUBSET Bodies, NEW a \in Answers(S)
  PROVE  a \in Heard /\ a.body \in S \cup {Page, None}
<1>1. Page \in Bodies
  BY DEF Page, Bodies
<1>2. PICK b \in S \cup {Page, None}, t \in States : a = Answer(b, t)
  BY DEF Answers, States
<1> QED BY <1>1, <1>2 DEF Answer, Heard

LEMMA SendKeeps == ASSUME Inv, Send PROVE Inv'
<1> DEFINE n == op.nonce
<1>1. UNCHANGED <<now, tuf, stage, asked, heard, told>> /\ op.at = "sending"
      /\ sent' = [sent EXCEPT ![n] = @ + 1]
  BY DEF Send
<1>2. Of(attempts, n) # {} /\ sent[n] = 0 /\ Of(responses, n) = {} /\ Of(results, n) = {}
  BY <1>1 DEF Inv, OpFits, Driven
<1>3. n \in Nonces
  BY <1>2 DEF Inv, TypeOK, Of
<1>4. stamped \subseteq stamped' /\ stamped' \subseteq Bodies
  <2>1. [nonce |-> op.nonce, time |-> now] \in Bodies
    BY DEF Inv, TypeOK, Ops, Bodies
  <2> QED BY <2>1 DEF Send, Inv, TypeOK
<1>5. PICK a \in Answers(stamped') : op' = [op EXCEPT !.at = "answered", !.answer = a]
  BY DEF Send
<1>6. a \in Heard /\ a.body \in stamped' \cup {Page, None}
  BY <1>4, AnswersTyped
<1> HIDE DEF n
<1>7. op' \in Ops /\ op'.at = "answered" /\ op'.nonce = n /\ op'.answer = a
  BY <1>5, <1>6 DEF n, Inv, TypeOK, Ops, Points
<1>8. sent' \in [Nonces -> Nat] /\ \A m \in Nonces : sent'[m] = IF m = n THEN 1 ELSE sent[m]
  BY <1>1, <1>2, <1>3 DEF Inv, TypeOK
<1>9. TypeOK'
  BY <1>1, <1>4, <1>7, <1>8 DEF Inv, TypeOK, stage, asked, told
<1>10. References'
  BY <1>1, <1>2, <1>8 DEF Inv, References, Of, asked, heard
<1>11. Attempted'
  BY <1>1 DEF Inv, Attempted, Alone, Follows, Of, asked, heard
<1>12. Retained'
  BY <1>1, <1>4 DEF Inv, Retained, heard, Page
<1>13. Told'
  BY <1>1 DEF Inv, Told, heard, told, Good, Verified, Entry, Rows
<1>14. OpFits'
  BY <1>1, <1>2, <1>6, <1>7 DEF OpFits, Driven, Of, asked, heard, Page
<1> QED BY <1>9, <1>10, <1>11, <1>12, <1>13, <1>14 DEF Inv

LEMMA RetainResponseKeeps == ASSUME Inv, RetainResponse PROVE Inv'
<1> DEFINE n == op.nonce
           r == [nonce |-> n, body |-> op.answer.body, state |-> op.answer.state]
<1>1. UNCHANGED <<world, stage, asked, results, told>> /\ op.at = "answered"
  BY DEF RetainResponse
<1>2. /\ Of(attempts, n) # {} /\ Of(responses, n) = {} /\ Of(results, n) = {}
      /\ op.answer \in Heard /\ op.answer.body \in stamped \cup {Page, None}
  BY <1>1 DEF Inv, OpFits, Driven
<1>3. CASE Stop /\ UNCHANGED responses
  BY <1>1, <1>3, Stops, OnlyOp DEF heard
<1>4. CASE /\ op' = [op EXCEPT !.at = "responded"]
           /\ responses' = IF r.body = None THEN responses ELSE responses \cup {r}
  <2>1. /\ op' \in Ops /\ op'.at = "responded" /\ op'.nonce = n /\ op'.answer = op.answer
    BY <1>4 DEF Inv, TypeOK, Ops, Points
  <2>2. r.nonce = n /\ r.body = op.answer.body
    OBVIOUS
  <2>3. Of(responses', n) = IF op.answer.body = None THEN {} ELSE {r}
    BY <1>2, <1>4, <2>2 DEF Of
  <2>4. OpFits'
    BY <1>1, <1>2, <2>1, <2>3 DEF OpFits, Driven, Of, asked, world, Page
  <2> HIDE DEF n, r
  <2>5. TypeOK'
    BY <1>1, <2>1 DEF Inv, TypeOK, world, stage, asked, told
  <2>6. References'
    BY <1>1, <1>2, <1>4, <2>2 DEF Inv, References, Of, world, asked
  <2>7. Attempted'
    BY <1>1 DEF Inv, Attempted, Alone, Follows, Of, asked
  <2>8. Retained'
    <3>1. \A s \in responses \cup results : s.nonce # n
      BY <1>2 DEF Of
    <3> QED BY <1>1, <1>2, <1>4, <2>2, <3>1 DEF Inv, Retained, world, Page
  <2>9. Told'
    BY <1>1 DEF Inv, Told, told, Good, Verified, Entry, Rows
  <2> QED BY <2>4, <2>5, <2>6, <2>7, <2>8, <2>9 DEF Inv
<1>5. \/ Stop /\ UNCHANGED responses
      \/ /\ op' = [op EXCEPT !.at = "responded"]
         /\ responses' = IF r.body = None THEN responses ELSE responses \cup {r}
  BY DEF RetainResponse, Goto
<1> QED BY <1>3, <1>4, <1>5

\* A result repeats the response, or says that there is none.
LEMMA ResultFits ==
  ASSUME Inv, NEW r, results' = results \cup {r},
         UNCHANGED <<world, stage, asked, responses, told>>,
         Of(attempts, r.nonce) # {}, Of(results, r.nonce) = {},
         r.body \in stamped \cup {Page, None}, r.body # None => r \in responses,
         \A s \in responses : s.nonce = r.nonce => s = r,
         op' \in Ops, OpFits'
  PROVE  Inv'
<1>1. TypeOK'
  BY DEF Inv, TypeOK, world, stage, asked, told
<1>2. References'
  BY DEF Inv, References, Of, world, asked
<1>3. Attempted'
  BY DEF Inv, Attempted, Alone, Follows, Of, asked
<1>4. Retained'
  BY DEF Inv, Retained, world, Page, Of
<1>5. Told'
  BY DEF Inv, Told, told, Good, Verified, Entry, Rows
<1> QED BY <1>1, <1>2, <1>3, <1>4, <1>5 DEF Inv

LEMMA RetainResultKeeps == ASSUME Inv, RetainResult PROVE Inv'
<1> DEFINE n == op.nonce
           r == [nonce |-> n, body |-> op.answer.body, state |-> op.answer.state]
<1>1. UNCHANGED <<world, stage, asked, responses, told>> /\ op.at = "responded"
      /\ results' = results \cup {r} /\ op' = [op EXCEPT !.at = "finishing"]
  BY DEF RetainResult, Goto
<1>2. /\ Of(attempts, n) # {} /\ Of(results, n) = {}
      /\ op.answer.body \in stamped \cup {Page, None}
      /\ Of(responses, n) = IF op.answer.body = None THEN {} ELSE {r}
  BY <1>1 DEF Inv, OpFits, Driven
<1>3. r.nonce = n /\ r.body = op.answer.body
  OBVIOUS
<1>4. op' \in Ops /\ op'.at = "finishing" /\ op'.nonce = n
  BY <1>1 DEF Inv, TypeOK, Ops, Points
<1> HIDE DEF n, r
<1>5. OpFits'
  BY <1>1, <1>2, <1>3, <1>4 DEF OpFits, Driven, Of, asked
<1>6. (r.body # None => r \in responses) /\ \A s \in responses : s.nonce = n => s = r
  BY <1>2, <1>3 DEF Of
<1> QED BY <1>1, <1>2, <1>3, <1>4, <1>5, <1>6, ResultFits

\* A drive sends only an adopted request, of which nothing is retained.
LEMMA DriveKeeps == ASSUME Inv, Drive PROVE Inv'
<1> DEFINE n == op.nonce
<1>1. UNCHANGED <<world, stage, asked, responses, told>> /\ op.at = "driving"
  BY DEF Drive
<1>2. Of(attempts, n) # {} /\ (op.send => sent[n] = 0)
  BY <1>1 DEF Inv, OpFits, Driven
<1>3. CASE Of(results, n) # {} /\ Goto("finishing") /\ UNCHANGED results
  <2>1. op' \in Ops /\ op'.at = "finishing" /\ op'.nonce = n
    BY <1>3 DEF Goto, Inv, TypeOK, Ops, Points
  <2>2. OpFits'
    BY <1>1, <1>2, <1>3, <2>1 DEF OpFits, Driven, Of, asked
  <2> QED BY <1>1, <1>3, <2>1, <2>2, OnlyOp DEF heard
<1>4. CASE /\ Of(results, n) = {} /\ Of(responses, n) = {} /\ op.send
           /\ Goto("sending") /\ UNCHANGED results
  <2>1. op' \in Ops /\ op'.at = "sending" /\ op'.nonce = n
    BY <1>4 DEF Goto, Inv, TypeOK, Ops, Points
  <2>2. OpFits'
    BY <1>1, <1>2, <1>4, <2>1 DEF OpFits, Driven, Of, asked, world
  <2> QED BY <1>1, <1>4, <2>1, <2>2, OnlyOp DEF heard
<1>5. CASE Of(results, n) = {} /\ results' = results \cup {Rebuilt(n)} /\ Goto("finishing")
  <2> DEFINE r == Rebuilt(n)
  <2>1. op' \in Ops /\ op'.at = "finishing" /\ op'.nonce = n
    BY <1>5 DEF Goto, Inv, TypeOK, Ops, Points
  <2>2. /\ r.nonce = n /\ r.body \in stamped \cup {Page, None}
        /\ r.body # None => r \in responses
        /\ \A s \in responses : s.nonce = n => s = r
    <3>1. CASE Of(responses, n) # {}
      <4>1. r \in responses /\ r.nonce = n
        BY <3>1, TheIn DEF Rebuilt, Of
      <4> HIDE DEF r
      <4> QED BY <4>1 DEF Inv, Retained
    <3>2. CASE Of(responses, n) = {}
      <4>1. r = Unsent(n)
        BY <3>2 DEF Rebuilt
      <4> HIDE DEF r
      <4> QED BY <3>2, <4>1 DEF Unsent, Of
    <3> QED BY <3>1, <3>2
  <2> HIDE DEF n, r
  <2>3. results' = results \cup {r}
    BY <1>5 DEF r
  <2>4. OpFits'
    BY <1>1, <1>2, <2>1, <2>2, <2>3 DEF OpFits, Driven, Of, asked
  <2> QED BY <1>1, <1>2, <1>5, <2>1, <2>2, <2>3, <2>4, ResultFits
<1> QED BY <1>3, <1>4, <1>5 DEF Drive

-----------------------------------------------------------------------------
(* Verification, records and receipt *)

\* A verdict that is published is the only one, and a good one has its result.
LEMMA VerifyKeeps ==
  ASSUME Inv, NEW failed \in SUBSET {"answer", "check"}, op.at = "finishing",
         Verify(op.nonce, failed), UNCHANGED <<world, stage, asked, heard, records, receipts>>,
         failed = {} => \E r \in results : r.nonce = op.nonce /\ Good(r) /\ r.body # None
  PROVE  Inv'
<1> DEFINE n == op.nonce
           v == [nonce |-> n, failed |-> failed]
<1>1. Of(attempts, n) # {} /\ n \in Nat /\ op \in Ops
  BY DEF Inv, OpFits, Driven, TypeOK, Ops
<1>2. v \in [nonce : Nat, failed : SUBSET {"answer", "check"}] /\ v.nonce = n /\ v.failed = failed
  BY <1>1
<1>3. CASE Stop /\ UNCHANGED verdicts
  BY <1>3, Stops, OnlyOp DEF told
<1>4. CASE /\ Of(verdicts, n) \ {v} = {} /\ verdicts' = verdicts \cup {v}
           /\ IF failed = {} THEN op' = [op EXCEPT !.at = "recording", !.row = 1] ELSE Incomplete
  <2>1. op' \in Ops /\ OpFits'
    <3>1. CASE failed = {}
      <4> HIDE DEF v
      <4>1. op' \in Ops /\ op'.at = "recording" /\ op'.row = 1 /\ op'.nonce = n
        <5>1. op' = [op EXCEPT !.at = "recording", !.row = 1]
          BY <1>4, <3>1
        <5> QED BY <1>1, <5>1 DEF Ops, Points
      <4> USE DEF v
      <4>2. Verified(n) \in verdicts'
        BY <1>4, <3>1 DEF Verified
      <4> QED BY <1>1, <4>1, <4>2 DEF OpFits, Driven, Of, asked
    <3>2. CASE failed # {}
      BY <1>1, <1>4, <3>2, IncompleteFits DEF asked
    <3> QED BY <3>1, <3>2
  <2> HIDE DEF v
  <2>2. TypeOK'
    BY <1>2, <1>4, <2>1 DEF Inv, TypeOK, world, stage, asked
  <2>3. References'
    BY DEF Inv, References, Of, world, asked, heard
  <2>4. Attempted'
    BY DEF Inv, Attempted, Alone, Follows, Of, asked, heard
  <2>5. Retained'
    BY DEF Inv, Retained, world, heard, Page
  <2>6. Told'
    <3>1. \A w, x \in verdicts' : w.nonce = x.nonce => w = x
      BY <1>2, <1>4 DEF Inv, Told, Of
    <3>2. \A w \in verdicts' : w.failed = {} =>
            \E r \in results : r.nonce = w.nonce /\ Good(r) /\ r.body # None
      BY <1>2, <1>4 DEF Inv, Told
    <3> QED BY <1>4, <3>1, <3>2 DEF Inv, Told, heard, Good, Verified, Entry, Rows
  <2> QED BY <2>1, <2>2, <2>3, <2>4, <2>5, <2>6 DEF Inv
<1>5. \/ Stop /\ UNCHANGED verdicts
      \/ /\ Of(verdicts, n) \ {v} = {} /\ verdicts' = verdicts \cup {v}
         /\ IF failed = {} THEN op' = [op EXCEPT !.at = "recording", !.row = 1] ELSE Incomplete
  BY DEF Verify
<1> QED BY <1>3, <1>4, <1>5

LEMMA FinishKeeps == ASSUME Inv, Finish PROVE Inv'
<1> DEFINE r == The(Of(results, op.nonce))
<1>1. op.at = "finishing" /\ UNCHANGED <<world, stage, asked, heard, records, receipts>>
  BY DEF Finish
<1>2. Of(results, op.nonce) # {} /\ Of(attempts, op.nonce) # {} /\ op \in Ops
  BY <1>1 DEF Inv, OpFits, Driven, TypeOK
<1>3. r \in results /\ r.nonce = op.nonce
  BY <1>2, TheIn DEF Of
<1>4. CASE Incomplete /\ UNCHANGED verdicts
  BY <1>1, <1>2, <1>4, IncompleteFits, OnlyOp DEF asked, told
<1>5. CASE Answered(r) /\ Verify(op.nonce, Failed(r))
  <2>1. Failed(r) \in SUBSET {"answer", "check"} /\ (Failed(r) = {} => Good(r)) /\ r.body # None
    BY <1>5 DEF Failed, Answered
  <2> HIDE DEF r
  <2>2. PICK failed : failed = Failed(r)
    OBVIOUS
  <2> QED BY <1>1, <1>3, <1>5, <2>1, <2>2, VerifyKeeps
<1>6. CASE Verify(op.nonce, Failed(r) \cup {"check"})
  <2>1. /\ Failed(r) \cup {"check"} \in SUBSET {"answer", "check"}
        /\ Failed(r) \cup {"check"} # {}
    BY DEF Failed
  <2> HIDE DEF r
  <2>2. PICK failed : failed = Failed(r) \cup {"check"}
    OBVIOUS
  <2> QED BY <1>1, <1>6, <2>1, <2>2, VerifyKeeps
<1> QED BY <1>4, <1>5, <1>6 DEF Finish

\* The records of the rows before the current one are there.
LEMMA PublishRecordKeeps == ASSUME Inv, PublishRecord PROVE Inv'
<1> DEFINE n == op.nonce
           e == [nonce |-> n, row |-> op.row]
<1>1. /\ UNCHANGED <<world, stage, asked, heard, verdicts, receipts>>
      /\ op.at = "recording" /\ op.row \in Rows /\ records' = records \cup {e}
  BY DEF PublishRecord
<1>2. /\ Of(attempts, n) # {} /\ Verified(n) \in verdicts
      /\ op.row >= 1 /\ \A r \in 1..(op.row - 1) : Entry(n, r) \in records
  BY <1>1 DEF Inv, OpFits, Driven
<1>3. op \in Ops /\ op.row \in Nat /\ n \in Nat
  BY DEF Inv, TypeOK, Ops
<1>4. e \in [nonce : Nat, row : Rows] /\ e.nonce = n /\ e = Entry(n, op.row)
  BY <1>1, <1>3 DEF Entry
<1>5. op' \in Ops /\ OpFits'
  <2>1. CASE Stop
    BY <2>1, Stops
  <2>2. CASE op' = [op EXCEPT !.row = @ + 1]
    <3>1. op' \in Ops /\ op'.at = "recording" /\ op'.row = op.row + 1 /\ op'.nonce = n
      BY <1>1, <1>3, <2>2 DEF Ops
    <3>2. \A r \in 1..(op'.row - 1) : Entry(n, r) \in records'
      <4> SUFFICES ASSUME NEW r \in 1..(op'.row - 1) PROVE Entry(n, r) \in records'
        OBVIOUS
      <4>1. r \in 1..(op.row - 1) \/ r = op.row
        BY <1>3, <3>1
      <4> QED BY <1>1, <1>2, <1>4, <4>1
    <3> QED BY <1>1, <1>2, <1>3, <3>1, <3>2 DEF OpFits, Driven, Of, asked
  <2> QED BY <2>1, <2>2 DEF PublishRecord
<1> HIDE DEF e, n
<1>6. TypeOK'
  BY <1>1, <1>4, <1>5 DEF Inv, TypeOK, world, stage, asked
<1>7. References'
  BY <1>1 DEF Inv, References, Of, world, asked, heard
<1>8. Attempted'
  BY <1>1 DEF Inv, Attempted, Alone, Follows, Of, asked, heard
<1>9. Retained'
  BY <1>1 DEF Inv, Retained, world, heard, Page
<1>10. Told'
  BY <1>1, <1>2, <1>4 DEF Inv, Told, heard, Good, Verified, Rows
<1> QED BY <1>5, <1>6, <1>7, <1>8, <1>9, <1>10 DEF Inv

\* The receipt is the only one, and its records are complete.
LEMMA PublishReceiptKeeps == ASSUME Inv, PublishReceipt PROVE Inv'
<1>1. /\ UNCHANGED <<world, stage, asked, heard, verdicts, records>>
      /\ op.at = "recording" /\ op.row = NumRows + 1 /\ Stop
      /\ receipts' = IF receipts \ {op.nonce} = {} THEN receipts \cup {op.nonce} ELSE receipts
  BY DEF PublishReceipt, ReceiptRow
<1>2. op' \in Ops /\ OpFits'
  BY <1>1, Stops
<1>3. /\ Verified(op.nonce) \in verdicts
      /\ \A r \in Rows : Entry(op.nonce, r) \in records
  BY <1>1, EnrolmentAssumption DEF Inv, OpFits, Rows
<1>4. TypeOK'
  BY <1>1, <1>2 DEF Inv, TypeOK, world, stage, asked
<1>5. References'
  BY <1>1 DEF Inv, References, Of, world, asked, heard
<1>6. Attempted'
  BY <1>1 DEF Inv, Attempted, Alone, Follows, Of, asked, heard
<1>7. Retained'
  BY <1>1 DEF Inv, Retained, world, heard, Page
<1>8. Told'
  <2>1. receipts' = {} \/ \E n : receipts' = {n}
    BY <1>1 DEF Inv, Told
  <2>2. \A n \in receipts' : Verified(n) \in verdicts /\ \A r \in Rows : Entry(n, r) \in records
    BY <1>1, <1>3 DEF Inv, Told
  <2> QED BY <1>1, <2>1, <2>2 DEF Inv, Told, heard, Good, Verified, Entry, Rows
<1> QED BY <1>2, <1>4, <1>5, <1>6, <1>7, <1>8 DEF Inv

\* Time passes and metadata is renewed upstream.
LEMMA WorldKeeps == ASSUME Inv, Tick \/ AdvanceTuf PROVE Inv'
<1>1. UNCHANGED <<stamped, sent, stage, asked, heard, told, op>>
  BY DEF Tick, AdvanceTuf
<1>2. TypeOK'
  BY <1>1 DEF Tick, AdvanceTuf, Inv, TypeOK, stage, asked, told
<1>3. References'
  BY <1>1 DEF Inv, References, Of, asked, heard
<1>4. Attempted'
  BY <1>1 DEF Inv, Attempted, Alone, Follows, Of, asked, heard
<1>5. Retained'
  BY <1>1 DEF Inv, Retained, heard, Page
<1>6. Told'
  BY <1>1 DEF Inv, Told, heard, told, Good, Verified, Entry, Rows
<1>7. OpFits'
  BY <1>1 DEF Inv, OpFits, Of, Alone, asked, heard, told, Verified, Entry, Page
<1> QED BY <1>2, <1>3, <1>4, <1>5, <1>6, <1>7 DEF Inv

-----------------------------------------------------------------------------
(* What follows *)

LEMMA NextInv == Inv /\ [Next]_vars => Inv'
<1> SUFFICES ASSUME Inv, [Next]_vars PROVE Inv'
  OBVIOUS
<1>1. CASE UNCHANGED vars
  <2>1. UNCHANGED <<world, stage, asked, heard, told>> /\ op' = op
    BY <1>1 DEF vars
  <2>2. op' \in Ops /\ OpFits'
    BY <2>1 DEF Inv, TypeOK, OpFits, Of, Alone, world, asked, heard, told, Verified, Entry, Page
  <2> QED BY <2>1, <2>2, OnlyOp
<1>2. CASE \/ CallEnroll
           \/ \E a \in attempts, retry \in BOOLEAN : CallResume(a, retry)
           \/ \E n \in receipts : CallReplay(n)
  BY <1>2, CallsKeep
<1>3. CASE (\E r \in Rows : StageRow(r)) \/ StageBatch
  BY <1>3, StagingKeeps
<1>4. CASE FindEnrolled \/ AdoptRequest \/ NoAttempt \/ SendFails \/ Kill
  BY <1>4, FindEnrolledKeeps, AdoptRequestKeeps, RefusalsKeep
<1>5. CASE (\E v \in 1..tuf : RefreshTrust(v)) \/ RetainRequest \/ RetainAttempt
  BY <1>5, RefreshTrustKeeps, RetainRequestKeeps, RetainAttemptKeeps
<1>6. CASE Send \/ RetainResponse \/ RetainResult \/ Drive
  BY <1>6, SendKeeps, RetainResponseKeeps, RetainResultKeeps, DriveKeeps
<1>7. CASE Finish \/ PublishRecord \/ PublishReceipt \/ Tick \/ AdvanceTuf
  BY <1>7, FinishKeeps, PublishRecordKeeps, PublishReceiptKeeps, WorldKeeps
<1> QED BY <1>1, <1>2, <1>3, <1>4, <1>5, <1>6, <1>7 DEF Next

THEOREM Invariance == Spec => []Inv
BY InitInv, NextInv, PTL DEF Spec

\* What is published was stamped in time, for the request of its own attempt: its
\* verified result has a body that the witness stamped, and no page has a nonce.
THEOREM InTime == Spec => []WitnessedInTime
<1>1. Inv => WitnessedInTime
  <2> SUFFICES ASSUME Inv, NEW n \in receipts
               PROVE  \E s \in stamped : s.nonce = n /\ Cutoff < s.time /\ s.time < Kickoff
    BY DEF WitnessedInTime
  <2>1. PICK r \in results : r.nonce = n /\ Good(r) /\ r.body # None
    BY DEF Inv, Told, Verified
  <2>2. r.body \in stamped \cup {Page}
    BY <2>1 DEF Inv, Retained
  <2>3. r.body # Page
    <3>1. PICK a \in attempts : a.nonce = n
      BY <2>1 DEF Inv, References, Of
    <3>2. n \in Nonces /\ n # 0
      BY <3>1 DEF Inv, TypeOK, Nonces
    <3> QED BY <2>1, <3>2 DEF Good, Page
  <2> QED BY <2>1, <2>2, <2>3 DEF Good
<1> QED BY <1>1, Invariance, PTL

\* No request leaves twice, none without its attempt, and the retry's only after the
\* normal attempt has its durable result.
THEOREM Budget == Spec => []RequestBudget
<1>1. Inv => RequestBudget
  <2> SUFFICES ASSUME Inv PROVE RequestBudget
    OBVIOUS
  <2>1. Cardinality(attempts) <= 2
    BY CountAttempts DEF Inv, Attempted
  <2>2. \A n \in Nonces : sent[n] <= 1 /\ (sent[n] = 1 => Of(attempts, n) # {})
    BY DEF Inv, References
  <2>3. \A a \in attempts : a.number = 2 =>
          \E b \in attempts : b.number = 1 /\ Of(results, b.nonce) # {}
    <3>1. CASE \E a : Alone(a)
      BY <3>1 DEF Alone
    <3>2. CASE \E a, b : Follows(a, b)
      BY <3>2 DEF Follows
    <3> QED BY <3>1, <3>2 DEF Inv, Attempted
  <2>4. \A n \in Nonces : sent[n] = 1 =>
          \E a \in Of(attempts, n) :
            a.number = 2 => \E b \in attempts : b.number = 1 /\ Of(results, b.nonce) # {}
    BY <2>2, <2>3 DEF Of
  <2> QED BY <2>1, <2>2, <2>4 DEF RequestBudget
<1> QED BY <1>1, Invariance, PTL

\* None of the conflicts that GraphIsExact lists ever arises, for any rows, calls,
\* deaths and failures.
THEOREM Exact == Spec => []GraphIsExact
<1>1. Inv => GraphIsExact
  <2> SUFFICES ASSUME Inv PROVE GraphIsExact
    OBVIOUS
  <2>1. batch => staged = Rows
    BY DEF Inv, TypeOK
  <2>2. attempts = {} => Cardinality(requests) <= 1
    <3>1. Cardinality({}) = 0
      BY FS_EmptySet
    <3>2. ASSUME NEW q, requests = {q} PROVE Cardinality(requests) = 1
      BY <3>2, Pairs
    <3>3. attempts = {} => requests = {} \/ \E q : requests = {q}
      BY DEF Inv, Attempted
    <3> QED BY <3>1, <3>2, <3>3
  <2>3. {a.number : a \in attempts} = 1..Cardinality(attempts)
    <3>1. CASE attempts = {}
      BY <3>1, CountAttempts DEF Inv
    <3>2. CASE \E a : Alone(a)
      <4>1. PICK a : Alone(a)
        BY <3>2
      <4>2. Cardinality(attempts) = 1
        BY <4>1, CountAttempts DEF Inv
      <4> QED BY <4>1, <4>2 DEF Alone
    <3>3. CASE \E a, b : Follows(a, b)
      <4>1. PICK a, b : Follows(a, b)
        BY <3>3
      <4>2. Cardinality(attempts) = 2
        BY <4>1, CountAttempts DEF Inv
      <4> QED BY <4>1, <4>2 DEF Follows
    <3> QED BY <3>1, <3>2, <3>3 DEF Inv, Attempted
  <2>4. \A a \in attempts : \E q \in Of(requests, a.nonce) :
          q.trust \in trusts /\ \A b \in attempts : b.number < a.number =>
            \A p \in Of(requests, b.nonce) : p.trust <= q.trust
    <3> SUFFICES ASSUME NEW a \in attempts
                 PROVE  \E q \in Of(requests, a.nonce) :
                   q.trust \in trusts /\ \A b \in attempts : b.number < a.number =>
                     \A p \in Of(requests, b.nonce) : p.trust <= q.trust
      OBVIOUS
    <3>1. PICK q \in requests : q.nonce = a.nonce
      BY DEF Inv, References, Of
    <3>2. q.trust \in trusts
      BY DEF Inv, TypeOK
    <3>3. \A b \in attempts : b.number < a.number => b.nonce <= a.nonce
      <4>1. a.nonce \in Nat /\ \A b \in attempts : b.nonce \in Nat
        BY DEF Inv, TypeOK, Nonces
      <4>2. CASE \E c : Alone(c)
        BY <4>2 DEF Alone
      <4>3. CASE \E c, d : Follows(c, d)
        <5>1. PICK c, d : Follows(c, d)
          BY <4>3
        <5> QED BY <4>1, <5>1 DEF Follows
      <4> QED BY <4>2, <4>3 DEF Inv, Attempted
    <3>4. \A b \in attempts : b.number < a.number =>
            \A p \in Of(requests, b.nonce) : p.trust <= q.trust
      BY <3>1, <3>3 DEF Inv, References, Of
    <3> QED BY <3>1, <3>2, <3>4 DEF Of
  <2>5. ASSUME NEW a \in attempts
        PROVE  /\ Cardinality(Of(responses, a.nonce)) <= 1
               /\ Cardinality(Of(verdicts, a.nonce)) <= 1
               /\ Cardinality(Of(results, a.nonce)) <= 1
    <3>1. /\ \A r, s \in Of(responses, a.nonce) : r = s
          /\ \A r, s \in Of(results, a.nonce) : r = s
      BY DEF Inv, Retained, Of
    <3>2. \A v, w \in Of(verdicts, a.nonce) : v = w
      BY DEF Inv, Told, Of
    <3> QED BY <3>1, <3>2, AtMostOne
  <2>6. ASSUME NEW a \in attempts, Of(results, a.nonce) # {}
        PROVE  {r \in Of(results, a.nonce) : r.body # None} = Of(responses, a.nonce)
    <3>1. {r \in Of(results, a.nonce) : r.body # None} \subseteq Of(responses, a.nonce)
      BY DEF Inv, Retained, Of
    <3>2. Of(responses, a.nonce) \subseteq {r \in Of(results, a.nonce) : r.body # None}
      BY <2>6 DEF Inv, Retained, Of
    <3> QED BY <3>1, <3>2
  <2>7. \A e \in records : [nonce |-> e.nonce, failed |-> {}] \in verdicts
    BY DEF Inv, Told, Verified
  <2> QED BY <2>1, <2>2, <2>3, <2>4, <2>5, <2>6, <2>7 DEF GraphIsExact
<1> QED BY <1>1, Invariance, PTL

\* The records of an attempt begin with the first row; beside a receipt those of
\* another attempt end there; and a call that is past the first row saw no others.
RecordInv ==
  /\ \A e \in records : Entry(e.nonce, 1) \in records
  /\ \A n \in receipts, e \in records : e.nonce # n => e.row = 1
  /\ op.at = "recording" /\ op.row # 1 => \A e \in records : e.nonce = op.nonce

\* Only the publication of records and receipts touches what RecordInv is about.
LEMMA Elsewhere ==
  ASSUME Inv, [Next]_vars, ~PublishRecord, ~PublishReceipt
  PROVE  /\ UNCHANGED <<records, receipts>>
         /\ op' = op \/ op'.at # "recording" \/ op'.row = 1
<1>1. op \in Ops
  BY DEF Inv, TypeOK
<1>2. \A where : where # "recording" /\ Goto(where) => op'.at # "recording"
  BY <1>1 DEF Goto, Ops
<1>3. Stop => op'.at # "recording"
  BY IdleTyped DEF Stop
<1>4. Incomplete => op'.at # "recording"
  BY <1>2, <1>3 DEF Incomplete
<1>5. CASE UNCHANGED vars
  BY <1>5 DEF vars, told
<1>6. CASE \/ CallEnroll
           \/ \E a \in attempts, retry \in BOOLEAN : CallResume(a, retry)
           \/ \E n \in receipts : CallReplay(n)
  BY <1>6 DEF CallEnroll, CallResume, CallReplay, Called, Replaying, Idle, told
<1>7. CASE (\E r \in Rows : StageRow(r)) \/ StageBatch \/ Tick \/ AdvanceTuf
  BY <1>2, <1>7 DEF StageRow, StageBatch, Tick, AdvanceTuf, told
<1>8. CASE FindEnrolled
  BY <1>1, <1>8 DEF FindEnrolled, Replaying, Idle, Ops, told
<1>9. CASE AdoptRequest
  BY <1>1, <1>3, <1>9 DEF AdoptRequest, Ops, told
<1>10. CASE NoAttempt \/ SendFails \/ Kill
  BY <1>3, <1>4, <1>10 DEF NoAttempt, SendFails, Kill, told
<1>11. CASE (\E v \in 1..tuf : RefreshTrust(v)) \/ RetainRequest \/ RetainAttempt
  BY <1>1, <1>2, <1>11 DEF RefreshTrust, RetainRequest, RetainAttempt, Ops, told
<1>12. CASE Send \/ RetainResponse \/ RetainResult \/ Drive
  BY <1>1, <1>2, <1>3, <1>12 DEF Send, RetainResponse, RetainResult, Drive, Ops, told
<1>13. CASE Finish
  <2>1. UNCHANGED <<records, receipts>>
    BY <1>13 DEF Finish
  <2>2. \A failed : Verify(op.nonce, failed) => op'.at # "recording" \/ op'.row = 1
    <3> SUFFICES ASSUME NEW failed, Verify(op.nonce, failed)
                 PROVE  op'.at # "recording" \/ op'.row = 1
      OBVIOUS
    <3>1. \/ Stop \/ Incomplete \/ op' = [op EXCEPT !.at = "recording", !.row = 1]
      BY DEF Verify
    <3> QED BY <1>1, <1>3, <1>4, <3>1 DEF Ops
  <2>3. Incomplete \/ \E failed : Verify(op.nonce, failed)
    BY <1>13 DEF Finish
  <2> QED BY <1>4, <2>1, <2>2, <2>3
<1> QED
  BY <1>5, <1>6, <1>7, <1>8, <1>9, <1>10, <1>11, <1>12, <1>13 DEF Next

LEMMA RecordsKeep == Inv /\ RecordInv /\ [Next]_vars => RecordInv'
<1> SUFFICES ASSUME Inv, RecordInv, [Next]_vars PROVE RecordInv'
  OBVIOUS
<1>1. CASE ~PublishRecord /\ ~PublishReceipt
  BY <1>1, Elsewhere DEF RecordInv, Entry
<1>2. CASE PublishRecord
  <2> DEFINE n == op.nonce
             e == Entry(n, op.row)
  <2>1. /\ op.at = "recording" /\ op.row \in Rows /\ records' = records \cup {e}
        /\ receipts' = receipts /\ e.nonce = n /\ e.row = op.row
    BY <1>2 DEF PublishRecord, Entry
  <2>2. op \in Ops /\ \A r \in 1..(op.row - 1) : Entry(n, r) \in records
    BY <2>1 DEF Inv, TypeOK, OpFits
  <2>3. \A f \in records : Entry(f.nonce, 1).nonce = f.nonce /\ Entry(f.nonce, 1).row = 1
    BY DEF Entry
  <2>4. CASE op.row # 1
    <3>1. \A f \in records : f.nonce = n
      BY <2>1, <2>4 DEF RecordInv
    <3>2. 1 \in 1..(op.row - 1) /\ 1 \in Rows
      BY <2>1, <2>2, <2>4, EnrolmentAssumption DEF Rows, Ops
    <3>3. Entry(n, 1) \in records
      BY <2>2, <3>2
    <3>4. \A m \in receipts : m = n
      <4> SUFFICES ASSUME NEW m \in receipts PROVE m = n
        OBVIOUS
      <4>1. Entry(m, 1) \in records /\ Entry(m, 1).nonce = m
        BY <3>2 DEF Inv, Told, Entry
      <4> QED BY <3>1, <4>1
    <3>5. op'.at = "recording" => op'.nonce = n
      <4>1. Stop \/ op' = [op EXCEPT !.row = @ + 1]
        BY <1>2 DEF PublishRecord
      <4> QED BY <2>2, <4>1, IdleTyped DEF Stop, Ops
    <3> HIDE DEF e, n
    <3> QED BY <2>1, <3>1, <3>3, <3>4, <3>5 DEF RecordInv
  <2>5. CASE op.row = 1
    <3>1. \A f \in records' : Entry(f.nonce, 1) \in records'
      BY <2>1, <2>5 DEF RecordInv
    <3>2. \A m \in receipts', f \in records' : f.nonce # m => f.row = 1
      BY <2>1, <2>5 DEF RecordInv
    <3>3. CASE OtherRecords(n, 1) # {}
      <4>1. op'.at # "recording"
        BY <1>2, <2>5, <3>3, IdleTyped DEF PublishRecord, Stop
      <4> QED BY <3>1, <3>2, <4>1 DEF RecordInv
    <3>4. CASE OtherRecords(n, 1) = {}
      <4>1. \A f \in records : f.nonce = n
        BY <2>3, <3>4 DEF RecordInv, OtherRecords
      <4>2. op' = [op EXCEPT !.row = @ + 1]
        BY <1>2, <2>5, <3>4 DEF PublishRecord
      <4>3. op'.nonce = n
        BY <2>2, <4>2 DEF Ops
      <4> HIDE DEF e, n
      <4> QED BY <2>1, <3>1, <3>2, <4>1, <4>3 DEF RecordInv
    <3> QED BY <3>3, <3>4
  <2> QED BY <2>4, <2>5
<1>3. CASE PublishReceipt
  <2>1. /\ op.at = "recording" /\ op.row = NumRows + 1 /\ op'.at # "recording"
        /\ records' = records /\ receipts' \subseteq receipts \cup {op.nonce}
    BY <1>3, IdleTyped DEF PublishReceipt, ReceiptRow, Stop
  <2>2. \A e \in records : e.nonce = op.nonce
    BY <2>1, EnrolmentAssumption DEF RecordInv
  <2>3. /\ \A e \in records' : Entry(e.nonce, 1) \in records'
        /\ \A n \in receipts', e \in records' : e.nonce # n => e.row = 1
    BY <2>1, <2>2 DEF RecordInv
  <2> QED BY <2>1, <2>3 DEF RecordInv
<1> QED BY <1>1, <1>2, <1>3

\* Two attempts that were both verified: the first one's good answer was passed over.
LEMMA BothVerified ==
  ASSUME Inv, NEW m, NEW n, m # n, Verified(m) \in verdicts, Verified(n) \in verdicts
  PROVE  GoodAnswerPassedOver
<1>1. ASSUME NEW v \in verdicts, v.failed = {}
      PROVE  \E a \in attempts : /\ a.nonce = v.nonce
                                 /\ \E r \in Of(results, a.nonce) : Answered(r) /\ Good(r)
                                 /\ \A w \in Of(verdicts, a.nonce) : w.failed = {}
  <2>1. PICK r \in results : r.nonce = v.nonce /\ Good(r) /\ r.body # None
    BY <1>1 DEF Inv, Told
  <2>2. PICK a \in attempts : a.nonce = v.nonce
    BY <2>1 DEF Inv, References, Of
  <2>3. Answered(r)
    BY <2>1 DEF Answered, Good
  <2>4. \A w \in Of(verdicts, a.nonce) : w.failed = {}
    BY <1>1, <2>2 DEF Inv, Told, Of
  <2> QED BY <2>1, <2>2, <2>3, <2>4 DEF Of
<1>2. /\ Verified(m).failed = {} /\ Verified(m).nonce = m
      /\ Verified(n).failed = {} /\ Verified(n).nonce = n
  BY DEF Verified
<1>3. PICK a \in attempts : /\ a.nonce = m
                            /\ \E r \in Of(results, a.nonce) : Answered(r) /\ Good(r)
                            /\ \A w \in Of(verdicts, a.nonce) : w.failed = {}
  BY <1>1, <1>2
<1>4. PICK b \in attempts : /\ b.nonce = n
                            /\ \E r \in Of(results, b.nonce) : Answered(r) /\ Good(r)
                            /\ \A w \in Of(verdicts, b.nonce) : w.failed = {}
  BY <1>1, <1>2
<1>5. a # b
  BY <1>3, <1>4
<1>6. PICK c, d : Follows(c, d)
  BY <1>5 DEF Inv, Attempted, Alone
<1>7. a.number < b.number \/ b.number < a.number
  BY <1>5, <1>6 DEF Follows
<1> QED BY <1>3, <1>4, <1>7 DEF GoodAnswerPassedOver

\* A publication is whole, and what a conflict can leave beside it is one record of
\* the first row, where a good answer was passed over.
THEOREM Stands == Spec => []PublicationIsWhole
<1>1. Init => RecordInv
  BY IdleTyped DEF Init, RecordInv
<1>2. Inv /\ RecordInv => PublicationIsWhole
  <2> SUFFICES ASSUME Inv, RecordInv, NEW n \in receipts
               PROVE  /\ receipts = {n}
                      /\ Of(verdicts, n) = {[nonce |-> n, failed |-> {}]}
                      /\ \A r \in Rows : [nonce |-> n, row |-> r] \in records
                      /\ \A e \in records : e.nonce # n => e.row = 1 /\ GoodAnswerPassedOver
    BY DEF PublicationIsWhole
  <2>1. receipts = {n}
    BY DEF Inv, Told
  <2>2. \A r \in Rows : [nonce |-> n, row |-> r] \in records
    BY DEF Inv, Told, Entry
  <2>3. Verified(n) \in verdicts /\ \A e \in records : Verified(e.nonce) \in verdicts
    BY DEF Inv, Told
  <2>4. \A e \in records : e.nonce # n => e.row = 1 /\ GoodAnswerPassedOver
    BY <2>3, BothVerified DEF RecordInv
  <2>5. Verified(n).nonce = n /\ \A v \in verdicts : v.nonce = n => v = Verified(n)
    BY <2>3 DEF Inv, Told, Verified
  <2>6. Of(verdicts, n) = {Verified(n)}
    BY <2>3, <2>5 DEF Of
  <2>7. Verified(n) = [nonce |-> n, failed |-> {}]
    BY DEF Verified
  <2> QED BY <2>1, <2>2, <2>4, <2>6, <2>7
<1> QED BY <1>1, <1>2, RecordsKeep, Invariance, PTL DEF Spec
=============================================================================
