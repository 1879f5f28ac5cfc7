------------------------------- MODULE Enrolment -------------------------------
(***************************************************************************)
(* The enrolment of one fixture's complete batch of preferences with an     *)
(* independent witness of its time: BootstrapRepository of                 *)
(* src/matchvet/cb01.py.                                                   *)
(*                                                                         *)
(* Every record is an immutable artifact, published by itself; a call may   *)
(* die between any two of them, and the next one decides from what it finds *)
(* what is left to do.  A time-stamp request may leave at most once per     *)
(* attempt, and a batch has at most two attempts, the second on an explicit *)
(* retry.  An attempt is identified by the nonce of its request.            *)
(*                                                                         *)
(* TimestampFailure records only explain an incomplete result and are left  *)
(* out.  The store admits one writer, so calls do not overlap.              *)
(***************************************************************************)
EXTENDS Naturals, FiniteSets

CONSTANTS
  None,
  NumRows,           \* enabled preferences
  Cutoff, Kickoff,   \* the witness must have stamped the batch between them
  MaxTime, MaxTuf, MaxNonce, MaxCalls, MaxKills,
  MaxFlakes          \* failures that pass: a verifier that times out, say

Rows == 1..NumRows
Time == 1..MaxTime
Nonces == 1..MaxNonce

ASSUME EnrolmentAssumption ==
  /\ NumRows \in Nat \ {0} /\ Cutoff \in Nat /\ Kickoff \in Nat
  /\ {MaxTime, MaxTuf, MaxNonce, MaxCalls, MaxKills, MaxFlakes} \subseteq Nat

VARIABLES
  now, tuf,    \* time, and the version of the trust metadata upstream
  staged,      \* PreEnrollment rows published
  batch,       \* FixtureEnrollmentBatch published
  trusts,      \* trust metadata versions retained
  requests,    \* [nonce, trust]
  attempts,    \* TimestampAttempt: [nonce, number]
  responses,   \* [nonce, body, state]; an artifact of the body alone
  results,     \* TimestampAttemptResult: [nonce, body, state]
  verdicts,    \* TimestampVerification: [nonce, failed], VERIFIED if nothing failed
  records,     \* EnrollmentRecord: [nonce, row]
  receipts,    \* FixtureEnrollmentPublication, by the nonce of its attempt
  op,          \* the call in progress
  stamped,     \* time stamps the witness has issued: [nonce, time]
  sent,        \* how often each request has left
  faults       \* calls, kills and flakes so far

world == <<now, tuf, stamped, sent>>
stage == <<staged, batch>>
asked == <<trusts, requests, attempts>>
heard == <<responses, results>>
told  == <<verdicts, records, receipts>>
vars  == <<world, stage, asked, heard, told, op, faults>>

\* retry: a drive without publication goes on to a second attempt; send: the drive
\* may send a request of which nothing is retained; replay: only verify.
Idle == [at |-> "idle", nonce |-> 0, number |-> 0, trust |-> 0, row |-> 1,
         retry |-> FALSE, send |-> FALSE, replay |-> FALSE, answer |-> None]

Init ==
  /\ now = 1 /\ tuf = 1 /\ stamped = {} /\ sent = [n \in Nonces |-> 0]
  /\ staged = {} /\ batch = FALSE
  /\ trusts = {} /\ requests = {} /\ attempts = {}
  /\ responses = {} /\ results = {}
  /\ verdicts = {} /\ records = {} /\ receipts = {}
  /\ op = Idle /\ faults = [calls |-> 0, kills |-> 0, flakes |-> 0]

Of(S, n) == {x \in S : x.nonce = n}
The(S) == CHOOSE x \in S : TRUE
Stop == op' = Idle
Goto(where) == op' = [op EXCEPT !.at = where]

\* What may fail this time and succeed the next.
Flake == faults.flakes < MaxFlakes /\ faults' = [faults EXCEPT !.flakes = @ + 1]

\* The drive of an attempt ends INCOMPLETE.
Incomplete == IF op.retry THEN Goto("retrying") ELSE Stop

-----------------------------------------------------------------------------
(* The calls *)

Called(o) ==
  /\ op = Idle /\ faults.calls < MaxCalls
  /\ faults' = [faults EXCEPT !.calls = @ + 1]
  /\ op' = o
  /\ UNCHANGED <<world, stage, asked, heard, told>>

CallEnroll == Called([Idle EXCEPT !.at = "staging"])

CallResume(a, retry) ==
  a \in attempts /\ Called([Idle EXCEPT !.at = "driving", !.nonce = a.nonce, !.retry = retry])

\* replay requires a received response and a verified time stamp.
Replaying(n) ==
  IF /\ \E r \in Of(results, n) : r.state = "RECEIVED"
     /\ Of(verdicts, n) = {[nonce |-> n, failed |-> {}]}
  THEN [Idle EXCEPT !.at = "finishing", !.nonce = n, !.replay = TRUE]
  ELSE Idle

CallReplay(n) == n \in receipts /\ Called(Replaying(n))

-----------------------------------------------------------------------------
(* enroll_fixture: the rows, the batch, and where to go on *)

StageRow(r) ==
  /\ op.at = "staging" /\ r \notin staged
  /\ staged' = staged \cup {r}
  /\ UNCHANGED <<world, batch, asked, heard, told, op, faults>>

StageBatch ==
  /\ op.at = "staging" /\ staged = Rows
  /\ batch' = TRUE
  /\ Goto("staged")
  /\ UNCHANGED <<world, staged, asked, heard, told, faults>>

Unattached == {q \in requests : Of(attempts, q.nonce) = {}}

\* A batch that has its receipt is replayed; one that has an attempt is driven
\* without sending anything.
MayResend_Always == TRUE
MayResend == FALSE

FindEnrolled ==
  /\ op.at = "staged" /\ (receipts # {} \/ attempts # {})
  /\ op' = IF receipts # {}
           THEN IF Cardinality(receipts) = 1 THEN Replaying(The(receipts)) ELSE Idle
           ELSE IF Cardinality(attempts) = 1
                THEN [op EXCEPT !.at = "driving", !.nonce = The(attempts).nonce,
                                !.send = MayResend]
                ELSE Idle
  /\ UNCHANGED <<world, stage, asked, heard, told, faults>>

\* _adopt_retained_request: a request that no attempt names has not been sent.
AdoptRequest ==
  /\ op.at = "staged" /\ receipts = {} /\ attempts = {} /\ Unattached # {}
  /\ IF Cardinality(Unattached) = 1
     THEN LET q == The(Unattached) IN
          /\ attempts' = {[nonce |-> q.nonce, number |-> 1]}
          /\ op' = [op EXCEPT !.at = "driving", !.nonce = q.nonce, !.send = TRUE]
     ELSE Stop /\ UNCHANGED attempts
  /\ UNCHANGED <<world, stage, trusts, requests, heard, told, faults>>

-----------------------------------------------------------------------------
(* A new attempt *)

IsNew == op.at = "staged" /\ receipts = {} /\ attempts = {} /\ Unattached = {}

\* resume(retry_failed): only the normal attempt, alone so far, with a durable
\* result that has not been verified.
MayRetry ==
  /\ op.at = "retrying" /\ Cardinality(attempts) = 1
  /\ Of(results, op.nonce) # {}
  /\ ~(/\ The(Of(results, op.nonce)).state = "RECEIVED"
       /\ \E v \in Of(verdicts, op.nonce) : v.failed = {})

\* refresh_trust and _retain_trust; metadata older than what is retained is refused.
RefreshTrust(v) ==
  /\ IsNew \/ MayRetry
  /\ \A t \in trusts : v >= t
  /\ trusts' = trusts \cup {v}
  /\ op' = [op EXCEPT !.at = "trusted", !.trust = v, !.retry = FALSE,
                      !.number = IF op.at = "staged" THEN 1 ELSE 2]
  /\ UNCHANGED <<world, stage, requests, attempts, heard, told, faults>>

\* No metadata, older metadata, or a retry that is refused or whose sources do not
\* replay; and a request that cannot be made.
NoAttempt ==
  /\ IsNew \/ op.at \in {"retrying", "trusted"}
  /\ Stop
  /\ UNCHANGED <<world, stage, asked, heard, told, faults>>

RetainRequest ==
  LET n == Cardinality(requests) + 1 IN
  /\ op.at = "trusted" /\ n \in Nonces
  /\ requests' = requests \cup {[nonce |-> n, trust |-> op.trust]}
  /\ op' = [op EXCEPT !.at = "requested", !.nonce = n]
  /\ UNCHANGED <<world, stage, trusts, attempts, heard, told, faults>>

RetainAttempt ==
  /\ op.at = "requested"
  /\ attempts' = attempts \cup {[nonce |-> op.nonce, number |-> op.number]}
  /\ Goto("sending")
  /\ UNCHANGED <<world, stage, trusts, requests, heard, told, faults>>

-----------------------------------------------------------------------------
(* _send_attempt *)

\* Any body that is no time stamp.
Page == [nonce |-> 0, time |-> 0]

Answer(body, state) == [body |-> body, state |-> state]

\* What the transport may bring: a time stamp, this one's or an earlier one's, or
\* something else, whole or broken off, or nothing.
Answers(stamps) ==
  {Answer(s, "RECEIVED") : s \in stamps \cup {Page}}
    \cup {Answer(Page, "MALFORMED")}
    \cup {Answer(b, s) : b \in stamps \cup {Page, None}, s \in {"REJECTED", "UNAVAILABLE"}}

\* The witness stamps what reaches it, whether or not its answer comes back.
Send ==
  /\ op.at = "sending"
  /\ sent' = [sent EXCEPT ![op.nonce] = @ + 1]
  /\ \E reached \in BOOLEAN :
       /\ stamped' = IF reached THEN stamped \cup {[nonce |-> op.nonce, time |-> now]} ELSE stamped
       /\ \E a \in Answers(stamped') : op' = [op EXCEPT !.at = "answered", !.answer = a]
  /\ UNCHANGED <<now, tuf, stage, asked, heard, told, faults>>

\* The retained trust does not replay: nothing is sent.
SendFails ==
  /\ op.at = "sending" /\ Flake /\ Incomplete
  /\ UNCHANGED <<world, stage, asked, heard, told>>

\* An artifact has one media type, and that of a response names its attempt: bytes
\* that another attempt has retained already are refused.  Two pages may be the same
\* bytes or not.
RetainResponse ==
  /\ op.at = "answered"
  /\ LET r == [nonce |-> op.nonce, body |-> op.answer.body, state |-> op.answer.state]
         alike == \E old \in responses : old.body = r.body /\ old # r
     IN \/ r.body = None /\ Goto("responded") /\ UNCHANGED responses
        \/ alike /\ Stop /\ UNCHANGED responses
        \/ /\ r.body # None /\ (alike => r.body = Page)
           /\ Goto("responded") /\ responses' = responses \cup {r}
  /\ UNCHANGED <<world, stage, asked, results, told, faults>>

RetainResult ==
  /\ op.at = "responded"
  /\ results' = results \cup {[nonce |-> op.nonce, body |-> op.answer.body,
                               state |-> op.answer.state]}
  /\ Goto("finishing")
  /\ UNCHANGED <<world, stage, asked, responses, told, faults>>

-----------------------------------------------------------------------------
(* _drive_attempt *)

\* The result of an attempt of which nothing came back.
Unsent(n) == [nonce |-> n, body |-> None, state |-> "UNAVAILABLE"]

\* The result that a dead call did not write is made from the response it retained.
Rebuilt_Blind(n) == Unsent(n)
Rebuilt(n) == IF Of(responses, n) # {} THEN The(Of(responses, n)) ELSE Unsent(n)

Drive ==
  /\ op.at = "driving"
  /\ LET n == op.nonce IN
     \/ Of(results, n) # {} /\ Goto("finishing") /\ UNCHANGED results
     \/ /\ Of(results, n) = {} /\ Of(responses, n) = {} /\ op.send
        /\ Goto("sending") /\ UNCHANGED results
     \/ /\ Of(results, n) = {} /\ (Of(responses, n) # {} \/ ~op.send)
        /\ results' = results \cup {Rebuilt(n)}
        /\ Goto("finishing")
  /\ UNCHANGED <<world, stage, asked, responses, told, faults>>

-----------------------------------------------------------------------------
(* _finish_result *)

Answered(r) == r.body # None /\ r.state \in {"RECEIVED", "MALFORMED"}

\* verify_response: the stamp is of this request and lies strictly between.
Good_AnyNonce(r) ==
  r.state = "RECEIVED" /\ Cutoff < r.body.time /\ r.body.time < Kickoff

Good(r) ==
  /\ r.state = "RECEIVED" /\ r.body.nonce = r.nonce
  /\ Cutoff < r.body.time /\ r.body.time < Kickoff

Failed(r) == IF Good(r) THEN {} ELSE {"answer"}

\* A verification is published once; another one for the attempt is an error.
Verify(n, failed) ==
  LET v == [nonce |-> n, failed |-> failed] IN
  IF Of(verdicts, n) \ {v} # {} THEN Stop /\ UNCHANGED verdicts
  ELSE /\ verdicts' = verdicts \cup {v}
       /\ IF failed = {} THEN op' = [op EXCEPT !.at = "recording", !.row = 1] ELSE Incomplete

Finish ==
  /\ op.at = "finishing"
  /\ LET r == The(Of(results, op.nonce)) IN
     IF ~Answered(r) THEN Incomplete /\ UNCHANGED <<verdicts, faults>>
     ELSE \/ Verify(op.nonce, Failed(r)) /\ UNCHANGED faults
          \* The verifier or the sources fail this time.
          \/ Flake /\ Verify(op.nonce, Failed(r) \cup {"check"})
          \* The retained trust does not replay; a replay takes that for success.
          \/ Flake /\ Incomplete /\ UNCHANGED verdicts
  /\ UNCHANGED <<world, stage, asked, heard, records, receipts>>

\* A call that does not see what another attempt has published.
OtherRecords_Unnoticed(n, row) == {}

\* _publish_records: a record is published and then compared with the others of
\* its row.
OtherRecords(n, row) == {e \in records : e.row = row /\ e.nonce # n}

PublishRecord ==
  /\ op.at = "recording" /\ op.row \in Rows
  /\ records' = records \cup {[nonce |-> op.nonce, row |-> op.row]}
  /\ IF OtherRecords(op.nonce, op.row) # {} THEN Stop
     ELSE op' = [op EXCEPT !.row = @ + 1]
  /\ UNCHANGED <<world, stage, asked, heard, verdicts, receipts, faults>>

\* The receipt comes after the last record.
ReceiptRow == NumRows + 1

PublishReceipt ==
  /\ op.at = "recording" /\ op.row = ReceiptRow
  /\ receipts' = IF receipts \ {op.nonce} = {} THEN receipts \cup {op.nonce} ELSE receipts
  /\ Stop
  /\ UNCHANGED <<world, stage, asked, heard, verdicts, records, faults>>

-----------------------------------------------------------------------------
(* Surroundings *)

\* The process dies, or the guard of the operation or a publication raises.
Kill ==
  /\ op # Idle /\ faults.kills < MaxKills
  /\ faults' = [faults EXCEPT !.kills = @ + 1]
  /\ Stop
  /\ UNCHANGED <<world, stage, asked, heard, told>>

Tick ==
  /\ now < MaxTime /\ now' = now + 1
  /\ UNCHANGED <<tuf, stamped, sent, stage, asked, heard, told, op, faults>>

AdvanceTuf ==
  /\ tuf < MaxTuf /\ tuf' = tuf + 1
  /\ UNCHANGED <<now, stamped, sent, stage, asked, heard, told, op, faults>>

Next ==
  \/ CallEnroll
  \/ \E a \in attempts, retry \in BOOLEAN : CallResume(a, retry)
  \/ \E n \in receipts : CallReplay(n)
  \/ \E r \in Rows : StageRow(r)
  \/ StageBatch \/ FindEnrolled \/ AdoptRequest
  \/ \E v \in 1..tuf : RefreshTrust(v)
  \/ NoAttempt \/ RetainRequest \/ RetainAttempt
  \/ Send \/ SendFails \/ RetainResponse \/ RetainResult
  \/ Drive \/ Finish \/ PublishRecord \/ PublishReceipt
  \/ Kill \/ Tick \/ AdvanceTuf

Spec == Init /\ [][Next]_vars

-----------------------------------------------------------------------------
(* Properties *)

\* "its independent RFC 3161 chronology": whatever is retried, answered late, lost or
\* answered with somebody else's stamp, a published batch was stamped for the
\* request of its own attempt, after the cutoff and before kickoff.
WitnessedInTime ==
  \A n \in receipts :
    \E s \in stamped : s.nonce = n /\ Cutoff < s.time /\ s.time < Kickoff

\* "sends one Sigstore RFC3161 request", and one more on an explicit retry: over all
\* calls and deaths no request leaves twice, none leaves without the attempt that
\* accounts for it, and the second one leaves only after the first one's durable
\* result.
RequestBudget ==
  /\ Cardinality(attempts) <= 2
  /\ \A n \in Nonces : sent[n] <= 1
  /\ \A n \in Nonces : sent[n] = 1 =>
       \E a \in Of(attempts, n) :
         a.number = 2 => \E b \in attempts : b.number = 1 /\ Of(results, b.nonce) # {}

\* Of the conflicts that every later call would refuse, none of these ever arises,
\* whatever dies between two artifacts: two requests without an attempt, two
\* responses, results or verdicts of one attempt, a gap in the attempts, an older
\* trust for a later attempt, a result that differs from the response, a record
\* without its verified time stamp.  Two that are not among them do arise: records of
\* two attempts (PublicationIsWhole), and a FAILED verdict whose reason has passed.
GraphIsExact ==
  /\ batch => staged = Rows
  /\ attempts = {} => Cardinality(requests) <= 1
  /\ {a.number : a \in attempts} = 1..Cardinality(attempts)
  /\ \A a \in attempts : \E q \in Of(requests, a.nonce) :
       q.trust \in trusts /\ \A b \in attempts : b.number < a.number =>
         \A p \in Of(requests, b.nonce) : p.trust <= q.trust
  /\ \A a \in attempts :
       /\ Cardinality(Of(responses, a.nonce)) <= 1
       /\ Cardinality(Of(verdicts, a.nonce)) <= 1
       /\ Of(results, a.nonce) # {} =>
            {r \in Of(results, a.nonce) : r.body # None} = Of(responses, a.nonce)
       /\ Cardinality(Of(results, a.nonce)) <= 1
  /\ \A e \in records : [nonce |-> e.nonce, failed |-> {}] \in verdicts

\* The first attempt was answered with a good stamp, nothing found it to be bad, and
\* yet there is a second attempt: the trust did not replay when it was looked at.
GoodAnswerPassedOver ==
  \E a, b \in attempts :
    /\ a.number < b.number
    /\ \E r \in Of(results, a.nonce) : Answered(r) /\ Good(r)
    /\ \A v \in Of(verdicts, a.nonce) : v.failed = {}

\* A publication is whole: there is one receipt, its attempt was verified and has its
\* record for every row.  _publish_records compares a record with those of other
\* attempts only after it has published it, so that a record of another attempt can
\* stand beside them, and then every replay and enrolment raises:
\* but only of the first row, since the call ends there, and only where a good answer
\* was passed over.
PublicationIsWhole ==
  \A n \in receipts :
    /\ receipts = {n}
    /\ Of(verdicts, n) = {[nonce |-> n, failed |-> {}]}
    /\ \A r \in Rows : [nonce |-> n, row |-> r] \in records
    /\ \A e \in records : e.nonce # n => e.row = 1 /\ GoodAnswerPassedOver
=============================================================================
