---------------------------- MODULE SourceDownload ----------------------------
(***************************************************************************)
(* ResumableSourceDownloader.fetch of src/matchvet/ingestion.py for one    *)
(* cache key: the retained copy, its metadata and the partial file it is   *)
(* resumed from, over retries, redirects, refusals, budgets, withdrawals   *)
(* of the source authorization and kills between any two writes.           *)
(*                                                                         *)
(* A file is a sequence of blocks.  A block records which version of the   *)
(* source it comes from and its place in it; version 0 is the page of a    *)
(* provider that challenges instead of answering, and one block of it has  *)
(* the phrase that gives it away.  Lapse of time is a choice: wherever the *)
(* code looks at a clock it may find time left or not.                     *)
(***************************************************************************)
EXTENDS Naturals, Sequences

CONSTANTS
  None,         \* an absent file
  Length,       \* blocks of each version of the source; Length[1], Length[2], ...
  PageLength,   \* blocks of a challenge page
  PhraseAt,     \* the block of it that has a phrase of _REFUSAL_TEXT
  Searched,     \* blocks that are searched for one, from the beginning
  MaxSource,    \* max_source_bytes
  NetBytes,     \* network_cap_bytes and max_total_bytes, over one process life
  OpBytes,      \* technical_limits.bytes of the authorization, over one fetch
  NetRequests,  \* max_request_count, over one process life
  OpRequests,   \* technical_limits.requests, over one fetch
  RetryCount, RedirectCount,
  MaxFetches, MaxKills, MaxWithdrawals

ASSUME DownloadAssumption ==
  /\ Length \in Seq(Nat \ {0}) /\ Len(Length) > 0
  /\ {PageLength, PhraseAt, Searched} \subseteq Nat \ {0}
  /\ {MaxSource, NetBytes, OpBytes, NetRequests, OpRequests} \subseteq Nat \ {0}
  /\ {RetryCount, RedirectCount, MaxFetches, MaxKills, MaxWithdrawals} \subseteq Nat

VARIABLES
  upstream,    \* the version the provider serves now
  authorized,  \* require_current accepts the decision of this fetch
  data, meta,  \* the retained copy and its metadata
  part,        \* the partial file; an absent one and an empty one are alike
  used,        \* requests and blocks of this process
  op,          \* the fetch in progress
  outcome,     \* how the last fetch ended
  retained,    \* every content whose metadata was completely written
  faults       \* fetches, kills and withdrawals so far

vars  == <<upstream, authorized, data, meta, part, used, op, outcome, retained, faults>>
env   == <<upstream, authorized, faults>>
cache == <<data, meta, retained>>

Versions == DOMAIN Length
Block(v, i) == [version |-> v, index |-> i]
Size(v) == IF v = 0 THEN PageLength ELSE Length[v]

NoOp == [at |-> "idle", offset |-> 0, retries |-> 0, redirects |-> 0,
         requests |-> 0, bytes |-> 0, resolved |-> FALSE,
         version |-> 0, next |-> 1, sized |-> FALSE]

Init ==
  /\ upstream = 1 /\ authorized = TRUE
  /\ data = None /\ meta = None /\ part = <<>>
  /\ used = [requests |-> 0, bytes |-> 0]
  /\ op = NoOp /\ outcome = "none"
  /\ retained = {}
  /\ faults = [fetches |-> 0, kills |-> 0, withdrawals |-> 0]

-----------------------------------------------------------------------------
(* How a fetch ends, goes on, or tries again *)

\* Raise or return.  SourceUnavailable, SourceDeferred and SourceBudgetExceeded
\* are one outcome, "failed": the provider, the clock or a budget.
End(o) == op' = NoOp /\ outcome' = o
Go(o) == op' = o /\ UNCHANGED outcome

\* _retry_capacity
HasCapacity(o, u) ==
  /\ o.requests < OpRequests /\ u.requests < NetRequests
  /\ o.bytes < OpBytes /\ u.bytes < NetBytes

\* The tail of every transient failure.  The wait may not fit in what is left of
\* the elapsed budget (_sleep_with_budget, _retry_delay).
Retry_Uncounted(o, u) ==
  \/ End("failed")
  \/ HasCapacity(o, u) /\ Go([o EXCEPT !.at = "loop"])

Retry(o, u) ==
  \/ End("failed")
  \/ /\ o.retries < RetryCount /\ HasCapacity(o, u)
     /\ Go([o EXCEPT !.at = "loop", !.retries = @ + 1])

\* A transient failure while the name is resolved; no request is counted.
RetryResolution_Uncounted(o) == Retry_Uncounted(o, used)
RetryResolution(o) == Retry(o, used)

-----------------------------------------------------------------------------
(* The retained copy *)

\* _read_cache refuses one file without the other, and bytes that are not those
\* the metadata was written for.
Torn_Unread == (data = None) # (meta = None)
Torn == \/ (data = None) # (meta = None)
        \/ meta # None /\ meta.content # data

Fetch(refresh) ==
  /\ op.at = "idle" /\ faults.fetches < MaxFetches
  /\ faults' = [faults EXCEPT !.fetches = @ + 1]
  /\ IF Torn THEN End("integrity")
     ELSE IF meta # None /\ ~refresh /\ meta.fresh THEN End("cached")
     ELSE IF ~authorized THEN End("refused")
     ELSE IF Len(part) > MaxSource THEN End("integrity")
     ELSE Go([NoOp EXCEPT !.at = "loop", !.offset = Len(part)])
  /\ UNCHANGED <<upstream, authorized, data, meta, part, used, retained>>

-----------------------------------------------------------------------------
(* One turn of the loop up to the request *)

\* _require_elapsed, _require_request_budget and _pace
CheckBudgets ==
  /\ op.at = "loop"
  /\ End("failed") \/ (HasCapacity(op, used) /\ Go([op EXCEPT !.at = "paced"]))
  /\ UNCHANGED <<env, cache, part, used>>

\* The destination is resolved once, and again for the target of a redirect.
Resolve ==
  /\ op.at = "paced"
  /\ \/ ~authorized /\ End("refused")
     \/ authorized /\ Go([op EXCEPT !.at = "resolved", !.resolved = TRUE])
     \/ /\ authorized /\ ~op.resolved
        /\ End("refused") \/ RetryResolution(op)   \* a nonpublic address, a failure
  /\ UNCHANGED <<env, cache, part, used>>

\* A request is counted before it is sent; it may fail, or be answered too late.
Send ==
  /\ op.at = "resolved"
  /\ LET o == [op EXCEPT !.requests = @ + 1]
         u == [used EXCEPT !.requests = @ + 1] IN
     \/ ~authorized /\ End("refused") /\ UNCHANGED used
     \/ End("failed") /\ UNCHANGED used     \* no time left for a request
     \/ /\ authorized /\ used' = u
        /\ \/ Retry(o, u)                   \* lost, or answered too late
           \/ Go([o EXCEPT !.at = "answered"])
           \/ End("refused")                \* by its status or its headers
  /\ UNCHANGED <<env, cache, part>>

-----------------------------------------------------------------------------
(* Answers *)

\* An approved target is contacted from its first byte on.
FollowRedirect ==
  /\ op.at = "answered"
  /\ \/ End("failed") /\ UNCHANGED part        \* no Location, one too many
     \/ End("refused") /\ UNCHANGED part       \* not approved, a loop, a login
     \/ /\ authorized /\ op.redirects < RedirectCount
        /\ part' = <<>>
        /\ Go([op EXCEPT !.at = "loop", !.redirects = @ + 1, !.offset = 0])
  /\ UNCHANGED <<env, cache, used>>

\* _read_response_sample: what it reads is bounded by what is left, and counted.
ReadErrorStatus ==
  /\ op.at = "answered"
  /\ \E n \in 0..1 :
       LET o == [op EXCEPT !.bytes = @ + n]
           u == [used EXCEPT !.bytes = @ + n] IN
       /\ n = 0 \/ (op.bytes < OpBytes /\ used.bytes < NetBytes)
       /\ used' = u
       /\ \/ Retry(o, u) /\ UNCHANGED part       \* 429, 5xx, or a lost body
          \/ End("failed") /\ UNCHANGED part     \* 404, 410, 416, ...
          \/ End("refused") /\ part' = <<>>      \* the page is a challenge
  /\ UNCHANGED <<env, cache>>

\* 206 continues the partial file, if the offset lies in what is served now, and
\* 200 starts it again.  A challenge page comes with status 200.
Resumable(v) == v # 0 /\ op.offset \in 1..(Size(v) - 1)

Opened(v, sized, first) ==
  Go([op EXCEPT !.at = "body", !.version = v, !.sized = sized, !.next = first])

OpenBody_Continued(v) ==
  /\ op.at = "answered" /\ v \in {0, upstream}
  /\ \E sized \in BOOLEAN : Opened(v, sized, 1) /\ UNCHANGED part
  /\ UNCHANGED <<env, cache, used>>

OpenBody(v) ==
  /\ op.at = "answered" /\ v \in {0, upstream}
  /\ \/ \E sized \in BOOLEAN : Opened(v, sized, 1) /\ part' = <<>>
     \/ /\ Resumable(v) /\ UNCHANGED part
        /\ IF Size(v) > MaxSource THEN End("failed")
                                  ELSE Opened(v, TRUE, op.offset + 1)
     \/ End("integrity") /\ UNCHANGED part      \* any other range
  /\ UNCHANGED <<env, cache, used>>

-----------------------------------------------------------------------------
(* _receive_body *)

\* What may still be read is the least of what three budgets leave.
MayRead_PerFetch == op.next <= MaxSource /\ op.bytes < OpBytes
MayRead == op.next <= MaxSource /\ op.bytes < OpBytes /\ used.bytes < NetBytes

AllReceived == op.next > Size(op.version)

\* A block arrives, in time or just after the deadline of the request.
ReceiveBlock ==
  /\ op.at = "body" /\ MayRead /\ ~AllReceived
  /\ LET o == [op EXCEPT !.bytes = @ + 1, !.next = @ + 1]
         u == [used EXCEPT !.bytes = @ + 1] IN
     /\ part' = Append(part, Block(op.version, op.next))
     /\ used' = u
     /\ Go(o) \/ Retry([o EXCEPT !.offset = Len(part')], u)
  /\ UNCHANGED <<env, cache>>

\* A connection lost or too slow, no elapsed budget left, or a bound reached.
LoseBody ==
  /\ op.at = "body"
  /\ Retry([op EXCEPT !.offset = Len(part)], used)
  /\ UNCHANGED <<env, cache, part, used>>

\* The end of the body is seen by its announced length, or by an empty read: a
\* lost connection looks like the end of a body of no announced length, and such
\* a body is refused when it ends exactly at a bound.
EndBody ==
  /\ op.at = "body"
  /\ op.sized => AllReceived
  /\ op.sized \/ MayRead
  /\ Go([op EXCEPT !.at = "received"])
  /\ UNCHANGED <<env, cache, part, used>>

-----------------------------------------------------------------------------
(* Admission to the cache *)

\* _refusal_reason finds a phrase in the first bytes of the content, what was
\* resumed from included.  A page that was cut off before its phrase is not found.
Challenged_InThisAnswer ==
  op.version = 0 /\ \E i \in DOMAIN part : i <= Searched /\ part[i] = Block(0, PhraseAt)
Challenged == \E i \in DOMAIN part : i <= Searched /\ part[i] = Block(0, PhraseAt)

\* The partial file is discarded when its content or the authority is refused,
\* and kept when the cache is full.
Admit ==
  /\ op.at = "received"
  /\ IF Challenged \/ ~authorized THEN End("refused") /\ part' = <<>>
     ELSE (Go([op EXCEPT !.at = "admitted"]) \/ End("failed")) /\ UNCHANGED part
  /\ UNCHANGED <<env, cache, used>>

\* os.replace(part_path, data_path)
Install ==
  /\ op.at = "admitted"
  /\ data' = part /\ part' = <<>>
  /\ Go([op EXCEPT !.at = "installed"])
  /\ UNCHANGED <<env, meta, retained, used>>

\* _write_cache_metadata replaces the metadata in one step.  meta.sized is of the
\* model: whether the answer that completed the content announced its length.
WriteMetadata ==
  /\ op.at = "installed"
  /\ meta' = [content |-> data, fresh |-> TRUE, sized |-> op.sized]
  /\ retained' = retained \cup {data}
  /\ End("fetched")
  /\ UNCHANGED <<env, data, part, used>>

-----------------------------------------------------------------------------
(* Surroundings *)

\* The process dies, or the metadata cannot be written; budgets start afresh.
Kill ==
  /\ op.at # "idle" /\ faults.kills < MaxKills
  /\ faults' = [faults EXCEPT !.kills = @ + 1]
  /\ End("killed")
  /\ used' = [requests |-> 0, bytes |-> 0]
  /\ UNCHANGED <<upstream, authorized, cache, part>>

Publish ==
  /\ upstream + 1 \in Versions
  /\ upstream' = upstream + 1
  /\ UNCHANGED <<authorized, cache, part, used, op, outcome, faults>>

Expire ==
  /\ meta # None /\ meta.fresh
  /\ meta' = [meta EXCEPT !.fresh = FALSE]
  /\ UNCHANGED <<env, data, retained, part, used, op, outcome>>

Withdraw ==
  /\ authorized /\ faults.withdrawals < MaxWithdrawals
  /\ authorized' = FALSE
  /\ faults' = [faults EXCEPT !.withdrawals = @ + 1]
  /\ UNCHANGED <<upstream, cache, part, used, op, outcome>>

Reauthorize ==
  /\ ~authorized /\ authorized' = TRUE
  /\ UNCHANGED <<upstream, cache, part, used, op, outcome, faults>>

Step ==
  \/ CheckBudgets \/ Resolve \/ Send
  \/ FollowRedirect \/ ReadErrorStatus \/ (\E v \in {0} \cup Versions : OpenBody(v))
  \/ ReceiveBlock \/ LoseBody \/ EndBody
  \/ Admit \/ Install \/ WriteMetadata

Next ==
  \/ (\E refresh \in BOOLEAN : Fetch(refresh))
  \/ Step \/ Kill \/ Publish \/ Expire \/ Withdraw \/ Reauthorize

Spec == Init /\ [][Next]_vars

\* fetch runs on one thread without waiting for anybody: every read and sleep in
\* it has a timeout.
FairSpec == Spec /\ WF_vars(Step)

-----------------------------------------------------------------------------
(* Properties *)

\* Every block is at its place, and the content is as long as the version that
\* completed it if that answer announced a length.
AsAnnounced(c, sized) ==
  /\ \A i \in DOMAIN c : c[i].index = i
  /\ sized => c # <<>> /\ Len(c) = Size(c[Len(c)].version)

\* What is retained with its metadata is as it was announced: no resumption,
\* redirect or restart loses, repeats or moves a block.
RetainedIsWhole == meta # None => AsAnnounced(meta.content, meta.sized)

\* A fetch answers from the cache only with content that was retained together
\* with its provenance, although a kill may separate the two files.
ServedWasRetained == op.at = "idle" /\ outcome = "cached" => data \in retained

\* A challenge page is never retained once its phrase has arrived where it is
\* looked for, not even as the beginning of a file that was interrupted after the
\* phrase and resumed from the real source.  One that was interrupted before its
\* phrase and then resumed, or that ended there unannounced, is retained.
RefusalIsNeverRetained ==
  data # None => \A i \in DOMAIN data : i <= Searched => data[i] # Block(0, PhraseAt)

\* The bounds hold at every moment: of the source, of one fetch and of the
\* process, over retries, redirects, error pages and resumed files.
BoundsHold ==
  /\ Len(part) <= MaxSource
  /\ op.bytes <= OpBytes /\ op.requests <= OpRequests
  /\ used.bytes <= NetBytes /\ used.requests <= NetRequests

\* Every fetch ends, however often names, connections and answers fail.
FetchEnds == (op.at # "idle") ~> (op.at = "idle")
=============================================================================
