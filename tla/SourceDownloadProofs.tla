-------------------------- MODULE SourceDownloadProofs --------------------------
(***************************************************************************)
(* What SourceDownload promises of the retained copy and of the bounds,    *)
(* for every length of the source, all bounds and any number of fetches,   *)
(* upstream versions, kills and withdrawals.                               *)
(*                                                                         *)
(* None of the four invariants is inductive.  What carries them is a chain *)
(* along the fetch: the offset that is asked for is the length of the      *)
(* partial file; the next block of a body is the one after it; a body that *)
(* has passed the end of its version has just received its last block; a   *)
(* file in which no phrase was found is what is admitted, and what is      *)
(* admitted is what is installed and then described.                       *)
(*                                                                         *)
(* That nobody sees the two replacements as two steps (CacheIsAtomic)      *)
(* rests on one thing more: no fetch goes past the check of the cache      *)
(* while its two files do not belong together.                             *)
(***************************************************************************)
EXTENDS CacheRefinement, SequenceTheorems, TLAPS

Blocks == [version : {0} \cup Versions, index : Nat]
Files == Seq(Blocks)
Metas == [content : Files, fresh : BOOLEAN, sized : BOOLEAN]
Useds == [requests : 0..NetRequests, bytes : 0..NetBytes]
Stages == {"idle", "loop", "paced", "resolved", "answered", "body", "received",
           "admitted", "installed"}
Fetches ==
  [at : Stages, offset : Nat, retries : Nat, redirects : Nat,
   requests : 0..OpRequests, bytes : 0..OpBytes, resolved : BOOLEAN,
   version : {0} \cup Versions, next : Nat, sized : BOOLEAN]

Ordered(f) == \A i \in DOMAIN f : f[i].index = i
Clean(f) == \A i \in DOMAIN f : i <= Searched => f[i] # Block(0, PhraseAt)
Whole(f) == f # <<>> /\ Len(f) = Size(f[Len(f)].version)

TypeOK ==
  /\ part \in Files /\ Len(part) <= MaxSource /\ Ordered(part)
  /\ data \in Files \cup {None} /\ meta \in Metas \cup {None}
  /\ used \in Useds /\ op \in Fetches

OffsetIsKept == op.at \in {"loop", "paced", "resolved", "answered"} => op.offset = Len(part)

CanRequest ==
  op.at \in {"paced", "resolved"} => op.requests < OpRequests /\ used.requests < NetRequests

BodyFits ==
  op.at = "body" =>
    /\ op.next = Len(part) + 1 /\ op.next <= Size(op.version) + 1
    /\ op.next > Size(op.version) => Whole(part)

ReceivedIsWhole ==
  /\ op.at \in {"received", "admitted"} /\ op.sized => Whole(part)
  /\ op.at = "admitted" => Clean(part)

Stage == OffsetIsKept /\ CanRequest /\ BodyFits /\ ReceivedIsWhole

InstalledIsWhole ==
  op.at = "installed" =>
    data \in Files /\ Ordered(data) /\ (op.sized => Whole(data))

CopyIsWhole ==
  /\ data # None => Clean(data)
  /\ meta # None => /\ meta.content \in retained /\ Ordered(meta.content)
                    /\ meta.sized => Whole(meta.content)

Inv == TypeOK /\ Stage /\ InstalledIsWhole /\ CopyIsWhole /\ ServedWasRetained

\* The size of a version or of a challenge page is a positive number.
LEMMA SizeIsPositive == \A v \in {0} \cup Versions : Size(v) \in Nat /\ Size(v) >= 1
<1>1. Size(0) \in Nat /\ Size(0) >= 1
  BY DownloadAssumption DEF Size
<1>2. \A v \in Versions : Size(v) \in Nat /\ Size(v) >= 1
  BY DownloadAssumption DEF Size, Versions
<1> QED BY <1>1, <1>2

\* The bounds are positive numbers.
LEMMA BoundsArePositive ==
  /\ MaxSource \in Nat /\ NetBytes \in Nat /\ OpBytes \in Nat
  /\ NetRequests \in Nat /\ OpRequests \in Nat
BY DownloadAssumption

\* What has been counted is below a bound, so one more still fits.
LEMMA OneMoreFits ==
  ASSUME NEW b \in Nat, NEW k \in 0..b, k < b, NEW n \in 0..1
  PROVE  k + n \in 0..b
OBVIOUS

\* What is received next goes to its place at the end of the partial file.
LEMMA AppendKeepsOrder ==
  ASSUME NEW f \in Files, Ordered(f), NEW v \in {0} \cup Versions
  PROVE  LET g == Append(f, Block(v, Len(f) + 1))
         IN /\ g \in Files /\ Ordered(g) /\ Len(g) = Len(f) + 1
            /\ g # <<>> /\ g[Len(g)].version = v
<1> DEFINE b == Block(v, Len(f) + 1)
           g == Append(f, b)
<1>1. b \in Blocks /\ b.version = v /\ b.index = Len(f) + 1
  BY DEF Block, Blocks, Files
<1>2. g \in Files /\ Len(g) = Len(f) + 1 /\ DOMAIN g = 1..(Len(f) + 1) /\ Len(f) \in Nat
  BY <1>1 DEF Files
<1>3. \A i \in DOMAIN g : g[i] = IF i <= Len(f) THEN f[i] ELSE b
  BY <1>1, <1>2 DEF Files
<1>4. Ordered(g)
  BY <1>1, <1>2, <1>3 DEF Ordered, Files
<1>5. g # <<>> /\ g[Len(g)].version = v
  BY <1>1, <1>2, <1>3 DEF Files
<1> QED BY <1>2, <1>4, <1>5

\* While the retained copy is left alone, only the fetch has to be looked at.
LEMMA Steady ==
  ASSUME Inv, UNCHANGED cache,
         part' \in Files, Len(part') <= MaxSource, Ordered(part'),
         used' \in Useds, op' \in Fetches, op'.at # "installed", Stage',
         op'.at = "idle" /\ outcome' = "cached" => data \in retained
  PROVE  Inv'
<1>1. TypeOK'
  BY DEF Inv, TypeOK, cache
<1>2. InstalledIsWhole' /\ ServedWasRetained'
  BY DEF InstalledIsWhole, ServedWasRetained, cache
<1>3. CopyIsWhole'
  BY DEF Inv, CopyIsWhole, cache
<1> QED BY <1>1, <1>2, <1>3 DEF Inv

\* However a fetch ends, the partial file is kept or discarded.
LEMMA Ends ==
  ASSUME Inv, NEW o, End(o), UNCHANGED cache, used' \in Useds,
         o = "cached" => data \in retained,
         part' \in Files, Len(part') <= MaxSource, Ordered(part')
  PROVE  Inv'
<1>1. NoOp \in Fetches /\ NoOp.at = "idle"
  BY DownloadAssumption DEF NoOp, Fetches, Stages
<1>2. op' = NoOp /\ outcome' = o
  BY DEF End
<1>3. Stage'
  BY <1>1, <1>2 DEF Stage, OffsetIsKept, CanRequest, BodyFits, ReceivedIsWhole
<1> QED BY <1>1, <1>2, <1>3, Steady

\* The empty file.
LEMMA EmptyFile == <<>> \in Files /\ Len(<<>>) = 0 /\ Ordered(<<>>) /\ Len(<<>>) <= MaxSource
BY DownloadAssumption DEF Files, Ordered

\* The next turn of the loop starts from the end of the partial file.
LEMMA Loops ==
  ASSUME Inv, NEW o \in Fetches, Go(o), o.at = "loop", UNCHANGED cache, used' \in Useds,
         part' \in Files, Len(part') <= MaxSource, Ordered(part'), o.offset = Len(part')
  PROVE  Inv'
<1>1. op' = o
  BY DEF Go
<1>2. Stage'
  BY <1>1 DEF Stage, OffsetIsKept, CanRequest, BodyFits, ReceivedIsWhole
<1> QED BY <1>1, <1>2, Steady

\* A transient failure ends the fetch or sends it back to the loop.
LEMMA Retries ==
  ASSUME Inv, NEW o \in Fetches, NEW u, Retry(o, u), UNCHANGED cache, used' \in Useds,
         part' \in Files, Len(part') <= MaxSource, Ordered(part'), o.offset = Len(part')
  PROVE  Inv'
<1>1. CASE End("failed")
  BY <1>1, Ends
<1>2. CASE Go([o EXCEPT !.at = "loop", !.retries = @ + 1])
  <2> DEFINE q == [o EXCEPT !.at = "loop", !.retries = @ + 1]
  <2>1. o.retries + 1 \in Nat /\ "loop" \in Stages
    BY DEF Fetches, Stages
  <2>2. q \in Fetches
    BY <2>1 DEF Fetches
  <2>3. q.at = "loop" /\ q.offset = o.offset
    BY DEF Fetches
  <2> QED BY <1>2, <2>2, <2>3, Loops
<1> QED BY <1>1, <1>2 DEF Retry

-----------------------------------------------------------------------------
(* One action after the other *)

\* The initial state.
LEMMA Start == Init => Inv
<1> SUFFICES ASSUME Init PROVE Inv OBVIOUS
<1>1. NoOp \in Fetches /\ NoOp.at = "idle"
  BY DownloadAssumption DEF NoOp, Fetches, Stages
<1>2. used \in Useds
  BY DownloadAssumption DEF Init, Useds
<1>3. TypeOK
  BY <1>1, <1>2, EmptyFile DEF Init, TypeOK
<1>4. Stage /\ InstalledIsWhole
  BY <1>1 DEF Init, Stage, OffsetIsKept, CanRequest, BodyFits, ReceivedIsWhole, InstalledIsWhole
<1>5. CopyIsWhole /\ ServedWasRetained
  BY DEF Init, CopyIsWhole, ServedWasRetained
<1> QED BY <1>3, <1>4, <1>5 DEF Inv

\* Only content that is whole with its metadata is served from the cache.
LEMMA FetchKeeps == ASSUME Inv, NEW refresh \in BOOLEAN, Fetch(refresh) PROVE Inv'
<1>1. /\ UNCHANGED cache /\ used' \in Useds
      /\ part' \in Files /\ Len(part') <= MaxSource /\ Ordered(part')
      /\ Len(part') = Len(part)
  BY DEF Fetch, Inv, TypeOK, cache
<1>2. CASE End("cached") /\ ~Torn /\ meta # None
  <2>1. data \in retained
    BY <1>2 DEF Torn, Inv, CopyIsWhole
  <2> QED BY <1>1, <1>2, <2>1, Ends
<1>3. CASE End("integrity") \/ End("refused")
  BY <1>1, <1>3, Ends
<1>4. CASE Go([NoOp EXCEPT !.at = "loop", !.offset = Len(part)])
  <2> DEFINE q == [NoOp EXCEPT !.at = "loop", !.offset = Len(part)]
  <2>1. Len(part) \in Nat
    BY DEF Inv, TypeOK, Files
  <2>2. NoOp \in Fetches /\ "loop" \in Stages
    BY DownloadAssumption DEF NoOp, Fetches, Stages
  <2>3. q \in Fetches /\ q.at = "loop" /\ q.offset = Len(part)
    BY <2>1, <2>2 DEF Fetches
  <2> QED BY <1>1, <1>4, <2>3, Loops
<1> QED BY <1>2, <1>3, <1>4 DEF Fetch

\* Requests are counted against what CheckBudgets found left.
LEMMA RequestKeeps ==
  ASSUME Inv, CheckBudgets \/ Resolve \/ Send PROVE Inv'
<1>1. /\ UNCHANGED cache
      /\ part' \in Files /\ Len(part') <= MaxSource /\ Ordered(part') /\ part' = part
  BY DEF CheckBudgets, Resolve, Send, Inv, TypeOK
<1>2. op \in Fetches /\ used \in Useds
  BY DEF Inv, TypeOK
<1>3. CASE CheckBudgets
  <2>1. CASE End("failed")
    BY <1>1, <1>2, <1>3, <2>1, Ends DEF CheckBudgets
  <2>2. CASE HasCapacity(op, used) /\ Go([op EXCEPT !.at = "paced"])
    <3>1. op' = [op EXCEPT !.at = "paced"] /\ op' \in Fetches /\ op'.at = "paced"
      BY <1>2, <2>2 DEF Go, Fetches, Stages
    <3>2. op'.offset = op.offset /\ op'.requests = op.requests /\ used' = used
      BY <1>2, <1>3, <3>1 DEF Fetches, CheckBudgets
    <3>3. Stage'
      BY <1>1, <1>3, <2>2, <3>1, <3>2 DEF CheckBudgets, HasCapacity, Inv, Stage, OffsetIsKept,
                                CanRequest, BodyFits, ReceivedIsWhole
    <3> QED BY <1>1, <1>2, <3>1, <3>2, <3>3, Steady
  <2> QED BY <1>3, <2>1, <2>2 DEF CheckBudgets
<1>4. CASE Resolve
  <2>1. CASE End("refused")
    BY <1>1, <1>2, <1>4, <2>1, Ends DEF Resolve
  <2>2. CASE Go([op EXCEPT !.at = "resolved", !.resolved = TRUE])
    <3>1. op' = [op EXCEPT !.at = "resolved", !.resolved = TRUE]
      BY <2>2 DEF Go
    <3>2. op' \in Fetches /\ op'.at = "resolved"
      BY <1>2, <3>1 DEF Fetches, Stages
    <3>3. op'.offset = op.offset /\ op'.requests = op.requests /\ used' = used
      BY <1>2, <1>4, <3>1 DEF Fetches, Resolve
    <3>4. Stage'
      BY <1>1, <1>4, <3>2, <3>3 DEF Resolve, Inv, Stage, OffsetIsKept, CanRequest, BodyFits,
                                    ReceivedIsWhole
    <3> QED BY <1>1, <1>2, <3>2, <3>3, <3>4, Steady
  <2>3. CASE RetryResolution(op)
    <3>1. op.offset = Len(part') /\ used' \in Useds
      BY <1>1, <1>2, <1>4 DEF Resolve, Inv, Stage, OffsetIsKept
    <3> QED BY <1>1, <1>2, <2>3, <3>1, Retries DEF RetryResolution
  <2> QED BY <1>4, <2>1, <2>2, <2>3 DEF Resolve
<1>5. CASE Send
  <2> DEFINE o == [op EXCEPT !.requests = @ + 1]
             u == [used EXCEPT !.requests = @ + 1]
  <2>1. op.requests < OpRequests /\ used.requests < NetRequests /\ op.offset = Len(part)
    BY <1>5 DEF Send, Inv, Stage, CanRequest, OffsetIsKept
  <2>2. op.requests + 1 \in 0..OpRequests /\ used.requests + 1 \in 0..NetRequests
    <3>1. op.requests \in 0..OpRequests /\ used.requests \in 0..NetRequests
      BY <1>2 DEF Fetches, Useds
    <3> QED BY <2>1, <3>1, BoundsArePositive, OneMoreFits
  <2>3. o \in Fetches /\ o.offset = Len(part) /\ o.at = op.at
    BY <1>2, <2>1, <2>2 DEF Fetches
  <2>4. u \in Useds
    BY <1>2, <2>2 DEF Useds
  <2>5. used' \in Useds
    BY <1>2, <1>5, <2>4 DEF Send
  <2>6. CASE End("refused") \/ End("failed")
    BY <1>1, <2>5, <2>6, Ends
  <2>7. CASE Retry(o, u)
    BY <1>1, <2>3, <2>5, <2>7, Retries
  <2>8. CASE Go([o EXCEPT !.at = "answered"])
    <3>1. op' = [o EXCEPT !.at = "answered"]
      BY <2>8 DEF Go
    <3>2. op' \in Fetches /\ op'.at = "answered" /\ op'.offset = Len(part)
      BY <2>3, <3>1 DEF Fetches, Stages
    <3>3. Stage'
      BY <1>1, <3>2 DEF Stage, OffsetIsKept, CanRequest, BodyFits, ReceivedIsWhole
    <3> QED BY <1>1, <2>5, <3>2, <3>3, Steady
  <2> QED BY <1>5, <2>6, <2>7, <2>8 DEF Send
<1> QED BY <1>3, <1>4, <1>5

\* An answer without a body to keep: a redirect or an error page.
LEMMA AnswerKeeps == ASSUME Inv, FollowRedirect \/ ReadErrorStatus PROVE Inv'
<1>1. UNCHANGED cache /\ op \in Fetches /\ used \in Useds /\ op.offset = Len(part)
  BY DEF FollowRedirect, ReadErrorStatus, Inv, TypeOK, Stage, OffsetIsKept
<1>2. /\ part' = part \/ part' = <<>>
      /\ part' \in Files /\ Len(part') <= MaxSource /\ Ordered(part')
  BY EmptyFile DEF FollowRedirect, ReadErrorStatus, Inv, TypeOK
<1>3. CASE FollowRedirect
  <2>1. used' \in Useds
    BY <1>1, <1>3 DEF FollowRedirect
  <2>2. CASE End("failed") \/ End("refused")
    BY <1>1, <1>2, <2>1, <2>2, Ends
  <2>3. CASE part' = <<>> /\ Go([op EXCEPT !.at = "loop", !.redirects = @ + 1, !.offset = 0])
    <3> DEFINE q == [op EXCEPT !.at = "loop", !.redirects = @ + 1, !.offset = 0]
    <3>1. op.redirects + 1 \in Nat /\ "loop" \in Stages
      BY <1>1 DEF Fetches, Stages
    <3>2. q \in Fetches /\ q.at = "loop" /\ q.offset = 0
      BY <1>1, <3>1 DEF Fetches
    <3>3. q.offset = Len(part')
      BY <2>3, <3>2, EmptyFile
    <3> QED BY <1>1, <1>2, <2>1, <2>3, <3>2, <3>3, Loops
  <2> QED BY <1>3, <2>2, <2>3 DEF FollowRedirect
<1>4. CASE ReadErrorStatus
  <2>1. PICK n \in 0..1 :
          LET o == [op EXCEPT !.bytes = @ + n]
              u == [used EXCEPT !.bytes = @ + n]
          IN /\ n = 0 \/ (op.bytes < OpBytes /\ used.bytes < NetBytes)
             /\ used' = u
             /\ \/ Retry(o, u) /\ UNCHANGED part
                \/ End("failed") /\ UNCHANGED part
                \/ End("refused") /\ part' = <<>>
    BY <1>4 DEF ReadErrorStatus
  <2> DEFINE o == [op EXCEPT !.bytes = @ + n]
             u == [used EXCEPT !.bytes = @ + n]
  <2>2. op.bytes + n \in 0..OpBytes /\ used.bytes + n \in 0..NetBytes
    <3>1. op.bytes \in 0..OpBytes /\ used.bytes \in 0..NetBytes
      BY <1>1 DEF Fetches, Useds
    <3>2. CASE n = 0
      BY <3>1, <3>2, BoundsArePositive
    <3>3. CASE op.bytes < OpBytes /\ used.bytes < NetBytes
      BY <3>1, <3>3, BoundsArePositive, OneMoreFits
    <3> QED BY <2>1, <3>2, <3>3
  <2>3. o \in Fetches /\ o.offset = Len(part)
    BY <1>1, <2>2 DEF Fetches
  <2>4. u \in Useds /\ used' \in Useds
    BY <1>1, <2>1, <2>2 DEF Useds
  <2>5. CASE Retry(o, u) /\ UNCHANGED part
    BY <1>1, <1>2, <2>3, <2>4, <2>5, Retries
  <2>6. CASE End("failed") \/ End("refused")
    BY <1>1, <1>2, <2>4, <2>6, Ends
  <2> QED BY <2>1, <2>5, <2>6
<1> QED BY <1>3, <1>4

\* A body starts from nothing or goes on where the partial file ends.
LEMMA OpenKeeps == ASSUME Inv, NEW v \in {0} \cup Versions, OpenBody(v) PROVE Inv'
<1>1. UNCHANGED cache /\ op \in Fetches /\ op.offset = Len(part) /\ used' \in Useds
  BY DEF OpenBody, Inv, TypeOK, Stage, OffsetIsKept
<1>2. /\ part \in Files /\ Len(part) <= MaxSource /\ Ordered(part) /\ Len(part) \in Nat
  BY DEF Inv, TypeOK, Files
<1>3. Size(v) \in Nat /\ Size(v) >= 1
  BY SizeIsPositive
<1>4. ASSUME NEW sized \in BOOLEAN, NEW first \in Nat, Opened(v, sized, first),
             part' \in {part, <<>>}, first = Len(part') + 1, first <= Size(v)
      PROVE  Inv'
  <2>1. part' \in Files /\ Len(part') <= MaxSource /\ Ordered(part')
    BY <1>2, <1>4, EmptyFile
  <2>2. op' = [op EXCEPT !.at = "body", !.version = v, !.sized = sized, !.next = first]
    BY <1>4 DEF Opened, Go
  <2>3. op' \in Fetches /\ op'.at = "body" /\ op'.version = v /\ op'.next = first
    BY <1>1, <2>2 DEF Fetches, Stages
  <2>4. BodyFits'
    BY <1>3, <1>4, <2>3 DEF BodyFits, Size
  <2>5. Stage'
    BY <2>3, <2>4 DEF Stage, OffsetIsKept, CanRequest, ReceivedIsWhole
  <2> QED BY <1>1, <2>1, <2>3, <2>5, Steady
<1>5. CASE \E sized \in BOOLEAN : Opened(v, sized, 1) /\ part' = <<>>
  BY <1>3, <1>4, <1>5, EmptyFile
<1>6. CASE Resumable(v) /\ part' = part /\ Opened(v, TRUE, op.offset + 1)
  <2>1. op.offset + 1 \in Nat /\ op.offset + 1 <= Size(v)
    BY <1>1, <1>2, <1>3, <1>6 DEF Resumable
  <2> QED BY <1>1, <1>4, <1>6, <2>1
<1>7. CASE part' = part /\ (End("failed") \/ End("integrity"))
  BY <1>1, <1>2, <1>7, Ends
<1> QED BY <1>5, <1>6, <1>7 DEF OpenBody

\* The block that completes a version is its last one.
LEMMA ReceiveKeeps == ASSUME Inv, ReceiveBlock PROVE Inv'
<1> DEFINE o == [op EXCEPT !.bytes = @ + 1, !.next = @ + 1]
           u == [used EXCEPT !.bytes = @ + 1]
<1>1. /\ UNCHANGED cache /\ op \in Fetches /\ used \in Useds /\ op.at = "body"
      /\ part \in Files /\ Ordered(part) /\ Len(part) \in Nat
      /\ part' = Append(part, Block(op.version, op.next)) /\ used' = u
  BY DEF ReceiveBlock, Inv, TypeOK, Files
<1>2. /\ op.next = Len(part) + 1 /\ op.next <= MaxSource /\ op.next <= Size(op.version)
      /\ op.bytes < OpBytes /\ used.bytes < NetBytes
  <2>1. op.next = Len(part) + 1 /\ op.next <= MaxSource /\ ~(op.next > Size(op.version))
    BY <1>1 DEF ReceiveBlock, MayRead, AllReceived, Inv, Stage, BodyFits
  <2>2. Size(op.version) \in Nat /\ op.next \in Nat
    BY <1>1, SizeIsPositive DEF Fetches
  <2>3. op.bytes < OpBytes /\ used.bytes < NetBytes
    BY DEF ReceiveBlock, MayRead
  <2> QED BY <2>1, <2>2, <2>3
<1>3. op.version \in {0} \cup Versions /\ Size(op.version) \in Nat
  BY <1>1, SizeIsPositive DEF Fetches
<1>4. /\ part' \in Files /\ Ordered(part') /\ Len(part') = Len(part) + 1
      /\ part' # <<>> /\ part'[Len(part')].version = op.version
  BY <1>1, <1>2, <1>3, AppendKeepsOrder
<1>5. Len(part') <= MaxSource
  BY <1>2, <1>4
<1>6. op.bytes + 1 \in 0..OpBytes /\ used.bytes + 1 \in 0..NetBytes /\ op.next + 1 \in Nat
  <2>1. op.bytes \in 0..OpBytes /\ used.bytes \in 0..NetBytes /\ op.next \in Nat
    BY <1>1 DEF Fetches, Useds
  <2>2. op.bytes + 1 \in 0..OpBytes /\ used.bytes + 1 \in 0..NetBytes
    BY <1>2, <2>1, BoundsArePositive, OneMoreFits
  <2> QED BY <2>1, <2>2
<1>7. o \in Fetches /\ o.at = "body" /\ o.next = op.next + 1 /\ o.version = op.version
  BY <1>1, <1>6 DEF Fetches
<1>8. u \in Useds
  BY <1>1, <1>6 DEF Useds
<1>9. CASE Go(o)
  <2>1. op' = o
    BY <1>9 DEF Go
  <2>2. o.next = Len(part') + 1 /\ o.next <= Size(o.version) + 1
    BY <1>1, <1>2, <1>3, <1>4, <1>7
  <2>3. o.next > Size(o.version) => Len(part') = Size(o.version)
    BY <1>1, <1>2, <1>3, <1>4, <1>7
  <2>4. o.next > Size(o.version) => Whole(part')
    BY <1>4, <1>7, <2>3 DEF Whole
  <2>5. BodyFits'
    BY <2>1, <2>2, <2>4 DEF BodyFits, Whole, Size
  <2>6. Stage'
    BY <1>7, <2>1, <2>5 DEF Stage, OffsetIsKept, CanRequest, ReceivedIsWhole
  <2> QED BY <1>1, <1>4, <1>5, <1>7, <1>8, <2>1, <2>6, Steady
<1>10. CASE Retry([o EXCEPT !.offset = Len(part')], u)
  <2> DEFINE q == [o EXCEPT !.offset = Len(part')]
  <2>1. Len(part') \in Nat
    BY <1>1, <1>4
  <2>2. q \in Fetches /\ q.offset = Len(part')
    BY <1>7, <2>1 DEF Fetches
  <2> QED BY <1>1, <1>4, <1>5, <1>8, <1>10, <2>2, Retries
<1> QED BY <1>9, <1>10 DEF ReceiveBlock

\* A lost body is resumed from what has arrived; an ended one is as it is.
LEMMA BodyKeeps == ASSUME Inv, LoseBody \/ EndBody PROVE Inv'
<1>1. /\ UNCHANGED cache /\ op \in Fetches /\ used' \in Useds /\ op.at = "body"
      /\ part' \in Files /\ Ordered(part') /\ Len(part') <= MaxSource
      /\ part' = part /\ Len(part) \in Nat
  BY DEF LoseBody, EndBody, Inv, TypeOK, Files
<1>2. CASE LoseBody
  <2> DEFINE q == [op EXCEPT !.offset = Len(part)]
  <2>1. q \in Fetches /\ q.offset = Len(part')
    BY <1>1 DEF Fetches
  <2> QED BY <1>1, <1>2, <2>1, Retries DEF LoseBody
<1>3. CASE EndBody
  <2>1. op' = [op EXCEPT !.at = "received"]
    BY <1>3 DEF EndBody, Go
  <2>2. op' \in Fetches /\ op'.at = "received" /\ op'.sized = op.sized
    BY <1>1, <2>1 DEF Fetches, Stages
  <2>3. op.sized => Whole(part)
    BY <1>1, <1>3 DEF EndBody, AllReceived, Inv, Stage, BodyFits
  <2>4. op.sized => Whole(part')
    BY <1>1, <2>3
  <2>5. Stage'
    BY <2>2, <2>4 DEF Stage, OffsetIsKept, CanRequest, BodyFits, ReceivedIsWhole, Whole, Size
  <2> QED BY <1>1, <2>2, <2>5, Steady
<1> QED BY <1>2, <1>3

\* Nothing in which a phrase of a challenge is found is admitted.
LEMMA AdmitKeeps == ASSUME Inv, Admit PROVE Inv'
<1>1. /\ UNCHANGED cache /\ op \in Fetches /\ used' \in Useds /\ op.at = "received"
      /\ part' = part \/ part' = <<>>
      /\ part' \in Files /\ Ordered(part') /\ Len(part') <= MaxSource
  BY EmptyFile DEF Admit, Inv, TypeOK
<1>2. CASE End("refused") \/ End("failed")
  BY <1>1, <1>2, Ends
<1>3. CASE ~Challenged /\ Go([op EXCEPT !.at = "admitted"]) /\ UNCHANGED part
  <2>1. op' = [op EXCEPT !.at = "admitted"]
    BY <1>3 DEF Go
  <2>2. op' \in Fetches /\ op'.at = "admitted" /\ op'.sized = op.sized
    BY <1>1, <2>1 DEF Fetches, Stages
  <2>3. Clean(part')
    BY <1>3 DEF Challenged, Clean
  <2>4. op.sized => Whole(part')
    BY <1>1, <1>3 DEF Inv, Stage, ReceivedIsWhole
  <2>5. ReceivedIsWhole'
    BY <2>2, <2>3, <2>4 DEF ReceivedIsWhole, Whole, Size, Clean
  <2>6. Stage'
    BY <2>2, <2>5 DEF Stage, OffsetIsKept, CanRequest, BodyFits
  <2> QED BY <1>1, <2>2, <2>6, Steady
<1> QED BY <1>2, <1>3 DEF Admit

\* What was admitted becomes the copy; the metadata still describes what it did.
LEMMA InstallKeeps == ASSUME Inv, Install PROVE Inv'
<1>1. /\ op \in Fetches /\ used' = used /\ op.at = "admitted" /\ data' = part /\ part' = <<>>
      /\ op' = [op EXCEPT !.at = "installed"] /\ UNCHANGED <<meta, retained>>
  BY DEF Install, Go, Inv, TypeOK
<1>2. op' \in Fetches /\ op'.at = "installed" /\ op'.sized = op.sized
  BY <1>1 DEF Fetches, Stages
<1>3. part \in Files /\ Ordered(part) /\ Clean(part) /\ (op.sized => Whole(part))
  BY <1>1 DEF Inv, TypeOK, Stage, ReceivedIsWhole
<1>4. TypeOK'
  BY <1>1, <1>2, <1>3, EmptyFile DEF Inv, TypeOK
<1>5. Stage' /\ ServedWasRetained'
  BY <1>2 DEF Stage, OffsetIsKept, CanRequest, BodyFits, ReceivedIsWhole, ServedWasRetained
<1>6. InstalledIsWhole'
  BY <1>1, <1>2, <1>3 DEF InstalledIsWhole, Whole, Ordered, Size
<1>7. CopyIsWhole'
  BY <1>1, <1>3 DEF Inv, CopyIsWhole, Clean, Ordered, Whole, Size
<1> QED BY <1>4, <1>5, <1>6, <1>7 DEF Inv

\* The metadata describes the copy that is there.
LEMMA MetadataKeeps == ASSUME Inv, WriteMetadata PROVE Inv'
<1>1. /\ op.at = "installed" /\ UNCHANGED <<data, part, used>>
      /\ op' = NoOp /\ outcome' = "fetched" /\ retained' = retained \cup {data}
      /\ meta' = [content |-> data, fresh |-> TRUE, sized |-> op.sized]
  BY DEF WriteMetadata, End
<1>2. NoOp \in Fetches /\ NoOp.at = "idle"
  BY DownloadAssumption DEF NoOp, Fetches, Stages
<1>3. op.sized \in BOOLEAN /\ data \in Files /\ Ordered(data) /\ (op.sized => Whole(data))
  BY <1>1 DEF Inv, TypeOK, InstalledIsWhole, Fetches
<1>4. meta' \in Metas
  BY <1>1, <1>3 DEF Metas
<1>5. TypeOK'
  BY <1>1, <1>2, <1>4 DEF Inv, TypeOK, Ordered
<1>6. Stage' /\ InstalledIsWhole' /\ ServedWasRetained'
  BY <1>1, <1>2 DEF Stage, OffsetIsKept, CanRequest, BodyFits, ReceivedIsWhole,
                    InstalledIsWhole, ServedWasRetained
<1>7. meta'.content = data /\ meta'.sized = op.sized
  BY <1>1
<1>8. CopyIsWhole'
  BY <1>1, <1>3, <1>7 DEF Inv, CopyIsWhole, Clean, Ordered, Whole, Size
<1> QED BY <1>5, <1>6, <1>8 DEF Inv

\* Kills, lapsing copies, the provider and the owner.
LEMMA EnvironmentKeeps ==
  ASSUME Inv, Kill \/ Publish \/ Expire \/ Withdraw \/ Reauthorize \/ UNCHANGED vars
  PROVE  Inv'
<1>1. CASE Kill
  <2>1. /\ UNCHANGED cache /\ End("killed")
        /\ part' \in Files /\ Len(part') <= MaxSource /\ Ordered(part')
    BY <1>1 DEF Kill, Inv, TypeOK
  <2>2. used' \in Useds
    BY <1>1, DownloadAssumption DEF Kill, Useds
  <2> QED BY <2>1, <2>2, Ends
<1>2. CASE Expire
  <2>1. /\ meta # None /\ meta \in Metas /\ meta' = [meta EXCEPT !.fresh = FALSE]
        /\ UNCHANGED <<data, retained, part, used, op, outcome>>
    BY <1>2 DEF Expire, Inv, TypeOK
  <2>2. meta' \in Metas /\ meta'.content = meta.content /\ meta'.sized = meta.sized
    BY <2>1 DEF Metas
  <2>3. TypeOK'
    BY <2>1, <2>2 DEF Inv, TypeOK, Ordered
  <2>4. Stage' /\ InstalledIsWhole' /\ ServedWasRetained'
    BY <2>1 DEF Inv, Stage, OffsetIsKept, CanRequest, BodyFits, ReceivedIsWhole,
                InstalledIsWhole, ServedWasRetained, Whole, Ordered, Clean, Size
  <2>5. CopyIsWhole'
    BY <2>1, <2>2 DEF Inv, CopyIsWhole, Whole, Ordered, Clean, Size
  <2> QED BY <2>3, <2>4, <2>5 DEF Inv
<1>3. CASE Publish \/ Withdraw \/ Reauthorize \/ UNCHANGED vars
  <2>1. UNCHANGED <<data, meta, retained, part, used, op, outcome>>
    BY <1>3 DEF Publish, Withdraw, Reauthorize, vars, cache
  <2>2. TypeOK'
    BY <2>1 DEF Inv, TypeOK, Ordered
  <2>3. Stage' /\ InstalledIsWhole' /\ ServedWasRetained' /\ CopyIsWhole'
    BY <2>1 DEF Inv, Stage, OffsetIsKept, CanRequest, BodyFits, ReceivedIsWhole,
                InstalledIsWhole, ServedWasRetained, CopyIsWhole, Whole, Ordered, Clean, Size
  <2> QED BY <2>2, <2>3 DEF Inv
<1> QED BY <1>1, <1>2, <1>3

\* The inductive invariant.
THEOREM Invariance == Spec => []Inv
<1>1. Inv /\ [Next]_vars => Inv'
  <2> SUFFICES ASSUME Inv, [Next]_vars PROVE Inv' OBVIOUS
  <2>1. CASE \E refresh \in BOOLEAN : Fetch(refresh)
    BY <2>1, FetchKeeps
  <2>2. CASE CheckBudgets \/ Resolve \/ Send
    BY <2>2, RequestKeeps
  <2>3. CASE FollowRedirect \/ ReadErrorStatus
    BY <2>3, AnswerKeeps
  <2>4. CASE \E v \in {0} \cup Versions : OpenBody(v)
    BY <2>4, OpenKeeps
  <2>5. CASE ReceiveBlock
    BY <2>5, ReceiveKeeps
  <2>6. CASE LoseBody \/ EndBody
    BY <2>6, BodyKeeps
  <2>7. CASE Admit
    BY <2>7, AdmitKeeps
  <2>8. CASE Install
    BY <2>8, InstallKeeps
  <2>9. CASE WriteMetadata
    BY <2>9, MetadataKeeps
  <2>10. CASE Kill \/ Publish \/ Expire \/ Withdraw \/ Reauthorize \/ UNCHANGED vars
    BY <2>10, EnvironmentKeeps
  <2> QED BY <2>1, <2>2, <2>3, <2>4, <2>5, <2>6, <2>7, <2>8, <2>9, <2>10 DEF Next, Step
<1> QED BY <1>1, Start, PTL DEF Spec

\* What is retained with its metadata is in order and as long as announced.
THEOREM Retained == Spec => []RetainedIsWhole
<1>1. Inv => RetainedIsWhole
  BY DEF Inv, CopyIsWhole, RetainedIsWhole, AsAnnounced, Ordered, Whole
<1> QED BY <1>1, Invariance, PTL

\* The cache answers only with content that was retained with its provenance.
THEOREM Served == Spec => []ServedWasRetained
<1>1. Inv => ServedWasRetained
  BY DEF Inv
<1> QED BY <1>1, Invariance, PTL

\* A challenge page is never retained once its phrase has arrived where it is
\* looked for, wherever a fetch was interrupted after it.
THEOREM Unchallenged == Spec => []RefusalIsNeverRetained
<1>1. Inv => RefusalIsNeverRetained
  BY DEF Inv, CopyIsWhole, RefusalIsNeverRetained, Clean
<1> QED BY <1>1, Invariance, PTL

\* No budget of the source, of the fetch or of the process is ever exceeded.
THEOREM Bounded == Spec => []BoundsHold
<1>1. Inv => BoundsHold
  BY DownloadAssumption DEF Inv, TypeOK, Fetches, Useds, BoundsHold
<1> QED BY <1>1, Invariance, PTL
-----------------------------------------------------------------------------
(* Every fetch is bounded *)

\* The turns of the loop that retries and redirects still allow.
TurnsLeft == (RetryCount - op.retries) + (RedirectCount - op.redirects)

\* How far the fetch is from its end within one turn.
Distance(at) ==
  CASE at = "loop" -> 8 [] at = "paced" -> 7 [] at = "resolved" -> 6 [] at = "answered" -> 5
    [] at = "body" -> 4 [] at = "received" -> 3 [] at = "admitted" -> 2 [] at = "installed" -> 1
    [] at = "idle" -> 0

\* A bound of the steps a fetch in progress can still take.
StepsLeft ==
  IF op.at = "idle" THEN 0 ELSE 9 * TurnsLeft + Distance(op.at) + (OpBytes - op.bytes)

MaxSteps == 9 * (RetryCount + RedirectCount) + 8 + OpBytes

\* A fetch has a number of steps that its own limits determine, and each step it
\* takes uses one up.
FetchIsBounded == [](StepsLeft \in 0..MaxSteps) /\ [][Step => StepsLeft' < StepsLeft]_vars

TurnsInv == op.retries <= RetryCount /\ op.redirects <= RedirectCount

\* A step ends the fetch, brings it nearer to the end of its turn, reads on, or
\* begins another of the turns that are left.
Nearer ==
  \/ op' = NoOp
  \/ /\ op'.retries = op.retries /\ op'.redirects = op.redirects /\ op'.bytes >= op.bytes
     /\ \/ Distance(op'.at) < Distance(op.at)
        \/ op'.at = op.at /\ op'.bytes > op.bytes
  \/ /\ op'.at = "loop" /\ op'.bytes >= op.bytes
     /\ \/ op'.retries = op.retries + 1 /\ op'.redirects = op.redirects
           /\ op.retries < RetryCount
        \/ op'.redirects = op.redirects + 1 /\ op'.retries = op.retries
           /\ op.redirects < RedirectCount

LEMMA Distances ==
  /\ Distance("loop") = 8 /\ Distance("paced") = 7 /\ Distance("resolved") = 6
  /\ Distance("answered") = 5 /\ Distance("body") = 4 /\ Distance("received") = 3
  /\ Distance("admitted") = 2 /\ Distance("installed") = 1 /\ Distance("idle") = 0
BY DEF Distance

LEMMA DistanceInTurn ==
  ASSUME NEW at \in Stages
  PROVE  Distance(at) \in 0..8 /\ (at # "idle" => Distance(at) >= 1)
BY Distances DEF Stages

\* The numbers that the bound is made of.
LEMMA StepNumbers ==
  ASSUME Inv
  PROVE  /\ op.retries \in Nat /\ op.redirects \in Nat
         /\ op.bytes \in Nat /\ op.bytes <= OpBytes
         /\ OpBytes \in Nat /\ RetryCount \in Nat /\ RedirectCount \in Nat
         /\ Distance(op.at) \in 0..8
         /\ op.at # "idle" => Distance(op.at) >= 1
<1>1. op \in Fetches
  BY DEF Inv, TypeOK
<1>2. OpBytes \in Nat /\ RetryCount \in Nat /\ RedirectCount \in Nat
  BY DownloadAssumption
<1>3. op.at \in Stages
  BY <1>1 DEF Fetches
<1>4. Distance(op.at) \in 0..8 /\ (op.at # "idle" => Distance(op.at) >= 1)
  BY <1>3, DistanceInTurn
<1>5. op.retries \in Nat /\ op.redirects \in Nat /\ op.bytes \in 0..OpBytes
  BY <1>1 DEF Fetches
<1> QED
  BY <1>2, <1>4, <1>5

LEMMA StepsInRange == ASSUME Inv, TurnsInv PROVE StepsLeft \in 0..MaxSteps
BY StepNumbers DEF StepsLeft, TurnsLeft, MaxSteps, TurnsInv

LEMMA NearerIsFewer ==
  ASSUME Inv, Inv', TurnsInv, op.at # "idle", Nearer
  PROVE  TurnsInv' /\ StepsLeft' < StepsLeft
<1>1. /\ op'.retries \in Nat /\ op'.redirects \in Nat
      /\ op'.bytes \in Nat /\ op'.bytes <= OpBytes
      /\ Distance(op'.at) \in 0..8
  <2>1. op' \in Fetches
    BY DEF Inv, TypeOK
  <2>2. op'.at \in Stages
    BY <2>1 DEF Fetches
  <2>3. Distance(op'.at) \in 0..8
    BY <2>2, DistanceInTurn
  <2> QED
    BY <2>1, <2>3, DownloadAssumption DEF Fetches
<1>2. StepsLeft = 9 * TurnsLeft + Distance(op.at) + (OpBytes - op.bytes)
  BY DEF StepsLeft
<1>3. CASE op' = NoOp
  <2>1. TurnsInv' /\ StepsLeft' = 0
    BY <1>3, StepNumbers DEF NoOp, TurnsInv, StepsLeft
  <2>2. StepsLeft > 0
    BY <1>2, StepNumbers DEF TurnsInv, TurnsLeft
  <2> QED
    BY <2>1, <2>2
<1>4. CASE op' # NoOp /\ op'.at # "idle"
  <2>1. StepsLeft' = 9 * TurnsLeft' + Distance(op'.at) + (OpBytes - op'.bytes)
    BY <1>4 DEF StepsLeft
  <2>2. CASE op'.retries = op.retries /\ op'.redirects = op.redirects
    <3>1. TurnsLeft' = TurnsLeft /\ TurnsInv' /\ TurnsLeft \in Nat
      BY <2>2, StepNumbers DEF TurnsLeft, TurnsInv
    <3>2. /\ op'.bytes >= op.bytes
          /\ \/ Distance(op'.at) < Distance(op.at)
             \/ op'.at = op.at /\ op'.bytes > op.bytes
      <4>1. op.retries # op.retries + 1 /\ op.redirects # op.redirects + 1
        BY StepNumbers
      <4> QED
        BY <1>4, <2>2, <4>1 DEF Nearer
    <3> HIDE DEF TurnsLeft, TurnsInv
    <3> QED
      BY <1>1, <1>2, <2>1, <3>1, <3>2, StepNumbers
  <2>3. CASE ~(op'.retries = op.retries /\ op'.redirects = op.redirects)
    <3>1. /\ op'.at = "loop" /\ op'.bytes >= op.bytes
          /\ \/ op'.retries = op.retries + 1 /\ op'.redirects = op.redirects
                /\ op.retries < RetryCount
             \/ op'.redirects = op.redirects + 1 /\ op'.retries = op.retries
                /\ op.redirects < RedirectCount
      BY <1>4, <2>3 DEF Nearer
    <3>2. TurnsInv' /\ TurnsLeft' = TurnsLeft - 1 /\ TurnsLeft \in Nat
      BY <3>1, StepNumbers DEF TurnsInv, TurnsLeft
    <3>3. Distance(op'.at) = 8
      BY <3>1 DEF Distance
    <3> QED
      BY <1>1, <1>2, <2>1, <3>1, <3>2, <3>3, StepNumbers
  <2> QED
    BY <2>2, <2>3
<1>5. CASE op' # NoOp /\ op'.at = "idle"
  <2>1. /\ op'.retries = op.retries /\ op'.redirects = op.redirects
    BY <1>5 DEF Nearer
  <2>2. TurnsInv' /\ StepsLeft' = 0
    BY <1>5, <2>1 DEF TurnsInv, StepsLeft
  <2>3. StepsLeft > 0
    BY <1>2, StepNumbers DEF TurnsInv, TurnsLeft
  <2> QED
    BY <2>2, <2>3
<1> QED
  BY <1>3, <1>4, <1>5

\* A fetch as a step computes it, before anything is said of its bounds.
Drafts ==
  [at : Stages, offset : Nat, retries : Nat, redirects : Nat, requests : Nat, bytes : Nat,
   resolved : BOOLEAN, version : {0} \cup Versions, next : Nat, sized : BOOLEAN]

LEMMA Drafted == Inv => op \in Drafts
<1>1. 0..OpRequests \subseteq Nat /\ 0..OpBytes \subseteq Nat
  BY BoundsArePositive
<1> QED
  BY <1>1 DEF Inv, TypeOK, Fetches, Drafts

\* A retry gives up or begins another turn.
LEMMA RetryIsNearer ==
  ASSUME NEW o \in Drafts, NEW u, Retry(o, u),
         o.retries = op.retries, o.redirects = op.redirects, o.bytes >= op.bytes
  PROVE  Nearer
<1>1. CASE End("failed")
  BY <1>1 DEF End, Nearer
<1>2. CASE o.retries < RetryCount /\ op' = [o EXCEPT !.at = "loop", !.retries = @ + 1]
  <2>1. /\ op'.at = "loop" /\ op'.retries = o.retries + 1 /\ op'.redirects = o.redirects
        /\ op'.bytes = o.bytes
    BY <1>2 DEF Drafts
  <2> QED
    BY <1>2, <2>1 DEF Nearer
<1> QED
  BY <1>1, <1>2 DEF Retry, Go

\* So does every other step that does not end the fetch.
LEMMA GoIsNearer ==
  ASSUME Inv, NEW o \in Drafts, Go(o),
         o.retries = op.retries, o.redirects = op.redirects, o.bytes >= op.bytes,
         \/ Distance(o.at) < Distance(op.at)
         \/ o.at = op.at /\ o.bytes > op.bytes
  PROVE  Nearer
BY DEF Go, Nearer

\* A step that goes on in the turn without reading anything.
LEMMA AheadIsNearer ==
  ASSUME Inv, NEW a \in Stages, NEW o \in Drafts, Go([o EXCEPT !.at = a]),
         o.retries = op.retries, o.redirects = op.redirects, o.bytes = op.bytes,
         Distance(a) < Distance(op.at)
  PROVE  Nearer
<1> DEFINE next == [o EXCEPT !.at = a]
<1>1. /\ next \in Drafts /\ next.at = a /\ next.retries = op.retries
      /\ next.redirects = op.redirects /\ next.bytes >= op.bytes
  BY DEF Drafts
<1>2. Go(next)
  OBVIOUS
<1> HIDE DEF next
<1> QED
  BY <1>1, <1>2, GoIsNearer

LEMMA EndIsNearer == ASSUME NEW o, End(o) PROVE Nearer
BY DEF End, Nearer

LEMMA RequestIsNearer ==
  ASSUME Inv, CheckBudgets \/ Resolve \/ Send PROVE Nearer
<1>1. op \in Drafts
  BY Drafted
<1>2. {"paced", "resolved", "answered"} \subseteq Stages
  BY DEF Stages
<1>3. CASE CheckBudgets
  <2>1. CASE End("failed")
    BY <2>1, EndIsNearer
  <2>2. CASE Go([op EXCEPT !.at = "paced"])
    <3>1. Distance("paced") < Distance(op.at)
      BY <1>3, Distances DEF CheckBudgets
    <3> QED
      BY <1>1, <1>2, <2>2, <3>1, AheadIsNearer
  <2> QED
    BY <1>3, <2>1, <2>2 DEF CheckBudgets
<1>4. CASE Resolve
  <2>1. CASE End("refused")
    BY <2>1, EndIsNearer
  <2>2. CASE Go([op EXCEPT !.at = "resolved", !.resolved = TRUE])
    <3> DEFINE o == [op EXCEPT !.resolved = TRUE]
    <3>1. /\ o \in Drafts /\ o.retries = op.retries /\ o.redirects = op.redirects
          /\ o.bytes = op.bytes
      BY <1>1 DEF Drafts
    <3>2. [op EXCEPT !.at = "resolved", !.resolved = TRUE] = [o EXCEPT !.at = "resolved"]
      BY <1>1 DEF Drafts
    <3>3. Distance("resolved") < Distance(op.at)
      BY <1>4, Distances DEF Resolve
    <3>4. Go([o EXCEPT !.at = "resolved"])
      BY <2>2, <3>2
    <3> HIDE DEF o
    <3> QED
      BY <1>2, <3>1, <3>3, <3>4, AheadIsNearer
  <2>3. CASE RetryResolution(op)
    <3>1. op.bytes >= op.bytes
      BY <1>1 DEF Drafts
    <3> QED
      BY <1>1, <2>3, <3>1, RetryIsNearer DEF RetryResolution
  <2> QED
    BY <1>4, <2>1, <2>2, <2>3 DEF Resolve
<1>5. CASE Send
  <2> DEFINE o == [op EXCEPT !.requests = @ + 1]
             u == [used EXCEPT !.requests = @ + 1]
  <2>1. /\ o \in Drafts /\ o.retries = op.retries /\ o.redirects = op.redirects
        /\ o.bytes = op.bytes /\ o.bytes >= op.bytes
    BY <1>1 DEF Drafts
  <2>2. CASE End("refused") \/ End("failed")
    BY <2>2, EndIsNearer
  <2>3. CASE Retry(o, u)
    <3> HIDE DEF o, u
    <3> QED
      BY <2>1, <2>3, RetryIsNearer
  <2>4. CASE Go([o EXCEPT !.at = "answered"])
    <3>1. Distance("answered") < Distance(op.at)
      BY <1>5, Distances DEF Send
    <3> HIDE DEF o
    <3> QED
      BY <1>2, <2>1, <2>4, <3>1, AheadIsNearer
  <2> QED
    BY <1>5, <2>2, <2>3, <2>4 DEF Send
<1> QED
  BY <1>3, <1>4, <1>5

LEMMA AnswerIsNearer ==
  ASSUME Inv, \/ FollowRedirect \/ ReadErrorStatus
              \/ \E v \in {0} \cup Versions : OpenBody(v)
  PROVE  Nearer
<1>1. op \in Drafts
  BY Drafted
<1>2. CASE FollowRedirect
  <2>1. CASE End("failed") \/ End("refused")
    BY <2>1, EndIsNearer
  <2>2. CASE /\ op.redirects < RedirectCount
             /\ Go([op EXCEPT !.at = "loop", !.redirects = @ + 1, !.offset = 0])
    <3>1. /\ op'.at = "loop" /\ op'.redirects = op.redirects + 1 /\ op'.retries = op.retries
          /\ op'.bytes >= op.bytes
      BY <1>1, <2>2 DEF Drafts, Go
    <3> QED
      BY <2>2, <3>1 DEF Nearer
  <2> QED
    BY <1>2, <2>1, <2>2 DEF FollowRedirect
<1>3. CASE ReadErrorStatus
  <2>1. PICK n \in 0..1 :
          \/ Retry([op EXCEPT !.bytes = @ + n], [used EXCEPT !.bytes = @ + n])
          \/ End("failed") \/ End("refused")
    BY <1>3 DEF ReadErrorStatus
  <2> DEFINE o == [op EXCEPT !.bytes = @ + n]
             u == [used EXCEPT !.bytes = @ + n]
  <2>2. o \in Drafts /\ o.retries = op.retries /\ o.redirects = op.redirects /\ o.bytes >= op.bytes
    BY <1>1 DEF Drafts
  <2>3. CASE Retry(o, u)
    <3> HIDE DEF o, u
    <3> QED
      BY <2>2, <2>3, RetryIsNearer
  <2> QED
    BY <2>1, <2>3, EndIsNearer
<1>4. CASE \E v \in {0} \cup Versions : OpenBody(v)
  <2>1. PICK v \in {0} \cup Versions : OpenBody(v)
    BY <1>4
  <2>2. ASSUME NEW sized \in BOOLEAN, NEW first \in Nat, Opened(v, sized, first)
        PROVE  Nearer
    <3> DEFINE o == [op EXCEPT !.version = v, !.sized = sized, !.next = first]
    <3>1. /\ o \in Drafts /\ o.retries = op.retries /\ o.redirects = op.redirects
          /\ o.bytes = op.bytes
      BY <1>1 DEF Drafts
    <3>2. [op EXCEPT !.at = "body", !.version = v, !.sized = sized, !.next = first]
            = [o EXCEPT !.at = "body"]
      BY <1>1 DEF Drafts
    <3>3. Go([o EXCEPT !.at = "body"])
      BY <2>2, <3>2 DEF Opened
    <3>4. Distance("body") < Distance(op.at) /\ "body" \in Stages
      BY <2>1, Distances DEF OpenBody, Stages
    <3> HIDE DEF o
    <3> QED
      BY <3>1, <3>3, <3>4, AheadIsNearer
  <2>3. op.offset + 1 \in Nat /\ 1 \in Nat
    BY <1>1 DEF Drafts
  <2>4. \/ End("failed") \/ End("integrity")
        \/ \E sized \in BOOLEAN : Opened(v, sized, 1) \/ Opened(v, sized, op.offset + 1)
    BY <2>1 DEF OpenBody
  <2> QED
    BY <2>2, <2>3, <2>4, EndIsNearer
<1> QED
  BY <1>2, <1>3, <1>4

LEMMA BodyIsNearer == ASSUME Inv, ReceiveBlock \/ LoseBody \/ EndBody PROVE Nearer
<1>1. op \in Drafts
  BY Drafted
<1>2. CASE ReceiveBlock
  <2> DEFINE o == [op EXCEPT !.bytes = @ + 1, !.next = @ + 1]
             u == [used EXCEPT !.bytes = @ + 1]
             l == [o EXCEPT !.offset = Len(part')]
  <2>1. /\ o \in Drafts /\ o.retries = op.retries /\ o.redirects = op.redirects
        /\ o.bytes >= op.bytes /\ o.bytes > op.bytes /\ o.at = op.at
    <3>1. op.bytes \in Nat /\ op.next \in Nat
      BY <1>1 DEF Drafts
    <3>2. op.bytes + 1 \in Nat /\ op.next + 1 \in Nat
      BY <3>1
    <3>3. o \in Drafts
      BY <1>1, <3>2 DEF Drafts
    <3>4. /\ o.retries = op.retries /\ o.redirects = op.redirects
          /\ o.bytes = op.bytes + 1 /\ o.at = op.at
      BY <1>1 DEF Drafts
    <3> HIDE DEF o
    <3> QED
      BY <3>1, <3>3, <3>4
  <2>2. Go(o) \/ Retry(l, u)
    BY <1>2 DEF ReceiveBlock
  <2>3. l \in Drafts /\ l.retries = op.retries /\ l.redirects = op.redirects /\ l.bytes >= op.bytes
    <3>1. Len(part') \in Nat
      BY ReceiveKeeps, <1>2 DEF Inv, TypeOK, Files
    <3> HIDE DEF o
    <3> QED
      BY <2>1, <3>1 DEF Drafts
  <2> HIDE DEF o, u, l
  <2>4. CASE Go(o)
    BY <2>1, <2>4, GoIsNearer
  <2>5. CASE Retry(l, u)
    BY <2>3, <2>5, RetryIsNearer
  <2> QED
    BY <2>2, <2>4, <2>5
<1>3. CASE LoseBody
  <2> DEFINE l == [op EXCEPT !.offset = Len(part)]
  <2>1. l \in Drafts /\ l.retries = op.retries /\ l.redirects = op.redirects /\ l.bytes >= op.bytes
    <3>1. Len(part) \in Nat
      BY DEF Inv, TypeOK, Files
    <3> QED
      BY <1>1, <3>1 DEF Drafts
  <2>2. Retry(l, used)
    BY <1>3 DEF LoseBody
  <2> HIDE DEF l
  <2> QED
    BY <2>1, <2>2, RetryIsNearer
<1>4. CASE EndBody
  <2>1. Distance("received") < Distance(op.at) /\ "received" \in Stages
    BY <1>4, Distances DEF EndBody, Stages
  <2>2. Go([op EXCEPT !.at = "received"])
    BY <1>4 DEF EndBody
  <2> QED
    BY <1>1, <2>1, <2>2, AheadIsNearer
<1> QED
  BY <1>2, <1>3, <1>4

LEMMA AdmissionIsNearer == ASSUME Inv, Admit \/ Install \/ WriteMetadata PROVE Nearer
<1>1. op \in Drafts /\ {"admitted", "installed"} \subseteq Stages
  BY Drafted DEF Stages
<1>2. CASE End("refused") \/ End("failed") \/ End("fetched")
  BY <1>2, EndIsNearer
<1>3. CASE Go([op EXCEPT !.at = "admitted"]) /\ op.at = "received"
  <2>1. Distance("admitted") < Distance(op.at)
    BY <1>3, Distances
  <2> QED
    BY <1>1, <1>3, <2>1, AheadIsNearer
<1>4. CASE Go([op EXCEPT !.at = "installed"]) /\ op.at = "admitted"
  <2>1. Distance("installed") < Distance(op.at)
    BY <1>4, Distances
  <2> QED
    BY <1>1, <1>4, <2>1, AheadIsNearer
<1> QED
  BY <1>2, <1>3, <1>4 DEF Admit, Install, WriteMetadata

LEMMA StepIsNearer == ASSUME Inv, Step PROVE op.at # "idle" /\ Nearer
<1>1. op.at # "idle"
  BY DEF Step, CheckBudgets, Resolve, Send, FollowRedirect, ReadErrorStatus, OpenBody,
     ReceiveBlock, LoseBody, EndBody, Admit, Install, WriteMetadata
<1> QED
  BY <1>1, RequestIsNearer, AnswerIsNearer, BodyIsNearer, AdmissionIsNearer DEF Step

\* Only the steps of a fetch change its counters, until it ends or begins.
LEMMA OthersKeepTurns ==
  ASSUME Inv, TurnsInv, [Next]_vars, ~Step PROVE TurnsInv'
<1>1. op' = op \/ op' = NoOp \/ op' = [NoOp EXCEPT !.at = "loop", !.offset = Len(part)]
  BY DEF Next, Fetch, End, Go, Kill, Publish, Expire, Withdraw, Reauthorize, vars
<1>2. RetryCount >= 0 /\ RedirectCount >= 0
  BY DownloadAssumption
<1>3. \/ op'.retries = op.retries /\ op'.redirects = op.redirects
      \/ op'.retries = 0 /\ op'.redirects = 0
  <2>1. CASE op' = op
    BY <2>1
  <2>2. CASE op' = NoOp
    BY <2>2 DEF NoOp
  <2>3. CASE op' = [NoOp EXCEPT !.at = "loop", !.offset = Len(part)]
    BY <2>3 DEF NoOp
  <2> QED
    BY <1>1, <2>1, <2>2, <2>3
<1> QED
  BY <1>2, <1>3 DEF TurnsInv

\* Every fetch ends after a number of steps that RetryCount, RedirectCount and the
\* bytes its authorization allows determine, whatever names, connections and
\* answers do: what FetchEnds says, without the fairness that makes it take them.
THEOREM FetchesAreBounded == Spec => FetchIsBounded
<1>1. Init => TurnsInv
  BY DownloadAssumption DEF Init, NoOp, TurnsInv
<1>2. Inv /\ Inv' /\ TurnsInv /\ [Next]_vars =>
        TurnsInv' /\ [Step => StepsLeft' < StepsLeft]_vars
  BY StepIsNearer, NearerIsFewer, OthersKeepTurns
<1>3. Inv /\ TurnsInv => StepsLeft \in 0..MaxSteps
  BY StepsInRange
<1>4. Spec => []TurnsInv
  BY <1>1, <1>2, Invariance, PTL DEF Spec
<1>5. Spec => [](StepsLeft \in 0..MaxSteps)
  BY <1>3, <1>4, Invariance, PTL
<1>6. Spec => [][Step => StepsLeft' < StepsLeft]_vars
  BY <1>2, <1>4, Invariance, PTL DEF Spec
<1> QED
  BY <1>5, <1>6 DEF FetchIsBounded
-----------------------------------------------------------------------------
(* The cache appears atomic *)

Working == {"loop", "paced", "resolved", "answered", "body", "received", "admitted"}

\* No fetch goes past the check of the cache while its two files do not belong
\* together, and nothing but its own replacement parts them.
WorksOnPaired == op.at \in Working => Paired

\* A step between the check of the cache and the first replacement.
Aside ==
  /\ op.at \in Working /\ UNCHANGED <<data, meta>>
  /\ \/ op' = NoOp /\ outcome' \notin {"cached", "fetched"}
     \/ op'.at \in Working

\* What _read_cache refuses is what does not belong together.
LEMMA TornIsUnpaired == Torn <=> ~Paired
BY DEF Torn, Paired

\* However a fetch tries again, goes on or gives up, it stays aside.
LEMMA RetryIsAside ==
  ASSUME NEW o \in Drafts, NEW u, Retry(o, u), op.at \in Working, UNCHANGED <<data, meta>>
  PROVE  Aside
<1>1. CASE End("failed")
  BY <1>1 DEF End, Aside
<1>2. CASE Go([o EXCEPT !.at = "loop", !.retries = @ + 1])
  <2>1. op'.at = "loop"
    BY <1>2 DEF Go, Drafts
  <2> QED
    BY <2>1 DEF Aside, Working
<1> QED
  BY <1>1, <1>2 DEF Retry

LEMMA GoIsAside ==
  ASSUME NEW o \in Drafts, NEW at \in Working, Go([o EXCEPT !.at = at]),
         op.at \in Working, UNCHANGED <<data, meta>>
  PROVE  Aside
BY DEF Go, Drafts, Aside

LEMMA EndIsAside ==
  ASSUME End("failed") \/ End("refused") \/ End("integrity"),
         op.at \in Working, UNCHANGED <<data, meta>>
  PROVE  Aside
BY DEF End, Aside

\* So does every step up to the admission.
LEMMA RequestIsAside == ASSUME Inv, CheckBudgets \/ Resolve \/ Send PROVE Aside
<1>1. op \in Drafts /\ op.at \in Working /\ UNCHANGED <<data, meta>>
  BY Drafted DEF CheckBudgets, Resolve, Send, cache, Working
<1>2. CASE CheckBudgets
  BY <1>1, <1>2, EndIsAside, GoIsAside DEF CheckBudgets, Working
<1>3. CASE Resolve
  <2>1. CASE Go([op EXCEPT !.at = "resolved", !.resolved = TRUE])
    <3>1. op'.at = "resolved"
      BY <1>1, <2>1 DEF Go, Drafts
    <3> QED
      BY <1>1, <3>1 DEF Aside, Working
  <2> QED
    BY <1>1, <1>3, <2>1, EndIsAside, RetryIsAside DEF Resolve, RetryResolution
<1>4. CASE Send
  <2> DEFINE o == [op EXCEPT !.requests = @ + 1]
  <2>1. o \in Drafts
    BY <1>1 DEF Drafts
  <2>2. \/ End("failed") \/ End("refused")
        \/ Retry(o, [used EXCEPT !.requests = @ + 1])
        \/ Go([o EXCEPT !.at = "answered"])
    BY <1>4 DEF Send
  <2> HIDE DEF o
  <2>3. "answered" \in Working
    BY DEF Working
  <2> QED
    BY <1>1, <2>1, <2>2, <2>3, EndIsAside, RetryIsAside, GoIsAside
<1> QED
  BY <1>2, <1>3, <1>4

LEMMA AnswerIsAside ==
  ASSUME Inv, \/ FollowRedirect \/ ReadErrorStatus
              \/ \E v \in {0} \cup Versions : OpenBody(v)
  PROVE  Aside
<1>1. op \in Drafts /\ op.at \in Working /\ UNCHANGED <<data, meta>>
  BY Drafted DEF FollowRedirect, ReadErrorStatus, OpenBody, cache, Working
<1>2. CASE FollowRedirect
  <2>1. CASE Go([op EXCEPT !.at = "loop", !.redirects = @ + 1, !.offset = 0])
    <3>1. op'.at = "loop"
      BY <1>1, <2>1 DEF Go, Drafts
    <3> QED
      BY <1>1, <3>1 DEF Aside, Working
  <2> QED
    BY <1>1, <1>2, <2>1, EndIsAside DEF FollowRedirect
<1>3. CASE ReadErrorStatus
  <2>1. PICK n \in 0..1 :
          \/ Retry([op EXCEPT !.bytes = @ + n], [used EXCEPT !.bytes = @ + n])
          \/ End("failed") \/ End("refused")
    BY <1>3 DEF ReadErrorStatus
  <2>2. [op EXCEPT !.bytes = @ + n] \in Drafts
    BY <1>1 DEF Drafts
  <2> QED
    BY <1>1, <2>1, <2>2, EndIsAside, RetryIsAside
<1>4. CASE \E v \in {0} \cup Versions : OpenBody(v)
  <2>1. ASSUME NEW v, NEW sized, NEW first, Opened(v, sized, first) PROVE Aside
    <3>1. op'.at = "body"
      BY <1>1, <2>1 DEF Opened, Go, Drafts
    <3> QED
      BY <1>1, <3>1 DEF Aside, Working
  <2>2. \/ End("failed") \/ End("integrity")
        \/ \E v, sized, first : Opened(v, sized, first)
    BY <1>4 DEF OpenBody
  <2> QED
    BY <1>1, <2>1, <2>2, EndIsAside
<1> QED
  BY <1>2, <1>3, <1>4

LEMMA BodyIsAside == ASSUME Inv, ReceiveBlock \/ LoseBody \/ EndBody \/ Admit PROVE Aside
<1>1. op \in Drafts /\ op.at \in Working /\ UNCHANGED <<data, meta>>
  BY Drafted DEF ReceiveBlock, LoseBody, EndBody, Admit, cache, Working
<1>2. CASE ReceiveBlock
  <2> DEFINE o == [op EXCEPT !.bytes = @ + 1, !.next = @ + 1]
             l == [o EXCEPT !.offset = Len(part')]
  <2>1. o \in Drafts /\ o.at = op.at
    <3>1. op.bytes \in Nat /\ op.next \in Nat
      BY <1>1 DEF Drafts
    <3>2. op.bytes + 1 \in Nat /\ op.next + 1 \in Nat
      BY <3>1
    <3> QED
      BY <1>1, <3>2 DEF Drafts
  <2>2. l \in Drafts
    <3>1. Len(part') \in Nat
      BY ReceiveKeeps, <1>2 DEF Inv, TypeOK, Files
    <3> HIDE DEF o
    <3> QED
      BY <2>1, <3>1 DEF Drafts
  <2>3. Go(o) \/ Retry(l, [used EXCEPT !.bytes = @ + 1])
    BY <1>2 DEF ReceiveBlock
  <2> HIDE DEF o, l
  <2>4. CASE Go(o)
    BY <1>1, <2>1, <2>4 DEF Go, Aside
  <2> QED
    BY <1>1, <2>2, <2>3, <2>4, RetryIsAside
<1>3. CASE LoseBody
  <2>1. [op EXCEPT !.offset = Len(part)] \in Drafts
    <3>1. Len(part) \in Nat
      BY DEF Inv, TypeOK, Files
    <3> QED
      BY <1>1, <3>1 DEF Drafts
  <2> QED
    BY <1>1, <1>3, <2>1, RetryIsAside DEF LoseBody
<1>4. CASE EndBody
  BY <1>1, <1>4, GoIsAside DEF EndBody, Working
<1>5. CASE Admit
  BY <1>1, <1>5, EndIsAside, GoIsAside DEF Admit, Working
<1> QED
  BY <1>2, <1>3, <1>4, <1>5

\* Such a step is not noticed by whoever fetches from the cache.
LEMMA AsideIsUnseen ==
  ASSUME Aside PROVE UNCHANGED <<Shown, Paired, op.at = "installed", Answer>>
<1>1. NoOp.at = "idle"
  BY DEF NoOp
<1>2. Shown' = Shown /\ Paired' = Paired
  BY DEF Aside, Shown, Paired, Described
<1>3. op.at \notin {"idle", "installed"} /\ op'.at # "installed"
  BY <1>1 DEF Aside, Working
<1>4. Answer = None /\ Answer' = None
  BY <1>1, <1>3 DEF Aside, Answer, Working
<1> QED
  BY <1>2, <1>3, <1>4

\* No file looks like an absent one.
LEMMA FilesAreThere ==
  ASSUME NEW f \in Files PROVE f \in Seq([version : Nat, index : Nat]) /\ f # None
<1>1. Blocks \subseteq [version : Nat, index : Nat]
  BY DownloadAssumption DEF Blocks, Versions
<1>2. f \in Seq([version : Nat, index : Nat])
  BY <1>1, SeqMonotonic DEF Files
<1> QED
  BY <1>2, NoneAssumption

\* Nor does content with its description.
LEMMA CopiesAreThere ==
  ASSUME NEW f \in Files, NEW sized \in BOOLEAN
  PROVE  [content |-> f, sized |-> sized] # None
<1>1. f \in Seq([version : Nat, index : Nat])
  BY FilesAreThere
<1> QED
  BY <1>1, NoneAssumption

\* A fetch begins by answering what there is, or with nothing.
LEMMA FetchIsSeen ==
  ASSUME Inv, NEW refresh \in BOOLEAN, Fetch(refresh)
  PROVE  /\ Promise!Serve \/ Promise!Miss
         /\ WorksOnPaired'
<1>1. op.at = "idle" /\ UNCHANGED <<data, meta>> /\ NoOp.at = "idle"
  BY DEF Fetch, NoOp
<1>2. UNCHANGED <<Shown, Paired>>
  BY <1>1 DEF Shown, Paired, Described
<1>3. CASE End("cached") /\ ~Torn /\ meta # None
  <2>1. Paired /\ Shown = [content |-> data, sized |-> meta.sized]
    BY <1>3, TornIsUnpaired DEF Shown, Described
  <2>2. data \in Files /\ meta.sized \in BOOLEAN
    BY <1>3, <2>1 DEF Paired, Inv, TypeOK, Metas
  <2>3. Shown # None
    BY <2>1, <2>2, CopiesAreThere
  <2>4. op'.at = "idle" /\ Answer' = Shown
    BY <1>1, <1>3, <2>1 DEF End, Answer, Described
  <2> QED
    BY <1>1, <1>2, <2>1, <2>3, <2>4 DEF Promise!Serve, WorksOnPaired, Working
<1>4. CASE End("integrity") \/ End("refused")
  <2>1. op'.at = "idle" /\ Answer' = None
    BY <1>1, <1>4 DEF End, Answer
  <2> QED
    BY <1>1, <1>2, <2>1 DEF Promise!Miss, WorksOnPaired, Working
<1>5. CASE Go([NoOp EXCEPT !.at = "loop", !.offset = Len(part)]) /\ ~Torn
  <2>1. op'.at = "loop" /\ Answer' = None
    BY <1>5 DEF Go, NoOp, Answer
  <2> QED
    BY <1>1, <1>2, <1>5, <2>1, TornIsUnpaired DEF Promise!Miss, WorksOnPaired
<1> QED
  BY <1>3, <1>4, <1>5 DEF Fetch

\* The copy is replaced: what it was replaced by is not shown before its metadata
\* is written.
LEMMA InstallIsSeen ==
  ASSUME Inv, WorksOnPaired, Install PROVE Promise!Begin /\ WorksOnPaired'
<1>1. op.at = "admitted" /\ op'.at = "installed" /\ meta' = meta
  BY DEF Install, Go, Inv, TypeOK, Fetches
<1>2. Paired /\ Answer' = None
  BY <1>1 DEF WorksOnPaired, Working, Answer
<1>3. CASE Paired'
  <2>1. data' = data
    BY <1>1, <1>2, <1>3 DEF Paired
  <2>2. Shown' = Shown
    BY <1>1, <1>2, <1>3, <2>1 DEF Shown, Described
  <2> QED
    BY <1>1, <1>2, <1>3, <2>2 DEF Promise!Begin, WorksOnPaired, Working
<1>4. CASE ~Paired'
  <2>1. Shown' = None /\ Paired' = FALSE
    BY <1>4 DEF Shown, Paired, Described
  <2>2. Promise!Begin
    BY <1>1, <1>2, <2>1 DEF Promise!Begin
  <2> QED
    BY <1>1, <2>2 DEF WorksOnPaired, Working
<1> QED
  BY <1>3, <1>4

\* A file in order, whole if it was announced, is a copy when it is described.
LEMMA FileIsCopy ==
  ASSUME NEW f \in Files, NEW sized \in BOOLEAN, Ordered(f), sized => Whole(f)
  PROVE  [content |-> f, sized |-> sized] \in Copies
<1>1. f \in Seq([version : {0} \cup Versions, index : Nat])
  BY DEF Files, Blocks
<1>2. AsAnnounced(f, sized)
  BY DEF AsAnnounced, Ordered, Whole
<1> QED
  BY <1>1, <1>2 DEF Copies

\* Its metadata makes one copy of what was put there.
LEMMA MetadataIsSeen ==
  ASSUME Inv, WriteMetadata PROVE Promise!Put /\ WorksOnPaired'
<1>1. /\ op.at = "installed" /\ data' = data /\ op' = NoOp /\ outcome' = "fetched"
      /\ meta' = [content |-> data, fresh |-> TRUE, sized |-> op.sized] /\ NoOp.at = "idle"
  BY DEF WriteMetadata, End, NoOp
<1>2. data \in Files /\ Ordered(data) /\ op.sized \in BOOLEAN /\ (op.sized => Whole(data))
  BY <1>1 DEF Inv, TypeOK, InstalledIsWhole, Fetches
<1>3. data \in Seq([version : Nat, index : Nat]) /\ data # None
  BY <1>2, FilesAreThere
<1>4. [content |-> data, sized |-> op.sized] \in Copies
  BY <1>2, FileIsCopy
<1>5. meta' # None /\ meta'.content = data /\ meta'.sized = op.sized
  <2>1. meta' \in [content : Seq([version : Nat, index : Nat]), fresh : BOOLEAN, sized : BOOLEAN]
    BY <1>1, <1>2, <1>3
  <2> QED
    BY <1>1, <2>1, NoneAssumption
<1>6. Paired' /\ Described' = [content |-> data, sized |-> op.sized]
  BY <1>1, <1>3, <1>5 DEF Paired, Described
<1>7. Shown' = Described' /\ Answer' = Described' /\ op'.at # "installed"
  BY <1>1, <1>6 DEF Shown, Answer
<1> QED
  BY <1>1, <1>4, <1>6, <1>7 DEF Promise!Put, WorksOnPaired, Working

\* A kill between the two replacements gives up; anywhere else it is not noticed.
LEMMA KillIsSeen ==
  ASSUME Inv, Kill PROVE Aside \/ (Promise!GiveUp /\ WorksOnPaired')
<1>1. /\ op.at # "idle" /\ UNCHANGED <<data, meta>>
      /\ op' = NoOp /\ outcome' = "killed" /\ NoOp.at = "idle"
  BY DEF Kill, End, cache, NoOp
<1>2. CASE op.at = "installed"
  <2>1. Answer' = None /\ Shown' = Shown /\ Paired' = Paired
    BY <1>1 DEF Answer, Shown, Paired, Described
  <2> QED
    BY <1>1, <1>2, <2>1 DEF Promise!GiveUp, WorksOnPaired, Working
<1>3. CASE op.at # "installed"
  <2>1. op.at \in Working
    BY <1>1, <1>3 DEF Inv, TypeOK, Fetches, Stages, Working
  <2> QED
    BY <1>1, <2>1 DEF Aside
<1> QED
  BY <1>2, <1>3

\* Time, the provider and the owner change nothing of what is shown.
LEMMA SurroundingsAreUnseen ==
  ASSUME Inv, Publish \/ Expire \/ Withdraw \/ Reauthorize \/ UNCHANGED vars
  PROVE  UNCHANGED <<Shown, Paired, op, Answer>>
<1>1. UNCHANGED <<data, op, outcome>>
  BY DEF Publish, Expire, Withdraw, Reauthorize, vars, cache
<1>2. \/ meta' = meta
      \/ /\ meta # None /\ meta' # None
         /\ meta'.content = meta.content /\ meta'.sized = meta.sized
  <2>1. CASE Expire
    <3>1. meta \in Metas /\ meta # None /\ meta' = [meta EXCEPT !.fresh = FALSE]
      BY <2>1 DEF Expire, Inv, TypeOK
    <3>2. meta' = [content |-> meta.content, fresh |-> FALSE, sized |-> meta.sized]
      BY <3>1 DEF Metas
    <3>3. meta.content \in Seq([version : Nat, index : Nat]) /\ meta.sized \in BOOLEAN
      BY <3>1, FilesAreThere DEF Metas
    <3>4. meta' \in [content : Seq([version : Nat, index : Nat]), fresh : BOOLEAN, sized : BOOLEAN]
      BY <3>2, <3>3
    <3> QED
      BY <3>1, <3>2, <3>4, NoneAssumption
  <2> QED
    BY <2>1 DEF Publish, Withdraw, Reauthorize, vars, cache
<1>3. Paired' = Paired
  BY <1>1, <1>2 DEF Paired
<1>4. Shown' = Shown /\ Answer' = Answer
  BY <1>1, <1>2, <1>3 DEF Shown, Answer, Described
<1> QED
  BY <1>1, <1>3, <1>4

\* Every step is one of the atomic cache, or none.
LEMMA CacheStep ==
  ASSUME Inv, WorksOnPaired, [Next]_vars
  PROVE  WorksOnPaired' /\ [Promise!Next]_<<Shown, Paired, op.at = "installed", Answer>>
<1>1. CASE \E refresh \in BOOLEAN : Fetch(refresh)
  BY <1>1, FetchIsSeen DEF Promise!Next
<1>2. CASE Install
  BY <1>2, InstallIsSeen DEF Promise!Next
<1>3. CASE WriteMetadata
  BY <1>3, MetadataIsSeen DEF Promise!Next
<1>4. CASE Aside
  <2>1. WorksOnPaired'
    BY <1>4, AsideIsUnseen DEF Aside, WorksOnPaired, NoOp, Working
  <2> QED
    BY <1>4, <2>1, AsideIsUnseen
<1>5. CASE Kill
  BY <1>4, <1>5, KillIsSeen DEF Promise!Next
<1>6. CASE Publish \/ Expire \/ Withdraw \/ Reauthorize \/ UNCHANGED vars
  BY <1>6, SurroundingsAreUnseen DEF WorksOnPaired
<1>7. CASE Step /\ ~Install /\ ~WriteMetadata
  BY <1>4, <1>7, RequestIsAside, AnswerIsAside, BodyIsAside DEF Step
<1> QED
  BY <1>1, <1>2, <1>3, <1>5, <1>6, <1>7 DEF Next

\* The two files that hold a copy are replaced as one: whatever is lost, resumed,
\* redirected, challenged, withdrawn or killed, every answer is content with the
\* description that was written for it, in order and as long as announced, and a
\* cache that was left between its two replacements refuses from then on.
THEOREM CacheAppearsAtomic == Spec => CacheIsAtomic
<1>1. Init => Promise!Init /\ WorksOnPaired
  BY DEF Init, NoOp, Promise!Init, Shown, Paired, Described, Answer, WorksOnPaired, Working
<1>2. Spec => []WorksOnPaired
  BY <1>1, CacheStep, Invariance, PTL DEF Spec
<1>3. Inv /\ WorksOnPaired /\ [Next]_vars
        => [Promise!Next]_<<Shown, Paired, op.at = "installed", Answer>>
  BY CacheStep
<1>4. Spec => [][Promise!Next]_<<Shown, Paired, op.at = "installed", Answer>>
  BY <1>2, <1>3, Invariance, PTL DEF Spec
<1>5. Promise!vars = <<Shown, Paired, op.at = "installed", Answer>>
  BY DEF Promise!vars
<1> QED
  BY <1>1, <1>4, <1>5, PTL DEF Spec, CacheIsAtomic, Promise!Spec, Promise!vars
=============================================================================
