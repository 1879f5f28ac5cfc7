-------------------------- MODULE RunLifecycleProofs --------------------------
(***************************************************************************)
(* Theorems about RunLifecycle, the time it accounts for, its refinement   *)
(* of ResumableRun and its status reader, for every number of processes,   *)
(* runs, phases and attempts.                                              *)
(***************************************************************************)
EXTENDS RunRefinement, RunStatusReader, RunTime, SequenceTheorems, FiniteSetTheorems,
        WellFoundedInduction, TLAPS

-----------------------------------------------------------------------------
(* Sums over finite sets.  SumFunction takes the terms in an arbitrary order; the *)
(* lemmas say that the order does not matter for what is needed of it below.      *)

\* The least-number principle, for a set of numbers.
LEMMA LeastExists ==
  ASSUME NEW T \in SUBSET Nat, T # {}
  PROVE  \E m \in T : \A k \in T : m <= k
<1>1. IsWellFoundedOn(OpToRel(<, Nat), Nat)
  BY NatLessThanWellFounded
<1>2. PICK m \in T : \A k \in T : ~(<<k, m>> \in OpToRel(<, Nat))
  BY <1>1, WFMin
<1>3. \A k \in T : k < m => <<k, m>> \in OpToRel(<, Nat)
  BY DEF OpToRel
<1>4. \A k \in T : ~(k < m)
  BY <1>2, <1>3, Zenon
<1> QED
  BY <1>4

\* The term SumFunctionOnSet adds first.
First(s) == CHOOSE x \in s : TRUE

\* The partial sums of f over the subsets of S, as SumFunctionOnSet defines them.
AreSums(h, f, S) ==
  h = [s \in SUBSET S |-> IF s = {} THEN 0 ELSE f[First(s)] + h[s \ {First(s)}]]

Sums(f, S) == CHOOSE h : AreSums(h, f, S)

LEMMA SumIsChosen ==
  ASSUME NEW f, NEW S
  PROVE  SumFunctionOnSet(f, S) = Sums(f, S)[S]
BY DEF SumFunctionOnSet, FoldFunctionOnSet, MapThenFoldSet, Sums, AreSums, First

\* Taking one element out of a set that is not too large.
LEMMA FirstTakenOut ==
  ASSUME NEW S, IsFiniteSet(S), NEW s \in SUBSET S, s # {}
  PROVE  /\ First(s) \in s
         /\ s \ {First(s)} \in SUBSET S
         /\ Cardinality(s) \in Nat \ {0}
         /\ Cardinality(s \ {First(s)}) = Cardinality(s) - 1
<1>1. First(s) \in s
  BY DEF First
<1>2. IsFiniteSet(s)
  BY FS_Subset
<1>3. Cardinality(s) \in Nat /\ Cardinality(s) # 0
  BY <1>2, FS_CardinalityType, FS_EmptySet
<1> QED
  BY <1>1, <1>2, <1>3, FS_RemoveElement

\* Partial sums of the sets with at most n elements.
UpTo(n, S) == {s \in SUBSET S : Cardinality(s) <= n}

SumsUpTo(h, n, f, S) ==
  /\ h \in [UpTo(n, S) -> Int]
  /\ \A s \in UpTo(n, S) : h[s] = IF s = {} THEN 0 ELSE f[First(s)] + h[s \ {First(s)}]

LEMMA SumsGrow ==
  ASSUME NEW S, IsFiniteSet(S), NEW f \in [S -> Int], NEW n \in Nat, NEW h,
         SumsUpTo(h, n, f, S)
  PROVE  \E e : SumsUpTo(e, n + 1, f, S)
<1> DEFINE e == [s \in UpTo(n + 1, S) |-> IF s = {} THEN 0 ELSE f[First(s)] + h[s \ {First(s)}]]
<1>1. ASSUME NEW s \in UpTo(n + 1, S), s # {}
      PROVE  First(s) \in S /\ s \ {First(s)} \in UpTo(n, S)
  BY <1>1, FirstTakenOut DEF UpTo
<1>2. e \in [UpTo(n + 1, S) -> Int]
  BY <1>1 DEF SumsUpTo
<1>3. UpTo(n, S) \subseteq UpTo(n + 1, S)
  <2> SUFFICES ASSUME NEW s \in UpTo(n, S) PROVE s \in UpTo(n + 1, S)
    OBVIOUS
  <2>1. Cardinality(s) \in Nat
    BY FS_Subset, FS_CardinalityType DEF UpTo
  <2> QED
    BY <2>1 DEF UpTo
<1>4. \A s \in UpTo(n, S) : e[s] = h[s]
  BY <1>3 DEF SumsUpTo
<1>5. \A s \in UpTo(n + 1, S) : e[s] = IF s = {} THEN 0 ELSE f[First(s)] + e[s \ {First(s)}]
  BY <1>1, <1>4
<1> QED
  BY <1>2, <1>5 DEF SumsUpTo

LEMMA SumsExist ==
  ASSUME NEW S, IsFiniteSet(S), NEW f \in [S -> Int]
  PROVE  \E h : AreSums(h, f, S) /\ h \in [SUBSET S -> Int]
<1> DEFINE Missing == {n \in Nat : ~\E h : SumsUpTo(h, n, f, S)}
<1>1. 0 \notin Missing
  <2>1. \A s \in UpTo(0, S) : s = {}
    <3> SUFFICES ASSUME NEW s \in UpTo(0, S), s # {} PROVE FALSE
      OBVIOUS
    <3>1. Cardinality(s) \in Nat \ {0}
      BY FirstTakenOut DEF UpTo
    <3> QED
      BY <3>1 DEF UpTo
  <2>2. SumsUpTo([s \in UpTo(0, S) |-> 0], 0, f, S)
    BY <2>1 DEF SumsUpTo
  <2> QED
    BY <2>2
<1>2. Missing = {}
  <2> SUFFICES ASSUME Missing # {} PROVE FALSE
    OBVIOUS
  <2>1. Missing \in SUBSET Nat
    OBVIOUS
  <2> HIDE DEF Missing
  <2>2. PICK m \in Missing : \A k \in Missing : m <= k
    BY <2>1, LeastExists
  <2>3. m - 1 \in Nat /\ m - 1 \notin Missing
    BY <1>1, <2>1, <2>2
  <2>4. \E h : SumsUpTo(h, m - 1, f, S)
    BY <2>3 DEF Missing
  <2>5. \E h : SumsUpTo(h, (m - 1) + 1, f, S)
    BY <2>3, <2>4, SumsGrow
  <2>6. (m - 1) + 1 = m
    BY <2>1, <2>2
  <2>7. \E h : SumsUpTo(h, m, f, S)
    BY <2>5, <2>6
  <2> QED
    BY <2>2, <2>7 DEF Missing
<1>3. Cardinality(S) \in Nat
  BY FS_CardinalityType
<1>4. PICK h : SumsUpTo(h, Cardinality(S), f, S)
  BY <1>2, <1>3
<1>5. UpTo(Cardinality(S), S) = SUBSET S
  BY FS_Subset DEF UpTo
<1> QED
  BY <1>4, <1>5 DEF SumsUpTo, AreSums

LEMMA SumsChosen ==
  ASSUME NEW S, IsFiniteSet(S), NEW f \in [S -> Int]
  PROVE  AreSums(Sums(f, S), f, S)
BY SumsExist DEF Sums

\* Changing one term changes the partial sums it is in.
LEMMA SumsMove ==
  ASSUME NEW S, IsFiniteSet(S), NEW f \in [S -> Int], NEW g \in [S -> Int], NEW d \in Int,
         NEW K \in SUBSET S, \A x, y \in K : x = y,
         \A x \in S : g[x] = f[x] + (IF x \in K THEN d ELSE 0),
         NEW h, AreSums(h, f, S), NEW e, AreSums(e, g, S)
  PROVE  \A s \in SUBSET S : /\ h[s] \in Int
                             /\ e[s] = h[s] + (IF K \cap s # {} THEN d ELSE 0)
<1> DEFINE Good(s) == h[s] \in Int /\ e[s] = h[s] + (IF K \cap s # {} THEN d ELSE 0)
           Bad == {n \in Nat : \E s \in SUBSET S : Cardinality(s) = n /\ ~Good(s)}
<1>1. Bad = {}
  <2> SUFFICES ASSUME Bad # {} PROVE FALSE
    OBVIOUS
  <2>1. Bad \in SUBSET Nat
    OBVIOUS
  <2>2. PICK m \in Bad : \A k \in Bad : m <= k
    <3> HIDE DEF Bad
    <3> QED
      BY <2>1, LeastExists
  <2>3. PICK s \in SUBSET S : Cardinality(s) = m /\ ~Good(s)
    OBVIOUS
  <2>4. h[{}] = 0 /\ e[{}] = 0
    BY DEF AreSums
  <2>5. s # {}
    BY <2>3, <2>4
  <2> DEFINE x == First(s)
             t == s \ {x}
  <2>6. /\ x \in s /\ t \in SUBSET S
        /\ Cardinality(s) \in Nat \ {0} /\ Cardinality(t) = Cardinality(s) - 1
    BY <2>5, FirstTakenOut
  <2>7. h[s] = f[x] + h[t] /\ e[s] = g[x] + e[t]
    BY <2>5 DEF AreSums
  <2>8. Good(t)
    BY <2>2, <2>3, <2>6
  <2>9. K \cap s # {} <=> x \in K \/ K \cap t # {}
    BY <2>6
  <2>10. x \in K => K \cap t = {}
    OBVIOUS
  <2>11. f[x] \in Int /\ g[x] = f[x] + (IF x \in K THEN d ELSE 0)
    BY <2>6
  <2> HIDE DEF x, t, Bad
  <2> QED
    BY <2>3, <2>7, <2>8, <2>9, <2>10, <2>11
<1> SUFFICES ASSUME NEW s \in SUBSET S PROVE Good(s)
  OBVIOUS
<1>2. Cardinality(s) \in Nat
  BY FS_Subset, FS_CardinalityType
<1> QED
  BY <1>1, <1>2

\* The sum over a finite set moves by what its one changed term moves by.
LEMMA SumMoves ==
  ASSUME NEW S, IsFiniteSet(S), NEW f \in [S -> Int], NEW g \in [S -> Int], NEW d \in Int,
         NEW K \in SUBSET S, \A x, y \in K : x = y,
         \A x \in S : g[x] = f[x] + (IF x \in K THEN d ELSE 0)
  PROVE  SumFunctionOnSet(g, S) = SumFunctionOnSet(f, S) + (IF K # {} THEN d ELSE 0)
<1>1. AreSums(Sums(f, S), f, S) /\ AreSums(Sums(g, S), g, S)
  BY SumsChosen
<1>2. \A s \in SUBSET S : Sums(g, S)[s] = Sums(f, S)[s] + (IF K \cap s # {} THEN d ELSE 0)
  BY <1>1, SumsMove
<1>3. K \cap S = K /\ S \in SUBSET S
  OBVIOUS
<1> QED
  BY <1>2, <1>3, SumIsChosen

LEMMA SumOfNothing ==
  ASSUME NEW S, IsFiniteSet(S), NEW f \in [S -> Int], \A x \in S : f[x] = 0
  PROVE  SumFunctionOnSet(f, S) = 0
<1> DEFINE zeros == [s \in SUBSET S |-> 0]
<1>1. AreSums(Sums(f, S), f, S)
  BY SumsChosen
<1>2. AreSums(zeros, f, S)
  <2>1. \A s \in SUBSET S : s # {} => First(s) \in S /\ s \ {First(s)} \in SUBSET S
    BY FirstTakenOut
  <2>2. \A s \in SUBSET S : zeros[s] = IF s = {} THEN 0 ELSE f[First(s)] + zeros[s \ {First(s)}]
    BY <2>1
  <2> QED
    BY <2>2 DEF AreSums
<1>3. zeros[S] = 0
  OBVIOUS
<1> HIDE DEF zeros
<1>4. ASSUME NEW h, AreSums(h, f, S), NEW e, AreSums(e, f, S),
             NEW g \in [S -> Int], g = f, NEW K \in SUBSET S, K = {}, NEW d \in Int
      PROVE  e[S] = h[S]
  <2>1. \A x \in S : g[x] = f[x] + (IF x \in K THEN d ELSE 0)
    BY <1>4
  <2>2. \A x, y \in K : x = y
    BY <1>4
  <2>3. AreSums(h, f, S) /\ AreSums(e, g, S)
    BY <1>4
  <2>4. \A s \in SUBSET S : /\ h[s] \in Int
                            /\ e[s] = h[s] + (IF K \cap s # {} THEN d ELSE 0)
    BY <2>1, <2>2, <2>3, SumsMove
  <2>5. h[S] \in Int /\ e[S] = h[S] + (IF K \cap S # {} THEN d ELSE 0)
    BY <2>4
  <2> QED
    BY <1>4, <2>5
<1>5. {} \in SUBSET S /\ 0 \in Int
  OBVIOUS
<1>6. Sums(f, S)[S] = zeros[S]
  BY <1>1, <1>2, <1>4, <1>5
<1> QED
  BY <1>3, <1>6, SumIsChosen

-----------------------------------------------------------------------------
(* Types *)

Pcs == OpenPcs \cup {"dead", "started"}

\* What a session has established by the time it is at each point.
SessionAt(point, s, table, time) ==
  /\ point \in {"called", "swept"} =>
       /\ s.op \in {"start", "resume"}
       /\ s.contract \in Contracts
       /\ s.op = "start" => s.mw \in Matchweeks
       /\ s.op = "resume" => s.run \in RunIds
  /\ point \in {"executing", "working", "returned", "stopping", "completing"} =>
       /\ s.run \in RunIds
       /\ table[s.run].state # "ABSENT"
       /\ s.contract \in Contracts
       /\ s.pred \in Digests
  /\ point \in {"working", "returned", "stopping"} =>
       /\ s.phase \in Phases
       /\ s.attempt \in Tries
       /\ s.started <= time
  /\ point \in {"returned", "stopping"} => s.started <= s.ended
  /\ point = "returned" => s.result \in Results
  /\ point = "stopping" => s.outcome \in {"INTERRUPTED", "FAILED"}

SessionOK == \A p \in Pids : SessionAt(pc[p], ses[p], runs, now)

\* An attempt has not started in the future, and only runs that exist have one.
AttemptsOK ==
  \A k \in Keys :
    /\ attempts[k].started <= now
    /\ attempts[k].status # "ABSENT" => runs[k[1]].state # "ABSENT"

TypeInv == TypeOK /\ SessionOK /\ AttemptsOK

USE BoundsAssumption DEF Phases, Tries, Time, Spawns

LEMMA BooleanGuards == \A g \in Guards : g \in BOOLEAN
OBVIOUS

LEMMA NoSessionTyped == NoSession \in Sessions
BY DEF NoSession, Sessions

\* Moving one process leaves the others where they are.
LEMMA GotoTyped ==
  ASSUME NEW p \in Pids, NEW where \in Pcs, NEW session \in Sessions,
         pc \in [Pids -> Pcs], ses \in [Pids -> Sessions], Goto(p, where, session)
  PROVE  /\ pc' \in [Pids -> Pcs]
         /\ ses' \in [Pids -> Sessions]
         /\ pc'[p] = where
         /\ ses'[p] = session
         /\ \A q \in Pids \ {p} : pc'[q] = pc[q] /\ ses'[q] = ses[q]
BY DEF Goto

LEMMA LeaveTyped ==
  ASSUME NEW p \in Pids, pc \in [Pids -> Pcs], ses \in [Pids -> Sessions], Leave(p)
  PROVE  /\ pc' \in [Pids -> Pcs]
         /\ ses' \in [Pids -> Sessions]
         /\ pc'[p] = "idle"
         /\ ses'[p] = NoSession
         /\ \A q \in Pids \ {p} : pc'[q] = pc[q] /\ ses'[q] = ses[q]
BY NoSessionTyped, GotoTyped DEF Leave, Pcs, OpenPcs

THEOREM InitTyped == Init => TypeInv
<1> SUFFICES ASSUME Init PROVE TypeInv
  OBVIOUS
<1>1. TypeOK
  BY NoSessionTyped DEF Init, TypeOK, NoRow, NoAttempt, NoToken, NoCkpt, AttemptRows,
     AttemptStates, UnitStates, OpenPcs
<1>2. SessionOK
  BY DEF Init, SessionOK, SessionAt
<1>3. AttemptsOK
  BY DEF Init, AttemptsOK, NoAttempt
<1> QED
  BY <1>1, <1>2, <1>3 DEF TypeInv

\* The process steps that touch no table: each moves one process.
LEMMA ProcessStepTyped ==
  ASSUME TypeInv, NEW p \in Pids,
         \/ Spawn(p) \/ OpenStore(p) \/ OpenRecovery(p) \/ CloseStore(p) \/ Die(p) \/ RaiseOut(p)
  PROVE  TypeInv'
<1> USE DEF TypeInv, TypeOK, Pcs, OpenPcs, BusyPcs, tables, envVars
<1>1. CASE Spawn(p)
  <2>1. pc' \in [Pids -> Pcs] /\ ses' \in [Pids -> Sessions]
    BY <1>1, NoSessionTyped, GotoTyped DEF Spawn
  <2> QED
    BY <1>1, <2>1 DEF Spawn, Goto, SessionOK, SessionAt, AttemptsOK
<1>2. CASE OpenStore(p)
  BY <1>2, NoSessionTyped DEF OpenStore, Goto, SessionOK, SessionAt, AttemptsOK
<1>2a. CASE OpenRecovery(p)
  BY <1>2a, NoSessionTyped DEF OpenRecovery, Goto, SessionOK, SessionAt, AttemptsOK
<1>3. CASE CloseStore(p)
  BY <1>3, NoSessionTyped DEF CloseStore, Goto, SessionOK, SessionAt, AttemptsOK
<1>4. CASE Die(p)
  BY <1>4, NoSessionTyped DEF Die, Goto, SessionOK, SessionAt, AttemptsOK
<1>5. CASE RaiseOut(p)
  BY <1>5, NoSessionTyped DEF RaiseOut, Leave, Goto, SessionOK, SessionAt, AttemptsOK
<1> QED
  BY <1>1, <1>2, <1>2a, <1>3, <1>4, <1>5

\* The sessions the two kinds of call begin with.
LEMMA StartedSession ==
  ASSUME NEW mw \in Matchweeks, NEW c \in Contracts, NEW g \in BOOLEAN
  PROVE  [NoSession EXCEPT !.op = "start", !.mw = mw, !.contract = c, !.guarded = g]
           \in Sessions
<1>1. NoSession \in Sessions
  BY NoSessionTyped
<1> QED
  BY <1>1 DEF Sessions

LEMMA ResumedSession ==
  ASSUME NEW r \in RunIds, NEW c \in Contracts, NEW g \in BOOLEAN
  PROVE  [NoSession EXCEPT !.op = "resume", !.run = r, !.contract = c, !.guarded = g]
           \in Sessions
<1>1. NoSession \in Sessions
  BY NoSessionTyped
<1> QED
  BY <1>1 DEF Sessions

\* A step that moves one process, and neither removes a run nor stops the clock,
\* keeps SessionOK if it puts that process in a proper session.
LEMMA SessionStep ==
  ASSUME TypeInv, NEW p \in Pids, NEW where \in Pcs, NEW session \in Sessions,
         Goto(p, where, session), now' = now,
         \A r \in RunIds : runs[r].state # "ABSENT" => runs'[r].state # "ABSENT",
         SessionAt(where, session, runs', now)
  PROVE  /\ pc' \in [Pids -> Pcs]
         /\ ses' \in [Pids -> Sessions]
         /\ SessionOK'
<1>1. /\ pc' \in [Pids -> Pcs]
      /\ ses' \in [Pids -> Sessions]
      /\ pc'[p] = where
      /\ ses'[p] = session
      /\ \A q \in Pids \ {p} : pc'[q] = pc[q] /\ ses'[q] = ses[q]
  BY GotoTyped DEF TypeInv, TypeOK, Pcs
<1>2. SUFFICES ASSUME NEW q \in Pids PROVE SessionAt(pc'[q], ses'[q], runs', now')
  BY <1>1 DEF SessionOK
<1>3. CASE q = p
  BY <1>1, <1>3 DEF SessionAt
<1>4. CASE q # p
  BY <1>1, <1>4 DEF TypeInv, SessionOK, SessionAt
<1> QED
  BY <1>3, <1>4

\* A step that only takes a process into a call.
LEMMA CallStep ==
  ASSUME TypeInv, NEW p \in Pids, NEW session \in Sessions,
         UNCHANGED <<ticks, spawned, lock, tables, envVars>>, Goto(p, "called", session),
         SessionAt("called", session, runs', now)
  PROVE  TypeInv'
<1>1. now' = now /\ "called" \in Pcs
      /\ \A r \in RunIds : runs[r].state # "ABSENT" => runs'[r].state # "ABSENT"
  BY DEF tables, envVars, Pcs, OpenPcs
<1>2. pc' \in [Pids -> Pcs] /\ ses' \in [Pids -> Sessions] /\ SessionOK'
  BY <1>1, SessionStep
<1>3. AttemptsOK'
  BY DEF TypeInv, AttemptsOK, tables, envVars
<1>4. UNCHANGED <<ticks, spawned, lock, gate, runs, units, attempts, ckpts, completions, published,
                  rotten, now>> /\ TypeOK
  BY DEF TypeInv, tables, envVars
<1>5. TypeOK'
  BY <1>2, <1>4 DEF TypeOK, Pcs
<1> QED
  BY <1>2, <1>3, <1>5 DEF TypeInv

\* The first step of a call.
LEMMA CallTyped ==
  ASSUME TypeInv, NEW p \in Pids,
         \/ \E mw \in Matchweeks, c \in Contracts, g \in Guards : CallStart(p, mw, c, g)
         \/ \E r \in RunIds, c \in Contracts, g \in Guards : CallResume(p, r, c, g)
  PROVE  TypeInv'
<1>1. ASSUME NEW mw \in Matchweeks, NEW c \in Contracts, NEW g \in Guards,
             CallStart(p, mw, c, g)
      PROVE  TypeInv'
  <2> DEFINE s == [NoSession EXCEPT !.op = "start", !.mw = mw, !.contract = c,
                                    !.guarded = g]
  <2>0. g \in BOOLEAN
    BY BooleanGuards
  <2>1. s \in Sessions
    BY <2>0, StartedSession
  <2>2. SessionAt("called", s, runs', now)
    BY DEF NoSession, SessionAt
  <2>3. UNCHANGED <<ticks, spawned, lock, tables, envVars>> /\ Goto(p, "called", s)
    BY <1>1 DEF CallStart
  <2> HIDE DEF s
  <2> QED
    BY <2>1, <2>2, <2>3, CallStep
<1>2. ASSUME NEW r \in RunIds, NEW c \in Contracts, NEW g \in Guards,
             CallResume(p, r, c, g)
      PROVE  TypeInv'
  <2> DEFINE s == [NoSession EXCEPT !.op = "resume", !.run = r, !.contract = c,
                                    !.guarded = g]
  <2>0. g \in BOOLEAN
    BY BooleanGuards
  <2>1. s \in Sessions
    BY <2>0, ResumedSession
  <2>2. SessionAt("called", s, runs', now)
    BY DEF NoSession, SessionAt
  <2>3. UNCHANGED <<ticks, spawned, lock, tables, envVars>> /\ Goto(p, "called", s)
    BY <1>2 DEF CallResume
  <2> HIDE DEF s
  <2> QED
    BY <2>1, <2>2, <2>3, CallStep
<1> QED
  BY <1>1, <1>2

LEMMA InterruptAbandonedTyped ==
  ASSUME TypeInv, NEW p \in Pids, InterruptAbandoned(p)
  PROVE  TypeInv'
<1>a. /\ now \in Int
      /\ \A k \in Keys : /\ attempts[k] \in AttemptRows
                         /\ now - attempts[k].started \in Nat
  BY DEF TypeInv, TypeOK, AttemptsOK, AttemptRows
<1>1. attempts' \in [Keys -> AttemptRows]
  <2> SUFFICES ASSUME NEW k \in Keys PROVE attempts'[k] \in AttemptRows
    BY DEF InterruptAbandoned
  <2>1. [attempts[k] EXCEPT !.status = "INTERRUPTED",
                            !.elapsed = now - attempts[k].started] \in AttemptRows
    BY <1>a DEF AttemptRows, AttemptStates
  <2> QED
    BY <1>a, <2>1 DEF InterruptAbandoned
<1>2. units' \in [RunIds \X Phases -> [state : UnitStates, count : 0..MaxAttempts]]
  <2>1. \A u \in RunIds \X Phases :
          units[u] \in [state : UnitStates, count : 0..MaxAttempts]
    BY DEF TypeInv, TypeOK
  <2>2. \A u \in RunIds \X Phases :
          Reopened(units[u]) \in [state : UnitStates, count : 0..MaxAttempts]
    BY <2>1 DEF Reopened, UnitStates
  <2> QED
    BY <2>1, <2>2 DEF InterruptAbandoned
<1>3. runs' \in [RunIds -> RunRows \cup {NoRow}]
  <2> SUFFICES ASSUME NEW r \in RunIds
               PROVE  runs'[r] \in RunRows \cup {NoRow}
    BY DEF InterruptAbandoned
  <2>0. runs[r] \in RunRows \cup {NoRow}
    BY DEF TypeInv, TypeOK
  <2>1. CASE r \in {k[1] : k \in Running} /\ runs[r].state = "INCOMPLETE"
    <3>1. \E k \in Running : k[1] = r
      BY <2>1
    <3>2. (CHOOSE k \in Running : k[1] = r) \in Running
      BY <3>1
    <3>3. AbandonedCost(r) \in Nat
      BY <1>a, <3>2 DEF AbandonedCost, Running
    <3>4. runs[r] \in RunRows
      BY <2>0, <2>1 DEF NoRow
    <3> DEFINE reuse == IF runs[r].last = 0 THEN "NONE" ELSE "REUSABLE"
    <3>5. runs'[r] = [runs[r] EXCEPT !.elapsed = @ + AbandonedCost(r), !.reuse = reuse]
      BY <2>1 DEF InterruptAbandoned
    <3>6. reuse \in ReuseStates
      BY DEF ReuseStates
    <3> HIDE DEF reuse
    <3>7. runs[r].elapsed + AbandonedCost(r) \in Nat
      BY <3>3, <3>4 DEF RunRows
    <3> QED
      BY <3>4, <3>5, <3>6, <3>7 DEF RunRows
  <2>2. CASE ~(r \in {k[1] : k \in Running} /\ runs[r].state = "INCOMPLETE")
    BY <2>0, <2>2 DEF InterruptAbandoned
  <2> QED
    BY <2>1, <2>2
<1> USE DEF TypeInv, TypeOK, InterruptAbandoned
<1>4. \A r \in RunIds : runs'[r].state = runs[r].state
  BY DEF RunRows, NoRow
<1>5. pc' \in [Pids -> Pcs] /\ ses' = ses
      /\ pc'[p] = "swept" /\ pc[p] = "called" /\ \A q \in Pids \ {p} : pc'[q] = pc[q]
  BY DEF Goto, Pcs, OpenPcs
<1>6. SessionOK'
  <2> SUFFICES ASSUME NEW q \in Pids PROVE SessionAt(pc[q], ses[q], runs, now)'
    BY DEF SessionOK
  <2>1. SessionAt(pc[q], ses[q], runs, now) /\ now' = now
    BY DEF SessionOK, envVars
  <2>2. CASE q = p
    BY <1>4, <1>5, <2>1, <2>2 DEF SessionAt
  <2>3. CASE q # p
    BY <1>4, <1>5, <2>1, <2>3 DEF SessionAt
  <2> QED BY <2>2, <2>3
<1>7. AttemptsOK'
  <2>1. \A k \in Keys : attempts'[k].started = attempts[k].started
    BY DEF Running, AttemptRows
  <2>2. \A k \in Keys : attempts'[k].status # "ABSENT" => attempts[k].status # "ABSENT"
    BY DEF Running, AttemptRows
  <2> QED
    BY <1>4, <2>1, <2>2 DEF AttemptsOK, envVars, Keys
<1> QED
  BY <1>1, <1>2, <1>3, <1>5, <1>6, <1>7 DEF Pcs, envVars

\* The last call of a step that only leaves the coordinator.
LEMMA LeaveStep ==
  ASSUME TypeInv, NEW p \in Pids, Leave(p), now' = now,
         \A r \in RunIds : runs[r].state # "ABSENT" => runs'[r].state # "ABSENT"
  PROVE  /\ pc' \in [Pids -> Pcs]
         /\ ses' \in [Pids -> Sessions]
         /\ SessionOK'
<1>1. Goto(p, "idle", NoSession) /\ SessionAt("idle", NoSession, runs', now)
  BY DEF Leave, SessionAt
<1> QED
  BY <1>1, SessionStep, NoSessionTyped DEF Pcs, OpenPcs

\* The refusals: MV-RUN-COORDINATOR_BUSY, -RESUME_REQUIRED and MV-RESUME-...
LEMMA RefusalTyped ==
  ASSUME TypeInv, NEW p \in Pids, RefuseBusy(p) \/ RefuseStart(p) \/ RefuseResume(p)
  PROVE  TypeInv'
<1>1. Leave(p) /\ UNCHANGED <<ticks, spawned, lock, tables, envVars>>
  BY DEF RefuseBusy, RefuseStart, RefuseResume
<1>2. /\ pc' \in [Pids -> Pcs] /\ ses' \in [Pids -> Sessions] /\ SessionOK'
  BY <1>1, LeaveStep DEF tables, envVars
<1> QED
  BY <1>1, <1>2 DEF TypeInv, TypeOK, AttemptsOK, Pcs, tables, envVars

LEMMA CreateRunTyped ==
  ASSUME TypeInv, NEW p \in Pids, NEW r \in RunIds, CreateRun(p, r)
  PROVE  TypeInv'
<1> DEFINE s == ses[p]
           row == [state |-> "INCOMPLETE", mw |-> s.mw, contract |-> s.contract,
                   phase |-> 1, last |-> 0, elapsed |-> 0, reuse |-> "NOT_REUSED"]
           entered == Entering(s, r, {}, s.contract)
<1>1. s \in Sessions /\ s.contract \in Contracts /\ s.mw \in Matchweeks
  BY DEF CreateRun, TypeInv, TypeOK, SessionOK, SessionAt
<1>2. row \in RunRows
  BY <1>1 DEF RunRows, ReuseStates
<1>3. /\ runs' \in [RunIds -> RunRows \cup {NoRow}]
      /\ \A q \in RunIds : runs[q].state # "ABSENT" => runs'[q].state # "ABSENT"
      /\ runs'[r].state # "ABSENT"
  BY <1>2 DEF CreateRun, TypeInv, TypeOK
<1>4. /\ entered \in Sessions
      /\ entered.run = r /\ entered.contract = s.contract /\ entered.pred = s.contract
  BY <1>1 DEF Entering, Sessions, Digests, TypeInv, TypeOK
<1>5. SessionAt("executing", entered, runs', now)
  BY <1>1, <1>3, <1>4 DEF SessionAt, Digests
<1>6. /\ pc' \in [Pids -> Pcs] /\ ses' \in [Pids -> Sessions] /\ SessionOK'
  BY <1>3, <1>4, <1>5, SessionStep DEF CreateRun, Pcs, OpenPcs, envVars
<1>7. units' \in [RunIds \X Phases -> [state : UnitStates, count : 0..MaxAttempts]]
  BY DEF CreateRun, TypeInv, TypeOK, UnitStates
<1> QED
  BY <1>3, <1>6, <1>7 DEF CreateRun, TypeInv, TypeOK, AttemptsOK, Pcs, envVars, Keys

LEMMA BlockResumeTyped ==
  ASSUME TypeInv, NEW p \in Pids, BlockResume(p)
  PROVE  TypeInv'
<1>1. ses[p].run \in RunIds
  BY DEF BlockResume, TypeInv, SessionOK, SessionAt
<1>2. runs[ses[p].run] \in RunRows
  BY <1>1 DEF BlockResume, TypeInv, TypeOK, NoRow
<1>3. [runs[ses[p].run] EXCEPT !.reuse = "BLOCKED"] \in RunRows
  BY <1>2 DEF RunRows, ReuseStates
<1>4. /\ runs' \in [RunIds -> RunRows \cup {NoRow}]
      /\ \A q \in RunIds : runs[q].state # "ABSENT" => runs'[q].state # "ABSENT"
  BY <1>1, <1>2, <1>3 DEF BlockResume, TypeInv, TypeOK, RunRows
<1>5. /\ pc' \in [Pids -> Pcs] /\ ses' \in [Pids -> Sessions] /\ SessionOK'
  BY <1>4, LeaveStep DEF BlockResume, envVars
<1> QED
  BY <1>4, <1>5 DEF BlockResume, TypeInv, TypeOK, AttemptsOK, Pcs, envVars, Keys

LEMMA MarkResumedTyped ==
  ASSUME TypeInv, NEW p \in Pids, MarkResumed(p)
  PROVE  TypeInv'
<1> DEFINE s == ses[p]
           r == s.run
<1>1. s \in Sessions /\ r \in RunIds /\ s.contract \in Contracts
  BY DEF MarkResumed, TypeInv, TypeOK, SessionOK, SessionAt
<1>2. runs[r] \in RunRows
  BY <1>1 DEF MarkResumed, TypeInv, TypeOK, NoRow
<1>3. [runs[r] EXCEPT !.reuse = "REUSED"] \in RunRows
  BY <1>2 DEF RunRows, ReuseStates
<1>4. /\ runs' \in [RunIds -> RunRows \cup {NoRow}]
      /\ \A q \in RunIds : runs[q].state # "ABSENT" => runs'[q].state # "ABSENT"
      /\ runs'[r].state # "ABSENT"
  BY <1>1, <1>2, <1>3 DEF MarkResumed, TypeInv, TypeOK, RunRows
<1>5. PICK o \in Digests : Goto(p, "executing", Entering(s, r, Checkpointed(r), o))
  BY DEF MarkResumed
<1> DEFINE entered == Entering(s, r, Checkpointed(r), o)
<1>6. /\ entered \in Sessions
      /\ entered.run = r /\ entered.contract = s.contract /\ entered.pred = o
  BY <1>1 DEF Entering, Sessions, TypeInv, TypeOK
<1>7. SessionAt("executing", entered, runs', now)
  BY <1>1, <1>4, <1>6 DEF SessionAt
<1>8. /\ pc' \in [Pids -> Pcs] /\ ses' \in [Pids -> Sessions] /\ SessionOK'
  BY <1>4, <1>5, <1>6, <1>7, SessionStep DEF MarkResumed, Pcs, OpenPcs, envVars
<1> QED
  BY <1>4, <1>8 DEF MarkResumed, TypeInv, TypeOK, AttemptsOK, Pcs, envVars, Keys

LEMMA StartAttemptTyped ==
  ASSUME TypeInv, NEW p \in Pids, StartAttempt(p)
  PROVE  TypeInv'
<1> DEFINE s == ses[p]
           r == s.run
<1>1. s \in Sessions /\ r \in RunIds /\ SessionAt("executing", s, runs, now)
  BY DEF StartAttempt, TypeInv, TypeOK, SessionOK, SessionAt
<1>2. PICK i \in s.todo, n \in Tries :
        /\ units' = [units EXCEPT ![<<r, i>>] = [state |-> "RUNNING", count |-> n]]
        /\ attempts' = [attempts EXCEPT ![<<r, i, n>>] =
             [status |-> "RUNNING", owner |-> Token(p), started |-> now, elapsed |-> 0]]
        /\ runs' = IF runs[r].state = "INCOMPLETE"
                   THEN [runs EXCEPT ![r].phase = i] ELSE runs
        /\ Goto(p, "working", [s EXCEPT !.phase = i, !.attempt = n, !.started = now])
  BY DEF StartAttempt
<1>3. i \in Phases
  BY <1>1 DEF Sessions
<1>4. runs[r] \in RunRows
  BY <1>1 DEF TypeInv, TypeOK, NoRow, SessionAt
<1>5. [runs[r] EXCEPT !.phase = i] \in RunRows
  BY <1>3, <1>4 DEF RunRows
<1>6. /\ runs' \in [RunIds -> RunRows \cup {NoRow}]
      /\ \A q \in RunIds : runs[q].state # "ABSENT" => runs'[q].state # "ABSENT"
  BY <1>1, <1>2, <1>4, <1>5 DEF TypeInv, TypeOK, RunRows
<1>7. Token(p) \in Tokens
  BY DEF Token, Tokens, TypeInv, TypeOK
<1>8. attempts' \in [Keys -> AttemptRows]
  BY <1>1, <1>2, <1>7 DEF TypeInv, TypeOK, AttemptRows, AttemptStates
<1>9. units' \in [RunIds \X Phases -> [state : UnitStates, count : 0..MaxAttempts]]
  <2>1. [state |-> "RUNNING", count |-> n] \in [state : UnitStates, count : 0..MaxAttempts]
    BY DEF UnitStates
  <2> QED
    BY <1>2, <2>1 DEF TypeInv, TypeOK
<1> DEFINE t == [s EXCEPT !.phase = i, !.attempt = n, !.started = now]
<1>10. /\ t \in Sessions
       /\ t.run = r /\ t.contract = s.contract /\ t.pred = s.pred
       /\ t.phase = i /\ t.attempt = n /\ t.started = now
  <2>1. i \in 0..NumPhases /\ n \in 0..MaxAttempts /\ now \in Time
    BY <1>3 DEF TypeInv, TypeOK
  <2> QED
    BY <1>1, <2>1 DEF Sessions
<1>11. SessionAt("working", t, runs', now)
  BY <1>1, <1>3, <1>6, <1>10 DEF SessionAt, TypeInv, TypeOK
<1>12. /\ pc' \in [Pids -> Pcs] /\ ses' \in [Pids -> Sessions] /\ SessionOK'
  BY <1>2, <1>6, <1>10, <1>11, SessionStep DEF StartAttempt, Pcs, OpenPcs, envVars
<1>13. AttemptsOK'
  <2>1. \A k \in Keys : attempts'[k] = attempts[k] \/ (k[1] = r /\ attempts'[k].started = now)
    BY <1>2 DEF TypeInv, TypeOK
  <2>2. runs[r].state # "ABSENT" /\ now \in Nat
    BY <1>1 DEF SessionAt, TypeInv, TypeOK
  <2>3. \A k \in Keys : k[1] \in RunIds
    BY DEF Keys
  <2>4. now' = now
    BY DEF StartAttempt, envVars
  <2> QED
    BY <1>1, <1>6, <2>1, <2>2, <2>3, <2>4 DEF AttemptsOK, TypeInv
<1> QED
  BY <1>6, <1>8, <1>9, <1>12, <1>13 DEF StartAttempt, TypeInv, TypeOK, Pcs, envVars

\* The executor's return and every way it can end without a result.
LEMMA WorkTyped ==
  ASSUME TypeInv, NEW p \in Pids,
         \/ WorkFails(p) \/ WatchdogFires(p) \/ CheckpointFails(p)
         \/ \E result \in Results : WorkReturns(p, result)
  PROVE  TypeInv'
<1> DEFINE s == ses[p]
<1>0. s \in Sessions /\ now \in Time /\ SessionAt(pc[p], s, runs, now)
  BY DEF TypeInv, TypeOK, SessionOK
<1>1. \/ pc[p] = "working" /\ \E o \in {"INTERRUPTED", "FAILED"} :
             Goto(p, "stopping", [s EXCEPT !.ended = now, !.result = NoResult, !.outcome = o])
      \/ pc[p] = "returned" /\
            Goto(p, "stopping", [s EXCEPT !.result = NoResult, !.outcome = "FAILED"])
      \/ pc[p] = "working" /\ \E result \in Results :
             Goto(p, "returned", [s EXCEPT !.ended = now, !.result = result])
  BY DEF WorkFails, WatchdogFires, CheckpointFails, WorkReturns, Stopping
<1>2. UNCHANGED <<ticks, spawned, lock, tables, envVars>>
  BY DEF WorkFails, WatchdogFires, CheckpointFails, WorkReturns
<1>3. ASSUME NEW o \in {"INTERRUPTED", "FAILED"}, pc[p] = "working",
             Goto(p, "stopping", [s EXCEPT !.ended = now, !.result = NoResult, !.outcome = o])
      PROVE  pc' \in [Pids -> Pcs] /\ ses' \in [Pids -> Sessions] /\ SessionOK'
  <2> DEFINE t == [s EXCEPT !.ended = now, !.result = NoResult, !.outcome = o]
  <2>1. t \in Sessions /\ SessionAt("stopping", t, runs', now)
    BY <1>0, <1>2, <1>3 DEF Sessions, SessionAt, tables
  <2> QED
    BY <1>2, <1>3, <2>1, SessionStep DEF Pcs, OpenPcs, tables, envVars
<1>4. ASSUME pc[p] = "returned",
             Goto(p, "stopping", [s EXCEPT !.result = NoResult, !.outcome = "FAILED"])
      PROVE  pc' \in [Pids -> Pcs] /\ ses' \in [Pids -> Sessions] /\ SessionOK'
  <2> DEFINE t == [s EXCEPT !.result = NoResult, !.outcome = "FAILED"]
  <2>1. t \in Sessions /\ SessionAt("stopping", t, runs', now)
    BY <1>0, <1>2, <1>4 DEF Sessions, SessionAt, tables
  <2> QED
    BY <1>2, <1>4, <2>1, SessionStep DEF Pcs, OpenPcs, tables, envVars
<1>5. ASSUME NEW result \in Results, pc[p] = "working",
             Goto(p, "returned", [s EXCEPT !.ended = now, !.result = result])
      PROVE  pc' \in [Pids -> Pcs] /\ ses' \in [Pids -> Sessions] /\ SessionOK'
  <2> DEFINE t == [s EXCEPT !.ended = now, !.result = result]
  <2>1. t \in Sessions /\ SessionAt("returned", t, runs', now)
    BY <1>0, <1>2, <1>5 DEF Sessions, SessionAt, tables
  <2> QED
    BY <1>2, <1>5, <2>1, SessionStep DEF Pcs, OpenPcs, tables, envVars
<1>6. pc' \in [Pids -> Pcs] /\ ses' \in [Pids -> Sessions] /\ SessionOK'
  BY <1>1, <1>3, <1>4, <1>5
<1> QED
  BY <1>2, <1>6 DEF TypeInv, TypeOK, AttemptsOK, Pcs, tables, envVars

LEMMA FunctionOfRows ==
  ASSUME NEW f, NEW S, NEW T, f = [k \in S |-> f[k]], \A k \in S : f[k] \in T
  PROVE  f \in [S -> T]
OBVIOUS

\* Changing the state of one unit keeps the units typed.
LEMMA UnitMoves ==
  ASSUME TypeInv, NEW u \in RunIds \X Phases, NEW state \in UnitStates
  PROVE  [units EXCEPT ![u].state = state]
           \in [RunIds \X Phases -> [state : UnitStates, count : 0..MaxAttempts]]
<1>1. units \in [RunIds \X Phases -> [state : UnitStates, count : 0..MaxAttempts]]
  BY DEF TypeInv, TypeOK
<1>2. [units[u] EXCEPT !.state = state] \in [state : UnitStates, count : 0..MaxAttempts]
  BY <1>1
<1> QED
  BY <1>1, <1>2

\* Closing an attempt keeps its row a row, its start, and its existence.
LEMMA ClosedRow ==
  ASSUME NEW row \in AttemptRows, NEW status \in AttemptStates, NEW elapsed \in Nat
  PROVE  /\ [row EXCEPT !.status = status, !.elapsed = elapsed] \in AttemptRows
         /\ [row EXCEPT !.status = status, !.elapsed = elapsed].started = row.started
BY DEF AttemptRows

LEMMA CheckpointTyped ==
  ASSUME TypeInv, NEW p \in Pids, Checkpoint(p)
  PROVE  TypeInv'
<1> DEFINE s == ses[p]
           r == s.run
           i == s.phase
           n == s.attempt
           elapsed == s.ended - s.started
           row == [present |-> TRUE, attempt |-> n, output |-> s.result,
                   input |-> WorkInput(s.contract, i, s.pred)]
           t == [s EXCEPT !.todo = @ \ {i}, !.pred = s.result, !.phase = 0,
                          !.attempt = 0, !.started = 0, !.ended = 0,
                          !.result = NoResult]
<1>1. s \in Sessions /\ SessionAt("returned", s, runs, now)
  BY DEF Checkpoint, TypeInv, TypeOK, SessionOK
<1>2. /\ r \in RunIds /\ i \in Phases /\ n \in Tries /\ s.result \in Results
      /\ s.contract \in Contracts /\ s.pred \in Digests /\ runs[r].state # "ABSENT"
  BY <1>1 DEF SessionAt
<1>3. elapsed \in Nat
  BY <1>1 DEF Sessions, SessionAt
<1> HIDE DEF elapsed
<1>4. runs[r] \in RunRows
  BY <1>2 DEF TypeInv, TypeOK, NoRow
<1>5. \A q \in ReuseStates : ReuseAfterCheckpoint(q) \in ReuseStates
  BY DEF ReuseAfterCheckpoint, ReuseStates
<1>6. [runs[r] EXCEPT !.last = i, !.elapsed = @ + elapsed,
                      !.reuse = ReuseAfterCheckpoint(@)] \in RunRows
  <2>1. runs[r].elapsed + elapsed \in Nat /\ ReuseAfterCheckpoint(runs[r].reuse) \in ReuseStates
    BY <1>3, <1>4, <1>5 DEF RunRows
  <2>2. i \in 0..NumPhases
    BY <1>2
  <2> QED
    BY <1>4, <2>1, <2>2 DEF RunRows
<1>7. /\ runs' \in [RunIds -> RunRows \cup {NoRow}]
      /\ \A q \in RunIds : runs[q].state # "ABSENT" => runs'[q].state # "ABSENT"
  BY <1>2, <1>4, <1>6 DEF Checkpoint, TypeInv, TypeOK, RunRows, elapsed
<1>8. row \in CkptRows
  BY <1>2 DEF CkptRows, WorkInput
<1>9. ckpts' \in [RunIds \X Phases -> CkptRows \cup {NoCkpt}]
  BY <1>8 DEF Checkpoint, OutputDigest, TypeInv, TypeOK
<1>10. attempts' \in [Keys -> AttemptRows] /\
       \A k \in Keys : /\ attempts'[k].started = attempts[k].started
                       /\ attempts'[k].status # "ABSENT" => attempts[k].status # "ABSENT"
  <2>1. "COMPLETED" \in AttemptStates /\ "RUNNING" # "ABSENT"
    BY DEF AttemptStates
  <2>2. \A k \in Keys :
          \/ attempts'[k] = attempts[k]
          \/ /\ attempts[k].status = "RUNNING"
             /\ attempts'[k] = [attempts[k] EXCEPT !.status = "COMPLETED", !.elapsed = elapsed]
    BY <1>2 DEF Checkpoint, TypeInv, TypeOK, elapsed, Keys
  <2>3. attempts' = [k \in Keys |-> attempts'[k]]
    BY DEF Checkpoint, TypeInv, TypeOK
  <2>4. \A k \in Keys : attempts[k] \in AttemptRows
    BY DEF TypeInv, TypeOK
  <2>5. ASSUME NEW k \in Keys
        PROVE  /\ attempts'[k] \in AttemptRows
               /\ attempts'[k].started = attempts[k].started
               /\ attempts'[k].status # "ABSENT" => attempts[k].status # "ABSENT"
    <3>1. attempts[k] \in AttemptRows
      BY <2>4
    <3>2. CASE attempts'[k] = attempts[k]
      BY <3>1, <3>2
    <3> DEFINE closed == [attempts[k] EXCEPT !.status = "COMPLETED", !.elapsed = elapsed]
    <3>3. closed \in AttemptRows /\ closed.started = attempts[k].started
      BY <1>3, <2>1, <3>1, ClosedRow
    <3>4. CASE attempts'[k] = closed /\ attempts[k].status = "RUNNING"
      <4> HIDE DEF closed
      <4> QED
        BY <2>1, <3>3, <3>4
    <3> QED
      BY <2>2, <3>2, <3>4
  <2>6. \A k \in Keys : attempts'[k] \in AttemptRows
    BY <2>5
  <2>7. attempts' \in [Keys -> AttemptRows]
    BY <2>3, <2>6, FunctionOfRows
  <2> QED
    BY <2>5, <2>7
<1>11. units' \in [RunIds \X Phases -> [state : UnitStates, count : 0..MaxAttempts]]
  <2>1. /\ units \in [RunIds \X Phases -> [state : UnitStates, count : 0..MaxAttempts]]
        /\ <<r, i>> \in RunIds \X Phases /\ "COMPLETE" \in UnitStates
    BY <1>2 DEF TypeInv, TypeOK, UnitStates
  <2>2. units' = [units EXCEPT ![<<r, i>>].state = "COMPLETE"] \/ units' = units
    BY DEF Checkpoint
  <2>3. [units EXCEPT ![<<r, i>>].state = "COMPLETE"]
          \in [RunIds \X Phases -> [state : UnitStates, count : 0..MaxAttempts]]
    BY <2>1, UnitMoves
  <2> QED
    BY <2>1, <2>2, <2>3
<1>12. /\ t \in Sessions /\ t.run = r /\ t.contract = s.contract /\ t.pred = s.result
  <2>1. s.todo \ {i} \in SUBSET Phases
    BY <1>1 DEF Sessions
  <2>2. s.result \in Digests \cup {NoResult} /\ 0 \in Time /\ 0 \in 0..NumPhases
        /\ 0 \in 0..MaxAttempts
    BY <1>2 DEF Digests
  <2> QED
    BY <1>1, <2>1, <2>2 DEF Sessions
<1>13. SessionAt("executing", t, runs', now)
  BY <1>2, <1>7, <1>12 DEF SessionAt, Digests
<1>14. Goto(p, "executing", t) /\ now' = now
  BY DEF Checkpoint, OutputDigest, envVars
<1>15. /\ pc' \in [Pids -> Pcs] /\ ses' \in [Pids -> Sessions] /\ SessionOK'
  BY <1>7, <1>12, <1>13, <1>14, SessionStep DEF Pcs, OpenPcs
<1>16. AttemptsOK'
  BY <1>7, <1>10, <1>14 DEF AttemptsOK, TypeInv, Keys
<1> QED
  BY <1>7, <1>9, <1>10, <1>11, <1>15, <1>16 DEF Checkpoint, TypeInv, TypeOK, Pcs, envVars

LEMMA FinishAttemptTyped ==
  ASSUME TypeInv, NEW p \in Pids, FinishAttempt(p)
  PROVE  TypeInv'
<1> DEFINE s == ses[p]
           r == s.run
           elapsed == s.ended - s.started
           reuse == IF \E j \in Phases : units[<<r, j>>].state = "COMPLETE"
                    THEN "REUSABLE" ELSE "NONE"
<1>1. s \in Sessions /\ SessionAt("stopping", s, runs, now)
  BY DEF FinishAttempt, TypeInv, TypeOK, SessionOK
<1>2. /\ r \in RunIds /\ s.outcome \in {"INTERRUPTED", "FAILED"}
      /\ runs[r].state # "ABSENT"
  BY <1>1 DEF SessionAt
<1>3. elapsed \in Nat
  BY <1>1 DEF Sessions, SessionAt
<1>4. reuse \in ReuseStates
  BY DEF ReuseStates
<1>5. runs[r] \in RunRows
  BY <1>2 DEF TypeInv, TypeOK, NoRow
<1>6. runs' = IF runs[r].state = "INCOMPLETE"
              THEN [runs EXCEPT ![r].elapsed = @ + elapsed, ![r].reuse = reuse]
              ELSE runs
  BY DEF FinishAttempt
<1>7. \A k \in Keys :
        \/ attempts'[k] = attempts[k]
        \/ /\ attempts[k].status = "RUNNING"
           /\ attempts'[k] = [attempts[k] EXCEPT !.status = s.outcome, !.elapsed = elapsed]
  BY DEF FinishAttempt, TypeInv, TypeOK, Keys
<1> HIDE DEF elapsed, reuse
<1>8. [runs[r] EXCEPT !.elapsed = @ + elapsed, !.reuse = reuse] \in RunRows
  <2>1. runs[r].elapsed + elapsed \in Nat
    BY <1>3, <1>5 DEF RunRows
  <2> QED
    BY <1>4, <1>5, <2>1 DEF RunRows
<1>9. /\ runs' \in [RunIds -> RunRows \cup {NoRow}]
      /\ \A q \in RunIds : runs[q].state # "ABSENT" => runs'[q].state # "ABSENT"
  BY <1>2, <1>5, <1>6, <1>8 DEF TypeInv, TypeOK, RunRows
<1>10. attempts' \in [Keys -> AttemptRows] /\
       \A k \in Keys : /\ attempts'[k].started = attempts[k].started
                       /\ attempts'[k].status # "ABSENT" => attempts[k].status # "ABSENT"
  <2>1. s.outcome \in AttemptStates /\ "RUNNING" # "ABSENT"
    BY <1>2 DEF AttemptStates
  <2>2. attempts' = [k \in Keys |-> attempts'[k]]
    BY DEF FinishAttempt, TypeInv, TypeOK
  <2>3. \A k \in Keys : attempts[k] \in AttemptRows
    BY DEF TypeInv, TypeOK
  <2>4. ASSUME NEW k \in Keys
        PROVE  /\ attempts'[k] \in AttemptRows
               /\ attempts'[k].started = attempts[k].started
               /\ attempts'[k].status # "ABSENT" => attempts[k].status # "ABSENT"
    <3>1. attempts[k] \in AttemptRows
      BY <2>3
    <3>2. CASE attempts'[k] = attempts[k]
      BY <3>1, <3>2
    <3> DEFINE closed == [attempts[k] EXCEPT !.status = s.outcome, !.elapsed = elapsed]
    <3>3. closed \in AttemptRows /\ closed.started = attempts[k].started
      BY <1>3, <2>1, <3>1, ClosedRow
    <3>4. CASE attempts'[k] = closed /\ attempts[k].status = "RUNNING"
      <4> HIDE DEF closed
      <4> QED
        BY <2>1, <3>3, <3>4
    <3> QED
      BY <1>7, <3>2, <3>4
  <2>5. \A k \in Keys : attempts'[k] \in AttemptRows
    BY <2>4
  <2>6. attempts' \in [Keys -> AttemptRows]
    BY <2>2, <2>5, FunctionOfRows
  <2> QED
    BY <2>4, <2>6
<1>11. units' \in [RunIds \X Phases -> [state : UnitStates, count : 0..MaxAttempts]]
  <2>1. ses[p].phase \in Phases
    BY <1>1 DEF SessionAt
  <2>2. /\ units \in [RunIds \X Phases -> [state : UnitStates, count : 0..MaxAttempts]]
        /\ <<r, s.phase>> \in RunIds \X Phases /\ "PENDING" \in UnitStates
    BY <1>2, <2>1 DEF TypeInv, TypeOK, UnitStates
  <2>3. \/ units' = [units EXCEPT ![<<r, s.phase>>].state = "PENDING"]
        \/ units' = units
    BY DEF FinishAttempt, Reopened
  <2>4. [units EXCEPT ![<<r, s.phase>>].state = "PENDING"]
          \in [RunIds \X Phases -> [state : UnitStates, count : 0..MaxAttempts]]
    BY <2>2, UnitMoves
  <2> QED
    BY <2>2, <2>3, <2>4
<1>12. /\ pc' \in [Pids -> Pcs] /\ ses' \in [Pids -> Sessions] /\ SessionOK'
  BY <1>9, LeaveStep DEF FinishAttempt, envVars
<1>13. AttemptsOK'
  BY <1>9, <1>10 DEF AttemptsOK, TypeInv, FinishAttempt, envVars, Keys
<1> QED
  BY <1>9, <1>10, <1>11, <1>12, <1>13 DEF FinishAttempt, TypeInv, TypeOK, Pcs, envVars

LEMMA CompletionTyped ==
  ASSUME TypeInv, NEW p \in Pids,
         PublishCompletion(p) \/ CompleteRun(p) \/ CompletionFails(p)
  PROVE  TypeInv'
<1> DEFINE s == ses[p]
           r == s.run
<1>1. s \in Sessions /\ SessionAt("completing", s, runs, now)
  BY DEF PublishCompletion, CompleteRun, CompletionFails, TypeInv, TypeOK, SessionOK, SessionAt
<1>2. r \in RunIds /\ runs[r].state # "ABSENT"
  BY <1>1 DEF SessionAt
<1>3. runs[r] \in RunRows
  BY <1>2 DEF TypeInv, TypeOK, NoRow
<1>7. Completion(r) \in CompletionDocs
  <2>1. ASSUME NEW i \in Checkpointed(r)
        PROVE  i \in Phases /\ ckpts[<<r, i>>].output \in Results
    <3>1. i \in Phases /\ ckpts[<<r, i>>].present
      BY DEF Checkpointed, Present
    <3>2. ckpts[<<r, i>>] \in CkptRows \cup {NoCkpt}
      BY <1>2, <3>1 DEF TypeInv, TypeOK
    <3>3. NoCkpt.present = FALSE
      BY DEF NoCkpt
    <3>4. ckpts[<<r, i>>] # NoCkpt
      BY <3>1, <3>3, Zenon
    <3> QED
      BY <3>1, <3>2, <3>4 DEF CkptRows
  <2>2. [i \in Checkpointed(r) |-> ckpts[<<r, i>>].output] \in [Checkpointed(r) -> Results]
    BY <2>1
  <2>3. Checkpointed(r) \in SUBSET Phases
    BY DEF Checkpointed
  <2>4. runs[r].contract \in Contracts
    BY <1>3 DEF RunRows
  <2> QED
    BY <1>2, <2>2, <2>3, <2>4 DEF Completion, CompletionDocs
<1>4. CASE PublishCompletion(p)
  <2>1. SessionAt("completing", s, runs', now) /\ now' = now
    BY <1>1, <1>4 DEF PublishCompletion, envVars
  <2>2. pc' \in [Pids -> Pcs] /\ ses' \in [Pids -> Sessions] /\ SessionOK'
    BY <1>1, <1>4, <2>1, SessionStep DEF PublishCompletion, Pcs, OpenPcs
  <2> QED
    BY <1>4, <1>7, <2>2 DEF PublishCompletion, TypeInv, TypeOK, AttemptsOK, Pcs, envVars
<1>5. CASE CompleteRun(p)
  <2> DEFINE reuse == IF runs[r].reuse = "REUSED" THEN "REUSED" ELSE "NOT_REUSED"
  <2>1. [runs[r] EXCEPT !.state = "COMPLETE", !.reuse = reuse] \in RunRows
    BY <1>3 DEF RunRows, ReuseStates
  <2>2. runs' = IF runs[r].state = "INCOMPLETE"
                THEN [runs EXCEPT ![r].state = "COMPLETE", ![r].reuse = reuse]
                ELSE runs
    BY <1>5, <1>3 DEF CompleteRun, RunRows
  <2>3. /\ runs' \in [RunIds -> RunRows \cup {NoRow}]
        /\ \A q \in RunIds : runs[q].state # "ABSENT" => runs'[q].state # "ABSENT"
    BY <1>2, <1>3, <2>1, <2>2 DEF TypeInv, TypeOK, RunRows
  <2>4. pc' \in [Pids -> Pcs] /\ ses' \in [Pids -> Sessions] /\ SessionOK'
    BY <1>5, <2>3, LeaveStep DEF CompleteRun, envVars
  <2>5. completions' \in [RunIds -> SUBSET CompletionDocs]
    BY <1>2, <1>5, <1>7 DEF CompleteRun, TypeInv, TypeOK
  <2>6. AttemptsOK'
    BY <1>5, <2>3 DEF CompleteRun, TypeInv, AttemptsOK, envVars, Keys
  <2> QED
    BY <1>5, <2>3, <2>4, <2>5, <2>6 DEF CompleteRun, TypeInv, TypeOK, Pcs, envVars
<1>6. CASE CompletionFails(p)
  <2>1. [runs[r] EXCEPT !.reuse = "REUSABLE"] \in RunRows
    BY <1>3 DEF RunRows, ReuseStates
  <2>2. /\ runs' \in [RunIds -> RunRows \cup {NoRow}]
        /\ \A q \in RunIds : runs[q].state # "ABSENT" => runs'[q].state # "ABSENT"
    BY <1>2, <1>3, <1>6, <2>1 DEF CompletionFails, TypeInv, TypeOK, RunRows
  <2>3. pc' \in [Pids -> Pcs] /\ ses' \in [Pids -> Sessions] /\ SessionOK'
    BY <1>6, <2>2, LeaveStep DEF CompletionFails, envVars
  <2> QED
    BY <1>6, <2>2, <2>3 DEF CompletionFails, TypeInv, TypeOK, AttemptsOK, Pcs, envVars, Keys
<1> QED
  BY <1>4, <1>5, <1>6

LEMMA EnvironmentTyped ==
  ASSUME TypeInv, CloseGate \/ Tick \/ \E a \in Digests : Rot(a) \/ Repair(a)
  PROVE  TypeInv'
<1>1. CASE CloseGate
  BY <1>1 DEF CloseGate, TypeInv, TypeOK, SessionOK, SessionAt, AttemptsOK, procVars, tables
<1>2. CASE Tick
  <2>1. now' \in Time /\ \A t \in Time : t <= now => t <= now'
    BY <1>2 DEF Tick, TypeInv, TypeOK
  <2>2. \A k \in Keys : attempts[k].started \in Time
    BY DEF TypeInv, TypeOK, AttemptRows
  <2>3. \A p \in Pids : ses[p].started \in Time
    BY DEF TypeInv, TypeOK, Sessions
  <2> QED
    BY <1>2, <2>1, <2>2, <2>3
       DEF Tick, TypeInv, TypeOK, SessionOK, SessionAt, AttemptsOK, procVars, tables
<1>3. CASE \E a \in Digests : Rot(a) \/ Repair(a)
  BY <1>3 DEF Rot, Repair, TypeInv, TypeOK, SessionOK, SessionAt, AttemptsOK, procVars, tables
<1> QED
  BY <1>1, <1>2, <1>3

\* TypeInv is inductive, so it holds in every reachable state.
THEOREM TypeInvariant == Spec => []TypeInv
<1>1. TypeInv /\ [Next]_vars => TypeInv'
  <2> SUFFICES ASSUME TypeInv, [Next]_vars PROVE TypeInv'
    OBVIOUS
  <2>1. CASE Next
    <3>1. ASSUME NEW p \in Pids, Advance(p) PROVE TypeInv'
      BY <3>1, RefusalTyped, InterruptAbandonedTyped, CreateRunTyped, BlockResumeTyped,
         MarkResumedTyped, StartAttemptTyped, WorkTyped, CheckpointTyped,
         FinishAttemptTyped, CompletionTyped DEF Advance
    <3> QED
      BY <2>1, <3>1, ProcessStepTyped, CallTyped, WorkTyped, CompletionTyped,
         EnvironmentTyped DEF Next
  <2>2. CASE UNCHANGED vars
    BY <2>2 DEF vars, TypeInv, TypeOK, SessionOK, SessionAt, AttemptsOK
  <2> QED
    BY <2>1, <2>2
<1> QED
  BY <1>1, InitTyped, PTL DEF Spec

\* The type invariant of the run lifecycle holds for any number of processes,
\* runs, phases and attempts.
THEOREM TypeCorrect == Spec => []TypeOK
<1>1. TypeInv => TypeOK
  BY DEF TypeInv
<1> QED
  BY <1>1, TypeInvariant, PTL

-----------------------------------------------------------------------------
(* One writer, one RUNNING attempt: what the flock of store.py and               *)
(* interrupt_abandoned of runs.py achieve together.                              *)

MyKey(p) == <<ses[p].run, ses[p].phase, ses[p].attempt>>

\* Whoever has the store open holds the lock, alone.
LockInv == \A p \in Pids : pc[p] \in OpenPcs => lock = {p}

\* From its sweep on, a coordinator knows every RUNNING attempt: none before
\* StartAttempt, its own until that attempt is closed.
SweepInv ==
  \A p \in Pids :
    /\ pc[p] \in {"swept", "executing", "completing"} => Running = {}
    /\ pc[p] \in {"working", "returned", "stopping"} => Running \subseteq {MyKey(p)}

ExclusionInv == LockInv /\ SweepInv /\ AtMostOneRunning

LEMMA OnlyOneOpen ==
  ASSUME LockInv, NEW p \in Pids, NEW q \in Pids, pc[p] \in OpenPcs, pc[q] \in OpenPcs
  PROVE  p = q
BY DEF LockInv

\* A process of the new state that has not moved and has the store open would
\* share the lock with the one that has moved.
LEMMA OthersAreOut ==
  ASSUME TypeInv, LockInv, NEW p \in Pids, pc[p] \in OpenPcs, NEW where, NEW session,
         Goto(p, where, session), lock' = lock
  PROVE  /\ LockInv'
         /\ \A q \in Pids : pc'[q] \in OpenPcs => q = p
         /\ pc'[p] = where
         /\ ses'[p] = session
<1>1. /\ pc' = [pc EXCEPT ![p] = where] /\ pc \in [Pids -> Pcs]
      /\ ses' = [ses EXCEPT ![p] = session] /\ ses \in [Pids -> Sessions]
  BY DEF Goto, TypeInv, TypeOK, Pcs
<1>2. pc'[p] = where /\ ses'[p] = session /\ \A q \in Pids \ {p} : pc'[q] = pc[q]
  BY <1>1
<1>3. \A q \in Pids : pc'[q] \in OpenPcs => q = p
  BY <1>2, OnlyOneOpen
<1>4. lock = {p}
  BY DEF LockInv
<1> QED
  BY <1>2, <1>3, <1>4 DEF LockInv

\* Such a step keeps the invariant when it starts no attempt and the process
\* arrives where it no longer claims to know, or knows, what is RUNNING.
LEMMA ShrinkingStep ==
  ASSUME TypeInv, ExclusionInv, NEW p \in Pids, pc[p] \in OpenPcs, NEW where, NEW session,
         Goto(p, where, session), lock' = lock, Running' \subseteq Running,
         \/ where \in {"idle", "called"}
         \/ where \in {"swept", "executing", "completing"} /\ Running' = {}
         \/ /\ where \in {"working", "returned", "stopping"}
            /\ Running' \subseteq {<<session.run, session.phase, session.attempt>>}
  PROVE  ExclusionInv'
<1>1. /\ LockInv'
      /\ \A q \in Pids : pc'[q] \in OpenPcs => q = p
      /\ pc'[p] = where /\ ses'[p] = session
  BY OthersAreOut DEF ExclusionInv
<1>2. AtMostOneRunning'
  BY DEF ExclusionInv, AtMostOneRunning
<1>3. SweepInv'
  <2> SUFFICES ASSUME NEW q \in Pids,
                      pc'[q] \in {"swept", "executing", "completing", "working",
                                  "returned", "stopping"}
               PROVE  /\ pc'[q] \in {"swept", "executing", "completing"} => Running' = {}
                      /\ pc'[q] \in {"working", "returned", "stopping"} =>
                           Running' \subseteq {MyKey(q)'}
    BY DEF SweepInv
  <2>1. q = p
    BY <1>1 DEF OpenPcs
  <2>2. MyKey(p)' = <<session.run, session.phase, session.attempt>>
    BY <1>1 DEF MyKey
  <2> QED
    BY <1>1, <2>1, <2>2
<1> QED
  BY <1>1, <1>2, <1>3 DEF ExclusionInv

LEMMA SameAttempts == attempts' = attempts => Running' = Running
BY DEF Running

THEOREM InitExclusion == Init => ExclusionInv
<1> SUFFICES ASSUME Init PROVE ExclusionInv
  OBVIOUS
<1>1. Running = {}
  BY DEF Init, Running, NoAttempt
<1> QED
  BY <1>1 DEF Init, ExclusionInv, LockInv, SweepInv, AtMostOneRunning, OpenPcs

\* Processes that come and go: only OpenStore lets one in, when nobody is.
LEMMA ProcessExclusion ==
  ASSUME TypeInv, ExclusionInv, NEW p \in Pids,
         \/ Spawn(p) \/ OpenStore(p) \/ OpenRecovery(p) \/ CloseStore(p) \/ Die(p) \/ RaiseOut(p)
  PROVE  ExclusionInv'
<1>0. attempts' = attempts /\ Running' = Running
  BY SameAttempts DEF Spawn, OpenStore, OpenRecovery, CloseStore, Die, RaiseOut, tables
<1>1. pc \in [Pids -> Pcs] /\ ses \in [Pids -> Sessions] /\ lock \subseteq Pids
  BY DEF TypeInv, TypeOK, Pcs
<1>2. ASSUME NEW where \in {"dead", "started", "idle", "recovery"}, Goto(p, where, NoSession)
      PROVE  /\ pc'[p] = where
             /\ \A q \in Pids \ {p} : pc'[q] = pc[q] /\ ses'[q] = ses[q]
  BY <1>1, <1>2 DEF Goto
<1>3. CASE Spawn(p)
  <2>1. Goto(p, "started", NoSession) /\ lock' = lock
    BY <1>3 DEF Spawn
  <2> QED
    BY <1>0, <1>2, <2>1 DEF ExclusionInv, LockInv, SweepInv, AtMostOneRunning, MyKey, OpenPcs
<1>4. CASE OpenStore(p) \/ OpenRecovery(p)
  <2>1. /\ Goto(p, "idle", NoSession) \/ Goto(p, "recovery", NoSession)
        /\ lock = {} /\ lock' = {p}
    BY <1>4 DEF OpenStore, OpenRecovery
  <2>2. \A q \in Pids : pc[q] \notin OpenPcs
    BY <2>1 DEF ExclusionInv, LockInv
  <2> QED
    BY <1>0, <1>2, <2>1, <2>2
       DEF ExclusionInv, LockInv, SweepInv, AtMostOneRunning, MyKey, OpenPcs
<1>5. CASE CloseStore(p)
  <2>1. Goto(p, "started", NoSession) /\ pc[p] \in {"idle", "recovery"}
    BY <1>5 DEF CloseStore
  <2>2. \A q \in Pids \ {p} : pc[q] \notin OpenPcs
    BY <2>1, OnlyOneOpen DEF ExclusionInv, OpenPcs
  <2> QED
    BY <1>0, <1>2, <2>1, <2>2
       DEF ExclusionInv, LockInv, SweepInv, AtMostOneRunning, MyKey, OpenPcs
<1>6. CASE Die(p)
  <2>1. Goto(p, "dead", NoSession) /\ lock' = lock \ {p}
    BY <1>6 DEF Die
  <2> QED
    BY <1>0, <1>2, <2>1 DEF ExclusionInv, LockInv, SweepInv, AtMostOneRunning, MyKey, OpenPcs
<1>7. CASE RaiseOut(p)
  <2>1. Goto(p, "idle", NoSession) /\ lock' = lock /\ pc[p] \in OpenPcs
    BY <1>7 DEF RaiseOut, Leave, BusyPcs
  <2> QED
    BY <1>0, <2>1, ShrinkingStep
<1> QED
  BY <1>3, <1>4, <1>5, <1>6, <1>7

\* Calls, refusals and the steps that write no attempt.
LEMMA QuietExclusion ==
  ASSUME TypeInv, ExclusionInv, NEW p \in Pids,
         \/ \E mw \in Matchweeks, c \in Contracts, g \in Guards : CallStart(p, mw, c, g)
         \/ \E r \in RunIds, c \in Contracts, g \in Guards : CallResume(p, r, c, g)
         \/ RefuseBusy(p) \/ RefuseStart(p) \/ RefuseResume(p) \/ BlockResume(p)
         \/ CompleteRun(p) \/ CompletionFails(p)
         \/ PublishCompletion(p) \/ MarkResumed(p) \/ \E r \in RunIds : CreateRun(p, r)
  PROVE  ExclusionInv'
<1>1. /\ attempts' = attempts /\ lock' = lock /\ pc[p] \in OpenPcs
      /\ \/ \E session : Goto(p, "called", session) \/ Goto(p, "idle", session)
         \/ /\ pc[p] \in {"swept", "executing"}
            /\ \E session : Goto(p, "executing", session) \/ Goto(p, "completing", session)
  BY DEF CallStart, CallResume, RefuseBusy, RefuseStart, RefuseResume, BlockResume,
     CompleteRun, CompletionFails, PublishCompletion, MarkResumed, CreateRun, Leave,
     tables, OpenPcs
<1>2. Running' = Running
  BY <1>1, SameAttempts
<1>3. pc[p] \in {"swept", "executing"} => Running = {}
  BY DEF ExclusionInv, SweepInv
<1> QED
  BY <1>1, <1>2, <1>3, ShrinkingStep

LEMMA SweepExclusion ==
  ASSUME TypeInv, ExclusionInv, NEW p \in Pids, InterruptAbandoned(p)
  PROVE  ExclusionInv'
<1>1. \A k \in Keys : attempts'[k].status # "RUNNING"
  BY DEF InterruptAbandoned, Running, TypeInv, TypeOK, AttemptRows
<1>2. Running' = {}
  BY <1>1 DEF Running
<1>3. pc[p] \in OpenPcs /\ lock' = lock /\ Goto(p, "swept", ses[p])
  BY DEF InterruptAbandoned, OpenPcs
<1> QED
  BY <1>2, <1>3, ShrinkingStep

LEMMA StartExclusion ==
  ASSUME TypeInv, ExclusionInv, NEW p \in Pids, StartAttempt(p)
  PROVE  ExclusionInv'
<1>1. PICK i \in ses[p].todo, n \in Tries :
        /\ attempts' = [attempts EXCEPT ![<<ses[p].run, i, n>>] =
             [status |-> "RUNNING", owner |-> Token(p), started |-> now, elapsed |-> 0]]
        /\ Goto(p, "working", [ses[p] EXCEPT !.phase = i, !.attempt = n, !.started = now])
  BY DEF StartAttempt
<1> DEFINE session == [ses[p] EXCEPT !.phase = i, !.attempt = n, !.started = now]
           key == <<ses[p].run, i, n>>
<1>2. ses[p] \in Sessions
  BY DEF TypeInv, TypeOK
<1>3. session.run = ses[p].run /\ session.phase = i /\ session.attempt = n
  BY <1>2 DEF Sessions
<1> HIDE DEF session
<1>4. Running = {} /\ pc[p] \in OpenPcs /\ lock' = lock
  BY DEF StartAttempt, ExclusionInv, SweepInv, OpenPcs
<1>5. Running' \subseteq {key}
  <2> SUFFICES ASSUME NEW k \in Keys, k # key PROVE attempts'[k].status # "RUNNING"
    BY DEF Running
  <2>1. attempts'[k] = attempts[k]
    BY <1>1 DEF TypeInv, TypeOK
  <2> QED
    BY <1>4, <2>1 DEF Running
<1>6. /\ LockInv'
      /\ \A q \in Pids : pc'[q] \in OpenPcs => q = p
      /\ pc'[p] = "working" /\ ses'[p] = session
  BY <1>1, <1>4, OthersAreOut DEF ExclusionInv, session
<1>7. MyKey(p)' = key
  BY <1>3, <1>6 DEF MyKey
<1>8. SweepInv'
  BY <1>5, <1>6, <1>7 DEF SweepInv, OpenPcs
<1> QED
  BY <1>5, <1>6, <1>8 DEF ExclusionInv, AtMostOneRunning

\* The executor's return: the coordinator still knows only its own attempt.
LEMMA WorkExclusion ==
  ASSUME TypeInv, ExclusionInv, NEW p \in Pids,
         \/ WorkFails(p) \/ WatchdogFires(p) \/ CheckpointFails(p)
         \/ \E result \in Results : WorkReturns(p, result)
  PROVE  ExclusionInv'
<1> DEFINE s == ses[p]
<1>1. pc[p] \in {"working", "returned"} /\ attempts' = attempts /\ lock' = lock
  BY DEF WorkFails, WatchdogFires, CheckpointFails, WorkReturns, tables
<1>2. \E session : /\ Goto(p, "stopping", session) \/ Goto(p, "returned", session)
                   /\ session.run = s.run /\ session.phase = s.phase
                   /\ session.attempt = s.attempt
  <2>0. s \in Sessions
    BY DEF TypeInv, TypeOK
  <2>1. ASSUME WorkFails(p) \/ WatchdogFires(p)
        PROVE  \E o : Goto(p, "stopping", [s EXCEPT !.ended = now, !.result = NoResult,
                                                    !.outcome = o])
    BY <2>1 DEF WorkFails, WatchdogFires, Stopping
  <2>2. ASSUME NEW result \in Results, WorkReturns(p, result)
        PROVE  \/ \E o : Goto(p, "stopping", [s EXCEPT !.ended = now, !.result = NoResult,
                                                       !.outcome = o])
               \/ Goto(p, "returned", [s EXCEPT !.ended = now, !.result = result])
    BY <2>2 DEF WorkReturns, Stopping
  <2>3. ASSUME CheckpointFails(p)
        PROVE  Goto(p, "stopping", [s EXCEPT !.result = NoResult, !.outcome = "FAILED"])
    BY <2>3 DEF CheckpointFails
  <2>4. ASSUME NEW o
        PROVE  LET t == [s EXCEPT !.ended = now, !.result = NoResult, !.outcome = o]
               IN  t.run = s.run /\ t.phase = s.phase /\ t.attempt = s.attempt
    BY <2>0 DEF Sessions
  <2>5. ASSUME NEW result
        PROVE  LET t == [s EXCEPT !.ended = now, !.result = result]
               IN  t.run = s.run /\ t.phase = s.phase /\ t.attempt = s.attempt
    BY <2>0 DEF Sessions
  <2>6. LET t == [s EXCEPT !.result = NoResult, !.outcome = "FAILED"]
        IN  t.run = s.run /\ t.phase = s.phase /\ t.attempt = s.attempt
    BY <2>0 DEF Sessions
  <2>7. CASE WorkFails(p) \/ WatchdogFires(p)
    BY <2>1, <2>4, <2>7
  <2>8. CASE \E result \in Results : WorkReturns(p, result)
    BY <2>2, <2>4, <2>5, <2>8
  <2>9. CASE CheckpointFails(p)
    BY <2>3, <2>6, <2>9
  <2> QED
    BY <2>7, <2>8, <2>9
<1>3. Running' = Running /\ Running \subseteq {MyKey(p)}
  BY <1>1, SameAttempts DEF ExclusionInv, SweepInv
<1> QED
  BY <1>1, <1>2, <1>3, ShrinkingStep DEF MyKey, OpenPcs

\* Closing its own attempt leaves nothing RUNNING.
LEMMA CloseExclusion ==
  ASSUME TypeInv, ExclusionInv, NEW p \in Pids, Checkpoint(p) \/ FinishAttempt(p)
  PROVE  ExclusionInv'
<1> DEFINE key == MyKey(p)
<1>1. Running \subseteq {key} /\ pc[p] \in OpenPcs /\ lock' = lock
  BY DEF Checkpoint, FinishAttempt, ExclusionInv, SweepInv, OpenPcs
<1>2. PICK status, elapsed :
        /\ status # "RUNNING"
        /\ attempts' = IF attempts[key].status = "RUNNING"
                       THEN [attempts EXCEPT ![key].status = status, ![key].elapsed = elapsed]
                       ELSE attempts
  <2>1. SessionAt(pc[p], ses[p], runs, now)
    BY DEF TypeInv, SessionOK
  <2>2. CASE Checkpoint(p)
    BY <2>2 DEF Checkpoint, MyKey
  <2>3. CASE FinishAttempt(p)
    <3>1. ses[p].outcome # "RUNNING"
      BY <2>1, <2>3 DEF FinishAttempt, SessionAt
    <3> QED
      BY <2>3, <3>1 DEF FinishAttempt, MyKey
  <2> QED
    BY <2>2, <2>3
<1>3. Running' = {}
  <2> SUFFICES ASSUME NEW k \in Keys PROVE attempts'[k].status # "RUNNING"
    BY DEF Running
  <2>1. attempts \in [Keys -> AttemptRows]
    BY DEF TypeInv, TypeOK
  <2>2. CASE k # key
    <3>1. attempts'[k] = attempts[k]
      BY <1>2, <2>1, <2>2
    <3> QED
      BY <1>1, <2>2, <3>1 DEF Running
  <2>3. CASE k = key
    BY <1>2, <2>1, <2>3 DEF AttemptRows
  <2> QED
    BY <2>2, <2>3
<1>4. \E session : Goto(p, "executing", session) \/ Goto(p, "idle", session)
  BY DEF Checkpoint, FinishAttempt, Leave
<1> QED
  BY <1>1, <1>3, <1>4, ShrinkingStep

LEMMA ExclusionStep == TypeInv /\ ExclusionInv /\ [Next]_vars => ExclusionInv'
<1> SUFFICES ASSUME TypeInv, ExclusionInv, [Next]_vars PROVE ExclusionInv'
  OBVIOUS
<1>1. ASSUME NEW p \in Pids, Advance(p) PROVE ExclusionInv'
  BY <1>1, QuietExclusion, SweepExclusion, StartExclusion, WorkExclusion,
     CloseExclusion DEF Advance
<1>2. ASSUME CloseGate \/ Tick \/ \E a \in Digests : Rot(a) \/ Repair(a) PROVE ExclusionInv'
  <2>1. UNCHANGED <<pc, ses, lock, attempts>>
    BY <1>2 DEF CloseGate, Tick, Rot, Repair, procVars, tables
  <2> QED
    BY <2>1 DEF ExclusionInv, LockInv, SweepInv, AtMostOneRunning, Running, MyKey
<1>3. CASE UNCHANGED vars
  BY <1>3 DEF vars, ExclusionInv, LockInv, SweepInv, AtMostOneRunning, Running, MyKey
<1> QED
  BY <1>1, <1>2, <1>3, ProcessExclusion, QuietExclusion, WorkExclusion DEF Next

THEOREM ExclusionInvariant == Spec => []ExclusionInv
BY ExclusionStep, InitExclusion, TypeInvariant, PTL DEF Spec

\* AtMostOneRunning for any number of processes, runs, phases and attempts:
\* crashes and exceptions leave at most one attempt RUNNING, and whoever could
\* start another one has swept it away first, alone in the store.
THEOREM AtMostOneRunningAlways == Spec => []AtMostOneRunning
<1>1. ExclusionInv => AtMostOneRunning
  BY DEF ExclusionInv
<1> QED
  BY <1>1, ExclusionInvariant, PTL

-----------------------------------------------------------------------------
(* The tables agree: what the separate UPDATE statements of one transaction      *)
(* leave behind, and what a coordinator between two of them may rely on.         *)

Attempting == {"working", "returned", "stopping"}
Inside     == Attempting \cup {"executing", "completing"}

Position(s) == <<s.run, s.contract, s.todo, s.pred, s.phase, s.attempt>>

\* The session goes on with the same run and the same position in it.
GoesOn(q) ==
  /\ pc[q] \in Inside
  /\ pc'[q] \in Attempting <=> pc[q] \in Attempting
  /\ pc'[q] = "completing" <=> pc[q] = "completing"
  /\ Position(ses'[q]) = Position(ses[q])

\* The steps that touch no table: processes come and go, calls begin and are
\* refused, the executor answers, the world moves.
QuietStep(p) ==
  \/ Spawn(p) \/ OpenStore(p) \/ OpenRecovery(p) \/ CloseStore(p) \/ Die(p) \/ RaiseOut(p)
  \/ \E mw \in Matchweeks, c \in Contracts, g \in Guards : CallStart(p, mw, c, g)
  \/ \E r \in RunIds, c \in Contracts, g \in Guards : CallResume(p, r, c, g)
  \/ RefuseBusy(p) \/ RefuseStart(p) \/ RefuseResume(p)
  \/ WorkFails(p) \/ WatchdogFires(p) \/ CheckpointFails(p)
  \/ \E result \in Results : WorkReturns(p, result)

WorldStep == CloseGate \/ Tick \/ \E a \in Digests : Rot(a) \/ Repair(a)

LEMMA QuietTables ==
  ASSUME TypeInv, NEW p \in Pids, QuietStep(p)
  PROVE  /\ UNCHANGED tables
         /\ \A q \in Pids : pc'[q] \in Inside => GoesOn(q)
<1>1. pc \in [Pids -> Pcs] /\ ses \in [Pids -> Sessions]
  BY DEF TypeInv, TypeOK, Pcs
<1>2. ASSUME NEW where, NEW session, Goto(p, where, session)
      PROVE  /\ pc'[p] = where /\ ses'[p] = session
             /\ \A q \in Pids \ {p} : pc'[q] = pc[q] /\ ses'[q] = ses[q]
  BY <1>1, <1>2 DEF Goto
<1>3. SUFFICES UNCHANGED tables /\ (pc'[p] \in Inside => GoesOn(p))
             /\ \A q \in Pids \ {p} : pc'[q] = pc[q] /\ ses'[q] = ses[q]
  BY DEF GoesOn
<1>4. ASSUME NEW where \in Pcs \ Inside, NEW session, Goto(p, where, session),
             UNCHANGED tables
      PROVE  UNCHANGED tables /\ (pc'[p] \in Inside => GoesOn(p))
             /\ \A q \in Pids \ {p} : pc'[q] = pc[q] /\ ses'[q] = ses[q]
  BY <1>2, <1>4
<1>5. CASE \/ Spawn(p) \/ OpenStore(p) \/ OpenRecovery(p) \/ CloseStore(p) \/ Die(p)
           \/ RaiseOut(p) \/ RefuseBusy(p) \/ RefuseStart(p) \/ RefuseResume(p)
  <2>1. \E where \in Pcs \ Inside : \E session : Goto(p, where, session)
    BY <1>5 DEF Spawn, OpenStore, OpenRecovery, CloseStore, Die, RaiseOut, RefuseBusy,
       RefuseStart, RefuseResume, Leave, Pcs, OpenPcs, Inside, Attempting
  <2>2. UNCHANGED tables
    BY <1>5 DEF Spawn, OpenStore, OpenRecovery, CloseStore, Die, RaiseOut, RefuseBusy,
       RefuseStart, RefuseResume
  <2> QED
    BY <1>4, <2>1, <2>2
<1>6. CASE \/ \E mw \in Matchweeks, c \in Contracts, g \in Guards : CallStart(p, mw, c, g)
           \/ \E r \in RunIds, c \in Contracts, g \in Guards : CallResume(p, r, c, g)
  <2>1. \E session : Goto(p, "called", session)
    BY <1>6 DEF CallStart, CallResume
  <2>2. UNCHANGED tables /\ "called" \in Pcs \ Inside
    BY <1>6 DEF CallStart, CallResume, Pcs, OpenPcs, Inside, Attempting
  <2> QED
    BY <1>4, <2>1, <2>2
<1>7. CASE \/ WorkFails(p) \/ WatchdogFires(p) \/ CheckpointFails(p)
           \/ \E result \in Results : WorkReturns(p, result)
  <2>1. pc[p] \in Attempting /\ UNCHANGED tables
    BY <1>7 DEF WorkFails, WatchdogFires, CheckpointFails, WorkReturns, Attempting
  <2>2. \E session : /\ Goto(p, "stopping", session) \/ Goto(p, "returned", session)
                     /\ Position(session) = Position(ses[p])
    <3>1. ASSUME NEW o
          PROVE  LET t == [ses[p] EXCEPT !.ended = now, !.result = NoResult, !.outcome = o]
                 IN  Position(t) = Position(ses[p])
      BY <1>1 DEF Sessions, Position
    <3>2. ASSUME NEW x
          PROVE  LET t == [ses[p] EXCEPT !.ended = now, !.result = x]
                 IN  Position(t) = Position(ses[p])
      BY <1>1 DEF Sessions, Position
    <3>3. LET t == [ses[p] EXCEPT !.result = NoResult, !.outcome = "FAILED"]
          IN  Position(t) = Position(ses[p])
      BY <1>1 DEF Sessions, Position
    <3>4. CASE WorkFails(p) \/ WatchdogFires(p)
      BY <3>1, <3>4 DEF WorkFails, WatchdogFires, Stopping
    <3>5. CASE \E result \in Results : WorkReturns(p, result)
      BY <3>1, <3>2, <3>5 DEF WorkReturns, Stopping
    <3>6. CASE CheckpointFails(p)
      BY <3>3, <3>6 DEF CheckpointFails
    <3> QED
      BY <1>7, <3>4, <3>5, <3>6
  <2>3. PICK session : /\ Goto(p, "stopping", session) \/ Goto(p, "returned", session)
                       /\ Position(session) = Position(ses[p])
    BY <2>2
  <2> QED
    BY <1>2, <2>1, <2>3 DEF GoesOn, Inside, Attempting
<1> QED
  BY <1>5, <1>6, <1>7 DEF QuietStep

LEMMA WorldTables ==
  ASSUME WorldStep \/ UNCHANGED vars
  PROVE  UNCHANGED <<pc, ses, ticks, lock, tables>>
BY DEF WorldStep, CloseGate, Tick, Rot, Repair, vars, procVars, tables

\* The steps that write a table.
WriteStep(p) ==
  \/ InterruptAbandoned(p)
  \/ \E r \in RunIds : CreateRun(p, r)
  \/ BlockResume(p) \/ MarkResumed(p) \/ StartAttempt(p) \/ Checkpoint(p)
  \/ FinishAttempt(p) \/ PublishCompletion(p) \/ CompleteRun(p) \/ CompletionFails(p)

LEMMA StepKinds ==
  ASSUME [Next]_vars
  PROVE  \/ \E p \in Pids : QuietStep(p) \/ WriteStep(p)
         \/ WorldStep \/ UNCHANGED vars
BY DEF Next, Advance, QuietStep, WriteStep, WorldStep

\* Whoever writes is alone in the store and stays the only one there.
LEMMA WriterIsAlone ==
  ASSUME TypeInv, ExclusionInv, NEW p \in Pids, WriteStep(p)
  PROVE  \A q \in Pids : pc'[q] \in Inside => q = p
<1>1. /\ lock' = lock /\ pc[p] \in OpenPcs
      /\ \E where, session : Goto(p, where, session)
  <2>1. CASE InterruptAbandoned(p) \/ \E r \in RunIds : CreateRun(p, r)
    BY <2>1 DEF InterruptAbandoned, CreateRun, OpenPcs
  <2>2. CASE BlockResume(p) \/ MarkResumed(p) \/ FinishAttempt(p) \/ Checkpoint(p)
    BY <2>2 DEF BlockResume, MarkResumed, FinishAttempt, Checkpoint, Leave, OpenPcs
  <2>3. CASE StartAttempt(p)
    BY <2>3 DEF StartAttempt, OpenPcs
  <2>4. CASE PublishCompletion(p) \/ CompleteRun(p) \/ CompletionFails(p)
    BY <2>4 DEF PublishCompletion, CompleteRun, CompletionFails, Leave, OpenPcs
  <2> QED
    BY <2>1, <2>2, <2>3, <2>4 DEF WriteStep
<1>2. PICK where, session : Goto(p, where, session)
  BY <1>1
<1>3. \A q \in Pids : pc'[q] \in OpenPcs => q = p
  BY <1>1, <1>2, OthersAreOut DEF ExclusionInv
<1> QED
  BY <1>3 DEF Inside, Attempting, OpenPcs

\* TablesAgree, one work unit at a time.
RowAgrees(r, i) ==
  LET u == units[<<r, i>>] IN
  /\ u.state = "COMPLETE" <=> Present(r, i)
  /\ u.state = "RUNNING" <=> \E n \in Tries : <<r, i, n>> \in Running
  /\ \A n \in Tries :
       /\ attempts[<<r, i, n>>].status # "ABSENT" <=> n <= u.count
       /\ attempts[<<r, i, n>>].status = "RUNNING" => n = u.count
       /\ attempts[<<r, i, n>>].status = "COMPLETED"
            <=> Present(r, i) /\ ckpts[<<r, i>>].attempt = n
  /\ Present(r, i) => ckpts[<<r, i>>].attempt = u.count

LEMMA TablesAgreeByRow == TablesAgree <=> \A r \in RunIds, i \in Phases : RowAgrees(r, i)
BY DEF TablesAgree, RowAgrees

\* A RUNNING attempt names the process that coordinates it, and every
\* coordinator between StartAttempt and the close of its attempt has one.
OwnInv ==
  /\ \A k \in Running : /\ attempts[k].owner \in Tokens
                        /\ StatReadable \/ attempts[k].owner[2] = Unknown
  /\ \A p \in Pids : pc[p] \in Attempting =>
       MyKey(p) \in Running /\ attempts[MyKey(p)].owner[1] = p

TablesInv == TablesAgree /\ OwnInv

\* A row whose three tables stay as they are keeps agreeing.
LEMMA UntouchedRow ==
  ASSUME NEW r \in RunIds, NEW i \in Phases, RowAgrees(r, i),
         units'[<<r, i>>] = units[<<r, i>>], ckpts'[<<r, i>>] = ckpts[<<r, i>>],
         \A n \in Tries : attempts'[<<r, i, n>>] = attempts[<<r, i, n>>]
  PROVE  RowAgrees(r, i)'
BY DEF RowAgrees, Present, Running, Keys

LEMMA InitTables == Init => TablesInv
<1> SUFFICES ASSUME Init PROVE TablesInv
  OBVIOUS
<1>1. Running = {}
  BY DEF Init, Running, NoAttempt
<1>2. ASSUME NEW r \in RunIds, NEW i \in Phases PROVE RowAgrees(r, i)
  BY <1>1 DEF Init, RowAgrees, Present, NoAttempt, NoCkpt, Keys
<1> QED
  BY <1>1, <1>2, TablesAgreeByRow DEF Init, TablesInv, OwnInv, Attempting

\* Steps that leave the attempts, and the position of whoever has one, alone.
LEMMA QuietTablesInv ==
  ASSUME TablesInv, UNCHANGED <<units, attempts, ckpts>>,
         \A q \in Pids : pc'[q] \in Attempting =>
           pc[q] \in Attempting /\ Position(ses'[q]) = Position(ses[q])
  PROVE  TablesInv'
<1>1. TablesAgree'
  <2> SUFFICES ASSUME NEW r \in RunIds, NEW i \in Phases PROVE RowAgrees(r, i)'
    BY DEF TablesAgree, RowAgrees
  <2>1. RowAgrees(r, i)
    BY TablesAgreeByRow DEF TablesInv
  <2> QED
    BY <2>1, UntouchedRow
<1>2. \A q \in Pids : pc'[q] \in Attempting => MyKey(q)' = MyKey(q)
  BY DEF Position, MyKey
<1>3. Running' = Running
  BY SameAttempts
<1> QED
  BY <1>1, <1>2, <1>3 DEF TablesInv, OwnInv

LEMMA SweepTables ==
  ASSUME TypeInv, ExclusionInv, TablesInv, NEW p \in Pids, InterruptAbandoned(p)
  PROVE  TablesInv'
<1>1. /\ attempts' = [k \in Keys |->
           IF k \in Running
           THEN [attempts[k] EXCEPT !.status = "INTERRUPTED",
                                    !.elapsed = now - attempts[k].started]
           ELSE attempts[k]]
      /\ units' = [u \in RunIds \X Phases |->
           IF units[u].state = "RUNNING" /\ \E k \in Running : <<k[1], k[2]>> = u
           THEN Reopened(units[u]) ELSE units[u]]
      /\ ckpts' = ckpts
      /\ \A k \in Keys : attempts[k] \in AttemptRows
      /\ \A u \in RunIds \X Phases :
           units[u] \in [state : UnitStates, count : 0..MaxAttempts]
  BY DEF InterruptAbandoned, TypeInv, TypeOK
<1>2. /\ \A k \in Running : attempts'[k].status = "INTERRUPTED"
      /\ \A k \in Keys \ Running : attempts'[k] = attempts[k]
      /\ Running \subseteq Keys
  BY <1>1 DEF AttemptRows, Running
<1>3. Running' = {}
  BY <1>2 DEF Running
<1>4. ASSUME NEW r \in RunIds, NEW i \in Phases PROVE RowAgrees(r, i)'
  <2>1. RowAgrees(r, i)
    BY TablesAgreeByRow DEF TablesInv
  <2>2. CASE \E n \in Tries : <<r, i, n>> \in Running
    <3>1. units[<<r, i>>].state = "RUNNING"
          /\ \E k \in Running : <<k[1], k[2]>> = <<r, i>>
      BY <2>1, <2>2 DEF RowAgrees
    <3>2. /\ units'[<<r, i>>].state = "PENDING"
          /\ units'[<<r, i>>].count = units[<<r, i>>].count
      <4>1. <<r, i>> \in RunIds \X Phases
        OBVIOUS
      <4>2. units'[<<r, i>>] = Reopened(units[<<r, i>>])
        BY <1>1, <3>1, <4>1
      <4> QED
        BY <1>1, <4>1, <4>2 DEF Reopened
    <3>3. ~Present(r, i) /\ ckpts' = ckpts
      BY <1>1, <2>1, <3>1 DEF RowAgrees
    <3>4. \A n \in Tries :
            /\ attempts'[<<r, i, n>>].status # "ABSENT"
                 <=> attempts[<<r, i, n>>].status # "ABSENT"
            /\ attempts'[<<r, i, n>>].status # "RUNNING"
            /\ attempts'[<<r, i, n>>].status # "COMPLETED"
      <4> SUFFICES ASSUME NEW n \in Tries
                   PROVE /\ attempts'[<<r, i, n>>].status # "ABSENT"
                              <=> attempts[<<r, i, n>>].status # "ABSENT"
                         /\ attempts'[<<r, i, n>>].status # "RUNNING"
                         /\ attempts'[<<r, i, n>>].status # "COMPLETED"
        OBVIOUS
      <4>1. <<r, i, n>> \in Keys
        BY DEF Keys
      <4>2. attempts[<<r, i, n>>].status # "COMPLETED"
        BY <2>1, <3>3 DEF RowAgrees
      <4> QED
        BY <1>2, <4>1, <4>2 DEF Running
    <3> QED
      BY <1>3, <2>1, <3>2, <3>3, <3>4 DEF RowAgrees, Present
  <2>3. CASE ~\E n \in Tries : <<r, i, n>> \in Running
    <3>1. units'[<<r, i>>] = units[<<r, i>>]
      BY <1>1, <2>1, <2>3 DEF RowAgrees
    <3>2. \A n \in Tries : attempts'[<<r, i, n>>] = attempts[<<r, i, n>>]
      BY <1>2, <2>3 DEF Keys
    <3> QED
      BY <1>1, <2>1, <3>1, <3>2, UntouchedRow
  <2> QED
    BY <2>2, <2>3
<1>5. \A q \in Pids : pc'[q] \notin Attempting
  <2>1. pc'[p] = "swept" /\ \A q \in Pids : pc'[q] \in Inside => q = p
    BY WriterIsAlone DEF WriteStep, InterruptAbandoned, Goto, TypeInv, TypeOK
  <2> QED
    BY <2>1 DEF Inside, Attempting
<1>6. TablesAgree'
  BY <1>4 DEF TablesAgree, RowAgrees
<1> QED
  BY <1>3, <1>5, <1>6 DEF TablesInv, OwnInv

\* A run that does not exist has no attempts, and so nothing in its units.
LEMMA AbsentRunIsEmpty ==
  ASSUME TypeInv, TablesInv, NEW r \in RunIds, runs[r].state = "ABSENT", NEW i \in Phases
  PROVE  units[<<r, i>>] = [state |-> "PENDING", count |-> 0] /\ ~Present(r, i)
<1>1. /\ units[<<r, i>>] \in [state : UnitStates, count : 0..MaxAttempts]
      /\ ckpts[<<r, i>>] \in CkptRows \cup {NoCkpt}
      /\ RowAgrees(r, i)
  BY TablesAgreeByRow DEF TypeInv, TypeOK, TablesInv
<1>2. \A n \in Tries : attempts[<<r, i, n>>].status = "ABSENT"
  BY DEF TypeInv, AttemptsOK, Keys
<1>3. units[<<r, i>>].count = 0
  <2>1. \A n \in Tries : ~(n <= units[<<r, i>>].count)
    BY <1>1, <1>2 DEF RowAgrees
  <2> QED
    BY <1>1, <2>1
<1>4. ~Present(r, i)
  <2> SUFFICES ASSUME Present(r, i) PROVE FALSE
    OBVIOUS
  <2>0. ckpts[<<r, i>>] # NoCkpt
    BY DEF Present, NoCkpt
  <2>1. ckpts[<<r, i>>].attempt \in Tries
    BY <1>1, <2>0 DEF CkptRows
  <2>2. ckpts[<<r, i>>].attempt = 0
    BY <1>1, <1>3 DEF RowAgrees
  <2>3. 0 \in Tries
    BY <2>1, <2>2
  <2> QED
    BY <2>3
<1>5. units[<<r, i>>].state = "PENDING"
  BY <1>1, <1>2, <1>4 DEF RowAgrees, Running, UnitStates
<1> QED
  BY <1>1, <1>3, <1>4, <1>5

LEMMA CreateTables ==
  ASSUME TypeInv, ExclusionInv, TablesInv, NEW p \in Pids, NEW r \in RunIds, CreateRun(p, r)
  PROVE  TablesInv'
<1>1. runs[r].state = "ABSENT" /\ attempts' = attempts /\ ckpts' = ckpts
  BY DEF CreateRun
<1>2. units' = units
  <2>1. units' = [u \in RunIds \X Phases |->
          IF u[1] = r THEN [state |-> "PENDING", count |-> 0] ELSE units[u]]
    BY DEF CreateRun
  <2>2. units \in [RunIds \X Phases -> [state : UnitStates, count : 0..MaxAttempts]]
    BY DEF TypeInv, TypeOK
  <2>3. ASSUME NEW u \in RunIds \X Phases PROVE units'[u] = units[u]
    <3>1. PICK q \in RunIds, i \in Phases : u = <<q, i>>
      OBVIOUS
    <3> QED
      BY <1>1, <2>1, <3>1, AbsentRunIsEmpty
  <2> QED
    BY <2>1, <2>2, <2>3
<1>3. \A q \in Pids : pc'[q] \notin Attempting
  <2>1. pc'[p] = "executing" /\ \A q \in Pids : pc'[q] \in Inside => q = p
    BY WriterIsAlone DEF WriteStep, CreateRun, Goto, TypeInv, TypeOK
  <2> QED
    BY <2>1 DEF Inside, Attempting
<1> QED
  BY <1>1, <1>2, <1>3, QuietTablesInv

LEMMA StartTables ==
  ASSUME TypeInv, ExclusionInv, TablesInv, NEW p \in Pids, StartAttempt(p)
  PROVE  TablesInv'
<1>0. PICK r \in RunIds : r = ses[p].run
  BY DEF StartAttempt, TypeInv, SessionOK, SessionAt
<1>1. /\ ses[p] \in Sessions /\ pc[p] = "executing"
      /\ attempts \in [Keys -> AttemptRows]
      /\ units \in [RunIds \X Phases -> [state : UnitStates, count : 0..MaxAttempts]]
  BY DEF StartAttempt, TypeInv, TypeOK, SessionOK, SessionAt
<1>2. Running = {}
  BY <1>1 DEF ExclusionInv, SweepInv
<1>3. PICK i \in ses[p].todo, n \in Tries :
        /\ n = units[<<r, i>>].count + 1
        /\ units[<<r, i>>].state # "COMPLETE"
        /\ units' = [units EXCEPT ![<<r, i>>] = [state |-> "RUNNING", count |-> n]]
        /\ attempts' = [attempts EXCEPT ![<<r, i, n>>] =
             [status |-> "RUNNING", owner |-> Token(p), started |-> now, elapsed |-> 0]]
        /\ Goto(p, "working", [ses[p] EXCEPT !.phase = i, !.attempt = n, !.started = now])
  BY <1>0 DEF StartAttempt
<1>4. i \in Phases /\ <<r, i>> \in RunIds \X Phases /\ <<r, i, n>> \in Keys
  BY <1>1 DEF Sessions, Keys
<1>5. ckpts' = ckpts
  BY DEF StartAttempt
<1>6. /\ attempts'[<<r, i, n>>].status = "RUNNING"
      /\ attempts'[<<r, i, n>>].owner = Token(p)
      /\ \A k \in Keys : k # <<r, i, n>> => attempts'[k] = attempts[k]
      /\ units'[<<r, i>>] = [state |-> "RUNNING", count |-> n]
      /\ \A u \in RunIds \X Phases : u # <<r, i>> => units'[u] = units[u]
  BY <1>1, <1>3, <1>4
<1>7. Running' = {<<r, i, n>>}
  BY <1>2, <1>4, <1>6 DEF Running
<1>8. ASSUME NEW q \in RunIds, NEW j \in Phases PROVE RowAgrees(q, j)'
  <2>1. RowAgrees(q, j)
    BY TablesAgreeByRow DEF TablesInv
  <2>2. CASE <<q, j>> # <<r, i>>
    <3>1. \A m \in Tries : <<q, j, m>> \in Keys /\ <<q, j, m>> # <<r, i, n>>
      BY <2>2 DEF Keys
    <3> QED
      BY <1>5, <1>6, <2>1, <2>2, <3>1, UntouchedRow
  <2>3. CASE q = r /\ j = i
    <3>1. /\ ~Present(r, i)
          /\ units[<<r, i>>].count \in Nat
          /\ \A m \in Tries : attempts[<<r, i, m>>].status # "COMPLETED"
          /\ \A m \in Tries : attempts[<<r, i, m>>].status # "ABSENT"
                                <=> m <= units[<<r, i>>].count
      <4>1. RowAgrees(r, i)
        BY <2>1, <2>3
      <4>2. ~Present(r, i)
        BY <1>3, <4>1 DEF RowAgrees
      <4>3. units[<<r, i>>].count \in Nat
        BY <1>1, <1>4
      <4> QED
        BY <4>1, <4>2, <4>3 DEF RowAgrees
    <3>2. ASSUME NEW m \in Tries
          PROVE  /\ attempts'[<<r, i, m>>].status # "ABSENT" <=> m <= n
                 /\ attempts'[<<r, i, m>>].status = "RUNNING" => m = n
                 /\ attempts'[<<r, i, m>>].status # "COMPLETED"
      <4>1. CASE m = n
        BY <1>6, <4>1
      <4>2. CASE m # n
        <5>1. <<r, i, m>> \in Keys \ {<<r, i, n>>}
          BY <1>4, <4>2 DEF Keys
        <5>2. attempts'[<<r, i, m>>] = attempts[<<r, i, m>>]
          BY <1>6, <5>1
        <5>3. attempts[<<r, i, m>>].status # "RUNNING"
          BY <1>2, <5>1 DEF Running
        <5>4. m <= units[<<r, i>>].count <=> m <= n
          BY <1>3, <3>1, <4>2
        <5> QED
          BY <3>1, <4>2, <5>2, <5>3, <5>4
      <4> QED
        BY <4>1, <4>2
    <3>3. ~Present(r, i)' /\ units'[<<r, i>>].state = "RUNNING"
          /\ units'[<<r, i>>].count = n /\ <<r, i, n>> \in Running'
      BY <1>5, <1>6, <1>7, <3>1 DEF Present
    <3>4. RowAgrees(r, i)'
      BY <3>2, <3>3 DEF RowAgrees
    <3> QED
      BY <2>3, <3>4
  <2> QED
    BY <2>2, <2>3
<1>9. \A q \in Pids : pc'[q] \in Attempting =>
        MyKey(q)' = <<r, i, n>> /\ q = p
  <2>1. \A q \in Pids : pc'[q] \in Inside => q = p
    BY WriterIsAlone DEF WriteStep
  <2>2. ses'[p] = [ses[p] EXCEPT !.phase = i, !.attempt = n, !.started = now]
    BY <1>3 DEF Goto, TypeInv, TypeOK
  <2>3. MyKey(p)' = <<r, i, n>>
    BY <1>0, <1>1, <2>2 DEF MyKey, Sessions
  <2> QED
    BY <2>1, <2>3 DEF Inside
<1>10. Token(p) \in Tokens /\ Token(p)[1] = p /\ (StatReadable \/ Token(p)[2] = Unknown)
  BY DEF Token, Tokens, TypeInv, TypeOK
<1>11. TablesAgree'
  BY <1>8 DEF TablesAgree, RowAgrees
<1> QED
  BY <1>6, <1>7, <1>9, <1>10, <1>11 DEF TablesInv, OwnInv

\* The row of the one RUNNING attempt, when its coordinator closes it: with a
\* checkpoint that names the attempt, or back to PENDING without one.
LEMMA CloseTables ==
  ASSUME TypeInv, ExclusionInv, TablesInv, NEW p \in Pids, Checkpoint(p) \/ FinishAttempt(p)
  PROVE  TablesInv'
<1>0. PICK r \in RunIds, i \in Phases, n \in Tries :
        r = ses[p].run /\ i = ses[p].phase /\ n = ses[p].attempt
  BY DEF Checkpoint, FinishAttempt, TypeInv, SessionOK, SessionAt
<1> DEFINE key == <<r, i, n>>
<1>1. /\ ses[p] \in Sessions /\ pc[p] \in {"returned", "stopping"}
      /\ pc[p] = "stopping" => ses[p].outcome \in {"INTERRUPTED", "FAILED"}
      /\ attempts \in [Keys -> AttemptRows]
      /\ units \in [RunIds \X Phases -> [state : UnitStates, count : 0..MaxAttempts]]
      /\ ckpts \in [RunIds \X Phases -> CkptRows \cup {NoCkpt}]
  BY DEF Checkpoint, FinishAttempt, TypeInv, TypeOK, SessionOK, SessionAt
<1>2. key \in Running /\ key \in Keys /\ <<r, i>> \in RunIds \X Phases
  BY <1>0, <1>1 DEF TablesInv, OwnInv, Attempting, MyKey, Running
<1>3. Running = {key}
  BY <1>1, <1>2 DEF ExclusionInv, AtMostOneRunning
<1>4. RowAgrees(r, i)
  BY <1>1, TablesAgreeByRow DEF TablesInv
<1>5. units[<<r, i>>].state = "RUNNING" /\ units[<<r, i>>].count = n
  BY <1>1, <1>2, <1>4 DEF RowAgrees, Running
<1>6. PICK status \in {"COMPLETED", "INTERRUPTED", "FAILED"}, elapsed \in {ses[p].ended - ses[p].started} :
        /\ attempts' = [attempts EXCEPT ![key].status = status, ![key].elapsed = elapsed]
        /\ \/ /\ status = "COMPLETED"
              /\ units' = [units EXCEPT ![<<r, i>>].state = "COMPLETE"]
              /\ \E input, output :
                   ckpts' = [ckpts EXCEPT ![<<r, i>>] =
                     [present |-> TRUE, attempt |-> n, output |-> output, input |-> input]]
           \/ /\ status \in {"INTERRUPTED", "FAILED"}
              /\ units' = [units EXCEPT ![<<r, i>>] = Reopened(@)]
              /\ ckpts' = ckpts
  <2>1. attempts[key].status = "RUNNING"
    BY <1>2 DEF Running
  <2>2. CASE Checkpoint(p)
    BY <1>0, <1>5, <2>1, <2>2 DEF Checkpoint
  <2>3. CASE FinishAttempt(p)
    BY <1>0, <1>1, <1>5, <2>1, <2>3 DEF FinishAttempt
  <2> QED
    BY <2>2, <2>3
<1>7. /\ attempts'[key].status = status
      /\ \A k \in Keys : k # key => attempts'[k] = attempts[k]
  BY <1>1, <1>2, <1>6 DEF AttemptRows
<1>8. /\ units'[<<r, i>>].count = n
      /\ status = "COMPLETED" =>
           /\ units'[<<r, i>>].state = "COMPLETE"
           /\ ckpts'[<<r, i>>].present /\ ckpts'[<<r, i>>].attempt = n
      /\ status # "COMPLETED" =>
           units'[<<r, i>>].state = "PENDING" /\ ckpts' = ckpts
      /\ \A u \in RunIds \X Phases : u # <<r, i>> =>
           units'[u] = units[u] /\ ckpts'[u] = ckpts[u]
  <2>1. CASE status = "COMPLETED"
    <3>1. /\ units' = [units EXCEPT ![<<r, i>>].state = "COMPLETE"]
          /\ \E input, output :
               ckpts' = [ckpts EXCEPT ![<<r, i>>] =
                 [present |-> TRUE, attempt |-> n, output |-> output, input |-> input]]
      BY <1>6, <2>1
    <3> QED
      BY <1>1, <1>2, <1>5, <2>1, <3>1
  <2>2. CASE status # "COMPLETED"
    <3>1. units' = [units EXCEPT ![<<r, i>>] = Reopened(@)] /\ ckpts' = ckpts
      BY <1>6, <2>2
    <3> QED
      BY <1>1, <1>2, <1>5, <2>2, <3>1 DEF Reopened
  <2> QED
    BY <2>1, <2>2
<1>9. Running' = {}
  <2> SUFFICES ASSUME NEW k \in Keys PROVE attempts'[k].status # "RUNNING"
    BY DEF Running
  <2>1. CASE k = key
    BY <1>6, <1>7, <2>1
  <2>2. CASE k # key
    BY <1>3, <1>7, <2>2 DEF Running
  <2> QED
    BY <2>1, <2>2
<1>10. ASSUME NEW q \in RunIds, NEW j \in Phases PROVE RowAgrees(q, j)'
  <2>1. RowAgrees(q, j)
    BY TablesAgreeByRow DEF TablesInv
  <2>2. CASE <<q, j>> # <<r, i>>
    <3>1. \A m \in Tries : <<q, j, m>> \in Keys /\ <<q, j, m>> # key
      BY <2>2 DEF Keys
    <3> QED
      BY <1>7, <1>8, <2>1, <2>2, <3>1, UntouchedRow
  <2>3. CASE q = r /\ j = i
    <3>1. ~Present(r, i)
      BY <1>4, <1>5 DEF RowAgrees
    <3>2. ASSUME NEW m \in Tries
          PROVE  /\ attempts'[<<r, i, m>>].status # "ABSENT" <=> m <= n
                 /\ attempts'[<<r, i, m>>].status # "RUNNING"
                 /\ attempts'[<<r, i, m>>].status = "COMPLETED"
                      <=> status = "COMPLETED" /\ m = n
      <4>1. CASE m = n
        BY <1>1, <1>6, <1>7, <4>1
      <4>2. CASE m # n
        <5>1. <<r, i, m>> \in Keys \ {key}
          BY <1>1, <4>2 DEF Keys
        <5>2. attempts'[<<r, i, m>>] = attempts[<<r, i, m>>]
          BY <1>7, <5>1
        <5>3. attempts[<<r, i, m>>].status # "RUNNING"
          BY <1>3, <5>1 DEF Running
        <5> QED
          BY <1>4, <1>5, <3>1, <4>2, <5>2, <5>3 DEF RowAgrees
      <4> QED
        BY <4>1, <4>2
    <3>3. Present(r, i)' <=> status = "COMPLETED"
      BY <1>6, <1>8, <3>1 DEF Present
    <3>4. RowAgrees(r, i)'
      BY <1>6, <1>8, <1>9, <3>2, <3>3 DEF RowAgrees
    <3> QED
      BY <2>3, <3>4
  <2> QED
    BY <2>2, <2>3
<1>11. \A q \in Pids : pc'[q] \notin Attempting
  <2>1. \A q \in Pids : pc'[q] \in Inside => q = p
    BY WriterIsAlone DEF WriteStep
  <2>2. pc'[p] \in {"executing", "idle"}
    BY <1>1 DEF Checkpoint, FinishAttempt, Leave, Goto, TypeInv, TypeOK
  <2> QED
    BY <2>1, <2>2 DEF Inside, Attempting
<1>12. TablesAgree'
  BY <1>10 DEF TablesAgree, RowAgrees
<1> QED
  BY <1>9, <1>11, <1>12 DEF TablesInv, OwnInv

\* The writes that leave units, attempts and checkpoints alone.
LEMMA OtherWriteTables ==
  ASSUME TypeInv, ExclusionInv, TablesInv, NEW p \in Pids,
         \/ BlockResume(p) \/ MarkResumed(p) \/ PublishCompletion(p)
         \/ CompleteRun(p) \/ CompletionFails(p)
  PROVE  TablesInv'
<1>1. UNCHANGED <<units, attempts, ckpts>>
  BY DEF BlockResume, MarkResumed, PublishCompletion, CompleteRun, CompletionFails
<1>2. \E where \in {"idle", "executing", "completing"} : \E session : Goto(p, where, session)
  BY DEF BlockResume, MarkResumed, PublishCompletion, CompleteRun, CompletionFails, Leave
<1>3. pc'[p] \notin Attempting
  BY <1>2 DEF Goto, TypeInv, TypeOK, Attempting
<1>4. \A q \in Pids : pc'[q] \in Inside => q = p
  BY WriterIsAlone DEF WriteStep
<1> QED
  BY <1>1, <1>3, <1>4, QuietTablesInv DEF Inside

LEMMA TablesStep == TypeInv /\ ExclusionInv /\ TablesInv /\ [Next]_vars => TablesInv'
<1> SUFFICES ASSUME TypeInv, ExclusionInv, TablesInv, [Next]_vars PROVE TablesInv'
  OBVIOUS
<1>1. ASSUME NEW p \in Pids, QuietStep(p) PROVE TablesInv'
  <2>1. UNCHANGED <<units, attempts, ckpts>>
    BY <1>1, QuietTables DEF tables
  <2>2. \A q \in Pids : pc'[q] \in Attempting =>
          pc[q] \in Attempting /\ Position(ses'[q]) = Position(ses[q])
    BY <1>1, QuietTables DEF GoesOn, Inside
  <2> QED
    BY <2>1, <2>2, QuietTablesInv
<1>2. ASSUME NEW p \in Pids, WriteStep(p) PROVE TablesInv'
  BY <1>2, SweepTables, CreateTables, StartTables, CloseTables, OtherWriteTables
     DEF WriteStep
<1>3. CASE WorldStep \/ UNCHANGED vars
  <2>1. UNCHANGED <<pc, ses, ticks, lock, tables>>
    BY <1>3, WorldTables
  <2> QED
    BY <2>1, QuietTablesInv DEF tables
<1> QED
  BY <1>1, <1>2, <1>3, StepKinds

THEOREM TablesInvariant == Spec => []TablesInv
BY TablesStep, InitTables, TypeInvariant, ExclusionInvariant, PTL DEF Spec

\* TablesAgree for any number of processes, runs, phases and attempts: the
\* UPDATE statements that interrupt_abandoned, start_attempt, checkpoint and
\* finish_attempt send to four tables never leave them telling different
\* stories, wherever a process dies.
THEOREM TablesAgreeAlways == Spec => []TablesAgree
<1>1. TablesInv => TablesAgree
  BY DEF TablesInv
<1> QED
  BY <1>1, TablesInvariant, PTL

\* What closes the RUNNING attempt of somebody else: only a sweep, and only when
\* the process named in its owner token has ended.
LEMMA InterruptionStep ==
  ASSUME TypeInv, ExclusionInv, TablesInv, [Next]_vars, NEW k \in Running,
         attempts'[k].status = "INTERRUPTED"
  PROVE  LET p == attempts[k].owner[1] IN
         \/ pc[p] = "stopping" /\ <<ses[p].run, ses[p].phase, ses[p].attempt>> = k
         \/ OwnerGone(k)
<1>0. /\ k \in Keys /\ attempts[k].status = "RUNNING"
      /\ attempts[k].owner \in Tokens
      /\ StatReadable \/ attempts[k].owner[2] = Unknown
      /\ attempts \in [Keys -> AttemptRows]
  BY DEF Running, TablesInv, OwnInv, TypeInv, TypeOK
<1>1. PICK p \in Pids : attempts[k].owner[1] = p /\ attempts[k].owner = <<p, attempts[k].owner[2]>>
  BY <1>0 DEF Tokens
<1>2. attempts' # attempts
  BY <1>0
<1>3. PICK q \in Pids : WriteStep(q)
  <2>1. ASSUME NEW q \in Pids, QuietStep(q) PROVE FALSE
    BY <1>2, <2>1, QuietTables DEF tables
  <2>2. ~(WorldStep \/ UNCHANGED vars)
    BY <1>2, WorldTables DEF tables
  <2> QED
    BY <2>1, <2>2, StepKinds
<1>4. CASE InterruptAbandoned(q)
  <2>1. ~TokenIsAlive(attempts[k].owner)
    BY <1>4 DEF InterruptAbandoned
  <2>2. Token(p) # attempts[k].owner
    BY <1>1, <2>1 DEF TokenIsAlive
  <2> QED
    BY <1>0, <1>1, <2>2 DEF Token, OwnerGone
<1>5. CASE FinishAttempt(q) \/ Checkpoint(q)
  <2>1. pc[q] \in Attempting
    BY <1>5 DEF FinishAttempt, Checkpoint, Attempting
  <2>2. MyKey(q) = k /\ attempts[k].owner[1] = q
    BY <2>1 DEF TablesInv, OwnInv, ExclusionInv, AtMostOneRunning
  <2>3. CASE FinishAttempt(q)
    BY <1>1, <2>2, <2>3 DEF FinishAttempt, MyKey
  <2>4. CASE Checkpoint(q)
    <3>1. attempts'[k].status = "COMPLETED"
      BY <1>0, <2>2, <2>4 DEF Checkpoint, MyKey, AttemptRows
    <3> QED
      BY <3>1
  <2> QED
    BY <1>5, <2>3, <2>4
<1>6. CASE StartAttempt(q)
  <2>1. Running = {}
    BY <1>6 DEF StartAttempt, ExclusionInv, SweepInv
  <2> QED
    BY <2>1
<1>7. CASE \/ \E r \in RunIds : CreateRun(q, r)
           \/ BlockResume(q) \/ MarkResumed(q) \/ PublishCompletion(q)
           \/ CompleteRun(q) \/ CompletionFails(q)
  BY <1>2, <1>7 DEF CreateRun, BlockResume, MarkResumed, PublishCompletion, CompleteRun,
     CompletionFails
<1> QED
  BY <1>3, <1>4, <1>5, <1>6, <1>7 DEF WriteStep

\* OnlyAbandonedAreInterrupted for any number of processes and pids, with and
\* without a readable /proc: interrupt_abandoned takes no attempt from a process
\* that still runs.
THEOREM OnlyAbandonedAlways == Spec => OnlyAbandonedAreInterrupted
<1>1. TypeInv /\ ExclusionInv /\ TablesInv /\ [Next]_vars =>
        [\A k \in Running : attempts'[k].status = "INTERRUPTED" =>
           LET p == attempts[k].owner[1] IN
           \/ pc[p] = "stopping" /\ <<ses[p].run, ses[p].phase, ses[p].attempt>> = k
           \/ OwnerGone(k)]_vars
  BY InterruptionStep
<1> QED
  BY <1>1, TypeInvariant, ExclusionInvariant, TablesInvariant, PTL
     DEF Spec, OnlyAbandonedAreInterrupted

-----------------------------------------------------------------------------
(* One history per run: its checkpoints are a chain, its completion lists them,  *)
(* and whoever executes it stands at the end of that chain.                      *)

\* CheckpointChain, with the prefix as a whole: the first phases, without gaps.
ChainOK ==
  \A r \in RunIds :
    /\ \E n \in 0..NumPhases : Checkpointed(r) = 1..n
    /\ \A i \in Phases : Present(r, i) =>
         /\ runs[r].state # "ABSENT"
         /\ ckpts[<<r, i>>].input = WorkInput(runs[r].contract, i, Predecessor(r, i))

\* The todo list and the predecessor that _execute carries between its
\* statements are those of the tables; a publication awaits its completion row.
FollowsAt(point, s, r) ==
  /\ runs[r].state = "INCOMPLETE"
  /\ s.contract = runs[r].contract
  /\ s.todo = Phases \ Checkpointed(r)
  /\ IsOutputBefore(r, s.contract, NumPhases + 1, s.pred)
  /\ point \in Attempting => s.phase \in s.todo /\ \A j \in s.todo : s.phase <= j
  /\ point = "completing" => s.todo = {} /\ Completion(r) \in published

SessionFollows(p) == FollowsAt(pc[p], ses[p], ses[p].run)

FollowInv == \A p \in Pids : pc[p] \in Inside => SessionFollows(p)

HistoryInv == ChainOK /\ FollowInv /\ CompletionAttests /\ NoCompatibleTwins

\* A step keeps row r of research_runs: it may change its progress fields, but
\* neither its state nor its inputs, and nothing of it once it is COMPLETE.
RunKept(r) ==
  /\ runs'[r].state = runs[r].state
  /\ runs'[r].mw = runs[r].mw
  /\ runs'[r].contract = runs[r].contract
  /\ runs[r].state # "INCOMPLETE" => runs'[r] = runs[r]

LEMMA RunsKept ==
  ASSUME TypeInv, ExclusionInv, FollowInv, NEW p \in Pids,
         \/ InterruptAbandoned(p) \/ BlockResume(p) \/ MarkResumed(p) \/ StartAttempt(p)
         \/ Checkpoint(p) \/ FinishAttempt(p) \/ PublishCompletion(p) \/ CompletionFails(p)
  PROVE  \A r \in RunIds : RunKept(r)
<1>1. runs \in [RunIds -> RunRows \cup {NoRow}]
  BY DEF TypeInv, TypeOK
<1>2. ASSUME NEW r \in RunIds PROVE runs[r].state = "INCOMPLETE" => runs[r] \in RunRows
  BY <1>1 DEF NoRow
<1>3. CASE InterruptAbandoned(p)
  BY <1>2, <1>3 DEF InterruptAbandoned, RunKept, RunRows
<1>4. CASE BlockResume(p) \/ MarkResumed(p)
  BY <1>1, <1>2, <1>4 DEF BlockResume, MarkResumed, RunKept, RunRows
<1>5. CASE StartAttempt(p)
  <2>1. \E i : runs' = IF runs[ses[p].run].state = "INCOMPLETE"
                       THEN [runs EXCEPT ![ses[p].run].phase = i] ELSE runs
    BY <1>5 DEF StartAttempt
  <2> QED
    BY <1>1, <1>2, <2>1 DEF RunKept, RunRows
<1>6. CASE PublishCompletion(p) \/ CompletionFails(p)
  BY <1>1, <1>2, <1>6 DEF PublishCompletion, CompletionFails, RunKept, RunRows
<1>7. CASE Checkpoint(p)
  BY <1>1, <1>2, <1>7 DEF Checkpoint, RunKept, RunRows
<1>8. CASE FinishAttempt(p)
  BY <1>1, <1>2, <1>8 DEF FinishAttempt, RunKept, RunRows
<1> QED
  BY <1>3, <1>4, <1>5, <1>6, <1>7, <1>8

\* What the checkpoint rows and the contract of a run determine.
LEMMA SameHistory ==
  ASSUME NEW r \in RunIds, \A i \in Phases : ckpts'[<<r, i>>] = ckpts[<<r, i>>],
         runs'[r].contract = runs[r].contract
  PROVE  /\ Checkpointed(r)' = Checkpointed(r)
         /\ Completion(r)' = Completion(r)
         /\ \A c, i, o : IsOutputBefore(r, c, i, o)' <=> IsOutputBefore(r, c, i, o)
<1>1. Checkpointed(r)' = Checkpointed(r)
  BY DEF Checkpointed, Present
<1>2. \A i \in Checkpointed(r) : ckpts'[<<r, i>>].output = ckpts[<<r, i>>].output
  BY DEF Checkpointed
<1>3. Completion(r)' = Completion(r)
  BY <1>1, <1>2 DEF Completion
<1>4. ASSUME NEW c, NEW i, NEW o
      PROVE  IsOutputBefore(r, c, i, o)' <=> IsOutputBefore(r, c, i, o)
  BY <1>1, <1>2 DEF IsOutputBefore
<1> QED
  BY <1>1, <1>3, <1>4

LEMMA ChainKept ==
  ASSUME ChainOK, ckpts' = ckpts,
         \A r \in RunIds : runs[r].state # "ABSENT" =>
           runs'[r].state # "ABSENT" /\ runs'[r].contract = runs[r].contract
  PROVE  ChainOK'
<1> SUFFICES ASSUME NEW r \in RunIds
             PROVE  /\ \E n \in 0..NumPhases : Checkpointed(r)' = 1..n
                    /\ \A i \in Phases : Present(r, i)' =>
                         /\ runs'[r].state # "ABSENT"
                         /\ ckpts'[<<r, i>>].input
                              = WorkInput(runs'[r].contract, i, Predecessor(r, i)')
  BY DEF ChainOK, WorkInput
<1>1. Checkpointed(r)' = Checkpointed(r) /\ \A i \in Phases : Present(r, i)' = Present(r, i)
  BY DEF Checkpointed, Present
<1> QED
  BY <1>1 DEF ChainOK, Predecessor

LEMMA AttestKept ==
  ASSUME CompletionAttests, \A r \in RunIds : RunKept(r), completions' = completions,
         published \subseteq published',
         \A r \in RunIds : runs[r].state = "COMPLETE" =>
           \A i \in Phases : ckpts'[<<r, i>>] = ckpts[<<r, i>>]
  PROVE  CompletionAttests'
<1> SUFFICES ASSUME NEW r \in RunIds
             PROVE  /\ runs'[r].state = "COMPLETE" <=> completions'[r] # {}
                    /\ completions'[r] \subseteq published'
                    /\ runs'[r].state = "COMPLETE" =>
                         /\ Checkpointed(r)' = Phases
                         /\ completions'[r] = {Completion(r)'}
  BY DEF CompletionAttests
<1>1. RunKept(r)
  OBVIOUS
<1>2. runs[r].state = "COMPLETE" =>
        Checkpointed(r)' = Checkpointed(r) /\ Completion(r)' = Completion(r)
  BY <1>1, SameHistory DEF RunKept
<1> QED
  BY <1>1, <1>2 DEF CompletionAttests, RunKept

LEMMA TwinsKept ==
  ASSUME NoCompatibleTwins,
         \A r \in RunIds : runs'[r].state = "INCOMPLETE" =>
           /\ runs[r].state = "INCOMPLETE"
           /\ runs'[r].mw = runs[r].mw
           /\ runs'[r].contract = runs[r].contract
  PROVE  NoCompatibleTwins'
BY DEF NoCompatibleTwins, Compatible

\* A session that goes on over tables that stay still follows them.
LEMMA FollowKept ==
  ASSUME FollowInv, UNCHANGED tables, \A q \in Pids : pc'[q] \in Inside => GoesOn(q)
  PROVE  FollowInv'
<1> SUFFICES ASSUME NEW q \in Pids, pc'[q] \in Inside PROVE SessionFollows(q)'
  BY DEF FollowInv
<1>1. GoesOn(q) /\ SessionFollows(q)
  BY DEF FollowInv, GoesOn
<1> DEFINE s == ses[q]
           t == ses'[q]
<1>2. /\ t.run = s.run /\ t.contract = s.contract /\ t.todo = s.todo
      /\ t.pred = s.pred /\ t.phase = s.phase
  BY <1>1 DEF GoesOn, Position
<1>3. /\ pc'[q] \in Attempting => pc[q] \in Attempting
      /\ pc'[q] = "completing" => pc[q] = "completing"
  BY <1>1 DEF GoesOn
<1>4. FollowsAt(pc[q], s, s.run)
  BY <1>1 DEF SessionFollows
<1>5. \A r : /\ Checkpointed(r)' = Checkpointed(r)
             /\ Completion(r)' = Completion(r)
             /\ IsOutputBefore(r, s.contract, NumPhases + 1, s.pred) =>
                  IsOutputBefore(r, s.contract, NumPhases + 1, s.pred)'
  BY <1>2 DEF tables, Checkpointed, Present, Completion, IsOutputBefore
<1> QED
  BY <1>2, <1>3, <1>4, <1>5 DEF SessionFollows, FollowsAt, tables

\* The session a process arrives with, and what it has to follow.
LEMMA Arrives ==
  ASSUME NEW p \in Pids, NEW point, NEW s, NEW r,
         pc'[p] = point, ses'[p] = s, s.run = r, FollowsAt(point, s, r)'
  PROVE  SessionFollows(p)'
BY DEF SessionFollows, FollowsAt, IsOutputBefore, Checkpointed, Present, Completion

LEMMA InitHistory == Init => HistoryInv
<1> SUFFICES ASSUME Init PROVE HistoryInv
  OBVIOUS
<1>1. \A r \in RunIds, i \in Phases : ~Present(r, i)
  BY DEF Init, Present, NoCkpt
<1>1a. \A r \in RunIds : Checkpointed(r) = 1..0 /\ 0 \in 0..NumPhases
  BY <1>1 DEF Checkpointed
<1>2. \A r \in RunIds : runs[r].state = "ABSENT" /\ completions[r] = {}
  BY DEF Init, NoRow
<1>3. \A p \in Pids : pc[p] \notin Inside
  BY DEF Init, Inside, Attempting
<1> QED
  BY <1>1, <1>1a, <1>2, <1>3 DEF HistoryInv, ChainOK, FollowInv, CompletionAttests,
     NoCompatibleTwins

\* The writes after which nobody executes a run, and StartAttempt and
\* PublishCompletion, which move the session one point on.
LEMMA ProgressHistory ==
  ASSUME TypeInv, ExclusionInv, HistoryInv, NEW p \in Pids,
         \/ InterruptAbandoned(p) \/ BlockResume(p) \/ StartAttempt(p)
         \/ FinishAttempt(p) \/ PublishCompletion(p) \/ CompletionFails(p)
  PROVE  HistoryInv'
<1>1. /\ ckpts' = ckpts /\ completions' = completions /\ published \subseteq published'
  BY DEF InterruptAbandoned, BlockResume, StartAttempt, FinishAttempt, PublishCompletion,
     CompletionFails
<1>2. \A r \in RunIds : RunKept(r)
  BY RunsKept DEF HistoryInv
<1>3. ChainOK'
  BY <1>1, <1>2, ChainKept DEF HistoryInv, RunKept
<1>4. CompletionAttests'
  BY <1>1, <1>2, AttestKept DEF HistoryInv
<1>5. NoCompatibleTwins'
  BY <1>2, TwinsKept DEF HistoryInv, RunKept
<1>6. \A q \in Pids : pc'[q] \in Inside => q = p
  BY WriterIsAlone DEF WriteStep
<1>7. pc \in [Pids -> Pcs] /\ ses \in [Pids -> Sessions]
  BY DEF TypeInv, TypeOK, Pcs
<1>8. CASE InterruptAbandoned(p) \/ BlockResume(p) \/ FinishAttempt(p) \/ CompletionFails(p)
  <2>1. pc'[p] \in {"swept", "idle"}
    BY <1>7, <1>8 DEF InterruptAbandoned, BlockResume, FinishAttempt, CompletionFails,
       Leave, Goto
  <2>2. FollowInv'
    BY <1>6, <2>1 DEF FollowInv, Inside, Attempting
  <2> QED
    BY <1>3, <1>4, <1>5, <2>2 DEF HistoryInv
<1>9. CASE StartAttempt(p) \/ PublishCompletion(p)
  <2>0. pc[p] = "executing"
    BY <1>9 DEF StartAttempt, PublishCompletion
  <2>1. PICK r \in RunIds : r = ses[p].run
    BY <2>0 DEF TypeInv, SessionOK, SessionAt
  <2>2. SessionFollows(p)
    BY <2>0 DEF HistoryInv, FollowInv, Inside
  <2>3. RunKept(r)
    BY <1>2
  <2>4. /\ Checkpointed(r)' = Checkpointed(r)
        /\ Completion(r)' = Completion(r)
        /\ \A c, i, o : IsOutputBefore(r, c, i, o)' <=> IsOutputBefore(r, c, i, o)
    BY <1>1, <2>3, SameHistory DEF RunKept
  <2>5. PICK point, s :
          /\ pc'[p] = point /\ ses'[p] = s
          /\ s.run = r /\ s.contract = ses[p].contract
          /\ s.todo = ses[p].todo /\ s.pred = ses[p].pred
          /\ point \in Attempting => s.phase \in s.todo /\ \A j \in s.todo : s.phase <= j
          /\ point = "completing" => s.todo = {} /\ Completion(r) \in published'
    <3>1. CASE StartAttempt(p)
      <4>1. PICK i \in ses[p].todo, n \in Tries :
              /\ \A j \in ses[p].todo : i <= j
              /\ Goto(p, "working",
                      [ses[p] EXCEPT !.phase = i, !.attempt = n, !.started = now])
        BY <3>1 DEF StartAttempt
      <4>2. PICK s : s = [ses[p] EXCEPT !.phase = i, !.attempt = n, !.started = now]
        OBVIOUS
      <4>3. ses[p] \in Sessions
        BY <1>7
      <4>4. /\ s.run = ses[p].run /\ s.contract = ses[p].contract
            /\ s.todo = ses[p].todo /\ s.pred = ses[p].pred /\ s.phase = i
        BY <4>2, <4>3 DEF Sessions
      <4>5. pc'[p] = "working" /\ ses'[p] = s
        BY <1>7, <4>1, <4>2 DEF Goto
      <4> QED
        BY <2>1, <4>1, <4>4, <4>5
    <3>2. CASE PublishCompletion(p)
      <4>1. /\ pc'[p] = "completing" /\ ses'[p] = ses[p] /\ ses[p].todo = {}
            /\ Completion(ses[p].run) \in published'
        BY <1>7, <3>2 DEF PublishCompletion, Goto
      <4> QED
        BY <2>1, <4>1 DEF Attempting
    <3> QED
      BY <1>9, <3>1, <3>2
  <2>6. SessionFollows(p)'
    <3>1. FollowsAt(pc[p], ses[p], r)
      BY <2>1, <2>2 DEF SessionFollows
    <3>2. /\ runs'[r].state = "INCOMPLETE" /\ s.contract = runs'[r].contract
          /\ s.todo = Phases \ Checkpointed(r)'
          /\ IsOutputBefore(r, s.contract, NumPhases + 1, s.pred)
      BY <2>3, <2>4, <2>5, <3>1 DEF FollowsAt, RunKept
    <3>3. IsOutputBefore(r, s.contract, NumPhases + 1, s.pred)'
      BY <2>4, <3>2
    <3>4. FollowsAt(point, s, r)'
      BY <2>4, <2>5, <3>2, <3>3 DEF FollowsAt
    <3> QED
      BY <2>5, <3>4, Arrives
  <2>7. FollowInv'
    BY <1>6, <2>6 DEF FollowInv
  <2> QED
    BY <1>3, <1>4, <1>5, <2>7 DEF HistoryInv
<1> QED
  BY <1>8, <1>9

LEMMA CreateHistory ==
  ASSUME TypeInv, ExclusionInv, TablesInv, HistoryInv,
         NEW p \in Pids, NEW r \in RunIds, CreateRun(p, r)
  PROVE  HistoryInv'
<1>1. /\ pc[p] = "swept" /\ ses[p].op = "start" /\ runs[r].state = "ABSENT"
      /\ Compatible(ses[p].mw, ses[p].contract) = {}
      /\ UNCHANGED <<ckpts, completions, published>>
  BY DEF CreateRun
<1>2. /\ runs \in [RunIds -> RunRows \cup {NoRow}]
      /\ pc \in [Pids -> Pcs] /\ ses \in [Pids -> Sessions]
      /\ ses[p].contract \in Contracts
  BY <1>1 DEF TypeInv, TypeOK, SessionOK, SessionAt, Pcs
<1>3. /\ runs'[r].state = "INCOMPLETE" /\ runs'[r].mw = ses[p].mw
      /\ runs'[r].contract = ses[p].contract
      /\ \A q \in RunIds \ {r} : runs'[q] = runs[q]
  BY <1>2 DEF CreateRun
<1>4. \A i \in Phases : ~Present(r, i)
  BY <1>1, AbsentRunIsEmpty
<1>5. ChainOK'
  BY <1>1, <1>3, ChainKept DEF HistoryInv
<1>6. CompletionAttests'
  <2> SUFFICES ASSUME NEW q \in RunIds
               PROVE  /\ runs'[q].state = "COMPLETE" <=> completions'[q] # {}
                      /\ completions'[q] \subseteq published'
                      /\ runs'[q].state = "COMPLETE" =>
                           /\ Checkpointed(q)' = Phases
                           /\ completions'[q] = {Completion(q)'}
    BY DEF CompletionAttests
  <2>1. CASE q = r
    BY <1>1, <1>3, <2>1 DEF HistoryInv, CompletionAttests
  <2>2. CASE q # r
    <3>1. Checkpointed(q)' = Checkpointed(q) /\ Completion(q)' = Completion(q)
      BY <1>1, <1>3, <2>2, SameHistory
    <3> QED
      BY <1>1, <1>3, <2>2, <3>1 DEF HistoryInv, CompletionAttests
  <2> QED
    BY <2>1, <2>2
<1>7. NoCompatibleTwins'
  <2>1. ASSUME NEW q \in RunIds \ {r}, runs'[q].state = "INCOMPLETE"
        PROVE  ~(runs'[q].mw = ses[p].mw /\ runs'[q].contract = ses[p].contract)
    BY <1>1, <1>3, <2>1 DEF Compatible
  <2>2. \A q, x \in RunIds \ {r} :
          /\ runs'[q].state = "INCOMPLETE" /\ runs'[x].state = "INCOMPLETE"
          /\ runs'[x].mw = runs'[q].mw /\ runs'[x].contract = runs'[q].contract
          => x = q
    BY <1>3 DEF HistoryInv, NoCompatibleTwins, Compatible
  <2> QED
    BY <1>3, <2>1, <2>2 DEF NoCompatibleTwins, Compatible
<1>8. SessionFollows(p)'
  <2>1. PICK s : s = Entering(ses[p], r, {}, ses[p].contract)
    OBVIOUS
  <2>2. /\ s.run = r /\ s.contract = ses[p].contract /\ s.todo = Phases
        /\ s.pred = ses[p].contract
    BY <1>2, <2>1 DEF Entering, Sessions
  <2>3. pc'[p] = "executing" /\ ses'[p] = s
    BY <1>2, <2>1 DEF CreateRun, Goto
  <2>4. Checkpointed(r)' = {}
    BY <1>1, <1>4 DEF Checkpointed, Present
  <2>5. IsOutputBefore(r, s.contract, NumPhases + 1, s.pred)'
    BY <2>2, <2>4 DEF IsOutputBefore
  <2>6. FollowsAt("executing", s, r)'
    BY <1>3, <2>2, <2>4, <2>5 DEF FollowsAt, Attempting
  <2> QED
    BY <2>2, <2>3, <2>6, Arrives
<1>9. FollowInv'
  <2>1. \A q \in Pids : pc'[q] \in Inside => q = p
    BY WriterIsAlone DEF WriteStep
  <2> QED
    BY <1>8, <2>1 DEF FollowInv
<1> QED
  BY <1>5, <1>6, <1>7, <1>9 DEF HistoryInv

LEMMA ResumeHistory ==
  ASSUME TypeInv, ExclusionInv, HistoryInv, NEW p \in Pids, MarkResumed(p)
  PROVE  HistoryInv'
<1>1. /\ ckpts' = ckpts /\ completions' = completions /\ published' = published
  BY DEF MarkResumed
<1>2. \A r \in RunIds : RunKept(r)
  BY RunsKept DEF HistoryInv
<1>3. ChainOK'
  BY <1>1, <1>2, ChainKept DEF HistoryInv, RunKept
<1>4. CompletionAttests'
  BY <1>1, <1>2, AttestKept DEF HistoryInv
<1>5. NoCompatibleTwins'
  BY <1>2, TwinsKept DEF HistoryInv, RunKept
<1>6. PICK r \in RunIds : r = ses[p].run
  BY DEF MarkResumed, TypeInv, SessionOK, SessionAt
<1>7. PICK o \in Digests :
        /\ IsOutputBefore(r, ses[p].contract, NumPhases + 1, o)
        /\ Goto(p, "executing", Entering(ses[p], r, Checkpointed(r), o))
  BY <1>6 DEF MarkResumed
<1>8. PICK s : s = Entering(ses[p], r, Checkpointed(r), o)
  OBVIOUS
<1>9. pc \in [Pids -> Pcs] /\ ses \in [Pids -> Sessions]
  BY DEF TypeInv, TypeOK, Pcs
<1>10. /\ s.run = r /\ s.contract = ses[p].contract
       /\ s.todo = Phases \ Checkpointed(r) /\ s.pred = o
       /\ pc'[p] = "executing" /\ ses'[p] = s
  BY <1>7, <1>8, <1>9 DEF Entering, Sessions, Goto
<1>11. /\ Checkpointed(r)' = Checkpointed(r)
       /\ \A c, i, x : IsOutputBefore(r, c, i, x)' <=> IsOutputBefore(r, c, i, x)
  BY <1>1, <1>2, SameHistory DEF RunKept
<1>12. /\ runs'[r].state = "INCOMPLETE" /\ s.contract = runs'[r].contract
  BY <1>2, <1>6, <1>10 DEF MarkResumed, Resumable, RunKept
<1>13. IsOutputBefore(r, s.contract, NumPhases + 1, s.pred)'
  <2>1. IsOutputBefore(r, s.contract, NumPhases + 1, s.pred)
    BY <1>7, <1>10
  <2> QED
    BY <1>11, <2>1
<1>14. FollowsAt("executing", s, r)'
  BY <1>10, <1>11, <1>12, <1>13 DEF FollowsAt, Attempting
<1>15. SessionFollows(p)'
  BY <1>10, <1>14, Arrives
<1>16. FollowInv'
  <2>1. \A q \in Pids : pc'[q] \in Inside => q = p
    BY WriterIsAlone DEF WriteStep
  <2> QED
    BY <1>15, <2>1 DEF FollowInv
<1> QED
  BY <1>3, <1>4, <1>5, <1>16 DEF HistoryInv

LEMMA CompleteHistory ==
  ASSUME TypeInv, ExclusionInv, HistoryInv, NEW p \in Pids, CompleteRun(p)
  PROVE  HistoryInv'
<1>0. PICK r \in RunIds : r = ses[p].run
  BY DEF CompleteRun, TypeInv, SessionOK, SessionAt
<1>1. FollowsAt("completing", ses[p], r)
  BY <1>0 DEF CompleteRun, HistoryInv, FollowInv, Inside, SessionFollows
<1>2. /\ Checkpointed(r) = Phases /\ Completion(r) \in published
      /\ runs[r].state = "INCOMPLETE"
  BY <1>1 DEF FollowsAt, Checkpointed
<1>3. /\ runs \in [RunIds -> RunRows \cup {NoRow}]
      /\ runs[r] \in RunRows
      /\ completions \in [RunIds -> SUBSET CompletionDocs]
  BY <1>2 DEF TypeInv, TypeOK, NoRow
<1>4. /\ runs'[r].state = "COMPLETE"
      /\ runs'[r].mw = runs[r].mw /\ runs'[r].contract = runs[r].contract
      /\ \A q \in RunIds \ {r} : runs'[q] = runs[q] /\ completions'[q] = completions[q]
      /\ completions'[r] = {Completion(r)}
      /\ ckpts' = ckpts /\ published' = published
  BY <1>0, <1>2, <1>3 DEF CompleteRun, RunRows
<1>5. ChainOK'
  BY <1>4, ChainKept DEF HistoryInv
<1>6. \A q \in RunIds : Checkpointed(q)' = Checkpointed(q) /\ Completion(q)' = Completion(q)
  BY <1>4, SameHistory
<1>7. CompletionAttests'
  <2> SUFFICES ASSUME NEW q \in RunIds
               PROVE  /\ runs'[q].state = "COMPLETE" <=> completions'[q] # {}
                      /\ completions'[q] \subseteq published'
                      /\ runs'[q].state = "COMPLETE" =>
                           /\ Checkpointed(q)' = Phases
                           /\ completions'[q] = {Completion(q)'}
    BY DEF CompletionAttests
  <2>1. CASE q = r
    BY <1>2, <1>4, <1>6, <2>1
  <2>2. CASE q # r
    BY <1>4, <1>6, <2>2 DEF HistoryInv, CompletionAttests
  <2> QED
    BY <2>1, <2>2
<1>8. NoCompatibleTwins'
  BY <1>4, TwinsKept DEF HistoryInv
<1>9. FollowInv'
  <2>1. \A q \in Pids : pc'[q] \in Inside => q = p
    BY WriterIsAlone DEF WriteStep
  <2>2. pc'[p] = "idle"
    BY DEF CompleteRun, Leave, Goto, TypeInv, TypeOK
  <2> QED
    BY <2>1, <2>2 DEF FollowInv, Inside, Attempting
<1> QED
  BY <1>5, <1>7, <1>8, <1>9 DEF HistoryInv

\* The first phase without a checkpoint continues from what the session carries.
LEMMA NextPhase ==
  ASSUME ChainOK, NEW r \in RunIds, NEW i \in Phases, ~Present(r, i),
         \A j \in Phases : ~Present(r, j) => i <= j
  PROVE  /\ \A j \in Phases : Present(r, j) <=> j < i
         /\ \A o : IsOutputBefore(r, runs[r].contract, NumPhases + 1, o) => o = Predecessor(r, i)
<1>1. \A j \in Phases : Present(r, j) <=> j < i
  <2>1. ASSUME NEW j \in Phases, j < i PROVE Present(r, j)
    BY <2>1
  <2>2. ASSUME NEW j \in Phases, Present(r, j) PROVE j < i
    <3>1. PICK n \in 0..NumPhases : Checkpointed(r) = 1..n
      BY DEF ChainOK
    <3>2. i \notin 1..n /\ j \in 1..n
      BY <2>2, <3>1 DEF Checkpointed
    <3> QED
      BY <3>2
  <2> QED
    BY <2>1, <2>2
<1>2. ASSUME NEW o, IsOutputBefore(r, runs[r].contract, NumPhases + 1, o)
      PROVE  o = Predecessor(r, i)
  <2>1. {j \in Checkpointed(r) : j < NumPhases + 1} = {j \in Phases : j < i}
    BY <1>1 DEF Checkpointed
  <2>2. \/ {j \in Phases : j < i} = {} /\ o = runs[r].contract
        \/ \E j \in {j \in Phases : j < i} :
             (\A k \in {k \in Phases : k < i} : k <= j) /\ o = ckpts[<<r, j>>].output
    BY <1>2, <2>1 DEF IsOutputBefore
  <2>3. CASE i = 1
    <3>1. \A j \in Phases : ~(j < i)
      BY <2>3
    <3>2. o = runs[r].contract
      BY <2>2, <3>1
    <3> QED
      BY <2>3, <3>2 DEF Predecessor
  <2>4. CASE i # 1
    <3>1. i - 1 \in {j \in Phases : j < i}
      BY <2>4
    <3>2. PICK j \in {j \in Phases : j < i} :
            (\A k \in {k \in Phases : k < i} : k <= j) /\ o = ckpts[<<r, j>>].output
      BY <2>2, <3>1
    <3>3. j = i - 1
      BY <3>1, <3>2
    <3> QED
      BY <2>4, <3>2, <3>3 DEF Predecessor
  <2> QED
    BY <2>3, <2>4
<1> QED
  BY <1>1, <1>2

\* What Checkpoint writes, with the session that writes it.
LEMMA CheckpointRow ==
  ASSUME TypeInv, HistoryInv, NEW p \in Pids, Checkpoint(p),
         NEW r \in RunIds, r = ses[p].run, NEW i \in Phases, i = ses[p].phase
  PROVE  /\ runs[r].state = "INCOMPLETE"
         /\ \A j \in Phases : Present(r, j) <=> j < i
         /\ ckpts'[<<r, i>>].present
         /\ ckpts'[<<r, i>>].output = ses[p].result
         /\ ckpts'[<<r, i>>].input = WorkInput(runs[r].contract, i, Predecessor(r, i))
         /\ \A u \in RunIds \X Phases : u # <<r, i>> => ckpts'[u] = ckpts[u]
<1>1. pc[p] = "returned" /\ ckpts \in [RunIds \X Phases -> CkptRows \cup {NoCkpt}]
      /\ <<r, i>> \in RunIds \X Phases
  BY DEF Checkpoint, TypeInv, TypeOK
<1>2. FollowsAt("returned", ses[p], r)
  BY <1>1 DEF HistoryInv, FollowInv, Inside, Attempting, SessionFollows
<1>3. /\ runs[r].state = "INCOMPLETE" /\ ses[p].contract = runs[r].contract
      /\ ~Present(r, i) /\ \A j \in Phases : ~Present(r, j) => i <= j
      /\ IsOutputBefore(r, runs[r].contract, NumPhases + 1, ses[p].pred)
  BY <1>2 DEF FollowsAt, Attempting, Checkpointed
<1>4. /\ \A j \in Phases : Present(r, j) <=> j < i
      /\ ses[p].pred = Predecessor(r, i)
  BY <1>3, NextPhase DEF HistoryInv
<1>5. ckpts' = [ckpts EXCEPT ![<<r, i>>] =
        [present |-> TRUE, attempt |-> ses[p].attempt, output |-> ses[p].result,
         input |-> WorkInput(runs[r].contract, i, Predecessor(r, i))]]
  BY <1>3, <1>4 DEF Checkpoint, OutputDigest
<1> QED
  BY <1>1, <1>3, <1>4, <1>5

LEMMA CheckpointHistory ==
  ASSUME TypeInv, ExclusionInv, HistoryInv, NEW p \in Pids, Checkpoint(p)
  PROVE  HistoryInv'
<1>0. PICK r \in RunIds, i \in Phases : r = ses[p].run /\ i = ses[p].phase
  BY DEF Checkpoint, TypeInv, SessionOK, SessionAt
<1>1. /\ runs[r].state = "INCOMPLETE"
      /\ \A j \in Phases : Present(r, j) <=> j < i
      /\ ckpts'[<<r, i>>].present
      /\ ckpts'[<<r, i>>].output = ses[p].result
      /\ ckpts'[<<r, i>>].input = WorkInput(runs[r].contract, i, Predecessor(r, i))
      /\ \A u \in RunIds \X Phases : u # <<r, i>> => ckpts'[u] = ckpts[u]
  BY <1>0, CheckpointRow
<1>2. \A q \in RunIds : RunKept(q)
  BY RunsKept DEF HistoryInv
<1>3. completions' = completions /\ published' = published
  BY DEF Checkpoint
<1>4. \A q \in RunIds \ {r}, j \in Phases : ckpts'[<<q, j>>] = ckpts[<<q, j>>]
  BY <1>1
<1>5. \A j \in Phases : j # i => ckpts'[<<r, j>>] = ckpts[<<r, j>>]
  BY <1>1
<1>6. \A j \in Phases : Present(r, j)' <=> j <= i
  BY <1>1, <1>5 DEF Present
<1>7. ChainOK'
  <2> SUFFICES ASSUME NEW q \in RunIds
               PROVE  /\ \E n \in 0..NumPhases : Checkpointed(q)' = 1..n
                      /\ \A j \in Phases : Present(q, j)' =>
                           /\ runs'[q].state # "ABSENT"
                           /\ ckpts'[<<q, j>>].input
                                = WorkInput(runs'[q].contract, j, Predecessor(q, j)')
    BY DEF ChainOK, WorkInput
  <2>1. RunKept(q)
    BY <1>2
  <2>2. CASE q # r
    <3>1. /\ Checkpointed(q)' = Checkpointed(q)
          /\ \A j \in Phases : /\ Present(q, j)' = Present(q, j)
                               /\ Predecessor(q, j)' = Predecessor(q, j)
      BY <1>4, <2>1, <2>2 DEF Checkpointed, Present, Predecessor, RunKept
    <3> QED
      BY <1>4, <2>1, <2>2, <3>1 DEF HistoryInv, ChainOK, RunKept
  <2>3. CASE q = r
    <3>1. Checkpointed(r)' = 1..i
      BY <1>6 DEF Checkpointed
    <3>2. ASSUME NEW j \in Phases, Present(r, j)'
          PROVE  ckpts'[<<r, j>>].input
                   = WorkInput(runs'[r].contract, j, Predecessor(r, j)')
      <4>1. j <= i
        BY <1>6, <3>2
      <4>2. Predecessor(r, j)' = Predecessor(r, j)
        BY <1>5, <2>1, <2>3, <4>1 DEF Predecessor, RunKept
      <4>3. ckpts'[<<r, j>>].input = WorkInput(runs[r].contract, j, Predecessor(r, j))
        <5>1. CASE j = i
          BY <1>1, <5>1
        <5>2. CASE j # i
          BY <1>1, <1>5, <4>1, <5>2 DEF HistoryInv, ChainOK
        <5> QED
          BY <5>1, <5>2
      <4> QED
        BY <2>1, <2>3, <4>2, <4>3 DEF RunKept
    <3> QED
      BY <1>1, <2>1, <2>3, <3>1, <3>2 DEF RunKept
  <2> QED
    BY <2>2, <2>3
<1>8. CompletionAttests'
  BY <1>1, <1>2, <1>3, <1>4, AttestKept DEF HistoryInv
<1>9. NoCompatibleTwins'
  BY <1>2, TwinsKept DEF HistoryInv, RunKept
<1>10. SessionFollows(p)'
  <2>1. /\ pc[p] = "returned" /\ pc \in [Pids -> Pcs] /\ ses \in [Pids -> Sessions]
    BY DEF Checkpoint, TypeInv, TypeOK, Pcs
  <2>2. FollowsAt("returned", ses[p], r)
    BY <1>0, <2>1 DEF HistoryInv, FollowInv, Inside, Attempting, SessionFollows
  <2>3. PICK s : s = [ses[p] EXCEPT !.todo = @ \ {i}, !.pred = ses[p].result, !.phase = 0,
                        !.attempt = 0, !.started = 0, !.ended = 0, !.result = NoResult]
    OBVIOUS
  <2>4. pc'[p] = "executing" /\ ses'[p] = s
    BY <1>0, <2>1, <2>3 DEF Checkpoint, Goto, OutputDigest
  <2>5. /\ s.run = r /\ s.contract = ses[p].contract /\ s.todo = ses[p].todo \ {i}
        /\ s.pred = ses[p].result
    BY <1>0, <2>1, <2>3 DEF Sessions
  <2>6. Checkpointed(r)' = {j \in Phases : j <= i}
    BY <1>6 DEF Checkpointed
  <2>7. s.todo = Phases \ Checkpointed(r)'
    <3>1. ses[p].todo = {j \in Phases : ~(j < i)}
      BY <1>1, <2>2 DEF FollowsAt, Checkpointed
    <3> QED
      BY <2>5, <2>6, <3>1
  <2>8. IsOutputBefore(r, s.contract, NumPhases + 1, s.pred)'
    <3>1. ckpts'[<<r, i>>].output = s.pred
      BY <1>1, <2>5
    <3>2. i \in {j \in Checkpointed(r)' : j < NumPhases + 1}
          /\ \A k \in {j \in Checkpointed(r)' : j < NumPhases + 1} : k <= i
      BY <2>6
    <3> QED
      BY <3>1, <3>2 DEF IsOutputBefore
  <2>9. runs'[r].state = "INCOMPLETE" /\ s.contract = runs'[r].contract
    BY <1>2, <2>2, <2>5 DEF FollowsAt, RunKept
  <2>10. FollowsAt("executing", s, r)'
    BY <2>7, <2>8, <2>9 DEF FollowsAt, Attempting
  <2> QED
    BY <2>4, <2>5, <2>10, Arrives
<1>11. FollowInv'
  <2>1. \A q \in Pids : pc'[q] \in Inside => q = p
    BY WriterIsAlone DEF WriteStep
  <2> QED
    BY <1>10, <2>1 DEF FollowInv
<1> QED
  BY <1>7, <1>8, <1>9, <1>11 DEF HistoryInv

LEMMA HistoryStep ==
  TypeInv /\ ExclusionInv /\ TablesInv /\ HistoryInv /\ [Next]_vars => HistoryInv'
<1> SUFFICES ASSUME TypeInv, ExclusionInv, TablesInv, HistoryInv, [Next]_vars
             PROVE  HistoryInv'
  OBVIOUS
<1>1. ASSUME UNCHANGED tables, \A q \in Pids : pc'[q] \in Inside => GoesOn(q)
      PROVE  HistoryInv'
  <2>1. FollowInv'
    BY <1>1, FollowKept DEF HistoryInv
  <2>2. ChainOK' /\ NoCompatibleTwins'
    BY <1>1, ChainKept, TwinsKept DEF HistoryInv, tables
  <2>3. CompletionAttests'
    BY <1>1, AttestKept DEF HistoryInv, tables, RunKept
  <2> QED
    BY <2>1, <2>2, <2>3 DEF HistoryInv
<1>2. ASSUME NEW p \in Pids, QuietStep(p) PROVE HistoryInv'
  BY <1>1, <1>2, QuietTables
<1>3. ASSUME NEW p \in Pids, WriteStep(p) PROVE HistoryInv'
  BY <1>3, ProgressHistory, CreateHistory, ResumeHistory, CheckpointHistory,
     CompleteHistory DEF WriteStep
<1>4. CASE WorldStep \/ UNCHANGED vars
  <2>1. UNCHANGED <<pc, ses, ticks, lock, tables>>
    BY <1>4, WorldTables
  <2>2. \A q \in Pids : pc'[q] \in Inside => GoesOn(q)
    BY <2>1 DEF GoesOn
  <2> QED
    BY <1>1, <2>1, <2>2
<1> QED
  BY <1>2, <1>3, <1>4, StepKinds

THEOREM HistoryInvariant == Spec => []HistoryInv
BY HistoryStep, InitHistory, TypeInvariant, ExclusionInvariant, TablesInvariant, PTL DEF Spec

\* CheckpointChain for any number of processes, runs, phases and attempts: what
\* _validate_checkpoints looks for at a resume is never broken by crashes,
\* retries and resumes, only by damage to the artifacts.
THEOREM CheckpointChainAlways == Spec => []CheckpointChain
<1>1. HistoryInv => CheckpointChain
  <2> SUFFICES ASSUME HistoryInv, NEW r \in RunIds, NEW i \in Phases, Present(r, i)
               PROVE  /\ runs[r].state # "ABSENT"
                      /\ i > 1 => Present(r, i - 1)
                      /\ ckpts[<<r, i>>].input
                           = WorkInput(runs[r].contract, i, Predecessor(r, i))
    BY DEF CheckpointChain
  <2>1. PICK n \in 0..NumPhases : Checkpointed(r) = 1..n
    BY DEF HistoryInv, ChainOK
  <2>2. i > 1 => Present(r, i - 1)
    BY <2>1 DEF Checkpointed
  <2> QED
    BY <2>2 DEF HistoryInv, ChainOK
<1> QED
  BY <1>1, HistoryInvariant, PTL

\* CompletionAttests for the same: complete_run writes a row for the document
\* that publish_artifact put in the catalog, with every phase in it, although
\* the payload is built twice and a crash may fall between.
THEOREM CompletionAttestsAlways == Spec => []CompletionAttests
<1>1. HistoryInv => CompletionAttests
  BY DEF HistoryInv
<1> QED
  BY <1>1, HistoryInvariant, PTL

\* NoCompatibleTwins for the same: the lookup of start() and its insert, two
\* transactions, are never separated by another start().
THEOREM NoCompatibleTwinsAlways == Spec => []NoCompatibleTwins
<1>1. HistoryInv => NoCompatibleTwins
  BY DEF HistoryInv
<1> QED
  BY <1>1, HistoryInvariant, PTL

\* A closed attempt is not written again: the sweep and the closing steps touch
\* RUNNING attempts only, and StartAttempt an attempt that is not there yet.
LEMMA ClosedAttemptsStay ==
  ASSUME TypeInv, ExclusionInv, TablesInv, [Next]_vars, NEW k \in Keys,
         attempts[k].status \in {"COMPLETED", "INTERRUPTED", "FAILED"}
  PROVE  attempts'[k] = attempts[k]
<1>1. k \notin Running /\ attempts \in [Keys -> AttemptRows]
  BY DEF Running, TypeInv, TypeOK
<1>2. ASSUME NEW p \in Pids, QuietStep(p) PROVE attempts' = attempts
  BY <1>2, QuietTables DEF tables
<1>3. CASE WorldStep \/ UNCHANGED vars
  BY <1>3, WorldTables DEF tables
<1>4. ASSUME NEW p \in Pids, InterruptAbandoned(p) PROVE attempts'[k] = attempts[k]
  BY <1>1, <1>4 DEF InterruptAbandoned
<1>5. ASSUME NEW p \in Pids, Checkpoint(p) \/ FinishAttempt(p)
      PROVE  attempts'[k] = attempts[k]
  <2>1. pc[p] \in Attempting
    BY <1>5 DEF Checkpoint, FinishAttempt, Attempting
  <2>2. MyKey(p) \in Running
    BY <2>1 DEF TablesInv, OwnInv
  <2>3. MyKey(p) # k
    BY <1>1, <2>2
  <2> QED
    BY <1>1, <1>5, <2>3 DEF Checkpoint, FinishAttempt, MyKey
<1>6. ASSUME NEW p \in Pids, StartAttempt(p) PROVE attempts'[k] = attempts[k]
  <2>0. PICK r \in RunIds : r = ses[p].run
    BY <1>6 DEF StartAttempt, TypeInv, SessionOK, SessionAt
  <2>1. PICK i \in ses[p].todo, n \in Tries :
          /\ n = units[<<r, i>>].count + 1
          /\ attempts' = [attempts EXCEPT ![<<r, i, n>>] =
               [status |-> "RUNNING", owner |-> Token(p), started |-> now, elapsed |-> 0]]
    BY <1>6, <2>0 DEF StartAttempt
  <2>2. i \in Phases /\ units[<<r, i>>].count \in Nat
    BY <2>0 DEF TypeInv, TypeOK, Sessions
  <2>3. attempts[<<r, i, n>>].status = "ABSENT"
    <3>1. RowAgrees(r, i)
      BY <2>2, TablesAgreeByRow DEF TablesInv
    <3>2. ~(n <= units[<<r, i>>].count)
      BY <2>1, <2>2
    <3> QED
      BY <3>1, <3>2 DEF RowAgrees
  <2>4. k # <<r, i, n>>
    BY <2>3
  <2> QED
    BY <1>1, <2>1, <2>4
<1>7. ASSUME NEW p \in Pids,
             \/ \E r \in RunIds : CreateRun(p, r)
             \/ BlockResume(p) \/ MarkResumed(p) \/ PublishCompletion(p)
             \/ CompleteRun(p) \/ CompletionFails(p)
      PROVE  attempts' = attempts
  BY <1>7 DEF CreateRun, BlockResume, MarkResumed, PublishCompletion, CompleteRun,
     CompletionFails
<1> QED
  BY <1>2, <1>3, <1>4, <1>5, <1>6, <1>7, StepKinds DEF WriteStep

LEMMA CheckpointsStay ==
  ASSUME TypeInv, [Next]_vars, NEW u \in RunIds \X Phases, ckpts[u].present
  PROVE  ckpts'[u] = ckpts[u]
<1>1. ASSUME NEW p \in Pids, QuietStep(p) PROVE ckpts' = ckpts
  BY <1>1, QuietTables DEF tables
<1>2. CASE WorldStep \/ UNCHANGED vars
  BY <1>2, WorldTables DEF tables
<1>3. ASSUME NEW p \in Pids, Checkpoint(p) PROVE ckpts'[u] = ckpts[u]
  <2>1. ~Present(ses[p].run, ses[p].phase)
    BY <1>3 DEF Checkpoint
  <2>2. u # <<ses[p].run, ses[p].phase>>
    BY <2>1 DEF Present
  <2>3. ckpts \in [RunIds \X Phases -> CkptRows \cup {NoCkpt}]
    BY DEF TypeInv, TypeOK
  <2> QED
    BY <1>3, <2>2, <2>3 DEF Checkpoint
<1>4. ASSUME NEW p \in Pids, WriteStep(p), ~Checkpoint(p) PROVE ckpts' = ckpts
  BY <1>4 DEF WriteStep, InterruptAbandoned, CreateRun, BlockResume, MarkResumed,
     StartAttempt, FinishAttempt, PublishCompletion, CompleteRun, CompletionFails
<1> QED
  BY <1>1, <1>2, <1>3, <1>4, StepKinds

LEMMA CompletedRunsStay ==
  ASSUME TypeInv, ExclusionInv, HistoryInv, [Next]_vars, NEW r \in RunIds
  PROVE  /\ completions[r] # {} => completions'[r] = completions[r]
         /\ runs[r].state = "COMPLETE" => runs'[r] = runs[r]
<1>1. CASE UNCHANGED tables
  BY <1>1 DEF tables
<1>2. ASSUME NEW p \in Pids,
             \/ InterruptAbandoned(p) \/ BlockResume(p) \/ MarkResumed(p) \/ StartAttempt(p)
             \/ Checkpoint(p) \/ FinishAttempt(p) \/ PublishCompletion(p)
             \/ CompletionFails(p)
      PROVE  completions' = completions /\ RunKept(r)
  <2>1. completions' = completions
    BY <1>2 DEF InterruptAbandoned, BlockResume, MarkResumed, StartAttempt, Checkpoint,
       FinishAttempt, PublishCompletion, CompletionFails
  <2> QED
    BY <1>2, <2>1, RunsKept DEF HistoryInv
<1>3. ASSUME NEW p \in Pids, \E q \in RunIds : CreateRun(p, q)
      PROVE  completions' = completions /\ (runs[r].state = "COMPLETE" => runs'[r] = runs[r])
  BY <1>3 DEF CreateRun, TypeInv, TypeOK
<1>4. ASSUME NEW p \in Pids, CompleteRun(p)
      PROVE  /\ completions[r] # {} => completions'[r] = completions[r]
             /\ runs[r].state = "COMPLETE" => runs'[r] = runs[r]
  BY <1>4 DEF CompleteRun, TypeInv, TypeOK
<1>5. ASSUME NEW p \in Pids, QuietStep(p) PROVE UNCHANGED tables
  BY <1>5, QuietTables
<1>6. ASSUME WorldStep \/ UNCHANGED vars PROVE UNCHANGED tables
  BY <1>6, WorldTables DEF tables
<1> QED
  BY <1>1, <1>2, <1>3, <1>4, <1>5, <1>6, StepKinds DEF WriteStep, RunKept

\* HistoryIsFinal for any number of processes, runs, phases and attempts: the
\* coordinator never attempts what the triggers of migration 3 would refuse.
THEOREM HistoryIsFinalAlways == Spec => HistoryIsFinal
<1>1. TypeInv /\ ExclusionInv /\ TablesInv /\ HistoryInv /\ [Next]_vars =>
        [/\ \A k \in Keys :
              attempts[k].status \in {"COMPLETED", "INTERRUPTED", "FAILED"}
                => attempts'[k] = attempts[k]
         /\ \A u \in RunIds \X Phases : ckpts[u].present => ckpts'[u] = ckpts[u]
         /\ \A r \in RunIds :
              /\ completions[r] # {} => completions'[r] = completions[r]
              /\ runs[r].state = "COMPLETE" => runs'[r] = runs[r]]_vars
  BY ClosedAttemptsStay, CheckpointsStay, CompletedRunsStay
<1> QED
  BY <1>1, TypeInvariant, ExclusionInvariant, TablesInvariant, HistoryInvariant, PTL
     DEF Spec, HistoryIsFinal

-----------------------------------------------------------------------------
(* Time is counted once: every transaction that closes an attempt adds to the    *)
(* run what it writes into the attempt.                                          *)

\* What an attempt has cost is written when it is closed.
UnpaidInv == \A k \in Keys : attempts[k].status \in {"ABSENT", "RUNNING"} => attempts[k].elapsed = 0

ElapsedInv == UnpaidInv /\ ElapsedAccounts

Costs(r) == [k \in AttemptsOf(r) |-> attempts[k].elapsed]

LEMMA AttemptsFinite ==
  ASSUME NEW r \in RunIds
  PROVE  IsFiniteSet(AttemptsOf(r)) /\ AttemptsOf(r) \in SUBSET Keys
<1> DEFINE place == [k \in AttemptsOf(r) |-> <<k[2], k[3]>>]
<1>1. IsFiniteSet(Phases \X Tries)
  <2>1. IsFiniteSet(1..NumPhases) /\ IsFiniteSet(1..MaxAttempts)
    BY FS_Interval
  <2> QED
    BY <2>1, FS_Product
<1>2. place \in Injection(AttemptsOf(r), Phases \X Tries)
  BY DEF Injection, IsInjective, AttemptsOf, Keys
<1>3. IsFiniteSet(AttemptsOf(r))
  BY <1>1, <1>2, FS_Injection
<1> QED
  BY <1>3 DEF AttemptsOf

\* Closing one attempt, or none, moves the sum of a run by what it costs.
LEMMA CostsMove ==
  ASSUME TypeInv, TypeInv', NEW r \in RunIds, NEW d \in Int, NEW K \in SUBSET AttemptsOf(r),
         \A j, k \in K : j = k,
         \A k \in AttemptsOf(r) :
           attempts'[k].elapsed = attempts[k].elapsed + (IF k \in K THEN d ELSE 0)
  PROVE  SumFunction(Costs(r)') = SumFunction(Costs(r)) + (IF K # {} THEN d ELSE 0)
<1>1. IsFiniteSet(AttemptsOf(r)) /\ AttemptsOf(r) \in SUBSET Keys
  BY AttemptsFinite
<1>2. Costs(r) \in [AttemptsOf(r) -> Int]
  BY <1>1 DEF Costs, TypeInv, TypeOK, AttemptRows
<1>3. Costs(r)' \in [AttemptsOf(r) -> Int]
  BY <1>1 DEF Costs, TypeInv, TypeOK, AttemptRows, AttemptsOf
<1>4. \A k \in AttemptsOf(r) : Costs(r)'[k] = Costs(r)[k] + (IF k \in K THEN d ELSE 0)
  BY DEF Costs, AttemptsOf
<1>5. PICK f, g : f = Costs(r) /\ g = Costs(r)'
  OBVIOUS
<1>6. SumFunctionOnSet(g, AttemptsOf(r))
        = SumFunctionOnSet(f, AttemptsOf(r)) + (IF K # {} THEN d ELSE 0)
  BY <1>1, <1>2, <1>3, <1>4, <1>5, SumMoves
<1>7. DOMAIN f = AttemptsOf(r) /\ DOMAIN g = AttemptsOf(r)
  BY <1>2, <1>3, <1>5
<1> QED
  BY <1>5, <1>6, <1>7 DEF SumFunction

\* A step that leaves every cost and every account alone.
LEMMA AccountsKept ==
  ASSUME ElapsedAccounts, \A k \in Keys : attempts'[k].elapsed = attempts[k].elapsed,
         \A r \in RunIds : runs'[r].state # "ABSENT" =>
           runs[r].state # "ABSENT" /\ runs'[r].elapsed = runs[r].elapsed
  PROVE  ElapsedAccounts'
<1> SUFFICES ASSUME NEW r \in RunIds, runs'[r].state # "ABSENT"
             PROVE  runs'[r].elapsed = SumFunction(Costs(r)')
  BY DEF ElapsedAccounts, Costs
<1>1. Costs(r)' = Costs(r)
  BY DEF Costs, AttemptsOf
<1>2. runs[r].elapsed = SumFunction(Costs(r))
  BY DEF ElapsedAccounts, Costs
<1> QED
  BY <1>1, <1>2

\* A step that charges one attempt and its run with the same amount.
LEMMA AccountCharged ==
  ASSUME TypeInv, TypeInv', ElapsedAccounts, NEW k \in Keys, NEW d \in Int,
         \A j \in Keys : attempts'[j].elapsed = attempts[j].elapsed + (IF j = k THEN d ELSE 0),
         \A r \in RunIds : runs'[r].state # "ABSENT" =>
           /\ runs[r].state # "ABSENT"
           /\ runs'[r].elapsed = runs[r].elapsed + (IF r = k[1] THEN d ELSE 0)
  PROVE  ElapsedAccounts'
<1> SUFFICES ASSUME NEW r \in RunIds, runs'[r].state # "ABSENT"
             PROVE  runs'[r].elapsed = SumFunction(Costs(r)')
  BY DEF ElapsedAccounts, Costs
<1>1. runs[r].elapsed = SumFunction(Costs(r))
  BY DEF ElapsedAccounts, Costs
<1> DEFINE K == {k} \cap AttemptsOf(r)
<1>2. K \in SUBSET AttemptsOf(r) /\ \A i, j \in K : i = j
  OBVIOUS
<1>3. K # {} <=> r = k[1]
  BY DEF AttemptsOf
<1>4. \A j \in AttemptsOf(r) :
        attempts'[j].elapsed = attempts[j].elapsed + (IF j \in K THEN d ELSE 0)
  BY DEF AttemptsOf
<1> HIDE DEF K
<1>5. SumFunction(Costs(r)') = SumFunction(Costs(r)) + (IF K # {} THEN d ELSE 0)
  BY <1>2, <1>4, CostsMove
<1> QED
  BY <1>1, <1>3, <1>5

\* A run with a RUNNING attempt is not finished.
LEMMA RunningIsUnfinished ==
  ASSUME TypeInv, TablesInv, HistoryInv, NEW k \in Running
  PROVE  k[1] \in RunIds /\ runs[k[1]].state = "INCOMPLETE" /\ runs[k[1]] \in RunRows
<1>1. PICK r \in RunIds, i \in Phases, n \in Tries : k = <<r, i, n>>
  BY DEF Running, Keys
<1>2. runs[r] \in RunRows \cup {NoRow} /\ runs[r].state # "ABSENT"
  BY <1>1 DEF TypeInv, TypeOK, AttemptsOK, Running
<1>3. ~Present(r, i)
  <2>1. RowAgrees(r, i)
    BY TablesAgreeByRow DEF TablesInv
  <2> QED
    BY <1>1, <2>1 DEF RowAgrees
<1>4. runs[r].state # "COMPLETE"
  BY <1>3 DEF HistoryInv, CompletionAttests, Checkpointed
<1> QED
  BY <1>1, <1>2, <1>4 DEF RunRows, NoRow

LEMMA SweepElapsed ==
  ASSUME TypeInv, TypeInv', ExclusionInv, TablesInv, HistoryInv, ElapsedInv,
         NEW p \in Pids, InterruptAbandoned(p)
  PROVE  ElapsedInv'
<1>1. /\ attempts' = [k \in Keys |->
           IF k \in Running
           THEN [attempts[k] EXCEPT !.status = "INTERRUPTED",
                                    !.elapsed = now - attempts[k].started]
           ELSE attempts[k]]
      /\ runs' = [r \in RunIds |->
           IF r \in {k[1] : k \in Running} /\ runs[r].state = "INCOMPLETE"
           THEN [runs[r] EXCEPT !.elapsed = @ + AbandonedCost(r),
                                !.reuse = IF runs[r].last = 0 THEN "NONE" ELSE "REUSABLE"]
           ELSE runs[r]]
  BY DEF InterruptAbandoned
<1>2. \A k \in Keys : attempts[k] \in AttemptRows
  BY DEF TypeInv, TypeOK
<1>3. /\ \A k \in Running : /\ attempts'[k].status = "INTERRUPTED"
                            /\ attempts'[k].elapsed = now - attempts[k].started
      /\ \A k \in Keys \ Running : attempts'[k] = attempts[k]
      /\ Running \subseteq Keys
  BY <1>1, <1>2 DEF AttemptRows, Running
<1>4. UnpaidInv'
  BY <1>3 DEF ElapsedInv, UnpaidInv, Keys
<1>5. CASE Running = {}
  <2>1. /\ \A k \in Keys : attempts'[k].elapsed = attempts[k].elapsed
        /\ \A r \in RunIds : runs'[r] = runs[r]
    BY <1>1, <1>3, <1>5
  <2> QED
    BY <1>4, <2>1, AccountsKept DEF ElapsedInv
<1>6. CASE Running # {}
  <2>1. PICK k \in Running : Running = {k}
    BY <1>6 DEF ExclusionInv, AtMostOneRunning
  <2>2. k[1] \in RunIds /\ runs[k[1]].state = "INCOMPLETE" /\ runs[k[1]] \in RunRows
    BY RunningIsUnfinished
  <2>3. AbandonedCost(k[1]) = now - attempts[k].started
    <3>1. (CHOOSE j \in Running : j[1] = k[1]) = k
      BY <2>1
    <3> QED
      BY <3>1 DEF AbandonedCost
  <2> DEFINE d == now - attempts[k].started
  <2>4. k \in Keys /\ attempts[k].elapsed = 0 /\ d \in Int
    BY <1>2, <1>3 DEF ElapsedInv, UnpaidInv, Running, TypeInv, TypeOK, AttemptRows
  <2>5. \A j \in Keys :
          attempts'[j].elapsed = attempts[j].elapsed + (IF j = k THEN d ELSE 0)
    <3> SUFFICES ASSUME NEW j \in Keys
                 PROVE  attempts'[j].elapsed = attempts[j].elapsed + (IF j = k THEN d ELSE 0)
      OBVIOUS
    <3>1. CASE j = k
      BY <1>3, <2>4, <3>1
    <3>2. CASE j # k
      <4>1. attempts'[j] = attempts[j]
        BY <1>3, <2>1, <3>2
      <4>2. attempts[j].elapsed \in Int
        BY <1>2 DEF AttemptRows
      <4> QED
        BY <3>2, <4>1, <4>2
    <3> QED
      BY <3>1, <3>2
  <2>6. runs'[k[1]].state = "INCOMPLETE" /\ runs'[k[1]].elapsed = runs[k[1]].elapsed + d
    BY <1>1, <2>1, <2>2, <2>3 DEF RunRows
  <2>7. \A r \in RunIds : r # k[1] => runs'[r] = runs[r]
    BY <1>1, <2>1
  <2>8. \A r \in RunIds : runs[r].state # "ABSENT" => runs[r].elapsed \in Int
    BY DEF TypeInv, TypeOK, RunRows, NoRow
  <2> HIDE DEF d
  <2>9. \A r \in RunIds : runs'[r].state # "ABSENT" =>
          /\ runs[r].state # "ABSENT"
          /\ runs'[r].elapsed = runs[r].elapsed + (IF r = k[1] THEN d ELSE 0)
    BY <2>2, <2>6, <2>7, <2>8
  <2>10. ElapsedAccounts'
    BY <2>4, <2>5, <2>9, AccountCharged DEF ElapsedInv
  <2> QED
    BY <1>4, <2>10 DEF ElapsedInv
<1> QED
  BY <1>5, <1>6

LEMMA CloseElapsed ==
  ASSUME TypeInv, TypeInv', ExclusionInv, TablesInv, HistoryInv, ElapsedInv,
         NEW p \in Pids, Checkpoint(p) \/ FinishAttempt(p)
  PROVE  ElapsedInv'
<1> DEFINE k == MyKey(p)
           d == ses[p].ended - ses[p].started
<1>1. pc[p] \in Attempting /\ ses[p] \in Sessions /\ pc[p] \in {"returned", "stopping"}
  BY DEF Checkpoint, FinishAttempt, Attempting, TypeInv, TypeOK
<1>2. k \in Running /\ k \in Keys
  BY <1>1 DEF TablesInv, OwnInv, Running
<1>3. k[1] \in RunIds /\ runs[k[1]].state = "INCOMPLETE" /\ runs[k[1]] \in RunRows
  BY <1>2, RunningIsUnfinished
<1>4. attempts[k].status = "RUNNING" /\ attempts[k].elapsed = 0 /\ attempts[k] \in AttemptRows
  BY <1>2 DEF Running, ElapsedInv, UnpaidInv, TypeInv, TypeOK
<1>5. d \in Int
  BY <1>1 DEF Sessions
<1>6. k = <<ses[p].run, ses[p].phase, ses[p].attempt>> /\ k[1] = ses[p].run
  BY DEF MyKey
<1>7. /\ attempts \in [Keys -> AttemptRows]
      /\ runs \in [RunIds -> RunRows \cup {NoRow}]
  BY DEF TypeInv, TypeOK
<1>8. \E status \in {"COMPLETED", "INTERRUPTED", "FAILED"} :
        attempts' = [attempts EXCEPT ![k].status = status, ![k].elapsed = d]
  <2>1. CASE Checkpoint(p)
    BY <1>4, <2>1 DEF Checkpoint, MyKey
  <2>2. CASE FinishAttempt(p)
    <3>1. ses[p].outcome \in {"INTERRUPTED", "FAILED"}
      BY <2>2 DEF FinishAttempt, TypeInv, SessionOK, SessionAt
    <3> QED
      BY <1>4, <2>2, <3>1 DEF FinishAttempt, MyKey
  <2> QED
    BY <2>1, <2>2
<1>9. /\ runs'[k[1]].state = "INCOMPLETE" /\ runs'[k[1]].elapsed = runs[k[1]].elapsed + d
      /\ \A r \in RunIds : r # k[1] => runs'[r] = runs[r]
  <2>1. CASE Checkpoint(p)
    BY <1>3, <1>6, <1>7, <2>1 DEF Checkpoint, RunRows
  <2>2. CASE FinishAttempt(p)
    BY <1>3, <1>6, <1>7, <2>2 DEF FinishAttempt, RunRows
  <2> QED
    BY <2>1, <2>2
<1> HIDE DEF k, d
<1>10. /\ attempts'[k].status \in {"COMPLETED", "INTERRUPTED", "FAILED"}
       /\ attempts'[k].elapsed = d
       /\ \A j \in Keys : j # k => attempts'[j] = attempts[j]
  BY <1>2, <1>4, <1>7, <1>8 DEF AttemptRows
<1>11. UnpaidInv'
  BY <1>10 DEF ElapsedInv, UnpaidInv, Keys
<1>12. \A j \in Keys :
         attempts'[j].elapsed = attempts[j].elapsed + (IF j = k THEN d ELSE 0)
  <2>1. \A j \in Keys : attempts[j].elapsed \in Int
    BY <1>7 DEF AttemptRows
  <2> QED
    BY <1>4, <1>5, <1>10, <2>1
<1>13. \A r \in RunIds : runs'[r].state # "ABSENT" =>
         /\ runs[r].state # "ABSENT"
         /\ runs'[r].elapsed = runs[r].elapsed + (IF r = k[1] THEN d ELSE 0)
  <2>1. \A r \in RunIds : runs[r].state # "ABSENT" => runs[r].elapsed \in Int
    BY <1>7 DEF RunRows, NoRow
  <2> QED
    BY <1>3, <1>9, <2>1
<1>14. ElapsedAccounts'
  BY <1>2, <1>5, <1>12, <1>13, AccountCharged DEF ElapsedInv
<1> QED
  BY <1>11, <1>14 DEF ElapsedInv

LEMMA StartElapsed ==
  ASSUME TypeInv, TablesInv, ElapsedInv, NEW p \in Pids, StartAttempt(p)
  PROVE  ElapsedInv'
<1>1. /\ attempts \in [Keys -> AttemptRows]
      /\ runs \in [RunIds -> RunRows \cup {NoRow}]
  BY DEF TypeInv, TypeOK
<1>2. PICK r \in RunIds : r = ses[p].run
  BY DEF StartAttempt, TypeInv, SessionOK, SessionAt
<1>3. PICK i \in ses[p].todo, n \in Tries :
        /\ n = units[<<r, i>>].count + 1
        /\ attempts' = [attempts EXCEPT ![<<r, i, n>>] =
             [status |-> "RUNNING", owner |-> Token(p), started |-> now, elapsed |-> 0]]
        /\ runs' = IF runs[r].state = "INCOMPLETE" THEN [runs EXCEPT ![r].phase = i] ELSE runs
  BY <1>2 DEF StartAttempt
<1>4. i \in Phases /\ units[<<r, i>>].count \in Nat /\ <<r, i, n>> \in Keys
  BY <1>2 DEF TypeInv, TypeOK, Sessions, Keys
<1>5. attempts[<<r, i, n>>].status = "ABSENT"
  <2>1. RowAgrees(r, i)
    BY <1>4, TablesAgreeByRow DEF TablesInv
  <2>2. ~(n <= units[<<r, i>>].count)
    BY <1>3, <1>4
  <2> QED
    BY <2>1, <2>2 DEF RowAgrees
<1>6. attempts[<<r, i, n>>].elapsed = 0
  BY <1>4, <1>5 DEF ElapsedInv, UnpaidInv
<1>7. /\ attempts'[<<r, i, n>>].elapsed = 0
      /\ \A k \in Keys : k # <<r, i, n>> => attempts'[k] = attempts[k]
  BY <1>1, <1>3, <1>4
<1>8. \A k \in Keys : attempts'[k].elapsed = attempts[k].elapsed
  BY <1>6, <1>7
<1>9. UnpaidInv'
  BY <1>7 DEF ElapsedInv, UnpaidInv, Keys
<1>10. \A q \in RunIds : runs'[q].state = runs[q].state
                         /\ (runs[q].state # "ABSENT" => runs'[q].elapsed = runs[q].elapsed)
  BY <1>1, <1>3 DEF RunRows, NoRow
<1>11. ElapsedAccounts'
  BY <1>8, <1>10, AccountsKept DEF ElapsedInv
<1> QED
  BY <1>9, <1>11 DEF ElapsedInv

LEMMA CreateElapsed ==
  ASSUME TypeInv, ElapsedInv, NEW p \in Pids, NEW r \in RunIds, CreateRun(p, r)
  PROVE  ElapsedInv'
<1>1. /\ attempts' = attempts /\ runs[r].state = "ABSENT"
      /\ runs'[r].elapsed = 0
      /\ \A q \in RunIds : q # r => runs'[q] = runs[q]
  BY DEF CreateRun, TypeInv, TypeOK
<1>2. UnpaidInv'
  BY <1>1 DEF ElapsedInv, UnpaidInv, Keys
<1>3. SumFunction(Costs(r)) = 0
  <2>1. IsFiniteSet(AttemptsOf(r)) /\ AttemptsOf(r) \in SUBSET Keys
    BY AttemptsFinite
  <2>2. \A k \in AttemptsOf(r) : attempts[k].status = "ABSENT"
    BY <1>1, <2>1 DEF AttemptsOf, TypeInv, AttemptsOK
  <2>3. \A k \in AttemptsOf(r) : Costs(r)[k] = 0
    BY <2>1, <2>2 DEF Costs, ElapsedInv, UnpaidInv
  <2>4. Costs(r) \in [AttemptsOf(r) -> Int] /\ DOMAIN Costs(r) = AttemptsOf(r)
    BY <2>3 DEF Costs
  <2> QED
    BY <2>1, <2>3, <2>4, SumOfNothing DEF SumFunction
<1>4. \A q \in RunIds : Costs(q)' = Costs(q)
  BY <1>1 DEF Costs, AttemptsOf, Keys
<1>5. ElapsedAccounts'
  <2> SUFFICES ASSUME NEW q \in RunIds, runs'[q].state # "ABSENT"
               PROVE  runs'[q].elapsed = SumFunction(Costs(q)')
    BY DEF ElapsedAccounts, Costs
  <2>1. CASE q = r
    BY <1>1, <1>3, <1>4, <2>1
  <2>2. CASE q # r
    <3>1. runs[q].state # "ABSENT" => runs[q].elapsed = SumFunction(Costs(q))
      BY DEF ElapsedInv, ElapsedAccounts, Costs
    <3> QED
      BY <1>1, <1>4, <2>2, <3>1
  <2> QED
    BY <2>1, <2>2
<1> QED
  BY <1>2, <1>5 DEF ElapsedInv

\* Nothing else touches an attempt or an account.
LEMMA OtherElapsed ==
  ASSUME ElapsedInv, attempts' = attempts,
         \A r \in RunIds : runs'[r].state # "ABSENT" =>
           runs[r].state # "ABSENT" /\ runs'[r].elapsed = runs[r].elapsed
  PROVE  ElapsedInv'
<1>1. UnpaidInv'
  BY DEF ElapsedInv, UnpaidInv, Keys
<1>2. ElapsedAccounts'
  BY AccountsKept DEF ElapsedInv
<1> QED
  BY <1>1, <1>2 DEF ElapsedInv

LEMMA ElapsedStep ==
  ASSUME TypeInv, TypeInv', ExclusionInv, TablesInv, HistoryInv, ElapsedInv, [Next]_vars
  PROVE  ElapsedInv'
<1>1. CASE UNCHANGED tables
  BY <1>1, OtherElapsed DEF tables
<1>2. ASSUME NEW p \in Pids, QuietStep(p) PROVE UNCHANGED tables
  BY <1>2, QuietTables
<1>3. ASSUME WorldStep \/ UNCHANGED vars PROVE UNCHANGED tables
  BY <1>3, WorldTables DEF tables
<1>4. ASSUME NEW p \in Pids,
             \/ BlockResume(p) \/ MarkResumed(p) \/ PublishCompletion(p)
             \/ CompleteRun(p) \/ CompletionFails(p)
      PROVE  ElapsedInv'
  <2>1. attempts' = attempts
    BY <1>4 DEF BlockResume, MarkResumed, PublishCompletion, CompleteRun, CompletionFails
  <2>2. runs \in [RunIds -> RunRows \cup {NoRow}]
    BY DEF TypeInv, TypeOK
  <2>3. \A r \in RunIds : runs[r].state = "INCOMPLETE" => runs[r] \in RunRows
    BY <2>2 DEF NoRow
  <2>4. \A r \in RunIds : runs'[r].state # "ABSENT" =>
          runs[r].state # "ABSENT" /\ runs'[r].elapsed = runs[r].elapsed
    <3>1. CASE BlockResume(p) \/ MarkResumed(p)
      BY <2>2, <2>3, <3>1 DEF BlockResume, MarkResumed, RunRows
    <3>2. CASE PublishCompletion(p) \/ CompletionFails(p)
      BY <2>2, <2>3, <3>2 DEF PublishCompletion, CompletionFails, RunRows
    <3>3. CASE CompleteRun(p)
      BY <2>2, <2>3, <3>3 DEF CompleteRun, RunRows
    <3> QED
      BY <1>4, <3>1, <3>2, <3>3
  <2> QED
    BY <2>1, <2>4, OtherElapsed
<1>5. ASSUME NEW p \in Pids, WriteStep(p) PROVE ElapsedInv'
  BY <1>4, <1>5, SweepElapsed, CreateElapsed, StartElapsed, CloseElapsed DEF WriteStep
<1> QED
  BY <1>1, <1>2, <1>3, <1>5, StepKinds

\* ElapsedAccounts for any number of processes, runs, phases and attempts: the
\* UPDATEs that increment elapsed_seconds in place (interrupt_abandoned,
\* checkpoint, finish_attempt) charge every attempt once, whoever closes it.
THEOREM ElapsedAlwaysAccounts == Spec => []ElapsedAccounts
<1>1. Init => ElapsedInv
  <2> SUFFICES ASSUME Init PROVE ElapsedInv
    OBVIOUS
  <2>1. UnpaidInv
    BY DEF Init, UnpaidInv, NoAttempt
  <2>2. \A r \in RunIds : runs[r].state = "ABSENT"
    BY DEF Init, NoRow
  <2> QED
    BY <2>1, <2>2 DEF ElapsedInv, ElapsedAccounts
<1>2. ElapsedInv => ElapsedAccounts
  BY DEF ElapsedInv
<1> QED
  BY <1>1, <1>2, ElapsedStep, TypeInvariant, ExclusionInvariant, TablesInvariant,
     HistoryInvariant, PTL DEF Spec

-----------------------------------------------------------------------------
(* The refinement: every step of the coordinator opens, extends or seals one     *)
(* ledger of ResumableRun, or leaves all of them alone.                          *)

\* A function on the first n numbers is a sequence of length n.
LEMMA Sequential ==
  ASSUME NEW S, NEW n \in Nat, NEW f \in [1..n -> S]
  PROVE  f \in Seq(S) /\ Len(f) = n
<1>1. f \in Seq(S)
  BY SeqDef
<1>2. Len(f) \in Nat /\ DOMAIN f = 1..Len(f)
  BY <1>1, LenProperties
<1>3. 1..n = 1..Len(f)
  BY <1>2
<1> QED
  BY <1>1, <1>2, <1>3

\* The phases of a run that have a checkpoint are the first so many.
LEMMA LedgerLength ==
  ASSUME TypeInv, HistoryInv, NEW r \in RunIds
  PROVE  \E n \in 0..NumPhases :
           /\ Checkpointed(r) = 1..n
           /\ Ledger(r) \in Seq(Results) /\ Len(Ledger(r)) = n
<1>2. PICK n \in 0..NumPhases : Checkpointed(r) = 1..n
  BY DEF HistoryInv, ChainOK
<1>3. \A i \in Checkpointed(r) : ckpts[<<r, i>>].output \in Results
  <2> SUFFICES ASSUME NEW i \in Phases, Present(r, i)
               PROVE  ckpts[<<r, i>>].output \in Results
    BY DEF Checkpointed
  <2>1. ckpts[<<r, i>>] \in CkptRows \cup {NoCkpt}
    BY DEF TypeInv, TypeOK
  <2>2. ckpts[<<r, i>>] # NoCkpt
    BY DEF Present, NoCkpt
  <2> QED
    BY <2>1, <2>2 DEF CkptRows
<1>4. Ledger(r) \in [1..n -> Results]
  BY <1>2, <1>3 DEF Ledger
<1> QED
  BY <1>2, <1>4, Sequential

Subjects == [r \in RunIds |-> Subject(r)]
Ledgers  == [r \in RunIds |-> Ledger(r)]
Seals    == [r \in RunIds |-> {c.outputs : c \in completions[r]}]

\* What an observer of run r sees does not change.
Unseen(r) ==
  /\ Subject(r)' = Subject(r)
  /\ Ledger(r)' = Ledger(r)
  /\ completions'[r] = completions[r]

LEMMA UnseenStep ==
  ASSUME \A r \in RunIds : Unseen(r)
  PROVE  UNCHANGED <<Subjects, Ledgers, Seals>>
BY DEF Unseen, Subjects, Ledgers, Seals

LEMMA UnseenRun ==
  ASSUME TypeInv, NEW r \in RunIds, runs'[r].state = runs[r].state, runs'[r].mw = runs[r].mw,
         runs'[r].contract = runs[r].contract, completions'[r] = completions[r],
         \A i \in Phases : ckpts'[<<r, i>>] = ckpts[<<r, i>>]
  PROVE  Unseen(r)
<1>1. Subject(r)' = Subject(r)
  BY DEF Subject
<1>2. Checkpointed(r)' = Checkpointed(r)
  BY DEF Checkpointed, Present
<1>3. \A i \in Checkpointed(r) : ckpts'[<<r, i>>].output = ckpts[<<r, i>>].output
  BY DEF Checkpointed
<1>4. Ledger(r)' = Ledger(r)
  BY <1>2, <1>3 DEF Ledger
<1> QED
  BY <1>1, <1>4 DEF Unseen

\* A run that exists has its matchweek and contract for a subject.
LEMMA SubjectOf ==
  ASSUME TypeInv, NEW r \in RunIds
  PROVE  /\ runs[r].state = "ABSENT" <=> Subject(r) = NoRun
         /\ runs[r].state # "ABSENT" =>
              Subject(r) = <<runs[r].mw, runs[r].contract>>
              /\ Subject(r) \in Matchweeks \X Contracts
<1>1. runs[r] \in RunRows \cup {NoRow}
  BY DEF TypeInv, TypeOK
<1>2. runs[r].state # "ABSENT" => runs[r] \in RunRows
  BY <1>1 DEF NoRow
<1> QED
  BY <1>2, SubjectAssumption DEF Subject, RunRows

LEMMA InitPromise == Init => Promise!Init
<1> SUFFICES ASSUME Init PROVE Promise!Init
  OBVIOUS
<1>1. ASSUME NEW r \in RunIds
      PROVE  Subject(r) = NoRun /\ Ledger(r) = <<>> /\ {c.outputs : c \in completions[r]} = {}
  <2>1. Subject(r) = NoRun /\ {c.outputs : c \in completions[r]} = {}
    BY DEF Init, Subject, NoRow
  <2>2. Checkpointed(r) = {}
    BY DEF Init, Checkpointed, Present, NoCkpt
  <2>3. Ledger(r) \in [1..0 -> Results]
    BY <2>2 DEF Ledger
  <2>4. Ledger(r) \in Seq(Results) /\ Len(Ledger(r)) = 0
    BY <2>3, Sequential
  <2>5. Ledger(r) = <<>>
    BY <2>4, EmptySeq
  <2> QED
    BY <2>1, <2>5
<1>2. Subjects = [r \in RunIds |-> NoRun]
  BY <1>1 DEF Subjects
<1>3. Ledgers = [r \in RunIds |-> <<>>]
  BY <1>1 DEF Ledgers
<1>4. Seals = [r \in RunIds |-> {}]
  BY <1>1 DEF Seals
<1> QED
  BY <1>2, <1>3, <1>4 DEF Promise!Init, Subjects, Ledgers, Seals

\* CreateRun opens a ledger.
LEMMA CreateOpens ==
  ASSUME TypeInv, TablesInv, HistoryInv, NEW p \in Pids, NEW r \in RunIds, CreateRun(p, r)
  PROVE  Promise!Next
<1>1. /\ pc[p] = "swept" /\ ses[p].op = "start" /\ runs[r].state = "ABSENT"
      /\ Compatible(ses[p].mw, ses[p].contract) = {}
      /\ UNCHANGED <<ckpts, completions>>
  BY DEF CreateRun
<1>2. PICK mw \in Matchweeks, c \in Contracts : mw = ses[p].mw /\ c = ses[p].contract
  BY <1>1 DEF TypeInv, SessionOK, SessionAt
<1>3. /\ runs'[r].state = "INCOMPLETE" /\ runs'[r].mw = mw /\ runs'[r].contract = c
      /\ \A q \in RunIds \ {r} : runs'[q] = runs[q]
  BY <1>2 DEF CreateRun, TypeInv, TypeOK
<1>4. \A q \in RunIds \ {r} : Unseen(q)
  BY <1>1, <1>3, UnseenRun
<1>5. Subject(r)' = <<mw, c>> /\ Subject(r) = NoRun
  BY <1>1, <1>3 DEF Subject
<1>6. Ledger(r)' = Ledger(r)
  <2>1. \A i \in Phases : ~Present(r, i)
    BY <1>1, AbsentRunIsEmpty
  <2>2. Checkpointed(r) = {} /\ Checkpointed(r)' = {}
    BY <1>1, <2>1 DEF Checkpointed, Present
  <2> QED
    BY <2>2 DEF Ledger
<1>7. \A q \in RunIds : Subject(q) = <<mw, c>> => {d.outputs : d \in completions[q]} # {}
  <2> SUFFICES ASSUME NEW q \in RunIds, Subject(q) = <<mw, c>> PROVE completions[q] # {}
    OBVIOUS
  <2>1. <<mw, c>> # NoRun
    BY SubjectAssumption
  <2>2. runs[q].state # "ABSENT" /\ runs[q].mw = mw /\ runs[q].contract = c
    BY <2>1, SubjectOf
  <2>3. runs[q].state # "INCOMPLETE"
    BY <1>1, <1>2, <2>2 DEF Compatible
  <2>4. runs[q].state = "COMPLETE"
    BY <2>2, <2>3 DEF TypeInv, TypeOK, RunRows, NoRow
  <2> QED
    BY <2>4 DEF HistoryInv, CompletionAttests
<1>8. Subjects' = [Subjects EXCEPT ![r] = <<mw, c>>]
  BY <1>4, <1>5 DEF Subjects, Unseen
<1>9. Ledgers' = Ledgers /\ Seals' = Seals
  BY <1>1, <1>4, <1>6 DEF Ledgers, Seals, Unseen
<1>10. Subjects[r] = NoRun /\ \A q \in RunIds : Subjects[q] = <<mw, c>> => Seals[q] # {}
  BY <1>5, <1>7 DEF Subjects, Seals
<1>11. Promise!Open(r, <<mw, c>>)
  BY <1>8, <1>9, <1>10 DEF Promise!Open, Subjects, Ledgers, Seals
<1> QED
  BY <1>11 DEF Promise!Next

\* Checkpoint extends the ledger by the result of the phase.
LEMMA CheckpointExtends ==
  ASSUME TypeInv, ExclusionInv, HistoryInv, HistoryInv', TypeInv', NEW p \in Pids, Checkpoint(p)
  PROVE  Promise!Next
<1>0. PICK r \in RunIds, i \in Phases, o \in Results :
        r = ses[p].run /\ i = ses[p].phase /\ o = ses[p].result
  BY DEF Checkpoint, TypeInv, SessionOK, SessionAt
<1>1. /\ runs[r].state = "INCOMPLETE"
      /\ \A j \in Phases : Present(r, j) <=> j < i
      /\ ckpts'[<<r, i>>].present /\ ckpts'[<<r, i>>].output = o
      /\ \A u \in RunIds \X Phases : u # <<r, i>> => ckpts'[u] = ckpts[u]
  BY <1>0, CheckpointRow
<1>2. \A q \in RunIds : RunKept(q)
  BY RunsKept DEF HistoryInv
<1>3. completions' = completions
  BY DEF Checkpoint
<1>4. \A q \in RunIds \ {r} : Unseen(q)
  BY <1>1, <1>2, <1>3, UnseenRun DEF RunKept
<1>5. Subject(r)' = Subject(r)
  BY <1>2 DEF Subject, RunKept
<1>6. Checkpointed(r) = 1..(i - 1) /\ Checkpointed(r)' = 1..i
  BY <1>1 DEF Checkpointed, Present
<1>7. \A j \in 1..(i - 1) : ckpts'[<<r, j>>].output = ckpts[<<r, j>>].output
  BY <1>1
<1>8. /\ Ledger(r) \in Seq(Results) /\ Len(Ledger(r)) = i - 1
      /\ Ledger(r)' \in Seq(Results) /\ Len(Ledger(r)') = i
  <2>1. Ledger(r) \in [1..(i - 1) -> Results]
    BY <1>6, LedgerLength, LenProperties DEF Ledger
  <2>2. Ledger(r)' \in [1..i -> Results]
    BY <1>0, <1>1, <1>6, <1>7, <2>1 DEF Ledger
  <2> QED
    BY <2>1, <2>2, Sequential
<1>9. Ledger(r)' = Append(Ledger(r), o)
  <2>1. /\ Append(Ledger(r), o) \in Seq(Results)
        /\ Len(Append(Ledger(r), o)) = i
        /\ \A j \in 1..(i - 1) : Append(Ledger(r), o)[j] = Ledger(r)[j]
        /\ Append(Ledger(r), o)[i] = o
    BY <1>8, AppendProperties
  <2>2. ASSUME NEW j \in 1..i PROVE Ledger(r)'[j] = Append(Ledger(r), o)[j]
    BY <1>1, <1>6, <1>7, <2>1 DEF Ledger
  <2> QED
    BY <1>8, <2>1, <2>2, SeqEqual
<1>10. Ledgers' = [Ledgers EXCEPT ![r] = Append(@, o)]
  BY <1>4, <1>9 DEF Ledgers, Unseen
<1>11. Subjects' = Subjects /\ Seals' = Seals
  BY <1>3, <1>4, <1>5 DEF Subjects, Seals, Unseen
<1>12. Subjects[r] # NoRun /\ Seals[r] = {} /\ Len(Ledgers[r]) < NumPhases
  <2>1. Subject(r) # NoRun
    BY <1>1, SubjectOf
  <2>2. completions[r] = {}
    BY <1>1 DEF HistoryInv, CompletionAttests
  <2> QED
    BY <1>8, <2>1, <2>2 DEF Subjects, Seals, Ledgers
<1>13. Promise!Extend(r, o)
  BY <1>10, <1>11, <1>12 DEF Promise!Extend, Subjects, Ledgers, Seals
<1> QED
  BY <1>13 DEF Promise!Next

\* CompleteRun seals the ledger with what is in it.
LEMMA CompleteSeals ==
  ASSUME TypeInv, HistoryInv, NEW p \in Pids, CompleteRun(p)
  PROVE  Promise!Next
<1>0. PICK r \in RunIds : r = ses[p].run
  BY DEF CompleteRun, TypeInv, SessionOK, SessionAt
<1>1. FollowsAt("completing", ses[p], r)
  BY <1>0 DEF CompleteRun, HistoryInv, FollowInv, Inside, SessionFollows
<1>2. Checkpointed(r) = Phases /\ runs[r].state = "INCOMPLETE" /\ runs[r] \in RunRows
  BY <1>1 DEF FollowsAt, Checkpointed, TypeInv, TypeOK, NoRow
<1>3. /\ runs'[r].state = "COMPLETE" /\ runs'[r].mw = runs[r].mw
      /\ runs'[r].contract = runs[r].contract
      /\ completions[r] = {} /\ completions'[r] = {Completion(r)} /\ ckpts' = ckpts
      /\ \A q \in RunIds \ {r} : runs'[q] = runs[q] /\ completions'[q] = completions[q]
  BY <1>0, <1>2 DEF CompleteRun, TypeInv, TypeOK, RunRows
<1>4. \A q \in RunIds \ {r} : Unseen(q)
  BY <1>3, UnseenRun
<1>5. Subject(r)' = Subject(r)
  BY <1>2, <1>3 DEF Subject
<1>6. Ledger(r)' = Ledger(r)
  BY <1>3 DEF Ledger, Checkpointed, Present
<1>7. {d.outputs : d \in completions'[r]} = {Ledger(r)}
  <2>1. Completion(r).outputs = Ledger(r)
    BY DEF Completion, Ledger
  <2>2. {d.outputs : d \in {Completion(r)}} = {Completion(r).outputs}
    OBVIOUS
  <2> QED
    BY <1>3, <2>1, <2>2
<1>8. Len(Ledger(r)) = NumPhases
  <2>1. PICK n \in 0..NumPhases : Checkpointed(r) = 1..n /\ Len(Ledger(r)) = n
    BY LedgerLength
  <2>2. n = NumPhases
    BY <1>2, <2>1
  <2> QED
    BY <2>1, <2>2
<1>9. Seals' = [Seals EXCEPT ![r] = {Ledger(r)}]
  BY <1>4, <1>7 DEF Seals, Unseen
<1>10. Subjects' = Subjects /\ Ledgers' = Ledgers
  BY <1>4, <1>5, <1>6 DEF Subjects, Ledgers, Unseen
<1>11. Seals[r] = {} /\ Len(Ledgers[r]) = NumPhases /\ Ledgers[r] = Ledger(r)
  BY <1>3, <1>8 DEF Seals, Ledgers
<1>12. Promise!Seal(r)
  BY <1>9, <1>10, <1>11 DEF Promise!Seal, Subjects, Ledgers, Seals
<1> QED
  BY <1>12 DEF Promise!Next

LEMMA PromiseStep ==
  ASSUME TypeInv, ExclusionInv, TablesInv, HistoryInv, TypeInv', HistoryInv', [Next]_vars
  PROVE  [Promise!Next]_Promise!vars
<1>1. ASSUME \A r \in RunIds : Unseen(r) PROVE UNCHANGED Promise!vars
  BY <1>1, UnseenStep DEF Promise!vars, Subjects, Ledgers, Seals
<1>2. ASSUME UNCHANGED tables PROVE UNCHANGED Promise!vars
  <2>1. \A r \in RunIds : Unseen(r)
    BY <1>2, UnseenRun DEF tables
  <2> QED
    BY <1>1, <2>1
<1>3. ASSUME NEW p \in Pids,
             \/ InterruptAbandoned(p) \/ BlockResume(p) \/ MarkResumed(p) \/ StartAttempt(p)
             \/ FinishAttempt(p) \/ PublishCompletion(p) \/ CompletionFails(p)
      PROVE  UNCHANGED Promise!vars
  <2>1. ckpts' = ckpts /\ completions' = completions
    BY <1>3 DEF InterruptAbandoned, BlockResume, MarkResumed, StartAttempt,
       FinishAttempt, PublishCompletion, CompletionFails
  <2>2. \A r \in RunIds : RunKept(r)
    BY <1>3, RunsKept DEF HistoryInv
  <2>3. \A r \in RunIds : Unseen(r)
    BY <2>1, <2>2, UnseenRun DEF RunKept
  <2> QED
    BY <1>1, <2>3
<1>4. ASSUME NEW p \in Pids, QuietStep(p) PROVE UNCHANGED Promise!vars
  BY <1>2, <1>4, QuietTables
<1>5. ASSUME WorldStep \/ UNCHANGED vars PROVE UNCHANGED Promise!vars
  BY <1>2, <1>5, WorldTables DEF tables
<1> QED
  BY <1>3, <1>4, <1>5, StepKinds, CreateOpens, CheckpointExtends, CompleteSeals
     DEF WriteStep

\* The coordinator implements the ledger for any number of processes, runs,
\* phases and attempts: no interleaving, crash, exception, retry, resume or
\* damage makes a run show anything but the growth of one ledger and its seal.
THEOREM PromiseKept == Spec => KeepsItsPromise
<1>1. TypeInv /\ ExclusionInv /\ TablesInv /\ HistoryInv /\ TypeInv' /\ HistoryInv'
        /\ [Next]_vars => [Promise!Next]_Promise!vars
  BY PromiseStep
<1> QED
  BY <1>1, InitPromise, TypeInvariant, ExclusionInvariant, TablesInvariant,
     HistoryInvariant, PTL DEF Spec, KeepsItsPromise, Promise!Spec

-----------------------------------------------------------------------------
(* The reader without a lock: three reads at three moments, with any steps of    *)
(* any coordinators between them.                                                *)

\* The column last_checkpoint counts the checkpoints of its run.
LastInv ==
  \A r \in RunIds : runs[r].state # "ABSENT" => Checkpointed(r) = 1..runs[r].last

LEMMA LastStep ==
  ASSUME TypeInv, ExclusionInv, TablesInv, HistoryInv, LastInv, [Next]_vars
  PROVE  LastInv'
<1>1. ASSUME NEW r \in RunIds, ckpts' = ckpts, runs'[r].state # "ABSENT",
             runs'[r].last = runs[r].last, runs[r].state # "ABSENT"
      PROVE  Checkpointed(r)' = 1..runs'[r].last
  BY <1>1 DEF LastInv, Checkpointed, Present
<1>2. CASE UNCHANGED tables
  BY <1>1, <1>2 DEF LastInv, tables
<1>3. ASSUME NEW p \in Pids, QuietStep(p) PROVE UNCHANGED tables
  BY <1>3, QuietTables
<1>4. ASSUME WorldStep \/ UNCHANGED vars PROVE UNCHANGED tables
  BY <1>4, WorldTables DEF tables
<1>5. runs \in [RunIds -> RunRows \cup {NoRow}]
  BY DEF TypeInv, TypeOK
<1>6. ASSUME NEW r \in RunIds PROVE runs[r].state # "ABSENT" => runs[r] \in RunRows
  BY <1>5 DEF NoRow
<1>7. ASSUME NEW p \in Pids,
             \/ InterruptAbandoned(p) \/ BlockResume(p) \/ MarkResumed(p) \/ StartAttempt(p)
             \/ FinishAttempt(p) \/ PublishCompletion(p) \/ CompletionFails(p)
             \/ CompleteRun(p)
      PROVE  LastInv'
  <2>1. ckpts' = ckpts
    BY <1>7 DEF InterruptAbandoned, BlockResume, MarkResumed, StartAttempt, FinishAttempt,
       PublishCompletion, CompletionFails, CompleteRun
  <2>2. ASSUME NEW r \in RunIds
        PROVE  /\ runs'[r].state # "ABSENT" => runs[r].state # "ABSENT"
               /\ runs[r].state # "ABSENT" => runs'[r].last = runs[r].last
    <3>1. CASE InterruptAbandoned(p)
      BY <1>6, <3>1 DEF InterruptAbandoned, RunRows
    <3>2. CASE BlockResume(p) \/ MarkResumed(p)
      BY <1>5, <1>6, <3>2 DEF BlockResume, MarkResumed, RunRows
    <3>3. CASE StartAttempt(p)
      <4>1. \E i : runs' = IF runs[ses[p].run].state = "INCOMPLETE"
                           THEN [runs EXCEPT ![ses[p].run].phase = i] ELSE runs
        BY <3>3 DEF StartAttempt
      <4> QED
        BY <1>5, <1>6, <4>1 DEF RunRows
    <3>4. CASE FinishAttempt(p)
      BY <1>5, <1>6, <3>4 DEF FinishAttempt, RunRows
    <3>5. CASE PublishCompletion(p) \/ CompletionFails(p)
      BY <1>5, <1>6, <3>5 DEF PublishCompletion, CompletionFails, RunRows
    <3>6. CASE CompleteRun(p)
      BY <1>5, <1>6, <3>6 DEF CompleteRun, RunRows
    <3> QED
      BY <1>7, <3>1, <3>2, <3>3, <3>4, <3>5, <3>6
  <2> QED
    BY <1>1, <2>1, <2>2 DEF LastInv
<1>8. ASSUME NEW p \in Pids, NEW r \in RunIds, CreateRun(p, r) PROVE LastInv'
  <2>1. \A i \in Phases : ~Present(r, i)
    BY <1>8, AbsentRunIsEmpty DEF CreateRun
  <2>2. runs'[r].last = 0 /\ ckpts' = ckpts /\ \A q \in RunIds \ {r} : runs'[q] = runs[q]
    BY <1>5, <1>8 DEF CreateRun
  <2>3. Checkpointed(r)' = 1..0
    BY <2>1, <2>2 DEF Checkpointed, Present
  <2> QED
    BY <1>1, <2>2, <2>3 DEF LastInv
<1>9. ASSUME NEW p \in Pids, Checkpoint(p) PROVE LastInv'
  <2>0. PICK r \in RunIds, i \in Phases : r = ses[p].run /\ i = ses[p].phase
    BY <1>9 DEF Checkpoint, TypeInv, SessionOK, SessionAt
  <2>1. /\ runs[r].state = "INCOMPLETE"
        /\ \A j \in Phases : Present(r, j) <=> j < i
        /\ ckpts'[<<r, i>>].present
        /\ \A u \in RunIds \X Phases : u # <<r, i>> => ckpts'[u] = ckpts[u]
    BY <1>9, <2>0, CheckpointRow
  <2>2. Checkpointed(r)' = 1..i
    BY <2>1 DEF Checkpointed, Present
  <2>3. runs'[r].last = i /\ \A q \in RunIds \ {r} : runs'[q] = runs[q]
    BY <1>5, <1>6, <1>9, <2>0, <2>1 DEF Checkpoint, RunRows
  <2>4. \A q \in RunIds \ {r} : Checkpointed(q)' = Checkpointed(q)
    BY <2>1 DEF Checkpointed, Present
  <2> QED
    BY <2>2, <2>3, <2>4 DEF LastInv
<1> QED
  BY <1>2, <1>3, <1>4, <1>7, <1>8, <1>9, StepKinds DEF WriteStep

\* What the reader has in hand was true when it was read, and has only become
\* more so since: checkpoints are not undone and COMPLETE is final.
ReaderInv ==
  /\ stage \in {"idle", "record", "units", "reported"}
  /\ stage # "idle" =>
       /\ record.run \in RunIds
       /\ record.last \in 0..NumPhases
       /\ \A i \in 1..record.last : Present(record.run, i)
       /\ record.state = "COMPLETE" => runs[record.run].state = "COMPLETE"
  /\ stage \in {"units", "reported"} =>
       /\ \A i \in 1..record.last : rows[i].state = "COMPLETE"
       /\ record.state = "COMPLETE" =>
            \A i \in Phases : rows[i].state = "COMPLETE" /\ rows[i].status # "RUNNING"
  /\ stage = "reported" /\ record.state = "COMPLETE" => ~stale

RunInv == TypeInv /\ ExclusionInv /\ TablesInv /\ HistoryInv /\ LastInv

LEMMA CoordinatorStep ==
  ASSUME RunInv, ReaderInv, Next, UNCHANGED readerVars
  PROVE  ReaderInv'
<1>1. \A u \in RunIds \X Phases : ckpts[u].present => ckpts'[u] = ckpts[u]
  BY CheckpointsStay DEF RunInv
<1>2. \A r \in RunIds : runs[r].state = "COMPLETE" => runs'[r] = runs[r]
  BY CompletedRunsStay DEF RunInv
<1>3. UNCHANGED <<stage, record, rows, stale>>
  BY DEF readerVars
<1>4. stage # "idle" =>
        /\ \A i \in 1..record.last : Present(record.run, i)'
        /\ record.state = "COMPLETE" => runs'[record.run].state = "COMPLETE"
  BY <1>1, <1>2, <1>3 DEF ReaderInv, Present
<1> QED
  BY <1>3, <1>4 DEF ReaderInv

LEMMA ReaderStep ==
  ASSUME RunInv, ReaderInv, ReaderNext, UNCHANGED vars
  PROVE  ReaderInv'
<1>0. UNCHANGED <<runs, units, attempts, ckpts>>
      /\ runs \in [RunIds -> RunRows \cup {NoRow}]
  BY DEF vars, RunInv, TypeInv, TypeOK
<1>1. ASSUME NEW r \in RunIds, ReadRecord(r) PROVE ReaderInv'
  <2>1. /\ stage' = "record" /\ runs[r].state # "ABSENT"
        /\ record' = [run |-> r, state |-> runs[r].state, last |-> runs[r].last]
    BY <1>1 DEF ReadRecord
  <2>2. runs[r] \in RunRows
    BY <1>0, <2>1 DEF NoRow
  <2>3. Checkpointed(r) = 1..runs[r].last
    BY <2>1 DEF RunInv, LastInv
  <2>4. \A i \in 1..runs[r].last : Present(r, i)'
    BY <1>0, <2>3 DEF Checkpointed, Present
  <2> QED
    BY <1>0, <2>1, <2>2, <2>4 DEF ReaderInv, RunRows
<1>2. ASSUME ReadUnits PROVE ReaderInv'
  <2>1. PICK r \in RunIds : r = record.run
    BY <1>2 DEF ReadUnits, ReaderInv
  <2>2. /\ stage' = "units" /\ record' = record /\ stage = "record"
        /\ rows' = [i \in Phases |->
             [state   |-> units[<<r, i>>].state,
              attempt |-> units[<<r, i>>].count,
              status  |-> IF units[<<r, i>>].count = 0 THEN "PENDING"
                          ELSE attempts[<<r, i, units[<<r, i>>].count>>].status]]
    BY <1>2, <2>1 DEF ReadUnits
  <2>3. ASSUME NEW i \in Phases, Present(r, i)
        PROVE  rows'[i].state = "COMPLETE" /\ rows'[i].status # "RUNNING"
    <3>1. RowAgrees(r, i)
      BY TablesAgreeByRow DEF RunInv, TablesInv
    <3>2. units[<<r, i>>].state = "COMPLETE"
          /\ ckpts[<<r, i>>].attempt = units[<<r, i>>].count
      BY <2>3, <3>1 DEF RowAgrees
    <3>3. units[<<r, i>>].count \in 0..MaxAttempts
      BY DEF RunInv, TypeInv, TypeOK
    <3>4. units[<<r, i>>].count # 0 =>
            attempts[<<r, i, units[<<r, i>>].count>>].status = "COMPLETED"
      BY <2>3, <3>1, <3>2, <3>3 DEF RowAgrees
    <3> QED
      BY <2>2, <3>2, <3>4
  <2>4. record.state = "COMPLETE" => \A i \in Phases : Present(r, i)
    <3>1. record.state = "COMPLETE" => runs[r].state = "COMPLETE"
      BY <2>1, <2>2 DEF ReaderInv
    <3>2. runs[r].state = "COMPLETE" => Checkpointed(r) = Phases
      BY DEF RunInv, HistoryInv, CompletionAttests
    <3> QED
      BY <3>1, <3>2 DEF Checkpointed
  <2>5. \A i \in 1..record.last : i \in Phases /\ Present(r, i)
    BY <2>1, <2>2 DEF ReaderInv
  <2>6. \A i \in 1..record.last : Present(record.run, i)'
    BY <1>0, <2>1, <2>2, <2>5 DEF Present
  <2> QED
    BY <1>0, <2>1, <2>2, <2>3, <2>4, <2>5, <2>6 DEF ReaderInv
<1>3. ASSUME ReadOwners PROVE ReaderInv'
  <2>1. /\ stage = "units" /\ stage' = "reported" /\ record' = record /\ rows' = rows
        /\ stale' = \E i \in Phases :
             /\ rows[i].status = "RUNNING"
             /\ ~TokenIsAlive(attempts[<<record.run, i, rows[i].attempt>>].owner)
    BY <1>3 DEF ReadOwners
  <2>2. record.state = "COMPLETE" => ~stale'
    BY <2>1 DEF ReaderInv
  <2> QED
    BY <1>0, <2>1, <2>2 DEF ReaderInv, Present
<1>4. ASSUME EndRead PROVE ReaderInv'
  BY <1>4 DEF EndRead, ReaderInv
<1> QED
  BY <1>1, <1>2, <1>3, <1>4 DEF ReaderNext

\* ReportIsCoherent for any number of processes, runs, phases and attempts:
\* `matchvet status` needs neither a lock nor a transaction for a report that
\* contradicts itself nowhere.
THEOREM ReportCoherent == StatusSpec => []ReportIsCoherent
<1>1. StatusSpec => Spec
  <2>1. Init /\ ReaderInit => Init
    OBVIOUS
  <2>2. [StatusNext]_allVars => [Next]_vars
    BY DEF StatusNext, allVars
  <2> QED
    BY <2>1, <2>2, PTL DEF StatusSpec, Spec
<1>2. Spec => []RunInv
  <2>1. Init => LastInv
    <3> SUFFICES ASSUME Init, NEW r \in RunIds PROVE runs[r].state = "ABSENT"
      BY DEF LastInv
    <3> QED
      BY DEF Init, NoRow
  <2>2. TypeInv /\ ExclusionInv /\ TablesInv /\ HistoryInv /\ LastInv /\ [Next]_vars => LastInv'
    BY LastStep
  <2> QED
    BY <2>1, <2>2, TypeInvariant, ExclusionInvariant, TablesInvariant, HistoryInvariant, PTL
       DEF Spec, RunInv
<1>3. ReaderInit => ReaderInv
  BY DEF ReaderInit, ReaderInv
<1>4. RunInv /\ ReaderInv /\ [StatusNext]_allVars => ReaderInv'
  <2> SUFFICES ASSUME RunInv, ReaderInv, [StatusNext]_allVars PROVE ReaderInv'
    OBVIOUS
  <2>1. CASE UNCHANGED allVars
    BY <2>1 DEF allVars, vars, readerVars, ReaderInv, Present
  <2> QED
    BY <2>1, CoordinatorStep, ReaderStep DEF StatusNext
<1>5. ReaderInv => ReportIsCoherent
  <2> SUFFICES ASSUME ReaderInv, stage = "reported"
               PROVE  /\ record.state = "COMPLETE" => CompletedUnits = NumPhases /\ ~stale
                      /\ record.last <= CompletedUnits
                      /\ \A i \in 1..record.last : rows[i].state = "COMPLETE"
    BY DEF ReportIsCoherent
  <2> DEFINE done == {i \in Phases : rows[i].state = "COMPLETE"}
  <2>1. IsFiniteSet(Phases) /\ Cardinality(Phases) = NumPhases
    BY FS_Interval
  <2>2. IsFiniteSet(done) /\ done \in SUBSET Phases
    BY <2>1, FS_Subset
  <2>3. record.last \in 0..NumPhases /\ 1..record.last \in SUBSET done
    BY DEF ReaderInv
  <2>4. record.state = "COMPLETE" => done = Phases /\ ~stale
    BY DEF ReaderInv
  <2>5. CompletedUnits = Cardinality(done)
    BY DEF CompletedUnits
  <2>6. Cardinality(1..record.last) = record.last
    BY <2>3, FS_Interval
  <2> HIDE DEF done
  <2>7. record.last <= Cardinality(done)
    BY <2>2, <2>3, <2>6, FS_Subset
  <2> QED
    BY <2>1, <2>4, <2>5, <2>7 DEF ReaderInv
<1> QED
  BY <1>1, <1>2, <1>3, <1>4, <1>5, PTL DEF StatusSpec

-----------------------------------------------------------------------------
(* A call is as long as its phases make it: every step it takes is one of those   *)
(* that its todo list leaves it.                                                   *)

MaxCall == 4 * NumPhases + 4

\* The steps that a call has left at a point: four for a phase (begin, work, commit or
\* stop, leave) and what comes before and after them.
StepsAt(point, todo) ==
  CASE point = "called"     -> MaxCall
    [] point = "swept"      -> MaxCall - 1
    [] point = "executing"  -> 4 * Cardinality(todo) + 2
    [] point = "working"    -> 4 * Cardinality(todo) + 1
    [] point = "returned"   -> 4 * Cardinality(todo)
    [] point = "stopping"   -> 4 * Cardinality(todo) - 1
    [] point = "completing" -> 1
    [] OTHER                -> 0

CallLeft(p) == StepsAt(pc[p], ses[p].todo)

\* A call has a number of steps that the phases of its run determine, and whatever
\* a process in a call does, its executor's answers and its failures included,
\* uses one of them up.
CallIsBounded ==
  /\ [](\A p \in Pids : CallLeft(p) \in 0..MaxCall /\ (pc[p] \in BusyPcs => CallLeft(p) > 0))
  /\ [][\A p \in Pids : pc[p] \in BusyPcs /\ <<pc'[p], ses'[p]>> # <<pc[p], ses[p]>>
          => CallLeft(p)' < CallLeft(p)]_vars

\* One step of a call, as its point and its todo list see it: it ends, or goes on to
\* the next point, or comes back for another phase with one phase less to do.
Onward(p) ==
  \/ pc'[p] \notin BusyPcs
  \/ pc[p] = "called" /\ pc'[p] = "swept"
  \/ pc[p] = "swept" /\ pc'[p] = "executing"
  \/ pc[p] = "executing" /\ pc'[p] = "completing"
  \/ /\ ses'[p].todo = ses[p].todo
     /\ \/ pc[p] = "executing" /\ pc'[p] = "working"
        \/ pc[p] = "working" /\ pc'[p] \in {"returned", "stopping"}
        \/ pc[p] = "returned" /\ pc'[p] = "stopping"
  \/ /\ pc[p] = "returned" /\ pc'[p] = "executing"
     /\ \E i \in ses[p].todo : ses'[p].todo = ses[p].todo \ {i}

LEMMA TodoIsFinite ==
  ASSUME NEW todo \in SUBSET Phases
  PROVE  /\ IsFiniteSet(todo)
         /\ Cardinality(todo) \in 0..NumPhases
         /\ todo # {} => Cardinality(todo) > 0
<1>1. IsFiniteSet(1..NumPhases) /\ Cardinality(1..NumPhases) = NumPhases
  BY FS_Interval
<1>2. IsFiniteSet(todo) /\ Cardinality(todo) <= NumPhases
  BY <1>1, FS_Subset
<1>3. Cardinality(todo) \in Nat
  BY <1>2, FS_CardinalityType
<1>4. Cardinality(todo) = 0 <=> todo = {}
  BY <1>2, FS_EmptySet
<1> HIDE DEF Phases
<1> QED
  BY <1>2, <1>3, <1>4

LEMMA StepsByPoint ==
  ASSUME NEW todo
  PROVE  /\ StepsAt("called", todo) = MaxCall
         /\ StepsAt("swept", todo) = MaxCall - 1
         /\ StepsAt("executing", todo) = 4 * Cardinality(todo) + 2
         /\ StepsAt("working", todo) = 4 * Cardinality(todo) + 1
         /\ StepsAt("returned", todo) = 4 * Cardinality(todo)
         /\ StepsAt("stopping", todo) = 4 * Cardinality(todo) - 1
         /\ StepsAt("completing", todo) = 1
         /\ \A point \in Pcs \ BusyPcs : StepsAt(point, todo) = 0
<1>1. \A point \in Pcs \ BusyPcs : point \in {"idle", "recovery", "dead", "started"}
  BY DEF Pcs, BusyPcs, OpenPcs
<1> QED
  BY <1>1 DEF StepsAt

\* Who is at a phase has it to do still.
LEMMA AtItsPhase ==
  ASSUME TypeInv, HistoryInv, NEW p \in Pids
  PROVE  /\ pc[p] \in Pcs
         /\ ses[p].todo \in SUBSET Phases
         /\ pc[p] \in Attempting => ses[p].phase \in ses[p].todo
<1>1. pc[p] \in Pcs /\ ses[p] \in Sessions
  BY DEF TypeInv, TypeOK, Pcs
<1>2. ses[p].todo \in SUBSET Phases
  BY <1>1 DEF Sessions
<1>3. pc[p] \in Attempting => SessionFollows(p)
  BY DEF HistoryInv, FollowInv, Inside
<1> QED
  BY <1>1, <1>2, <1>3 DEF SessionFollows, FollowsAt

LEMMA CallsAreFinite ==
  ASSUME TypeInv, HistoryInv, NEW p \in Pids
  PROVE  CallLeft(p) \in 0..MaxCall /\ (pc[p] \in BusyPcs => CallLeft(p) > 0)
<1> DEFINE n == Cardinality(ses[p].todo)
<1>1. n \in 0..NumPhases /\ (pc[p] \in Attempting => n > 0)
  BY AtItsPhase, TodoIsFinite
<1>2. MaxCall = 4 * NumPhases + 4 /\ NumPhases \in Nat
  BY DEF MaxCall
<1>3. CASE pc[p] \in Attempting
  BY <1>1, <1>2, <1>3, StepsByPoint DEF CallLeft, Attempting
<1>4. CASE pc[p] \in {"called", "swept", "executing", "completing"}
  BY <1>1, <1>2, <1>4, StepsByPoint DEF CallLeft
<1>5. CASE pc[p] \notin BusyPcs
  <2>1. pc[p] \in Pcs \ BusyPcs
    BY <1>5, AtItsPhase
  <2>2. CallLeft(p) = 0
    BY <2>1, StepsByPoint DEF CallLeft
  <2> QED
    BY <1>2, <1>5, <2>2
<1> QED
  BY <1>3, <1>4, <1>5, AtItsPhase DEF Pcs, BusyPcs, OpenPcs, Attempting

LEMMA OnwardIsLess ==
  ASSUME TypeInv, HistoryInv, TypeInv', HistoryInv', NEW p \in Pids,
         pc[p] \in BusyPcs, Onward(p)
  PROVE  CallLeft(p)' < CallLeft(p)
<1> DEFINE n == Cardinality(ses[p].todo)
           m == Cardinality(ses'[p].todo)
<1>1. n \in 0..NumPhases /\ m \in 0..NumPhases /\ IsFiniteSet(ses[p].todo)
  <2>1. ses[p].todo \in SUBSET Phases /\ ses'[p].todo \in SUBSET Phases
    BY DEF TypeInv, TypeOK, Sessions
  <2> QED
    BY <2>1, TodoIsFinite
<1>2. MaxCall = 4 * NumPhases + 4 /\ NumPhases \in Nat
  BY DEF MaxCall
<1>3. CallLeft(p) = StepsAt(pc[p], ses[p].todo) /\ CallLeft(p)' = StepsAt(pc'[p], ses'[p].todo)
  BY DEF CallLeft, StepsAt, MaxCall
<1>4. CASE pc'[p] \notin BusyPcs
  <2>1. pc'[p] \in Pcs
    BY DEF TypeInv, TypeOK, Pcs
  <2>2. CallLeft(p)' = 0
    BY <1>3, <1>4, <2>1, StepsByPoint
  <2> QED
    BY <2>2, <1>2, CallsAreFinite
<1>5. CASE pc[p] = "called" /\ pc'[p] = "swept"
  BY <1>2, <1>3, <1>5, StepsByPoint
<1>6. CASE pc[p] = "swept" /\ pc'[p] = "executing"
  <2>1. CallLeft(p) = MaxCall - 1 /\ CallLeft(p)' = 4 * m + 2
    BY <1>3, <1>6, StepsByPoint
  <2> QED
    BY <1>1, <1>2, <2>1
<1>7. CASE pc[p] = "executing" /\ pc'[p] = "completing"
  <2>1. CallLeft(p) = 4 * n + 2 /\ CallLeft(p)' = 1
    BY <1>3, <1>7, StepsByPoint
  <2> QED
    BY <1>1, <2>1
<1>8. CASE /\ ses'[p].todo = ses[p].todo
           /\ \/ pc[p] = "executing" /\ pc'[p] = "working"
              \/ pc[p] = "working" /\ pc'[p] \in {"returned", "stopping"}
              \/ pc[p] = "returned" /\ pc'[p] = "stopping"
  <2>1. \/ CallLeft(p) = 4 * n + 2 /\ CallLeft(p)' = 4 * n + 1
        \/ CallLeft(p) = 4 * n + 1 /\ CallLeft(p)' = 4 * n
        \/ CallLeft(p) = 4 * n + 1 /\ CallLeft(p)' = 4 * n - 1
        \/ CallLeft(p) = 4 * n /\ CallLeft(p)' = 4 * n - 1
    BY <1>3, <1>8, StepsByPoint
  <2> QED
    BY <1>1, <2>1
<1>9. CASE /\ pc[p] = "returned" /\ pc'[p] = "executing"
           /\ \E i \in ses[p].todo : ses'[p].todo = ses[p].todo \ {i}
  <2>0. PICK i \in ses[p].todo : ses'[p].todo = ses[p].todo \ {i}
    BY <1>9
  <2>1. m = n - 1
    <3> HIDE DEF Phases
    <3>1. IsFiniteSet(ses[p].todo) /\ i \in ses[p].todo
      BY <1>1
    <3>2. Cardinality(ses[p].todo \ {i}) = Cardinality(ses[p].todo) - 1
      BY <3>1, FS_RemoveElement
    <3> QED
      BY <2>0, <3>2
  <2>2. CallLeft(p) = 4 * n /\ CallLeft(p)' = 4 * m + 2
    BY <1>3, <1>9, StepsByPoint
  <2> QED
    BY <1>1, <2>1, <2>2
<1> QED
  BY <1>4, <1>5, <1>6, <1>7, <1>8, <1>9 DEF Onward

\* What the process itself does in a call is one of these steps.
LEMMA OwnStepIsOnward ==
  ASSUME TypeInv, HistoryInv, NEW p \in Pids, QuietStep(p) \/ WriteStep(p), pc[p] \in BusyPcs
  PROVE  Onward(p)
<1>1. pc \in [Pids -> Pcs] /\ ses \in [Pids -> Sessions]
  BY DEF TypeInv, TypeOK, Pcs
<1>2. ASSUME NEW where, NEW session, Goto(p, where, session)
      PROVE  pc'[p] = where /\ ses'[p] = session
  BY <1>1, <1>2 DEF Goto
<1>3. "idle" \notin BusyPcs /\ "dead" \notin BusyPcs /\ "started" \notin BusyPcs
      /\ "recovery" \notin BusyPcs
  BY DEF BusyPcs, OpenPcs
<1>4. CASE Leave(p) \/ Die(p)
  <2>1. pc'[p] \in {"idle", "dead"}
    BY <1>2, <1>4 DEF Leave, Die
  <2> QED
    BY <1>3, <2>1 DEF Onward
<1>5. CASE Spawn(p) \/ OpenStore(p) \/ OpenRecovery(p) \/ CloseStore(p)
  BY <1>3, <1>5 DEF Spawn, OpenStore, OpenRecovery, CloseStore
<1>6. CASE \/ \E mw \in Matchweeks, c \in Contracts, g \in Guards : CallStart(p, mw, c, g)
           \/ \E r \in RunIds, c \in Contracts, g \in Guards : CallResume(p, r, c, g)
  BY <1>3, <1>6 DEF CallStart, CallResume
<1>7. CASE InterruptAbandoned(p)
  BY <1>2, <1>7 DEF InterruptAbandoned, Onward
<1>8. CASE (\E r \in RunIds : CreateRun(p, r)) \/ MarkResumed(p)
  <2>1. pc[p] = "swept" /\ \E session : Goto(p, "executing", session)
    BY <1>8 DEF CreateRun, MarkResumed
  <2> QED
    BY <1>2, <2>1 DEF Onward
<1>9. ASSUME NEW where, NEW session, Goto(p, where, session), session.todo = ses[p].todo,
             \/ pc[p] = "executing" /\ where = "working"
             \/ pc[p] = "working" /\ where \in {"returned", "stopping"}
             \/ pc[p] = "returned" /\ where = "stopping"
      PROVE  Onward(p)
  BY <1>2, <1>9 DEF Onward
<1>10. CASE StartAttempt(p)
  <2>1. PICK i \in ses[p].todo, n \in Tries :
          Goto(p, "working", [ses[p] EXCEPT !.phase = i, !.attempt = n, !.started = now])
    BY <1>10 DEF StartAttempt
  <2>2. [ses[p] EXCEPT !.phase = i, !.attempt = n, !.started = now].todo = ses[p].todo
    BY <1>1 DEF Sessions
  <2>3. pc[p] = "executing"
    BY <1>10 DEF StartAttempt
  <2> QED
    BY <1>9, <2>1, <2>2, <2>3
<1>11. CASE \/ WorkFails(p) \/ WatchdogFires(p) \/ CheckpointFails(p)
            \/ \E result \in Results : WorkReturns(p, result)
  <2>1. \A o : Stopping(ses[p], o).todo = ses[p].todo
    BY <1>1 DEF Sessions, Stopping
  <2>2. \A x : [ses[p] EXCEPT !.ended = now, !.result = x].todo = ses[p].todo
    BY <1>1 DEF Sessions
  <2>3. [ses[p] EXCEPT !.result = NoResult, !.outcome = "FAILED"].todo = ses[p].todo
    BY <1>1 DEF Sessions
  <2>4. CASE WorkFails(p) \/ WatchdogFires(p)
    <3>1. pc[p] = "working" /\ \E o : Goto(p, "stopping", Stopping(ses[p], o))
      BY <2>4 DEF WorkFails, WatchdogFires
    <3> QED
      BY <1>9, <2>1, <3>1
  <2>5. CASE CheckpointFails(p)
    BY <1>9, <2>3, <2>5 DEF CheckpointFails
  <2>6. CASE \E result \in Results : WorkReturns(p, result)
    <3>1. pc[p] = "working"
          /\ \/ Goto(p, "stopping", Stopping(ses[p], "FAILED"))
             \/ \E x : Goto(p, "returned", [ses[p] EXCEPT !.ended = now, !.result = x])
      BY <2>6 DEF WorkReturns
    <3> QED
      BY <1>9, <2>1, <2>2, <3>1
  <2> QED
    BY <1>11, <2>4, <2>5, <2>6
<1>12. CASE Checkpoint(p)
  <2>1. pc[p] = "returned" /\ ses[p].phase \in ses[p].todo
    BY <1>12, AtItsPhase DEF Checkpoint, Attempting
  <2> DEFINE next == [ses[p] EXCEPT !.todo = @ \ {ses[p].phase},
                                    !.pred = OutputDigest(ses[p].result), !.phase = 0,
                                    !.attempt = 0, !.started = 0, !.ended = 0,
                                    !.result = NoResult]
  <2>2. next.todo = ses[p].todo \ {ses[p].phase}
    BY <1>1 DEF Sessions
  <2>3. Goto(p, "executing", next)
    BY <1>12 DEF Checkpoint
  <2> HIDE DEF next
  <2>4. pc'[p] = "executing" /\ ses'[p].todo = ses[p].todo \ {ses[p].phase}
    BY <1>2, <2>2, <2>3
  <2> QED
    BY <2>1, <2>4 DEF Onward
<1>13. CASE PublishCompletion(p)
  BY <1>2, <1>13 DEF PublishCompletion, Onward
<1>14. CASE \/ RaiseOut(p) \/ RefuseBusy(p) \/ RefuseStart(p) \/ RefuseResume(p)
            \/ BlockResume(p) \/ FinishAttempt(p) \/ CompleteRun(p) \/ CompletionFails(p)
  <2>1. Leave(p)
    BY <1>14 DEF RaiseOut, RefuseBusy, RefuseStart, RefuseResume, BlockResume,
       FinishAttempt, CompleteRun, CompletionFails
  <2> QED
    BY <1>4, <2>1
<1> QED
  BY <1>4, <1>5, <1>6, <1>7, <1>8, <1>10, <1>11, <1>12, <1>13, <1>14
     DEF QuietStep, WriteStep

\* And nobody else moves it.
LEMMA OthersStand ==
  ASSUME TypeInv, [Next]_vars, NEW p \in Pids, <<pc'[p], ses'[p]>> # <<pc[p], ses[p]>>
  PROVE  QuietStep(p) \/ WriteStep(p)
<1>1. ~(WorldStep \/ UNCHANGED vars)
  BY WorldTables
<1>2. PICK q \in Pids : QuietStep(q) \/ WriteStep(q)
  BY <1>1, StepKinds
<1>3. pc \in [Pids -> Pcs] /\ ses \in [Pids -> Sessions]
  BY DEF TypeInv, TypeOK, Pcs
<1>4. \E where, session : Goto(q, where, session)
  <2>1. CASE QuietStep(q)
    BY <2>1 DEF QuietStep, Spawn, OpenStore, OpenRecovery, CloseStore, Die, RaiseOut,
       CallStart, CallResume, RefuseBusy, RefuseStart, RefuseResume, WorkFails,
       WatchdogFires, CheckpointFails, WorkReturns, Leave
  <2>2. CASE WriteStep(q)
    BY <2>2 DEF WriteStep, InterruptAbandoned, CreateRun, BlockResume, MarkResumed,
       StartAttempt, Checkpoint, FinishAttempt, PublishCompletion, CompleteRun,
       CompletionFails, Leave
  <2> QED
    BY <1>2, <2>1, <2>2
<1>5. q = p
  BY <1>3, <1>4 DEF Goto
<1> QED
  BY <1>2, <1>5

\* The safety half of CallsEnd, for any number of processes, runs, phases and
\* attempts: start() and resume() end after at most 4 * NumPhases + 4 steps of
\* their own, so that a call which does not end has stopped taking them.
THEOREM CallsAreBounded == Spec => CallIsBounded
<1>1. TypeInv /\ HistoryInv =>
        \A p \in Pids : CallLeft(p) \in 0..MaxCall /\ (pc[p] \in BusyPcs => CallLeft(p) > 0)
  BY CallsAreFinite
<1>2. TypeInv /\ HistoryInv /\ TypeInv' /\ HistoryInv' /\ [Next]_vars =>
        [\A p \in Pids : pc[p] \in BusyPcs /\ <<pc'[p], ses'[p]>> # <<pc[p], ses[p]>>
           => CallLeft(p)' < CallLeft(p)]_vars
  BY OthersStand, OwnStepIsOnward, OnwardIsLess
<1> QED
  BY <1>1, <1>2, TypeInvariant, HistoryInvariant, PTL DEF CallIsBounded, Spec

-----------------------------------------------------------------------------
(* Every statement finds the rows that it is written for, so that the refusals the *)
(* code and its triggers hold ready for a damaged history never come.              *)

\* What the statement a process is about to execute expects of the tables.
Expects(p) ==
  LET s == ses[p]
      r == s.run
      k == MyKey(p)
  IN
  \* start_attempt: the run is open and none of its units to do is taken or done.
  /\ pc[p] = "executing" =>
       /\ runs[r].state = "INCOMPLETE"
       /\ \A i \in s.todo : units[<<r, i>>].state = "PENDING"
  \* commit_checkpoint and finish_attempt: three rows that are RUNNING for this
  \* process, and no checkpoint yet.
  /\ pc[p] \in Attempting =>
       /\ runs[r].state = "INCOMPLETE"
       /\ attempts[k].status = "RUNNING" /\ attempts[k].owner[1] = p
       /\ units[<<r, s.phase>>].state = "RUNNING"
       /\ units[<<r, s.phase>>].count = s.attempt
       /\ ~Present(r, s.phase)
  \* complete_run: the trigger counts every checkpoint, and the run has no completion.
  /\ pc[p] = "completing" =>
       /\ runs[r].state = "INCOMPLETE"
       /\ Cardinality(Checkpointed(r)) = NumPhases
       /\ completions[r] = {} /\ Completion(r) \in published

\* What resume expects of an open run: its checkpoints verify against its own
\* contract, and there is an output to go on from.
Continues(r) ==
  runs[r].state = "INCOMPLETE" =>
    /\ ChainVerifies(r, runs[r].contract)
    /\ \E o \in Digests : IsOutputBefore(r, runs[r].contract, NumPhases + 1, o)

\* No UPDATE of the coordinator misses its row and none of its INSERTs meets one
\* that is there; and what refuses the resume of an open run with its own
\* contract is never its history, only an artifact that is damaged.
StatementsFit == (\A p \in Pids : Expects(p)) /\ (\A r \in RunIds : Continues(r))

LEMMA ExecutingFits ==
  ASSUME TypeInv, ExclusionInv, TablesInv, HistoryInv, NEW p \in Pids, pc[p] = "executing"
  PROVE  /\ runs[ses[p].run].state = "INCOMPLETE"
         /\ \A i \in ses[p].todo : units[<<ses[p].run, i>>].state = "PENDING"
<1> DEFINE r == ses[p].run
<1>1. r \in RunIds
  BY DEF TypeInv, SessionOK, SessionAt
<1>2. FollowsAt("executing", ses[p], r)
  BY DEF HistoryInv, FollowInv, SessionFollows, Inside
<1>3. runs[r].state = "INCOMPLETE" /\ ses[p].todo = Phases \ Checkpointed(r)
  BY <1>2 DEF FollowsAt
<1>4. ASSUME NEW i \in ses[p].todo PROVE units[<<r, i>>].state = "PENDING"
  <2>1. i \in Phases /\ ~Present(r, i)
    BY <1>3 DEF Checkpointed
  <2>2. RowAgrees(r, i)
    BY <1>1, <2>1, TablesAgreeByRow DEF TablesInv
  <2>3. Running = {}
    BY DEF ExclusionInv, SweepInv
  <2>4. units[<<r, i>>].state \in UnitStates
    BY <1>1, <2>1 DEF TypeInv, TypeOK
  <2> QED
    BY <2>1, <2>2, <2>3, <2>4 DEF RowAgrees, UnitStates
<1> QED
  BY <1>3, <1>4

LEMMA AttemptingFits ==
  ASSUME TypeInv, TablesInv, HistoryInv, NEW p \in Pids, pc[p] \in Attempting
  PROVE  LET s == ses[p]
             r == s.run
         IN /\ runs[r].state = "INCOMPLETE"
            /\ attempts[MyKey(p)].status = "RUNNING" /\ attempts[MyKey(p)].owner[1] = p
            /\ units[<<r, s.phase>>].state = "RUNNING"
            /\ units[<<r, s.phase>>].count = s.attempt
            /\ ~Present(r, s.phase)
<1> DEFINE r == ses[p].run
           i == ses[p].phase
           n == ses[p].attempt
<1>1. r \in RunIds /\ i \in Phases /\ n \in Tries
  BY DEF TypeInv, SessionOK, SessionAt, Attempting
<1>2. FollowsAt(pc[p], ses[p], r)
  BY DEF HistoryInv, FollowInv, SessionFollows, Inside
<1>3. runs[r].state = "INCOMPLETE" /\ ~Present(r, i)
  BY <1>1, <1>2 DEF FollowsAt, Checkpointed
<1>4. <<r, i, n>> \in Running /\ attempts[<<r, i, n>>].owner[1] = p
  BY DEF TablesInv, OwnInv, MyKey
<1>5. attempts[<<r, i, n>>].status = "RUNNING"
  BY <1>4 DEF Running
<1>6. RowAgrees(r, i)
  BY <1>1, TablesAgreeByRow DEF TablesInv
<1>7. units[<<r, i>>].state = "RUNNING" /\ units[<<r, i>>].count = n
  BY <1>1, <1>4, <1>5, <1>6 DEF RowAgrees
<1> QED
  BY <1>3, <1>4, <1>5, <1>7 DEF MyKey

LEMMA CompletingFits ==
  ASSUME TypeInv, HistoryInv, NEW p \in Pids, pc[p] = "completing"
  PROVE  LET r == ses[p].run
         IN /\ runs[r].state = "INCOMPLETE"
            /\ Cardinality(Checkpointed(r)) = NumPhases
            /\ completions[r] = {} /\ Completion(r) \in published
<1> DEFINE r == ses[p].run
<1>1. r \in RunIds
  BY DEF TypeInv, SessionOK, SessionAt
<1>2. FollowsAt("completing", ses[p], r)
  BY DEF HistoryInv, FollowInv, SessionFollows, Inside
<1>3. /\ runs[r].state = "INCOMPLETE" /\ Completion(r) \in published
      /\ Phases \ Checkpointed(r) = {}
  BY <1>2 DEF FollowsAt
<1>4. Checkpointed(r) = 1..NumPhases
  BY <1>3 DEF Checkpointed
<1>5. Cardinality(1..NumPhases) = NumPhases
  BY FS_Interval
<1>6. completions[r] = {}
  BY <1>1, <1>3 DEF HistoryInv, CompletionAttests
<1> QED
  BY <1>3, <1>4, <1>5, <1>6

LEMMA OpenRunContinues ==
  ASSUME TypeInv, HistoryInv, NEW r \in RunIds
  PROVE  Continues(r)
<1> SUFFICES ASSUME runs[r].state = "INCOMPLETE"
             PROVE  /\ ChainVerifies(r, runs[r].contract)
                    /\ \E o \in Digests : IsOutputBefore(r, runs[r].contract, NumPhases + 1, o)
  BY DEF Continues
<1> DEFINE c == runs[r].contract
<1>1. PICK n \in 0..NumPhases : Checkpointed(r) = 1..n
  BY DEF HistoryInv, ChainOK
<1>2. \A i \in Phases : Present(r, i) => ckpts[<<r, i>>].input = WorkInput(c, i, Predecessor(r, i))
  BY DEF HistoryInv, ChainOK
<1>3. ASSUME NEW i \in Checkpointed(r), NEW o, IsOutputBefore(r, c, i, o)
      PROVE  o = Predecessor(r, i)
  <2>1. i \in 1..n
    BY <1>1
  <2>2. {j \in Checkpointed(r) : j < i} = 1..(i - 1)
    BY <1>1, <2>1
  <2>3. \/ 1..(i - 1) = {} /\ o = c
        \/ \E j \in 1..(i - 1) : (\A k \in 1..(i - 1) : k <= j) /\ o = ckpts[<<r, j>>].output
    BY <1>3, <2>2 DEF IsOutputBefore
  <2>4. CASE i = 1
    BY <2>3, <2>4 DEF Predecessor
  <2>5. CASE i # 1
    <3>1. i - 1 \in 1..(i - 1)
      BY <2>1, <2>5
    <3>2. PICK j \in 1..(i - 1) : (\A k \in 1..(i - 1) : k <= j) /\ o = ckpts[<<r, j>>].output
      BY <2>3, <3>1
    <3>3. j = i - 1
      BY <2>1, <3>1, <3>2
    <3> QED
      BY <2>5, <3>2, <3>3 DEF Predecessor
  <2> QED
    BY <2>4, <2>5
<1>4. ChainVerifies(r, c)
  BY <1>2, <1>3 DEF ChainVerifies, Checkpointed
<1>5. \E o \in Digests : IsOutputBefore(r, c, NumPhases + 1, o)
  <2>1. {j \in Checkpointed(r) : j < NumPhases + 1} = 1..n
    BY <1>1
  <2>2. CASE n = 0
    <3>1. runs[r] \in RunRows
      BY DEF TypeInv, TypeOK, NoRow
    <3>2. c \in Digests
      BY <3>1 DEF RunRows, Digests
    <3> QED
      BY <2>1, <2>2, <3>2 DEF IsOutputBefore
  <2>3. CASE n # 0
    <3>1. n \in 1..n /\ (\A k \in 1..n : k <= n) /\ 1..n # {}
      BY <2>3
    <3>2. n \in Phases /\ Present(r, n)
      <4>1. n \in Checkpointed(r)
        BY <1>1, <3>1
      <4> QED
        BY <4>1 DEF Checkpointed
    <3>3. ckpts[<<r, n>>] \in CkptRows \cup {NoCkpt}
      <4>1. <<r, n>> \in RunIds \X Phases
        BY <3>2
      <4> QED
        BY <4>1 DEF TypeInv, TypeOK
    <3>4. ckpts[<<r, n>>] # NoCkpt
      BY <3>2 DEF Present, NoCkpt
    <3>5. ckpts[<<r, n>>].output \in Digests
      BY <3>3, <3>4 DEF CkptRows, Digests
    <3> QED
      BY <2>1, <3>1, <3>5 DEF IsOutputBefore
  <2> QED
    BY <2>2, <2>3
<1> QED
  BY <1>4, <1>5

\* StatementsFit for any number of processes, runs, phases and attempts, whatever
\* was killed, raised and resumed before.  With CallsAreBounded it leaves a call
\* that does not end only two excuses: its executor, or nobody scheduling it.
THEOREM StatementsAlwaysFit == Spec => []StatementsFit
<1>1. TypeInv /\ ExclusionInv /\ TablesInv /\ HistoryInv => StatementsFit
  BY ExecutingFits, AttemptingFits, CompletingFits, OpenRunContinues
     DEF StatementsFit, Expects
<1> QED
  BY <1>1, TypeInvariant, ExclusionInvariant, TablesInvariant, HistoryInvariant, PTL
=============================================================================
