-------------------------- MODULE RegionScanProofs --------------------------
(***************************************************************************)
(* Proofs about RegionScan, for every finite set of regions, every set of  *)
(* scanners and every limit.                                               *)
(***************************************************************************)
EXTENDS RegionScan, FiniteSetTheorems, TLAPS

-----------------------------------------------------------------------------
(* Types.  TypeOK alone is not inductive: the WaitGroup does not fall      *)
(* below zero because it counts the goroutines that are not done, and a    *)
(* scanner that takes the lock has an outcome.                             *)

Holding == {r \in Regions : at[r] \in {"scanning", "scanned", "sent"}}
NotDone == {r \in Regions : at[r] # "done"}

Counted == sem = Cardinality(Holding) /\ wg = Cardinality(NotDone)

Answered ==
  \A r \in Regions : \A s \in Scanners :
    /\ outcome[r][s] = "none" <=> call[r][s] \in {"idle", "calling"}
    /\ at[r] = "spawned" => call[r][s] = "idle"

Typed == TypeOK /\ Counted /\ Answered

LEMMA Finite ==
  ASSUME NEW S \in SUBSET Regions
  PROVE  IsFiniteSet(S) /\ Cardinality(S) \in Nat
BY RegionAssumption, FS_Subset, FS_CardinalityType

LEMMA AddOne ==
  ASSUME NEW S \in SUBSET Regions, NEW r \in Regions, r \notin S
  PROVE  Cardinality(S \cup {r}) = Cardinality(S) + 1
BY Finite, FS_AddElement

LEMMA DropOne ==
  ASSUME NEW S \in SUBSET Regions, NEW r \in S
  PROVE  Cardinality(S \ {r}) = Cardinality(S) - 1
BY Finite, FS_RemoveElement

LEMMA TypedInit == Init => Typed
<1> SUFFICES ASSUME Init PROVE Typed
  OBVIOUS
<1>1. Holding = {} /\ NotDone = Regions
  BY DEF Init, Holding, NotDone
<1>2. Cardinality({}) = 0 /\ Cardinality(Regions) \in Nat
  BY FS_EmptySet, Finite
<1>3. Counted
  BY <1>1, <1>2 DEF Init, Counted
<1>4. /\ call \in [Regions -> [Scanners -> CallSteps]]
      /\ outcome \in [Regions -> [Scanners -> Outcomes \cup {"none"}]]
      /\ seen \in [Regions -> [Scanners -> SUBSET Scanners]]
      /\ result \in [Regions -> [Outcomes -> SUBSET Scanners]]
  BY DEF Init, CallSteps
<1>5. at \in [Regions -> RegionSteps] /\ sem \in 0 .. concurrency
  BY RegionAssumption DEF Init, RegionSteps
<1>6. TypeOK
  BY <1>2, <1>4, <1>5 DEF Init, TypeOK
<1>7. Answered
  BY DEF Init, Answered
<1> QED
  BY <1>3, <1>6, <1>7 DEF Typed

\* A region that neither takes nor returns a token, and does not end.
LEMMA CountedQuiet ==
  ASSUME Typed, UNCHANGED <<sem, wg>>,
         \A r \in Regions :
           /\ at'[r] \in {"scanning", "scanned", "sent"}
                <=> at[r] \in {"scanning", "scanned", "sent"}
           /\ at'[r] = "done" <=> at[r] = "done"
  PROVE  Counted'
<1>1. Holding' = Holding /\ NotDone' = NotDone
  BY DEF Holding, NotDone
<1> QED
  BY <1>1 DEF Typed, Counted

LEMMA StepTo ==
  ASSUME TypeOK, NEW r \in Regions, NEW from, NEW to \in RegionSteps, Goto(r, from, to)
  PROVE  /\ at' \in [Regions -> RegionSteps]
         /\ at[r] = from /\ at'[r] = to
         /\ \A q \in Regions \ {r} : at'[q] = at[q]
BY DEF TypeOK, Goto

LEMMA CallTo ==
  ASSUME TypeOK, NEW r \in Regions, NEW s \in Scanners,
         NEW from, NEW to \in CallSteps, Step(r, s, from, to)
  PROVE  /\ call' \in [Regions -> [Scanners -> CallSteps]]
         /\ call[r][s] = from /\ call'[r][s] = to
         /\ \A q \in Regions, t \in Scanners :
              q # r \/ t # s => call'[q][t] = call[q][t]
BY DEF TypeOK, Step

LEMMA HasOutcome ==
  ASSUME Typed, NEW r \in Regions, NEW s \in Scanners,
         call[r][s] \notin {"idle", "calling"}
  PROVE  outcome[r][s] \in Outcomes
<1>1. outcome[r][s] # "none"
  BY DEF Typed, Answered
<1>2. outcome[r][s] \in Outcomes \cup {"none"}
  BY DEF Typed, TypeOK
<1> QED
  BY <1>1, <1>2

LEMMA TypedRegion ==
  ASSUME Typed, NEW r \in Regions, RegionGoesOn(r) \/ Expire(r)
  PROVE  Typed'
<1> USE DEF Typed
<1>1. CASE Acquire(r)
  <2>1. /\ at' \in [Regions -> RegionSteps]
        /\ at[r] = "spawned" /\ at'[r] = "scanning"
        /\ \A q \in Regions \ {r} : at'[q] = at[q]
    BY <1>1, StepTo DEF Acquire, RegionSteps
  <2>2. Holding' = Holding \cup {r} /\ r \notin Holding /\ NotDone' = NotDone
    BY <2>1 DEF Holding, NotDone
  <2>3. Holding \in SUBSET Regions
    BY DEF Holding
  <2>4. Cardinality(Holding') = Cardinality(Holding) + 1
    BY <2>2, <2>3, AddOne
  <2>5. sem' = sem + 1 /\ wg' = wg /\ sem' \in 0 .. concurrency
    BY <1>1, RegionAssumption DEF Acquire, TypeOK
  <2>6. call' \in [Regions -> [Scanners -> CallSteps]]
    BY <1>1 DEF Acquire, TypeOK, CallSteps
  <2>7. TypeOK'
    BY <1>1, <2>1, <2>5, <2>6 DEF Acquire, TypeOK, handler
  <2>8. Answered'
    BY <1>1, <2>1 DEF Acquire, Answered, TypeOK
  <2> QED
    BY <2>2, <2>4, <2>5, <2>7, <2>8 DEF Counted
<1>2. CASE Collect(r)
  <2>1. /\ at' \in [Regions -> RegionSteps]
        /\ at[r] = "scanning" /\ at'[r] = "scanned"
        /\ \A q \in Regions \ {r} : at'[q] = at[q]
    BY <1>2, StepTo DEF Collect, RegionSteps
  <2>2. Counted'
    BY <1>2, <2>1, CountedQuiet DEF Collect, sync
  <2>3. TypeOK'
    BY <1>2, <2>1 DEF Collect, TypeOK, scanning, sync, handler
  <2>4. Answered'
    BY <1>2, <2>1 DEF Collect, Answered, TypeOK, scanning
  <2> QED
    BY <2>2, <2>3, <2>4
<1>3. CASE Send(r)
  <2>1. /\ at' \in [Regions -> RegionSteps]
        /\ at[r] = "scanned" /\ at'[r] = "sent"
        /\ \A q \in Regions \ {r} : at'[q] = at[q]
    BY <1>3, StepTo DEF Send, RegionSteps
  <2>2. Counted'
    BY <1>3, <2>1, CountedQuiet DEF Send
  <2>3. TypeOK'
    BY <1>3, <2>1 DEF Send, TypeOK, scanning, handler
  <2>4. Answered'
    BY <1>3, <2>1 DEF Send, Answered, TypeOK, scanning
  <2> QED
    BY <2>2, <2>3, <2>4
<1>4. CASE Release(r)
  <2>1. /\ at' \in [Regions -> RegionSteps]
        /\ at[r] = "sent" /\ at'[r] = "released"
        /\ \A q \in Regions \ {r} : at'[q] = at[q]
    BY <1>4, StepTo DEF Release, RegionSteps
  <2>2. Holding' = Holding \ {r} /\ r \in Holding /\ NotDone' = NotDone
    BY <2>1 DEF Holding, NotDone
  <2>3. Holding \in SUBSET Regions
    BY DEF Holding
  <2>4. Cardinality(Holding') = Cardinality(Holding) - 1
    BY <2>2, <2>3, DropOne
  <2>5. sem' = sem - 1 /\ wg' = wg /\ sem' \in 0 .. concurrency
    BY <1>4, RegionAssumption DEF Release, TypeOK
  <2>6. TypeOK'
    BY <1>4, <2>1, <2>5 DEF Release, TypeOK, scanning, handler
  <2>7. Answered'
    BY <1>4, <2>1 DEF Release, Answered, TypeOK, scanning
  <2> QED
    BY <2>2, <2>4, <2>5, <2>6, <2>7 DEF Counted
<1>5. CASE Done(r)
  <2>1. /\ at' \in [Regions -> RegionSteps]
        /\ at[r] = "released" /\ at'[r] = "done"
        /\ \A q \in Regions \ {r} : at'[q] = at[q]
    BY <1>5, StepTo DEF Done, RegionSteps
  <2>2. Holding' = Holding /\ r \in NotDone /\ NotDone' = NotDone \ {r}
    BY <2>1 DEF Holding, NotDone
  <2>3. NotDone \in SUBSET Regions /\ NotDone' \in SUBSET Regions
    BY DEF NotDone
  <2>4. Cardinality(NotDone') = Cardinality(NotDone) - 1 /\ Cardinality(NotDone') \in Nat
    BY <2>2, <2>3, DropOne, Finite
  <2>5. wg' = wg - 1 /\ sem' = sem
    BY <1>5 DEF Done
  <2>6. Counted' /\ wg' \in Nat
    BY <2>2, <2>4, <2>5 DEF Counted
  <2>7. TypeOK'
    BY <1>5, <2>1, <2>6 DEF Done, TypeOK, scanning, handler
  <2>8. Answered'
    BY <1>5, <2>1 DEF Done, Answered, TypeOK, scanning
  <2> QED
    BY <2>6, <2>7, <2>8
<1>6. CASE Expire(r)
  <2>1. Counted'
    BY <1>6, CountedQuiet DEF Expire, sync
  <2>2. TypeOK'
    BY <1>6 DEF Expire, TypeOK, scanning, sync, handler
  <2>3. Answered'
    BY <1>6 DEF Expire, Answered, scanning
  <2> QED
    BY <2>1, <2>2, <2>3
<1> QED
  BY <1>1, <1>2, <1>3, <1>4, <1>5, <1>6 DEF RegionGoesOn

LEMMA TypedScanner ==
  ASSUME Typed, NEW r \in Regions, NEW s \in Scanners, ScannerGoesOn(r, s)
  PROVE  Typed'
<1> USE DEF Typed
<1>1. Counted'
  BY CountedQuiet DEF ScannerGoesOn, Return, Lock, Unlock, region, sync
<1>2. CASE Return(r, s)
  <2>1. call' \in [Regions -> [Scanners -> CallSteps]]
    BY <1>2, CallTo DEF Return, CallSteps
  <2>2. PICK o \in Outcomes : outcome' = [outcome EXCEPT ![r][s] = o]
    BY <1>2 DEF Return
  <2>3. outcome' \in [Regions -> [Scanners -> Outcomes \cup {"none"}]]
    BY <2>2 DEF TypeOK
  <2>4. UNCHANGED <<region, seen, result, sync, handler>>
    BY <1>2 DEF Return
  <2>5. TypeOK'
    BY <2>1, <2>3, <2>4 DEF TypeOK, region, sync, handler
  <2>6. Answered'
    BY <1>2, <2>2 DEF Return, Step, Answered, TypeOK, Outcomes, region
  <2> QED
    BY <1>1, <2>5, <2>6
<1>3. CASE Lock(r, s)
  <2>1. call' \in [Regions -> [Scanners -> CallSteps]]
    BY <1>3, CallTo DEF Lock, CallSteps
  <2>2. outcome[r][s] \in Outcomes
    BY <1>3, HasOutcome DEF Lock, Step
  <2>3. seen' \in [Regions -> [Scanners -> SUBSET Scanners]]
    BY <1>3, <2>2 DEF Lock, TypeOK
  <2>4. UNCHANGED <<region, outcome, result, sync, handler>>
    BY <1>3 DEF Lock
  <2>5. TypeOK'
    BY <2>1, <2>3, <2>4 DEF TypeOK, region, sync, handler
  <2>6. Answered'
    BY <1>3 DEF Lock, Step, Answered, TypeOK, region
  <2> QED
    BY <1>1, <2>5, <2>6
<1>4. CASE Unlock(r, s)
  <2>1. call' \in [Regions -> [Scanners -> CallSteps]]
    BY <1>4, CallTo DEF Unlock, CallSteps
  <2>2. outcome[r][s] \in Outcomes
    BY <1>4, HasOutcome DEF Unlock, Step
  <2>3. seen[r][s] \cup {s} \in SUBSET Scanners
    BY DEF TypeOK
  <2>4. result' \in [Regions -> [Outcomes -> SUBSET Scanners]]
    BY <1>4, <2>2, <2>3 DEF Unlock, TypeOK
  <2>5. seen' \in [Regions -> [Scanners -> SUBSET Scanners]]
    BY <1>4 DEF Unlock, TypeOK
  <2>6. UNCHANGED <<region, outcome, sync, handler>>
    BY <1>4 DEF Unlock
  <2>7. TypeOK'
    BY <2>1, <2>4, <2>5, <2>6 DEF TypeOK, region, sync, handler
  <2>8. Answered'
    BY <1>4 DEF Unlock, Step, Answered, TypeOK, region
  <2> QED
    BY <1>1, <2>7, <2>8
<1> QED
  BY <1>2, <1>3, <1>4 DEF ScannerGoesOn

LEMMA TypedHandler ==
  ASSUME Typed, Close \/ HandlerGoesOn
  PROVE  Typed'
<1> USE DEF Typed
<1>1. /\ UNCHANGED <<region, scanning, sem, wg>>
      /\ channel' \in SUBSET Regions /\ closed' \in BOOLEAN
  BY DEF Close, HandlerGoesOn, ScanGlobal, Receive, Decide, sync, TypeOK
<1>2. Counted' /\ Answered'
  BY <1>1, CountedQuiet DEF region, scanning, Answered
<1>3. CASE Close \/ ScanGlobal \/ Decide
  BY <1>1, <1>2, <1>3
  DEF Close, ScanGlobal, Decide, TypeOK, region, scanning, handler
<1>4. ASSUME NEW r \in Regions, Receive(r) PROVE Typed'
  <2>1. result[r]["errors"] \in SUBSET Scanners /\ result[r]["resources"] \in SUBSET Scanners
    BY DEF TypeOK, Outcomes
  <2>2. {r} \X result[r]["errors"] \in SUBSET (Regions \X Scanners)
    BY <2>1
  <2>3. {r} \X result[r]["resources"] \in SUBSET (Regions \X Scanners)
    BY <2>1
  <2>4. /\ scanErrors' \in SUBSET Regions
        /\ partial' \in SUBSET (Regions \X Scanners)
        /\ collected' \in SUBSET (Regions \X Scanners)
        /\ pc' = pc /\ status' = status
    BY <1>4, <2>2, <2>3 DEF Receive, TypeOK
  <2>5. TypeOK'
    BY <1>1, <2>4 DEF TypeOK, region, scanning
  <2> QED
    BY <1>2, <2>5
<1> QED
  BY <1>3, <1>4 DEF HandlerGoesOn

LEMMA TypedNext == Typed /\ [Next]_vars => Typed'
<1>1. CASE UNCHANGED vars
  BY <1>1 DEF Typed, TypeOK, Counted, Answered, Holding, NotDone, vars,
              region, scanning, sync, handler
<1> QED
  BY <1>1, TypedRegion, TypedScanner, TypedHandler DEF Next, GoesOn

\* The type invariant: in particular no token too many is taken or given back.
THEOREM TypeCorrect == Spec => []TypeOK
<1>1. Typed => TypeOK
  BY DEF Typed
<1> QED
  BY <1>1, TypedInit, TypedNext, PTL DEF Spec

\* At most `concurrency` regions are scanned at a time (scanner.go 175-190).
THEOREM LimitKept == Spec => []WithinLimit
<1>1. Typed => WithinLimit
  BY RegionAssumption DEF Typed, TypeOK, Counted, WithinLimit, Holding
<1> QED
  BY <1>1, TypedInit, TypedNext, PTL DEF Spec

-----------------------------------------------------------------------------
(* The channel is closed when the WaitGroup has counted every region down. *)

Drained == closed => \A r \in Regions : at[r] = "done"

LEMMA DrainedNext == Typed /\ Typed' /\ Drained /\ [Next]_vars => Drained'
<1> SUFFICES ASSUME Typed, Typed', Drained, [Next]_vars, closed' PROVE \A r \in Regions : at'[r] = "done"
  BY DEF Drained
<1>1. CASE Close
  <2>1. Cardinality(NotDone) = 0
    BY <1>1 DEF Close, Typed, Counted
  <2>2. NotDone = {}
    BY <2>1, Finite, FS_EmptySet DEF NotDone
  <2> QED
    BY <1>1, <2>2 DEF Close, NotDone, region
<1>2. CASE ~Close
  <2>1. closed' = closed
    BY <1>2 DEF Next, GoesOn, RegionGoesOn, ScannerGoesOn, HandlerGoesOn, Acquire, Collect,
                Send, Release, Done, Expire, Return, Lock, Unlock, ScanGlobal, Receive,
                Decide, vars, sync
  <2>2. \A r \in Regions : at[r] = "done"
    BY <2>1 DEF Drained
  <2>3. at' = at
    BY <1>2, <2>2 DEF Next, GoesOn, RegionGoesOn, ScannerGoesOn, HandlerGoesOn, Acquire,
                Collect, Send, Release, Done, Expire, Goto, Return, Lock, Unlock,
                ScanGlobal, Receive, Decide, vars, region
  <2> QED
    BY <2>2, <2>3
<1> QED
  BY <1>1, <1>2

\* No goroutine sends on the closed channel (scanner.go 178-203).
THEOREM ChannelClosedLast == Spec => []NoSendOnClosed
<1>1. Init => Drained
  BY DEF Init, Drained
<1>2. Drained => NoSendOnClosed
  BY DEF Drained, NoSendOnClosed
<1> QED
  BY <1>1, <1>2, TypedInit, TypedNext, DrainedNext, PTL DEF Spec

-----------------------------------------------------------------------------
(* The result of a region: under the mutex, the slice that was read is     *)
(* still the slice that is written, so what is done is in it.              *)

OneLock(r) ==
  \A s, t \in Scanners :
    call[r][s] = "locked" /\ call[r][t] = "locked" => s = t
ReadIsFresh(r) ==
  \A s \in Scanners :
    call[r][s] = "locked" => seen[r][s] = result[r][outcome[r][s]]
Gathered(r) ==
  \A o \in Outcomes :
    result[r][o] = {s \in Scanners : call[r][s] = "done" /\ outcome[r][s] = o}
AllReturned(r) ==
  at[r] \notin {"spawned", "scanning"} => \A s \in Scanners : call[r][s] = "done"

Intact(r) == OneLock(r) /\ ReadIsFresh(r) /\ Gathered(r) /\ AllReturned(r)
Kept == \A r \in Regions : Intact(r)

LEMMA KeptInit == Init => Kept
BY DEF Init, Kept, Intact, OneLock, ReadIsFresh, Gathered, AllReturned

LEMMA ScanningUnchanged ==
  ASSUME NEW r \in Regions, Intact(r),
         call'[r] = call[r], outcome'[r] = outcome[r], seen'[r] = seen[r],
         result'[r] = result[r],
         at'[r] \notin {"spawned", "scanning"} =>
           at[r] \notin {"spawned", "scanning"} \/ \A s \in Scanners : call[r][s] = "done"
  PROVE  Intact(r)'
BY DEF Intact, OneLock, ReadIsFresh, Gathered, AllReturned

LEMMA KeptScanner ==
  ASSUME Typed, Typed', Kept, NEW r \in Regions, NEW s \in Scanners, ScannerGoesOn(r, s)
  PROVE  Kept'
<1> USE DEF Typed
<1>1. ASSUME NEW q \in Regions, q # r PROVE Intact(q)'
  <2>1. Intact(q)
    BY DEF Kept
  <2>2. /\ call'[q] = call[q] /\ outcome'[q] = outcome[q] /\ seen'[q] = seen[q]
        /\ result'[q] = result[q] /\ at'[q] = at[q]
    BY <1>1 DEF ScannerGoesOn, Return, Lock, Unlock, Step, TypeOK, region
  <2> QED
    BY <2>1, <2>2, ScanningUnchanged
<1>2. Intact(r)
  BY DEF Kept
<1>3. at' = at
  BY DEF ScannerGoesOn, Return, Lock, Unlock, region
<1>4. at[r] \in {"spawned", "scanning"}
  BY <1>2 DEF Intact, AllReturned, ScannerGoesOn, Return, Lock, Unlock, Step
<1>5. AllReturned(r)'
  BY <1>3, <1>4 DEF AllReturned
<1>6. ASSUME Return(r, s) PROVE Intact(r)'
  <2>1. /\ call[r][s] = "calling" /\ call'[r][s] = "returned"
        /\ \A t \in Scanners : t # s => call'[r][t] = call[r][t]
        /\ \A t \in Scanners : t # s => outcome'[r][t] = outcome[r][t]
        /\ seen' = seen /\ result' = result
    BY <1>6 DEF Return, Step, TypeOK
  <2> QED
    BY <1>2, <1>5, <2>1 DEF Intact, OneLock, ReadIsFresh, Gathered
<1>7. ASSUME Lock(r, s) PROVE Intact(r)'
  <2>1. /\ call[r][s] = "returned" /\ call'[r][s] = "locked"
        /\ \A t \in Scanners : t # s => call'[r][t] = call[r][t]
        /\ \A t \in Scanners : call[r][t] # "locked"
        /\ seen'[r][s] = result[r][outcome[r][s]]
        /\ outcome' = outcome /\ result' = result
    BY <1>7 DEF Lock, Step, TypeOK
  <2> QED
    BY <1>2, <1>5, <2>1 DEF Intact, OneLock, ReadIsFresh, Gathered
<1>8. ASSUME Unlock(r, s) PROVE Intact(r)'
  <2>1. /\ call[r][s] = "locked" /\ call'[r][s] = "done"
        /\ \A t \in Scanners : t # s => call'[r][t] = call[r][t]
        /\ outcome' = outcome
    BY <1>8 DEF Unlock, Step, TypeOK
  <2>2. \A t \in Scanners : call'[r][t] # "locked"
    BY <1>2, <2>1 DEF Intact, OneLock
  <2>3. outcome[r][s] \in Outcomes
    BY <2>1, HasOutcome
  <2>4. ASSUME NEW o \in Outcomes
        PROVE  result'[r][o] =
                 {t \in Scanners : call'[r][t] = "done" /\ outcome'[r][t] = o}
    <3>1. result[r][o] = {t \in Scanners : call[r][t] = "done" /\ outcome[r][t] = o}
      BY <1>2 DEF Intact, Gathered
    <3>2. CASE o = outcome[r][s]
      <4>1. result'[r][o] = seen[r][s] \cup {s}
        BY <1>8, <2>3, <3>2 DEF Unlock, TypeOK
      <4>2. seen[r][s] = result[r][o]
        BY <1>2, <2>1, <3>2 DEF Intact, ReadIsFresh
      <4> QED
        BY <2>1, <3>1, <3>2, <4>1, <4>2
    <3>3. CASE o # outcome[r][s]
      <4>1. result'[r][o] = result[r][o]
        BY <1>8, <3>3 DEF Unlock, TypeOK
      <4> QED
        BY <2>1, <3>1, <3>3, <4>1
    <3> QED
      BY <3>2, <3>3
  <2> QED
    BY <1>5, <2>2, <2>4 DEF Intact, OneLock, ReadIsFresh, Gathered
<1>9. Intact(r)'
  BY <1>6, <1>7, <1>8 DEF ScannerGoesOn
<1> QED
  BY <1>1, <1>9 DEF Kept

LEMMA KeptRegion ==
  ASSUME Typed, Kept, NEW r \in Regions, RegionGoesOn(r) \/ Expire(r)
  PROVE  Kept'
<1> USE DEF Typed
<1>1. ASSUME NEW q \in Regions PROVE Intact(q)'
  <2>1. Intact(q)
    BY DEF Kept
  <2>2. CASE Acquire(r) /\ q = r
    <3>1. /\ call'[r] = [s \in Scanners |-> "calling"] /\ at'[r] = "scanning"
          /\ outcome' = outcome /\ seen' = seen /\ result' = result
      BY <2>2 DEF Acquire, Goto, TypeOK
    <3>2. \A s \in Scanners : call[r][s] = "idle"
      BY <2>2 DEF Acquire, Goto, Answered
    <3> QED
      BY <2>1, <2>2, <3>1, <3>2 DEF Intact, OneLock, ReadIsFresh, Gathered, AllReturned
  <2>3. CASE ~(Acquire(r) /\ q = r)
    <3>1. /\ call'[q] = call[q] /\ outcome' = outcome /\ seen' = seen
          /\ result' = result
      BY <2>3 DEF RegionGoesOn, Acquire, Collect, Send, Release, Done, Expire, TypeOK, scanning
    <3>2. at'[q] \notin {"spawned", "scanning"} =>
            at[q] \notin {"spawned", "scanning"} \/ \A s \in Scanners : call[q][s] = "done"
      BY <2>3 DEF RegionGoesOn, Acquire, Collect, Send, Release, Done, Expire, Goto, TypeOK
    <3> QED
      BY <2>1, <3>1, <3>2, ScanningUnchanged
  <2> QED
    BY <2>2, <2>3
<1> QED
  BY <1>1 DEF Kept

LEMMA KeptNext == Typed /\ Typed' /\ Kept /\ [Next]_vars => Kept'
<1> SUFFICES ASSUME Typed, Typed', Kept, [Next]_vars PROVE Kept'
  OBVIOUS
<1>1. CASE UNCHANGED <<region, scanning>>
  BY <1>1 DEF Kept, Intact, OneLock, ReadIsFresh, Gathered, AllReturned, region, scanning
<1>2. CASE ~UNCHANGED <<region, scanning>>
  BY <1>2, KeptRegion, KeptScanner
  DEF Next, GoesOn, HandlerGoesOn, Close, ScanGlobal, Receive, Decide, vars
<1> QED
  BY <1>1, <1>2

\* What every scanner has returned is in its region's result (scanner.go 452-705).
THEOREM OutcomesKept == Spec => []EveryOutcomeKept
<1>1. Kept => EveryOutcomeKept
  BY DEF Kept, Intact, Gathered, AllReturned, EveryOutcomeKept
<1> QED
  BY <1>1, TypedInit, TypedNext, KeptInit, KeptNext, PTL DEF Spec

-----------------------------------------------------------------------------
(* What the handler has counted: every region that has handed over its     *)
(* result is in the channel or in the handler's books, and nothing is in   *)
(* the books that has not happened.                                        *)

Over(r) == at[r] \in {"sent", "released", "done"}

Counting ==
  /\ \A r \in channel : Over(r)
  /\ \A r \in Regions : Over(r) /\ r \notin channel =>
       IF failed[r] THEN r \in scanErrors
       ELSE \A s \in Scanners :
              /\ s \in result[r]["errors"] => <<r, s>> \in partial
              /\ s \in result[r]["resources"] => <<r, s>> \in collected
Happened ==
  /\ \A r \in scanErrors : Over(r) /\ failed[r]
  /\ \A r \in Regions, s \in Scanners :
       <<r, s>> \in partial => Over(r) /\ outcome[r][s] = "errors"
Verdict ==
  /\ status # "none" => pc = "decided"
  /\ status = "complete" => collected = Regions \X Scanners
  /\ status = "partial" => scanErrors # {} \/ partial # {}

Honest == Counting /\ Happened /\ Verdict

LEMMA HonestInit == Init => Honest
BY DEF Init, Honest, Counting, Happened, Verdict, Over

LEMMA HonestRegion ==
  ASSUME Typed, Honest, NEW r \in Regions, RegionGoesOn(r) \/ Expire(r)
  PROVE  Honest'
<1>1. /\ scanErrors' = scanErrors /\ partial' = partial /\ collected' = collected
      /\ pc' = pc /\ status' = status /\ outcome' = outcome /\ result' = result
  BY DEF RegionGoesOn, Acquire, Collect, Send, Release, Done, Expire, scanning, handler
<1>2. \A q \in Regions : q # r => at'[q] = at[q] /\ failed'[q] = failed[q]
  BY DEF RegionGoesOn, Acquire, Collect, Send, Release, Done, Expire, Goto, Typed, TypeOK
<1>3. /\ Over(r) => Over(r)' /\ failed'[r] = failed[r]
      /\ Over(r)' => Over(r) \/ channel' = channel \cup {r}
      /\ channel' = channel \/ (channel' = channel \cup {r} /\ Over(r)')
  BY DEF RegionGoesOn, Acquire, Collect, Send, Release, Done, Expire, Goto, Typed, TypeOK,
         Over, sync
<1>4. \A q \in Regions : q # r => (Over(q)' <=> Over(q))
  BY <1>2 DEF Over
<1>5. channel \subseteq Regions /\ scanErrors \subseteq Regions
  BY DEF Typed, TypeOK
<1>6. Counting'
  BY <1>1, <1>2, <1>3, <1>4, <1>5 DEF Honest, Counting
<1>7. Happened'
  BY <1>1, <1>2, <1>3, <1>4, <1>5 DEF Honest, Happened
<1>8. Verdict'
  BY <1>1 DEF Honest, Verdict
<1> QED
  BY <1>6, <1>7, <1>8 DEF Honest

LEMMA HonestScanner ==
  ASSUME Typed, Kept, Honest, NEW r \in Regions, NEW s \in Scanners, ScannerGoesOn(r, s)
  PROVE  Honest'
<1>1. /\ scanErrors' = scanErrors /\ partial' = partial /\ collected' = collected
      /\ pc' = pc /\ status' = status /\ at' = at /\ failed' = failed
      /\ channel' = channel
  BY DEF ScannerGoesOn, Return, Lock, Unlock, handler, region, sync
<1>2. \A q \in Regions : q # r => outcome'[q] = outcome[q] /\ result'[q] = result[q]
  BY DEF ScannerGoesOn, Return, Lock, Unlock, Typed, TypeOK
<1>3. ~Over(r)
  BY DEF ScannerGoesOn, Return, Lock, Unlock, Step, Kept, Intact, AllReturned, Over
<1>4. \A q : Over(q)' <=> Over(q)
  BY <1>1 DEF Over
<1>5. Counting'
  BY <1>1, <1>2, <1>3, <1>4 DEF Honest, Counting
<1>6. Happened'
  BY <1>1, <1>2, <1>3, <1>4 DEF Honest, Happened
<1>7. Verdict'
  BY <1>1 DEF Honest, Verdict
<1> QED
  BY <1>5, <1>6, <1>7 DEF Honest

LEMMA HonestReceive ==
  ASSUME Typed, Kept, Honest, NEW r \in Regions, Receive(r)
  PROVE  Honest'
<1>1. /\ at' = at /\ failed' = failed /\ outcome' = outcome /\ result' = result
      /\ pc = "fan_in" /\ pc' = pc /\ status' = status
      /\ r \in channel /\ channel' = channel \ {r}
  BY DEF Receive, region, scanning
<1>2. Over(r) /\ \A q : Over(q)' <=> Over(q)
  BY <1>1 DEF Over, Honest, Counting
<1>3. /\ failed[r] => scanErrors' = scanErrors \cup {r} /\ partial' = partial
                       /\ collected' = collected
      /\ ~failed[r] => /\ scanErrors' = scanErrors
                       /\ partial' = partial \cup ({r} \X result[r]["errors"])
                       /\ collected' = collected \cup ({r} \X result[r]["resources"])
  BY DEF Receive
<1>4. \A s \in Scanners : s \in result[r]["errors"] => outcome[r][s] = "errors"
  BY <1>2 DEF Kept, Intact, Gathered, Outcomes
<1>5. Counting'
  <2>1. ASSUME NEW q \in Regions, Over(q), q \notin channel'
        PROVE  IF failed[q] THEN q \in scanErrors'
               ELSE \A s \in Scanners :
                      /\ s \in result[q]["errors"] => <<q, s>> \in partial'
                      /\ s \in result[q]["resources"] => <<q, s>> \in collected'
    BY <1>1, <1>3, <2>1 DEF Honest, Counting
  <2>2. \A q \in channel' : Over(q)
    BY <1>1 DEF Honest, Counting
  <2> QED
    BY <1>1, <1>2, <2>1, <2>2 DEF Counting
<1>6. Happened'
  BY <1>1, <1>2, <1>3, <1>4 DEF Honest, Happened
<1>7. Verdict'
  BY <1>1 DEF Honest, Verdict
<1> QED
  BY <1>5, <1>6, <1>7 DEF Honest

LEMMA HonestDecide ==
  ASSUME Typed, Drained, Kept, Honest, Decide
  PROVE  Honest'
<1>1. /\ UNCHANGED <<region, scanning, sync, scanErrors, partial, collected>>
      /\ pc' = "decided" /\ closed /\ channel = {}
      /\ status' = IF scanErrors # {} \/ partial # {} THEN "partial" ELSE "complete"
  BY DEF Decide
<1>2. Counting' /\ Happened'
  BY <1>1 DEF Honest, Counting, Happened, Over, region, scanning, sync
<1>3. ASSUME scanErrors = {}, partial = {}, NEW r \in Regions, NEW s \in Scanners
      PROVE  <<r, s>> \in collected
  <2>1. at[r] = "done"
    BY <1>1 DEF Drained
  <2>2. call[r][s] = "done"
    BY <2>1 DEF Kept, Intact, AllReturned
  <2>3. outcome[r][s] \in Outcomes
    BY <2>2, HasOutcome
  <2>4. s \in result[r][outcome[r][s]]
    BY <2>2, <2>3 DEF Kept, Intact, Gathered
  <2>5. /\ s \notin result[r]["errors"]
        /\ s \in result[r]["resources"] => <<r, s>> \in collected
    BY <1>1, <1>3, <2>1 DEF Honest, Counting, Over
  <2> QED
    BY <2>3, <2>4, <2>5 DEF Outcomes
<1>4. scanErrors = {} /\ partial = {} => collected = Regions \X Scanners
  BY <1>3 DEF Typed, TypeOK
<1>5. Verdict'
  BY <1>1, <1>4 DEF Verdict
<1> QED
  BY <1>2, <1>5 DEF Honest

LEMMA HonestNext == Typed /\ Drained /\ Kept /\ Honest /\ [Next]_vars => Honest'
<1> SUFFICES ASSUME Typed, Drained, Kept, Honest, [Next]_vars PROVE Honest'
  OBVIOUS
<1>1. CASE Close \/ ScanGlobal \/ UNCHANGED vars
  <2>1. /\ UNCHANGED <<region, scanning, channel, scanErrors, partial, collected, status>>
        /\ pc = "decided" => pc' = "decided"
    BY <1>1 DEF Close, ScanGlobal, vars, sync, handler
  <2> QED
    BY <2>1 DEF Honest, Counting, Happened, Verdict, Over, region, scanning
<1>2. CASE \E r \in Regions : RegionGoesOn(r) \/ Expire(r)
  BY <1>2, HonestRegion
<1>3. CASE \E r \in Regions, s \in Scanners : ScannerGoesOn(r, s)
  BY <1>3, HonestScanner
<1>4. CASE \E r \in Regions : Receive(r)
  BY <1>4, HonestReceive
<1>5. CASE Decide
  BY <1>5, HonestDecide
<1> QED
  BY <1>1, <1>2, <1>3, <1>4, <1>5 DEF Next, GoesOn, HandlerGoesOn

\* A complete scan has what every scanner of every region has found, and a
\* partial one has missed something (scanner.go 254-271, 414-425).
THEOREM StatusTrue == Spec => []StatusIsTrue
<1>1. Typed /\ Honest => StatusIsTrue
  <2> SUFFICES ASSUME Typed, Honest, status = "partial"
               PROVE  \E r \in Regions :
                        failed[r] \/ \E s \in Scanners : outcome[r][s] = "errors"
    BY DEF StatusIsTrue, Honest, Verdict
  <2>1. CASE scanErrors # {}
    BY <2>1 DEF Honest, Happened, Typed, TypeOK
  <2>2. CASE partial # {}
    <3>1. \E r \in Regions, s \in Scanners : <<r, s>> \in partial
      <4>1. partial \subseteq Regions \X Scanners
        BY DEF Typed, TypeOK
      <4>2. PICK p \in partial : p \in Regions \X Scanners
        BY <2>2, <4>1
      <4>3. p = <<p[1], p[2]>> /\ p[1] \in Regions /\ p[2] \in Scanners
        BY <4>2
      <4> QED
        BY <4>2, <4>3
    <3> QED
      BY <3>1 DEF Honest, Happened
  <2> QED
    BY <2>1, <2>2 DEF Honest, Verdict
<1>2. Init => Drained
  BY DEF Init, Drained
<1> QED
  BY <1>1, <1>2, TypedInit, TypedNext, DrainedNext, KeptInit, KeptNext, HonestInit,
     HonestNext, PTL DEF Spec

-----------------------------------------------------------------------------
(* Nobody waits for ever.  NeverStuck speaks of ENABLED GoesOn; CanGoOn is *)
(* the same with the guards of the actions written out.                    *)

CanStep(r) ==
  \/ at[r] = "spawned" /\ sem < concurrency
  \/ at[r] = "scanning" /\ \A s \in Scanners : call[r][s] = "done"
  \/ at[r] = "scanned" /\ Cardinality(channel) < Cardinality(Regions)
  \/ at[r] = "sent" /\ sem > 0
  \/ at[r] = "released"
CanScan(r, s) ==
  \/ call[r][s] \in {"calling", "locked"}
  \/ call[r][s] = "returned" /\ \A t \in Scanners : call[r][t] # "locked"
CanGoOn ==
  \/ \E r \in Regions : CanStep(r) \/ \E s \in Scanners : CanScan(r, s)
  \/ wg = 0 /\ ~closed
  \/ pc = "global"
  \/ pc = "fan_in" /\ (channel # {} \/ closed)

\* The goroutines of scanRegion are started with it.
Awake == \A r \in Regions, s \in Scanners : at[r] # "spawned" => call[r][s] # "idle"

LEMMA AwakeNext == Typed /\ Awake /\ [Next]_vars => Awake'
<1> SUFFICES ASSUME Typed, Awake, [Next]_vars,
                    NEW r \in Regions, NEW s \in Scanners, at'[r] # "spawned"
             PROVE  call'[r][s] # "idle"
  BY DEF Awake
<1> USE DEF Typed, TypeOK
<1>1. ASSUME NEW q \in Regions, Acquire(q) PROVE call'[r][s] # "idle"
  BY <1>1 DEF Acquire, Goto, Awake
<1>2. ASSUME NEW q \in Regions, Collect(q) \/ Send(q) \/ Release(q) \/ Done(q) \/ Expire(q)
      PROVE  call'[r][s] # "idle"
  BY <1>2 DEF Collect, Send, Release, Done, Expire, Goto, Awake, scanning
<1>3. ASSUME NEW q \in Regions, NEW t \in Scanners, ScannerGoesOn(q, t)
      PROVE  call'[r][s] # "idle"
  BY <1>3 DEF ScannerGoesOn, Return, Lock, Unlock, Step, Awake, region
<1>4. CASE Close \/ HandlerGoesOn \/ UNCHANGED vars
  BY <1>4 DEF Close, HandlerGoesOn, ScanGlobal, Receive, Decide, vars, Awake, region, scanning
<1> QED
  BY <1>1, <1>2, <1>3, <1>4 DEF Next, GoesOn, RegionGoesOn

\* A region that has its token, and has not given back everything, is not held
\* up: not by its scanners, and not by the channel once that is drained.
LEMMA HolderGoesOn ==
  ASSUME Typed, Awake, channel = {}, NEW r \in Regions, at[r] \notin {"spawned", "done"}
  PROVE  CanStep(r) \/ \E s \in Scanners : CanScan(r, s)
<1>1. at[r] \in RegionSteps /\ sem = Cardinality(Holding)
  BY DEF Typed, TypeOK, Counted
<1>2. CASE at[r] = "scanning"
  <2>1. CASE \A s \in Scanners : call[r][s] = "done"
    BY <1>2, <2>1 DEF CanStep
  <2>2. ASSUME NEW s \in Scanners, call[r][s] # "done"
        PROVE  \E t \in Scanners : CanScan(r, t)
    <3>1. call[r][s] \in {"calling", "returned", "locked"}
      BY <1>2, <2>2 DEF Typed, TypeOK, Awake, CallSteps
    <3> QED
      BY <3>1 DEF CanScan
  <2> QED
    BY <2>1, <2>2
<1>3. CASE at[r] = "scanned"
  <2>1. Cardinality(channel) = 0
    BY FS_EmptySet
  <2>2. Cardinality(Regions) # 0 /\ Cardinality(Regions) \in Nat
    BY Finite, FS_EmptySet, RegionAssumption
  <2> QED
    BY <1>3, <2>1, <2>2 DEF CanStep
<1>4. CASE at[r] = "sent"
  <2>1. Holding \in SUBSET Regions /\ Holding # {}
    BY <1>4 DEF Holding
  <2>2. Cardinality(Holding) # 0 /\ Cardinality(Holding) \in Nat
    BY <2>1, Finite, FS_EmptySet
  <2> QED
    BY <1>1, <1>4, <2>2 DEF CanStep
<1>5. CASE at[r] = "released"
  BY <1>5 DEF CanStep
<1> QED
  BY <1>1, <1>2, <1>3, <1>4, <1>5 DEF RegionSteps

LEMMA SomeoneGoesOn == Typed /\ Awake => pc = "decided" \/ CanGoOn
<1> SUFFICES ASSUME Typed, Awake, pc = "fan_in", channel = {}, ~closed, wg # 0
             PROVE  CanGoOn
  BY DEF Typed, TypeOK, CanGoOn
<1>1. NotDone \in SUBSET Regions /\ Cardinality(NotDone) # 0
  BY DEF Typed, Counted, NotDone
<1>2. PICK r \in Regions : at[r] # "done"
  BY <1>1, FS_EmptySet DEF NotDone
<1>3. CASE at[r] # "spawned"
  BY <1>2, <1>3, HolderGoesOn DEF CanGoOn
<1>4. CASE at[r] = "spawned" /\ sem < concurrency
  BY <1>4 DEF CanGoOn, CanStep
<1>5. CASE ~(sem < concurrency)
  <2>1. Cardinality(Holding) # 0
    BY <1>5, RegionAssumption DEF Typed, TypeOK, Counted
  <2>2. PICK q \in Regions : at[q] \in {"scanning", "scanned", "sent"}
    BY <2>1, FS_EmptySet DEF Holding
  <2> QED
    BY <2>2, HolderGoesOn DEF CanGoOn
<1> QED
  BY <1>3, <1>4, <1>5

\* Until the handler has decided, somebody can go on: no order of taking tokens,
\* locking, sending and closing has all of them wait for each other, for any
\* number of regions and any limit (scanner.go 174-203, 254).
THEOREM NobodyStuck == Spec => [](pc = "decided" \/ CanGoOn)
<1>1. Init => Awake
  BY DEF Init, Awake
<1> QED
  BY <1>1, TypedInit, TypedNext, AwakeNext, SomeoneGoesOn, PTL DEF Spec
=============================================================================
