----------------------------- MODULE RegionScan -----------------------------
(***************************************************************************)
(* The concurrent part of ScanAccount (workers/internal/scanner/           *)
(* scanner.go).  One goroutine per region, at most `concurrency` of them   *)
(* past the semaphore; in scanRegion one goroutine per scanner, which adds *)
(* what it has found, or its error, to the region's result under a mutex;  *)
(* a goroutine that closes the results channel when all regions are done;  *)
(* and the handler, which scans the global services first, then receives   *)
(* results until the channel is closed, and decides the scan's status.     *)
(*                                                                         *)
(* What a scanner finds is one value, "resources".  The database is left   *)
(* out: collected is what the handler has received and goes on to store.   *)
(***************************************************************************)
EXTENDS Integers, FiniteSets

CONSTANTS Regions,      \* the enabled regions of the account
          Scanners,     \* the enabled goroutines of scanRegion
          concurrency   \* SCAN_CONCURRENCY

ASSUME RegionAssumption ==
  /\ IsFiniteSet(Regions)
  /\ concurrency \in Nat \ {0}

VARIABLES at,         \* at[r]: where the goroutine of region r is
          call,       \* call[r][s]: where scanner s of region r is
          outcome,    \* outcome[r][s]: what its AWS calls have returned
          seen,       \* seen[r][s]: the slice it has read under the mutex
          result,     \* result[r]: the region's RegionResult
          expired,    \* expired[r]: the deadline of the region has passed
          failed,     \* failed[r]: result.Error is set
          sem,        \* tokens in the semaphore's channel
          wg,         \* the counter of the WaitGroup
          channel,    \* the results in resultsChan, in no order
          closed,     \* resultsChan is closed
          pc,         \* where the handler is
          scanErrors, \* the regions it has counted as failed
          partial,    \* the scanners it has counted as failed
          collected,  \* the results it has received
          status      \* the status it has decided on

region == <<at, expired, failed>>
scanning == <<call, outcome, seen, result>>
sync == <<sem, wg, channel, closed>>
handler == <<pc, scanErrors, partial, collected, status>>
vars == <<region, scanning, sync, handler>>

RegionSteps == {"spawned", "scanning", "scanned", "sent", "released", "done"}
CallSteps == {"idle", "calling", "returned", "locked", "done"}
Outcomes == {"resources", "errors"}

TypeOK ==
  /\ at \in [Regions -> RegionSteps]
  /\ call \in [Regions -> [Scanners -> CallSteps]]
  /\ outcome \in [Regions -> [Scanners -> Outcomes \cup {"none"}]]
  /\ seen \in [Regions -> [Scanners -> SUBSET Scanners]]
  /\ result \in [Regions -> [Outcomes -> SUBSET Scanners]]
  /\ expired \in [Regions -> BOOLEAN]
  /\ failed \in [Regions -> BOOLEAN]
  /\ sem \in 0 .. concurrency
  /\ wg \in Nat
  /\ channel \in SUBSET Regions
  /\ closed \in BOOLEAN
  /\ pc \in {"global", "fan_in", "decided"}
  /\ scanErrors \in SUBSET Regions
  /\ partial \in SUBSET (Regions \X Scanners)
  /\ collected \in SUBSET (Regions \X Scanners)
  /\ status \in {"none", "complete", "partial"}

Init ==
  /\ at = [r \in Regions |-> "spawned"]
  /\ call = [r \in Regions |-> [s \in Scanners |-> "idle"]]
  /\ outcome = [r \in Regions |-> [s \in Scanners |-> "none"]]
  /\ seen = [r \in Regions |-> [s \in Scanners |-> {}]]
  /\ result = [r \in Regions |-> [o \in Outcomes |-> {}]]
  /\ expired = [r \in Regions |-> FALSE]
  /\ failed = [r \in Regions |-> FALSE]
  /\ sem = 0
  /\ wg = Cardinality(Regions)
  /\ channel = {}
  /\ closed = FALSE
  /\ pc = "global"
  /\ scanErrors = {}
  /\ partial = {}
  /\ collected = {}
  /\ status = "none"

-----------------------------------------------------------------------------
(* The goroutine of a region.                                              *)

Goto(r, from, to) ==
  /\ at[r] = from
  /\ at' = [at EXCEPT ![r] = to]

\* A token, the region's deadline, and the goroutines of scanRegion.
Acquire(r) ==
  /\ Goto(r, "spawned", "scanning")
  /\ sem < concurrency
  /\ sem' = sem + 1
  /\ call' = [call EXCEPT ![r] = [s \in Scanners |-> "calling"]]
  /\ UNCHANGED <<expired, failed, outcome, seen, result, wg, channel, closed, handler>>

\* The deadline of the region, or of the whole scan, passes.
Expire(r) ==
  /\ at[r] = "scanning"
  /\ expired' = [expired EXCEPT ![r] = TRUE]
  /\ UNCHANGED <<at, failed, scanning, sync, handler>>

\* scanRegion returns when its goroutines are done; then the deadline is
\* looked at (and given up), and a region past it counts as failed with all
\* it has found.
Collect(r) ==
  /\ Goto(r, "scanning", "scanned")
  /\ \A s \in Scanners : call[r][s] = "done"
  /\ failed' = [failed EXCEPT ![r] = expired[r]]
  /\ expired' = [expired EXCEPT ![r] = FALSE]
  /\ UNCHANGED <<scanning, sync, handler>>

\* The channel has room for every region.
Send(r) ==
  /\ Goto(r, "scanned", "sent")
  /\ Cardinality(channel) < Cardinality(Regions)
  /\ channel' = channel \cup {r}
  /\ UNCHANGED <<expired, failed, scanning, sem, wg, closed, handler>>

\* Mutant: the token is never given back.
ReleaseForgotten(r) ==
  /\ Goto(r, "sent", "released")
  /\ UNCHANGED <<expired, failed, scanning, sync, handler>>

\* The deferred calls, last one first: the token, then the WaitGroup.
Release(r) ==
  /\ Goto(r, "sent", "released")
  /\ sem > 0
  /\ sem' = sem - 1
  /\ UNCHANGED <<expired, failed, scanning, wg, channel, closed, handler>>

Done(r) ==
  /\ Goto(r, "released", "done")
  /\ wg' = wg - 1
  /\ UNCHANGED <<expired, failed, scanning, sem, channel, closed, handler>>

-----------------------------------------------------------------------------
(* The goroutine of a scanner in a region.                                 *)

Step(r, s, from, to) ==
  /\ call[r][s] = from
  /\ call' = [call EXCEPT ![r][s] = to]

\* The AWS calls return; past the deadline they fail, or have been in time.
Return(r, s) ==
  /\ Step(r, s, "calling", "returned")
  /\ \E o \in Outcomes : outcome' = [outcome EXCEPT ![r][s] = o]
  /\ UNCHANGED <<region, seen, result, sync, handler>>

\* mu.Lock, and the first half of append: the slice is read.
Lock(r, s) ==
  /\ Step(r, s, "returned", "locked")
  /\ \A t \in Scanners : call[r][t] # "locked"
  /\ seen' = [seen EXCEPT ![r][s] = result[r][outcome[r][s]]]
  /\ UNCHANGED <<region, outcome, result, sync, handler>>

\* The other half: the longer slice is written back; mu.Unlock, wg.Done.
Unlock(r, s) ==
  /\ Step(r, s, "locked", "done")
  /\ result' = [result EXCEPT ![r][outcome[r][s]] = seen[r][s] \cup {s}]
  /\ seen' = [seen EXCEPT ![r][s] = {}]
  /\ UNCHANGED <<region, outcome, sync, handler>>

-----------------------------------------------------------------------------
\* Mutant: waits until no region holds a token.
CloseWhenIdle ==
  /\ sem = 0
  /\ ~closed
  /\ closed' = TRUE
  /\ UNCHANGED <<region, scanning, sem, wg, channel, handler>>

\* The goroutine that closes the channel after wg.Wait.
Close ==
  /\ wg = 0
  /\ ~closed
  /\ closed' = TRUE
  /\ UNCHANGED <<region, scanning, sem, wg, channel, handler>>

-----------------------------------------------------------------------------
(* The handler.                                                            *)

\* S3 and IAM; their errors are logged and change nothing below.
ScanGlobal ==
  /\ pc = "global"
  /\ pc' = "fan_in"
  /\ UNCHANGED <<region, scanning, sync, scanErrors, partial, collected, status>>

\* Mutant: the errors of single scanners are only logged.
ReceiveOverlooks(r) ==
  /\ pc = "fan_in"
  /\ r \in channel
  /\ channel' = channel \ {r}
  /\ scanErrors' = IF failed[r] THEN scanErrors \cup {r} ELSE scanErrors
  /\ collected' = IF failed[r] THEN collected
                  ELSE collected \cup ({r} \X result[r]["resources"])
  /\ UNCHANGED <<region, scanning, sem, wg, closed, pc, partial, status>>

\* One turn of the range loop: a failed region is counted and passed over.
Receive(r) ==
  /\ pc = "fan_in"
  /\ r \in channel
  /\ channel' = channel \ {r}
  /\ IF failed[r]
       THEN /\ scanErrors' = scanErrors \cup {r}
            /\ UNCHANGED <<partial, collected>>
       ELSE /\ partial' = partial \cup ({r} \X result[r]["errors"])
            /\ collected' = collected \cup ({r} \X result[r]["resources"])
            /\ UNCHANGED scanErrors
  /\ UNCHANGED <<region, scanning, sem, wg, closed, pc, status>>

\* The loop ends with the closed and drained channel; the status is decided.
Decide ==
  /\ pc = "fan_in"
  /\ closed /\ channel = {}
  /\ pc' = "decided"
  /\ status' = IF scanErrors # {} \/ partial # {} THEN "partial" ELSE "complete"
  /\ UNCHANGED <<region, scanning, sync, scanErrors, partial, collected>>

-----------------------------------------------------------------------------
RegionGoesOn(r) ==
  Acquire(r) \/ Collect(r) \/ Send(r) \/ Release(r) \/ Done(r)
ScannerGoesOn(r, s) == Return(r, s) \/ Lock(r, s) \/ Unlock(r, s)
HandlerGoesOn == ScanGlobal \/ (\E r \in Regions : Receive(r)) \/ Decide

GoesOn ==
  \/ \E r \in Regions :
       RegionGoesOn(r) \/ \E s \in Scanners : ScannerGoesOn(r, s)
  \/ Close
  \/ HandlerGoesOn

Next == GoesOn \/ \E r \in Regions : Expire(r)

Spec == Init /\ [][Next]_vars

-----------------------------------------------------------------------------
(* Properties.                                                             *)

\* No more than `concurrency` regions are being scanned at any time, the
\* ones that wait to hand over their result included (scanner.go 175-190).
WithinLimit ==
  Cardinality({r \in Regions : at[r] \in {"scanning", "scanned", "sent"}})
    <= concurrency

\* Nobody sends on the closed channel, which would panic: when it is closed
\* every region has handed over its result (scanner.go 178-203).
NoSendOnClosed ==
  closed => \A r \in Regions : at[r] \notin {"spawned", "scanning", "scanned"}

\* What a scanner has returned is in its region's result, once the region has
\* stopped scanning, on the right side: appends of several goroutines never
\* overwrite each other (scanner.go 452-703).
EveryOutcomeKept ==
  \A r \in Regions : at[r] \notin {"spawned", "scanning"} =>
    \A o \in Outcomes : result[r][o] = {s \in Scanners : outcome[r][s] = o}

\* The status is true to what has happened in the goroutines: "complete" means
\* that the handler has the resources of every scanner in every region, and
\* "partial" that a region or a scanner has failed (scanner.go 254-271, 414-425).
StatusIsTrue ==
  /\ status = "complete" => collected = Regions \X Scanners
  /\ status = "partial" =>
       \E r \in Regions : failed[r] \/ \E s \in Scanners : outcome[r][s] = "errors"

\* Nobody waits for ever for a token, a lock, room in the channel or its end:
\* until the handler has decided, some goroutine can go on.  As each of them
\* only moves forward, and AWS calls return at the latest at the deadline, the
\* handler gets through (scanner.go 174-203, 254).
NeverStuck == pc = "decided" \/ ENABLED GoesOn
=============================================================================
