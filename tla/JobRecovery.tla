---------------------------- MODULE JobRecovery ----------------------------
(***************************************************************************)
(* The jobs table against the Redis lists.  A job is a row (durable) and a *)
(* message (popped before it is handled, so lost with its consumer).  Two  *)
(* mechanisms repair the difference:                                       *)
(*   - the recovery runner of each worker process (recovery/runner.go),    *)
(*     at start and every five minutes, for the jobs of every process;     *)
(*   - recoverStuckJobs of the API (stuckJobService.ts), run by an         *)
(*     operator's cron.                                                    *)
(* They take no common lock, and each reads the table before it acts.      *)
(*                                                                         *)
(* The order of a Redis list is left to JobQueue: here the messages that   *)
(* wait form a bag.  The age limits are minutes: a row old enough for a    *)
(* pass is any row in the right status whose producer is done with it, and *)
(* fairness says that no row stays young for ever.                         *)
(***************************************************************************)
EXTENDS Integers, FiniteSets

CONSTANTS Jobs,                 \* the rows of the jobs table
          FromScanner,          \* the analyzer jobs the scanner creates; the
                                \* API creates the others
          Processes,            \* the worker processes, each with a consumer
                                \* and a recovery runner
          HandledBy,            \* HandledBy[j]: who consumes the type of j
          MaxRecoveryAttempts,  \* store.MaxRecoveryAttempts, MAX_RECOVERY_COUNT
          maxRetries,           \* of the queue
          CronRuns,             \* whether the operator runs recoverStuckJobs
          None,
          MaxFaults             \* BOUND on crashes and failed writes

ASSUME RecoveryAssumption ==
  /\ FromScanner \subseteq Jobs
  /\ IsFiniteSet(Processes)
  /\ HandledBy \in [Jobs -> Processes]
  /\ MaxRecoveryAttempts \in Nat
  /\ maxRetries \in Nat
  /\ CronRuns \in BOOLEAN
  /\ MaxFaults \in Nat
  /\ None \notin Jobs
  /\ None \notin [job : Jobs, id : BOOLEAN, retry : 0 .. maxRetries]

VARIABLES status,     \* jobs.status
          count,      \* jobs.recovery_count
          producer,   \* producer[j]: how far the creation of j has come
          waiting,    \* waiting[m]: how many copies of m are in Redis
          hand,       \* hand[p]: the message the consumer of p is handling
          step,       \* step[p]: where the runner of p is in RecoverOnce
          todo,       \* todo[p]: the rows of its last query still to do
          current,    \* current[p]: the row it is between two writes of
          ended,      \* history: the jobs a handler ran to its end
          reposts,    \* history: messages runners have pushed per job
          faults      \* history: crashes and failed writes so far

rows == <<status, count>>
runner == <<step, todo, current>>
vars == <<rows, producer, waiting, hand, runner, ended, reposts, faults>>

Statuses == {"absent", "queued", "running", "complete", "error"}
Steps == {"idle", "orphans", "orphan_sent", "stuck", "stuck_reset", "stuck_sent"}

\* A message: the payload names the row (job_id) only in the first push.
Messages == [job : Jobs, id : BOOLEAN, retry : 0 .. maxRetries]
Message(j, id, r) == [job |-> j, id |-> id, retry |-> r]

TypeOK ==
  /\ status \in [Jobs -> Statuses]
  /\ count \in [Jobs -> Nat]
  /\ producer \in [Jobs -> {"none", "inserted", "done"}]
  /\ waiting \in [Messages -> Nat]
  /\ hand \in [Processes -> Messages \cup {None}]
  /\ step \in [Processes -> Steps]
  /\ todo \in [Processes -> SUBSET Jobs]
  /\ current \in [Processes -> Jobs \cup {None}]
  /\ ended \in SUBSET Jobs
  /\ reposts \in [Jobs -> Nat]
  /\ faults \in Nat

Init ==
  /\ status = [j \in Jobs |-> "absent"]
  /\ count = [j \in Jobs |-> 0]
  /\ producer = [j \in Jobs |-> "none"]
  /\ waiting = [m \in Messages |-> 0]
  /\ hand = [p \in Processes |-> None]
  /\ step = [p \in Processes |-> "idle"]
  /\ todo = [p \in Processes |-> {}]
  /\ current = [p \in Processes |-> None]
  /\ ended = {}
  /\ reposts = [j \in Jobs |-> 0]
  /\ faults = 0

Fault == faults < MaxFaults /\ faults' = faults + 1

SetStatus(j, s) == status' = [status EXCEPT ![j] = s]
Push(m) == waiting' = [waiting EXCEPT ![m] = @ + 1]

-----------------------------------------------------------------------------
(* Producers: the row is committed first, the message pushed afterwards.   *)

InsertRow(j) ==
  /\ producer[j] = "none"
  /\ producer' = [producer EXCEPT ![j] = "inserted"]
  /\ SetStatus(j, "queued")
  /\ UNCHANGED <<count, waiting, hand, runner, ended, reposts, faults>>

PushMessage(j) ==
  /\ producer[j] = "inserted"
  /\ producer' = [producer EXCEPT ![j] = "done"]
  /\ Push(Message(j, TRUE, 0))
  /\ UNCHANGED <<rows, hand, runner, ended, reposts, faults>>

\* The producer dies between the two writes.
Abandon(j) ==
  /\ producer[j] = "inserted"
  /\ Fault
  /\ producer' = [producer EXCEPT ![j] = "done"]
  /\ UNCHANGED <<rows, waiting, hand, runner, ended, reposts>>

\* Redis refuses the push.  The API marks its job as failed; the scanner
\* leaves the row queued ("will be recovered").
PushFails(j) ==
  /\ producer[j] = "inserted"
  /\ Fault
  /\ producer' = [producer EXCEPT ![j] = "done"]
  /\ IF j \in FromScanner THEN UNCHANGED status ELSE SetStatus(j, "error")
  /\ UNCHANGED <<count, waiting, hand, runner, ended, reposts>>

-----------------------------------------------------------------------------
(* Consumers.  Every write of a handler goes to the row its payload names; *)
(* a payload without job_id writes nowhere.  A write that fails is logged. *)

\* Mutant: a payload without job_id is taken for its row all the same.
ReportByPayload(m, s) ==
  \/ SetStatus(m.job, s) /\ UNCHANGED faults
  \/ Fault /\ UNCHANGED status

Report(m, s) ==
  \/ m.id /\ SetStatus(m.job, s) /\ UNCHANGED faults
  \/ ~m.id /\ UNCHANGED <<status, faults>>
  \/ m.id /\ Fault /\ UNCHANGED status

\* Pop, and MarkRunning: whatever the status was.
Take(p) ==
  /\ hand[p] = None
  /\ \E m \in Messages :
       /\ HandledBy[m.job] = p
       /\ waiting[m] > 0
       /\ waiting' = [waiting EXCEPT ![m] = @ - 1]
       /\ hand' = [hand EXCEPT ![p] = m]
       /\ Report(m, "running")
  /\ UNCHANGED <<count, producer, runner, ended, reposts>>

\* Redis pops a message whose reply never arrives.
PopLost(p) ==
  /\ hand[p] = None
  /\ Fault
  /\ \E m \in Messages :
       /\ HandledBy[m.job] = p
       /\ waiting[m] > 0
       /\ waiting' = [waiting EXCEPT ![m] = @ - 1]
  /\ UNCHANGED <<rows, producer, hand, runner, ended, reposts>>

\* The end of a handler.
EndHandler(p) ==
  /\ hand[p] # None
  /\ hand' = [hand EXCEPT ![p] = None]
  /\ ended' = ended \cup {hand[p].job}
  /\ UNCHANGED <<count, producer, runner, reposts>>

Succeed(p) ==
  /\ EndHandler(p)
  /\ Report(hand[p], "complete")
  /\ UNCHANGED waiting

FailAndRetry(p) ==
  /\ EndHandler(p)
  /\ Report(hand[p], "error")
  /\ hand[p].retry < maxRetries
  /\ Push([hand[p] EXCEPT !.retry = @ + 1])

\* The push of the retry fails: logged only.
RetryLost(p) ==
  /\ EndHandler(p)
  /\ hand[p].retry < maxRetries
  /\ Fault
  /\ IF hand[p].id THEN SetStatus(hand[p].job, "error") ELSE UNCHANGED status
  /\ UNCHANGED waiting

FailForGood(p) ==
  /\ EndHandler(p)
  /\ Report(hand[p], "error")
  /\ hand[p].retry >= maxRetries
  /\ UNCHANGED waiting

\* The process dies and is started again: the message in hand and the rest of
\* the recovery pass are gone.  (A cancelled context fails every write, too.)
Crash(p) ==
  /\ Fault
  /\ hand[p] # None \/ step[p] # "idle"
  /\ hand' = [hand EXCEPT ![p] = None]
  /\ step' = [step EXCEPT ![p] = "idle"]
  /\ todo' = [todo EXCEPT ![p] = {}]
  /\ current' = [current EXCEPT ![p] = None]
  /\ UNCHANGED <<rows, producer, waiting, ended, reposts>>

-----------------------------------------------------------------------------
(* The recovery runner: RecoverOnce.                                       *)

\* Mutant: the queries do not look at the count.
RecoverableForEver(s) == {j \in Jobs : status[j] = s /\ producer[j] = "done"}

\* Mutant: the limit of the queries is off by one.
RecoverableOnceLess(s) ==
  {j \in Jobs : /\ status[j] = s /\ producer[j] = "done"
                /\ count[j] + 1 < MaxRecoveryAttempts}

\* The rows a query with status s may return.
Recoverable(s) ==
  {j \in Jobs : /\ status[j] = s /\ producer[j] = "done"
                /\ count[j] < MaxRecoveryAttempts}

Goto(p, s) == step' = [step EXCEPT ![p] = s]

\* FindOrphanedJobs.
FindOrphanedJobs(p, S) ==
  /\ step[p] = "idle"
  /\ S \subseteq Recoverable("queued")
  /\ Goto(p, "orphans")
  /\ todo' = [todo EXCEPT ![p] = S]
  /\ UNCHANGED <<rows, producer, waiting, hand, current, ended, reposts, faults>>

\* FindStuckRunningJobs, once the orphans are done.
FindStuckRunningJobs(p, S) ==
  /\ step[p] = "orphans"
  /\ todo[p] = {}
  /\ S \subseteq Recoverable("running")
  /\ Goto(p, "stuck")
  /\ todo' = [todo EXCEPT ![p] = S]
  /\ UNCHANGED <<rows, producer, waiting, hand, current, ended, reposts, faults>>

\* Mutant: an error of Enqueue is swallowed.
RepostNothing(p, j, s) ==
  /\ UNCHANGED waiting
  /\ reposts' = [reposts EXCEPT ![j] = @ + 1]
  /\ Goto(p, s)

\* Enqueue: the payload of the row, which holds no job_id.
Repost(p, j, s) ==
  /\ Push(Message(j, FALSE, 0))
  /\ reposts' = [reposts EXCEPT ![j] = @ + 1]
  /\ Goto(p, s)

EnqueueOrphan(p) ==
  /\ step[p] = "orphans"
  /\ \E j \in todo[p] :
       /\ Repost(p, j, "orphan_sent")
       /\ current' = [current EXCEPT ![p] = j]
  /\ UNCHANGED <<rows, producer, hand, todo, ended, faults>>

\* ResetJobToQueued: whatever has become of the row since the query.
ResetJobToQueued(p) ==
  /\ step[p] = "stuck"
  /\ \E j \in todo[p] :
       /\ SetStatus(j, "queued")
       /\ current' = [current EXCEPT ![p] = j]
  /\ Goto(p, "stuck_reset")
  /\ UNCHANGED <<count, producer, waiting, hand, todo, ended, reposts, faults>>

EnqueueStuck(p) ==
  /\ step[p] = "stuck_reset"
  /\ Repost(p, current[p], "stuck_sent")
  /\ UNCHANGED <<rows, producer, hand, todo, current, ended, faults>>

\* MarkJobRecovered: one more attempt, and running, whatever it was.
MarkJobRecovered(j) ==
  /\ SetStatus(j, "running")
  /\ count' = [count EXCEPT ![j] = @ + 1]

\* The runner is done with its current row, and goes on with the next one.
Done(p, j) ==
  /\ Goto(p, IF step[p] \in {"orphans", "orphan_sent"} THEN "orphans" ELSE "stuck")
  /\ todo' = [todo EXCEPT ![p] = @ \ {j}]
  /\ current' = [current EXCEPT ![p] = None]

Mark(p) ==
  /\ step[p] \in {"orphan_sent", "stuck_sent"}
  /\ MarkJobRecovered(current[p])
  /\ Done(p, current[p])
  /\ UNCHANGED <<producer, waiting, hand, ended, reposts, faults>>

\* A write of the runner fails: logged, and on to the next row.
RowFails(p) ==
  /\ \/ step[p] \in {"orphans", "stuck"} /\ \E j \in todo[p] : Done(p, j)
     \/ current[p] # None /\ Done(p, current[p])
  /\ Fault
  /\ UNCHANGED <<rows, producer, waiting, hand, ended, reposts>>

\* The pass is over, too, when its second query fails.
EndPass(p) ==
  /\ \/ step[p] = "stuck" /\ UNCHANGED faults
     \/ step[p] = "orphans" /\ Fault
  /\ todo[p] = {}
  /\ Goto(p, "idle")
  /\ UNCHANGED <<rows, producer, waiting, hand, todo, current, ended, reposts>>

-----------------------------------------------------------------------------
(* The jobs part of recoverStuckJobs, one transaction over the locked rows.*)

RecoverStuckJobs(S) ==
  /\ CronRuns
  /\ S # {} /\ \A j \in S : status[j] = "running"
  /\ status' = [j \in Jobs |->
       CASE j \notin S -> status[j]
         [] j \in S /\ count[j] >= MaxRecoveryAttempts -> "error"
         [] OTHER -> "queued"]
  /\ count' = [j \in Jobs |->
       IF j \in S /\ count[j] < MaxRecoveryAttempts THEN count[j] + 1 ELSE count[j]]
  /\ UNCHANGED <<producer, waiting, hand, runner, ended, reposts, faults>>

-----------------------------------------------------------------------------
EndsCreation(j) == PushMessage(j) \/ Abandon(j) \/ PushFails(j)
EndsHandler(p) ==
  Succeed(p) \/ FailAndRetry(p) \/ RetryLost(p) \/ FailForGood(p)

\* What a runner does between two queries.
RunnerWorks(p) ==
  \/ EnqueueOrphan(p) \/ ResetJobToQueued(p) \/ EnqueueStuck(p)
  \/ Mark(p) \/ EndPass(p)

Next ==
  \/ \E j \in Jobs : InsertRow(j) \/ EndsCreation(j)
  \/ \E p \in Processes :
       \/ Take(p) \/ PopLost(p) \/ EndsHandler(p) \/ Crash(p)
       \/ RunnerWorks(p) \/ RowFails(p)
       \/ \E S \in SUBSET Jobs :
            FindOrphanedJobs(p, S) \/ FindStuckRunningJobs(p, S)
  \/ \E S \in SUBSET Jobs : RecoverStuckJobs(S)

Spec == Init /\ [][Next]_vars

(* Producers go on or die, handlers return, a runner goes on with its pass *)
(* and begins one every period.  A row that is in the right status pass    *)
(* after pass is old enough for one of them.  The operator's cron finds    *)
(* what stays running.                                                     *)
FairSpec ==
  /\ Spec
  /\ \A p \in Processes :
       /\ WF_vars(Take(p))
       /\ WF_vars(EndsHandler(p))
       /\ WF_vars(RunnerWorks(p))
       /\ WF_vars(\E S \in SUBSET Jobs : FindOrphanedJobs(p, S))
       /\ WF_vars(\E S \in SUBSET Jobs : FindStuckRunningJobs(p, S))
       /\ \A j \in Jobs :
            /\ SF_vars(\E S \in SUBSET Jobs : j \in S /\ FindOrphanedJobs(p, S))
            /\ SF_vars(\E S \in SUBSET Jobs : j \in S /\ FindStuckRunningJobs(p, S))
  /\ \A j \in Jobs :
       /\ WF_vars(EndsCreation(j))
       /\ WF_vars(\E S \in SUBSET Jobs : j \in S /\ RecoverStuckJobs(S))

-----------------------------------------------------------------------------
(* Properties.                                                             *)

\* However the runners and the API interleave, each runner can overshoot the
\* limit by the one attempt it had already decided on when the others spent
\* the last ones (runner.go 68-166, stuckJobService.ts 41-137).
RecoveryBounded ==
  \A j \in Jobs : count[j] <= MaxRecoveryAttempts + Cardinality(Processes)

\* The messages recovery adds for a job are bounded as well, although a message
\* is pushed before it is counted and the count may fail to be written.
RepostsBounded ==
  \A j \in Jobs :
    reposts[j] <= MaxRecoveryAttempts + Cardinality(Processes) + faults

\* At most one message that names its row exists, waiting or in hand: the row
\* has one reporter, whatever recovery adds to the lists.
SingleReporter ==
  LET Copies(m) == waiting[m] + Cardinality({p \in Processes : hand[p] = m})
  IN \A j \in Jobs :
       LET Naming == {m \in Messages : m.job = j /\ m.id /\ Copies(m) > 0}
       IN /\ \A m \in Naming : Copies(m) = 1 /\ producer[j] = "done"
          /\ Cardinality(Naming) <= 1

\* So no handler turns a completed job into a failed one (jobs.go 67-79).
CompleteNotOverturned ==
  [][\A j \in Jobs : status[j] = "complete" => status'[j] # "error"]_vars

\* Recovery comes to an end for every job: it is settled, or it is exhausted.
RecoveryEnds ==
  \A j \in Jobs : <>[](\/ status[j] \in {"absent", "complete", "error"}
                       \/ count[j] >= MaxRecoveryAttempts)

\* No query finds j any more: a reset has given it its last attempt
\* (stuckJobService.ts 107), both queries ask for fewer (job_recovery.go 58,
\* 111), and the message of that attempt is gone as well.
OutOfReach(j) ==
  /\ status[j] = "queued" /\ count[j] >= MaxRecoveryAttempts
  /\ \A m \in Messages : m.job = j => waiting[m] = 0 /\ \A p \in Processes : hand[p] # m

\* A job whose message was never pushed, or is lost with its consumer, is
\* handled all the same: a handler runs it to its end, or it is failed.  It
\* takes more than one fault to put a job out of reach of its recovery.
LossIsRepaired ==
  \A j \in Jobs :
    status[j] = "queued" ~>
      j \in ended \/ status[j] = "error" \/ (faults > 1 /\ OutOfReach(j))

=============================================================================
