---------------------------- MODULE ScanPipeline ----------------------------
(***************************************************************************)
(* The life of a scan of one AWS account, from the API to the last         *)
(* analyzer.                                                               *)
(*   - The API creates a scan with its scan_account job and pushes it      *)
(*     (awsAccountService.ts), deletes the account, and sweeps scans that  *)
(*     no job works for (stuckJobService.ts).                              *)
(*   - The scanner process handles one scan_account message at a time: it  *)
(*     scans (scanner.go), then creates and pushes one job per analyzer    *)
(*     (cmd/scanner/main.go).                                              *)
(*   - The analyzer process handles their messages one at a time; the      *)
(*     transaction that ends a job also decides whether the scan is        *)
(*     complete (store.go, orchestrator.go).                               *)
(* Every write is a statement of its own, sent to the database without     *)
(* looking at the status it replaces; one that fails is logged.            *)
(*                                                                         *)
(* The order of the lists and the dead-letter store are in JobQueue, the   *)
(* recovery of lost jobs in JobRecovery; here what a crash loses is lost.  *)
(***************************************************************************)
EXTENDS Integers, Sequences

CONSTANTS Scans,          \* the scans of the account, in no order
          analyzerTypes,  \* the job types of the fan-out, in order
          maxRetries,     \* of the queue
          None,
          MaxFaults       \* BOUND on crashes and failed writes

Analyzers == {analyzerTypes[i] : i \in DOMAIN analyzerTypes}

ScanMessages == [scan : Scans, retry : 0 .. maxRetries]
AnalyzeMessages == [scan : Scans, type : Analyzers, retry : 0 .. maxRetries]

ASSUME PipelineAssumption ==
  /\ analyzerTypes \in Seq(Analyzers)
  /\ \A i, j \in DOMAIN analyzerTypes : analyzerTypes[i] = analyzerTypes[j] => i = j
  /\ maxRetries \in Nat
  /\ MaxFaults \in Nat
  /\ None \notin ScanMessages \cup AnalyzeMessages

VARIABLES account,    \* the account exists
          scan,       \* scan[s]: scans.status, "none" before the row exists
          scanJob,    \* scanJob[s]: status of the scan_account job of s
          analysis,   \* analysis[s][a]: status of the analyzer job a of s
          toPush,     \* scans the API has committed and not yet pushed
          scanList,   \* messages waiting for the scanner
          analyzeList,\* messages waiting for the analyzer
          pc,         \* where the scanner is in its handler
          current,    \* the message it handles
          next,       \* the fan-out: index of the next analyzer type
          enqueued,   \* the fan-out has pushed something (enqueuedCount > 0)
          working,    \* the message the analyzer handles
          orphans,    \* what the sweep of the API has read
          tries,      \* history: handler calls per analyzer job
          faults      \* history: crashes and failed writes so far

api == <<account, toPush, orphans>>
scanner == <<pc, current, next, enqueued>>
analyzer == <<working, tries>>
vars == <<api, scan, scanJob, analysis, scanList, analyzeList, scanner, analyzer, faults>>

ScanStatuses == {"none", "queued", "processing", "running", "analyzing_pending",
                 "analyzing", "complete", "partial", "error", "canceled"}
JobStatuses == {"none", "queued", "running", "complete", "error"}
Steps == {"idle", "check", "begin", "assume", "scan", "mark", "pending", "create",
          "push", "failed", "requeue"}

\* ACTIVE_SCAN_STATUSES of the API.
Active == {"queued", "processing", "running", "analyzing"}

TypeOK ==
  /\ account \in BOOLEAN
  /\ scan \in [Scans -> ScanStatuses]
  /\ scanJob \in [Scans -> JobStatuses]
  /\ analysis \in [Scans -> [Analyzers -> JobStatuses]]
  /\ toPush \in SUBSET Scans
  /\ scanList \in SUBSET ScanMessages
  /\ analyzeList \in SUBSET AnalyzeMessages
  /\ pc \in Steps
  /\ current \in ScanMessages \cup {None}
  /\ next \in 1 .. Len(analyzerTypes) + 1
  /\ enqueued \in BOOLEAN
  /\ working \in AnalyzeMessages \cup {None}
  /\ orphans \in SUBSET Scans
  /\ tries \in [Scans -> [Analyzers -> Nat]]
  /\ faults \in 0 .. MaxFaults

Init ==
  /\ account = TRUE
  /\ scan = [s \in Scans |-> "none"]
  /\ scanJob = [s \in Scans |-> "none"]
  /\ analysis = [s \in Scans |-> [a \in Analyzers |-> "none"]]
  /\ toPush = {}
  /\ scanList = {}
  /\ analyzeList = {}
  /\ pc = "idle"
  /\ current = None
  /\ next = 1
  /\ enqueued = FALSE
  /\ working = None
  /\ orphans = {}
  /\ tries = [s \in Scans |-> [a \in Analyzers |-> 0]]
  /\ faults = 0

Fault == faults < MaxFaults /\ faults' = faults + 1

\* A statement that sets a status; when it fails, the error is only logged.
SetScan(s, status) ==
  \/ scan' = [scan EXCEPT ![s] = status] /\ UNCHANGED faults
  \/ Fault /\ UNCHANGED scan
SetScanJob(s, status) ==
  \/ scanJob' = [scanJob EXCEPT ![s] = status] /\ UNCHANGED faults
  \/ Fault /\ UNCHANGED scanJob

-----------------------------------------------------------------------------
(* The API.                                                                *)

\* enqueueScan, its transaction: the row of the account is locked, and no scan
\* of the account is active.
EnqueueScan(s) ==
  /\ account
  /\ scan[s] = "none"
  /\ \A t \in Scans : scan[t] \notin Active
  /\ scan' = [scan EXCEPT ![s] = "queued"]
  /\ scanJob' = [scanJob EXCEPT ![s] = "queued"]
  /\ toPush' = toPush \cup {s}
  /\ UNCHANGED <<account, orphans, analysis, scanList, analyzeList, scanner, analyzer, faults>>

\* enqueueScan, after the commit.
PushScan(s) ==
  /\ s \in toPush
  /\ toPush' = toPush \ {s}
  /\ scanList' = scanList \cup {[scan |-> s, retry |-> 0]}
  /\ UNCHANGED <<account, orphans, scan, scanJob, analysis, analyzeList, scanner, analyzer, faults>>

PushScanFails(s) ==
  /\ s \in toPush
  /\ Fault
  /\ toPush' = toPush \ {s}
  /\ scan' = [scan EXCEPT ![s] = "error"]
  /\ scanJob' = [scanJob EXCEPT ![s] = "error"]
  /\ UNCHANGED <<account, orphans, analysis, scanList, analyzeList, scanner, analyzer>>

DeleteAccount ==
  /\ account
  /\ account' = FALSE
  /\ scan' = [s \in Scans |-> IF scan[s] \in Active THEN "canceled" ELSE scan[s]]
  /\ UNCHANGED <<toPush, orphans, scanJob, analysis, scanList, analyzeList, scanner, analyzer, faults>>

\* Mutant: the sweep looks for scans without any job, whatever its status.
HasNoJob(s) ==
  /\ scan[s] \in Active
  /\ scanJob[s] = "none"
  /\ \A a \in Analyzers : analysis[s][a] = "none"

\* The second part of recoverStuckJobs reads the active scans without a queued
\* or running job, and then fails them one by one.
IsOrphan(s) ==
  /\ scan[s] \in Active
  /\ scanJob[s] \notin {"queued", "running"}
  /\ \A a \in Analyzers : analysis[s][a] \notin {"queued", "running"}

FindOrphanedScans ==
  /\ orphans = {}
  /\ orphans' = {s \in Scans : IsOrphan(s)}
  /\ orphans' # {}
  /\ UNCHANGED <<account, toPush, scan, scanJob, analysis, scanList, analyzeList, scanner, analyzer, faults>>

FailOrphanedScan(s) ==
  /\ s \in orphans
  /\ orphans' = orphans \ {s}
  /\ SetScan(s, "error")
  /\ UNCHANGED <<account, toPush, scanJob, analysis, scanList, analyzeList, scanner, analyzer>>

-----------------------------------------------------------------------------
(* The scanner: the handler of cmd/scanner/main.go, and ScanAccount.       *)

At(step) == pc = step
Goto(step) == pc' = step

\* Pop, and MarkRunning.
TakeScan ==
  /\ At("idle")
  /\ \E m \in scanList :
       /\ scanList' = scanList \ {m}
       /\ current' = m
       /\ SetScanJob(m.scan, "running")
  /\ Goto("check")
  /\ UNCHANGED <<api, scan, analysis, analyzeList, next, enqueued, analyzer>>

\* Accounts.Exists: a deleted account is skipped, and so is one the check fails
\* for; ScanAccount returns nil, and the handler goes on as after a scan.
CheckAccount ==
  /\ At("check")
  /\ \/ account /\ Goto("begin") /\ UNCHANGED faults
     \/ ~account /\ Goto("mark") /\ UNCHANGED faults
     \/ Fault /\ Goto("mark")
  /\ UNCHANGED <<api, scan, scanJob, analysis, scanList, analyzeList, current, next, enqueued, analyzer>>

\* GetByID, and the status "processing".
BeginScan ==
  /\ At("begin")
  /\ account
  /\ SetScan(current.scan, "processing")
  /\ Goto("assume")
  /\ UNCHANGED <<api, scanJob, analysis, scanList, analyzeList, current, next, enqueued, analyzer>>

\* GetByID finds no account any more, or the read fails.
AccountGone ==
  /\ At("begin")
  /\ \/ ~account /\ UNCHANGED faults
     \/ Fault
  /\ Goto("failed")
  /\ UNCHANGED <<api, scan, scanJob, analysis, scanList, analyzeList, current, next, enqueued, analyzer>>

\* The role can be assumed: the status "running".
AssumeRole ==
  /\ At("assume")
  /\ SetScan(current.scan, "running")
  /\ Goto("scan")
  /\ UNCHANGED <<api, scanJob, analysis, scanList, analyzeList, current, next, enqueued, analyzer>>

\* The role cannot be assumed, or the regions not be listed: handleScanError.
ScanFails ==
  /\ At("assume") \/ At("scan")
  /\ SetScan(current.scan, "error")
  /\ Goto("failed")
  /\ UNCHANGED <<api, scanJob, analysis, scanList, analyzeList, current, next, enqueued, analyzer>>

\* The regions are scanned: CompleteScanWithAccount.
FinishScan ==
  /\ At("scan")
  /\ \E status \in {"complete", "partial"} : SetScan(current.scan, status)
  /\ Goto("mark")
  /\ UNCHANGED <<api, scanJob, analysis, scanList, analyzeList, current, next, enqueued, analyzer>>

\* MarkComplete.
MarkScanJob ==
  /\ At("mark")
  /\ SetScanJob(current.scan, "complete")
  /\ Goto("pending")
  /\ UNCHANGED <<api, scan, analysis, scanList, analyzeList, current, next, enqueued, analyzer>>

\* The status "analyzing_pending"; the fan-out starts.
SetPending ==
  /\ At("pending")
  /\ SetScan(current.scan, "analyzing_pending")
  /\ Goto("create")
  /\ next' = 1
  /\ enqueued' = FALSE
  /\ UNCHANGED <<api, scanJob, analysis, scanList, analyzeList, current, analyzer>>

\* One turn of the fan-out: Jobs.Create, then Enqueue.  A row that is not
\* created is skipped; one whose push fails stays queued.
CreateAnalyzerJob ==
  /\ At("create")
  /\ next <= Len(analyzerTypes)
  /\ \/ /\ analysis' = [analysis EXCEPT ![current.scan][analyzerTypes[next]] = "queued"]
        /\ Goto("push")
        /\ UNCHANGED <<next, faults>>
     \/ Fault /\ next' = next + 1 /\ UNCHANGED <<analysis, pc>>
  /\ UNCHANGED <<api, scan, scanJob, scanList, analyzeList, current, enqueued, analyzer>>

\* Mutant: every turn pushes the first type.
PushFirstType ==
  /\ At("push")
  /\ next' = next + 1
  /\ Goto("create")
  /\ analyzeList' = analyzeList \cup
       {[scan |-> current.scan, type |-> analyzerTypes[1], retry |-> 0]}
  /\ enqueued' = TRUE
  /\ UNCHANGED <<api, scan, scanJob, analysis, scanList, current, analyzer, faults>>

PushAnalyzerJob ==
  /\ At("push")
  /\ next' = next + 1
  /\ Goto("create")
  /\ \/ /\ analyzeList' = analyzeList \cup
             {[scan |-> current.scan, type |-> analyzerTypes[next], retry |-> 0]}
        /\ enqueued' = TRUE
        /\ UNCHANGED faults
     \/ Fault /\ UNCHANGED <<analyzeList, enqueued>>
  /\ UNCHANGED <<api, scan, scanJob, analysis, scanList, current, analyzer>>

\* Mutant: the status "analyzing" is not written.
EndFanOutSilently ==
  /\ At("create")
  /\ next > Len(analyzerTypes)
  /\ Goto("idle")
  /\ current' = None
  /\ UNCHANGED <<api, scan, scanJob, analysis, scanList, analyzeList, next, enqueued, analyzer, faults>>

\* The end of the handler: the status "analyzing" when something was pushed.
EndFanOut ==
  /\ At("create")
  /\ next > Len(analyzerTypes)
  /\ IF enqueued THEN SetScan(current.scan, "analyzing") ELSE UNCHANGED <<scan, faults>>
  /\ Goto("idle")
  /\ current' = None
  /\ UNCHANGED <<api, scanJob, analysis, scanList, analyzeList, next, enqueued, analyzer>>

\* ScanAccount has returned an error: MarkError.
MarkScanError ==
  /\ At("failed")
  /\ SetScanJob(current.scan, "error")
  /\ Goto("requeue")
  /\ UNCHANGED <<api, scan, analysis, scanList, analyzeList, current, next, enqueued, analyzer>>

\* The queue: the message is pushed back, or the push fails.
RetryScan ==
  /\ At("requeue")
  /\ current.retry < maxRetries
  /\ \/ /\ scanList' = scanList \cup {[current EXCEPT !.retry = @ + 1]}
        /\ UNCHANGED faults
     \/ Fault /\ UNCHANGED scanList
  /\ Goto("idle")
  /\ current' = None
  /\ UNCHANGED <<api, scan, scanJob, analysis, analyzeList, next, enqueued, analyzer>>

\* The dead-letter handler: FailJobWithScan.
DeadLetterScan ==
  /\ At("requeue")
  /\ current.retry >= maxRetries
  /\ \/ /\ scan' = [scan EXCEPT ![current.scan] = "error"]
        /\ scanJob' = [scanJob EXCEPT ![current.scan] = "error"]
        /\ UNCHANGED faults
     \/ Fault /\ UNCHANGED <<scan, scanJob>>
  /\ Goto("idle")
  /\ current' = None
  /\ UNCHANGED <<api, analysis, scanList, analyzeList, next, enqueued, analyzer>>

\* The process dies, or the scan's deadline passes and every later call of the
\* handler fails with its context.
ScannerStops ==
  /\ ~At("idle")
  /\ Fault
  /\ Goto("idle")
  /\ current' = None
  /\ UNCHANGED <<api, scan, scanJob, analysis, scanList, analyzeList, next, enqueued, analyzer>>

-----------------------------------------------------------------------------
(* The analyzer: HandleJob.                                                *)

SetAnalysis(status) ==
  analysis' = [analysis EXCEPT ![working.scan][working.type] = status]

\* Pop, and MarkRunning.
TakeAnalysis ==
  /\ working = None
  /\ \E m \in analyzeList :
       /\ analyzeList' = analyzeList \ {m}
       /\ working' = m
       /\ tries' = [tries EXCEPT ![m.scan][m.type] = @ + 1]
       /\ \/ /\ analysis' = [analysis EXCEPT ![m.scan][m.type] = "running"]
             /\ UNCHANGED faults
          \/ Fault /\ UNCHANGED analysis
  /\ UNCHANGED <<api, scan, scanJob, scanList, scanner>>

\* CompleteAnalyzerJob and FailAnalyzerJob: the job gets its status, and when no
\* analyzer job of the scan is left, the scan is complete.
EndAnalysis(status) ==
  /\ SetAnalysis(status)
  /\ scan' =
       IF \A a \in Analyzers : analysis'[working.scan][a] \notin {"queued", "running"}
       THEN [scan EXCEPT ![working.scan] = "complete"]
       ELSE scan

\* The transaction may fail: the handler goes on as if it had not.
EndAnalysisOrNot(status) ==
  \/ EndAnalysis(status) /\ UNCHANGED faults
  \/ Fault /\ UNCHANGED <<analysis, scan>>

AnalysisSucceeds ==
  /\ working # None
  /\ EndAnalysisOrNot("complete")
  /\ working' = None
  /\ UNCHANGED <<api, scanJob, scanList, analyzeList, scanner, tries>>

\* Failed, with retries left: the queue pushes the message back.
AnalysisRetried ==
  /\ working # None
  /\ working.retry < maxRetries
  /\ EndAnalysisOrNot("error")
  /\ analyzeList' = analyzeList \cup {[working EXCEPT !.retry = @ + 1]}
  /\ working' = None
  /\ UNCHANGED <<api, scanJob, scanList, scanner, tries>>

\* The push of the retry fails.
AnalysisRetryLost ==
  /\ working # None
  /\ working.retry < maxRetries
  /\ EndAnalysis("error")
  /\ Fault
  /\ working' = None
  /\ UNCHANGED <<api, scanJob, scanList, analyzeList, scanner, tries>>

\* Failed for the last time; the dead-letter handler leaves scan and job alone.
AnalysisDeadLettered ==
  /\ working # None
  /\ working.retry >= maxRetries
  /\ EndAnalysisOrNot("error")
  /\ working' = None
  /\ UNCHANGED <<api, scanJob, scanList, analyzeList, scanner, tries>>

AnalyzerStops ==
  /\ working # None
  /\ Fault
  /\ working' = None
  /\ UNCHANGED <<api, scan, scanJob, analysis, scanList, analyzeList, scanner, tries>>

-----------------------------------------------------------------------------
ScannerSteps ==
  \/ CheckAccount \/ BeginScan \/ AccountGone \/ AssumeRole \/ ScanFails
  \/ FinishScan \/ MarkScanJob \/ SetPending \/ CreateAnalyzerJob
  \/ PushAnalyzerJob \/ EndFanOut \/ MarkScanError \/ RetryScan \/ DeadLetterScan

AnalysisEnds ==
  AnalysisSucceeds \/ AnalysisRetried \/ AnalysisRetryLost \/ AnalysisDeadLettered

Next ==
  \/ \E s \in Scans :
       EnqueueScan(s) \/ PushScan(s) \/ PushScanFails(s) \/ FailOrphanedScan(s)
  \/ DeleteAccount \/ FindOrphanedScans
  \/ TakeScan \/ ScannerSteps \/ ScannerStops
  \/ TakeAnalysis \/ AnalysisEnds \/ AnalyzerStops

Spec == Init /\ [][Next]_vars

(* The API finishes the request it has begun, both workers take what waits *)
(* and end what they hold, and the operator's cron runs the sweep.         *)
FairSpec ==
  /\ Spec
  /\ \A s \in Scans : WF_vars(PushScan(s) \/ PushScanFails(s))
  /\ WF_vars(TakeScan)
  /\ WF_vars(ScannerSteps)
  /\ WF_vars(TakeAnalysis)
  /\ WF_vars(AnalysisEnds)
  /\ WF_vars(FindOrphanedScans)
  /\ \A s \in Scans : WF_vars(FailOrphanedScan(s))

-----------------------------------------------------------------------------
(* Properties.                                                             *)

\* What still works for a scan, or for one of its analyzer jobs.
ScanCarried(s) ==
  \/ s \in toPush
  \/ \E m \in scanList : m.scan = s
  \/ current # None /\ current.scan = s
AnalysisCarried(s, a) ==
  \/ \E m \in analyzeList : m.scan = s /\ m.type = a
  \/ working # None /\ working.scan = s /\ working.type = a
  \/ At("push") /\ current.scan = s /\ analyzerTypes[next] = a

\* Without a crash or a failed write nothing is stranded: a scan that is shown as
\* queued or being scanned has a message or a handler that will move it on, and
\* so has every unfinished analyzer job (main.go 173-327, redis.go 185-208).
NothingStranded ==
  faults = 0 =>
    \A s \in Scans :
      /\ scan[s] \in {"queued", "processing", "running"} => ScanCarried(s)
      /\ \A a \in Analyzers :
           analysis[s][a] \in {"queued", "running"} => AnalysisCarried(s, a)

\* An analyzer may complete the scan too early, while the fan-out still creates
\* jobs; the status "analyzing" that ends the fan-out then repairs that.  So once
\* the scanner is done with a complete scan, every analyzer has had its turn.
CompleteIsAnalysed ==
  faults = 0 =>
    \A s \in Scans :
      scan[s] = "complete" /\ ~ScanCarried(s) =>
        \A a \in Analyzers : tries[s][a] > 0

\* A scan whose job has failed, or waits for another attempt, is not analysed: the
\* fan-out comes after the last point of failure, and it takes two failed writes
\* (MarkRunning and MarkComplete) to make the job look otherwise.
FailedScanNotAnalysed ==
  faults < 2 =>
    \A s \in Scans :
      (\E a \in Analyzers : analysis[s][a] # "none") =>
        scanJob[s] \in {"running", "complete"}

\* Without faults every scan leaves the active statuses for good, whatever
\* fails in AWS and whenever the account is deleted: the sweep ends the scans
\* that the late status "analyzing" would leave active for ever.
EveryScanEnds ==
  \A s \in Scans : <>[](scan[s] \notin Active \/ faults > 0)

=============================================================================
