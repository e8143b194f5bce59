---------------------------- MODULE ScanResults ----------------------------
(***************************************************************************)
(* What the scans of one account leave behind: its resources with their    *)
(* scan history, and the findings about them.                              *)
(*   - The scanner stores the resources AWS reports, and then the history: *)
(*     what was found, what is gone since the previous scan, and what is   *)
(*     deleted because it stayed away (scanner.go, resource_scans.go).     *)
(*   - The analyzers read all stored resources, write findings, and the    *)
(*     one that ends the scan resolves what nobody detected any more       *)
(*     (orchestrator.go, findings.go).                                     *)
(*   - A user opens, resolves, snoozes and ignores findings meanwhile      *)
(*     (findingService.ts).                                                *)
(* All of these are statements of their own, and a scan may be requested   *)
(* while the analyzers of the one before have not started: its status is   *)
(* "complete" for a moment.                                                *)
(*                                                                         *)
(* How scans and jobs get their statuses, and what happens when such a     *)
(* write fails, is in ScanPipeline, how messages are lost and found again  *)
(* in JobQueue and JobRecovery.  Here a scan either gets as far as its     *)
(* results or its message is lost, and the writes that fail are those of   *)
(* the results.                                                            *)
(***************************************************************************)
EXTENDS Integers, Sequences, FiniteSets

CONSTANTS Resources,
          Findings,              \* pairs of a resource and the analyzer type
          analyzerTypes,         \* the job types, in the order of the lists
          minScansForDeletion,
          maxRetries,
          User,                  \* who else changes a finding
          None,
          MaxScans,              \* BOUND on scans
          MaxFaults              \* BOUND on crashes and failed writes

Scans == 1 .. MaxScans
Analyzers == {analyzerTypes[i] : i \in DOMAIN analyzerTypes}
Messages == [scan : Scans, retry : 0 .. maxRetries]

ScanStatuses ==
  {"none", "queued", "scanning", "complete", "analyzing_pending", "analyzing", "error"}
JobStatuses == {"none", "queued", "running", "complete", "error"}
\* What the history says of a resource, and a row of findings.  "ignored" is
\* treated like "snoozed" everywhere, and stands with it here.
Sightings == {"new", "updated", "removed"}
Statuses == {"open", "resolved", "snoozed"}
FindingRows == [status : Statuses, last : Scans, by : Scans \cup {User, None}]

ASSUME ResultsAssumption ==
  /\ Findings \subseteq Resources \X Analyzers
  /\ analyzerTypes \in Seq(Analyzers)
  /\ \A i, j \in DOMAIN analyzerTypes : analyzerTypes[i] = analyzerTypes[j] => i = j
  /\ minScansForDeletion \in Nat \ {0}
  /\ {maxRetries, MaxScans, MaxFaults} \subseteq Nat
  /\ User \notin Scans
  /\ None \notin Scans \cup {User} \cup Messages \cup (Messages \X Analyzers)
  /\ None \notin Sightings \cup FindingRows

VARIABLES
  rows,       \* the resources the table holds
  record,     \* record[s][r]: resource_scans, None without a row
  scan,       \* scan[s]: scans.status
  completedAt, \* completedAt[s]: scans.completed_at, 0 for NULL
  clock,      \* the time; it goes on when another scan is completed than the last one
  requests,   \* the scanner's list: a scan, or None for a recovered message
  pc,         \* where the scanner is
  current,    \* the scan it works for
  known,      \* its message named the scan (job.ScanID is not empty)
  toStore,    \* what AWS has reported and is not stored yet
  found,      \* foundResourceIDs
  fresh,      \* those of them that were new
  next,       \* the fan-out: index of the next type
  job,        \* job[s][a]: status of the analyzer jobs
  list,       \* list[a]: messages of one type, oldest first
  working,    \* the message the analyzer handles, and its type
  step,       \* where the analyzer is
  toPersist,  \* what it has detected and not written yet
  persisted,  \* findingScanRecords
  detections, \* detections[s]: finding_scans
  finding,    \* finding[f]: None, or status, last_scan_id and who has set the
              \* status: a user, the scan that resolved it, None when detected
  lost,       \* messages of the scanner that a crash has lost, as in requests
  early,      \* history: scans requested before the previous one was analysed
  faults      \* history: crashes and failed writes so far

resourceVars == <<rows, record>>
scannerVars == <<pc, current, known, toStore, found, fresh, next>>
analyzerVars == <<working, step, toPersist, persisted>>
findingVars == <<detections, finding>>
completions == <<completedAt, clock>>
vars == <<resourceVars, scan, completions, requests, scannerVars, job, list, analyzerVars,
          findingVars, lost, early, faults>>

TypeOK ==
  /\ rows \subseteq Resources
  /\ record \in [Scans -> [Resources -> Sightings \cup {None}]]
  /\ scan \in [Scans -> ScanStatuses]
  /\ completedAt \in [Scans -> Nat]
  /\ clock \in Nat \ {0}
  /\ requests \in Seq(Scans \cup {None})
  /\ pc \in {"idle", "store", "record", "delete", "complete", "pending", "fan out"}
  /\ current \in Scans \cup {None}
  /\ known \in BOOLEAN
  /\ toStore \subseteq Resources
  /\ found \subseteq Resources
  /\ fresh \subseteq found
  /\ next \in 1 .. Len(analyzerTypes) + 1
  /\ job \in [Scans -> [Analyzers -> JobStatuses]]
  /\ list \in [Analyzers -> Seq(Messages)]
  /\ working \in (Messages \X Analyzers) \cup {None}
  /\ step \in {"idle", "persist", "end", "resolve"}
  /\ toPersist \subseteq Findings
  /\ persisted \subseteq Findings
  /\ detections \in [Scans -> SUBSET Findings]
  /\ finding \in [Findings -> FindingRows \cup {None}]
  /\ lost \subseteq Scans \cup {None}
  /\ early \subseteq Scans
  /\ faults \in 0 .. MaxFaults

Init ==
  /\ rows = {}
  /\ record = [s \in Scans |-> [r \in Resources |-> None]]
  /\ scan = [s \in Scans |-> "none"]
  /\ completedAt = [s \in Scans |-> 0]
  /\ clock = 1
  /\ requests = <<>>
  /\ pc = "idle"
  /\ current = None
  /\ known = TRUE
  /\ toStore = {}
  /\ found = {}
  /\ fresh = {}
  /\ next = 1
  /\ job = [s \in Scans |-> [a \in Analyzers |-> "none"]]
  /\ list = [a \in Analyzers |-> <<>>]
  /\ working = None
  /\ step = "idle"
  /\ toPersist = {}
  /\ persisted = {}
  /\ detections = [s \in Scans |-> {}]
  /\ finding = [f \in Findings |-> None]
  /\ lost = {}
  /\ early = {}
  /\ faults = 0

Fault == faults < MaxFaults /\ faults' = faults + 1

\* The call succeeds and does what the action says, or it fails, is logged, and
\* the handler goes on.
Write(action, unchanged) ==
  \/ action /\ UNCHANGED faults
  \/ Fault /\ UNCHANGED unchanged

-----------------------------------------------------------------------------
(* Requests, and the recovery of lost messages.                            *)

Active == {"queued", "scanning", "analyzing"}
Unanalysed == {"queued", "running"}

\* Somebody still works for s, or will.
InProgress(s) ==
  \/ scan[s] \in Active \cup {"analyzing_pending"}
  \/ \E a \in Analyzers : job[s][a] \in Unanalysed
  \/ s = current
  \/ working # None /\ working[1].scan = s

Unused == {s \in Scans : scan[s] = "none"}

\* A new row of scans.  history: is it early?
NewScan(s, status) ==
  /\ \A t \in Unused : s <= t
  /\ scan' = [scan EXCEPT ![s] = status]
  /\ early' = IF \E t \in Scans : InProgress(t) THEN early \cup {s} ELSE early

\* enqueueScan: no scan of the account is active.
RequestScan ==
  /\ Unused # {}
  /\ \A t \in Scans : scan[t] \notin Active
  /\ \E s \in Unused :
       /\ NewScan(s, "queued")
       /\ requests' = Append(requests, s)
  /\ UNCHANGED <<resourceVars, completions, scannerVars, job, list, analyzerVars, findingVars,
                 lost, faults>>

\* The scan whose message is lost is found by its job.  The payload the API
\* has stored with the job does not name the scan.
RecoverScan ==
  /\ \E s \in lost : lost' = lost \ {s}
  /\ requests' = Append(requests, None)
  /\ UNCHANGED <<resourceVars, scan, completions, scannerVars, job, list, analyzerVars, findingVars,
                 early, faults>>

\* The sweep of the API fails an active scan without a queued or running job.
FailOrphanedScan ==
  /\ \E s \in Scans \ lost :
       /\ scan[s] \in Active \ {"queued"}
       /\ s # current
       /\ \A a \in Analyzers : job[s][a] \notin Unanalysed
       /\ scan' = [scan EXCEPT ![s] = "error"]
  /\ UNCHANGED <<resourceVars, completions, requests, scannerVars, job, list, analyzerVars,
                 findingVars, lost, early, faults>>

-----------------------------------------------------------------------------
(* The scanner.                                                            *)

At(place) == pc = place
Goto(place) == pc' = place

\* The scans the history counts.
Ended == {s \in Scans : scan[s] = "complete"}

\* Those that were completed after s.
Later(s, S) == {t \in S : completedAt[t] > completedAt[s]}

\* ScanAccount, up to what the regions report: the scan the message names, or a
\* new row for a message that names none.
TakeScan ==
  /\ At("idle")
  /\ requests # <<>>
  /\ requests' = Tail(requests)
  /\ known' = (Head(requests) # None)
  /\ \/ /\ Head(requests) # None
        /\ current' = Head(requests)
        /\ scan' = [scan EXCEPT ![Head(requests)] = "scanning"]
        /\ UNCHANGED early
     \/ /\ Head(requests) = None
        /\ \E s \in Unused : NewScan(s, "scanning") /\ current' = s
  /\ toStore' \in SUBSET Resources
  /\ found' = {}
  /\ fresh' = {}
  /\ Goto("store")
  /\ UNCHANGED <<resourceVars, completions, next, job, list, analyzerVars, findingVars, lost, faults>>

\* The statement inserts the row, or finds it there and updates it.
UpsertWithStatus(r) ==
  /\ rows' = rows \cup {r}
  /\ fresh' = IF r \in rows THEN fresh ELSE fresh \cup {r}

\* One turn of the fan-in; a resource that cannot be stored is skipped.
UpsertResource ==
  /\ At("store")
  /\ \E r \in toStore :
       /\ toStore' = toStore \ {r}
       /\ Write(UpsertWithStatus(r) /\ found' = found \cup {r}, <<rows, found, fresh>>)
  /\ UNCHANGED <<record, scan, completions, requests, pc, current, known, next, job, list,
                 analyzerVars, findingVars, lost, early>>

\* Mutant: the one before that.
LastButOne == {s \in Ended \ {current} : Cardinality(Later(s, Ended \ {current})) = 1}

\* The scan before: of the others that count, the one that was completed last.
Previous == {s \in Ended \ {current} : Later(s, Ended \ {current}) = {}}

\* MarkRemovedResources: what the previous scan had, and this one has not.
MarkRemovedResources ==
  /\ At("store")
  /\ toStore = {}
  /\ Goto("record")
  /\ LET gone == {r \in rows \ found : /\ \E s \in Previous : record[s][r] \in {"new", "updated"}
                                      /\ record[current][r] = None} IN
       Write(record' = [record EXCEPT ![current] =
                          [r \in Resources |-> IF r \in gone THEN "removed" ELSE @[r]]],
             record)
  /\ UNCHANGED <<rows, scan, completions, requests, current, known, toStore, found, fresh, next,
                 job, list, analyzerVars, findingVars, lost, early>>

\* BulkUpsert, one transaction; the rows are those UpsertWithStatus returned.
RecordScan ==
  /\ At("record")
  /\ Goto("delete")
  /\ Write(record' = [record EXCEPT ![current] = [r \in Resources |->
                        IF r \in fresh THEN "new" ELSE IF r \in found THEN "updated" ELSE @[r]]],
           record)
  /\ UNCHANGED <<rows, scan, completions, requests, current, known, toStore, found, fresh, next,
                 job, list, analyzerVars, findingVars, lost, early>>

\* DeleteStaleResources, before this scan is complete itself.  The history of a
\* deleted resource goes with it; its findings lose it and are matched no more,
\* so they leave the model.
DeleteStaleResources ==
  /\ At("delete")
  /\ Goto("complete")
  /\ LET recent == {s \in Ended : Cardinality(Later(s, Ended)) < minScansForDeletion}
         stale == {r \in Resources : /\ Cardinality(Ended) >= minScansForDeletion
                                     /\ \A s \in recent : record[s][r] = "removed"} IN
       Write(/\ rows' = rows \ stale
             /\ record' = [s \in Scans |->
                             [r \in Resources |-> IF r \in stale THEN None ELSE record[s][r]]]
             /\ finding' = [f \in Findings |-> IF f[1] \in stale THEN None ELSE finding[f]],
             <<rows, record, finding>>)
  /\ UNCHANGED <<scan, completions, requests, current, known, toStore, found, fresh, next, job, list,
                 analyzerVars, detections, lost, early>>

\* A scan gets its status "complete", and a new completed_at.  Only the order of
\* these times counts.
Finish(s) ==
  /\ scan' = [scan EXCEPT ![s] = "complete"]
  /\ clock' = IF completedAt[s] = clock THEN clock ELSE clock + 1
  /\ completedAt' = [completedAt EXCEPT ![s] = clock']

\* CompleteScanWithAccount, and the end of ScanAccount.
CompleteScan ==
  /\ At("complete")
  /\ Finish(current)
  /\ Goto("pending")
  /\ toStore' = {}
  /\ found' = {}
  /\ fresh' = {}
  /\ UNCHANGED <<resourceVars, requests, current, known, next, job, list, analyzerVars,
                 findingVars, lost, early, faults>>

\* The handler has ended; its variables are gone.
Release ==
  /\ Goto("idle")
  /\ current' = None
  /\ known' = TRUE
  /\ next' = 1

\* The status "analyzing_pending", for a scan the message has named.  The jobs
\* of one it has not named carry an empty scan_id: they can write no finding,
\* count for no scan and resolve nothing, and are left out here.
StartFanOut ==
  /\ At("pending")
  /\ \/ /\ known
        /\ Goto("fan out")
        /\ scan' = [scan EXCEPT ![current] = "analyzing_pending"]
        /\ UNCHANGED <<current, known, next>>
     \/ /\ ~known
        /\ Release
        /\ UNCHANGED scan
  /\ UNCHANGED <<resourceVars, completions, requests, toStore, found, fresh, job, list,
                 analyzerVars, findingVars, lost, early, faults>>

\* One turn of the fan-out: a row and its message.
CreateAnalyzerJob ==
  /\ At("fan out")
  /\ next <= Len(analyzerTypes)
  /\ LET a == analyzerTypes[next] IN
       /\ job' = [job EXCEPT ![current][a] = "queued"]
       /\ list' = [list EXCEPT ![a] = Append(@, [scan |-> current, retry |-> 0])]
  /\ next' = next + 1
  /\ UNCHANGED <<resourceVars, scan, completions, requests, pc, current, known, toStore, found, fresh,
                 analyzerVars, findingVars, lost, early, faults>>

\* The status "analyzing".
EndFanOut ==
  /\ At("fan out")
  /\ next > Len(analyzerTypes)
  /\ scan' = [scan EXCEPT ![current] = "analyzing"]
  /\ Release
  /\ UNCHANGED <<resourceVars, completions, requests, toStore, found, fresh, job, list,
                 analyzerVars, findingVars, lost, early, faults>>

\* The process dies; in the fan-out, the job of the scan is complete.
ScannerStops ==
  /\ ~At("idle")
  /\ Fault
  /\ Release
  /\ lost' = IF At("fan out") THEN lost ELSE lost \cup {IF known THEN current ELSE None}
  /\ toStore' = {}
  /\ found' = {}
  /\ fresh' = {}
  /\ UNCHANGED <<resourceVars, scan, completions, requests, job, list, analyzerVars,
                 findingVars, early>>

-----------------------------------------------------------------------------
(* The analyzer: HandleJob.                                                *)

Here(place) == step = place
Scan == working[1].scan
Type == working[2]

\* BLPOP looks at the lists in the order of the types.
First(i) ==
  /\ list[analyzerTypes[i]] # <<>>
  /\ \A k \in 1 .. i - 1 : list[analyzerTypes[k]] = <<>>

\* MarkRunning, and Analyze, which reads all stored resources of the account,
\* whenever they were seen last.
TakeAnalysis ==
  /\ Here("idle")
  /\ \E i \in DOMAIN analyzerTypes :
       LET a == analyzerTypes[i]
           m == Head(list[a]) IN
       /\ First(i)
       /\ list' = [list EXCEPT ![a] = Tail(@)]
       /\ working' = <<m, a>>
       /\ job' = [job EXCEPT ![m.scan][a] = "running"]
       /\ toPersist' \in SUBSET {f \in Findings : f[1] \in rows /\ f[2] = a}
  /\ step' = "persist"
  /\ UNCHANGED <<resourceVars, scan, completions, requests, scannerVars, persisted, findingVars,
                 lost, early, faults>>

\* Mutant: what the user has decided is opened again.
DetectedOpens(f) == [status |-> "open", last |-> Scan, by |-> None]

\* UpsertWithHistory: a new row, or the scan that saw it last and, when it was
\* resolved, open again.
Detected(f) ==
  IF finding[f] = None \/ finding[f].status = "resolved"
  THEN [status |-> "open", last |-> Scan, by |-> None]
  ELSE [finding[f] EXCEPT !.last = Scan]

PersistFinding ==
  /\ Here("persist")
  /\ \E f \in toPersist :
       /\ toPersist' = toPersist \ {f}
       /\ Write(/\ finding' = [finding EXCEPT ![f] = Detected(f)]
                /\ persisted' = persisted \cup {f},
                <<finding, persisted>>)
  /\ UNCHANGED <<resourceVars, scan, completions, requests, scannerVars, job, list, working, step,
                 detections, lost, early>>

\* FindingScans.BulkUpsert.
RecordDetections ==
  /\ Here("persist")
  /\ toPersist = {}
  /\ step' = "end"
  /\ Write(detections' = [detections EXCEPT ![Scan] = @ \cup persisted], detections)
  /\ persisted' = {}
  /\ UNCHANGED <<resourceVars, scan, completions, requests, scannerVars, job, list, working,
                 toPersist, finding, lost, early>>

\* The transaction of CompleteAnalyzerJob and of FailAnalyzerJob.
Last == \A a \in Analyzers \ {Type} : job[Scan][a] \notin Unanalysed
EndJob(status) ==
  /\ job' = [job EXCEPT ![Scan][Type] = status]
  /\ IF Last THEN Finish(Scan) ELSE UNCHANGED <<scan, completions>>

\* Only who has completed the scan goes on.
CompleteAnalyzerJob ==
  /\ Here("end")
  /\ EndJob("complete")
  /\ IF Last THEN step' = "resolve" /\ UNCHANGED working
     ELSE step' = "idle" /\ working' = None
  /\ UNCHANGED <<resourceVars, requests, scannerVars, list, toPersist, persisted, findingVars,
                 lost, early, faults>>

\* Mutants: what this scan has seen is resolved as well; the finding itself is
\* looked for in finding_scans, not its type.
ResolvedBySeen(s) ==
  {f \in Findings : /\ finding[f] # None
                    /\ finding[f].status = "open"
                    /\ \E g \in detections[s] : g[2] = f[2]}

ResolvedByItself(s) ==
  {f \in Findings : /\ finding[f] # None
                    /\ finding[f].status = "open"
                    /\ finding[f].last # s
                    /\ f \in detections[s]}

\* AutoResolveByScanID: open, last seen by another scan, and of a type this scan
\* has detected something of.
ResolvedBy(s) ==
  {f \in Findings : /\ finding[f] # None
                    /\ finding[f].status = "open"
                    /\ finding[f].last # s
                    /\ \E g \in detections[s] : g[2] = f[2]}

AutoResolve ==
  /\ Here("resolve")
  /\ step' = "idle"
  /\ working' = None
  /\ Write(finding' = [f \in Findings |->
                         IF f \in ResolvedBy(Scan)
                         THEN [finding[f] EXCEPT !.status = "resolved", !.by = Scan]
                         ELSE finding[f]],
           finding)
  /\ UNCHANGED <<resourceVars, scan, completions, requests, scannerVars, job, list, toPersist,
                 persisted, detections, lost, early>>

\* Analyze has failed and returned nothing: FailAnalyzerJob, and the queue tries again or gives up.
AnalysisFails ==
  /\ Here("persist")
  /\ persisted = {}
  /\ Fault
  /\ EndJob("error")
  /\ list' = IF working[1].retry < maxRetries
             THEN [list EXCEPT ![Type] = Append(@, [working[1] EXCEPT !.retry = @ + 1])]
             ELSE list
  /\ step' = "idle"
  /\ working' = None
  /\ toPersist' = {}
  /\ UNCHANGED <<resourceVars, requests, scannerVars, persisted, findingVars, lost, early>>

\* The process dies, and recovery posts the message again unless the job was
\* complete.
AnalyzerStops ==
  /\ ~Here("idle")
  /\ Fault
  /\ list' = IF Here("resolve") THEN list
             ELSE [list EXCEPT ![Type] = Append(@, [working[1] EXCEPT !.retry = 0])]
  /\ step' = "idle"
  /\ working' = None
  /\ toPersist' = {}
  /\ persisted' = {}
  /\ UNCHANGED <<resourceVars, scan, completions, requests, scannerVars, job, findingVars, lost,
                 early>>

-----------------------------------------------------------------------------

\* updateFinding and bulkUpdateStatus: whatever the status was.
UpdateFinding ==
  /\ \E f \in Findings, status \in Statuses :
       /\ finding[f] # None
       /\ finding' = [finding EXCEPT ![f].status = status, ![f].by = User]
  /\ UNCHANGED <<resourceVars, scan, completions, requests, scannerVars, job, list, analyzerVars,
                 detections, lost, early, faults>>

Next ==
  \/ RequestScan
  \/ RecoverScan
  \/ FailOrphanedScan
  \/ TakeScan
  \/ UpsertResource
  \/ MarkRemovedResources
  \/ RecordScan
  \/ DeleteStaleResources
  \/ CompleteScan
  \/ StartFanOut
  \/ CreateAnalyzerJob
  \/ EndFanOut
  \/ ScannerStops
  \/ TakeAnalysis
  \/ PersistFinding
  \/ RecordDetections
  \/ CompleteAnalyzerJob
  \/ AutoResolve
  \/ AnalysisFails
  \/ AnalyzerStops
  \/ UpdateFinding

Spec == Init /\ [][Next]_vars

-----------------------------------------------------------------------------
(* Properties.                                                             *)

\* The analyzers never resolve what the newest look at the account has seen: a
\* finding that a scan has resolved was detected neither by that scan nor by a
\* later one, unless a scan that overlapped has detected it or something failed
\* (UpsertWithHistory, AutoResolveByScanID).
SeenStaysOpen ==
  faults = 0 =>
    \A f \in Findings :
      finding[f] # None /\ finding[f].by \in Scans
        => \A s \in finding[f].by .. MaxScans : f \in detections[s] =>
             \E e \in early : e >= s /\ f \in detections[e]

\* When the newest scan is analysed and nothing is going on, every finding that
\* is open, and that no user has touched since, was seen by that scan, or is of
\* a type of which that scan has seen nothing (UpsertWithHistory, then
\* finding_scans, then AutoResolveByScanID).
OpenMeansSeen ==
  \A s \in Scans :
    /\ faults = 0
    /\ s \notin early
    /\ scan[s] = "complete"
    /\ \A t \in Scans : ~InProgress(t) /\ (scan[t] # "none" => t <= s)
    => \A f \in Findings :
         finding[f] # None /\ finding[f].status = "open" /\ finding[f].by = None
           => \/ finding[f].last = s
              \/ \A g \in detections[s] : g[2] # f[2]

\* What a user has put to sleep or ruled out stays so until a user changes it,
\* however often scans detect it again or miss it (UpsertWithHistory,
\* AutoResolveByScanID).
UserDecisionStands ==
  [][\A f \in Findings :
       /\ finding[f] # None /\ finding'[f] # None
       /\ finding[f].status = "snoozed"
       => finding'[f].status = finding[f].status \/ finding'[f].by = User]_vars

\* A scan that was requested when the one before was analysed has a record of
\* every resource that one has found: found again, or removed
\* (MarkRemovedResources, BulkUpsert).
NothingForgotten ==
  \A s \in Scans \ (early \cup {1}), r \in Resources :
    faults = 0 /\ scan[s - 1] = "complete" /\ scan[s] = "complete"
      => (record[s - 1][r] \in {"new", "updated"} => record[s][r] # None)
=============================================================================
