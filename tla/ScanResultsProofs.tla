------------------------- MODULE ScanResultsProofs -------------------------
(***************************************************************************)
(* Proofs about ScanResults, for every set of resources and findings, any  *)
(* number of scans and of analyzer types, and any limit.                   *)
(***************************************************************************)
EXTENDS ScanResults, TLAPS

-----------------------------------------------------------------------------
(* Types.                                                                  *)

\* Who works holds something, and what belongs to a step is gone with it.
InHand ==
  /\ pc = "idle" <=> current = None
  /\ step = "idle" <=> working = None
  /\ step # "persist" => persisted = {}
  /\ pc # "fan out" => next = 1

Typed == TypeOK /\ InHand

-----------------------------------------------------------------------------
(* What holds whatever fails.                                              *)

\* A resource with a history is stored, and so is what the scanner has found.
HistoryOfRows ==
  /\ \A s \in Scans, r \in Resources : record[s][r] # None => r \in rows
  /\ pc \in {"store", "record"} => found \subseteq rows

\* Only scans resolve in the name of a scan.
ByScanIsResolved ==
  \A f \in Findings :
    finding[f] # None /\ finding[f].by \in Scans => finding[f].status = "resolved"

\* What the analyzer has just written is its own: no scan has resolved it since.
PersistedIsOwn ==
  \A f \in persisted :
    finding[f] # None => finding[f].last = Scan /\ finding[f].by \notin Scans

-----------------------------------------------------------------------------
(* As long as nothing fails: the scans, one after the other.               *)

Begun(s) == scan[s] \notin {"none", "queued"}

ScansInTurn ==
  /\ known
  /\ lost = {}
  /\ Len(requests) <= 1
  /\ requests # <<>> => /\ Head(requests) \in Scans
                        /\ scan[Head(requests)] = "queued"
                        /\ \A t \in Scans : scan[t] # "none" => t <= Head(requests)
  /\ \A s, t \in Scans : s < t /\ scan[t] # "none" => scan[s] # "none"
  /\ current # None => /\ Begun(current)
                       /\ \A t \in Scans : t > current => ~Begun(t)

\* The jobs of a scan come into being one after the other, while it is current.
JobsOfScans ==
  /\ \A s \in Scans, a \in Analyzers :
       job[s][a] # "none" => Begun(s)
  /\ \A s \in Scans, a \in Analyzers :
       Begun(s) /\ s # current => job[s][a] # "none"
  /\ current # None =>
       \A i \in DOMAIN analyzerTypes :
         job[current][analyzerTypes[i]] = "none" <=> i >= next

\* A queued job has its message in the list, a running one the analyzer; the
\* lists are in the order of the scans.
JobsAndMessages ==
  /\ \A a \in Analyzers : \A i \in 1 .. Len(list[a]) :
       job[list[a][i].scan][a] = "queued"
  /\ \A a \in Analyzers : \A i, j \in 1 .. Len(list[a]) :
       i < j => list[a][i].scan < list[a][j].scan
  /\ \A s \in Scans, a \in Analyzers :
       job[s][a] = "queued" => \E i \in 1 .. Len(list[a]) : list[a][i].scan = s
  /\ working # None =>
       job[Scan][Type] = IF step = "resolve" THEN "complete" ELSE "running"
  /\ \A s \in Scans, a \in Analyzers :
       job[s][a] = "running" => working # None /\ s = Scan /\ a = Type

\* What an older scan waits for, a newer one has not done.
OlderFirst ==
  \A s, t \in Scans, a \in Analyzers :
    s < t /\ job[s][a] \in Unanalysed => job[t][a] \in {"none", "queued"}

Turns == ScansInTurn /\ JobsOfScans /\ JobsAndMessages /\ OlderFirst

\* A scan that is not early began when nobody worked for an older one any more,
\* and nobody ever does again.
EarlyOverlap ==
  \A s, t \in Scans :
    s < t /\ scan[t] # "none" /\ t \notin early => ~InProgress(s)

-----------------------------------------------------------------------------
(* As long as nothing fails: findings and detections.                      *)

Detections ==
  /\ \A f \in Findings :
       finding[f] # None => f \in detections[finding[f].last] \cup persisted
  /\ \A s \in Scans : detections[s] # {} => Begun(s)
  /\ \A f \in Findings, s \in Scans :
       finding[f] # None /\ f \in detections[s] /\ finding[f].last < s => s \in early

\* What a scan has missed stays open only until its analyzers are done.
MissedUntilAnalysed ==
  \A f \in Findings, g \in Findings, s \in Scans \ early :
    /\ finding[f] # None /\ finding[f].status = "open" /\ finding[f].by = None
    /\ finding[f].last < s
    /\ g \in detections[s] /\ g[2] = f[2]
    => \/ \E a \in Analyzers : job[s][a] \in Unanalysed
       \/ working # None /\ Scan = s

-----------------------------------------------------------------------------
(* As long as nothing fails: the order of completion, and the history.     *)

CompletionOrder ==
  /\ \A s \in Scans : completedAt[s] <= clock
  /\ \A s \in Scans : scan[s] = "complete" => completedAt[s] # 0
  /\ \A s \in Scans : completedAt[s] # 0 => Begun(s)
  /\ \A s, t \in Scans :
       s < t /\ completedAt[t] # 0 /\ completedAt[s] > completedAt[t]
         => \E a \in Analyzers : job[t][a] \in Unanalysed \cup {"none"}

\* The scanner stores and records for a scan that is not complete.
StillScanning ==
  current # None /\ pc \in {"store", "record", "delete", "complete"}
    => scan[current] = "scanning"

\* What scan s has to say about what the one before has found.
Follows(s) ==
  /\ s \notin early \cup {1}
  /\ scan[s - 1] = "complete"

HistoryGoesOn ==
  \A s \in Scans, r \in Resources :
    Follows(s) /\ record[s - 1][r] \in {"new", "updated"} =>
      /\ current = s /\ pc = "record" => r \in found \/ record[s][r] # None
      /\ Begun(s) /\ ~(current = s /\ pc \in {"store", "record"}) => record[s][r] # None

Calm ==
  /\ Turns
  /\ EarlyOverlap
  /\ Detections
  /\ MissedUntilAnalysed
  /\ SeenStaysOpen
  /\ CompletionOrder
  /\ StillScanning
  /\ HistoryGoesOn

IInv ==
  /\ Typed
  /\ HistoryOfRows
  /\ ByScanIsResolved
  /\ PersistedIsOwn
  /\ faults = 0 => Calm

-----------------------------------------------------------------------------

LEMMA Limits ==
  /\ maxRetries \in Nat /\ MaxScans \in Nat /\ MaxFaults \in Nat
  /\ Len(analyzerTypes) \in Nat
  /\ DOMAIN analyzerTypes = 1 .. Len(analyzerTypes)
  /\ \A i \in 1 .. Len(analyzerTypes) : analyzerTypes[i] \in Analyzers
BY ResultsAssumption

LEMMA Nothing ==
  /\ None \notin Scans /\ None # User /\ User \notin Scans
  /\ None \notin Messages \X Analyzers /\ None \notin FindingRows
  /\ None # "new" /\ None # "updated" /\ None # "removed"
BY ResultsAssumption DEF Sightings

\* The message the analyzer handles.
LEMMA MessageInHand ==
  ASSUME Typed, working # None
  PROVE  /\ Scan \in Scans /\ Type \in Analyzers
         /\ working[1] \in Messages /\ working[1].scan = Scan
         /\ working[1].retry \in 0 .. maxRetries
BY DEF Typed, TypeOK, Scan, Type, Messages

LEMMA TypedInit == Init => Typed
<1> SUFFICES ASSUME Init PROVE Typed
  OBVIOUS
<1> USE Limits DEF Init
<1>1. requests \in Seq(Scans \cup {None})
  OBVIOUS
<1>2. list \in [Analyzers -> Seq(Messages)]
  OBVIOUS
<1>3. next \in 1 .. Len(analyzerTypes) + 1 /\ 0 \in 0 .. MaxFaults
  OBVIOUS
<1>4. TypeOK
  BY <1>1, <1>2, <1>3 DEF TypeOK, ScanStatuses, JobStatuses
<1>5. InHand
  BY DEF InHand
<1> QED
  BY <1>4, <1>5 DEF Typed

LEMMA FaultType ==
  ASSUME Typed, Fault \/ UNCHANGED faults
  PROVE  faults' \in 0 .. MaxFaults
<1>1. faults \in 0 .. MaxFaults
  BY DEF Typed, TypeOK
<1> QED
  BY <1>1, Limits DEF Fault

LEMMA RequestScanType == Typed /\ RequestScan => Typed'
<1> SUFFICES ASSUME Typed, RequestScan PROVE Typed'
  OBVIOUS
<1>1. PICK s \in Scans : NewScan(s, "queued") /\ requests' = Append(requests, s)
  BY DEF RequestScan, Unused
<1>2. /\ requests \in Seq(Scans \cup {None}) /\ scan \in [Scans -> ScanStatuses]
      /\ early \subseteq Scans
  BY DEF Typed, TypeOK
<1>3. requests' \in Seq(Scans \cup {None})
  BY <1>1, <1>2
<1>4. "queued" \in ScanStatuses
  BY DEF ScanStatuses
<1>5. scan' \in [Scans -> ScanStatuses] /\ early' \subseteq Scans
  BY <1>1, <1>2, <1>4 DEF NewScan
<1> QED
  BY <1>3, <1>5 DEF RequestScan, Typed, TypeOK, InHand, resourceVars, completions, scannerVars,
                    analyzerVars, findingVars

LEMMA RecoverScanType == Typed /\ RecoverScan => Typed'
<1> SUFFICES ASSUME Typed, RecoverScan PROVE Typed'
  OBVIOUS
<1>1. requests \in Seq(Scans \cup {None}) /\ lost \subseteq Scans \cup {None}
  BY DEF Typed, TypeOK
<1>2. requests' = Append(requests, None) /\ lost' \subseteq lost
  BY DEF RecoverScan
<1>3. requests' \in Seq(Scans \cup {None})
  BY <1>1, <1>2
<1> QED
  BY <1>1, <1>2, <1>3 DEF RecoverScan, Typed, TypeOK, InHand, resourceVars, completions,
                          scannerVars, analyzerVars, findingVars

LEMMA FailOrphanedScanType == Typed /\ FailOrphanedScan => Typed'
<1> SUFFICES ASSUME Typed, FailOrphanedScan PROVE Typed'
  OBVIOUS
<1>1. scan' \in [Scans -> ScanStatuses]
  BY DEF FailOrphanedScan, Typed, TypeOK, ScanStatuses
<1> QED
  BY <1>1 DEF FailOrphanedScan, Typed, TypeOK, InHand, resourceVars, completions, scannerVars,
              analyzerVars, findingVars

LEMMA TakeScanType == Typed /\ TakeScan => Typed'
<1> SUFFICES ASSUME Typed, TakeScan PROVE Typed'
  OBVIOUS
<1>1. /\ requests # <<>> /\ requests' = Tail(requests)
      /\ toStore' \subseteq Resources /\ found' = {} /\ fresh' = {} /\ pc' = "store"
      /\ known' \in BOOLEAN /\ pc = "idle"
      /\ UNCHANGED <<resourceVars, completions, next, job, list, analyzerVars, findingVars,
                     lost, faults>>
  BY DEF TakeScan, At, Goto
<1>2. /\ requests \in Seq(Scans \cup {None}) /\ scan \in [Scans -> ScanStatuses]
      /\ early \subseteq Scans
  BY DEF Typed, TypeOK
<1>3. Head(requests) \in Scans \cup {None} /\ requests' \in Seq(Scans \cup {None})
  BY <1>1, <1>2
<1>4. /\ current' \in Scans
      /\ \/ scan' = [scan EXCEPT ![current'] = "scanning"] /\ UNCHANGED early
         \/ NewScan(current', "scanning")
  BY <1>3 DEF TakeScan, Unused
<1>5. /\ scan' \in [Scans -> ScanStatuses] /\ early' \subseteq Scans
  BY <1>2, <1>4 DEF NewScan, ScanStatuses
<1> QED
  BY <1>1, <1>3, <1>4, <1>5, Nothing
  DEF Typed, TypeOK, InHand, resourceVars, completions, analyzerVars, findingVars

LEMMA UpsertResourceType == Typed /\ UpsertResource => Typed'
<1> SUFFICES ASSUME Typed, UpsertResource PROVE Typed'
  OBVIOUS
<1>1. PICK r \in toStore :
        /\ toStore' = toStore \ {r}
        /\ \/ UpsertWithStatus(r) /\ found' = found \cup {r} /\ UNCHANGED faults
           \/ Fault /\ UNCHANGED <<rows, found, fresh>>
  BY DEF UpsertResource, Write
<1>2. rows \subseteq Resources /\ found \subseteq Resources /\ fresh \subseteq found
      /\ toStore \subseteq Resources
  BY DEF Typed, TypeOK
<1>3. /\ rows' \subseteq Resources /\ found' \subseteq Resources /\ fresh' \subseteq found'
      /\ toStore' \subseteq Resources
  BY <1>1, <1>2 DEF UpsertWithStatus
<1>4. faults' \in 0 .. MaxFaults
  BY <1>1, FaultType
<1> QED
  BY <1>3, <1>4 DEF UpsertResource, Typed, TypeOK, InHand, completions, analyzerVars, findingVars

LEMMA MarkRemovedType == Typed /\ MarkRemovedResources => Typed'
<1> SUFFICES ASSUME Typed, MarkRemovedResources PROVE Typed'
  OBVIOUS
<1>1. current \in Scans /\ record \in [Scans -> [Resources -> Sightings \cup {None}]]
  BY DEF MarkRemovedResources, At, Typed, TypeOK, InHand
<1>2. /\ \/ UNCHANGED record
         \/ \E gone \in SUBSET Resources :
              record' = [record EXCEPT ![current] =
                           [r \in Resources |-> IF r \in gone THEN "removed" ELSE @[r]]]
      /\ Fault \/ UNCHANGED faults
  BY DEF MarkRemovedResources, Write, Typed, TypeOK
<1>3. record' \in [Scans -> [Resources -> Sightings \cup {None}]]
  BY <1>1, <1>2 DEF Sightings
<1>4. faults' \in 0 .. MaxFaults
  BY <1>2, FaultType
<1> QED
  BY <1>3, <1>4 DEF MarkRemovedResources, At, Goto, Typed, TypeOK, InHand, completions,
                    analyzerVars, findingVars

LEMMA RecordScanType == Typed /\ RecordScan => Typed'
<1> SUFFICES ASSUME Typed, RecordScan PROVE Typed'
  OBVIOUS
<1>1. current \in Scans /\ record \in [Scans -> [Resources -> Sightings \cup {None}]]
  BY DEF RecordScan, At, Typed, TypeOK, InHand
<1>2. /\ \/ UNCHANGED record
         \/ record' = [record EXCEPT ![current] = [r \in Resources |->
                         IF r \in fresh THEN "new" ELSE IF r \in found THEN "updated" ELSE @[r]]]
      /\ Fault \/ UNCHANGED faults
  BY DEF RecordScan, Write
<1>3. record' \in [Scans -> [Resources -> Sightings \cup {None}]]
  BY <1>1, <1>2 DEF Sightings
<1>4. faults' \in 0 .. MaxFaults
  BY <1>2, FaultType
<1> QED
  BY <1>3, <1>4 DEF RecordScan, At, Goto, Typed, TypeOK, InHand, completions, analyzerVars,
                    findingVars

\* What is deleted, of what remains unchanged.
LEMMA DeleteEffect ==
  ASSUME DeleteStaleResources
  PROVE  \/ /\ UNCHANGED faults
            /\ \E stale \in SUBSET Resources :
                 /\ rows' = rows \ stale
                 /\ record' = [s \in Scans |->
                                 [r \in Resources |-> IF r \in stale THEN None ELSE record[s][r]]]
                 /\ finding' = [f \in Findings |-> IF f[1] \in stale THEN None ELSE finding[f]]
         \/ Fault /\ UNCHANGED <<rows, record, finding>>
<1> DEFINE recent == {s \in Ended : Cardinality(Later(s, Ended)) < minScansForDeletion}
           stale == {r \in Resources : /\ Cardinality(Ended) >= minScansForDeletion
                                       /\ \A s \in recent : record[s][r] = "removed"}
<1>1. Write(/\ rows' = rows \ stale
            /\ record' = [s \in Scans |->
                            [r \in Resources |-> IF r \in stale THEN None ELSE record[s][r]]]
            /\ finding' = [f \in Findings |-> IF f[1] \in stale THEN None ELSE finding[f]],
            <<rows, record, finding>>)
  BY DEF DeleteStaleResources
<1>2. stale \in SUBSET Resources
  OBVIOUS
<1> HIDE DEF stale
<1> QED
  BY <1>1, <1>2 DEF Write

LEMMA DeleteType == Typed /\ DeleteStaleResources => Typed'
<1> SUFFICES ASSUME Typed, DeleteStaleResources PROVE Typed'
  OBVIOUS
<1>1. /\ rows \subseteq Resources
      /\ record \in [Scans -> [Resources -> Sightings \cup {None}]]
      /\ finding \in [Findings -> FindingRows \cup {None}]
  BY DEF Typed, TypeOK
<1>2. /\ rows' \subseteq Resources
      /\ record' \in [Scans -> [Resources -> Sightings \cup {None}]]
      /\ finding' \in [Findings -> FindingRows \cup {None}]
  BY <1>1, DeleteEffect
<1>3. faults' \in 0 .. MaxFaults
  BY DeleteEffect, FaultType
<1> QED
  BY <1>2, <1>3 DEF DeleteStaleResources, At, Goto, Typed, TypeOK, InHand, completions,
                    analyzerVars

LEMMA FinishType ==
  ASSUME Typed, NEW s \in Scans, Finish(s)
  PROVE  /\ scan' \in [Scans -> ScanStatuses]
         /\ completedAt' \in [Scans -> Nat]
         /\ clock' \in Nat \ {0}
<1>1. /\ scan \in [Scans -> ScanStatuses] /\ completedAt \in [Scans -> Nat]
      /\ clock \in Nat \ {0}
  BY DEF Typed, TypeOK
<1>2. clock' \in Nat \ {0}
  BY <1>1 DEF Finish
<1> QED
  BY <1>1, <1>2 DEF Finish, ScanStatuses

LEMMA CompleteScanType == Typed /\ CompleteScan => Typed'
<1> SUFFICES ASSUME Typed, CompleteScan PROVE Typed'
  OBVIOUS
<1>1. current \in Scans /\ Finish(current)
  BY DEF CompleteScan, At, Typed, TypeOK, InHand
<1> QED
  BY <1>1, FinishType DEF CompleteScan, At, Goto, Typed, TypeOK, InHand, resourceVars,
                          analyzerVars, findingVars

LEMMA StartFanOutType == Typed /\ StartFanOut => Typed'
<1> SUFFICES ASSUME Typed, StartFanOut PROVE Typed'
  OBVIOUS
<1>1. 1 \in 1 .. Len(analyzerTypes) + 1
  BY Limits
<1>2. scan' \in [Scans -> ScanStatuses]
  BY DEF StartFanOut, Typed, TypeOK, ScanStatuses
<1> QED
  BY <1>1, <1>2 DEF StartFanOut, Release, At, Goto, Typed, TypeOK, InHand, resourceVars,
                    completions, analyzerVars, findingVars

\* The type the fan-out has come to.
LEMMA NextType ==
  ASSUME Typed, CreateAnalyzerJob
  PROVE  /\ current \in Scans
         /\ next \in 1 .. Len(analyzerTypes)
         /\ analyzerTypes[next] \in Analyzers
         /\ [scan |-> current, retry |-> 0] \in Messages
<1>1. current \in Scans
  BY DEF CreateAnalyzerJob, At, Typed, TypeOK, InHand
<1>2. next \in 1 .. Len(analyzerTypes) + 1 /\ next <= Len(analyzerTypes)
  BY DEF CreateAnalyzerJob, Typed, TypeOK
<1>3. next \in 1 .. Len(analyzerTypes)
  BY <1>2, Limits
<1>4. 0 \in 0 .. maxRetries
  BY Limits
<1> QED
  BY <1>1, <1>3, <1>4, Limits DEF Messages

LEMMA CreateJobType == Typed /\ CreateAnalyzerJob => Typed'
<1> SUFFICES ASSUME Typed, CreateAnalyzerJob PROVE Typed'
  OBVIOUS
<1> DEFINE a == analyzerTypes[next]
           m == [scan |-> current, retry |-> 0]
<1>1. /\ current \in Scans /\ next \in 1 .. Len(analyzerTypes) /\ a \in Analyzers
      /\ m \in Messages
  BY NextType
<1>2. /\ job' = [job EXCEPT ![current][a] = "queued"]
      /\ list' = [list EXCEPT ![a] = Append(list[a], m)]
      /\ next' = next + 1
  BY DEF CreateAnalyzerJob
<1>3. /\ list \in [Analyzers -> Seq(Messages)] /\ job \in [Scans -> [Analyzers -> JobStatuses]]
  BY DEF Typed, TypeOK
<1> HIDE DEF a, m
<1>4. Append(list[a], m) \in Seq(Messages)
  BY <1>1, <1>3
<1>5. list' \in [Analyzers -> Seq(Messages)]
  BY <1>2, <1>3, <1>4
<1>6. job' \in [Scans -> [Analyzers -> JobStatuses]]
  BY <1>1, <1>2, <1>3 DEF JobStatuses
<1>7. next' \in 1 .. Len(analyzerTypes) + 1
  BY <1>1, <1>2, Limits
<1> QED
  BY <1>5, <1>6, <1>7 DEF CreateAnalyzerJob, At, Typed, TypeOK, InHand, resourceVars,
                          completions, analyzerVars, findingVars

LEMMA EndFanOutType == Typed /\ EndFanOut => Typed'
<1> SUFFICES ASSUME Typed, EndFanOut PROVE Typed'
  OBVIOUS
<1>1. 1 \in 1 .. Len(analyzerTypes) + 1
  BY Limits
<1>2. scan' \in [Scans -> ScanStatuses]
  BY DEF EndFanOut, Typed, TypeOK, ScanStatuses
<1> QED
  BY <1>1, <1>2 DEF EndFanOut, Release, At, Goto, Typed, TypeOK, InHand, resourceVars,
                    completions, analyzerVars, findingVars

LEMMA ScannerStopsType == Typed /\ ScannerStops => Typed'
<1> SUFFICES ASSUME Typed, ScannerStops PROVE Typed'
  OBVIOUS
<1>1. 1 \in 1 .. Len(analyzerTypes) + 1
  BY Limits
<1>0. faults' \in 0 .. MaxFaults
  BY FaultType DEF ScannerStops
<1>2. current \in Scans \cup {None} /\ lost \subseteq Scans \cup {None}
  BY DEF Typed, TypeOK
<1>3. lost' \subseteq Scans \cup {None}
  BY <1>2 DEF ScannerStops
<1> QED
  BY <1>0, <1>1, <1>3 DEF ScannerStops, Release, At, Goto, Typed, TypeOK, InHand, resourceVars,
                    completions, analyzerVars, findingVars

LEMMA EndJobType ==
  ASSUME Typed, working # None, NEW status \in {"complete", "error"}, EndJob(status)
  PROVE  /\ job' \in [Scans -> [Analyzers -> JobStatuses]]
         /\ scan' \in [Scans -> ScanStatuses]
         /\ completedAt' \in [Scans -> Nat]
         /\ clock' \in Nat \ {0}
<1>1. job' = [job EXCEPT ![Scan][Type] = status]
  BY DEF EndJob
<1>2. Finish(Scan) \/ UNCHANGED <<scan, completions>>
  BY DEF EndJob
<1>3. Scan \in Scans /\ Type \in Analyzers /\ job \in [Scans -> [Analyzers -> JobStatuses]]
  BY MessageInHand DEF Typed, TypeOK
<1>4. job' \in [Scans -> [Analyzers -> JobStatuses]]
  BY <1>1, <1>3 DEF JobStatuses
<1> QED
  BY <1>2, <1>3, <1>4, FinishType DEF Typed, TypeOK, completions

LEMMA DetectedType ==
  ASSUME Typed, working # None, NEW f \in Findings
  PROVE  Detected(f) \in FindingRows
<1>1. Scan \in Scans
  BY MessageInHand
<1> QED
  BY <1>1 DEF Detected, FindingRows, Statuses, Typed, TypeOK

\* The message the analyzer takes is the first of its list.
LEMMA TakenMessage ==
  ASSUME Typed, TakeAnalysis
  PROVE  \E a \in Analyzers :
           /\ list[a] \in Seq(Messages) /\ list[a] # <<>>
           /\ Head(list[a]) \in Messages /\ Head(list[a]).scan \in Scans
           /\ Tail(list[a]) \in Seq(Messages)
           /\ list' = [list EXCEPT ![a] = Tail(list[a])]
           /\ working' = <<Head(list[a]), a>>
           /\ job' = [job EXCEPT ![Head(list[a]).scan][a] = "running"]
           /\ toPersist' \in SUBSET {f \in Findings : f[1] \in rows /\ f[2] = a}
<1>1. PICK i \in DOMAIN analyzerTypes :
        /\ First(i)
        /\ list' = [list EXCEPT ![analyzerTypes[i]] = Tail(@)]
        /\ working' = <<Head(list[analyzerTypes[i]]), analyzerTypes[i]>>
        /\ job' = [job EXCEPT ![Head(list[analyzerTypes[i]]).scan][analyzerTypes[i]] = "running"]
        /\ toPersist' \in SUBSET {f \in Findings : f[1] \in rows /\ f[2] = analyzerTypes[i]}
  BY DEF TakeAnalysis
<1>2. analyzerTypes[i] \in Analyzers /\ list[analyzerTypes[i]] # <<>>
  BY <1>1, Limits DEF First
<1> DEFINE l == list[analyzerTypes[i]]
<1>3. l \in Seq(Messages) /\ l # <<>>
  BY <1>2 DEF Typed, TypeOK
<1> HIDE DEF l
<1>4. Head(l) \in Messages /\ Tail(l) \in Seq(Messages)
  BY <1>3
<1>5. Head(l).scan \in Scans
  BY <1>4 DEF Messages
<1> QED
  BY <1>1, <1>2, <1>3, <1>4, <1>5 DEF l

LEMMA TakeAnalysisType == Typed /\ TakeAnalysis => Typed'
<1> SUFFICES ASSUME Typed, TakeAnalysis PROVE Typed'
  OBVIOUS
<1>1. PICK a \in Analyzers :
        /\ Head(list[a]) \in Messages /\ Head(list[a]).scan \in Scans
        /\ Tail(list[a]) \in Seq(Messages)
        /\ list' = [list EXCEPT ![a] = Tail(list[a])]
        /\ working' = <<Head(list[a]), a>>
        /\ job' = [job EXCEPT ![Head(list[a]).scan][a] = "running"]
        /\ toPersist' \in SUBSET {f \in Findings : f[1] \in rows /\ f[2] = a}
  BY TakenMessage
<1>2. /\ list \in [Analyzers -> Seq(Messages)] /\ job \in [Scans -> [Analyzers -> JobStatuses]]
  BY DEF Typed, TypeOK
<1>3. /\ list' \in [Analyzers -> Seq(Messages)]
      /\ working' \in Messages \X Analyzers
      /\ toPersist' \subseteq Findings
  BY <1>1, <1>2
<1>4. job' \in [Scans -> [Analyzers -> JobStatuses]]
  BY <1>1, <1>2 DEF JobStatuses
<1> QED
  BY <1>3, <1>4, Nothing DEF TakeAnalysis, Here, Typed, TypeOK, InHand, resourceVars, completions,
                             scannerVars, findingVars

LEMMA PersistType == Typed /\ PersistFinding => Typed'
<1> SUFFICES ASSUME Typed, PersistFinding PROVE Typed'
  OBVIOUS
<1>1. working # None
  BY DEF PersistFinding, Here, Typed, InHand
<1>2. PICK f \in toPersist :
        /\ toPersist' = toPersist \ {f}
        /\ \/ /\ finding' = [finding EXCEPT ![f] = Detected(f)]
              /\ persisted' = persisted \cup {f}
              /\ UNCHANGED faults
           \/ Fault /\ UNCHANGED <<finding, persisted>>
  BY DEF PersistFinding, Write
<1>3. /\ toPersist \subseteq Findings /\ persisted \subseteq Findings
      /\ finding \in [Findings -> FindingRows \cup {None}]
  BY DEF Typed, TypeOK
<1>4. f \in Findings /\ Detected(f) \in FindingRows
  BY <1>1, <1>2, <1>3, DetectedType
<1>5. /\ finding' \in [Findings -> FindingRows \cup {None}]
      /\ persisted' \subseteq Findings /\ toPersist' \subseteq Findings
  BY <1>2, <1>3, <1>4
<1>6. faults' \in 0 .. MaxFaults
  BY <1>2, FaultType
<1> QED
  BY <1>5, <1>6 DEF PersistFinding, Here, Typed, TypeOK, InHand, resourceVars, completions,
                    scannerVars

LEMMA RecordDetectionsType == Typed /\ RecordDetections => Typed'
<1> SUFFICES ASSUME Typed, RecordDetections PROVE Typed'
  OBVIOUS
<1>1. Scan \in Scans
  BY MessageInHand DEF RecordDetections, Here, Typed, InHand
<1>2. /\ persisted \subseteq Findings /\ detections \in [Scans -> SUBSET Findings]
  BY DEF Typed, TypeOK
<1>3. detections' \in [Scans -> SUBSET Findings]
  BY <1>1, <1>2 DEF RecordDetections, Write
<1>4. faults' \in 0 .. MaxFaults
  BY FaultType DEF RecordDetections, Write
<1> QED
  BY <1>3, <1>4 DEF RecordDetections, Here, Typed, TypeOK, InHand, resourceVars, completions,
                    scannerVars

LEMMA CompleteJobType == Typed /\ CompleteAnalyzerJob => Typed'
<1> SUFFICES ASSUME Typed, CompleteAnalyzerJob PROVE Typed'
  OBVIOUS
<1>1. working # None /\ EndJob("complete")
  BY DEF CompleteAnalyzerJob, Here, Typed, InHand
<1> QED
  BY <1>1, EndJobType DEF CompleteAnalyzerJob, Here, Typed, TypeOK, InHand, resourceVars,
                          scannerVars, findingVars

LEMMA AutoResolveType == Typed /\ AutoResolve => Typed'
<1> SUFFICES ASSUME Typed, AutoResolve PROVE Typed'
  OBVIOUS
<1>1. Scan \in Scans
  BY MessageInHand DEF AutoResolve, Here, Typed, InHand
<1>2. finding \in [Findings -> FindingRows \cup {None}]
  BY DEF Typed, TypeOK
<1>3. \A f \in ResolvedBy(Scan) : finding[f] \in FindingRows
  BY <1>2 DEF ResolvedBy
<1>4. \A f \in ResolvedBy(Scan) :
        [finding[f] EXCEPT !.status = "resolved", !.by = Scan] \in FindingRows
  BY <1>1, <1>3 DEF FindingRows, Statuses
<1>5. finding' \in [Findings -> FindingRows \cup {None}]
  BY <1>2, <1>4 DEF AutoResolve, Write
<1>6. faults' \in 0 .. MaxFaults
  BY FaultType DEF AutoResolve, Write
<1> QED
  BY <1>5, <1>6 DEF AutoResolve, Here, Typed, TypeOK, InHand, resourceVars, completions,
                    scannerVars

LEMMA AnalysisFailsType == Typed /\ AnalysisFails => Typed'
<1> SUFFICES ASSUME Typed, AnalysisFails PROVE Typed'
  OBVIOUS
<1>1. working # None /\ EndJob("error")
  BY DEF AnalysisFails, Here, Typed, InHand
<1> DEFINE m == [working[1] EXCEPT !.retry = @ + 1]
<1>2. Type \in Analyzers /\ working[1] \in Messages
  BY <1>1, MessageInHand
<1>3. working[1].retry < maxRetries => m \in Messages
  BY <1>2, Limits DEF Messages
<1>4. list \in [Analyzers -> Seq(Messages)]
  BY DEF Typed, TypeOK
<1>5. list' = IF working[1].retry < maxRetries
              THEN [list EXCEPT ![Type] = Append(list[Type], m)] ELSE list
  BY DEF AnalysisFails
<1> HIDE DEF m
<1>6. list' \in [Analyzers -> Seq(Messages)]
  BY <1>2, <1>3, <1>4, <1>5
<1>7. faults' \in 0 .. MaxFaults
  BY FaultType DEF AnalysisFails
<1> QED
  BY <1>1, <1>6, <1>7, EndJobType DEF AnalysisFails, Here, Typed, TypeOK, InHand, resourceVars,
                                      scannerVars, findingVars

LEMMA AnalyzerStopsType == Typed /\ AnalyzerStops => Typed'
<1> SUFFICES ASSUME Typed, AnalyzerStops PROVE Typed'
  OBVIOUS
<1> DEFINE m == [working[1] EXCEPT !.retry = 0]
<1>1. Type \in Analyzers /\ working[1] \in Messages
  BY MessageInHand DEF AnalyzerStops, Here, Typed, InHand
<1>2. m \in Messages
  BY <1>1, Limits DEF Messages
<1>3. list \in [Analyzers -> Seq(Messages)]
  BY DEF Typed, TypeOK
<1>4. list' = IF Here("resolve") THEN list ELSE [list EXCEPT ![Type] = Append(list[Type], m)]
  BY DEF AnalyzerStops
<1> HIDE DEF m
<1>5. list' \in [Analyzers -> Seq(Messages)]
  BY <1>1, <1>2, <1>3, <1>4
<1>6. faults' \in 0 .. MaxFaults
  BY FaultType DEF AnalyzerStops
<1> QED
  BY <1>5, <1>6 DEF AnalyzerStops, Here, Typed, TypeOK, InHand, resourceVars, completions,
                    scannerVars, findingVars

LEMMA UpdateFindingType == Typed /\ UpdateFinding => Typed'
<1> SUFFICES ASSUME Typed, UpdateFinding PROVE Typed'
  OBVIOUS
<1>1. PICK f \in Findings, status \in Statuses :
        /\ finding[f] # None
        /\ finding' = [finding EXCEPT ![f].status = status, ![f].by = User]
  BY DEF UpdateFinding
<1>2. finding \in [Findings -> FindingRows \cup {None}]
  BY DEF Typed, TypeOK
<1>3. [finding[f] EXCEPT !.status = status, !.by = User] \in FindingRows
  BY <1>1, <1>2 DEF FindingRows
<1>4. finding' = [finding EXCEPT ![f] = [finding[f] EXCEPT !.status = status, !.by = User]]
  BY <1>1, <1>2
<1>5. finding' \in [Findings -> FindingRows \cup {None}]
  BY <1>2, <1>3, <1>4
<1> QED
  BY <1>5 DEF UpdateFinding, Typed, TypeOK, InHand, resourceVars, completions, scannerVars,
              analyzerVars

LEMMA TypedNext == Typed /\ [Next]_vars => Typed'
<1> SUFFICES ASSUME Typed, [Next]_vars PROVE Typed'
  OBVIOUS
<1>1. CASE UNCHANGED vars
  BY <1>1 DEF Typed, TypeOK, InHand, vars, resourceVars, completions, scannerVars, analyzerVars,
              findingVars
<1> QED
  BY <1>1, RequestScanType, RecoverScanType, FailOrphanedScanType, TakeScanType,
     UpsertResourceType, MarkRemovedType, RecordScanType, DeleteType, CompleteScanType,
     StartFanOutType, CreateJobType, EndFanOutType, ScannerStopsType, TakeAnalysisType,
     PersistType, RecordDetectionsType, CompleteJobType, AutoResolveType, AnalysisFailsType,
     AnalyzerStopsType, UpdateFindingType
  DEF Next

-----------------------------------------------------------------------------
(* What a step does to a finding.                                          *)

Opened(f) ==
  /\ PersistFinding
  /\ f \in toPersist
  /\ finding' = [finding EXCEPT ![f] = Detected(f)]
  /\ persisted' = persisted \cup {f}

Closed(f) ==
  /\ AutoResolve
  /\ f \in ResolvedBy(Scan)
  /\ finding'[f] = [finding[f] EXCEPT !.status = "resolved", !.by = Scan]

SetByUser(f) ==
  /\ UpdateFinding
  /\ finding[f] # None
  /\ \E status \in Statuses : finding'[f] = [finding[f] EXCEPT !.status = status, !.by = User]

LEMMA FindingStep ==
  ASSUME Typed, [Next]_vars, NEW f \in Findings
  PROVE  \/ finding'[f] = finding[f]
         \/ DeleteStaleResources /\ finding'[f] = None
         \/ Opened(f)
         \/ Closed(f)
         \/ SetByUser(f)
<1>0. finding \in [Findings -> FindingRows \cup {None}]
  BY DEF Typed, TypeOK
<1>1. CASE DeleteStaleResources
  BY <1>0, <1>1, DeleteEffect
<1>2. CASE PersistFinding
  <2>1. PICK g \in toPersist :
          \/ finding' = [finding EXCEPT ![g] = Detected(g)] /\ persisted' = persisted \cup {g}
          \/ UNCHANGED finding
    BY <1>2 DEF PersistFinding, Write
  <2>2. CASE f = g
    BY <1>2, <2>1, <2>2 DEF Opened
  <2>3. CASE f # g
    BY <1>0, <2>1, <2>3
  <2> QED
    BY <2>2, <2>3
<1>3. CASE AutoResolve
  BY <1>0, <1>3 DEF AutoResolve, Write, Closed
<1>4. CASE UpdateFinding
  <2>1. PICK g \in Findings, status \in Statuses :
          /\ finding[g] # None
          /\ finding' = [finding EXCEPT ![g].status = status, ![g].by = User]
    BY <1>4 DEF UpdateFinding
  <2>2. CASE f = g
    <3>1. finding'[f] = [finding[f] EXCEPT !.status = status, !.by = User]
      BY <1>0, <2>1, <2>2
    <3> QED
      BY <1>4, <2>1, <2>2, <3>1 DEF SetByUser
  <2>3. CASE f # g
    BY <1>0, <2>1, <2>3
  <2> QED
    BY <2>2, <2>3
<1>5. CASE UNCHANGED vars \/ RequestScan \/ RecoverScan \/ FailOrphanedScan \/ TakeScan
           \/ UpsertResource \/ MarkRemovedResources \/ RecordScan \/ CompleteScan \/ StartFanOut
           \/ CreateAnalyzerJob \/ EndFanOut \/ ScannerStops
  BY <1>5 DEF vars, findingVars, RequestScan, RecoverScan, FailOrphanedScan, TakeScan,
              UpsertResource, MarkRemovedResources, RecordScan, CompleteScan, StartFanOut,
              CreateAnalyzerJob, EndFanOut, ScannerStops
<1>6. CASE TakeAnalysis \/ RecordDetections \/ CompleteAnalyzerJob \/ AnalysisFails
           \/ AnalyzerStops
  BY <1>6 DEF findingVars, TakeAnalysis, RecordDetections, CompleteAnalyzerJob, AnalysisFails,
              AnalyzerStops
<1> QED
  BY <1>1, <1>2, <1>3, <1>4, <1>5, <1>6 DEF Next

\* The row after such a step.
LEMMA OpenedRow ==
  ASSUME Typed, NEW f \in Findings, Opened(f)
  PROVE  /\ working # None /\ step = "persist" /\ Scan \in Scans
         /\ finding'[f] \in FindingRows
         /\ finding'[f].last = Scan
         /\ finding[f] # None /\ finding[f].status # "resolved"
              => /\ finding'[f].status = finding[f].status
                 /\ finding'[f].by = finding[f].by
         /\ finding[f] = None \/ finding[f].status = "resolved"
              => finding'[f].status = "open" /\ finding'[f].by = None
<1>1. finding \in [Findings -> FindingRows \cup {None}] /\ None \notin FindingRows
  BY Nothing DEF Typed, TypeOK
<1>2. step = "persist" /\ working # None
  BY DEF Opened, PersistFinding, Here, Typed, InHand
<1>3. Scan \in Scans /\ Detected(f) \in FindingRows
  BY <1>2, MessageInHand, DetectedType
<1>4. finding'[f] = Detected(f)
  BY <1>1 DEF Opened
<1>5. CASE finding[f] = None \/ finding[f].status = "resolved"
  BY <1>2, <1>3, <1>4, <1>5 DEF Detected
<1>6. CASE finding[f] # None /\ finding[f].status # "resolved"
  <2>1. finding[f] \in FindingRows
    BY <1>1, <1>6
  <2>2. finding'[f] = [finding[f] EXCEPT !.last = Scan]
    BY <1>4, <1>6 DEF Detected
  <2> QED
    BY <1>2, <1>3, <1>4, <1>6, <2>1, <2>2 DEF FindingRows
<1> QED
  BY <1>5, <1>6

LEMMA ClosedRow ==
  ASSUME Typed, NEW f \in Findings, Closed(f)
  PROVE  /\ working # None /\ step = "resolve" /\ Scan \in Scans
         /\ finding[f] \in FindingRows /\ finding[f].status = "open" /\ finding[f].last # Scan
         /\ \E g \in detections[Scan] : g[2] = f[2]
         /\ finding'[f] \in FindingRows
         /\ finding'[f].status = "resolved"
         /\ finding'[f].last = finding[f].last
         /\ finding'[f].by = Scan
<1>1. step = "resolve" /\ working # None
  BY DEF Closed, AutoResolve, Here, Typed, InHand
<1>2. Scan \in Scans
  BY <1>1, MessageInHand
<1>3. finding[f] \in FindingRows
  BY DEF Closed, ResolvedBy, Typed, TypeOK
<1> QED
  BY <1>1, <1>2, <1>3 DEF Closed, ResolvedBy, FindingRows, Statuses

LEMMA SetByUserRow ==
  ASSUME Typed, NEW f \in Findings, SetByUser(f)
  PROVE  /\ finding[f] \in FindingRows
         /\ finding'[f] \in FindingRows
         /\ finding'[f].last = finding[f].last
         /\ finding'[f].by = User
<1>1. finding[f] \in FindingRows
  BY DEF SetByUser, Typed, TypeOK
<1> QED
  BY <1>1 DEF SetByUser, FindingRows, Statuses

-----------------------------------------------------------------------------
(* What holds whatever fails.                                              *)

LEMMA ByScanNext ==
  Typed /\ ByScanIsResolved /\ [Next]_vars => ByScanIsResolved'
<1> SUFFICES ASSUME Typed, ByScanIsResolved, [Next]_vars,
                    NEW f \in Findings, finding'[f] # None, finding'[f].by \in Scans
             PROVE  finding'[f].status = "resolved"
  BY DEF ByScanIsResolved
<1>1. CASE finding'[f] = finding[f]
  BY <1>1 DEF ByScanIsResolved
<1>2. CASE Opened(f)
  BY <1>2, OpenedRow, Nothing DEF ByScanIsResolved
<1>3. CASE Closed(f)
  BY <1>3, ClosedRow
<1>4. CASE SetByUser(f)
  BY <1>4, SetByUserRow, Nothing
<1> QED
  BY <1>1, <1>2, <1>3, <1>4, FindingStep

\* The analyzer's hand: what it holds changes only by its own steps.
LEMMA HandStep ==
  ASSUME Typed, [Next]_vars
  PROVE  \/ UNCHANGED <<working, persisted>>
         \/ \E f \in Findings : Opened(f) /\ working' = working
         \/ persisted' = {}
<1>1. CASE PersistFinding
  BY <1>1 DEF PersistFinding, Write, Opened, Typed, TypeOK
<1>2. CASE TakeAnalysis
  BY <1>2 DEF TakeAnalysis, Here, Typed, InHand
<1>3. CASE RecordDetections \/ AnalyzerStops
  BY <1>3 DEF RecordDetections, AnalyzerStops
<1>4. CASE CompleteAnalyzerJob \/ AutoResolve \/ AnalysisFails
  BY <1>4 DEF CompleteAnalyzerJob, AutoResolve, AnalysisFails, Here, Typed, InHand
<1>5. CASE UNCHANGED vars \/ RequestScan \/ RecoverScan \/ FailOrphanedScan \/ TakeScan
           \/ UpsertResource \/ MarkRemovedResources \/ RecordScan \/ DeleteStaleResources
           \/ CompleteScan \/ StartFanOut \/ CreateAnalyzerJob \/ EndFanOut \/ ScannerStops
           \/ UpdateFinding
  BY <1>5 DEF vars, analyzerVars, RequestScan, RecoverScan, FailOrphanedScan, TakeScan,
              UpsertResource, MarkRemovedResources, RecordScan, DeleteStaleResources,
              CompleteScan, StartFanOut, CreateAnalyzerJob, EndFanOut, ScannerStops,
              UpdateFinding
<1> QED
  BY <1>1, <1>2, <1>3, <1>4, <1>5 DEF Next

LEMMA PersistedNext ==
  Typed /\ ByScanIsResolved /\ PersistedIsOwn /\ [Next]_vars => PersistedIsOwn'
<1> SUFFICES ASSUME Typed, ByScanIsResolved, PersistedIsOwn, [Next]_vars,
                    NEW f \in persisted', finding'[f] # None
             PROVE  finding'[f].last = Scan' /\ finding'[f].by \notin Scans
  BY DEF PersistedIsOwn
<1>0. f \in Findings
  BY TypedNext DEF Typed, TypeOK
<1>1. CASE Opened(f)
  <2>1. working' = working
    BY <1>1 DEF Opened, PersistFinding
  <2> QED
    BY <1>0, <1>1, <2>1, OpenedRow, Nothing DEF ByScanIsResolved, Scan
<1>2. CASE ~Opened(f)
  <2>1. f \in persisted /\ working' = working
    <3>1. ASSUME NEW g \in Findings, Opened(g), working' = working
          PROVE  f \in persisted
      BY <3>1, <1>2 DEF Opened
    <3> QED
      BY <3>1, HandStep
  <2>2. finding[f] # None => finding[f].last = Scan /\ finding[f].by \notin Scans
    BY <2>1 DEF PersistedIsOwn
  <2>3. Scan' = Scan /\ step = "persist"
    BY <2>1 DEF Scan, Typed, InHand
  <2>4. CASE finding'[f] = finding[f]
    BY <2>2, <2>3, <2>4
  <2>5. CASE Closed(f)
    BY <1>0, <2>3, <2>5, ClosedRow
  <2>6. CASE SetByUser(f)
    BY <1>0, <2>2, <2>3, <2>6, SetByUserRow, Nothing
  <2> QED
    BY <1>0, <1>2, <2>4, <2>5, <2>6, FindingStep
<1> QED
  BY <1>1, <1>2

LEMMA HistoryOfRowsNext ==
  Typed /\ HistoryOfRows /\ [Next]_vars => HistoryOfRows'
<1> SUFFICES ASSUME Typed, HistoryOfRows, [Next]_vars PROVE HistoryOfRows'
  OBVIOUS
<1>0. /\ record \in [Scans -> [Resources -> Sightings \cup {None}]]
      /\ fresh \subseteq found
      /\ \A s \in Scans, r \in Resources : record[s][r] # None => r \in rows
      /\ pc \in {"store", "record"} => found \subseteq rows
  BY DEF Typed, TypeOK, HistoryOfRows
<1>1. CASE TakeScan
  BY <1>0, <1>1 DEF TakeScan, HistoryOfRows, resourceVars
<1>2. CASE UpsertResource
  BY <1>0, <1>2 DEF UpsertResource, UpsertWithStatus, Write, At, HistoryOfRows
<1>3. CASE MarkRemovedResources
  <2>1. current \in Scans /\ pc = "store" /\ rows' = rows /\ found' = found
    BY <1>3 DEF MarkRemovedResources, At, Typed, TypeOK, InHand
  <2>2. \/ UNCHANGED record
        \/ \E gone \in SUBSET rows :
             record' = [record EXCEPT ![current] =
                          [r \in Resources |-> IF r \in gone THEN "removed" ELSE @[r]]]
    BY <1>3 DEF MarkRemovedResources, Write
  <2> QED
    BY <1>0, <2>1, <2>2 DEF HistoryOfRows
<1>4. CASE RecordScan
  <2>1. /\ current \in Scans /\ found \subseteq rows
        /\ pc' = "delete" /\ rows' = rows /\ found' = found
    BY <1>0, <1>4 DEF RecordScan, At, Goto, Typed, TypeOK, InHand
  <2>2. \/ UNCHANGED record
        \/ record' = [record EXCEPT ![current] = [r \in Resources |->
                        IF r \in fresh THEN "new" ELSE IF r \in found THEN "updated" ELSE @[r]]]
    BY <1>4 DEF RecordScan, Write
  <2> QED
    BY <1>0, <2>1, <2>2 DEF HistoryOfRows
<1>5. CASE DeleteStaleResources
  <2>1. pc' = "complete"
    BY <1>5 DEF DeleteStaleResources, Goto
  <2> QED
    BY <1>0, <1>5, <2>1, DeleteEffect DEF HistoryOfRows
<1>6. CASE CompleteScan \/ StartFanOut \/ EndFanOut \/ ScannerStops
  BY <1>0, <1>6 DEF CompleteScan, StartFanOut, EndFanOut, ScannerStops, Release, Goto,
                    resourceVars, HistoryOfRows
<1>7. CASE UNCHANGED vars \/ RequestScan \/ RecoverScan \/ FailOrphanedScan \/ CreateAnalyzerJob
           \/ TakeAnalysis \/ PersistFinding \/ RecordDetections \/ CompleteAnalyzerJob
           \/ AutoResolve \/ AnalysisFails \/ AnalyzerStops \/ UpdateFinding
  <2>1. UNCHANGED <<rows, record, pc, found>>
    BY <1>7 DEF vars, resourceVars, scannerVars, RequestScan, RecoverScan, FailOrphanedScan,
                CreateAnalyzerJob, TakeAnalysis, PersistFinding, RecordDetections,
                CompleteAnalyzerJob, AutoResolve, AnalysisFails, AnalyzerStops, UpdateFinding
  <2> QED
    BY <1>0, <2>1 DEF HistoryOfRows
<1> QED
  BY <1>1, <1>2, <1>3, <1>4, <1>5, <1>6, <1>7 DEF Next

-----------------------------------------------------------------------------

\* Every step keeps what a user has decided.
LEMMA DecisionStep ==
  ASSUME Typed, [Next]_vars, NEW f \in Findings,
         finding[f] # None, finding'[f] # None, finding[f].status = "snoozed"
  PROVE  finding'[f].status = finding[f].status \/ finding'[f].by = User
<1>1. CASE Opened(f)
  BY <1>1, OpenedRow
<1>2. CASE Closed(f)
  BY <1>2, ClosedRow
<1>3. CASE SetByUser(f)
  BY <1>3, SetByUserRow
<1> QED
  BY <1>1, <1>2, <1>3, FindingStep

-----------------------------------------------------------------------------
(* The steps of a scan when nothing fails, by what they change.            *)

QuietStep ==
  /\ UNCHANGED <<scan, requests, known, lost, current, next, job, list, working, completions,
                 early>>
  /\ step' = step \/ (step = "persist" /\ step' = "end")

AskStep(s) ==
  /\ scan[s] = "none" /\ \A t \in Scans : scan[t] = "none" => s <= t
  /\ \A t \in Scans : scan[t] \notin Active
  /\ scan' = [scan EXCEPT ![s] = "queued"]
  /\ requests' = Append(requests, s)
  /\ early' = IF \E t \in Scans : InProgress(t) THEN early \cup {s} ELSE early
  /\ UNCHANGED <<known, lost, current, next, job, list, working, step, completions>>

TakeStep ==
  /\ current = None /\ next = 1
  /\ requests # <<>>
  /\ Head(requests) \in Scans
  /\ current' = Head(requests)
  /\ scan' = [scan EXCEPT ![Head(requests)] = "scanning"]
  /\ requests' = Tail(requests)
  /\ known'
  /\ UNCHANGED <<lost, next, job, list, working, step, completions, early>>

MoveStep(s, status) ==
  /\ Begun(s) /\ InProgress(s)
  /\ status \in {"complete", "analyzing_pending", "error"}
  /\ scan' = [scan EXCEPT ![s] = status]
  /\ \/ status = "complete" /\ s = current /\ Finish(s)
     \/ status # "complete" /\ UNCHANGED completions
  /\ UNCHANGED <<requests, known, lost, current, next, job, list, working, step, early>>

CreateStep(a) ==
  /\ current \in Scans
  /\ next \in 1 .. Len(analyzerTypes) /\ a = analyzerTypes[next]
  /\ job' = [job EXCEPT ![current][a] = "queued"]
  /\ list' = [list EXCEPT ![a] = Append(list[a], [scan |-> current, retry |-> 0])]
  /\ next' = next + 1
  /\ UNCHANGED <<scan, requests, known, lost, current, working, step, completions, early>>

EndFanStep ==
  /\ current \in Scans
  /\ next = Len(analyzerTypes) + 1
  /\ scan' = [scan EXCEPT ![current] = "analyzing"]
  /\ current' = None /\ next' = 1
  /\ known'
  /\ UNCHANGED <<requests, lost, job, list, working, step, completions, early>>

AnalyseStep(a) ==
  /\ working = None /\ step' = "persist"
  /\ list[a] \in Seq(Messages) /\ list[a] # <<>>
  /\ Head(list[a]) \in Messages /\ Head(list[a]).scan \in Scans
  /\ list' = [list EXCEPT ![a] = Tail(list[a])]
  /\ working' = <<Head(list[a]), a>>
  /\ job' = [job EXCEPT ![Head(list[a]).scan][a] = "running"]
  /\ UNCHANGED <<scan, requests, known, lost, current, next, completions, early>>

EndStep ==
  /\ working # None /\ step = "end"
  /\ Scan \in Scans /\ Type \in Analyzers /\ Begun(Scan)
  /\ job[Scan][Type] = "running"
  /\ job' = [job EXCEPT ![Scan][Type] = "complete"]
  /\ \/ /\ Last /\ Finish(Scan)
        /\ step' = "resolve" /\ working' = working
     \/ /\ ~Last /\ UNCHANGED <<scan, completions>>
        /\ step' = "idle" /\ working' = None
  /\ UNCHANGED <<requests, known, lost, current, next, list, early>>

ResolveStep ==
  /\ working # None /\ step = "resolve"
  /\ working' = None /\ step' = "idle"
  /\ UNCHANGED <<scan, requests, known, lost, current, next, job, list, completions, early>>

\* Without a fault, every write succeeds.
LEMMA NoFault ==
  ASSUME Typed, faults' = 0, [Next]_vars
  PROVE  /\ faults = 0
         /\ ~Fault
         /\ ~ScannerStops /\ ~AnalysisFails /\ ~AnalyzerStops
<1>0. faults \in 0 .. MaxFaults
  BY DEF Typed, TypeOK
<1>1. faults \in Nat
  BY <1>0, Limits
<1>2. ~Fault
  BY <1>1 DEF Fault
<1>3. ~ScannerStops /\ ~AnalysisFails /\ ~AnalyzerStops
  BY <1>2 DEF ScannerStops, AnalysisFails, AnalyzerStops
<1>4. UNCHANGED faults
  BY <1>2, <1>3 DEF Next, vars, RequestScan, RecoverScan, FailOrphanedScan, TakeScan,
     UpsertResource, MarkRemovedResources, RecordScan, DeleteStaleResources, CompleteScan,
     StartFanOut, CreateAnalyzerJob, EndFanOut, TakeAnalysis, PersistFinding, RecordDetections,
     CompleteAnalyzerJob, AutoResolve, UpdateFinding, Write
<1> QED
  BY <1>2, <1>3, <1>4

LEMMA TurnStep ==
  ASSUME Typed, Turns, [Next]_vars, faults' = 0
  PROVE  \/ QuietStep
         \/ RequestScan /\ \E s \in Scans : AskStep(s)
         \/ TakeScan /\ TakeStep
         \/ /\ FailOrphanedScan \/ CompleteScan \/ StartFanOut
            /\ \E s \in Scans, status \in {"complete", "analyzing_pending", "error"} :
                 MoveStep(s, status)
         \/ CreateAnalyzerJob /\ \E a \in Analyzers : CreateStep(a)
         \/ EndFanOut /\ EndFanStep
         \/ TakeAnalysis /\ \E a \in Analyzers : AnalyseStep(a)
         \/ CompleteAnalyzerJob /\ EndStep
         \/ AutoResolve /\ ResolveStep
<1>0. ScansInTurn /\ JobsOfScans /\ JobsAndMessages
  BY DEF Turns
<1>1. CASE \/ UNCHANGED vars \/ UpsertResource \/ MarkRemovedResources \/ RecordScan
           \/ DeleteStaleResources \/ PersistFinding \/ RecordDetections \/ UpdateFinding
  <2> SUFFICES QuietStep
    OBVIOUS
  <2> USE DEF QuietStep, completions, scannerVars, analyzerVars
  <2>1. CASE UNCHANGED vars
    BY <2>1 DEF vars
  <2>2. CASE UpsertResource \/ MarkRemovedResources \/ RecordScan \/ DeleteStaleResources
    BY <2>2 DEF UpsertResource, MarkRemovedResources, RecordScan, DeleteStaleResources
  <2>3. CASE PersistFinding \/ RecordDetections \/ UpdateFinding
    BY <2>3 DEF PersistFinding, RecordDetections, UpdateFinding, Here
  <2> QED
    BY <1>1, <2>1, <2>2, <2>3
<1>2. CASE RequestScan
  <2>1. PICK s \in Scans : scan[s] = "none" /\ NewScan(s, "queued")
                           /\ requests' = Append(requests, s)
    BY <1>2 DEF RequestScan, Unused
  <2>2. AskStep(s)
    BY <1>2, <2>1 DEF AskStep, RequestScan, NewScan, Unused, scannerVars, analyzerVars, completions
  <2> QED
    BY <1>2, <2>2
<1>3. CASE RecoverScan
  BY <1>0, <1>3 DEF RecoverScan, ScansInTurn
<1>4. CASE FailOrphanedScan
  <2>1. PICK s \in Scans :
          /\ scan[s] \in Active \ {"queued"}
          /\ scan' = [scan EXCEPT ![s] = "error"]
    BY <1>4 DEF FailOrphanedScan
  <2>2. Begun(s) /\ InProgress(s)
    BY <2>1 DEF Begun, InProgress, Active
  <2>3. MoveStep(s, "error")
    BY <1>4, <2>1, <2>2 DEF MoveStep, FailOrphanedScan, scannerVars, analyzerVars, completions
  <2> QED
    BY <1>4, <2>3
<1>5. CASE TakeScan
  <2>1. requests # <<>> /\ Head(requests) \in Scans /\ Head(requests) # None
    BY <1>0, <1>5, Nothing DEF TakeScan, ScansInTurn
  <2>2. current = None /\ next = 1
    BY <1>5 DEF TakeScan, At, Typed, InHand
  <2>3. TakeStep
    BY <1>5, <2>1, <2>2 DEF TakeStep, TakeScan, analyzerVars, completions
  <2> QED
    BY <1>5, <2>3
<1>6. CASE CompleteScan
  <2>1. current \in Scans
    BY <1>6 DEF CompleteScan, At, Typed, TypeOK, InHand
  <2>2. Begun(current) /\ InProgress(current)
    BY <1>0, <2>1, Nothing DEF ScansInTurn, InProgress
  <2>3. MoveStep(current, "complete")
    BY <1>6, <2>2 DEF MoveStep, CompleteScan, Finish, analyzerVars
  <2> QED
    BY <1>6, <2>1, <2>3
<1>7. CASE StartFanOut
  <2>1. current \in Scans /\ known
    BY <1>0, <1>7 DEF StartFanOut, At, Typed, TypeOK, InHand, ScansInTurn
  <2>2. Begun(current) /\ InProgress(current)
    BY <1>0, <2>1, Nothing DEF ScansInTurn, InProgress
  <2>3. MoveStep(current, "analyzing_pending")
    BY <1>7, <2>1, <2>2 DEF MoveStep, StartFanOut, analyzerVars, completions
  <2> QED
    BY <1>7, <2>1, <2>3
<1>8. CASE CreateAnalyzerJob
  <2>1. CreateStep(analyzerTypes[next])
    BY <1>8, NextType DEF CreateStep, CreateAnalyzerJob, analyzerVars, completions
  <2> QED
    BY <1>8, <2>1, NextType
<1>9. CASE EndFanOut
  <2>1. current \in Scans
    BY <1>9 DEF EndFanOut, At, Typed, TypeOK, InHand
  <2>2. next \in 1 .. Len(analyzerTypes) + 1 /\ next > Len(analyzerTypes)
    BY <1>9 DEF EndFanOut, Typed, TypeOK
  <2>3. next = Len(analyzerTypes) + 1
    BY <2>2, Limits
  <2>4. EndFanStep
    BY <1>9, <2>1, <2>3 DEF EndFanStep, EndFanOut, Release, analyzerVars, completions
  <2> QED
    BY <1>9, <2>4
<1>10. CASE TakeAnalysis
  <2>1. working = None /\ step' = "persist"
    BY <1>10 DEF TakeAnalysis, Here, Typed, InHand
  <2>2. \E a \in Analyzers : AnalyseStep(a)
    BY <1>10, <2>1, TakenMessage DEF AnalyseStep, TakeAnalysis, scannerVars, completions
  <2> QED
    BY <1>10, <2>2
<1>11. CASE CompleteAnalyzerJob
  <2>1. working # None /\ step = "end"
    BY <1>11 DEF CompleteAnalyzerJob, Here, Typed, InHand
  <2>2. Scan \in Scans /\ Type \in Analyzers /\ job[Scan][Type] = "running"
    BY <1>0, <2>1, MessageInHand DEF JobsAndMessages
  <2>3. Begun(Scan)
    BY <1>0, <2>2 DEF JobsOfScans
  <2>4. EndStep
    BY <1>11, <2>1, <2>2, <2>3 DEF EndStep, CompleteAnalyzerJob, EndJob, scannerVars
  <2> QED
    BY <1>11, <2>4
<1>12. CASE AutoResolve
  <2>1. ResolveStep
    BY <1>12 DEF ResolveStep, AutoResolve, Here, Typed, InHand, scannerVars, completions
  <2> QED
    BY <1>12, <2>1
<1> QED
  BY <1>1, <1>2, <1>3, <1>4, <1>5, <1>6, <1>7, <1>8, <1>9, <1>10, <1>11, <1>12, NoFault DEF Next

-----------------------------------------------------------------------------
(* The turns of the scans.                                                 *)

\* Where the scans and their jobs live.
LEMMA TurnTypes ==
  ASSUME Typed
  PROVE  /\ scan \in [Scans -> ScanStatuses]
         /\ job \in [Scans -> [Analyzers -> JobStatuses]]
         /\ list \in [Analyzers -> Seq(Messages)]
         /\ requests \in Seq(Scans \cup {None})
         /\ current \in Scans \cup {None}
         /\ next \in 1 .. Len(analyzerTypes) + 1
         /\ completedAt \in [Scans -> Nat] /\ clock \in Nat \ {0}
         /\ early \subseteq Scans
         /\ \A s \in Scans : s \in Nat
<1>1. \A s \in Scans : s \in Nat
  BY Limits DEF Scans
<1> QED
  BY <1>1 DEF Typed, TypeOK

\* One request, or none.
LEMMA OneRequest ==
  ASSUME NEW S, NEW q \in Seq(S), Len(q) <= 1
  PROVE  /\ q # <<>> => Tail(q) = <<>>
         /\ \A e \in S : q = <<>> => /\ Append(q, e) # <<>> /\ Len(Append(q, e)) = 1
                                     /\ Head(Append(q, e)) = e
<1>1. ASSUME q # <<>> PROVE Tail(q) = <<>>
  <2>0. Len(q) \in Nat /\ (Len(q) = 0 => q = <<>>)
    OBVIOUS
  <2>1. Len(q) = 1
    BY <1>1, <2>0
  <2>2. Tail(q) \in Seq(S) /\ Len(Tail(q)) = 0
    BY <1>1, <2>1
  <2> QED
    BY <2>2
<1>2. ASSUME NEW e \in S, q = <<>>
      PROVE  Append(q, e) # <<>> /\ Len(Append(q, e)) = 1 /\ Head(Append(q, e)) = e
  BY <1>2
<1> QED
  BY <1>1, <1>2

LEMMA ScansInTurnNext ==
  ASSUME Typed, Turns, [Next]_vars, faults' = 0
  PROVE  ScansInTurn'
<1>0. ScansInTurn /\ JobsOfScans /\ JobsAndMessages
  BY DEF Turns
<1> USE TurnTypes, Nothing DEF Begun
<1>1. CASE QuietStep
  BY <1>0, <1>1 DEF QuietStep, ScansInTurn
<1>2. ASSUME NEW s \in Scans, AskStep(s) PROVE ScansInTurn'
  <2>1. requests = <<>>
    BY <1>0, <1>2 DEF AskStep, ScansInTurn, Active
  <2>2. Len(requests') = 1 /\ requests' # <<>> /\ Head(requests') = s
    BY <1>0, <1>2, <2>1, OneRequest DEF AskStep, ScansInTurn
  <2>3. scan'[s] = "queued" /\ \A t \in Scans : t # s => scan'[t] = scan[t]
    BY <1>2 DEF AskStep
  <2>4. \A t \in Scans : scan[t] # "none" => t < s
    BY <1>0, <1>2 DEF AskStep, ScansInTurn
  <2>5. \A t \in Scans : t < s => scan[t] # "none"
    BY <1>2 DEF AskStep
  <2>6. known' /\ lost' = {} /\ current' = current
    BY <1>0, <1>2 DEF AskStep, ScansInTurn
  <2>7. current # None => current \in Scans /\ current < s /\ Begun(current)
                          /\ \A t \in Scans : t > current => ~Begun(t)
    BY <1>0, <2>4 DEF ScansInTurn
  <2>8. \A t, u \in Scans : t < u /\ scan'[u] # "none" => scan'[t] # "none"
    BY <1>0, <2>3, <2>4, <2>5 DEF ScansInTurn
  <2>9. ASSUME NEW t \in Scans, scan'[t] # "none" PROVE t <= s
    <3>1. t \in Nat /\ s \in Nat
      OBVIOUS
    <3>2. t = s \/ t < s
      BY <2>3, <2>4, <2>9
    <3> QED
      BY <3>1, <3>2
  <2>10. current # None => scan'[current] = scan[current]
                           /\ \A t \in Scans : t > current => scan'[t] \in {"none", "queued"}
    BY <2>3, <2>7
  <2> QED
    BY <2>2, <2>3, <2>6, <2>7, <2>8, <2>9, <2>10 DEF ScansInTurn
<1>3. CASE TakeStep
  <2>1. requests' = <<>>
    BY <1>0, <1>3, OneRequest DEF TakeStep, ScansInTurn
  <2> DEFINE s == Head(requests)
  <2>2. /\ s \in Scans /\ scan[s] = "queued" /\ current' = s /\ known' /\ lost' = {}
        /\ scan' = [scan EXCEPT ![s] = "scanning"]
    BY <1>0, <1>3 DEF TakeStep, ScansInTurn
  <2>3. /\ \A t \in Scans : scan[t] # "none" => t <= s
        /\ \A t, u \in Scans : t < u /\ scan[u] # "none" => scan[t] # "none"
    BY <1>0, <1>3 DEF TakeStep, ScansInTurn
  <2> HIDE DEF s
  <2>4. scan'[s] = "scanning" /\ \A t \in Scans : t # s => scan'[t] = scan[t]
    BY <2>2
  <2>5. \A t, u \in Scans : t < u /\ scan'[u] # "none" => scan'[t] # "none"
    BY <2>2, <2>3, <2>4
  <2>6. ASSUME NEW t \in Scans, t > s PROVE scan'[t] = "none"
    <3>1. t \in Nat /\ s \in Nat /\ t # s
      BY <2>2, <2>6
    <3>2. ~(t <= s)
      BY <2>6, <3>1
    <3> QED
      BY <2>3, <2>4, <3>1, <3>2
  <2> QED
    BY <2>1, <2>2, <2>4, <2>5, <2>6 DEF ScansInTurn
<1>4. ASSUME NEW s \in Scans, NEW status \in {"complete", "analyzing_pending", "error"},
             MoveStep(s, status)
      PROVE  ScansInTurn'
  <2>1. /\ scan' = [scan EXCEPT ![s] = status] /\ Begun(s)
        /\ UNCHANGED <<requests, known, lost, current>>
    BY <1>4 DEF MoveStep
  <2>2. scan'[s] = status /\ \A t \in Scans : t # s => scan'[t] = scan[t]
    BY <2>1
  <2>3. \A t \in Scans : /\ scan'[t] # "none" <=> scan[t] # "none"
                         /\ scan'[t] = "queued" <=> scan[t] = "queued"
    BY <2>1, <2>2
  <2> QED
    BY <1>0, <2>1, <2>3 DEF ScansInTurn
<1>5. ASSUME NEW a \in Analyzers, CreateStep(a) PROVE ScansInTurn'
  BY <1>0, <1>5 DEF CreateStep, ScansInTurn
<1>6. CASE EndFanStep
  <2>1. /\ scan' = [scan EXCEPT ![current] = "analyzing"] /\ current \in Scans
        /\ current' = None /\ known' /\ UNCHANGED <<requests, lost>>
    BY <1>6 DEF EndFanStep
  <2>2. Begun(current)
    BY <1>0, <2>1 DEF ScansInTurn
  <2>3. \A t \in Scans : /\ scan'[t] # "none" <=> scan[t] # "none"
                         /\ scan'[t] = "queued" <=> scan[t] = "queued"
    BY <2>1, <2>2
  <2> QED
    BY <1>0, <2>1, <2>3 DEF ScansInTurn
<1>7. ASSUME NEW a \in Analyzers, AnalyseStep(a) PROVE ScansInTurn'
  BY <1>0, <1>7 DEF AnalyseStep, ScansInTurn
<1>8. CASE EndStep
  <2>1. /\ Scan \in Scans /\ Begun(Scan)
        /\ scan' = scan \/ scan' = [scan EXCEPT ![Scan] = "complete"]
        /\ UNCHANGED <<requests, known, lost, current>>
    BY <1>8 DEF EndStep, Finish
  <2>2. \A t \in Scans : /\ scan'[t] # "none" <=> scan[t] # "none"
                         /\ scan'[t] = "queued" <=> scan[t] = "queued"
    BY <2>1
  <2> QED
    BY <1>0, <2>1, <2>2 DEF ScansInTurn
<1>9. CASE ResolveStep
  BY <1>0, <1>9 DEF ResolveStep, ScansInTurn
<1> QED
  BY <1>1, <1>2, <1>3, <1>4, <1>5, <1>6, <1>7, <1>8, <1>9, TurnStep

\* A scan that has begun stays so.
LEMMA BegunStep ==
  ASSUME Typed, Turns, [Next]_vars, faults' = 0
  PROVE  /\ \A s \in Scans : Begun(s) => Begun(s)'
         /\ \A s \in Scans : scan[s] # "none" => scan'[s] # "none"
         /\ ~TakeStep => \A s \in Scans : Begun(s)' => Begun(s)
<1> USE TurnTypes DEF Begun
<1>0. \A s \in Scans : Begun(s) => scan[s] # "none"
  OBVIOUS
<1>1. CASE scan' = scan
  BY <1>1
<1>2. ASSUME NEW s \in Scans, scan[s] = "none", scan' = [scan EXCEPT ![s] = "queued"]
      PROVE  /\ \A t \in Scans : Begun(t) <=> Begun(t)'
             /\ \A t \in Scans : scan[t] # "none" => scan'[t] # "none"
  BY <1>2
<1>3. ASSUME NEW s \in Scans, Begun(s), NEW status, status \notin {"none", "queued"},
             scan' = [scan EXCEPT ![s] = status]
      PROVE  /\ \A t \in Scans : Begun(t) <=> Begun(t)'
             /\ \A t \in Scans : scan[t] # "none" => scan'[t] # "none"
  BY <1>3
<1>4. CASE TakeStep
  <2>1. Head(requests) \in Scans /\ scan' = [scan EXCEPT ![Head(requests)] = "scanning"]
    BY <1>4 DEF TakeStep
  <2> QED
    BY <1>4, <2>1
<1>5. CASE \E s \in Scans : AskStep(s)
  BY <1>2, <1>5 DEF AskStep
<1>6. CASE \E s \in Scans, status \in {"complete", "analyzing_pending", "error"} :
             MoveStep(s, status)
  BY <1>3, <1>6 DEF MoveStep
<1>7. CASE EndFanStep
  <2>1. current \in Scans /\ Begun(current) /\ scan' = [scan EXCEPT ![current] = "analyzing"]
    BY <1>7, Nothing DEF EndFanStep, Turns, ScansInTurn
  <2> QED
    BY <1>3, <2>1
<1>8. CASE EndStep
  BY <1>1, <1>3, <1>8 DEF EndStep, Finish
<1>9. CASE QuietStep \/ (\E a \in Analyzers : CreateStep(a) \/ AnalyseStep(a)) \/ ResolveStep
  BY <1>1, <1>9 DEF QuietStep, CreateStep, AnalyseStep, ResolveStep
<1> QED
  BY <1>4, <1>5, <1>6, <1>7, <1>8, <1>9, TurnStep

LEMMA JobsOfScansNext ==
  ASSUME Typed, Turns, [Next]_vars, faults' = 0
  PROVE  JobsOfScans'
<1>0. /\ ScansInTurn
      /\ \A s \in Scans, a \in Analyzers : job[s][a] # "none" => Begun(s)
      /\ \A s \in Scans, a \in Analyzers : Begun(s) /\ s # current => job[s][a] # "none"
      /\ current # None =>
           \A i \in DOMAIN analyzerTypes :
             job[current][analyzerTypes[i]] = "none" <=> i >= next
  BY DEF Turns, JobsOfScans
<1> USE TurnTypes, Nothing, Limits
<1>1. CASE ~TakeStep /\ UNCHANGED <<job, current, next>>
  BY <1>0, <1>1, BegunStep DEF JobsOfScans
<1>2. CASE TakeStep
  <2> DEFINE s == Head(requests)
  <2>1. /\ s \in Scans /\ scan[s] = "queued" /\ current = None /\ current' = s
        /\ next' = 1 /\ job' = job
        /\ scan' = [scan EXCEPT ![s] = "scanning"]
    BY <1>0, <1>2 DEF TakeStep, ScansInTurn
  <2> HIDE DEF s
  <2>2. \A a \in Analyzers : job[s][a] = "none"
    BY <1>0, <2>1 DEF Begun
  <2>3. \A t \in Scans : t # s => (Begun(t)' <=> Begun(t))
    BY <2>1 DEF Begun
  <2>4. \A t \in Scans, a \in Analyzers : job'[t][a] # "none" => Begun(t)'
    BY <1>0, <2>1, BegunStep
  <2>5. \A t \in Scans, a \in Analyzers : Begun(t)' /\ t # current' => job'[t][a] # "none"
    BY <1>0, <2>1, <2>3
  <2>6. \A i \in DOMAIN analyzerTypes : i >= next'
    BY <2>1
  <2> QED
    BY <2>1, <2>2, <2>4, <2>5, <2>6 DEF JobsOfScans
<1>3. ASSUME NEW a \in Analyzers, CreateStep(a) PROVE JobsOfScans'
  <2>1. /\ current \in Scans /\ next \in 1 .. Len(analyzerTypes) /\ a = analyzerTypes[next]
        /\ job' = [job EXCEPT ![current][a] = "queued"]
        /\ next' = next + 1 /\ current' = current /\ scan' = scan
    BY <1>3 DEF CreateStep
  <2>2. Begun(current)
    BY <1>0, <2>1 DEF ScansInTurn
  <2>3. /\ job'[current][a] = "queued"
        /\ \A b \in Analyzers : b # a => job'[current][b] = job[current][b]
        /\ \A t \in Scans : t # current => job'[t] = job[t]
    BY <2>1
  <2>4. \A t \in Scans, b \in Analyzers : job'[t][b] # "none" => Begun(t)'
    BY <1>0, <2>1, <2>2, <2>3 DEF Begun
  <2>5. \A t \in Scans, b \in Analyzers : Begun(t)' /\ t # current' => job'[t][b] # "none"
    BY <1>0, <2>1, <2>3 DEF Begun
  <2>6. ASSUME NEW i \in DOMAIN analyzerTypes
        PROVE  job'[current][analyzerTypes[i]] = "none" <=> i >= next'
    <3>1. CASE i = next
      BY <2>1, <2>3, <3>1
    <3>2. CASE i # next
      <4>1. analyzerTypes[i] # a /\ analyzerTypes[i] \in Analyzers
        BY <2>1, <3>2, ResultsAssumption
      <4>2. job'[current][analyzerTypes[i]] = job[current][analyzerTypes[i]]
        BY <2>3, <4>1
      <4>3. i >= next <=> i >= next'
        BY <2>1, <3>2
      <4> QED
        BY <1>0, <2>1, <4>2, <4>3
    <3> QED
      BY <3>1, <3>2
  <2> QED
    BY <2>1, <2>4, <2>5, <2>6 DEF JobsOfScans
<1>4. CASE EndFanStep
  <2>1. /\ current \in Scans /\ next = Len(analyzerTypes) + 1
        /\ job' = job /\ current' = None
    BY <1>4 DEF EndFanStep
  <2>2. \A a \in Analyzers : job[current][a] # "none"
    BY <1>0, <2>1 DEF Analyzers
  <2>3. ~TakeStep
    BY <2>1 DEF TakeStep
  <2> QED
    BY <1>0, <2>1, <2>2, <2>3, BegunStep DEF JobsOfScans
\* A job that is there stays there.
<1>5. ASSUME NEW s \in Scans, NEW a \in Analyzers, NEW status, status # "none",
             job[s][a] # "none", job' = [job EXCEPT ![s][a] = status],
             ~TakeStep, UNCHANGED <<current, next>>
      PROVE  JobsOfScans'
  <2>1. \A t \in Scans, b \in Analyzers : job'[t][b] = "none" <=> job[t][b] = "none"
    BY <1>5
  <2>2. \A t \in Scans : Begun(t)' <=> Begun(t)
    BY <1>5, BegunStep
  <2>3. \A t \in Scans, b \in Analyzers : job'[t][b] # "none" => Begun(t)'
    BY <1>0, <2>1, <2>2
  <2>4. \A t \in Scans, b \in Analyzers : Begun(t)' /\ t # current' => job'[t][b] # "none"
    BY <1>0, <1>5, <2>1, <2>2
  <2>5. current' # None =>
          \A i \in DOMAIN analyzerTypes :
            job'[current'][analyzerTypes[i]] = "none" <=> i >= next'
    BY <1>0, <1>5, <2>1
  <2> QED
    BY <2>3, <2>4, <2>5 DEF JobsOfScans
<1>6. ASSUME NEW a \in Analyzers, AnalyseStep(a) PROVE JobsOfScans'
  <2> DEFINE s == Head(list[a]).scan
  <2>1. /\ s \in Scans /\ job' = [job EXCEPT ![s][a] = "running"]
        /\ list[a] \in Seq(Messages) /\ list[a] # <<>>
        /\ UNCHANGED <<current, next>> /\ working' # None /\ working = None
    BY <1>6, Nothing DEF AnalyseStep
  <2>4. 1 \in 1 .. Len(list[a]) /\ Head(list[a]) = list[a][1]
    BY <2>1
  <2>2. job[list[a][1].scan][a] = "queued" /\ Head(list[a]) = list[a][1]
    BY <2>4 DEF Turns, JobsAndMessages
  <2>3. ~TakeStep
    BY <2>1 DEF TakeStep
  <2> QED
    BY <1>5, <2>1, <2>2, <2>3
<1>7. CASE EndStep
  <2>1. ~TakeStep
    BY <1>7 DEF EndStep, TakeStep
  <2> QED
    BY <1>5, <1>7, <2>1 DEF EndStep
<1>8. CASE ResolveStep \/ (\E s \in Scans : AskStep(s)) \/ QuietStep
  BY <1>1, <1>2, <1>8 DEF ResolveStep, AskStep, QuietStep
<1>9. CASE \E s \in Scans, status \in {"complete", "analyzing_pending", "error"} :
             MoveStep(s, status)
  BY <1>1, <1>2, <1>9 DEF MoveStep
<1> QED
  BY <1>2, <1>3, <1>4, <1>6, <1>7, <1>8, <1>9, TurnStep

-----------------------------------------------------------------------------
(* The jobs and the lists.                                                 *)

LEMMA AppendElements ==
  ASSUME NEW S, NEW l \in Seq(S), NEW e \in S
  PROVE  /\ Len(Append(l, e)) = Len(l) + 1 /\ Len(l) \in Nat
         /\ \A i \in 1 .. Len(l) : Append(l, e)[i] = l[i]
         /\ Append(l, e)[Len(l) + 1] = e
OBVIOUS

LEMMA TailElements ==
  ASSUME NEW S, NEW l \in Seq(S), l # <<>>
  PROVE  /\ Head(l) = l[1]
         /\ Len(l) \in Nat /\ Len(l) > 0
         /\ Len(Tail(l)) = Len(l) - 1
         /\ \A i \in 1 .. Len(Tail(l)) : Tail(l)[i] = l[i + 1]
OBVIOUS

MessagesQueued(a) ==
  \A i \in 1 .. Len(list[a]) : job[list[a][i].scan][a] = "queued"
MessagesInOrder(a) ==
  \A i, j \in 1 .. Len(list[a]) : i < j => list[a][i].scan < list[a][j].scan
QueuedHasMessage(a) ==
  \A s \in Scans :
    job[s][a] = "queued" => \E i \in 1 .. Len(list[a]) : list[a][i].scan = s
RunningInHand ==
  /\ working # None =>
       job[Scan][Type] = IF step = "resolve" THEN "complete" ELSE "running"
  /\ \A s \in Scans, a \in Analyzers :
       job[s][a] = "running" => working # None /\ s = Scan /\ a = Type

LEMMA JobsAndMessagesParts ==
  JobsAndMessages <=> /\ \A a \in Analyzers : /\ MessagesQueued(a)
                                              /\ MessagesInOrder(a)
                                              /\ QueuedHasMessage(a)
                      /\ RunningInHand
BY DEF JobsAndMessages, MessagesQueued, MessagesInOrder, QueuedHasMessage, RunningInHand

\* The scan of a message in a list.
LEMMA ListedScan ==
  ASSUME Typed, NEW a \in Analyzers, NEW i \in 1 .. Len(list[a])
  PROVE  list[a][i].scan \in Scans
<1>1. list[a] \in Seq(Messages)
  BY TurnTypes
<1>2. list[a][i] \in Messages
  BY <1>1
<1> QED
  BY <1>2 DEF Messages

LEMMA CreateKeepsLists ==
  ASSUME Typed, Turns, NEW b \in Analyzers, CreateStep(b)
  PROVE  JobsAndMessages'
<1> DEFINE c == current
           m == [scan |-> c, retry |-> 0]
<1>0. /\ ScansInTurn /\ JobsOfScans
      /\ \A a \in Analyzers : MessagesQueued(a) /\ MessagesInOrder(a) /\ QueuedHasMessage(a)
      /\ RunningInHand
  BY JobsAndMessagesParts DEF Turns
<1>1. /\ c \in Scans /\ next \in 1 .. Len(analyzerTypes) /\ b = analyzerTypes[next]
      /\ job' = [job EXCEPT ![c][b] = "queued"]
      /\ list' = [list EXCEPT ![b] = Append(list[b], m)]
      /\ working' = working /\ step' = step
  BY DEF CreateStep
<1>2. job[c][b] = "none"
  BY <1>0, <1>1, Nothing, Limits DEF JobsOfScans
<1>3. 0 \in 0 .. maxRetries
  BY Limits
<1>4. m \in Messages /\ m.scan = c
  BY <1>1, <1>3 DEF Messages
<1>5. list[b] \in Seq(Messages) /\ list \in [Analyzers -> Seq(Messages)]
      /\ job \in [Scans -> [Analyzers -> JobStatuses]]
  BY TurnTypes
<1> HIDE DEF m
<1>6. /\ list'[b] = Append(list[b], m) /\ \A a \in Analyzers : a # b => list'[a] = list[a]
      /\ job'[c][b] = "queued"
      /\ \A s \in Scans, a \in Analyzers : s # c \/ a # b => job'[s][a] = job[s][a]
  BY <1>1, <1>5
<1>7. /\ Len(list'[b]) = Len(list[b]) + 1 /\ Len(list[b]) \in Nat
      /\ \A i \in 1 .. Len(list[b]) : list'[b][i] = list[b][i]
      /\ list'[b][Len(list[b]) + 1] = m
  BY <1>4, <1>5, <1>6, AppendElements
<1>8. ASSUME NEW i \in 1 .. Len(list[b])
      PROVE  list[b][i].scan \in Scans /\ list[b][i].scan # c /\ list[b][i].scan < c
  <2>1. list[b][i].scan \in Scans /\ job[list[b][i].scan][b] = "queued"
    BY <1>0, ListedScan DEF MessagesQueued
  <2>2. Begun(list[b][i].scan)
    BY <1>0, <2>1 DEF JobsOfScans
  <2>3. ~(list[b][i].scan > c)
    BY <1>0, <1>1, <2>1, <2>2, Nothing DEF ScansInTurn
  <2>4. list[b][i].scan # c
    BY <1>2, <2>1
  <2>5. c \in Nat /\ list[b][i].scan \in Nat
    BY <1>1, <2>1, TurnTypes
  <2> QED
    BY <2>1, <2>3, <2>4, <2>5
<1>9. ASSUME NEW a \in Analyzers
      PROVE  MessagesQueued(a)' /\ MessagesInOrder(a)' /\ QueuedHasMessage(a)'
  <2>1. CASE a # b
    <3>1. list'[a] = list[a] /\ \A s \in Scans : job'[s][a] = job[s][a]
      BY <1>6, <2>1
    <3>2. MessagesQueued(a)'
      BY <1>0, <3>1, ListedScan DEF MessagesQueued
    <3> QED
      BY <1>0, <3>1, <3>2 DEF MessagesInOrder, QueuedHasMessage
  <2>2. CASE a = b
    <3>1. ASSUME NEW i \in 1 .. Len(list'[b]) PROVE job'[list'[b][i].scan][b] = "queued"
      <4>1. CASE i = Len(list[b]) + 1
        BY <1>4, <1>6, <1>7, <4>1
      <4>2. CASE i \in 1 .. Len(list[b])
        BY <1>0, <1>6, <1>7, <1>8, <4>2 DEF MessagesQueued
      <4> QED
        BY <1>7, <4>1, <4>2
    <3>2. ASSUME NEW i \in 1 .. Len(list'[b]), NEW j \in 1 .. Len(list'[b]), i < j
          PROVE  list'[b][i].scan < list'[b][j].scan
      <4>1. i \in 1 .. Len(list[b])
        BY <1>7, <3>2
      <4>2. CASE j = Len(list[b]) + 1
        BY <1>4, <1>7, <1>8, <4>1, <4>2
      <4>3. CASE j \in 1 .. Len(list[b])
        BY <1>0, <1>7, <3>2, <4>1, <4>3 DEF MessagesInOrder
      <4> QED
        BY <1>7, <4>2, <4>3
    <3>3. ASSUME NEW s \in Scans, job'[s][b] = "queued"
          PROVE  \E i \in 1 .. Len(list'[b]) : list'[b][i].scan = s
      <4>1. CASE s = c
        <5>1. Len(list[b]) + 1 \in 1 .. Len(list'[b])
          BY <1>7
        <5> QED
          BY <1>4, <1>7, <4>1, <5>1
      <4>2. CASE s # c
        <5>1. PICK i \in 1 .. Len(list[b]) : list[b][i].scan = s
          BY <1>0, <1>6, <3>3, <4>2 DEF QueuedHasMessage
        <5>2. i \in 1 .. Len(list'[b]) /\ list'[b][i] = list[b][i]
          BY <1>7
        <5> QED
          BY <5>1, <5>2
      <4> QED
        BY <4>1, <4>2
    <3> QED
      BY <2>2, <3>1, <3>2, <3>3 DEF MessagesQueued, MessagesInOrder, QueuedHasMessage
  <2> QED
    BY <2>1, <2>2
<1>10. RunningInHand'
  <2>1. working' # None => Scan' = Scan /\ Type' = Type /\ Scan \in Scans /\ Type \in Analyzers
    BY <1>1, MessageInHand DEF Scan, Type
  <2>2. working # None => job[Scan][Type] # "none"
    BY <1>0 DEF RunningInHand
  <2>3. ASSUME NEW s \in Scans, NEW a \in Analyzers, job'[s][a] = "running"
        PROVE  job[s][a] = "running"
    BY <1>6, <2>3
  <2>4. working # None => job'[Scan][Type] = job[Scan][Type]
    BY <1>1, <1>2, <1>6, <2>1, <2>2
  <2> QED
    BY <1>0, <1>1, <2>1, <2>3, <2>4 DEF RunningInHand
<1> QED
  BY <1>9, <1>10, JobsAndMessagesParts DEF JobsAndMessages, MessagesQueued, MessagesInOrder,
                                           QueuedHasMessage, RunningInHand

\* The message the analyzer takes is that of the oldest scan of the list.
LEMMA TakenIsOldest ==
  ASSUME Typed, Turns, NEW b \in Analyzers, AnalyseStep(b)
  PROVE  /\ Head(list[b]).scan \in Scans
         /\ job[Head(list[b]).scan][b] = "queued"
         /\ \A i \in 1 .. Len(list[b]) : i # 1 => Head(list[b]).scan < list[b][i].scan
         /\ \A s \in Scans :
              job[s][b] \in Unanalysed => Head(list[b]).scan <= s
<1>1. /\ list[b] \in Seq(Messages) /\ list[b] # <<>> /\ Head(list[b]).scan \in Scans
      /\ working = None
  BY DEF AnalyseStep
<1>2. Head(list[b]) = list[b][1] /\ 1 \in 1 .. Len(list[b]) /\ Len(list[b]) \in Nat
  BY <1>1, TailElements
<1>3. MessagesQueued(b) /\ MessagesInOrder(b) /\ QueuedHasMessage(b) /\ RunningInHand
  BY JobsAndMessagesParts DEF Turns
<1>4. job[Head(list[b]).scan][b] = "queued"
  BY <1>2, <1>3 DEF MessagesQueued
<1>5. ASSUME NEW i \in 1 .. Len(list[b]), i # 1
      PROVE  Head(list[b]).scan < list[b][i].scan
  BY <1>2, <1>3, <1>5 DEF MessagesInOrder
<1>6. ASSUME NEW s \in Scans, job[s][b] \in Unanalysed
      PROVE  Head(list[b]).scan <= s
  <2>1. job[s][b] = "queued"
    BY <1>1, <1>3, <1>6 DEF RunningInHand, Unanalysed
  <2>2. PICK i \in 1 .. Len(list[b]) : list[b][i].scan = s
    BY <1>3, <2>1 DEF QueuedHasMessage
  <2>3. s \in Nat /\ Head(list[b]).scan \in Nat
    BY <1>1, TurnTypes
  <2>4. i = 1 \/ Head(list[b]).scan < s
    BY <1>5, <2>2
  <2> QED
    BY <1>2, <2>2, <2>3, <2>4
<1> QED
  BY <1>1, <1>4, <1>5, <1>6

LEMMA AnalyseKeepsLists ==
  ASSUME Typed, Turns, NEW b \in Analyzers, AnalyseStep(b)
  PROVE  JobsAndMessages'
<1> DEFINE s == Head(list[b]).scan
<1>0. /\ \A a \in Analyzers : MessagesQueued(a) /\ MessagesInOrder(a) /\ QueuedHasMessage(a)
      /\ RunningInHand
  BY JobsAndMessagesParts DEF Turns
<1>1. /\ s \in Scans /\ list[b] \in Seq(Messages) /\ list[b] # <<>>
      /\ list' = [list EXCEPT ![b] = Tail(list[b])]
      /\ job' = [job EXCEPT ![s][b] = "running"]
      /\ working = None /\ working' = <<Head(list[b]), b>> /\ step' = "persist"
      /\ Head(list[b]) \in Messages
  BY DEF AnalyseStep
<1>2. /\ list \in [Analyzers -> Seq(Messages)]
      /\ job \in [Scans -> [Analyzers -> JobStatuses]]
  BY TurnTypes
<1>3. /\ list'[b] = Tail(list[b]) /\ \A a \in Analyzers : a # b => list'[a] = list[a]
      /\ job'[s][b] = "running"
      /\ \A t \in Scans, a \in Analyzers : t # s \/ a # b => job'[t][a] = job[t][a]
  BY <1>1, <1>2
<1>4. /\ Head(list[b]) = list[b][1]
      /\ Len(list[b]) \in Nat /\ Len(list'[b]) = Len(list[b]) - 1
      /\ \A i \in 1 .. Len(list'[b]) : /\ list'[b][i] = list[b][i + 1]
                                       /\ i + 1 \in 1 .. Len(list[b]) /\ i + 1 # 1
  <2>1. /\ Head(list[b]) = list[b][1]
        /\ Len(list[b]) \in Nat /\ Len(list[b]) > 0
        /\ Len(list'[b]) = Len(list[b]) - 1
        /\ \A i \in 1 .. Len(list'[b]) : list'[b][i] = list[b][i + 1]
    <3> DEFINE l == list[b]
    <3>1. l \in Seq(Messages) /\ l # <<>>
      BY <1>1
    <3>2. list'[b] = Tail(l)
      BY <1>3
    <3> HIDE DEF l
    <3>3. /\ Head(l) = l[1]
          /\ Len(l) \in Nat /\ Len(l) > 0
          /\ Len(Tail(l)) = Len(l) - 1
          /\ \A i \in 1 .. Len(Tail(l)) : Tail(l)[i] = l[i + 1]
      BY <3>1, TailElements
    <3> QED
      BY <3>2, <3>3 DEF l
  <2>2. \A i \in 1 .. Len(list'[b]) : i + 1 \in 1 .. Len(list[b]) /\ i + 1 # 1
    BY <2>1
  <2> QED
    BY <2>1, <2>2
<1>5. /\ \A i \in 1 .. Len(list[b]) : i # 1 => s < list[b][i].scan /\ list[b][i].scan \in Scans
      /\ s \in Nat /\ \A t \in Scans : t \in Nat
  BY <1>1, TakenIsOldest, ListedScan, TurnTypes
<1> HIDE DEF s
<1>6. ASSUME NEW a \in Analyzers
      PROVE  MessagesQueued(a)' /\ MessagesInOrder(a)' /\ QueuedHasMessage(a)'
  <2>1. CASE a # b
    <3>1. list'[a] = list[a] /\ \A t \in Scans : job'[t][a] = job[t][a]
      BY <1>3, <2>1
    <3>2. MessagesQueued(a)'
      BY <1>0, <3>1, ListedScan DEF MessagesQueued
    <3> QED
      BY <1>0, <3>1, <3>2 DEF MessagesInOrder, QueuedHasMessage
  <2>2. CASE a = b
    <3>1. ASSUME NEW i \in 1 .. Len(list'[b]) PROVE job'[list'[b][i].scan][b] = "queued"
      <4>1. /\ list'[b][i] = list[b][i + 1] /\ i + 1 \in 1 .. Len(list[b]) /\ i + 1 # 1
        BY <1>4
      <4>2. /\ list[b][i + 1].scan \in Scans /\ s < list[b][i + 1].scan
            /\ job[list[b][i + 1].scan][b] = "queued"
        BY <1>0, <1>5, <4>1 DEF MessagesQueued
      <4>3. list[b][i + 1].scan # s
        BY <1>5, <4>2
      <4> QED
        BY <1>3, <4>1, <4>2, <4>3
    <3>2. ASSUME NEW i \in 1 .. Len(list'[b]), NEW j \in 1 .. Len(list'[b]), i < j
          PROVE  list'[b][i].scan < list'[b][j].scan
      <4>1. i + 1 < j + 1 /\ i + 1 \in 1 .. Len(list[b]) /\ j + 1 \in 1 .. Len(list[b])
        BY <1>4, <3>2
      <4>2. list[b][i + 1].scan < list[b][j + 1].scan
        BY <1>0, <4>1 DEF MessagesInOrder
      <4> QED
        BY <1>4, <4>2
    <3>3. ASSUME NEW t \in Scans, job'[t][b] = "queued"
          PROVE  \E i \in 1 .. Len(list'[b]) : list'[b][i].scan = t
      <4>1. t # s /\ job[t][b] = "queued"
        BY <1>3, <3>3
      <4>2. PICK i \in 1 .. Len(list[b]) : list[b][i].scan = t
        BY <1>0, <4>1 DEF QueuedHasMessage
      <4>3. i # 1
        BY <1>4, <4>1, <4>2 DEF s
      <4>4. i - 1 \in 1 .. Len(list'[b]) /\ (i - 1) + 1 = i
        BY <1>4, <4>3
      <4>5. list'[b][i - 1] = list[b][i]
        BY <1>4, <4>4
      <4> QED
        BY <4>2, <4>4, <4>5
    <3> QED
      BY <2>2, <3>1, <3>2, <3>3 DEF MessagesQueued, MessagesInOrder, QueuedHasMessage
  <2> QED
    BY <2>1, <2>2
<1>7. RunningInHand'
  <2>1. Scan' = s /\ Type' = b /\ working' # None
    BY <1>1, Nothing DEF Scan, Type, s
  <2>2. ASSUME NEW t \in Scans, NEW a \in Analyzers, job'[t][a] = "running"
        PROVE  t = s /\ a = b
    BY <1>0, <1>1, <1>3, <2>2 DEF RunningInHand
  <2> QED
    BY <1>1, <1>3, <2>1, <2>2 DEF RunningInHand
<1> QED
  BY <1>6, <1>7 DEF JobsAndMessages, MessagesQueued, MessagesInOrder, QueuedHasMessage,
                    RunningInHand

LEMMA EndKeepsLists ==
  ASSUME Typed, Turns, EndStep
  PROVE  JobsAndMessages'
<1>0. /\ \A a \in Analyzers : MessagesQueued(a) /\ MessagesInOrder(a) /\ QueuedHasMessage(a)
      /\ RunningInHand
  BY JobsAndMessagesParts DEF Turns
<1>1. /\ working # None /\ step = "end"
      /\ Scan \in Scans /\ Type \in Analyzers /\ job[Scan][Type] = "running"
      /\ job' = [job EXCEPT ![Scan][Type] = "complete"]
      /\ \/ step' = "resolve" /\ working' = working
         \/ working' = None
      /\ list' = list
  BY DEF EndStep
<1>2. job \in [Scans -> [Analyzers -> JobStatuses]]
  BY TurnTypes
<1>3. /\ job'[Scan][Type] = "complete"
      /\ \A s \in Scans, a \in Analyzers : s # Scan \/ a # Type => job'[s][a] = job[s][a]
      /\ \A s \in Scans, a \in Analyzers : job'[s][a] = "queued" <=> job[s][a] = "queued"
  BY <1>1, <1>2
<1>4. ASSUME NEW a \in Analyzers
      PROVE  MessagesQueued(a)' /\ MessagesInOrder(a)' /\ QueuedHasMessage(a)'
  <2>1. MessagesQueued(a)'
    BY <1>0, <1>1, <1>3, ListedScan DEF MessagesQueued
  <2> QED
    BY <1>0, <1>1, <1>3, <2>1 DEF MessagesInOrder, QueuedHasMessage
<1>5. \A s \in Scans, a \in Analyzers : job'[s][a] # "running"
  BY <1>0, <1>3 DEF RunningInHand
<1>6. working' # None => Scan' = Scan /\ Type' = Type /\ step' = "resolve"
  BY <1>1 DEF Scan, Type
<1>7. RunningInHand'
  BY <1>3, <1>5, <1>6 DEF RunningInHand
<1> QED
  BY <1>4, <1>7 DEF JobsAndMessages, MessagesQueued, MessagesInOrder, QueuedHasMessage,
                    RunningInHand

LEMMA JobsAndMessagesNext ==
  ASSUME Typed, Turns, [Next]_vars, faults' = 0
  PROVE  JobsAndMessages'
<1>0. JobsAndMessages
  BY DEF Turns
<1>1. ASSUME UNCHANGED <<job, list, working>>,
             step' = step \/ (step = "persist" /\ step' = "end")
      PROVE  JobsAndMessages'
  <2>1. (step' = "resolve") <=> (step = "resolve")
    BY <1>1
  <2>2. Scan' = Scan /\ Type' = Type
    BY <1>1 DEF Scan, Type
  <2> QED
    BY <1>0, <1>1, <2>1, <2>2 DEF JobsAndMessages
<1>2. CASE QuietStep
  BY <1>1, <1>2 DEF QuietStep
<1>3. CASE \/ (\E s \in Scans : AskStep(s)) \/ TakeStep \/ EndFanStep
           \/ \E s \in Scans, status \in {"complete", "analyzing_pending", "error"} :
                MoveStep(s, status)
  BY <1>1, <1>3 DEF AskStep, TakeStep, EndFanStep, MoveStep
<1>4. CASE ResolveStep
  <2>1. /\ working # None /\ step = "resolve" /\ working' = None
        /\ UNCHANGED <<job, list>>
    BY <1>4 DEF ResolveStep
  <2>2. Scan \in Scans /\ Type \in Analyzers
    BY <2>1, MessageInHand
  <2>3. \A s \in Scans, a \in Analyzers : job[s][a] # "running"
    BY <1>0, <2>1, <2>2 DEF JobsAndMessages
  <2> QED
    BY <1>0, <2>1, <2>3 DEF JobsAndMessages
<1> QED
  BY <1>2, <1>3, <1>4, CreateKeepsLists, AnalyseKeepsLists, EndKeepsLists, TurnStep

LEMMA OlderFirstNext ==
  ASSUME Typed, Turns, [Next]_vars, faults' = 0
  PROVE  OlderFirst'
<1>0. /\ ScansInTurn /\ JobsOfScans /\ OlderFirst
      /\ job \in [Scans -> [Analyzers -> JobStatuses]]
      /\ \A s \in Scans : s \in Nat
  BY TurnTypes DEF Turns
<1>1. CASE job' = job
  BY <1>0, <1>1 DEF OlderFirst
<1>2. ASSUME NEW b \in Analyzers, CreateStep(b) PROVE OlderFirst'
  <2>1. current \in Scans /\ job' = [job EXCEPT ![current][b] = "queued"]
    BY <1>2 DEF CreateStep
  <2>2. \A t \in Scans : current < t => job[t][b] = "none"
    BY <1>0, <2>1, Nothing DEF ScansInTurn, JobsOfScans
  <2>3. /\ job'[current][b] = "queued"
        /\ \A s \in Scans, a \in Analyzers : s # current \/ a # b => job'[s][a] = job[s][a]
    BY <1>0, <2>1
  <2>4. ASSUME NEW s \in Scans, NEW t \in Scans, NEW a \in Analyzers, s < t,
               job'[s][a] \in Unanalysed
        PROVE  job'[t][a] \in {"none", "queued"}
    <3>1. s # t
      BY <1>0, <2>4
    <3>2. CASE a = b /\ s = current
      BY <2>2, <2>3, <2>4, <3>1, <3>2
    <3>3. CASE a = b /\ t = current
      BY <2>3, <3>3
    <3>4. CASE a # b \/ (s # current /\ t # current)
      BY <1>0, <2>3, <2>4, <3>4 DEF OlderFirst
    <3> QED
      BY <3>2, <3>3, <3>4
  <2> QED
    BY <2>4 DEF OlderFirst
<1>3. ASSUME NEW b \in Analyzers, AnalyseStep(b) PROVE OlderFirst'
  <2> DEFINE h == Head(list[b]).scan
  <2>1. /\ h \in Scans /\ job' = [job EXCEPT ![h][b] = "running"]
        /\ job[h][b] = "queued"
        /\ \A s \in Scans : job[s][b] \in Unanalysed => h <= s
    BY <1>3, TakenIsOldest DEF AnalyseStep
  <2> HIDE DEF h
  <2>2. /\ job'[h][b] = "running"
        /\ \A s \in Scans, a \in Analyzers : s # h \/ a # b => job'[s][a] = job[s][a]
    BY <1>0, <2>1
  <2>3. ASSUME NEW s \in Scans, NEW t \in Scans, NEW a \in Analyzers, s < t,
               job'[s][a] \in Unanalysed
        PROVE  job'[t][a] \in {"none", "queued"}
    <3>1. s \in Nat /\ t \in Nat /\ h \in Nat
      BY <1>0, <2>1
    <3>2. job[s][a] \in Unanalysed
      BY <2>1, <2>2, <2>3 DEF Unanalysed
    <3>3. CASE a = b /\ t = h
      BY <2>1, <2>3, <3>1, <3>2, <3>3
    <3>4. CASE a # b \/ t # h
      BY <1>0, <2>2, <2>3, <3>2, <3>4 DEF OlderFirst
    <3> QED
      BY <3>3, <3>4
  <2> QED
    BY <2>3 DEF OlderFirst
<1>4. CASE EndStep
  <2>1. /\ Scan \in Scans /\ Type \in Analyzers /\ job[Scan][Type] = "running"
        /\ job' = [job EXCEPT ![Scan][Type] = "complete"]
    BY <1>4 DEF EndStep
  <2>2. /\ job'[Scan][Type] = "complete"
        /\ \A s \in Scans, a \in Analyzers : s # Scan \/ a # Type => job'[s][a] = job[s][a]
    BY <1>0, <2>1
  <2>3. ASSUME NEW s \in Scans, NEW t \in Scans, NEW a \in Analyzers, s < t,
               job'[s][a] \in Unanalysed
        PROVE  job'[t][a] \in {"none", "queued"}
    <3>1. ~(s = Scan /\ a = Type)
      BY <2>2, <2>3 DEF Unanalysed
    <3>2. job[s][a] \in Unanalysed
      BY <2>2, <2>3, <3>1
    <3>3. job[t][a] \in {"none", "queued"}
      BY <1>0, <2>3, <3>2 DEF OlderFirst
    <3>4. ~(t = Scan /\ a = Type)
      BY <2>1, <3>3
    <3> QED
      BY <2>2, <3>3, <3>4
  <2> QED
    BY <2>3 DEF OlderFirst
<1>5. CASE QuietStep \/ (\E s \in Scans : AskStep(s)) \/ TakeStep \/ EndFanStep \/ ResolveStep
  BY <1>1, <1>5 DEF QuietStep, AskStep, TakeStep, EndFanStep, ResolveStep
<1>6. CASE \E s \in Scans, status \in {"complete", "analyzing_pending", "error"} :
             MoveStep(s, status)
  BY <1>1, <1>6 DEF MoveStep
<1> QED
  BY <1>2, <1>3, <1>4, <1>5, <1>6, TurnStep

LEMMA TurnsNext ==
  ASSUME Typed, Turns, [Next]_vars, faults' = 0
  PROVE  Turns'
BY ScansInTurnNext, JobsOfScansNext, JobsAndMessagesNext, OlderFirstNext DEF Turns

-----------------------------------------------------------------------------
(* Who is done.                                                            *)

\* Nobody takes up again a scan that is done.
LEMMA DoneStep ==
  ASSUME Typed, Turns, [Next]_vars, faults' = 0,
         NEW s \in Scans, scan[s] # "none", ~InProgress(s)
  PROVE  /\ ~InProgress(s)'
         /\ scan'[s] = scan[s]
         /\ completedAt'[s] = completedAt[s]
         /\ job'[s] = job[s]
<1>0. /\ scan[s] \notin Active \cup {"analyzing_pending"}
      /\ \A a \in Analyzers : job[s][a] \notin Unanalysed
      /\ s # current
      /\ working # None => Scan # s
  BY DEF InProgress, Scan
<1> USE TurnTypes, Nothing
<1>1. ASSUME UNCHANGED <<job, current, completions>>,
             scan'[s] = scan[s], working' = working \/ working' = None
      PROVE  /\ ~InProgress(s)'
             /\ completedAt'[s] = completedAt[s] /\ job'[s] = job[s]
  BY <1>0, <1>1 DEF InProgress, Scan, completions
<1>2. CASE QuietStep \/ ResolveStep
  BY <1>1, <1>2 DEF QuietStep, ResolveStep
<1>3. ASSUME NEW t \in Scans, AskStep(t) PROVE UNCHANGED scan[s]
  BY <1>3 DEF AskStep
<1>4. CASE \E t \in Scans : AskStep(t)
  BY <1>1, <1>3, <1>4 DEF AskStep
<1>5. CASE TakeStep
  <2>1. /\ Head(requests) \in Scans /\ scan[Head(requests)] = "queued"
        /\ scan' = [scan EXCEPT ![Head(requests)] = "scanning"]
        /\ current' = Head(requests)
        /\ UNCHANGED <<job, working, completions>>
    BY <1>5 DEF TakeStep, Turns, ScansInTurn
  <2>2. s # Head(requests)
    BY <1>0, <2>1 DEF Active
  <2>3. scan'[s] = scan[s] /\ s # current'
    BY <2>1, <2>2
  <2> QED
    BY <1>0, <2>1, <2>3 DEF InProgress, Scan, completions
<1>6. ASSUME NEW t \in Scans, NEW status, MoveStep(t, status)
      PROVE  /\ ~InProgress(s)' /\ scan'[s] = scan[s]
             /\ completedAt'[s] = completedAt[s] /\ job'[s] = job[s]
  <2>1. t # s
    BY <1>6 DEF MoveStep
  <2>2. scan'[s] = scan[s] /\ completedAt'[s] = completedAt[s]
    BY <1>6, <2>1 DEF MoveStep, Finish, completions
  <2>3. UNCHANGED <<job, current, working>>
    BY <1>6 DEF MoveStep
  <2> QED
    BY <1>0, <2>2, <2>3 DEF InProgress, Scan
<1>7. ASSUME NEW a \in Analyzers, CreateStep(a)
      PROVE  /\ ~InProgress(s)' /\ scan'[s] = scan[s]
             /\ completedAt'[s] = completedAt[s] /\ job'[s] = job[s]
  <2>1. job'[s] = job[s] /\ UNCHANGED <<scan, current, working, completions>>
    BY <1>0, <1>7 DEF CreateStep
  <2> QED
    BY <1>0, <2>1 DEF InProgress, Scan, completions
<1>8. CASE EndFanStep
  <2>1. scan'[s] = scan[s] /\ current' = None /\ UNCHANGED <<job, working, completions>>
    BY <1>0, <1>8 DEF EndFanStep
  <2> QED
    BY <1>0, <2>1 DEF InProgress, Scan, completions
<1>9. ASSUME NEW a \in Analyzers, AnalyseStep(a)
      PROVE  /\ ~InProgress(s)' /\ scan'[s] = scan[s]
             /\ completedAt'[s] = completedAt[s] /\ job'[s] = job[s]
  <2>1. Head(list[a]).scan \in Scans /\ job[Head(list[a]).scan][a] = "queued"
    BY <1>9, TakenIsOldest
  <2>2. s # Head(list[a]).scan
    BY <1>0, <2>1 DEF Unanalysed
  <2>3. /\ job'[s] = job[s] /\ working' = <<Head(list[a]), a>>
        /\ UNCHANGED <<scan, current, completions>>
    BY <1>9, <2>1, <2>2 DEF AnalyseStep
  <2>4. working'[1].scan # s
    BY <2>2, <2>3
  <2> QED
    BY <1>0, <2>3, <2>4 DEF InProgress, completions
<1>10. CASE EndStep
  <2>1. /\ working # None /\ Scan \in Scans
        /\ job' = [job EXCEPT ![Scan][Type] = "complete"]
        /\ Finish(Scan) \/ UNCHANGED <<scan, completions>>
        /\ working' = working \/ working' = None
        /\ current' = current
    BY <1>10 DEF EndStep
  <2>2. s # Scan
    BY <1>0, <2>1
  <2>3. scan'[s] = scan[s] /\ completedAt'[s] = completedAt[s] /\ job'[s] = job[s]
    BY <2>1, <2>2 DEF Finish, completions
  <2> QED
    BY <1>0, <2>1, <2>3 DEF InProgress, Scan
<1> QED
  BY <1>2, <1>4, <1>1, <1>3, <1>5, <1>6, <1>7, <1>8, <1>9, <1>10, TurnStep

\* A scan comes into being by a request only.
LEMMA NewStep ==
  ASSUME Typed, Turns, [Next]_vars, faults' = 0,
         NEW s \in Scans, scan[s] = "none", scan'[s] # "none"
  PROVE  AskStep(s)
<1> USE TurnTypes, Nothing
<1>1. ASSUME NEW t \in Scans, AskStep(t) PROVE s = t
  BY <1>1 DEF AskStep
<1>2. ~TakeStep
  <2>1. SUFFICES ASSUME TakeStep PROVE FALSE
    OBVIOUS
  <2>2. /\ Head(requests) \in Scans /\ scan[Head(requests)] = "queued"
        /\ scan' = [scan EXCEPT ![Head(requests)] = "scanning"]
    BY <2>1 DEF TakeStep, Turns, ScansInTurn
  <2> QED
    BY <2>2
<1>3. ASSUME NEW t \in Scans, NEW status, MoveStep(t, status) PROVE FALSE
  BY <1>3 DEF MoveStep, Begun
<1>4. ~EndFanStep
  BY DEF EndFanStep, Turns, ScansInTurn, Begun
<1>5. ~EndStep
  BY DEF EndStep, Begun, Finish
<1>6. ~QuietStep /\ ~ResolveStep /\ \A a \in Analyzers : ~CreateStep(a) /\ ~AnalyseStep(a)
  BY DEF QuietStep, ResolveStep, CreateStep, AnalyseStep
<1> QED
  BY <1>1, <1>2, <1>3, <1>4, <1>5, <1>6, TurnStep

\* The history variable grows by what is asked for.
LEMMA EarlyStep ==
  ASSUME Typed, Turns, [Next]_vars, faults' = 0
  PROVE  early \subseteq early' /\ \A s \in early' \ early : scan[s] = "none"
<1>1. ASSUME NEW s \in Scans, AskStep(s)
      PROVE  early \subseteq early' /\ \A t \in early' \ early : scan[t] = "none"
  BY <1>1 DEF AskStep
<1>2. CASE early' = early
  BY <1>2
<1> QED
  BY <1>1, <1>2, TurnStep DEF QuietStep, TakeStep, MoveStep, CreateStep, EndFanStep, AnalyseStep,
                              EndStep, ResolveStep

LEMMA EarlyOverlapNext ==
  ASSUME Typed, Turns, EarlyOverlap, [Next]_vars, faults' = 0
  PROVE  EarlyOverlap'
<1> SUFFICES ASSUME NEW s \in Scans, NEW t \in Scans,
                    s < t, scan'[t] # "none", t \notin early'
             PROVE  ~InProgress(s)'
  BY DEF EarlyOverlap
<1>1. CASE scan[t] # "none"
  <2>1. t \notin early
    BY EarlyStep
  <2>2. scan[s] # "none" /\ ~InProgress(s)
    BY <1>1, <2>1 DEF EarlyOverlap, Turns, ScansInTurn
  <2> QED
    BY <2>2, DoneStep
<1>2. CASE scan[t] = "none"
  <2>1. AskStep(t)
    BY <1>2, NewStep
  <2>2. ~InProgress(s)
    BY <2>1 DEF AskStep
  <2>3. s # t
    BY TurnTypes
  <2>4. scan[s] # "none"
    <3>1. s \in Nat /\ t \in Nat /\ ~(t <= s)
      BY TurnTypes
    <3> QED
      BY <2>1, <3>1 DEF AskStep
  <2> QED
    BY <2>2, <2>4, DoneStep
<1> QED
  BY <1>1, <1>2

-----------------------------------------------------------------------------
(* Findings and detections.                                                *)

LEMMA AtWork ==
  ASSUME Typed, Turns, working # None
  PROVE  Scan \in Scans /\ Begun(Scan) /\ scan[Scan] # "none" /\ InProgress(Scan)
<1>1. Scan \in Scans /\ Type \in Analyzers
  BY MessageInHand
<1>2. job[Scan][Type] # "none"
  BY DEF Turns, JobsAndMessages
<1>3. Begun(Scan)
  BY <1>1, <1>2 DEF Turns, JobsOfScans
<1> QED
  BY <1>1, <1>3 DEF Begun, InProgress, Scan

\* A scan that is newer than the one in hand is early, or has not begun.
LEMMA NewerIsEarly ==
  ASSUME Typed, Turns, EarlyOverlap, working # None,
         NEW s \in Scans, Begun(s), Scan < s
  PROVE  s \in early
BY AtWork DEF EarlyOverlap, Begun

LEMMA DetectionStep ==
  ASSUME Typed, [Next]_vars, faults' = 0
  PROVE  \/ /\ RecordDetections
            /\ step = "persist" /\ working # None
            /\ detections' = [detections EXCEPT ![Scan] = @ \cup persisted]
            /\ persisted' = {} /\ UNCHANGED <<finding, working, job>>
         \/ detections' = detections /\ persisted' = persisted
         \/ /\ detections' = detections
            /\ \E f \in Findings : Opened(f)
<1>0. ~Fault
  BY NoFault
<1>1. CASE RecordDetections
  BY <1>0, <1>1 DEF RecordDetections, Write, Here, Typed, InHand
<1>2. CASE PersistFinding
  <2>1. PICK f \in toPersist :
          finding' = [finding EXCEPT ![f] = Detected(f)] /\ persisted' = persisted \cup {f}
    BY <1>0, <1>2 DEF PersistFinding, Write
  <2>2. f \in Findings /\ detections' = detections
    BY <1>2 DEF PersistFinding, Typed, TypeOK
  <2> QED
    BY <1>2, <2>1, <2>2 DEF Opened
<1>3. CASE TakeAnalysis \/ CompleteAnalyzerJob \/ AutoResolve
  BY <1>3 DEF TakeAnalysis, CompleteAnalyzerJob, AutoResolve, findingVars
<1>4. CASE UNCHANGED vars \/ RequestScan \/ RecoverScan \/ FailOrphanedScan \/ TakeScan
           \/ UpsertResource \/ MarkRemovedResources \/ RecordScan
  BY <1>4 DEF vars, findingVars, analyzerVars, RequestScan, RecoverScan, FailOrphanedScan,
              TakeScan, UpsertResource, MarkRemovedResources, RecordScan
<1>5. CASE DeleteStaleResources
           \/ CompleteScan \/ StartFanOut \/ CreateAnalyzerJob \/ EndFanOut \/ UpdateFinding
  BY <1>5 DEF findingVars, analyzerVars, DeleteStaleResources, CompleteScan, StartFanOut,
              CreateAnalyzerJob, EndFanOut, UpdateFinding
<1> QED
  BY <1>1, <1>2, <1>3, <1>4, <1>5, NoFault DEF Next

\* Detections are never taken back, and new ones are those just written.
LEMMA DetectionsGrow ==
  ASSUME Typed, [Next]_vars, faults' = 0, NEW s \in Scans
  PROVE  /\ detections[s] \subseteq detections'[s]
         /\ \A f \in detections'[s] \ detections[s] :
              /\ RecordDetections /\ f \in persisted /\ s = Scan /\ working # None
              /\ UNCHANGED <<finding, working, job>> /\ step = "persist"
<1>1. detections \in [Scans -> SUBSET Findings]
  BY DEF Typed, TypeOK
<1> QED
  BY <1>1, DetectionStep

LEMMA DetectionsNext ==
  ASSUME Typed, PersistedIsOwn, Turns, EarlyOverlap, Detections, [Next]_vars, faults' = 0
  PROVE  Detections'
<1>0. /\ \A f \in Findings : finding[f] # None => f \in detections[finding[f].last] \cup persisted
      /\ \A s \in Scans : detections[s] # {} => Begun(s)
      /\ \A f \in Findings, s \in Scans :
           finding[f] # None /\ f \in detections[s] /\ finding[f].last < s => s \in early
  BY DEF Detections
<1>a. /\ detections \in [Scans -> SUBSET Findings]
      /\ \A f \in Findings : finding[f] # None => finding[f] \in FindingRows
  BY DEF Typed, TypeOK
<1>b. \A f \in Findings : finding[f] # None => finding[f].last \in Scans
  BY <1>a DEF FindingRows
<1>1. ASSUME NEW f \in Findings, finding'[f] # None
      PROVE  f \in detections'[finding'[f].last] \cup persisted'
  <2>1. CASE Opened(f)
    BY <2>1 DEF Opened
  <2>2. CASE ~Opened(f)
    <3>1. finding[f] # None /\ finding'[f].last = finding[f].last
      BY <1>1, <2>2, FindingStep, ClosedRow, SetByUserRow, Nothing
    <3>2. CASE f \in detections[finding[f].last]
      BY <1>b, <3>1, <3>2, DetectionsGrow
    <3>3. CASE f \in persisted
      <4>1. finding[f].last = Scan
        BY <3>1, <3>3 DEF PersistedIsOwn
      <4>2. CASE RecordDetections
        <5>1. working # None /\ detections' = [detections EXCEPT ![Scan] = @ \cup persisted]
          BY <4>2, NoFault DEF RecordDetections, Write, Here, Typed, InHand
        <5> QED
          BY <1>a, <3>1, <3>3, <4>1, <5>1, AtWork
      <4>3. CASE ~RecordDetections
        BY <3>3, <4>3, DetectionStep DEF Opened
      <4> QED
        BY <4>2, <4>3
    <3> QED
      BY <1>0, <3>1, <3>2, <3>3
  <2> QED
    BY <2>1, <2>2
<1>2. ASSUME NEW s \in Scans, detections'[s] # {}
      PROVE  Begun(s)'
  <2>1. CASE detections[s] # {}
    BY <1>0, <2>1, BegunStep
  <2>2. CASE detections[s] = {}
    BY <1>2, <2>2, DetectionsGrow, AtWork, BegunStep
  <2> QED
    BY <2>1, <2>2
<1>3. ASSUME NEW f \in Findings, NEW s \in Scans,
             finding'[f] # None, f \in detections'[s], finding'[f].last < s
      PROVE  s \in early'
  <2>1. early \subseteq early'
    BY EarlyStep
  <2>2. CASE f \in detections[s]
    <3>1. Begun(s)
      BY <1>0, <2>2
    <3>2. CASE Opened(f)
      <4>1. working # None /\ finding'[f].last = Scan
        BY <3>2, OpenedRow
      <4> QED
        BY <1>3, <2>1, <3>1, <4>1, NewerIsEarly
    <3>3. CASE ~Opened(f)
      <4>1. finding[f] # None /\ finding'[f].last = finding[f].last
        BY <1>3, <3>3, FindingStep, ClosedRow, SetByUserRow, Nothing
      <4> QED
        BY <1>0, <1>3, <2>1, <2>2, <4>1
    <3> QED
      BY <3>2, <3>3
  <2>3. CASE f \notin detections[s]
    <3>1. /\ f \in persisted /\ s = Scan /\ finding' = finding
      BY <1>3, <2>3, DetectionsGrow
    <3>2. finding[f].last = s
      BY <1>3, <3>1 DEF PersistedIsOwn
    <3> QED
      BY <1>3, <3>1, <3>2, TurnTypes
  <2> QED
    BY <2>2, <2>3
<1> QED
  BY <1>1, <1>2, <1>3 DEF Detections

LEMMA SeenNext ==
  ASSUME Typed, ByScanIsResolved, PersistedIsOwn, Turns, EarlyOverlap, Detections,
         faults = 0, SeenStaysOpen, [Next]_vars, faults' = 0
  PROVE  SeenStaysOpen'
<1> SUFFICES ASSUME NEW f \in Findings, finding'[f] # None, finding'[f].by \in Scans,
                    NEW s \in finding'[f].by .. MaxScans, f \in detections'[s]
             PROVE  \E e \in early' : e >= s /\ f \in detections'[e]
  BY DEF SeenStaysOpen
<1>0. /\ \A t \in Scans : t \in Nat
      /\ early \subseteq early' /\ early \subseteq Scans
  BY TurnTypes, EarlyStep
<1>1. s \in Scans
  BY Limits DEF Scans
\* It is enough to find such an overlap before the step.
<1>2. ASSUME NEW e \in early, e >= s, f \in detections[e]
      PROVE  \E d \in early' : d >= s /\ f \in detections'[d]
  BY <1>0, <1>2, DetectionsGrow
<1>3. CASE Closed(f)
  <2>1. /\ working # None /\ Scan \in Scans /\ finding'[f].by = Scan
        /\ finding[f] \in FindingRows /\ finding[f].last # Scan
        /\ step = "resolve"
    BY <1>3, ClosedRow
  <2>2. finding[f] # None /\ finding[f].last \in Scans /\ persisted = {}
    BY <2>1, Nothing DEF FindingRows, Typed, InHand
  <2>3. f \in detections[s]
    BY <1>1, <2>1, DetectionsGrow
  <2>4. s >= Scan /\ s \in Nat /\ Scan \in Nat /\ finding[f].last \in Nat
    BY <1>0, <1>1, <2>1, <2>2
  <2>5. CASE s > Scan
    <3>1. s \in early
      BY <1>1, <2>1, <2>3, <2>4, <2>5, NewerIsEarly DEF Detections
    <3> QED
      BY <1>2, <2>3, <2>4, <3>1
  <2>6. CASE s = Scan /\ finding[f].last < s
    <3>1. s \in early
      BY <1>1, <2>2, <2>3, <2>6 DEF Detections
    <3> QED
      BY <1>2, <2>3, <2>4, <3>1
  <2>7. CASE s = Scan /\ finding[f].last > s
    <3>1. f \in detections[finding[f].last]
      BY <2>2 DEF Detections
    <3>2. finding[f].last \in early
      BY <2>1, <2>2, <2>4, <2>7, <3>1, NewerIsEarly DEF Detections
    <3> QED
      BY <1>2, <2>4, <2>7, <3>1, <3>2
  <2> QED
    BY <2>1, <2>4, <2>5, <2>6, <2>7
<1>4. CASE ~Closed(f)
  <2>1. /\ finding[f] # None /\ finding[f].by = finding'[f].by
        /\ finding'[f] = finding[f]
    <3>1. CASE Opened(f)
      BY <3>1, OpenedRow, Nothing DEF ByScanIsResolved
    <3>2. CASE SetByUser(f)
      BY <3>2, SetByUserRow, Nothing
    <3> QED
      BY <1>4, <3>1, <3>2, FindingStep
  <2>2. f \in detections[s]
    <3>1. SUFFICES ASSUME f \notin detections[s] PROVE FALSE
      OBVIOUS
    <3>2. f \in persisted
      BY <1>1, <3>1, DetectionsGrow
    <3> QED
      BY <2>1, <3>2 DEF PersistedIsOwn
  <2>3. \E e \in early : e >= s /\ f \in detections[e]
    BY <2>1, <2>2 DEF SeenStaysOpen
  <2> QED
    BY <1>2, <2>3
<1> QED
  BY <1>3, <1>4

LEMMA MissedNext ==
  ASSUME Typed, PersistedIsOwn, Turns, EarlyOverlap, Detections, MissedUntilAnalysed,
         [Next]_vars, faults' = 0
  PROVE  MissedUntilAnalysed'
<1> SUFFICES ASSUME NEW f \in Findings, NEW g \in Findings, NEW s \in Scans, s \notin early',
                    finding'[f] # None, finding'[f].status = "open", finding'[f].by = None,
                    finding'[f].last < s, g \in detections'[s], g[2] = f[2]
             PROVE  \/ \E a \in Analyzers : job'[s][a] \in Unanalysed
                    \/ working' # None /\ Scan' = s
  BY DEF MissedUntilAnalysed
<1>0. s \notin early /\ s \in Nat
  BY EarlyStep, TurnTypes
<1>1. CASE g \notin detections[s]
  BY <1>1, DetectionsGrow DEF Scan
<1>2. CASE g \in detections[s]
  <2>1. Begun(s)
    BY <1>2 DEF Detections
  <2>2. ~Opened(f)
    BY <1>0, <2>1, OpenedRow, NewerIsEarly
  <2>3. finding'[f] = finding[f] /\ finding[f] # None
    BY <2>2, FindingStep, ClosedRow, SetByUserRow, Nothing
  <2>4. \/ \E a \in Analyzers : job[s][a] \in Unanalysed
        \/ working # None /\ Scan = s
    BY <1>0, <1>2, <2>3 DEF MissedUntilAnalysed
  <2>5. CASE UNCHANGED <<job, working>>
    BY <2>4, <2>5 DEF Scan
  <2>6. ASSUME NEW b \in Analyzers, CreateStep(b)
        PROVE  \/ \E a \in Analyzers : job'[s][a] \in Unanalysed
               \/ working' # None /\ Scan' = s
    <3>1. /\ working' = working /\ current \in Scans
          /\ job' = [job EXCEPT ![current][b] = "queued"]
      BY <2>6 DEF CreateStep
    <3>2. \A a \in Analyzers : job[s][a] \in Unanalysed => job'[s][a] \in Unanalysed
      BY <3>1, TurnTypes DEF Unanalysed
    <3> QED
      BY <2>4, <3>1, <3>2 DEF Scan
  <2>7. ASSUME NEW b \in Analyzers, AnalyseStep(b)
        PROVE  \/ \E a \in Analyzers : job'[s][a] \in Unanalysed
               \/ working' # None /\ Scan' = s
    <3>1. /\ working = None /\ Head(list[b]).scan \in Scans
          /\ job' = [job EXCEPT ![Head(list[b]).scan][b] = "running"]
      BY <2>7 DEF AnalyseStep
    <3>2. \A a \in Analyzers : job[s][a] \in Unanalysed => job'[s][a] \in Unanalysed
      BY <3>1, TurnTypes DEF Unanalysed
    <3> QED
      BY <2>4, <3>1, <3>2
  <2>8. CASE EndStep
    <3>1. /\ working # None /\ Scan \in Scans /\ Type \in Analyzers
          /\ job' = [job EXCEPT ![Scan][Type] = "complete"]
          /\ \/ Last /\ working' = working
             \/ ~Last /\ working' = None
      BY <2>8 DEF EndStep
    <3>2. \A t \in Scans, a \in Analyzers : t # Scan \/ a # Type => job'[t][a] = job[t][a]
      BY <3>1, TurnTypes
    <3>3. CASE Scan # s
      BY <2>4, <3>2, <3>3
    <3>4. CASE Scan = s /\ working' = working
      BY <3>1, <3>4 DEF Scan
    <3>5. CASE Scan = s /\ ~Last
      BY <3>1, <3>2, <3>5 DEF Last
    <3> QED
      BY <3>1, <3>3, <3>4, <3>5
  <2>9. CASE AutoResolve /\ ResolveStep
    <3>1. Scan # s
      <4>1. SUFFICES ASSUME Scan = s PROVE FALSE
        OBVIOUS
      <4>2. finding[f].last # s
        BY <1>0, <2>3
      <4>3. f \in ResolvedBy(Scan)
        BY <1>2, <2>3, <4>1, <4>2 DEF ResolvedBy
      <4>4. finding'[f] = [finding[f] EXCEPT !.status = "resolved", !.by = Scan]
        BY <2>9, <4>3, NoFault DEF AutoResolve, Write
      <4>5. finding[f] \in FindingRows
        BY <2>3 DEF Typed, TypeOK
      <4> QED
        BY <2>3, <4>4, <4>5 DEF FindingRows
    <3> QED
      BY <2>4, <2>9, <3>1 DEF ResolveStep
  <2>10. CASE QuietStep \/ (\E t \in Scans : AskStep(t)) \/ TakeStep \/ EndFanStep
    BY <2>5, <2>10 DEF QuietStep, AskStep, TakeStep, EndFanStep
  <2>11. CASE \E t \in Scans, status \in {"complete", "analyzing_pending", "error"} :
                MoveStep(t, status)
    BY <2>5, <2>11 DEF MoveStep
  <2> QED
    BY <2>6, <2>7, <2>8, <2>9, <2>10, <2>11, TurnStep
<1> QED
  BY <1>1, <1>2

-----------------------------------------------------------------------------
(* The order of completion.                                                *)

LEMMA FinishIsLast ==
  ASSUME Typed, CompletionOrder, NEW s \in Scans, Finish(s)
  PROVE  /\ completedAt'[s] = clock' /\ clock' # 0
         /\ \A t \in Scans : t # s => completedAt'[t] = completedAt[t]
         /\ \A t \in Scans : completedAt'[t] <= clock'
<1>1. /\ completedAt \in [Scans -> Nat] /\ clock \in Nat \ {0}
      /\ \A t \in Scans : completedAt[t] <= clock
  BY TurnTypes DEF CompletionOrder
<1>2. clock' \in Nat \ {0} /\ clock <= clock'
  BY <1>1 DEF Finish
<1>3. completedAt' = [completedAt EXCEPT ![s] = clock']
  BY DEF Finish
<1>4. completedAt'[s] = clock' /\ \A t \in Scans : t # s => completedAt'[t] = completedAt[t]
  BY <1>1, <1>3
<1>5. ASSUME NEW t \in Scans PROVE completedAt'[t] <= clock'
  <2>1. CASE t = s
    BY <1>2, <1>4, <2>1
  <2>2. CASE t # s
    BY <1>1, <1>2, <1>4, <2>2
  <2> QED
    BY <2>1, <2>2
<1> QED
  BY <1>2, <1>4, <1>5

\* Who waits for its analyzers goes on waiting, unless one of them ends.
LEMMA WaitingStep ==
  ASSUME Typed, Turns, [Next]_vars, faults' = 0, ~EndStep,
         NEW s \in Scans, \E a \in Analyzers : job[s][a] \in Unanalysed \cup {"none"}
  PROVE  \E a \in Analyzers : job'[s][a] \in Unanalysed \cup {"none"}
<1>1. PICK a \in Analyzers : job[s][a] \in Unanalysed \cup {"none"}
  OBVIOUS
<1>2. ASSUME NEW b \in Analyzers, CreateStep(b)
      PROVE  job'[s][a] \in Unanalysed \cup {"none"}
  <2>1. current \in Scans /\ job' = [job EXCEPT ![current][b] = "queued"]
    BY <1>2 DEF CreateStep
  <2> QED
    BY <1>1, <2>1, TurnTypes DEF Unanalysed
<1>3. ASSUME NEW b \in Analyzers, AnalyseStep(b)
      PROVE  job'[s][a] \in Unanalysed \cup {"none"}
  <2>1. Head(list[b]).scan \in Scans /\ job' = [job EXCEPT ![Head(list[b]).scan][b] = "running"]
    BY <1>3 DEF AnalyseStep
  <2> QED
    BY <1>1, <2>1, TurnTypes DEF Unanalysed
<1>4. CASE job' = job
  BY <1>1, <1>4
<1>5. CASE QuietStep \/ (\E t \in Scans : AskStep(t)) \/ TakeStep \/ EndFanStep \/ ResolveStep
  BY <1>4, <1>5 DEF QuietStep, AskStep, TakeStep, EndFanStep, ResolveStep
<1>6. CASE \E t \in Scans, status \in {"complete", "analyzing_pending", "error"} :
             MoveStep(t, status)
  BY <1>4, <1>6 DEF MoveStep
<1> QED
  BY <1>2, <1>3, <1>5, <1>6, TurnStep

LEMMA CompletionOrderNext ==
  ASSUME Typed, Turns, CompletionOrder, [Next]_vars, faults' = 0
  PROVE  CompletionOrder'
<1>0. /\ scan \in [Scans -> ScanStatuses]
      /\ completedAt \in [Scans -> Nat] /\ clock \in Nat \ {0}
      /\ \A t \in Scans : t \in Nat
      /\ job \in [Scans -> [Analyzers -> JobStatuses]]
  BY TurnTypes
\* A step that completes nothing.
<1>1. ASSUME UNCHANGED completions, ~EndStep,
             \A t \in Scans : scan'[t] = "complete" => scan[t] = "complete"
      PROVE  CompletionOrder'
  <2>1. UNCHANGED <<completedAt, clock>>
    BY <1>1 DEF completions
  <2>2. \A t \in Scans : completedAt'[t] # 0 => Begun(t)'
    BY <2>1, BegunStep DEF CompletionOrder
  <2>3. ASSUME NEW s \in Scans, NEW t \in Scans, s < t, completedAt'[t] # 0,
               completedAt'[s] > completedAt'[t]
        PROVE  \E a \in Analyzers : job'[t][a] \in Unanalysed \cup {"none"}
    BY <1>1, <2>1, <2>3, WaitingStep DEF CompletionOrder
  <2> QED
    BY <1>1, <2>1, <2>2, <2>3 DEF CompletionOrder
\* A step that completes a scan.
<1>2. ASSUME NEW s \in Scans, Begun(s), Finish(s),
             \A t \in Scans : /\ t > s /\ completedAt[t] # 0
                                   => \E a \in Analyzers : job'[t][a] \in Unanalysed \cup {"none"}
                              /\ t # s => job'[t] = job[t]
      PROVE  CompletionOrder'
  <2>1. /\ completedAt'[s] = clock' /\ clock' # 0
        /\ \A t \in Scans : t # s => completedAt'[t] = completedAt[t]
        /\ \A t \in Scans : completedAt'[t] <= clock'
    BY <1>2, FinishIsLast
  <2>2. \A t \in Scans : completedAt'[t] # 0 => Begun(t)'
    BY <1>2, <2>1, BegunStep DEF CompletionOrder
  <2>3. \A t \in Scans : scan'[t] = "complete" => completedAt'[t] # 0
    BY <1>0, <1>2, <2>1 DEF CompletionOrder, Finish
  <2>4. ASSUME NEW t \in Scans, NEW u \in Scans, t < u, completedAt'[u] # 0,
               completedAt'[t] > completedAt'[u]
        PROVE  \E a \in Analyzers : job'[u][a] \in Unanalysed \cup {"none"}
    <3>1. completedAt' \in [Scans -> Nat] /\ clock' \in Nat
      BY <1>2, FinishType
    <3>2. u # s
      BY <2>1, <2>4, <3>1
    <3>3. CASE t = s
      BY <1>0, <1>2, <2>1, <2>4, <3>2, <3>3
    <3>4. CASE t # s
      BY <1>2, <2>1, <2>4, <3>2, <3>4 DEF CompletionOrder
    <3> QED
      BY <3>3, <3>4
  <2> QED
    BY <2>1, <2>2, <2>3, <2>4 DEF CompletionOrder
<1>3. ASSUME NEW s \in Scans, NEW status \in {"complete", "analyzing_pending", "error"},
             MoveStep(s, status)
      PROVE  CompletionOrder'
  <2>1. CASE status = "complete"
    <3>1. /\ s = current /\ Finish(s) /\ Begun(s) /\ job' = job
      BY <1>3, <2>1 DEF MoveStep
    <3>2. \A t \in Scans : t > s => completedAt[t] = 0
      BY <3>1, Nothing DEF Turns, ScansInTurn, CompletionOrder
    <3> QED
      BY <1>2, <3>1, <3>2
  <2>2. CASE status # "complete"
    <3>1. /\ scan' = [scan EXCEPT ![s] = status] /\ UNCHANGED completions
          /\ job' = job
      BY <1>3, <2>2 DEF MoveStep
    <3>2. ~EndStep
      BY <1>0, <3>1 DEF EndStep
    <3> QED
      BY <1>0, <1>1, <2>2, <3>1, <3>2
  <2> QED
    BY <2>1, <2>2
<1>4. CASE EndStep
  <2>1. /\ working # None /\ Scan \in Scans /\ Type \in Analyzers /\ Begun(Scan)
        /\ job[Scan][Type] = "running"
        /\ job' = [job EXCEPT ![Scan][Type] = "complete"]
        /\ \/ Last /\ Finish(Scan)
           \/ ~Last /\ UNCHANGED <<scan, completions>>
    BY <1>4 DEF EndStep
  <2>2. \A t \in Scans, a \in Analyzers : t # Scan \/ a # Type => job'[t][a] = job[t][a]
    BY <1>0, <2>1
  <2>3. \A t \in Scans : t # Scan => job'[t] = job[t]
    BY <1>0, <2>1
  <2>4. CASE Finish(Scan)
    <3>1. ASSUME NEW t \in Scans, t > Scan
          PROVE  job'[t][Type] \in Unanalysed \cup {"none"}
      <4>1. job[t][Type] \in {"none", "queued"}
        BY <1>0, <2>1, <3>1 DEF Turns, OlderFirst, Unanalysed
      <4>2. t # Scan
        BY <1>0, <2>1, <3>1
      <4> QED
        BY <2>3, <4>1, <4>2 DEF Unanalysed
    <3> QED
      BY <1>2, <2>1, <2>3, <2>4, <3>1
  <2>5. CASE ~Last /\ UNCHANGED <<scan, completions>>
    <3>1. UNCHANGED <<completedAt, clock>> /\ scan' = scan
      BY <2>5 DEF completions
    <3>2. \E a \in Analyzers : job'[Scan][a] \in Unanalysed
      BY <2>1, <2>2, <2>5 DEF Last
    <3>3. ASSUME NEW s \in Scans, NEW t \in Scans, s < t, completedAt[t] # 0,
                 completedAt[s] > completedAt[t]
          PROVE  \E a \in Analyzers : job'[t][a] \in Unanalysed \cup {"none"}
      <4>1. CASE t = Scan
        BY <3>2, <4>1
      <4>2. CASE t # Scan
        BY <2>3, <3>3, <4>2 DEF CompletionOrder
      <4> QED
        BY <4>1, <4>2
    <3> QED
      BY <3>1, <3>3, BegunStep DEF CompletionOrder
  <2> QED
    BY <2>1, <2>4, <2>5
<1>5. CASE QuietStep \/ ResolveStep \/ \E a \in Analyzers : CreateStep(a) \/ AnalyseStep(a)
  <2>1. scan' = scan /\ UNCHANGED completions
    BY <1>5 DEF QuietStep, ResolveStep, CreateStep, AnalyseStep
  <2> QED
    BY <1>1, <1>4, <2>1
<1>6. ASSUME NEW s \in Scans, AskStep(s) PROVE CompletionOrder'
  <2>1. UNCHANGED completions /\ scan' = [scan EXCEPT ![s] = "queued"]
    BY <1>6 DEF AskStep
  <2> QED
    BY <1>0, <1>1, <1>4, <2>1
<1>7. CASE TakeStep
  <2>1. UNCHANGED completions /\ scan' = [scan EXCEPT ![Head(requests)] = "scanning"]
    BY <1>7 DEF TakeStep
  <2> QED
    BY <1>0, <1>1, <1>4, <2>1
<1>8. CASE EndFanStep
  <2>1. UNCHANGED completions /\ scan' = [scan EXCEPT ![current] = "analyzing"]
    BY <1>8 DEF EndFanStep
  <2> QED
    BY <1>0, <1>1, <1>4, <2>1
<1> QED
  BY <1>3, <1>4, <1>5, <1>6, <1>7, <1>8, TurnStep

-----------------------------------------------------------------------------
(* The history goes on.                                                    *)

\* A scan that is not early has the one before it as the scan before.
LEMMA PreviousIsBefore ==
  ASSUME Typed, Turns, EarlyOverlap, CompletionOrder,
         NEW s \in Scans, Follows(s), current = s
  PROVE  s - 1 \in Previous
<1>1. /\ \A t \in Scans : t \in Nat /\ completedAt[t] \in Nat
      /\ \A t \in Scans : t > s => ~Begun(t)
      /\ scan[s] # "none"
  BY TurnTypes, Nothing DEF Turns, ScansInTurn, Begun
<1> DEFINE p == s - 1
<1>2. p \in Scans /\ p < s /\ p # s /\ scan[p] = "complete"
  BY Limits DEF Follows, Scans
<1>2a. \A t \in Scans : t < s /\ t # p => t < p
  BY <1>1
<1> HIDE DEF p
<1>3. ~InProgress(p)
  BY <1>1, <1>2 DEF EarlyOverlap, Follows
<1>4. ASSUME NEW t \in Scans, scan[t] = "complete", t # s
      PROVE  ~(completedAt[t] > completedAt[p])
  <2>1. SUFFICES ASSUME completedAt[t] > completedAt[p] PROVE FALSE
    OBVIOUS
  <2>2. t # p
    BY <1>1, <2>1
  <2>3. t < p
    <3>1. ~(t > s)
      BY <1>1, <1>4 DEF Begun
    <3>2. t < s
      BY <1>1, <1>4, <3>1
    <3> QED
      BY <1>2a, <2>2, <3>2
  <2>4. PICK a \in Analyzers : job[p][a] \in Unanalysed \cup {"none"}
    BY <1>2, <2>1, <2>3 DEF CompletionOrder
  <2>5. job[p][a] # "none"
    BY <1>2 DEF Turns, JobsOfScans, Begun
  <2> QED
    BY <1>3, <2>4, <2>5 DEF InProgress
<1> QED
  BY <1>2, <1>4 DEF Previous, Ended, Later, p

LEMMA HistoryNext ==
  ASSUME Typed, HistoryOfRows, Turns, EarlyOverlap, CompletionOrder, HistoryGoesOn,
         [Next]_vars, faults' = 0
  PROVE  HistoryGoesOn'
<1> SUFFICES ASSUME NEW s \in Scans, NEW r \in Resources,
                    Follows(s)', record'[s - 1][r] \in {"new", "updated"}
             PROVE  /\ current' = s /\ pc' = "record" => r \in found' \/ record'[s][r] # None
                    /\ Begun(s)' /\ ~(current' = s /\ pc' \in {"store", "record"})
                         => record'[s][r] # None
  BY DEF HistoryGoesOn
<1>0. /\ record \in [Scans -> [Resources -> Sightings \cup {None}]]
      /\ \A t \in Scans : t \in Nat
      /\ current' # None => Begun(current)'
      /\ s # None
  BY ScansInTurnNext, TurnTypes, Nothing DEF Typed, TypeOK, ScansInTurn
<1> SUFFICES ASSUME Begun(s)'
             PROVE  /\ current' = s /\ pc' = "record" => r \in found' \/ record'[s][r] # None
                    /\ ~(current' = s /\ pc' \in {"store", "record"}) => record'[s][r] # None
  BY <1>0
<1> DEFINE p == s - 1
<1>1. p \in Scans /\ p < s /\ p # s /\ scan'[p] = "complete" /\ s \notin early'
  BY Limits DEF Follows, Scans
<1>2. s \notin early
  BY <1>1, EarlyStep
<1>3. scan[s] # "none"
  <2>1. SUFFICES ASSUME scan[s] = "none" PROVE FALSE
    OBVIOUS
  <2>2. AskStep(s)
    BY <2>1, NewStep DEF Begun
  <2> QED
    BY <2>2, TurnTypes DEF AskStep, Begun
<1>4. scan[p] # "none" /\ ~InProgress(p) /\ scan[p] = "complete" /\ current # p
  <2>1. scan[p] # "none" /\ ~InProgress(p)
    BY <1>1, <1>2, <1>3 DEF EarlyOverlap, Turns, ScansInTurn
  <2> QED
    BY <1>1, <2>1, DoneStep DEF InProgress
<1>5. Follows(s)
  BY <1>1, <1>2, <1>4 DEF Follows
<1>5a. record[p][r] \in {"new", "updated"} =>
         /\ current = s /\ pc = "record" => r \in found \/ record[s][r] # None
         /\ Begun(s) /\ ~(current = s /\ pc \in {"store", "record"}) => record[s][r] # None
  BY <1>5 DEF HistoryGoesOn
<1>5b. record'[p][r] \in {"new", "updated"}
  OBVIOUS
<1> HIDE DEF p
\* A step that leaves the records alone.
<1>6. ASSUME record' = record, ~TakeStep,
             \/ UNCHANGED <<pc, current, found>>
             \/ pc \notin {"store", "record"} /\ pc' \notin {"store", "record"}
             \/ pc = "store" /\ UNCHANGED <<pc, current>>
      PROVE  /\ current' = s /\ pc' = "record" => r \in found' \/ record'[s][r] # None
             /\ ~(current' = s /\ pc' \in {"store", "record"}) => record'[s][r] # None
  <2>1. Begun(s)
    BY <1>6, BegunStep
  <2> QED
    BY <1>5a, <1>5b, <1>6, <2>1
<1>7. CASE TakeScan /\ TakeStep
  <2>1. /\ record' = record /\ current = None /\ current' = Head(requests) /\ pc' = "store"
        /\ Head(requests) \in Scans /\ scan' = [scan EXCEPT ![Head(requests)] = "scanning"]
    BY <1>7 DEF TakeScan, TakeStep, resourceVars, Goto
  <2>2. CASE current' = s
    BY <2>1, <2>2
  <2>3. CASE current' # s
    <3>1. Begun(s)
      BY <2>1, <2>3, TurnTypes DEF Begun
    <3> QED
      BY <1>0, <1>5a, <1>5b, <2>1, <2>3, <3>1
  <2> QED
    BY <2>2, <2>3
<1>8. CASE MarkRemovedResources
  <2> DEFINE gone == {q \in rows \ found :
                        /\ \E t \in Previous : record[t][q] \in {"new", "updated"}
                        /\ record[current][q] = None}
  <2>1. /\ pc = "store" /\ pc' = "record" /\ current' = current /\ found' = found
        /\ current \in Scans /\ scan' = scan
        /\ record' = [record EXCEPT ![current] =
                        [q \in Resources |-> IF q \in gone THEN "removed" ELSE @[q]]]
    BY <1>8, NoFault DEF MarkRemovedResources, Write, At, Goto, Typed, TypeOK, InHand
  <2>2. record[p][r] = record'[p][r]
    BY <1>0, <1>1, <1>4, <2>1
  <2>3. CASE current = s
    <3>1. p \in Previous
      BY <1>5, <2>3, PreviousIsBefore DEF p
    <3>2. r \in rows
      BY <1>1, <1>5b, <2>2, Nothing DEF HistoryOfRows
    <3>3. r \in gone \/ r \in found \/ record[s][r] # None
      BY <1>5b, <2>2, <2>3, <3>1, <3>2
    <3> HIDE DEF gone
    <3>4. record'[s][r] = IF r \in gone THEN "removed" ELSE record[s][r]
      BY <1>0, <2>1, <2>3
    <3> QED
      BY <2>1, <2>3, <3>3, <3>4, Nothing
  <2>4. CASE current # s
    <3>1. record'[s][r] = record[s][r] /\ Begun(s)
      BY <1>0, <2>1, <2>4 DEF Begun
    <3> QED
      BY <1>5a, <1>5b, <2>1, <2>2, <2>4, <3>1
  <2> QED
    BY <2>3, <2>4
<1>9. CASE RecordScan
  <2>1. /\ pc = "record" /\ pc' = "delete" /\ current' = current
        /\ current \in Scans /\ scan' = scan
        /\ record' = [record EXCEPT ![current] = [q \in Resources |->
                        IF q \in fresh THEN "new" ELSE IF q \in found THEN "updated" ELSE @[q]]]
    BY <1>9, NoFault DEF RecordScan, Write, At, Goto, Typed, TypeOK, InHand
  <2>2. record[p][r] = record'[p][r]
    BY <1>0, <1>1, <1>4, <2>1
  <2>3. CASE current = s
    <3>1. r \in found \/ record[s][r] # None
      BY <1>5a, <1>5b, <2>1, <2>2, <2>3
    <3>2. record'[s][r] = IF r \in fresh THEN "new" ELSE IF r \in found THEN "updated"
                          ELSE record[s][r]
      BY <1>0, <2>1, <2>3
    <3> QED
      BY <2>1, <3>1, <3>2, Nothing
  <2>4. CASE current # s
    <3>1. record'[s][r] = record[s][r] /\ Begun(s)
      BY <1>0, <2>1, <2>4 DEF Begun
    <3> QED
      BY <1>5a, <1>5b, <2>1, <2>2, <2>4, <3>1
  <2> QED
    BY <2>3, <2>4
<1>10. CASE DeleteStaleResources
  <2>1. /\ pc = "delete" /\ pc' = "complete" /\ scan' = scan
    BY <1>10 DEF DeleteStaleResources, At, Goto
  <2>2. PICK stale \in SUBSET Resources :
          record' = [t \in Scans |->
                      [q \in Resources |-> IF q \in stale THEN None ELSE record[t][q]]]
    BY <1>10, NoFault, DeleteEffect
  <2>3. r \notin stale
    BY <1>1, <1>5b, <2>2, Nothing
  <2>4. record'[s][r] = record[s][r] /\ record'[p][r] = record[p][r]
    BY <1>1, <2>2, <2>3
  <2>5. Begun(s)
    BY <2>1 DEF Begun
  <2> QED
    BY <1>5a, <1>5b, <2>1, <2>4, <2>5
<1>11. CASE UpsertResource \/ CompleteScan \/ StartFanOut \/ EndFanOut
  <2>1. ~TakeStep
    <3>1. current # None
      BY <1>11 DEF UpsertResource, CompleteScan, StartFanOut, EndFanOut, At, Typed, InHand
    <3> QED
      BY <3>1 DEF TakeStep
  <2>2. CASE UpsertResource
    BY <1>6, <2>1, <2>2 DEF UpsertResource, At
  <2>3. CASE CompleteScan \/ StartFanOut \/ EndFanOut
    <3>1. pc \notin {"store", "record"} /\ pc' \notin {"store", "record"} /\ record' = record
      BY <2>3 DEF CompleteScan, StartFanOut, EndFanOut, Release, At, Goto, resourceVars
    <3> QED
      BY <1>6, <2>1, <3>1
  <2> QED
    BY <1>11, <2>2, <2>3
<1>12. CASE \/ UNCHANGED vars \/ RequestScan \/ RecoverScan \/ FailOrphanedScan
            \/ CreateAnalyzerJob \/ TakeAnalysis \/ PersistFinding \/ RecordDetections
            \/ CompleteAnalyzerJob \/ AutoResolve \/ UpdateFinding
  <2>1. UNCHANGED <<record, pc, current, found>>
    BY <1>12 DEF vars, resourceVars, scannerVars, RequestScan, RecoverScan, FailOrphanedScan,
                 CreateAnalyzerJob, TakeAnalysis, PersistFinding, RecordDetections,
                 CompleteAnalyzerJob, AutoResolve, UpdateFinding
  <2>2. ~TakeStep
    BY <1>0, <2>1, Nothing DEF TakeStep
  <2> QED
    BY <1>6, <2>1, <2>2
<1>13. TakeScan => TakeStep
  <2>1. TakeScan => current = None /\ next = 1
    BY DEF TakeScan, At, Typed, InHand
  <2>2. TakeScan => requests # <<>> /\ Head(requests) \in Scans /\ Head(requests) # None
    BY Nothing DEF TakeScan, Turns, ScansInTurn
  <2> QED
    BY <2>1, <2>2 DEF TakeStep, TakeScan, analyzerVars, completions
<1> QED
  BY <1>7, <1>8, <1>9, <1>10, <1>11, <1>12, <1>13, NoFault DEF Next

LEMMA StillScanningNext ==
  ASSUME Typed, Turns, StillScanning, [Next]_vars, faults' = 0
  PROVE  StillScanning'
<1> SUFFICES ASSUME current' # None, pc' \in {"store", "record", "delete", "complete"}
             PROVE  scan'[current'] = "scanning"
  BY DEF StillScanning
<1>0. scan \in [Scans -> ScanStatuses] /\ current \in Scans \cup {None}
  BY TurnTypes
<1>1. CASE TakeScan
  <2>1. TakeStep
    BY <1>1, TurnStep, TurnTypes, Nothing
    DEF TakeScan, At, Goto, Turns, ScansInTurn, TakeStep, Typed, InHand, analyzerVars, completions
  <2> QED
    BY <1>0, <2>1 DEF TakeStep
<1>2. CASE CompleteScan \/ StartFanOut \/ EndFanOut \/ ScannerStops
  BY <1>2 DEF CompleteScan, StartFanOut, EndFanOut, ScannerStops, Release, Goto
<1>3. CASE /\ current' = current /\ pc \in {"store", "record", "delete", "complete"}
           /\ scan'[current] = scan[current]
  BY <1>3 DEF StillScanning
<1>4. CASE UpsertResource \/ MarkRemovedResources \/ RecordScan \/ DeleteStaleResources
           \/ PersistFinding
  BY <1>3, <1>4 DEF UpsertResource, MarkRemovedResources, RecordScan, DeleteStaleResources,
                    PersistFinding, At, scannerVars
<1>5. CASE \/ UNCHANGED vars \/ RecoverScan \/ CreateAnalyzerJob \/ TakeAnalysis
           \/ RecordDetections \/ AutoResolve \/ UpdateFinding
  BY <1>3, <1>5 DEF vars, RecoverScan, CreateAnalyzerJob, TakeAnalysis, RecordDetections,
                    AutoResolve, UpdateFinding, scannerVars
<1>6. CASE RequestScan
  <2>1. PICK s \in Scans : scan[s] = "none" /\ scan' = [scan EXCEPT ![s] = "queued"]
    BY <1>6 DEF RequestScan, NewScan, Unused
  <2>2. current' = current /\ pc' = pc
    BY <1>6 DEF RequestScan, scannerVars
  <2>3. scan[current] = "scanning"
    BY <2>2 DEF StillScanning
  <2> QED
    BY <2>1, <2>2, <2>3
<1>7. CASE FailOrphanedScan
  <2>1. PICK s \in Scans : s # current /\ scan' = [scan EXCEPT ![s] = "error"]
    BY <1>7 DEF FailOrphanedScan
  <2>2. current' = current /\ pc' = pc
    BY <1>7 DEF FailOrphanedScan, scannerVars
  <2> QED
    BY <1>3, <2>1, <2>2
<1>8. CASE CompleteAnalyzerJob
  <2>1. current' = current /\ pc' = pc /\ working # None
    BY <1>8 DEF CompleteAnalyzerJob, scannerVars, Here, Typed, InHand
  <2>2. scan' = scan \/ scan' = [scan EXCEPT ![Scan] = "complete"]
    BY <1>8 DEF CompleteAnalyzerJob, EndJob, Finish
  <2>3. Scan # current
    <3>1. SUFFICES ASSUME Scan = current PROVE FALSE
      OBVIOUS
    <3>2. Scan \in Scans /\ Type \in Analyzers /\ job[Scan][Type] # "none"
      BY <2>1, MessageInHand DEF Turns, JobsAndMessages
    <3>3. next = 1
      BY <2>1 DEF Typed, InHand
    <3>4. PICK i \in DOMAIN analyzerTypes : Type = analyzerTypes[i]
      BY <3>2 DEF Analyzers
    <3>5. i >= 1
      BY Limits
    <3> QED
      BY <2>1, <3>1, <3>2, <3>3, <3>4, <3>5 DEF Turns, JobsOfScans
  <2>4. current \in Scans /\ pc \in {"store", "record", "delete", "complete"}
    BY <2>1, <1>0
  <2>5. scan'[current] = scan[current]
    BY <1>0, <2>2, <2>3, <2>4
  <2> QED
    BY <1>3, <2>1, <2>4, <2>5
<1> QED
  BY <1>1, <1>2, <1>4, <1>5, <1>6, <1>7, <1>8, NoFault DEF Next

-----------------------------------------------------------------------------
(* The invariant is inductive.                                             *)

LEMMA IInvInit == Init => IInv
<1> SUFFICES ASSUME Init PROVE IInv
  OBVIOUS
<1>0. Typed
  BY TypedInit
<1> USE DEF Init
<1>1. HistoryOfRows /\ ByScanIsResolved /\ PersistedIsOwn
  BY DEF HistoryOfRows, ByScanIsResolved, PersistedIsOwn
<1>2. \A i \in 1 .. Len(<<>>) : FALSE
  OBVIOUS
<1>3. ScansInTurn
  BY DEF ScansInTurn
<1>4. JobsOfScans
  BY DEF JobsOfScans, Begun
<1>5. JobsAndMessages
  BY <1>2 DEF JobsAndMessages
<1>6. OlderFirst
  BY DEF OlderFirst, Unanalysed
<1>7. EarlyOverlap
  BY DEF EarlyOverlap
<1>8. Detections /\ MissedUntilAnalysed /\ SeenStaysOpen
  BY DEF Detections, MissedUntilAnalysed, SeenStaysOpen
<1>9. CompletionOrder
  <2>1. ~(0 > 0)
    OBVIOUS
  <2> QED
    BY <2>1 DEF CompletionOrder
<1>10. HistoryGoesOn /\ StillScanning
  BY DEF HistoryGoesOn, StillScanning, Begun
<1> QED
  BY <1>0, <1>1, <1>3, <1>4, <1>5, <1>6, <1>7, <1>8, <1>9, <1>10 DEF IInv, Calm, Turns

LEMMA CalmNext ==
  ASSUME Typed, HistoryOfRows, ByScanIsResolved, PersistedIsOwn, faults = 0, Calm,
         [Next]_vars, faults' = 0
  PROVE  Calm'
<1> USE DEF Calm
<1>1. Turns' /\ EarlyOverlap'
  BY TurnsNext, EarlyOverlapNext
<1>2. Detections' /\ MissedUntilAnalysed' /\ SeenStaysOpen'
  BY DetectionsNext, MissedNext, SeenNext
<1>3. CompletionOrder' /\ StillScanning' /\ HistoryGoesOn'
  BY CompletionOrderNext, StillScanningNext, HistoryNext
<1> QED
  BY <1>1, <1>2, <1>3

LEMMA IInvNext == IInv /\ [Next]_vars => IInv'
<1> SUFFICES ASSUME IInv, [Next]_vars PROVE IInv'
  OBVIOUS
<1>1. Typed' /\ HistoryOfRows' /\ ByScanIsResolved' /\ PersistedIsOwn'
  BY TypedNext, HistoryOfRowsNext, ByScanNext, PersistedNext DEF IInv
<1>2. ASSUME faults' = 0 PROVE Calm'
  BY <1>2, NoFault, CalmNext DEF IInv
<1> QED
  BY <1>1, <1>2 DEF IInv

LEMMA IInvHolds == Spec => []IInv
BY IInvInit, IInvNext, PTL DEF Spec

-----------------------------------------------------------------------------

\* Every variable keeps its type, whatever fails.
THEOREM TypeCorrect == Spec => []TypeOK
<1>1. IInv => TypeOK
  BY DEF IInv, Typed
<1> QED
  BY <1>1, IInvHolds, PTL

\* What a scan has resolved it has not detected, nor has a later one, unless a
\* scan that overlapped has detected it or something failed.
THEOREM SeenIsKept == Spec => []SeenStaysOpen
<1>1. IInv => SeenStaysOpen
  BY DEF IInv, Calm, SeenStaysOpen
<1> QED
  BY <1>1, IInvHolds, PTL

LEMMA OpenAtEnd == IInv => OpenMeansSeen
<1> SUFFICES ASSUME IInv, NEW s \in Scans, faults = 0, s \notin early, scan[s] = "complete",
                    \A t \in Scans : ~InProgress(t) /\ (scan[t] # "none" => t <= s),
                    NEW f \in Findings,
                    finding[f] # None, finding[f].status = "open", finding[f].by = None,
                    NEW g \in detections[s], g[2] = f[2]
             PROVE  finding[f].last = s
  BY DEF OpenMeansSeen
<1>1. Typed /\ Turns /\ Detections /\ MissedUntilAnalysed
  BY DEF IInv, Calm
<1>2. working = None
  BY <1>1, AtWork
<1>3. finding[f] \in FindingRows /\ g \in Findings /\ persisted = {}
  BY <1>1, <1>2 DEF Typed, TypeOK, InHand
<1>4. finding[f].last \in Scans
  BY <1>3 DEF FindingRows
<1>5. scan[finding[f].last] # "none"
  BY <1>1, <1>3, <1>4 DEF Detections, Begun
<1>6. ~(finding[f].last < s)
  BY <1>1, <1>2, <1>3 DEF MissedUntilAnalysed, InProgress
<1>7. finding[f].last \in Nat /\ s \in Nat /\ finding[f].last <= s
  BY <1>1, <1>4, <1>5, TurnTypes
<1> QED
  BY <1>6, <1>7

\* When the newest scan is analysed and nothing goes on, what is open and left
\* alone by users was seen by it, or is of a type of which it has seen nothing.
THEOREM OpenIsSeen == Spec => []OpenMeansSeen
BY OpenAtEnd, IInvHolds, PTL

LEMMA NothingForgottenHere == IInv => NothingForgotten
<1> SUFFICES ASSUME IInv, NEW s \in Scans \ (early \cup {1}), NEW r \in Resources,
                    faults = 0, scan[s - 1] = "complete", scan[s] = "complete",
                    record[s - 1][r] \in {"new", "updated"}
             PROVE  record[s][r] # None
  BY DEF NothingForgotten
<1>1. Follows(s) /\ Begun(s)
  BY DEF Follows, Begun
<1>2. /\ current = s /\ pc = "record" => r \in found \/ record[s][r] # None
      /\ ~(current = s /\ pc \in {"store", "record"}) => record[s][r] # None
  BY <1>1 DEF IInv, Calm, HistoryGoesOn
<1>3. s # None
  BY Nothing
<1>4. ~(current = s /\ pc \in {"store", "record"})
  BY <1>3 DEF IInv, Calm, StillScanning
<1> QED
  BY <1>2, <1>4

\* The history of what a scan has found goes on in the next one.
THEOREM HistoryIsKept == Spec => []NothingForgotten
BY NothingForgottenHere, IInvHolds, PTL

\* However often scans detect a finding again or miss it, what a user has put
\* to sleep or ruled out stays so until a user changes it.
THEOREM DecisionStands == Spec => UserDecisionStands
<1>1. IInv /\ [Next]_vars =>
        [\A f \in Findings :
           /\ finding[f] # None /\ finding'[f] # None
           /\ finding[f].status = "snoozed"
           => finding'[f].status = finding[f].status \/ finding'[f].by = User]_vars
  BY DecisionStep DEF IInv
<1> QED
  BY <1>1, IInvHolds, PTL DEF Spec, UserDecisionStands
=============================================================================
