------------------------- MODULE ScanPipelineProofs -------------------------
(***************************************************************************)
(* Proofs about ScanPipeline, for every set of scans, every fan-out, every *)
(* retry limit, and any number of crashes and failed writes.               *)
(***************************************************************************)
EXTENDS ScanPipeline, TLAPS

-----------------------------------------------------------------------------
(* Types, and where the scanner holds a message.                           *)

InHandler == current = None <=> pc = "idle"
PushInRange == pc = "push" => next <= Len(analyzerTypes)

Typed == TypeOK /\ InHandler /\ PushInRange

LEMMA Limits ==
  /\ maxRetries \in Nat /\ MaxFaults \in Nat
  /\ None \notin ScanMessages /\ None \notin AnalyzeMessages
BY PipelineAssumption

LEMMA Indices ==
  /\ Len(analyzerTypes) \in Nat
  /\ \A i \in 1 .. Len(analyzerTypes) : analyzerTypes[i] \in Analyzers
  /\ \A a \in Analyzers : \E i \in 1 .. Len(analyzerTypes) : analyzerTypes[i] = a
  /\ DOMAIN analyzerTypes = 1 .. Len(analyzerTypes)
BY PipelineAssumption DEF Analyzers

LEMMA FaultType ==
  ASSUME faults \in 0 .. MaxFaults, Fault
  PROVE  faults' \in 0 .. MaxFaults /\ faults' = faults + 1
BY Limits DEF Fault

LEMMA TypedInit == Init => Typed
<1> SUFFICES ASSUME Init PROVE Typed
  OBVIOUS
<1>1. 1 \in 1 .. Len(analyzerTypes) + 1 /\ 0 \in 0 .. MaxFaults
  BY Indices, Limits
<1>2. /\ analysis \in [Scans -> [Analyzers -> JobStatuses]]
      /\ tries \in [Scans -> [Analyzers -> Nat]]
  BY DEF Init, JobStatuses
<1> QED
  BY <1>1, <1>2
  DEF Init, Typed, TypeOK, InHandler, PushInRange, ScanStatuses, JobStatuses, Steps

LEMMA SetScanType ==
  ASSUME Typed, NEW s \in Scans, NEW t \in ScanStatuses, SetScan(s, t)
  PROVE  scan' \in [Scans -> ScanStatuses] /\ faults' \in 0 .. MaxFaults
BY FaultType DEF Typed, TypeOK, SetScan

LEMMA SetScanJobType ==
  ASSUME Typed, NEW s \in Scans, NEW t \in JobStatuses, SetScanJob(s, t)
  PROVE  scanJob' \in [Scans -> JobStatuses] /\ faults' \in 0 .. MaxFaults
BY FaultType DEF Typed, TypeOK, SetScanJob

LEMMA SetRowType ==
  ASSUME Typed, NEW s \in Scans, NEW a \in Analyzers, NEW t \in JobStatuses,
         analysis' = [analysis EXCEPT ![s][a] = t]
  PROVE  analysis' \in [Scans -> [Analyzers -> JobStatuses]]
BY DEF Typed, TypeOK

LEMMA RowUpdate ==
  ASSUME Typed, NEW s \in Scans, NEW a \in Analyzers, NEW t,
         analysis' = [analysis EXCEPT ![s][a] = t]
  PROVE  /\ analysis'[s][a] = t
         /\ \A r \in Scans, b \in Analyzers :
              r # s \/ b # a => analysis'[r][b] = analysis[r][b]
BY DEF Typed, TypeOK

LEMMA EndAnalysisType ==
  ASSUME Typed, working # None, NEW t \in JobStatuses, EndAnalysis(t)
  PROVE  /\ analysis' \in [Scans -> [Analyzers -> JobStatuses]]
         /\ scan' \in [Scans -> ScanStatuses]
<1>1. working.scan \in Scans /\ working.type \in Analyzers
  BY DEF Typed, TypeOK, AnalyzeMessages
<1> QED
  BY <1>1 DEF Typed, TypeOK, EndAnalysis, SetAnalysis, ScanStatuses

LEMMA InHandType ==
  ASSUME Typed, pc # "idle"
  PROVE  current \in ScanMessages /\ current.scan \in Scans /\ current # None
BY DEF Typed, TypeOK, InHandler, ScanMessages

LEMMA RetriedType ==
  ASSUME NEW m \in AnalyzeMessages, m.retry < maxRetries
  PROVE  /\ [m EXCEPT !.retry = @ + 1] \in AnalyzeMessages
         /\ [m EXCEPT !.retry = @ + 1].scan = m.scan
         /\ [m EXCEPT !.retry = @ + 1].type = m.type
BY Limits DEF AnalyzeMessages

LEMMA TypedNext == Typed /\ [Next]_vars => Typed'
<1> SUFFICES ASSUME Typed, [Next]_vars PROVE Typed'
  OBVIOUS
<1> USE DEF Typed, TypeOK, InHandler, PushInRange
<1>1. ASSUME NEW s \in Scans,
             EnqueueScan(s) \/ PushScan(s) \/ PushScanFails(s) \/ FailOrphanedScan(s)
      PROVE  Typed'
  <2>1. CASE EnqueueScan(s)
    BY <2>1 DEF EnqueueScan, ScanStatuses, JobStatuses, scanner, analyzer
  <2>2. CASE PushScan(s)
    <3>1. [scan |-> s, retry |-> 0] \in ScanMessages
      BY Limits DEF ScanMessages
    <3> QED
      BY <2>2, <3>1 DEF PushScan, scanner, analyzer
  <2>3. CASE PushScanFails(s)
    BY <2>3, Limits, FaultType
    DEF PushScanFails, ScanStatuses, JobStatuses, scanner, analyzer
  <2>4. CASE FailOrphanedScan(s)
    BY <2>4, SetScanType DEF FailOrphanedScan, ScanStatuses, scanner, analyzer
  <2> QED
    BY <1>1, <2>1, <2>2, <2>3, <2>4
<1>2. CASE DeleteAccount
  BY <1>2 DEF DeleteAccount, ScanStatuses, scanner, analyzer
<1>3. CASE FindOrphanedScans
  BY <1>3 DEF FindOrphanedScans, scanner, analyzer
<1>4. CASE TakeScan
  <2>1. PICK m \in scanList :
          /\ scanList' = scanList \ {m}
          /\ current' = m
          /\ SetScanJob(m.scan, "running")
    BY <1>4 DEF TakeScan
  <2>2. m \in ScanMessages /\ m.scan \in Scans /\ m # None
    BY Limits DEF ScanMessages
  <2> QED
    BY <1>4, <2>1, <2>2, SetScanJobType
    DEF TakeScan, Goto, Steps, JobStatuses, api, analyzer
<1>5. CASE CheckAccount \/ AccountGone
  BY <1>5, InHandType, Limits, FaultType
  DEF CheckAccount, AccountGone, At, Goto, Steps, api, analyzer
<1>6. CASE BeginScan \/ AssumeRole \/ ScanFails \/ FinishScan
  BY <1>6, InHandType, SetScanType
  DEF BeginScan, AssumeRole, ScanFails, FinishScan, At, Goto, Steps, ScanStatuses,
      api, analyzer
<1>7. CASE MarkScanJob \/ MarkScanError
  BY <1>7, InHandType, SetScanJobType
  DEF MarkScanJob, MarkScanError, At, Goto, Steps, JobStatuses, api, analyzer
<1>8. CASE SetPending
  <2>1. 1 \in 1 .. Len(analyzerTypes) + 1
    BY Indices
  <2> QED
    BY <1>8, <2>1, InHandType, SetScanType
    DEF SetPending, At, Goto, Steps, ScanStatuses, api, analyzer
<1>9. CASE CreateAnalyzerJob
  <2>1. /\ current.scan \in Scans /\ current # None
        /\ analyzerTypes[next] \in Analyzers
    BY <1>9, InHandType, Indices DEF CreateAnalyzerJob, At
  <2>2. analysis' \in [Scans -> [Analyzers -> JobStatuses]]
    <3>1. CASE analysis' = [analysis EXCEPT ![current.scan][analyzerTypes[next]] = "queued"]
      BY <2>1, <3>1, SetRowType DEF JobStatuses
    <3> QED
      BY <1>9, <3>1 DEF CreateAnalyzerJob
  <2> QED
    <3>1. /\ pc' \in {"create", "push"}
          /\ next' \in 1 .. Len(analyzerTypes) + 1
          /\ pc' = "push" => next' <= Len(analyzerTypes)
          /\ faults' \in 0 .. MaxFaults
      BY <1>9, Indices, FaultType DEF CreateAnalyzerJob, At, Goto
    <3> QED
      BY <1>9, <2>1, <2>2, <3>1 DEF CreateAnalyzerJob, Steps, api, analyzer
<1>10. CASE PushAnalyzerJob
  <2>1. [scan |-> current.scan, type |-> analyzerTypes[next], retry |-> 0]
          \in AnalyzeMessages
    BY <1>10, InHandType, Indices, Limits, FaultType
    DEF PushAnalyzerJob, At, AnalyzeMessages
  <2> QED
    <3>1. /\ next' \in 1 .. Len(analyzerTypes) + 1
          /\ faults' \in 0 .. MaxFaults
          /\ current # None
      BY <1>10, InHandType, Indices, FaultType DEF PushAnalyzerJob, At
    <3> QED
      BY <1>10, <2>1, <3>1 DEF PushAnalyzerJob, Goto, Steps, api, analyzer
<1>11. CASE EndFanOut
  BY <1>11, InHandType, SetScanType
  DEF EndFanOut, At, Goto, Steps, ScanStatuses, api, analyzer
<1>12. CASE RetryScan
  <2>1. [current EXCEPT !.retry = @ + 1] \in ScanMessages \/ scanList' = scanList
    BY <1>12, InHandType, Limits, FaultType DEF RetryScan, At, ScanMessages
  <2> QED
    BY <1>12, <2>1, Limits, FaultType
    DEF RetryScan, At, Goto, Steps, api, analyzer
<1>13. CASE DeadLetterScan
  BY <1>13, InHandType, Limits, FaultType
  DEF DeadLetterScan, At, Goto, Steps, ScanStatuses, JobStatuses, api, analyzer
<1>14. CASE ScannerStops
  BY <1>14, Limits, FaultType DEF ScannerStops, Goto, Steps, api, analyzer
<1>15. CASE TakeAnalysis
  <2>1. PICK m \in analyzeList :
          /\ analyzeList' = analyzeList \ {m}
          /\ working' = m
          /\ tries' = [tries EXCEPT ![m.scan][m.type] = @ + 1]
          /\ \/ /\ analysis' = [analysis EXCEPT ![m.scan][m.type] = "running"]
                /\ UNCHANGED faults
             \/ Fault /\ UNCHANGED analysis
    BY <1>15 DEF TakeAnalysis
  <2>2. m.scan \in Scans /\ m.type \in Analyzers
    BY DEF AnalyzeMessages
  <2>3. tries' \in [Scans -> [Analyzers -> Nat]]
    BY <2>1, <2>2
  <2>4. analysis' \in [Scans -> [Analyzers -> JobStatuses]]
    <3>1. CASE analysis' = [analysis EXCEPT ![m.scan][m.type] = "running"]
      BY <2>2, <3>1, SetRowType DEF JobStatuses
    <3> QED
      BY <2>1, <3>1
  <2> QED
    BY <1>15, <2>1, <2>3, <2>4, Limits, FaultType DEF TakeAnalysis, api, scanner
<1>16. CASE AnalysisEnds
  <2>1. working # None /\ working \in AnalyzeMessages
    BY <1>16
    DEF AnalysisEnds, AnalysisSucceeds, AnalysisRetried, AnalysisRetryLost,
        AnalysisDeadLettered
  <2>2. /\ analysis' \in [Scans -> [Analyzers -> JobStatuses]]
        /\ scan' \in [Scans -> ScanStatuses]
        /\ faults' \in 0 .. MaxFaults
    BY <1>16, <2>1, EndAnalysisType, Limits, FaultType
    DEF AnalysisEnds, AnalysisSucceeds, AnalysisRetried, AnalysisRetryLost,
        AnalysisDeadLettered, EndAnalysisOrNot, JobStatuses
  <2>3. analyzeList' \in SUBSET AnalyzeMessages
    <3>1. CASE AnalysisRetried
      <4>1. [working EXCEPT !.retry = @ + 1] \in AnalyzeMessages
        BY <2>1, <3>1, RetriedType DEF AnalysisRetried
      <4> QED
        BY <3>1, <4>1 DEF AnalysisRetried
    <3> QED
      BY <1>16, <3>1
      DEF AnalysisEnds, AnalysisSucceeds, AnalysisRetryLost, AnalysisDeadLettered
  <2> QED
    BY <1>16, <2>2, <2>3
    DEF AnalysisEnds, AnalysisSucceeds, AnalysisRetried, AnalysisRetryLost,
        AnalysisDeadLettered, api, scanner
<1>17. CASE AnalyzerStops
  BY <1>17, Limits, FaultType DEF AnalyzerStops, api, scanner
<1>18. CASE UNCHANGED vars
  BY <1>18 DEF vars, api, scanner, analyzer
<1> QED
  BY <1>1, <1>2, <1>3, <1>4, <1>5, <1>6, <1>7, <1>8, <1>9, <1>10, <1>11, <1>12,
     <1>13, <1>14, <1>15, <1>16, <1>17, <1>18 DEF Next, ScannerSteps

\* The model is type-correct: the scanner is in a handler exactly while it holds
\* a message, and the fan-out never runs past the last analyzer.
THEOREM TypeCorrect == Spec => []TypeOK
<1>1. Spec => []Typed
  BY TypedInit, TypedNext, PTL DEF Spec
<1> QED
  BY <1>1, PTL DEF Typed

-----------------------------------------------------------------------------
(* One carrier.  Before its fan-out a scan is in one place: with the API,  *)
(* in one message, or in the scanner's hand; and it has no analyzer rows.  *)

HasRows(s) == \E a \in Analyzers : analysis[s][a] # "none"
InHand(s) == current # None /\ current.scan = s

Fresh(s) == scan[s] = "none" => ~ScanCarried(s) /\ ~HasRows(s)

OneCarrier(s) ==
  /\ \A m, n \in scanList : m.scan = s /\ n.scan = s => m = n
  /\ s \in toPush => \A m \in scanList : m.scan # s
  /\ InHand(s) => s \notin toPush /\ \A m \in scanList : m.scan # s

RowsAfterScan(s) ==
  HasRows(s) =>
    /\ s \notin toPush
    /\ \A m \in scanList : m.scan # s
    /\ InHand(s) => pc \in {"create", "push"}

\* What a message of the analyzer names has a row.
RowsOfMessages ==
  /\ \A m \in analyzeList : analysis[m.scan][m.type] # "none"
  /\ working # None => analysis[working.scan][working.type] # "none"
  /\ pc = "push" => analysis[current.scan][analyzerTypes[next]] # "none"

SweptScansExist == \A s \in orphans : scan[s] # "none"

Placed ==
  /\ \A s \in Scans : Fresh(s) /\ OneCarrier(s) /\ RowsAfterScan(s)
  /\ RowsOfMessages
  /\ SweptScansExist

(* The steps that hand no message over and create no row. *)

LEMMA PlacedQuiet ==
  ASSUME Typed, Placed, Typed',
         UNCHANGED <<toPush, scanList, analysis, analyzeList, working>>,
         current' = current \/ current' = None,
         pc \in {"create", "push"} => pc' \in {"create", "push", "idle"},
         pc' = "push" => pc = "push" /\ next' = next,
         \A s \in Scans : scan[s] # "none" => scan'[s] # "none",
         \A s \in orphans' : scan'[s] # "none"
  PROVE  Placed'
<1> USE DEF Placed
<1>1. ASSUME NEW s \in Scans PROVE Fresh(s)' /\ OneCarrier(s)'
  BY <1>1 DEF Fresh, OneCarrier, ScanCarried, InHand, HasRows
<1>2. ASSUME NEW s \in Scans PROVE RowsAfterScan(s)'
  BY <1>2 DEF RowsAfterScan, InHand, HasRows, Typed, InHandler
<1>3. RowsOfMessages'
  BY DEF RowsOfMessages, Typed, InHandler
<1> QED
  BY <1>1, <1>2, <1>3 DEF SweptScansExist

LEMMA QuietScans ==
  ASSUME Typed, NEW s \in Scans, NEW t \in ScanStatuses, t # "none", SetScan(s, t)
  PROVE  \A r \in Scans : scan[r] # "none" => scan'[r] # "none"
BY DEF Typed, TypeOK, SetScan

LEMMA SweptExist ==
  ASSUME Typed, Placed, NEW S \in SUBSET orphans,
         \A s \in Scans : scan[s] # "none" => scan'[s] # "none"
  PROVE  \A s \in S : scan'[s] # "none"
BY DEF Placed, SweptScansExist, Typed, TypeOK

LEMMA PlacedInit == Init => Placed
BY DEF Init, Placed, Fresh, OneCarrier, RowsAfterScan, RowsOfMessages,
       SweptScansExist, ScanCarried, InHand, HasRows

LEMMA PlacedApi ==
  ASSUME Typed, Typed', Placed,
         \/ \E s \in Scans :
              EnqueueScan(s) \/ PushScan(s) \/ PushScanFails(s) \/ FailOrphanedScan(s)
         \/ DeleteAccount
         \/ FindOrphanedScans
  PROVE  Placed'
<1>1. ASSUME NEW s \in Scans, EnqueueScan(s) PROVE Placed'
  <2>1. /\ ~ScanCarried(s) /\ ~HasRows(s)
        /\ scan' = [scan EXCEPT ![s] = "queued"]
        /\ toPush' = toPush \cup {s}
        /\ UNCHANGED <<orphans, analysis, scanList, analyzeList, pc, current, next, working>>
    BY <1>1 DEF EnqueueScan, Placed, Fresh, scanner, analyzer
  <2>2. \A t \in Scans :
          /\ t # s => (ScanCarried(t)' <=> ScanCarried(t))
          /\ HasRows(t)' <=> HasRows(t)
          /\ InHand(t)' <=> InHand(t)
    BY <2>1 DEF ScanCarried, HasRows, InHand
  <2>3. ASSUME NEW t \in Scans PROVE Fresh(t)' /\ OneCarrier(t)' /\ RowsAfterScan(t)'
    BY <2>1, <2>2
    DEF Placed, Fresh, OneCarrier, RowsAfterScan, ScanCarried, InHand, Typed, TypeOK
  <2> QED
    BY <2>1, <2>3 DEF Placed, RowsOfMessages, SweptScansExist, Typed, TypeOK
<1>2. ASSUME NEW s \in Scans, PushScan(s) PROVE Placed'
  <2>1. /\ s \in toPush /\ toPush' = toPush \ {s}
        /\ scanList' = scanList \cup {[scan |-> s, retry |-> 0]}
        /\ UNCHANGED <<scan, orphans, analysis, analyzeList, pc, current, next, working>>
    BY <1>2 DEF PushScan, scanner, analyzer
  <2>2. \A t \in Scans :
          /\ ScanCarried(t)' <=> ScanCarried(t)
          /\ HasRows(t)' <=> HasRows(t)
          /\ InHand(t)' <=> InHand(t)
    <3>1. [scan |-> s, retry |-> 0].scan = s
      OBVIOUS
    <3>2. ASSUME NEW t \in Scans
          PROVE  (\E m \in scanList' : m.scan = t) <=> t = s \/ \E m \in scanList : m.scan = t
      BY <2>1, <3>1
    <3> QED
      BY <2>1, <3>2 DEF ScanCarried, HasRows, InHand
  <2>3. ASSUME NEW t \in Scans PROVE Fresh(t)' /\ OneCarrier(t)' /\ RowsAfterScan(t)'
    <3>1. Fresh(t) /\ OneCarrier(t) /\ RowsAfterScan(t)
      BY DEF Placed
    <3>2. Fresh(t)'
      BY <2>1, <2>2, <3>1 DEF Fresh
    <3>3. OneCarrier(t)'
      BY <2>1, <2>2, <3>1 DEF OneCarrier
    <3>4. RowsAfterScan(t)'
      BY <2>1, <2>2, <3>1 DEF RowsAfterScan
    <3> QED
      BY <3>2, <3>3, <3>4
  <2> QED
    BY <2>1, <2>3 DEF Placed, RowsOfMessages, SweptScansExist
<1>3. ASSUME NEW s \in Scans, PushScanFails(s) PROVE Placed'
  <2>1. /\ toPush' = toPush \ {s}
        /\ scan' = [scan EXCEPT ![s] = "error"]
        /\ UNCHANGED <<orphans, analysis, scanList, analyzeList, pc, current, next, working>>
    BY <1>3 DEF PushScanFails, scanner, analyzer
  <2>2. ASSUME NEW t \in Scans PROVE Fresh(t)' /\ OneCarrier(t)' /\ RowsAfterScan(t)'
    BY <2>1
    DEF Placed, Fresh, OneCarrier, RowsAfterScan, ScanCarried, InHand, HasRows, Typed, TypeOK
  <2> QED
    BY <2>1, <2>2 DEF Placed, RowsOfMessages, SweptScansExist, Typed, TypeOK
<1>4. ASSUME NEW s \in Scans, FailOrphanedScan(s) PROVE Placed'
  <2>1. \A t \in Scans : scan[t] # "none" => scan'[t] # "none"
    BY <1>4, QuietScans DEF FailOrphanedScan, ScanStatuses
  <2>2. orphans' \in SUBSET orphans
    BY <1>4 DEF FailOrphanedScan
  <2> QED
    BY <1>4, <2>1, <2>2, SweptExist, PlacedQuiet DEF FailOrphanedScan, scanner, analyzer
<1>5. CASE DeleteAccount
  <2>1. \A t \in Scans : scan[t] # "none" => scan'[t] # "none"
    BY <1>5 DEF DeleteAccount
  <2> QED
    BY <1>5, <2>1, SweptExist, PlacedQuiet DEF DeleteAccount, scanner, analyzer
<1>6. CASE FindOrphanedScans
  <2>1. \A t \in orphans' : scan'[t] # "none"
    BY <1>6 DEF FindOrphanedScans, IsOrphan, Active
  <2> QED
    BY <1>6, <2>1, PlacedQuiet DEF FindOrphanedScans, scanner, analyzer
<1> QED
  BY <1>1, <1>2, <1>3, <1>4, <1>5, <1>6

LEMMA PlacedScanner ==
  ASSUME Typed, Typed', Placed, TakeScan \/ ScannerSteps \/ ScannerStops
  PROVE  Placed'
<1>1. CASE TakeScan
  <2>1. PICK m \in scanList :
          /\ scanList' = scanList \ {m}
          /\ current' = m
          /\ UNCHANGED <<scan, toPush, orphans, analysis, analyzeList, working>>
          /\ pc = "idle" /\ pc' = "check"
    BY <1>1 DEF TakeScan, At, Goto, api, analyzer
  <2>2. /\ m \in ScanMessages /\ m.scan \in Scans /\ m # None /\ current = None
    BY <2>1, Limits DEF Typed, TypeOK, InHandler, ScanMessages
  <2>3. ASSUME NEW t \in Scans PROVE Fresh(t)' /\ OneCarrier(t)' /\ RowsAfterScan(t)'
    <3>1. Fresh(t) /\ OneCarrier(t) /\ RowsAfterScan(t)
      BY DEF Placed
    <3>2. /\ InHand(t)' <=> m.scan = t
          /\ HasRows(t)' <=> HasRows(t)
          /\ ScanCarried(t)' <=> ScanCarried(t)
      BY <2>1, <2>2 DEF InHand, HasRows, ScanCarried
    <3>3. Fresh(t)'
      BY <2>1, <3>1, <3>2 DEF Fresh
    <3>4. OneCarrier(t)'
      BY <2>1, <2>2, <3>1, <3>2 DEF OneCarrier
    <3>5. RowsAfterScan(t)'
      BY <2>1, <2>2, <3>1, <3>2 DEF RowsAfterScan
    <3> QED
      BY <3>3, <3>4, <3>5
  <2> QED
    BY <2>1, <2>3 DEF Placed, RowsOfMessages, SweptScansExist
<1>2. CASE CheckAccount \/ AccountGone \/ MarkScanJob \/ MarkScanError
  <2>1. /\ UNCHANGED <<api, scan, scanList, analysis, analyzeList, current, working>>
        /\ pc \notin {"create", "push"} /\ pc' # "push"
    BY <1>2 DEF CheckAccount, AccountGone, MarkScanJob, MarkScanError, At, Goto, analyzer
  <2> QED
    BY <2>1, PlacedQuiet, SweptExist DEF api
<1>3. CASE BeginScan \/ AssumeRole \/ ScanFails \/ FinishScan \/ SetPending
  <2>1. /\ UNCHANGED <<api, scanList, analysis, analyzeList, current, working>>
        /\ pc \notin {"create", "push", "idle"} /\ pc' # "push"
        /\ \E t \in ScanStatuses \ {"none"} : SetScan(current.scan, t)
    BY <1>3
    DEF BeginScan, AssumeRole, ScanFails, FinishScan, SetPending, At, Goto, analyzer,
        ScanStatuses
  <2>2. \A t \in Scans : scan[t] # "none" => scan'[t] # "none"
    BY <2>1, InHandType, QuietScans
  <2> QED
    BY <2>1, <2>2, PlacedQuiet, SweptExist DEF api
<1>4. CASE CreateAnalyzerJob
  <2>1. /\ current.scan \in Scans /\ current # None /\ InHand(current.scan)
        /\ analyzerTypes[next] \in Analyzers
    BY <1>4, InHandType, Indices DEF CreateAnalyzerJob, At, InHand, Typed, TypeOK
  <2>2. CASE UNCHANGED <<analysis, pc>>
    BY <1>4, <2>2, PlacedQuiet, SweptExist DEF CreateAnalyzerJob, At, api, analyzer
  <2>3. CASE /\ analysis' = [analysis EXCEPT ![current.scan][analyzerTypes[next]] = "queued"]
             /\ pc' = "push" /\ next' = next
    <3>1. UNCHANGED <<api, scan, scanList, analyzeList, current, working>>
      BY <1>4 DEF CreateAnalyzerJob, analyzer
    <3>2. \A t \in Scans, a \in Analyzers :
            /\ analysis[t][a] # "none" => analysis'[t][a] # "none"
            /\ t # current.scan => analysis'[t][a] = analysis[t][a]
      BY <2>1, <2>3 DEF Typed, TypeOK
    <3>3. analysis'[current.scan][analyzerTypes[next]] = "queued"
      BY <2>1, <2>3 DEF Typed, TypeOK
    <3>4. ASSUME NEW t \in Scans PROVE Fresh(t)' /\ OneCarrier(t)'
      BY <2>1, <3>1, <3>2
      DEF Placed, Fresh, OneCarrier, ScanCarried, InHand, HasRows, api
    <3>5. ASSUME NEW t \in Scans PROVE RowsAfterScan(t)'
      BY <2>1, <2>3, <3>1, <3>2
      DEF Placed, OneCarrier, RowsAfterScan, InHand, HasRows, api
    <3>6. RowsOfMessages'
      BY <2>3, <3>1, <3>2, <3>3
      DEF Placed, RowsOfMessages, Typed, TypeOK, AnalyzeMessages
    <3> QED
      BY <3>1, <3>4, <3>5, <3>6 DEF Placed, SweptScansExist, api
  <2> QED
    BY <1>4, <2>2, <2>3 DEF CreateAnalyzerJob, Goto
<1>5. CASE PushAnalyzerJob
  <2>1. /\ pc = "push" /\ pc' = "create"
        /\ UNCHANGED <<api, scan, scanList, analysis, current, working>>
    BY <1>5 DEF PushAnalyzerJob, At, Goto, analyzer
  <2>2. analyzeList' \subseteq analyzeList \cup
          {[scan |-> current.scan, type |-> analyzerTypes[next], retry |-> 0]}
    BY <1>5 DEF PushAnalyzerJob
  <2>3. RowsOfMessages'
    BY <2>1, <2>2 DEF Placed, RowsOfMessages
  <2>4. ASSUME NEW t \in Scans PROVE Fresh(t)' /\ OneCarrier(t)' /\ RowsAfterScan(t)'
    BY <2>1 DEF Placed, Fresh, OneCarrier, RowsAfterScan, ScanCarried, InHand, HasRows, api
  <2> QED
    BY <2>1, <2>3, <2>4 DEF Placed, SweptScansExist, api
<1>6. CASE EndFanOut \/ DeadLetterScan \/ ScannerStops
  <2>1. /\ UNCHANGED <<api, scanList, analysis, analyzeList, working>>
        /\ current' = None /\ pc' = "idle" /\ pc # "idle"
    BY <1>6 DEF EndFanOut, DeadLetterScan, ScannerStops, At, Goto, analyzer
  <2>2. \A t \in Scans : scan[t] # "none" => scan'[t] # "none"
    <3>1. current.scan \in Scans
      BY <2>1, InHandType
    <3>2. CASE EndFanOut
      BY <3>1, <3>2, QuietScans DEF EndFanOut, ScanStatuses
    <3>3. CASE DeadLetterScan
      BY <3>1, <3>3 DEF DeadLetterScan, Typed, TypeOK
    <3> QED
      BY <1>6, <3>2, <3>3 DEF ScannerStops
  <2> QED
    BY <2>1, <2>2, PlacedQuiet, SweptExist DEF api
<1>7. CASE RetryScan
  <2>1. /\ UNCHANGED <<api, scan, analysis, analyzeList, working>>
        /\ current' = None /\ pc' = "idle" /\ pc = "requeue"
        /\ current # None /\ current.scan \in Scans
    BY <1>7, InHandType DEF RetryScan, At, Goto, analyzer
  <2>2. CASE UNCHANGED scanList
    BY <2>1, <2>2, PlacedQuiet, SweptExist DEF api
  <2>3. CASE scanList' = scanList \cup {[current EXCEPT !.retry = @ + 1]}
    <3>1. [current EXCEPT !.retry = @ + 1].scan = current.scan
      BY <2>1, InHandType DEF ScanMessages
    <3>2. ASSUME NEW t \in Scans PROVE Fresh(t)' /\ OneCarrier(t)' /\ RowsAfterScan(t)'
      <4>1. Fresh(t) /\ OneCarrier(t) /\ RowsAfterScan(t)
        BY DEF Placed
      <4>2. /\ ~InHand(t)'
            /\ InHand(t) <=> current.scan = t
            /\ HasRows(t)' <=> HasRows(t)
        BY <2>1 DEF InHand, HasRows
      <4>3. ScanCarried(t)' <=> ScanCarried(t)
        BY <2>1, <2>3, <3>1 DEF ScanCarried, api
      <4>4. Fresh(t)'
        BY <2>1, <4>1, <4>2, <4>3 DEF Fresh
      <4>5. OneCarrier(t)'
        BY <2>1, <2>3, <3>1, <4>1, <4>2 DEF OneCarrier, api
      <4>6. RowsAfterScan(t)'
        BY <2>1, <2>3, <3>1, <4>1, <4>2 DEF RowsAfterScan, api
      <4> QED
        BY <4>4, <4>5, <4>6
    <3> QED
      BY <2>1, <3>2, SweptExist DEF Placed, RowsOfMessages, SweptScansExist, api
  <2> QED
    BY <1>7, <2>2, <2>3 DEF RetryScan
<1> QED
  BY <1>1, <1>2, <1>3, <1>4, <1>5, <1>6, <1>7 DEF ScannerSteps

(* The analyzer's steps touch only rows that exist, and only their scans. *)

LEMMA AnalyzerEffect ==
  ASSUME Typed, Typed', Placed, TakeAnalysis \/ AnalysisEnds \/ AnalyzerStops
  PROVE  /\ UNCHANGED <<api, scanJob, scanList, scanner>>
         /\ \A s \in Scans, a \in Analyzers :
              analysis'[s][a] # "none" <=> analysis[s][a] # "none"
         /\ \A s \in Scans : scan[s] # "none" => scan'[s] # "none"
         /\ RowsOfMessages'
<1>1. CASE TakeAnalysis
  <2>1. PICK m \in analyzeList :
          /\ analyzeList' = analyzeList \ {m}
          /\ working' = m
          /\ \/ analysis' = [analysis EXCEPT ![m.scan][m.type] = "running"]
             \/ UNCHANGED analysis
    BY <1>1 DEF TakeAnalysis
  <2>2. m.scan \in Scans /\ m.type \in Analyzers /\ analysis[m.scan][m.type] # "none"
    BY DEF Typed, TypeOK, AnalyzeMessages, Placed, RowsOfMessages
  <2>3. \A s \in Scans, a \in Analyzers :
          analysis'[s][a] # "none" <=> analysis[s][a] # "none"
    <3>1. CASE analysis' = [analysis EXCEPT ![m.scan][m.type] = "running"]
      BY <2>2, <3>1, RowUpdate
    <3> QED
      BY <2>1, <3>1
  <2>4. UNCHANGED <<api, scan, scanJob, scanList, scanner>>
    BY <1>1 DEF TakeAnalysis
  <2>5. /\ \A n \in analyzeList' : analysis'[n.scan][n.type] # "none"
        /\ analysis'[working'.scan][working'.type] # "none"
    BY <2>1, <2>2, <2>3 DEF Typed, TypeOK, AnalyzeMessages, Placed, RowsOfMessages
  <2>6. pc = "push" => analysis'[current.scan][analyzerTypes[next]] # "none"
    BY <2>3, InHandType, Indices DEF Typed, TypeOK, PushInRange, Placed, RowsOfMessages
  <2> QED
    BY <2>3, <2>4, <2>5, <2>6 DEF RowsOfMessages, scanner
<1>2. CASE AnalysisEnds \/ AnalyzerStops
  <2>1. /\ working # None /\ working' = None /\ working \in AnalyzeMessages
        /\ UNCHANGED <<api, scanJob, scanList, scanner>>
    BY <1>2
    DEF AnalysisEnds, AnalysisSucceeds, AnalysisRetried, AnalysisRetryLost,
        AnalysisDeadLettered, AnalyzerStops, Typed, TypeOK
  <2>2. /\ working.scan \in Scans /\ working.type \in Analyzers
        /\ analysis[working.scan][working.type] # "none"
    BY <2>1 DEF AnalyzeMessages, Placed, RowsOfMessages
  <2>3. \/ \E t \in {"complete", "error"} :
             /\ analysis' = [analysis EXCEPT ![working.scan][working.type] = t]
             /\ scan' \in {scan, [scan EXCEPT ![working.scan] = "complete"]}
        \/ UNCHANGED <<analysis, scan>>
    BY <1>2
    DEF AnalysisEnds, AnalysisSucceeds, AnalysisRetried, AnalysisRetryLost,
        AnalysisDeadLettered, AnalyzerStops, EndAnalysisOrNot, EndAnalysis, SetAnalysis
  <2>4. \A s \in Scans, a \in Analyzers :
          analysis'[s][a] # "none" <=> analysis[s][a] # "none"
    <3>1. ASSUME NEW t \in {"complete", "error"},
                 analysis' = [analysis EXCEPT ![working.scan][working.type] = t]
          PROVE  \A s \in Scans, a \in Analyzers :
                   analysis'[s][a] # "none" <=> analysis[s][a] # "none"
      BY <2>2, <3>1, RowUpdate
    <3> QED
      BY <2>3, <3>1
  <2>5. \A s \in Scans : scan[s] # "none" => scan'[s] # "none"
    BY <2>2, <2>3 DEF Typed, TypeOK
  <2>6. \A n \in analyzeList' :
          n \in analyzeList \/ (n.scan = working.scan /\ n.type = working.type)
    <3>1. CASE AnalysisRetried
      <4>1. /\ [working EXCEPT !.retry = @ + 1].scan = working.scan
            /\ [working EXCEPT !.retry = @ + 1].type = working.type
        BY <2>1, <3>1, RetriedType DEF AnalysisRetried
      <4> QED
        BY <3>1, <4>1 DEF AnalysisRetried
    <3>2. ~AnalysisRetried => UNCHANGED analyzeList
      BY <1>2
      DEF AnalysisEnds, AnalysisSucceeds, AnalysisRetryLost, AnalysisDeadLettered,
          AnalyzerStops
    <3> QED
      BY <3>1, <3>2
  <2>7. \A n \in analyzeList' : analysis'[n.scan][n.type] # "none"
    BY <2>2, <2>4, <2>6 DEF Typed, TypeOK, AnalyzeMessages, Placed, RowsOfMessages
  <2>8. pc = "push" => analysis'[current.scan][analyzerTypes[next]] # "none"
    BY <2>4, InHandType, Indices DEF Typed, TypeOK, PushInRange, Placed, RowsOfMessages
  <2> QED
    BY <2>1, <2>4, <2>5, <2>7, <2>8 DEF RowsOfMessages, scanner
<1> QED
  BY <1>1, <1>2

LEMMA PlacedAnalyzer ==
  ASSUME Typed, Typed', Placed, TakeAnalysis \/ AnalysisEnds \/ AnalyzerStops
  PROVE  Placed'
<1>1. /\ UNCHANGED <<api, scanJob, scanList, scanner>>
      /\ \A s \in Scans, a \in Analyzers :
           analysis'[s][a] # "none" <=> analysis[s][a] # "none"
      /\ \A s \in Scans : scan[s] # "none" => scan'[s] # "none"
      /\ RowsOfMessages'
  BY AnalyzerEffect
<1>2. ASSUME NEW s \in Scans PROVE Fresh(s)' /\ OneCarrier(s)' /\ RowsAfterScan(s)'
  BY <1>1
  DEF Placed, Fresh, OneCarrier, RowsAfterScan, ScanCarried, InHand, HasRows, api, scanner
<1> QED
  BY <1>1, <1>2, SweptExist DEF Placed, SweptScansExist, api

LEMMA PlacedNext == Typed /\ Typed' /\ Placed /\ [Next]_vars => Placed'
<1>1. CASE UNCHANGED vars
  BY <1>1, PlacedQuiet, SweptExist DEF vars, api, scanner, analyzer
<1> QED
  BY <1>1, PlacedApi, PlacedScanner, PlacedAnalyzer DEF Next

-----------------------------------------------------------------------------
(* The status of the scan_account job, with the failed writes it takes to  *)
(* make it wrong.                                                          *)

JobShown(s) ==
  /\ InHand(s) /\ pc \in {"check", "begin", "assume", "scan", "mark"}
       => scanJob[s] = "running" \/ faults >= 1
  /\ InHand(s) /\ pc \in {"pending", "create", "push"}
       => scanJob[s] \in {"running", "complete"} \/ faults >= 2
  /\ HasRows(s) => scanJob[s] \in {"running", "complete"} \/ faults >= 2

Shown == \A s \in Scans : JobShown(s)

LEMMA ShownInit == Init => Shown
<1>1. Init => \A s \in Scans : ~InHand(s)
  BY DEF Init, InHand
<1>2. Init => \A s \in Scans : ~HasRows(s)
  BY PlacedInit DEF Init, Placed, Fresh
<1> QED
  BY <1>1, <1>2 DEF Shown, JobShown

(* The steps of the others: a scan that has a handler or rows is not theirs. *)

LEMMA ShownOthers ==
  ASSUME Typed, Typed', Placed, Shown,
         UNCHANGED <<pc, current>>,
         faults' \in {faults, faults + 1},
         \A s \in Scans : HasRows(s)' => HasRows(s),
         \A s \in Scans : InHand(s) \/ HasRows(s) => scanJob'[s] = scanJob[s]
  PROVE  Shown'
<1> SUFFICES ASSUME NEW s \in Scans PROVE JobShown(s)'
  BY DEF Shown
<1>1. JobShown(s) /\ (InHand(s)' <=> InHand(s))
  BY DEF Shown, InHand
<1>2. faults \in Nat /\ faults' \in Nat
  BY Limits DEF Typed, TypeOK
<1> QED
  BY <1>1, <1>2 DEF JobShown

LEMMA ShownApi ==
  ASSUME Typed, Typed', Placed, Shown,
         \/ \E s \in Scans :
              EnqueueScan(s) \/ PushScan(s) \/ PushScanFails(s) \/ FailOrphanedScan(s)
         \/ DeleteAccount
         \/ FindOrphanedScans
  PROVE  Shown'
<1>1. UNCHANGED <<pc, current, analysis>> /\ faults' \in {faults, faults + 1}
  BY DEF EnqueueScan, PushScan, PushScanFails, FailOrphanedScan, DeleteAccount,
         FindOrphanedScans, SetScan, Fault, scanner, analyzer
<1>2. ASSUME NEW s \in Scans, InHand(s) \/ HasRows(s) PROVE scanJob'[s] = scanJob[s]
  <2>1. ASSUME NEW r \in Scans, EnqueueScan(r) PROVE scanJob'[s] = scanJob[s]
    BY <1>2, <2>1 DEF EnqueueScan, Placed, Fresh, ScanCarried, InHand, Typed, TypeOK
  <2>2. ASSUME NEW r \in Scans, PushScanFails(r) PROVE scanJob'[s] = scanJob[s]
    BY <1>2, <2>2 DEF PushScanFails, Placed, OneCarrier, RowsAfterScan, Typed, TypeOK
  <2> QED
    BY <2>1, <2>2 DEF PushScan, FailOrphanedScan, DeleteAccount, FindOrphanedScans
<1>3. \A s \in Scans : HasRows(s)' => HasRows(s)
  BY <1>1 DEF HasRows
<1> QED
  BY <1>1, <1>2, <1>3, ShownOthers

LEMMA ShownAnalyzer ==
  ASSUME Typed, Typed', Placed, Shown, TakeAnalysis \/ AnalysisEnds \/ AnalyzerStops
  PROVE  Shown'
<1>1. UNCHANGED <<scanJob, pc, current>> /\ \A s \in Scans : HasRows(s)' => HasRows(s)
  BY AnalyzerEffect DEF HasRows, scanner
<1>2. faults' \in {faults, faults + 1}
  BY DEF TakeAnalysis, AnalysisEnds, AnalysisSucceeds, AnalysisRetried,
         AnalysisRetryLost, AnalysisDeadLettered, AnalyzerStops, EndAnalysisOrNot, Fault
<1> QED
  BY <1>1, <1>2, ShownOthers

(* The scanner: each failed write costs a fault. *)

LEMMA SetScanJobEffect ==
  ASSUME Typed, NEW s \in Scans, NEW t \in JobStatuses, SetScanJob(s, t)
  PROVE  /\ \A r \in Scans : r # s => scanJob'[r] = scanJob[r]
         /\ \/ scanJob'[s] = t /\ faults' = faults
            \/ scanJob'[s] = scanJob[s] /\ faults' = faults + 1
BY DEF Typed, TypeOK, SetScanJob, Fault

LEMMA ShownScanner ==
  ASSUME Typed, Typed', Placed, Shown, TakeScan \/ ScannerSteps \/ ScannerStops
  PROVE  Shown'
<1> SUFFICES ASSUME NEW s \in Scans PROVE JobShown(s)'
  BY DEF Shown
<1>1. JobShown(s) /\ Fresh(s) /\ OneCarrier(s) /\ RowsAfterScan(s)
  BY DEF Shown, Placed
<1>2. faults \in Nat /\ faults' \in Nat
  BY Limits DEF Typed, TypeOK
<1>3. CASE TakeScan
  <2>1. PICK m \in scanList : current' = m /\ SetScanJob(m.scan, "running")
    BY <1>3 DEF TakeScan
  <2>2. m.scan \in Scans
    BY DEF Typed, TypeOK, ScanMessages
  <2>3. /\ pc' = "check"
        /\ InHand(s)' => m.scan = s
        /\ HasRows(s)' <=> HasRows(s)
        /\ m.scan = s => ~HasRows(s)
    BY <1>1, <1>3, <2>1 DEF TakeScan, At, Goto, InHand, HasRows, RowsAfterScan
  <2>4. /\ m.scan # s => scanJob'[s] = scanJob[s]
        /\ m.scan = s => scanJob'[s] = "running" \/ faults' = faults + 1
        /\ faults' \in {faults, faults + 1}
    BY <2>1, <2>2, SetScanJobEffect DEF JobStatuses
  <2> QED
    BY <1>1, <1>2, <2>3, <2>4 DEF JobShown
<1>4. CASE CheckAccount \/ BeginScan \/ AccountGone \/ AssumeRole \/ ScanFails \/ FinishScan
  <2>1. /\ UNCHANGED <<current, scanJob, analysis>>
        /\ faults' \in {faults, faults + 1}
        /\ pc \in {"check", "begin", "assume", "scan"}
        /\ pc' \in {"begin", "assume", "scan", "mark", "failed"}
    BY <1>4
    DEF CheckAccount, BeginScan, AccountGone, AssumeRole, ScanFails, FinishScan,
        SetScan, At, Goto, Fault
  <2> QED
    BY <1>1, <1>2, <2>1 DEF JobShown, InHand, HasRows
<1>5. CASE MarkScanJob \/ MarkScanError
  <2>1. /\ UNCHANGED <<current, analysis>> /\ current.scan \in Scans /\ current # None
        /\ pc \notin {"create", "push"}
        /\ \/ pc = "mark" /\ pc' = "pending" /\ SetScanJob(current.scan, "complete")
           \/ pc' = "requeue" /\ SetScanJob(current.scan, "error")
    BY <1>5, InHandType DEF MarkScanJob, MarkScanError, At, Goto
  <2>2. /\ current.scan # s => scanJob'[s] = scanJob[s]
        /\ faults' \in {faults, faults + 1}
        /\ pc = "mark" /\ pc' = "pending" /\ current.scan = s =>
             scanJob'[s] = "complete" \/ (scanJob'[s] = scanJob[s] /\ faults' = faults + 1)
    <3>1. CASE SetScanJob(current.scan, "complete")
      BY <2>1, <3>1, SetScanJobEffect DEF JobStatuses
    <3>2. CASE SetScanJob(current.scan, "error") /\ pc' = "requeue"
      BY <2>1, <3>2, SetScanJobEffect DEF JobStatuses
    <3> QED
      BY <2>1, <3>1, <3>2
  <2>3. HasRows(s)' => HasRows(s) /\ current.scan # s
    BY <1>1, <2>1 DEF HasRows, RowsAfterScan, InHand
  <2> QED
    BY <1>1, <1>2, <2>1, <2>2, <2>3 DEF JobShown, InHand
<1>6. CASE SetPending \/ CreateAnalyzerJob \/ PushAnalyzerJob
  <2>1. /\ UNCHANGED <<current, scanJob>> /\ current # None /\ current.scan \in Scans
        /\ faults' \in {faults, faults + 1}
        /\ pc \in {"pending", "create", "push"} /\ pc' \in {"create", "push"}
    BY <1>6, InHandType
    DEF SetPending, CreateAnalyzerJob, PushAnalyzerJob, SetScan, At, Goto, Fault
  <2>2. HasRows(s)' => HasRows(s) \/ InHand(s)
    <3>1. CASE CreateAnalyzerJob
      <4>1. current.scan # s => \A a \in Analyzers : analysis'[s][a] = analysis[s][a]
        BY <2>1, <3>1, Indices, RowUpdate DEF CreateAnalyzerJob, At, Typed, TypeOK
      <4> QED
        BY <2>1, <4>1 DEF HasRows, InHand
    <3> QED
      BY <1>6, <3>1 DEF SetPending, PushAnalyzerJob, HasRows
  <2> QED
    BY <1>1, <1>2, <2>1, <2>2 DEF JobShown, InHand
<1>7. CASE EndFanOut \/ RetryScan \/ ScannerStops
  <2>1. /\ current' = None /\ UNCHANGED <<scanJob, analysis>>
        /\ faults' \in {faults, faults + 1}
    BY <1>7 DEF EndFanOut, RetryScan, ScannerStops, SetScan, Fault
  <2> QED
    BY <1>1, <1>2, <2>1 DEF JobShown, InHand, HasRows
<1>8. CASE DeadLetterScan
  <2>1. /\ current' = None /\ UNCHANGED analysis
        /\ faults' \in {faults, faults + 1}
        /\ current # None /\ current.scan \in Scans /\ pc = "requeue"
        /\ s # current.scan => scanJob'[s] = scanJob[s]
    BY <1>8, InHandType DEF DeadLetterScan, At, Fault, Typed, TypeOK
  <2> QED
    BY <1>1, <1>2, <2>1 DEF JobShown, InHand, HasRows, RowsAfterScan
<1> QED
  BY <1>3, <1>4, <1>5, <1>6, <1>7, <1>8 DEF ScannerSteps

LEMMA ShownNext == Typed /\ Typed' /\ Placed /\ Shown /\ [Next]_vars => Shown'
<1>1. CASE UNCHANGED vars
  BY <1>1, ShownOthers DEF vars, api, scanner, analyzer, HasRows
<1> QED
  BY <1>1, ShownApi, ShownScanner, ShownAnalyzer DEF Next

\* A scan whose job has failed is not analysed, unless two writes have failed.
THEOREM FailedStaysOut == Spec => []FailedScanNotAnalysed
<1>1. Spec => [](Typed /\ Placed /\ Shown)
  BY TypedInit, TypedNext, PlacedInit, PlacedNext, ShownInit, ShownNext, PTL DEF Spec
<1>2. Typed /\ Shown => FailedScanNotAnalysed
  <2> SUFFICES ASSUME Typed, Shown, faults < 2, NEW s \in Scans, HasRows(s)
               PROVE  scanJob[s] \in {"running", "complete"}
    BY DEF FailedScanNotAnalysed, HasRows
  <2> QED
    BY Limits DEF Shown, JobShown, Typed, TypeOK
<1> QED
  BY <1>1, <1>2, PTL

-----------------------------------------------------------------------------
(* When nothing has failed: what is stalled is carried, and the fan-out    *)
(* starts with a scan that is not.                                         *)

Stalled == {"queued", "processing", "running"}
InFanOut(s) == InHand(s) /\ pc \in {"create", "push"}

RowsMove(s) ==
  \A a \in Analyzers : analysis[s][a] \in {"queued", "running"} => AnalysisCarried(s, a)

Moves(s) ==
  /\ InFanOut(s) => scan[s] \notin Stalled
  /\ scan[s] \in Stalled => ScanCarried(s)
  /\ RowsMove(s)

Moving == faults = 0 => \A s \in Scans : Moves(s)

LEMMA MovingInit == Init => Moving
<1>1. Init => \A s \in Scans : scan[s] \notin Stalled
  BY DEF Init, Stalled
<1>2. Init => \A s \in Scans : RowsMove(s)
  <2>1. Init => \A s \in Scans : ~HasRows(s)
    BY PlacedInit DEF Init, Placed, Fresh
  <2> QED
    BY <2>1 DEF HasRows, RowsMove
<1> QED
  BY <1>1, <1>2 DEF Moving, Moves

LEMMA NoFault ==
  ASSUME Typed, [Next]_vars, faults' = 0
  PROVE  faults = 0 /\ ~Fault
<1>1. faults' = faults \/ faults' = faults + 1
  BY DEF Next, EnqueueScan, PushScan, PushScanFails, FailOrphanedScan, DeleteAccount,
     FindOrphanedScans, TakeScan, ScannerSteps, ScannerStops, TakeAnalysis, AnalysisEnds,
     AnalyzerStops, CheckAccount, BeginScan, AccountGone, AssumeRole, ScanFails,
     FinishScan, MarkScanJob, SetPending, CreateAnalyzerJob, PushAnalyzerJob, EndFanOut,
     MarkScanError, RetryScan, DeadLetterScan, AnalysisSucceeds, AnalysisRetried,
     AnalysisRetryLost, AnalysisDeadLettered, EndAnalysisOrNot, SetScan, SetScanJob,
     Fault, vars
<1> QED
  BY <1>1, Limits DEF Fault, Typed, TypeOK

LEMMA SetScanEffect ==
  ASSUME Typed, NEW s \in Scans, NEW t \in ScanStatuses, SetScan(s, t), ~Fault
  PROVE  scan'[s] = t /\ \A r \in Scans : r # s => scan'[r] = scan[r]
BY DEF Typed, TypeOK, SetScan

(* The API leaves the workers' hands and lists alone. *)

LEMMA ApiEffect ==
  ASSUME Typed, Typed', Placed, ~Fault,
         \/ \E s \in Scans :
              EnqueueScan(s) \/ PushScan(s) \/ PushScanFails(s) \/ FailOrphanedScan(s)
         \/ DeleteAccount
         \/ FindOrphanedScans
  PROVE  /\ UNCHANGED <<pc, current, next, enqueued, working, tries, analysis, analyzeList>>
         /\ \A s \in Scans :
              /\ ScanCarried(s) => ScanCarried(s)'
              /\ \/ scan'[s] \in {scan[s], "error", "canceled"}
                 \/ scan'[s] = "queued" /\ ScanCarried(s)' /\ ~InHand(s)
<1>1. UNCHANGED <<pc, current, next, enqueued, working, tries, analysis, analyzeList>>
  BY DEF EnqueueScan, PushScan, PushScanFails, FailOrphanedScan, DeleteAccount,
         FindOrphanedScans, scanner, analyzer
<1>2. ASSUME NEW s \in Scans, NEW r \in Scans, EnqueueScan(r)
      PROVE  /\ ScanCarried(s) => ScanCarried(s)'
             /\ \/ scan'[s] = scan[s]
                \/ scan'[s] = "queued" /\ ScanCarried(s)' /\ ~InHand(s)
  BY <1>2 DEF EnqueueScan, Placed, Fresh, ScanCarried, InHand, Typed, TypeOK, scanner
<1>3. ASSUME NEW s \in Scans, NEW r \in Scans, PushScan(r)
      PROVE  (ScanCarried(s) => ScanCarried(s)') /\ scan'[s] = scan[s]
  <2>1. [scan |-> r, retry |-> 0].scan = r
    OBVIOUS
  <2>2. s # r => (s \in toPush => s \in toPush')
    BY <1>3 DEF PushScan
  <2>3. \E m \in scanList' : m.scan = r
    BY <1>3, <2>1 DEF PushScan
  <2> QED
    BY <1>3, <2>2, <2>3 DEF PushScan, ScanCarried, scanner
<1>4. ASSUME NEW s \in Scans, NEW r \in Scans, FailOrphanedScan(r)
      PROVE  (ScanCarried(s) => ScanCarried(s)') /\ scan'[s] \in {scan[s], "error"}
  BY <1>4, SetScanEffect DEF FailOrphanedScan, ScanCarried, ScanStatuses, scanner
<1>5. ASSUME NEW s \in Scans, DeleteAccount
      PROVE  (ScanCarried(s) => ScanCarried(s)') /\ scan'[s] \in {scan[s], "canceled"}
  BY <1>5 DEF DeleteAccount, ScanCarried, scanner
<1>6. ASSUME NEW s \in Scans, FindOrphanedScans
      PROVE  (ScanCarried(s) => ScanCarried(s)') /\ scan'[s] = scan[s]
  BY <1>6 DEF FindOrphanedScans, ScanCarried, scanner
<1> QED
  BY <1>1, <1>2, <1>3, <1>4, <1>5, <1>6 DEF PushScanFails

(* Every step of the scanner outside the fan-out, and its first. *)

BeforeFanOut ==
  \/ CheckAccount \/ BeginScan \/ AccountGone \/ AssumeRole \/ ScanFails
  \/ FinishScan \/ MarkScanJob \/ SetPending \/ MarkScanError

LEMMA BeforeFanOutEffect ==
  ASSUME Typed, ~Fault, BeforeFanOut
  PROVE  /\ UNCHANGED <<toPush, scanList, current, analysis, analyzeList, working, tries>>
         /\ current # None /\ current.scan \in Scans
         /\ \A s \in Scans : s # current.scan => scan'[s] = scan[s]
         /\ pc \notin {"create", "push"}
         /\ pc' \in {"create", "push"} =>
              pc' = "create" /\ next' = 1 /\ scan'[current.scan] = "analyzing_pending"
<1>1. /\ UNCHANGED <<toPush, scanList, current, analysis, analyzeList, working, tries>>
      /\ current # None /\ current.scan \in Scans
      /\ pc \notin {"create", "push"}
  BY InHandType
  DEF BeforeFanOut, CheckAccount, BeginScan, AccountGone, AssumeRole, ScanFails,
      FinishScan, MarkScanJob, SetPending, MarkScanError, At, api, analyzer
<1>2. CASE CheckAccount \/ AccountGone \/ MarkScanJob \/ MarkScanError
  BY <1>1, <1>2 DEF CheckAccount, AccountGone, MarkScanJob, MarkScanError, At, Goto
<1>3. CASE BeginScan \/ AssumeRole \/ ScanFails \/ FinishScan
  <2>1. \E t \in ScanStatuses : SetScan(current.scan, t)
    BY <1>3 DEF BeginScan, AssumeRole, ScanFails, FinishScan, ScanStatuses
  <2> QED
    BY <1>1, <1>3, <2>1, SetScanEffect DEF BeginScan, AssumeRole, ScanFails, FinishScan, Goto
<1>4. CASE SetPending
  BY <1>1, <1>4, SetScanEffect DEF SetPending, Goto, ScanStatuses
<1> QED
  BY <1>2, <1>3, <1>4 DEF BeforeFanOut

LEMMA MovingScanner ==
  ASSUME Typed, Typed', Placed, ~Fault, NEW s \in Scans, Moves(s),
         TakeScan \/ ScannerSteps \/ ScannerStops
  PROVE  Moves(s)'
<1> USE DEF Moves
<1>1. CASE TakeScan
  <2>1. PICK m \in scanList :
          /\ scanList' = scanList \ {m}
          /\ current' = m
          /\ UNCHANGED <<scan, toPush, analysis, analyzeList, working>>
          /\ pc = "idle" /\ pc' = "check"
    BY <1>1 DEF TakeScan, At, Goto, api, analyzer
  <2>2. m # None /\ current = None
    BY <2>1, Limits DEF Typed, TypeOK, InHandler
  <2>3. ScanCarried(s)' <=> ScanCarried(s)
    BY <2>1, <2>2 DEF ScanCarried
  <2>4. RowsMove(s)'
    BY <2>1 DEF RowsMove, AnalysisCarried, At
  <2> QED
    BY <2>1, <2>3, <2>4 DEF InFanOut
<1>2. CASE BeforeFanOut
  <2>1. RowsMove(s)'
    BY <1>2, BeforeFanOutEffect DEF RowsMove, AnalysisCarried, At
  <2>2. ScanCarried(s)' <=> ScanCarried(s)
    BY <1>2, BeforeFanOutEffect DEF ScanCarried
  <2> QED
    BY <1>2, <2>1, <2>2, BeforeFanOutEffect DEF InFanOut, InHand, ScanCarried, Stalled
<1>3. CASE CreateAnalyzerJob
  <2>1. /\ UNCHANGED <<scan, toPush, scanList, analyzeList, current, working, next>>
        /\ current # None /\ current.scan \in Scans /\ analyzerTypes[next] \in Analyzers
        /\ pc = "create" /\ pc' = "push"
        /\ analysis' = [analysis EXCEPT ![current.scan][analyzerTypes[next]] = "queued"]
    BY <1>3, InHandType, Indices
    DEF CreateAnalyzerJob, At, Goto, api, analyzer, Typed, TypeOK
  <2>2. \A r \in Scans, b \in Analyzers :
          r # current.scan \/ b # analyzerTypes[next] => analysis'[r][b] = analysis[r][b]
    BY <2>1, RowUpdate
  <2>3. RowsMove(s)'
    BY <2>1, <2>2 DEF RowsMove, AnalysisCarried, At
  <2> QED
    BY <2>1, <2>3 DEF InFanOut, InHand, ScanCarried
<1>4. CASE PushAnalyzerJob
  <2>1. /\ UNCHANGED <<scan, toPush, scanList, analysis, current, working>>
        /\ pc = "push" /\ pc' = "create"
        /\ analyzeList' = analyzeList \cup
             {[scan |-> current.scan, type |-> analyzerTypes[next], retry |-> 0]}
    BY <1>4 DEF PushAnalyzerJob, At, Goto, api, analyzer
  <2>2. RowsMove(s)'
    <3>1. DEFINE m == [scan |-> current.scan, type |-> analyzerTypes[next], retry |-> 0]
    <3>2. m \in analyzeList' /\ m.scan = current.scan /\ m.type = analyzerTypes[next]
      BY <2>1
    <3> HIDE DEF m
    <3>3. \A a \in Analyzers : AnalysisCarried(s, a) => AnalysisCarried(s, a)'
      BY <2>1, <3>2 DEF AnalysisCarried, At
    <3> QED
      BY <2>1, <3>3 DEF RowsMove
  <2> QED
    BY <2>1, <2>2 DEF InFanOut, InHand, ScanCarried
<1>5. CASE EndFanOut
  <2>1. /\ UNCHANGED <<toPush, scanList, analysis, analyzeList, working>>
        /\ pc = "create" /\ pc' = "idle" /\ current' = None
        /\ current # None /\ current.scan \in Scans
    BY <1>5, InHandType DEF EndFanOut, At, Goto, api, analyzer
  <2>2. scan'[s] = scan[s] \/ scan'[s] = "analyzing"
    BY <1>5, <2>1, SetScanEffect DEF EndFanOut, ScanStatuses
  <2>3. RowsMove(s)'
    BY <2>1 DEF RowsMove, AnalysisCarried, At
  <2> QED
    BY <2>1, <2>2, <2>3 DEF InFanOut, InHand, ScanCarried, Stalled
<1>6. CASE RetryScan
  <2>1. /\ UNCHANGED <<scan, toPush, analysis, analyzeList, working>>
        /\ pc = "requeue" /\ pc' = "idle" /\ current' = None
        /\ current # None /\ current.scan \in Scans
        /\ scanList' = scanList \cup {[current EXCEPT !.retry = @ + 1]}
    BY <1>6, InHandType DEF RetryScan, At, Goto, api, analyzer
  <2>2. [current EXCEPT !.retry = @ + 1].scan = current.scan
    BY <2>1, InHandType DEF ScanMessages
  <2>3. ScanCarried(s) => ScanCarried(s)'
    BY <2>1, <2>2 DEF ScanCarried
  <2>4. RowsMove(s)'
    BY <2>1 DEF RowsMove, AnalysisCarried, At
  <2> QED
    BY <2>1, <2>3, <2>4 DEF InFanOut
<1>7. CASE DeadLetterScan
  <2>1. /\ UNCHANGED <<toPush, scanList, analysis, analyzeList, working>>
        /\ pc = "requeue" /\ pc' = "idle" /\ current' = None
        /\ scan' = [scan EXCEPT ![current.scan] = "error"]
    BY <1>7 DEF DeadLetterScan, At, Goto, api, analyzer
  <2>2. RowsMove(s)'
    BY <2>1 DEF RowsMove, AnalysisCarried, At
  <2> QED
    BY <2>1, <2>2 DEF InFanOut, InHand, ScanCarried, Stalled, Typed, TypeOK
<1> QED
  BY <1>1, <1>2, <1>3, <1>4, <1>5, <1>6, <1>7 DEF ScannerSteps, ScannerStops, BeforeFanOut

LEMMA MovingAnalyzer ==
  ASSUME Typed, Typed', Placed, ~Fault, NEW s \in Scans, Moves(s),
         TakeAnalysis \/ AnalysisEnds \/ AnalyzerStops
  PROVE  Moves(s)'
<1> USE DEF Moves
<1>1. UNCHANGED <<toPush, scanList, pc, current, next>>
  BY AnalyzerEffect DEF api, scanner
<1>2. CASE TakeAnalysis
  <2>1. PICK m \in analyzeList :
          /\ analyzeList' = analyzeList \ {m}
          /\ working' = m
          /\ analysis' = [analysis EXCEPT ![m.scan][m.type] = "running"]
          /\ working = None /\ UNCHANGED scan
    BY <1>2 DEF TakeAnalysis
  <2>2. m.scan \in Scans /\ m.type \in Analyzers /\ m # None
    BY Limits DEF Typed, TypeOK, AnalyzeMessages
  <2>3. \A r \in Scans, b \in Analyzers :
          r # m.scan \/ b # m.type => analysis'[r][b] = analysis[r][b]
    BY <2>1, <2>2, RowUpdate
  <2>4. RowsMove(s)'
    BY <1>1, <2>1, <2>2, <2>3 DEF RowsMove, AnalysisCarried, At
  <2> QED
    BY <1>1, <2>1, <2>4 DEF InFanOut, InHand, ScanCarried
<1>3. CASE AnalysisEnds
  <2>1. /\ working # None /\ working' = None /\ working \in AnalyzeMessages
        /\ analyzeList \subseteq analyzeList'
        /\ scan' \in {scan, [scan EXCEPT ![working.scan] = "complete"]}
    BY <1>3
    DEF AnalysisEnds, AnalysisSucceeds, AnalysisRetried, AnalysisRetryLost,
        AnalysisDeadLettered, EndAnalysisOrNot, EndAnalysis, Typed, TypeOK
  <2>2. working.scan \in Scans /\ working.type \in Analyzers
    BY <2>1 DEF AnalyzeMessages
  <2>3. PICK t \in {"complete", "error"} :
          analysis' = [analysis EXCEPT ![working.scan][working.type] = t]
    BY <1>3
    DEF AnalysisEnds, AnalysisSucceeds, AnalysisRetried, AnalysisRetryLost,
        AnalysisDeadLettered, EndAnalysisOrNot, EndAnalysis, SetAnalysis
  <2>4. /\ analysis'[working.scan][working.type] = t
        /\ \A r \in Scans, b \in Analyzers :
             r # working.scan \/ b # working.type => analysis'[r][b] = analysis[r][b]
    <3>1. analysis'[working.scan][working.type] = t
      BY <2>2, <2>3 DEF Typed, TypeOK
    <3>2. \A r \in Scans, b \in Analyzers :
            r # working.scan \/ b # working.type => analysis'[r][b] = analysis[r][b]
      BY <2>2, <2>3, RowUpdate
    <3> QED
      BY <3>1, <3>2
  <2>5. RowsMove(s)'
    BY <1>1, <2>1, <2>2, <2>4 DEF RowsMove, AnalysisCarried, At
  <2>6. scan'[s] = scan[s] \/ scan'[s] = "complete"
    BY <2>1 DEF Typed, TypeOK
  <2> QED
    BY <1>1, <2>5, <2>6 DEF InFanOut, InHand, ScanCarried, Stalled
<1> QED
  BY <1>2, <1>3 DEF AnalyzerStops

LEMMA MovingNext == Typed /\ Typed' /\ Placed /\ Moving /\ [Next]_vars => Moving'
<1> SUFFICES ASSUME Typed, Typed', Placed, Moving, [Next]_vars, faults' = 0, NEW s \in Scans
             PROVE  Moves(s)'
  BY DEF Moving
<1>1. ~Fault /\ Moves(s)
  BY NoFault DEF Moving
<1>2. CASE \/ \E r \in Scans :
                EnqueueScan(r) \/ PushScan(r) \/ PushScanFails(r) \/ FailOrphanedScan(r)
           \/ DeleteAccount
           \/ FindOrphanedScans
  <2>1. RowsMove(s)'
    BY <1>1, <1>2, ApiEffect DEF Moves, RowsMove, AnalysisCarried, At
  <2> QED
    BY <1>1, <1>2, <2>1, ApiEffect DEF Moves, InFanOut, InHand, Stalled
<1>3. CASE UNCHANGED vars
  BY <1>1, <1>3
  DEF Moves, RowsMove, AnalysisCarried, ScanCarried, InFanOut, InHand, At, vars, api,
      scanner, analyzer
<1> QED
  BY <1>1, <1>2, <1>3, MovingScanner, MovingAnalyzer DEF Next

\* Without a failure, what is shown as waiting or under way has a message or a
\* handler that will move it on.
THEOREM NothingStrands == Spec => []NothingStranded
<1>1. Spec => [](Typed /\ Placed /\ Moving)
  BY TypedInit, TypedNext, PlacedInit, PlacedNext, MovingInit, MovingNext, PTL DEF Spec
<1>2. Moving => NothingStranded
  BY DEF Moving, Moves, RowsMove, NothingStranded, Stalled
<1> QED
  BY <1>1, <1>2, PTL

-----------------------------------------------------------------------------
(* What the fan-out has done, when nothing has failed: rows for the types  *)
(* before "next"; and it is going on, or it has created a row for each.    *)

FanOut(s) ==
  InFanOut(s) =>
    /\ next > 1 => enqueued
    /\ \A i \in 1 .. Len(analyzerTypes) :
         i < next => analysis[s][analyzerTypes[i]] # "none"

AllRows(s) == \A a \in Analyzers : analysis[s][a] # "none"
Whole(s) == HasRows(s) => InHand(s) \/ AllRows(s)

Tried(s) ==
  \A a \in Analyzers :
    analysis[s][a] \in {"running", "complete", "error"} => tries[s][a] > 0

Analysed(s) ==
  scan[s] = "complete" /\ ~ScanCarried(s) => \A a \in Analyzers : tries[s][a] > 0

WorkingTried == working # None => tries[working.scan][working.type] > 0

Turns(s) == FanOut(s) /\ Whole(s) /\ Tried(s) /\ Analysed(s)

EveryTurn == faults = 0 => WorkingTried /\ \A s \in Scans : Turns(s)

LEMMA EveryTurnInit == Init => EveryTurn
<1>1. Init => \A s \in Scans : ~HasRows(s)
  BY PlacedInit DEF Init, Placed, Fresh
<1>2. Init => WorkingTried /\ \A s \in Scans : FanOut(s) /\ Analysed(s)
  BY DEF Init, WorkingTried, FanOut, InFanOut, InHand, Analysed
<1> QED
  BY <1>1, <1>2 DEF EveryTurn, Turns, Whole, Tried, HasRows

LEMMA TurnsApi ==
  ASSUME Typed, Typed', Placed, ~Fault, NEW s \in Scans, Turns(s),
         \/ \E r \in Scans :
              EnqueueScan(r) \/ PushScan(r) \/ PushScanFails(r) \/ FailOrphanedScan(r)
         \/ DeleteAccount
         \/ FindOrphanedScans
  PROVE  Turns(s)'
<1>1. FanOut(s)' /\ Whole(s)' /\ Tried(s)'
  BY ApiEffect
  DEF Turns, FanOut, Whole, Tried, InFanOut, InHand, HasRows, AllRows
<1>2. Analysed(s)'
  BY ApiEffect DEF Turns, Analysed
<1> QED
  BY <1>1, <1>2 DEF Turns

LEMMA TurnsScanner ==
  ASSUME Typed, Typed', Placed, ~Fault, NEW s \in Scans, Turns(s),
         TakeScan \/ ScannerSteps \/ ScannerStops
  PROVE  Turns(s)'
<1> USE DEF Turns
<1>0. UNCHANGED tries
  BY DEF TakeScan, ScannerSteps, ScannerStops, CheckAccount, BeginScan, AccountGone,
     AssumeRole, ScanFails, FinishScan, MarkScanJob, SetPending, CreateAnalyzerJob,
     PushAnalyzerJob, EndFanOut, MarkScanError, RetryScan, DeadLetterScan, analyzer
<1>1. CASE TakeScan
  <2>1. PICK m \in scanList :
          /\ scanList' = scanList \ {m}
          /\ current' = m
          /\ UNCHANGED <<scan, toPush, analysis>>
          /\ pc = "idle" /\ pc' = "check"
    BY <1>1 DEF TakeScan, At, Goto, api
  <2>2. m # None /\ current = None
    BY <2>1, Limits DEF Typed, TypeOK, InHandler
  <2>3. ScanCarried(s)' <=> ScanCarried(s)
    BY <2>1, <2>2 DEF ScanCarried
  <2> QED
    BY <1>0, <2>1, <2>2, <2>3
    DEF FanOut, Whole, Tried, Analysed, InFanOut, InHand, HasRows, AllRows
<1>2. CASE BeforeFanOut
  <2>1. ScanCarried(s)' <=> ScanCarried(s)
    BY <1>2, BeforeFanOutEffect DEF ScanCarried
  <2>2. FanOut(s)'
    BY <1>2, BeforeFanOutEffect, Indices DEF FanOut, InFanOut, InHand
  <2>3. Whole(s)' /\ Tried(s)'
    BY <1>0, <1>2, BeforeFanOutEffect DEF Whole, Tried, InHand, HasRows, AllRows
  <2>4. Analysed(s)'
    BY <1>0, <1>2, <2>1, BeforeFanOutEffect DEF Analysed, ScanCarried
  <2> QED
    BY <2>2, <2>3, <2>4
<1>3. CASE CreateAnalyzerJob
  <2>1. /\ UNCHANGED <<scan, toPush, scanList, current, next, enqueued>>
        /\ current # None /\ current.scan \in Scans /\ analyzerTypes[next] \in Analyzers
        /\ pc = "create" /\ pc' = "push"
        /\ analysis' = [analysis EXCEPT ![current.scan][analyzerTypes[next]] = "queued"]
    BY <1>3, InHandType, Indices DEF CreateAnalyzerJob, At, Goto, api, Typed, TypeOK
  <2>2. /\ \A r \in Scans, b \in Analyzers :
             r # current.scan \/ b # analyzerTypes[next] => analysis'[r][b] = analysis[r][b]
        /\ analysis'[current.scan][analyzerTypes[next]] = "queued"
    <3>1. \A r \in Scans, b \in Analyzers :
            r # current.scan \/ b # analyzerTypes[next] => analysis'[r][b] = analysis[r][b]
      BY <2>1, RowUpdate
    <3> QED
      BY <2>1, <3>1 DEF Typed, TypeOK
  <2>3. FanOut(s)'
    BY <2>1, <2>2, Indices DEF FanOut, InFanOut, InHand
  <2>4. Whole(s)'
    BY <2>1, <2>2 DEF Whole, InHand, HasRows, AllRows
  <2>5. Tried(s)'
    BY <1>0, <2>1, <2>2 DEF Tried
  <2>6. Analysed(s)'
    BY <1>0, <2>1 DEF Analysed, ScanCarried
  <2> QED
    BY <2>3, <2>4, <2>5, <2>6
<1>4. CASE PushAnalyzerJob
  <2>1. /\ UNCHANGED <<scan, toPush, scanList, analysis, current>>
        /\ pc = "push" /\ pc' = "create" /\ next' = next + 1 /\ enqueued' = TRUE
    BY <1>4 DEF PushAnalyzerJob, At, Goto, api
  <2>2. FanOut(s)'
    <3>1. InHand(s) => analysis[s][analyzerTypes[next]] # "none"
      BY <2>1 DEF Placed, RowsOfMessages, InHand
    <3>2. next \in Nat
      BY Indices DEF Typed, TypeOK
    <3> QED
      BY <2>1, <3>1, <3>2, Indices DEF FanOut, InFanOut, InHand
  <2> QED
    BY <1>0, <2>1, <2>2 DEF Whole, Tried, Analysed, InHand, HasRows, AllRows, ScanCarried
<1>5. CASE EndFanOut
  <2>1. /\ UNCHANGED <<toPush, scanList, analysis>>
        /\ pc = "create" /\ current' = None
        /\ current # None /\ current.scan \in Scans
        /\ next > Len(analyzerTypes)
    BY <1>5, InHandType DEF EndFanOut, At, api
  <2>2. /\ enqueued => scan'[current.scan] = "analyzing"
        /\ current.scan # s => scan'[s] = scan[s]
        /\ ~enqueued => scan' = scan
    BY <1>5, <2>1, SetScanEffect DEF EndFanOut, ScanStatuses
  <2>3. InHand(s) => AllRows(s)
    BY <2>1, Indices DEF FanOut, InFanOut, AllRows, Typed, TypeOK
  <2>4. ~enqueued /\ InHand(s) => Analyzers = {}
    BY <2>1, Indices DEF FanOut, InFanOut, Typed, TypeOK
  <2>5. Whole(s)' /\ Tried(s)' /\ FanOut(s)'
    BY <1>0, <2>1, <2>3 DEF Whole, Tried, FanOut, InFanOut, InHand, HasRows, AllRows
  <2>6. Analysed(s)'
    BY <1>0, <2>1, <2>2, <2>4 DEF Analysed, ScanCarried, InHand
  <2> QED
    BY <2>5, <2>6
<1>6. CASE RetryScan \/ DeadLetterScan
  <2>1. /\ UNCHANGED <<toPush, analysis>>
        /\ pc = "requeue" /\ current' = None
        /\ current # None /\ current.scan \in Scans
    BY <1>6, InHandType DEF RetryScan, DeadLetterScan, At, api
  <2>2. ~InHand(s)' /\ (InHand(s) => ~HasRows(s))
    BY <2>1 DEF InHand, Placed, RowsAfterScan
  <2>3. CASE RetryScan
    <3>1. [current EXCEPT !.retry = @ + 1].scan = current.scan
      BY <2>1, InHandType DEF ScanMessages
    <3>2. UNCHANGED scan /\ scanList' = scanList \cup {[current EXCEPT !.retry = @ + 1]}
      BY <2>3 DEF RetryScan
    <3>3. ScanCarried(s) => ScanCarried(s)'
      BY <2>1, <3>1, <3>2 DEF ScanCarried
    <3> QED
      BY <1>0, <2>1, <2>2, <3>2, <3>3
      DEF FanOut, Whole, Tried, Analysed, InFanOut, HasRows, AllRows
  <2>4. CASE DeadLetterScan
    <3>1. /\ UNCHANGED scanList /\ scan'[current.scan] = "error"
          /\ s # current.scan => scan'[s] = scan[s]
      BY <2>1, <2>4 DEF DeadLetterScan, Typed, TypeOK
    <3>2. Analysed(s)'
      BY <1>0, <2>1, <3>1 DEF Analysed, ScanCarried
    <3> QED
      BY <1>0, <2>1, <2>2, <3>2 DEF FanOut, Whole, Tried, InFanOut, HasRows, AllRows
  <2> QED
    BY <1>6, <2>3, <2>4
<1> QED
  BY <1>1, <1>2, <1>3, <1>4, <1>5, <1>6 DEF ScannerSteps, ScannerStops, BeforeFanOut

LEMMA TriesUpdate ==
  ASSUME Typed, NEW s \in Scans, NEW a \in Analyzers,
         tries' = [tries EXCEPT ![s][a] = @ + 1]
  PROVE  /\ tries'[s][a] > 0
         /\ \A r \in Scans, b \in Analyzers : tries[r][b] > 0 => tries'[r][b] > 0
<1>1. tries[s][a] \in Nat /\ tries'[s][a] = tries[s][a] + 1
  BY DEF Typed, TypeOK
<1>2. \A r \in Scans, b \in Analyzers : r # s \/ b # a => tries'[r][b] = tries[r][b]
  BY DEF Typed, TypeOK
<1> QED
  BY <1>1, <1>2

LEMMA TurnsAnalyzer ==
  ASSUME Typed, Typed', Placed, ~Fault, NEW s \in Scans, Turns(s), WorkingTried,
         TakeAnalysis \/ AnalysisEnds \/ AnalyzerStops
  PROVE  Turns(s)'
<1> USE DEF Turns
<1>1. /\ UNCHANGED <<toPush, scanList, pc, current, next, enqueued>>
      /\ \A a \in Analyzers : analysis'[s][a] # "none" <=> analysis[s][a] # "none"
  BY AnalyzerEffect DEF api, scanner
<1>2. Whole(s)'
  BY <1>1 DEF Whole, InHand, HasRows, AllRows
<1>3. FanOut(s)'
  BY <1>1, Indices DEF FanOut, InFanOut, InHand
<1>4. CASE TakeAnalysis
  <2>1. PICK m \in analyzeList :
          /\ working' = m
          /\ tries' = [tries EXCEPT ![m.scan][m.type] = @ + 1]
          /\ analysis' = [analysis EXCEPT ![m.scan][m.type] = "running"]
          /\ UNCHANGED scan
    BY <1>4 DEF TakeAnalysis
  <2>2. m.scan \in Scans /\ m.type \in Analyzers
    BY DEF Typed, TypeOK, AnalyzeMessages
  <2>3. \A r \in Scans, b \in Analyzers :
          r # m.scan \/ b # m.type => analysis'[r][b] = analysis[r][b]
    BY <2>1, <2>2, RowUpdate
  <2>4. /\ tries'[m.scan][m.type] > 0
        /\ \A r \in Scans, b \in Analyzers : tries[r][b] > 0 => tries'[r][b] > 0
    BY <2>1, <2>2, TriesUpdate
  <2>5. Tried(s)'
    BY <2>3, <2>4 DEF Tried
  <2>6. Analysed(s)'
    BY <1>1, <2>1, <2>4 DEF Analysed, ScanCarried
  <2> QED
    BY <1>2, <1>3, <2>5, <2>6
<1>5. CASE AnalysisEnds
  <2>1. /\ working # None /\ working' = None /\ working \in AnalyzeMessages
        /\ UNCHANGED tries
        /\ \E t \in {"complete", "error"} : EndAnalysis(t)
    BY <1>5
    DEF AnalysisEnds, AnalysisSucceeds, AnalysisRetried, AnalysisRetryLost,
        AnalysisDeadLettered, EndAnalysisOrNot, Typed, TypeOK
  <2>2. working.scan \in Scans /\ working.type \in Analyzers
    BY <2>1 DEF AnalyzeMessages
  <2>3. PICK t \in {"complete", "error"} :
          analysis' = [analysis EXCEPT ![working.scan][working.type] = t]
    BY <2>1 DEF EndAnalysis, SetAnalysis
  <2>4. \A r \in Scans, b \in Analyzers :
          r # working.scan \/ b # working.type => analysis'[r][b] = analysis[r][b]
    BY <2>2, <2>3, RowUpdate
  <2>5. Tried(s)'
    BY <2>1, <2>4 DEF Tried, WorkingTried
  <2>6. Analysed(s)'
    <3>1. ScanCarried(s)' <=> ScanCarried(s)
      BY <1>1 DEF ScanCarried
    <3>2. CASE scan'[s] = scan[s]
      BY <2>1, <3>1, <3>2 DEF Analysed
    <3>3. CASE /\ s = working.scan
               /\ \A a \in Analyzers : analysis'[s][a] \notin {"queued", "running"}
      <4> SUFFICES ASSUME ~ScanCarried(s) PROVE \A a \in Analyzers : tries'[s][a] > 0
        BY <3>1 DEF Analysed
      <4>1. AllRows(s)'
        <5>1. HasRows(s) /\ ~InHand(s)
          BY <2>1, <2>2, <3>3 DEF Placed, RowsOfMessages, HasRows, ScanCarried, InHand
        <5> QED
          BY <1>1, <5>1 DEF Whole, AllRows
      <4>2. \A a \in Analyzers : analysis'[s][a] \in {"complete", "error"}
        BY <3>3, <4>1 DEF AllRows, Typed, TypeOK, JobStatuses
      <4> QED
        BY <2>5, <4>2 DEF Tried
    <3> QED
      BY <2>1, <2>2, <3>2, <3>3 DEF EndAnalysis, Typed, TypeOK
  <2> QED
    BY <1>2, <1>3, <2>5, <2>6
<1> QED
  BY <1>4, <1>5 DEF AnalyzerStops

LEMMA EveryTurnNext == Typed /\ Typed' /\ Placed /\ EveryTurn /\ [Next]_vars => EveryTurn'
<1> SUFFICES ASSUME Typed, Typed', Placed, EveryTurn, [Next]_vars, faults' = 0
             PROVE  WorkingTried' /\ \A s \in Scans : Turns(s)'
  BY DEF EveryTurn
<1>1. ~Fault /\ WorkingTried /\ \A s \in Scans : Turns(s)
  BY NoFault DEF EveryTurn
<1>2. WorkingTried'
  <2>1. CASE TakeAnalysis
    <3>1. PICK m \in analyzeList :
            working' = m /\ tries' = [tries EXCEPT ![m.scan][m.type] = @ + 1]
      BY <2>1 DEF TakeAnalysis
    <3>2. m.scan \in Scans /\ m.type \in Analyzers
      BY DEF Typed, TypeOK, AnalyzeMessages
    <3> QED
      BY <3>1, <3>2, TriesUpdate DEF WorkingTried
  <2>2. CASE AnalysisEnds \/ AnalyzerStops
    BY <2>2
    DEF AnalysisEnds, AnalysisSucceeds, AnalysisRetried, AnalysisRetryLost,
        AnalysisDeadLettered, AnalyzerStops, WorkingTried
  <2>3. CASE ~(TakeAnalysis \/ AnalysisEnds \/ AnalyzerStops)
    <3>1. UNCHANGED <<working, tries>>
      BY <2>3
      DEF Next, EnqueueScan, PushScan, PushScanFails, FailOrphanedScan, DeleteAccount,
          FindOrphanedScans, TakeScan, ScannerSteps, ScannerStops, CheckAccount,
          BeginScan, AccountGone, AssumeRole, ScanFails, FinishScan, MarkScanJob,
          SetPending, CreateAnalyzerJob, PushAnalyzerJob, EndFanOut, MarkScanError,
          RetryScan, DeadLetterScan, vars, analyzer
    <3> QED
      BY <1>1, <3>1 DEF WorkingTried
  <2> QED
    BY <2>1, <2>2, <2>3
<1>3. ASSUME NEW s \in Scans PROVE Turns(s)'
  <2>1. CASE UNCHANGED vars
    BY <1>1, <2>1
    DEF Turns, FanOut, Whole, Tried, Analysed, ScanCarried, InFanOut, InHand, HasRows,
        AllRows, vars, api, scanner, analyzer
  <2> QED
    BY <1>1, <1>3, <2>1, TurnsApi, TurnsScanner, TurnsAnalyzer DEF Next
<1> QED
  BY <1>2, <1>3

\* A scan that stays complete has had every analyzer, for every fan-out, although
\* an analyzer may have completed it early.
THEOREM CompleteScansAnalysed == Spec => []CompleteIsAnalysed
<1>1. Spec => [](Typed /\ Placed /\ EveryTurn)
  BY TypedInit, TypedNext, PlacedInit, PlacedNext, EveryTurnInit, EveryTurnNext, PTL
  DEF Spec
<1>2. EveryTurn => CompleteIsAnalysed
  BY DEF EveryTurn, Turns, Analysed, CompleteIsAnalysed
<1> QED
  BY <1>1, <1>2, PTL
=============================================================================
