---------------------------- MODULE FindingsApi ----------------------------
(***************************************************************************)
(* The findings routes (apps/api/src/routes/findings.ts) and their service *)
(* as functions of the findings table, and what else writes that table.    *)
(*                                                                         *)
(* A table maps every finding to its row, or to None.  Findings are        *)
(* numbered in the order in which they were created.                       *)
(***************************************************************************)
EXTENDS Naturals, FiniteSets, FiniteSetsExt

CONSTANTS Findings,    \* numbers; a larger one was created later
          TypeOf, SeverityOf, AccountOf,  \* of each finding
          ListLimit,   \* rows of an answer; 50 unless asked otherwise
          None

ASSUME FindingsApiAssumption ==
  /\ Findings \subseteq Nat /\ IsFiniteSet(Findings) /\ None \notin Findings
  /\ ListLimit \in Nat \ {0}

Statuses == {"open", "resolved", "snoozed", "ignored"}
Severities == {"critical", "high", "medium", "low", "trivial"}
Types == {TypeOf[f] : f \in Findings}

(* A row: its status, whether the date of its resolution is set, and when  *)
(* it was written.                                                         *)
Row(status, now) ==
  [status |-> status, resolvedAt |-> status = "resolved", updatedAt |-> now]
Present(rows) == {f \in Findings : rows[f] # None}
Open(rows) == {f \in Present(rows) : rows[f].status = "open"}

---------------------------------------------------------------------------
(* GET /findings.  The route takes three of the five severities.           *)

Accepted(filters) == filters.severity \in {None, "low", "medium", "high"}

Conditions(rows, account, filters) ==
  {f \in Present(rows) :
     /\ account \in {None, AccountOf[f]}
     /\ filters.type \in {None, TypeOf[f]}
     /\ filters.severity \in {None, SeverityOf[f]}
     /\ filters.status \in {None, rows[f].status}}

GetFindings(rows, account, filters, limit) ==
  LET matching == Conditions(rows, account, filters)
      first == {f \in matching :
                  Cardinality({g \in matching : g > f}) < limit}
  IN  [f \in first |-> rows[f]]

---------------------------------------------------------------------------
(* GET /findings/stats.  The account in the query is not looked at, and    *)
(* the counts are statements that run side by side: those by status may    *)
(* see another table than those of the open findings.                      *)

Counts == {"byStatus", "open"}
SeverityPriority(s) ==
  CASE s = "critical" -> 4 [] s = "high" -> 3 [] s = "medium" -> 2
    [] s = "low" -> 1 [] OTHER -> 0

CountByStatus(rows) ==
  [s \in Statuses |-> Cardinality({f \in Present(rows) : rows[f].status = s})]
\* Mutant: findings of every status are counted.
CountBySeverityMutant(rows) ==
  [s \in Severities |-> Cardinality({f \in Present(rows) : SeverityOf[f] = s})]
CountBySeverity(rows) ==
  [s \in Severities |-> Cardinality({f \in Open(rows) : SeverityOf[f] = s})]
CountByType(rows) ==
  [t \in Types |-> Cardinality({f \in Open(rows) : TypeOf[f] = t})]
WorstSeverities(rows) ==
  [t \in {TypeOf[f] : f \in Present(rows)} |->
     CHOOSE s \in Severities :
       /\ \E f \in Present(rows) : TypeOf[f] = t /\ SeverityOf[f] = s
       /\ \A f \in Present(rows) :
            TypeOf[f] = t => SeverityPriority(SeverityOf[f]) <= SeverityPriority(s)]

GetFindingStats(seen) ==
  [byStatus |-> CountByStatus(seen["byStatus"]),
   bySeverity |-> CountBySeverity(seen["open"]),
   byType |-> CountByType(seen["open"]),
   byTypeSeverity |-> WorstSeverities(seen["open"])]

---------------------------------------------------------------------------
(* PATCH /findings/:id and POST /findings/bulk-update.  An ignored finding *)
(* keeps the dates it had, and so does one that is reopened in bulk.       *)

UpdateFinding(rows, f, status, now) ==
  [rows EXCEPT ![f] =
     IF status = "ignored" THEN [@ EXCEPT !.status = status, !.updatedAt = now]
     ELSE Row(status, now)]

BulkUpdateStatus(rows, ids, status, now) ==
  [f \in Findings |->
     IF f \in ids \cap Present(rows)
     THEN [rows[f] EXCEPT !.status = status, !.updatedAt = now,
                          !.resolvedAt = @ \/ status = "resolved"]
     ELSE rows[f]]

---------------------------------------------------------------------------
(* The other writers: analyzers (ScanResults has them in full) and the     *)
(* nightly deletion of old resolved findings.                              *)

Detect(rows, f, now) ==
  [rows EXCEPT ![f] =
     IF @ # None /\ @.status # "resolved" THEN [@ EXCEPT !.updatedAt = now]
     ELSE Row("open", now)]
AutoResolve(rows, f, now) == [rows EXCEPT ![f] = Row("resolved", now)]
AfterAnalysis(rows, now) ==
  {Detect(rows, f, now) : f \in Findings}
  \cup {AutoResolve(rows, f, now) : f \in Open(rows)}
DeleteOldResolvedFindings(rows) ==
  [f \in Findings |->
     IF f \in Present(rows) /\ rows[f].status = "resolved" /\ rows[f].resolvedAt
     THEN None ELSE rows[f]]
=============================================================================
