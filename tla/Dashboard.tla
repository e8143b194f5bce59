----------------------------- MODULE Dashboard -----------------------------
(***************************************************************************)
(* What the overview of the organisation and that of an account compute    *)
(* from the counts and the open findings (getEnhancedDashboardSummary of   *)
(* apps/app/src/lib/api.ts), and where the links of their cards lead.      *)
(***************************************************************************)
EXTENDS FindingsList, Integers

CONSTANTS TotalResources,  \* of the organisation
          Urgent           \* findings of certificates with a week to go

ASSUME DashboardAssumption ==
  TotalResources \in Nat /\ Urgent \subseteq {f \in Findings : TypeOf[f] = "ssl_expiry"}

\* Mutant: findings of every status.
OpenFiltersMutant == NoFilters
OpenFilters == [NoFilters EXCEPT !.status = "open"]

CostTypes ==
  OrphanedTypes \cup
  {"stopped_instance", "unused_resource", "unused_log_group", "ebs_optimization",
   "old_gen_instance", "oversized_lambda", "log_retention", "unused_kms_key",
   "rds_optimization"}
SecurityTypes == {"public_access", "permissive_security_group", "unencrypted_resource"}
ComplianceTypes == SecurityTypes \cup {"ssl_expiry", "data_residency_violation"}

---------------------------------------------------------------------------
(* The summary.                                                            *)

VisibleByType(stats, settings) ==
  [t \in Types \ settings.hiddenFindingTypes |-> stats.byType[t]]

Sum(types, count) == FoldSet(LAMBDA t, sum : sum + count[t], 0, types \cap DOMAIN count)

(* Every type counts for the worst severity any finding of it ever had.    *)
BySeverity(byType, worst) ==
  [s \in Severities |-> Sum({t \in DOMAIN worst : worst[t] = s}, byType)]

NonTrivial(counts) == Sum(Severities \ {"trivial"}, counts)

AtMost100(n) == IF n > 100 THEN 100 ELSE n
AtLeast0(n) == IF n < 0 THEN 0 ELSE n

HealthScores(counts, orphaned, residency, certificates, issues) ==
  LET total == IF TotalResources = 0 THEN 1 ELSE TotalResources
      security == 100 - AtMost100(counts["critical"] * 20 + counts["high"] * 10
                                  + counts["medium"] * 5 + counts["low"] * 2)
      compliance == 100 - AtMost100(certificates * 15 + residency * 20 + issues * 10)
      cost == AtLeast0((2 * (100 * total - 1000 * orphaned) + total) \div (2 * total))
  IN  [overall |-> (4 * security + 3 * compliance + 3 * cost + 5) \div 10,
       security |-> security, compliance |-> compliance, costEfficiency |-> cost]

(* Open findings that cost something, by type.                             *)
AggregateCostInsights(open) ==
  [t \in {TypeOf[f] : f \in open} \cap CostTypes |->
     LET these == {f \in open : TypeOf[f] = t}
     IN  [count |-> Cardinality(these),
          savings |-> FoldSet(LAMBDA f, sum : sum + Savings[f], 0, these)]]

Summary(seen, listed, settings) ==
  LET stats == GetFindingStats(seen)
      byType == VisibleByType(stats, settings)
      counts == BySeverity(byType, stats.byTypeSeverity)
      open == {f \in DOMAIN listed : TypeOf[f] \in DOMAIN byType}
      orphaned == Sum(OrphanedTypes, byType)
      certificates == Sum({"ssl_expiry"}, byType)
      residency == Sum({"data_residency_violation"}, byType)
      issues == Sum(SecurityTypes, byType)
  IN  [findingCounts |-> counts,
       orphanedResources |-> orphaned,
       expiringCertificates |-> certificates,
       urgentCertificates |-> Cardinality(open \cap Urgent),
       residencyViolations |-> residency,
       securityIssues |-> issues,
       costInsights |-> AggregateCostInsights(open),
       healthScores |-> HealthScores(counts, orphaned, residency, certificates, issues)]

---------------------------------------------------------------------------
(* Links.  One has the filters it leads to and the number it stands by,    *)
(* None for those that stand by another number; one also hides trivial     *)
(* findings.                                                               *)

LinkTo(filters, count) == [filters |-> filters, count |-> count, hideTrivial |-> FALSE]
OfTypes(types) == WithTypes(OpenFilters, types)
OfType(t) == [OpenFilters EXCEPT !.type = t]
OfSeverity(s) == [OpenFilters EXCEPT !.severity = s]

(* The links of the overview lead to /findings, whose redirection drops    *)
(* what follows the question mark: the page keeps the filters it has.      *)
CriticalAlertBanner(summary, account, filters) ==
  LET link(to) == LinkTo(IF account = None THEN filters ELSE to, None)
  IN  {link(OfSeverity("critical")) : n \in {1} \cap 1 .. summary.findingCounts["critical"]}
      \cup {link(OfType("ssl_expiry")) : n \in {1} \cap 1 .. summary.urgentCertificates}

OpenIssuesCard(summary) ==
  LET total == NonTrivial(summary.findingCounts)
  IN  {[LinkTo(OpenFilters, total) EXCEPT !.hideTrivial = TRUE]}
      \cup {LinkTo(OfSeverity(s), summary.findingCounts[s]) :
              s \in IF total > 0 THEN Severities \ {"trivial"} ELSE {}}

ComplianceStatusCard(summary) ==
  {LinkTo(OfTypes(ComplianceTypes), None),
   LinkTo(OfType("ssl_expiry"), summary.expiringCertificates),
   LinkTo(OfType("data_residency_violation"), summary.residencyViolations),
   LinkTo(OfTypes(SecurityTypes), summary.securityIssues)}

(* The four types that would save most.                                    *)
CostOptimizationCard(summary) ==
  LET insights == summary.costInsights
      more(t) == {u \in DOMAIN insights : insights[u].savings > insights[t].savings}
      top == {t \in DOMAIN insights : Cardinality(more(t)) < 4}
  IN  {LinkTo(OfTypes(CostTypes), None)}
      \cup {LinkTo(OfType(t), insights[t].count) : t \in top}

RecentActivityCard ==
  {LinkTo(OpenFilters, None), LinkTo([NoFilters EXCEPT !.status = "resolved"], None)}

DashboardLinks(summary, account, filters) ==
  CriticalAlertBanner(summary, account, filters) \cup OpenIssuesCard(summary)
  \cup ComplianceStatusCard(summary) \cup CostOptimizationCard(summary)
  \cup RecentActivityCard
=============================================================================
