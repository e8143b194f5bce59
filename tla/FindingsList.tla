--------------------------- MODULE FindingsList ---------------------------
(***************************************************************************)
(* What the findings pages compute from the answers of the API: the list   *)
(* under the viewing settings of the organisation and the filters of the   *)
(* page, the adjusted counts of the cards, and the filters that the bar,   *)
(* the cards and links set.  (hooks/use-findings.ts and components/findings*)
(* of apps/app.)                                                           *)
(***************************************************************************)
EXTENDS FindingsApi, SequencesExt

CONSTANTS Matches,   \* findings whose summary or type holds the search text
          Tagged,    \* missing_tag findings whose resource has the tags by now
          Savings    \* of each finding

ASSUME FindingsListAssumption == Matches \cup Tagged \subseteq Findings

(* filters.type goes to the server, filters.types is applied here.         *)
NoFilters == [type |-> None, types |-> {}, severity |-> None, status |-> None]
OrphanedTypes ==
  {"orphaned_volume", "orphaned_eip", "orphaned_snapshot", "orphaned_eni",
   "idle_load_balancer", "idle_nat_gateway", "unused_security_group"}

---------------------------------------------------------------------------
(* The list.                                                               *)

(* The required tags a finding speaks of are compared with those required  *)
(* now; with none required, every finding of a missing tag stays.          *)
TagsPresent(f, settings) ==
  TypeOf[f] = "missing_tag" /\ settings.requiredTags /\ f \in Tagged

Filtered(answer, types, settings) ==
  LET visible(f) ==
        /\ TypeOf[f] \notin settings.hiddenFindingTypes
        /\ ~(settings.hideTrivial /\ SeverityOf[f] = "trivial")
        /\ types = {} \/ TypeOf[f] \in types
        /\ ~TagsPresent(f, settings)
  IN  [f \in {g \in DOMAIN answer : visible(g)} |-> answer[f]]

(* The order of the table; equals stay in the order of the answer, newest  *)
(* first.                                                                  *)
SortFields == {"severity", "type", "status", "savings", "createdAt"}
SeverityOrder == <<"critical", "high", "medium", "low", "trivial">>
StatusOrder == <<"open", "snoozed", "ignored", "resolved">>
Position(x, order) == CHOOSE i \in DOMAIN order : order[i] = x
SortKey(f, row, field, typeOrder) ==
  CASE field = "severity" -> Position(SeverityOf[f], SeverityOrder)
    [] field = "type" -> Position(TypeOf[f], typeOrder)
    [] field = "status" -> Position(row.status, StatusOrder)
    [] field = "savings" -> 100 - Savings[f]
    [] OTHER -> 100 - f

SortFindings(list, sort, typeOrder) ==
  LET key(f) == SortKey(f, list[f], sort.field, typeOrder)
      before(f, g) ==
        \/ key(f) = key(g) /\ f > g
        \/ IF sort.direction = "asc" THEN key(f) < key(g) ELSE key(f) > key(g)
  IN  SetToSortSeq(DOMAIN list, before)

---------------------------------------------------------------------------
(* The cards.                                                              *)

Total(count) == FoldFunctionOnSet(LAMBDA x, y : x + y, 0, count, DOMAIN count)
Less(a, b) == IF a > b THEN a - b ELSE 0

(* The counts without the hidden types, each of which is taken off the one *)
(* severity that the server gives for it.                                  *)
FilteredStats(stats, settings) ==
  LET hidden == settings.hiddenFindingTypes \cap Types
      worst == stats.byTypeSeverity
      off(s) == FoldSet(LAMBDA t, sum : sum + stats.byType[t], 0,
                        {t \in hidden \cap DOMAIN worst : worst[t] = s})
      severity == [s \in Severities |-> Less(stats.bySeverity[s], off(s))]
      trivial == IF settings.hideTrivial THEN severity["trivial"] ELSE 0
      hiddenTotal == FoldSet(LAMBDA t, sum : sum + stats.byType[t], 0, hidden)
  IN  [byStatus |-> stats.byStatus,
       byType |-> [t \in Types \ hidden |-> stats.byType[t]],
       bySeverity |-> IF settings.hideTrivial
                      THEN [severity EXCEPT !["trivial"] = 0] ELSE severity,
       totalCount |-> Less(Total(stats.byType), hiddenTotal + trivial)]

(* The server sends no totalCount, so it is decided by whether the counts  *)
(* by status or by type add up to anything.                                *)
HasAnyFindings(seen) == Present(seen["byStatus"]) # {} \/ Open(seen["open"]) # {}

Categories ==
  {{"unencrypted_resource", "public_access", "permissive_security_group",
    "open_all_ports", "publicly_accessible_rds", "public_snapshot", "insecure_tls"},
   {"orphaned_volume", "orphaned_eip", "orphaned_snapshot", "unused_resource",
    "unused_log_group", "idle_nat_gateway", "unused_kms_key"},
   {"data_residency_violation", "ssl_expiry", "cloudtrail_disabled",
    "backup_not_configured", "log_retention"},
   {"old_access_key", "unused_access_key", "unused_iam_role", "user_without_mfa",
    "root_account_usage", "overly_permissive_policy", "cross_account_trust"},
   {"orphaned_eni", "idle_load_balancer", "vpc_flow_logs_disabled",
    "unused_security_group"},
   {"ebs_optimization", "old_gen_instance", "oversized_instance",
    "oversized_lambda", "stopped_instance", "rds_optimization", "old_gen_rds"},
   {"missing_tag"}}

(* The types that a row of the card "by resource type" stands for.  (The   *)
(* label of a type is the resource it is found on; those of one type only  *)
(* are sets of one.)                                                       *)
ResourceLabels ==
  {{"orphaned_volume", "ebs_optimization"}, {"orphaned_eip"},
   {"orphaned_snapshot"}, {"orphaned_eni"}, {"idle_load_balancer"},
   {"idle_nat_gateway"},
   {"unused_security_group", "permissive_security_group", "open_all_ports"},
   {"unencrypted_resource", "unused_resource", "stopped_instance",
    "oversized_instance", "old_gen_instance", "missing_tag"},
   {"public_access", "data_residency_violation"},
   {"publicly_accessible_rds", "public_snapshot", "backup_not_configured",
    "rds_optimization", "old_gen_rds"},
   {"insecure_tls", "ssl_expiry"}, {"unused_log_group", "log_retention"},
   {"oversized_lambda"}, {"cloudtrail_disabled"}, {"vpc_flow_logs_disabled"},
   {"old_access_key", "unused_access_key", "unused_iam_role", "user_without_mfa",
    "root_account_usage", "overly_permissive_policy", "cross_account_trust"},
   {"unused_kms_key"}}

CountOf(types, stats) ==
  FoldSet(LAMBDA t, sum : sum + stats.byType[t], 0,
          types \cap DOMAIN stats.byType)

---------------------------------------------------------------------------
(* The filters that follow a click.                                        *)

SelectedTypes(filters) ==
  IF filters.types # {} THEN filters.types
  ELSE IF filters.type # None THEN {filters.type} ELSE {}

WithTypes(filters, types) ==
  [filters EXCEPT !.types = types, !.type = None]

(* Types that no finding has are left out of every set.                    *)
Groups(sets) == {c \cap Types : c \in sets} \ {{}}

(* A box, the preset of the orphaned types, or a whole category: off when  *)
(* all of it is selected, else on.                                         *)
Toggle(filters, types) ==
  LET selected == SelectedTypes(filters)
  IN  WithTypes(filters, IF types \subseteq selected THEN selected \ types
                         ELSE selected \cup types)

(* The categories of the bar are not those of the cards.                   *)
BarCategories ==
  {{"unencrypted_resource", "public_access", "permissive_security_group",
    "open_all_ports", "publicly_accessible_rds", "public_snapshot", "insecure_tls"},
   (OrphanedTypes \cup {"unused_resource", "stopped_instance",
                        "unused_log_group", "oversized_instance"}),
   {"ssl_expiry", "data_residency_violation", "cloudtrail_disabled",
    "vpc_flow_logs_disabled", "backup_not_configured"},
   {"old_access_key", "unused_access_key", "unused_iam_role", "user_without_mfa",
    "root_account_usage", "overly_permissive_policy", "cross_account_trust"},
   {"missing_tag"}}

BarClicks(filters) ==
  {[filters EXCEPT !.severity = s] : s \in Severities \cup {None}}
  \cup {[filters EXCEPT !.status = s] : s \in Statuses \cup {None}}
  \cup {Toggle(filters, {t}) : t \in Types}
  \cup {Toggle(filters, c) : c \in Groups(BarCategories \cup {OrphanedTypes})}
  \cup {WithTypes(filters, {})}

(* A row of a card adds to the filters; one that stands for a single type  *)
(* asks the server for it.                                                 *)
CardClicks(filters) ==
  {[filters EXCEPT !.type = t, !.types = {}] : t \in Types}
  \cup {[filters EXCEPT !.severity = s] : s \in Severities}
  \cup {[filters EXCEPT !.status = s] : s \in Statuses}
  \cup {WithTypes(filters, c) : c \in Groups(Categories)}
  \cup {IF Cardinality(l) = 1
        THEN [filters EXCEPT !.type = CHOOSE t \in l : TRUE, !.types = {}]
        ELSE WithTypes(filters, l \cap Types) :
        l \in {r \in ResourceLabels : r \cap Types # {}}}
=============================================================================
