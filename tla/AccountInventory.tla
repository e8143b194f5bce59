-------------------------- MODULE AccountInventory --------------------------
(* The inventory of an AWS account: how scans, one after another, turn what *)
(* AWS has into rows and dependencies, and how the analyzers turn those     *)
(* into findings, while the account changes, days go by, and calls fail.    *)
(* The rules themselves are in AwsScanners, DependencyExtraction and        *)
(* AnalyzerRules; here is when each of them sees what.                      *)
(*                                                                          *)
(* A scan lists everything once, in any order (the scanners of a region run *)
(* in parallel), stores the regional resources one by one, then their       *)
(* dependencies in one transaction, and does the same for the global ones.  *)
(* When it ends the jobs of the analyzers are posted; each of them runs at  *)
(* some time after, perhaps more than once, loads the rows, and looks the   *)
(* dependencies up while it applies its rules.  The next scan may run       *)
(* meanwhile.                                                               *)
EXTENDS AnalyzerRules, FiniteSets

CONSTANTS
  Clouds,       \* the accounts to begin with: functions from names to facts
  Facts,        \* what may become of each named resource: a set of facts
  Days,         \* how many days may go by at once
  MaxJumps, MaxChanges, MaxScans, MaxFaults   \* bounds of the instance

VARIABLES
  cloud,        \* what AWS has: facts by name
  day,          \* today
  phase,        \* of the scan: "idle", "regional", "global"
  todo,         \* the resources it has not listed yet
  failing,      \* the calls that fail in it: pairs of a name and a call
  described,    \* what it has listed and not stored yet, by name
  pending,      \* the links of the batch that is being stored, by their source
  rows,         \* the table of resources, by AWS identifier
  deps,         \* the table of dependencies
  due,          \* whether a scan has ended, so that the analyzers have jobs
  loaded,       \* what the running analyzer has loaded, or None
  reported,     \* what an analyzer has reported in the last step
  picture,      \* history: what each row was made of, by AWS identifier
  budget        \* what is left of the bounds

scanVars == <<phase, todo, failing, described, pending>>
tableVars == <<rows, deps, picture>>
analysisVars == <<due, loaded>>
vars == <<cloud, day, scanVars, tableVars, analysisVars, reported, budget>>

Analyzers == {"orphans", "cost", "security", "iam", "tagging", "residency", "ssl"}
Global(service) == service \in {"s3", "iam_user", "iam_role", "iam_access_key"}
NoRows == <<>>   \* a table without rows

Init ==
  /\ cloud \in Clouds
  /\ day = 0
  /\ phase = "idle" /\ todo = {} /\ failing = {} /\ described = NoRows /\ pending = NoRows
  /\ rows = NoRows /\ deps = {} /\ picture = NoRows
  /\ due = FALSE /\ loaded = None
  /\ reported = {}
  /\ budget = [jumps |-> MaxJumps, changes |-> MaxChanges, scans |-> MaxScans, faults |-> MaxFaults]

Spend(what) == budget[what] > 0 /\ budget' = [budget EXCEPT ![what] = @ - 1]

Without(f, x) == [y \in DOMAIN f \ {x} |-> f[y]]
With(f, x, v) == [y \in DOMAIN f \cup {x} |-> IF y = x THEN v ELSE f[y]]
-----------------------------------------------------------------------------
(* The account.  Its owner changes a resource, or deletes it; days go by    *)
(* while no scan and no analyzer runs.  A change is of no interest when no  *)
(* scan is left to see it.                                                  *)
Change(n) ==
  /\ n \in DOMAIN cloud
  /\ budget.scans > 0 \/ todo # {}
  /\ Spend("changes")
  /\ \/ \E f \in Facts[n] \ {cloud[n]} : cloud' = [cloud EXCEPT ![n] = f]
     \/ cloud' = Without(cloud, n)
  /\ UNCHANGED <<day, scanVars, tableVars, analysisVars>>

DaysPass(n) ==
  /\ phase = "idle" /\ loaded = None
  /\ Spend("jumps")
  /\ day' = day + n
  /\ UNCHANGED <<cloud, scanVars, tableVars, analysisVars>>
-----------------------------------------------------------------------------
(* The scan.                                                                *)
\* A call that fails: listing a service fails for all of it.
Failure(n, call) ==
  IF call = "list"
    THEN {<<m, "list">> : m \in {m \in DOMAIN cloud : cloud[m].service = cloud[n].service}}
    ELSE {<<n, call>>}

StartScan ==
  /\ phase = "idle" /\ budget.scans > 0
  /\ phase' = "regional" /\ todo' = DOMAIN cloud
  /\ \/ failing' = {} /\ budget' = [budget EXCEPT !.scans = @ - 1]
     \/ /\ budget.faults > 0
        /\ \E n \in DOMAIN cloud : \E call \in Calls(cloud[n]) : failing' = Failure(n, call)
        /\ budget' = [budget EXCEPT !.scans = @ - 1, !.faults = @ - 1]
  /\ UNCHANGED <<cloud, day, described, pending, tableVars, analysisVars>>

FailedCalls(n) == {call \in {"list", "tags", "detail", "location", "encryption", "targetGroups",
                             "targetHealth", "mfa", "login", "lastUsed"} : <<n, call>> \in failing}

DescribeResource(n) ==
  /\ n \in todo
  /\ todo' = todo \ {n}
  /\ described' = IF n \in DOMAIN cloud /\ Listed(cloud[n], FailedCalls(n))
                    THEN With(described, n, cloud[n]) ELSE described
  /\ UNCHANGED <<cloud, day, phase, failing, pending, tableVars, analysisVars, budget>>

\* The resources of the batch that is being stored.
Batch == {n \in DOMAIN described : Global(described[n].service) <=> (phase = "global")}

\* Mutant: a row that is known only has its day moved.
UpsertTouches(id, d) ==
  IF id \in DOMAIN rows
    THEN [rows[id] EXCEPT !.lastSeen = day]
    ELSE [service |-> d.service, region |-> d.region, state |-> d.state, tags |-> d.tags,
          raw |-> d.raw, created |-> day, lastSeen |-> day]

\* INSERT ... ON CONFLICT: a row keeps its service, its region and its day.
Upsert(id, d) ==
  IF id \in DOMAIN rows
    THEN [rows[id] EXCEPT !.state = d.state, !.tags = d.tags, !.raw = d.raw, !.lastSeen = day]
    ELSE [service |-> d.service, region |-> d.region, state |-> d.state, tags |-> d.tags,
          raw |-> d.raw, created |-> day, lastSeen |-> day]

\* The identifiers of the security groups and keys that the facts name and
\* the extractor looks for.
Uses(f) ==
  (IF "groups" \in DOMAIN f THEN f.groups ELSE {})
  \cup (IF f.service \in {"rds", "lambda", "s3", "secret"} THEN {f.key} \ {None} ELSE {})

\* History: what the row is made of now, and all it was ever made of.
Picture(id, f, calls, d) ==
  LET new == id \notin DOMAIN picture
  IN [fact |-> f, failed |-> calls, linked |-> FALSE,
      since |-> IF new THEN day ELSE IF picture[id].fact = f THEN picture[id].since ELSE day,
      kinds |-> {<<d.service, d.region>>} \cup IF new THEN {} ELSE picture[id].kinds,
      facts |-> {f} \cup IF new THEN {} ELSE picture[id].facts]

\* A row that cannot be written is passed over.
StoreResource(n) ==
  /\ phase # "idle" /\ todo = {} /\ n \in Batch
  /\ \/ LET f == described[n]
            d == Describe(f, FailedCalls(n))
        IN /\ rows' = With(rows, f.id, Upsert(f.id, d))
           /\ pending' = With(pending, f.id,
                ExtractDependencies(d.service, d.raw)
                  \cup IF f.id \in DOMAIN pending THEN pending[f.id] ELSE {})
           /\ picture' = With(picture, f.id, Picture(f.id, f, FailedCalls(n), d))
           /\ UNCHANGED budget
     \/ Spend("faults") /\ UNCHANGED <<rows, pending, picture>>
  /\ described' = Without(described, n)
  /\ UNCHANGED <<cloud, day, phase, todo, failing, deps, analysisVars>>

\* A dependency is known by its source, its target and its relationship.
SameKey(p, q) ==
  /\ p.source = q.source
  /\ p.link.target = q.link.target /\ p.link.relationship = q.link.relationship

PendingDeps ==
  UNION {{[source |-> id, link |-> l] : l \in pending[id]} : id \in DOMAIN pending}

\* One transaction; when it fails the scan goes on without it.
StoreDependencies ==
  /\ phase # "idle" /\ todo = {} /\ Batch = {}
  /\ \/ /\ deps' = {q \in deps : ~\E p \in PendingDeps : SameKey(p, q)} \cup PendingDeps
        /\ picture' = [id \in DOMAIN picture |->
             [picture[id] EXCEPT !.linked = @ \/ id \in DOMAIN pending]]
        /\ UNCHANGED budget
     \/ PendingDeps # {} /\ Spend("faults") /\ UNCHANGED <<deps, picture>>
  /\ pending' = NoRows
  /\ IF phase = "regional"
       THEN phase' = "global" /\ UNCHANGED <<failing, due>>
       ELSE phase' = "idle" /\ failing' = {} /\ due' = TRUE
  /\ UNCHANGED <<cloud, day, todo, described, rows, loaded>>
-----------------------------------------------------------------------------
(* The analysis.                                                            *)
Load(a) ==
  /\ loaded = None /\ due
  /\ loaded' = [by |-> a, rows |-> rows, picture |-> picture]
  /\ UNCHANGED <<cloud, day, scanVars, tableVars, due, budget>>

\* Whether any dependency points at the resource.
Used(id) == \E d \in deps : d.link.target = id

Findings(a, row, used) ==
  CASE a = "orphans"   -> AnalyzeOrphans(row, used, day)
    [] a = "cost"      -> AnalyzeCost(row, used, day)
    [] a = "security"  -> AnalyzeSecurity(row)
    [] a = "iam"       -> AnalyzeIAM(row, day)
    [] a = "tagging"   -> AnalyzeTagging(row)
    [] a = "residency" -> AnalyzeResidency(row)
    [] a = "ssl"       -> AnalyzeSSL(row, day)

Report ==
  /\ loaded # None
  /\ reported' =
       UNION {{[id |-> id, type |-> f.type, severity |-> f.severity] :
                 f \in Findings(loaded.by, loaded.rows[id], Used(id))} : id \in DOMAIN loaded.rows}
  /\ loaded' = None
  /\ UNCHANGED <<cloud, day, scanVars, tableVars, due, budget>>

Next ==
  \/ Report
  \/ /\ \/ \E n \in DOMAIN Facts : Change(n) \/ DescribeResource(n) \/ StoreResource(n)
        \/ \E n \in Days : DaysPass(n)
        \/ \E a \in Analyzers : Load(a)
        \/ StartScan \/ StoreDependencies
     /\ reported' = {}

Spec == Init /\ [][Next]_vars
-----------------------------------------------------------------------------
(* What should be found, from what AWS said and not from what was stored.   *)
If(condition, type) == IF condition THEN {type} ELSE {}

\* How old a resource is: by AWS, or else by the first scan that saw it.
Age(date, first) == day - (IF date = None THEN first ELSE date)
Made(f, first) == Age(IF "created" \in DOMAIN f THEN f.created ELSE None, first)

\* How long it has been as it is: since it was made, or else since a scan
\* first saw it so.
Unchanged(p, first) == IF p.facts = {p.fact} THEN Made(p.fact, first) ELSE day - p.since

\* A port of the world: a range of ports that anybody may connect to.
Reaches(rule, ports) == rule.world /\ ports \cap rule.from .. rule.to # {}
AnyTraffic(rule) == rule.world /\ (rule.protocol = "-1" \/ rule.from .. rule.to = 0 .. 65535)

Untagged(f) == RequiredTags \ {t.key : t \in {t \in f.tags : t.value # None}} # {}

\* What is wrong today with a resource first seen on the day "first", that is
\* as it is for so many days; its use by others is left aside.
Faults(f, first, days) ==
  CASE f.service = "ebs" ->
         If(f.state = "available" /\ days > 7, "orphaned_volume")
         \cup If(f.type = "gp2" /\ f.size >= 25, "ebs_optimization")
         \cup If(~f.encrypted, "unencrypted_resource") \cup If(Untagged(f), "missing_tag")
    [] f.service = "eip" -> If(f.associated = None /\ days > 3, "orphaned_eip")
    [] f.service = "rds_snapshot" -> If(Age(f.created, first) > 30, "orphaned_snapshot")
    [] f.service = "eni" ->
         If(f.attached = None /\ f.requester = None /\ ~f.managed /\ days > 3, "orphaned_eni")
    [] f.service = "nat_gateway" ->
         If(f.state = "available" /\ Age(f.created, first) > 7, "idle_nat_gateway")
    [] f.service = "alb" ->
         If(f.state = "active" /\ {t \in UNION {g.targets : g \in f.targetGroups} : t.healthy} = {},
            "idle_load_balancer")
         \cup If(Untagged(f), "missing_tag")
    [] f.service = "security_group" ->
         If(\E r \in f.ingress : AnyTraffic(r), "open_all_ports")
         \cup If(\E r \in f.ingress : ~AnyTraffic(r) /\ Reaches(r, sensitivePorts), "permissive_security_group")
         \cup If(Untagged(f), "missing_tag")
    [] f.service = "kms_key" -> If(Untagged(f), "missing_tag")
    [] f.service = "ec2" ->
         If(f.state = "stopped" /\ day - f.since >= 7, "stopped_instance")
         \cup If(f.state = "running" /\ f.type \in OldGenInstanceFamilies, "old_gen_instance")
         \cup If(Untagged(f), "missing_tag")
    [] f.service = "rds" ->
         If(~f.encrypted, "unencrypted_resource") \cup If(f.class \in RdsOldGen, "old_gen_rds")
         \cup If(f.class = "db.r5.24xlarge", "rds_optimization")
         \cup If(f.region \notin AllowedRegions, "data_residency_violation")
         \cup If(Untagged(f), "missing_tag")
    [] f.service = "lambda" ->
         If(day - f.modified >= 90, "unused_resource")
         \cup If(f.memory > 1024 /\ day - f.modified >= 30, "oversized_lambda")
         \cup If(Untagged(f), "missing_tag")
    [] f.service = "s3" ->
         If(f.public, "public_access") \cup If(Untagged(f), "missing_tag")
         \cup If(f.region \notin AllowedRegions, "data_residency_violation")
    [] f.service = "secret" ->
         If(Age(f.accessed, f.created) >= 90, "unused_resource") \cup If(Untagged(f), "missing_tag")
    [] f.service = "cloudwatch_logs" ->
         If(f.bytes >= 100 /\ day - f.created >= 30, "unused_log_group")
         \cup If(f.retention = None /\ f.bytes >= 1024, "log_retention")
         \cup If(Untagged(f), "missing_tag")
    [] f.service = "cloudwatch_alarm" -> If(Untagged(f), "missing_tag")
    [] f.service = "iam_user" -> If(f.console /\ ~f.mfa, "user_without_mfa")
    [] f.service = "iam_access_key" ->
         If(day - f.created >= 90, "old_access_key")
         \cup If(f.used = None /\ f.state = "Active" /\ day - f.created >= 7, "unused_access_key")
         \cup If(f.used # None /\ Age(f.used, first) >= 90, "unused_access_key")
    [] f.service = "iam_role" ->
         If(f.name # "AWS" /\ f.path # "/service-role/" /\ Age(f.used, f.created) >= 90, "unused_iam_role")
    [] f.service = "acm" -> If(f.expires - day < 60, "ssl_expiry")

\* What only the links say: nothing known names the group or the key.
Unneeded(f) ==
  CASE f.service = "security_group" -> If(f.name # "default", "unused_security_group")
    [] f.service = "kms_key"        -> If(f.state = "Enabled", "unused_kms_key")
    [] OTHER                        -> {}
-----------------------------------------------------------------------------
(* What the findings are worth.                                             *)
\* A call that failed is described as an answer, and may mislead a rule.
Misleads(call) ==
  CASE call = "tags"         -> "missing_tag"
    [] call \in {"targetGroups", "targetHealth"} -> "idle_load_balancer"
    [] call = "location"     -> "data_residency_violation"
    [] call = "mfa"          -> "user_without_mfa"
    [] call = "detail"       -> "unused_iam_role"
    [] call = "lastUsed"     -> "unused_access_key"
    [] OTHER                 -> None

\* The row was stored under more than one service and region: a later scan
\* never corrects them.
Mistaken(p) == Cardinality(p.kinds) > 1

\* The tables know all the links of the resource.
Linked(p) == p.linked /\ p.failed = {}

\* The finding is true of what the scans saw before the analyzer loaded the
\* rows.
True(finding, seen) ==
  LET p == seen.picture[finding.id]
      first == seen.rows[finding.id].created
  IN \/ finding.type \in Faults(p.fact, first, Unchanged(p, first))
     \/ /\ finding.type \in Unneeded(p.fact)
        /\ \A q \in DOMAIN seen.picture :
             Linked(seen.picture[q]) => finding.id \notin Uses(seen.picture[q].fact)

\* The gaps the code has: an answer that was missing is taken for one, a row
\* is kept under its first service and region, the tags of buckets are never
\* asked for, what is "unattached for N days" (orphans.go) was made N days ago,
\* and the roles of AWS are not skipped (iam_analyzer.go, line 234).
Gap(finding, seen) ==
  LET p == seen.picture[finding.id]
      first == seen.rows[finding.id].created
  IN \/ \E call \in p.failed : finding.type = Misleads(call)
     \/ Mistaken(p)
     \/ p.fact.service = "s3" /\ finding.type = "missing_tag"
     \/ finding.type \in Faults(p.fact, first, Made(p.fact, first))
     \/ /\ finding.type = "unused_iam_role"
        /\ finding.type \in Faults([p.fact EXCEPT !.name = None], first, Made(p.fact, first))

Reporting == loaded # None /\ loaded' = None

\* No false alarm but for the five named gaps: whatever scans, failures,
\* changes and days came before, an analyzer reports nothing else that is not
\* true of what AWS last said of the resource.
FlaggedOnlyIfTrue ==
  [][Reporting => \A finding \in reported' : True(finding, loaded) \/ Gap(finding, loaded)]_vars

\* The types each analyzer is there for.
TypesOf ==
  "orphans" :> {"orphaned_volume", "orphaned_eip", "orphaned_snapshot", "orphaned_eni",
                "idle_nat_gateway", "idle_load_balancer", "unused_security_group"}
  @@ "cost" :> {"unused_resource", "oversized_lambda", "stopped_instance", "old_gen_instance",
                "unused_log_group", "log_retention", "ebs_optimization", "rds_optimization",
                "old_gen_rds", "unused_kms_key"}
  @@ "security" :> {"unencrypted_resource", "public_access", "open_all_ports", "permissive_security_group"}
  @@ "iam" :> {"user_without_mfa", "old_access_key", "unused_access_key", "unused_iam_role"}
  @@ "tagging" :> {"missing_tag"}
  @@ "residency" :> {"data_residency_violation"}
  @@ "ssl" :> {"ssl_expiry"}

\* What is never found, because what the rule reads is never stored.
Unread(service) ==
  CASE service = "rds" -> {"unencrypted_resource"}
    [] service = "s3"  -> {"public_access"}
    [] service = "ec2" -> {"old_gen_instance", "stopped_instance"}
    [] OTHER           -> {}

\* What is found late: the age of a snapshot is that of its row (orphans.go,
\* line 194), so an old one is only reported a month after it was first seen.
FoundLate(p, first) ==
  If(p.fact.service = "rds_snapshot" /\ Age(None, first) <= orphanedSnapshotAgeDays,
     "orphaned_snapshot")

\* Nothing that any scan ever saw names the resource.
NeverNamed(id) == \A q \in DOMAIN picture : \A f \in picture[q].facts : id \notin Uses(f)

\* No silence: what is wrong with a resource that was described without a
\* failed call, the analyzer of that fault reports, but for what is never read
\* and what is found late.
TrueIsFlagged ==
  [][Reporting =>
       \A id \in DOMAIN loaded.rows :
         LET p == loaded.picture[id]
             first == loaded.rows[id].created
             owed == (Faults(p.fact, first, Unchanged(p, first))
                        \ (Unread(p.fact.service) \cup FoundLate(p, first)))
                       \cup (IF NeverNamed(id) THEN Unneeded(p.fact) ELSE {})
         IN p.failed = {} /\ ~Mistaken(p) =>
              owed \cap TypesOf[loaded.by] \subseteq {r.type : r \in {r \in reported' : r.id = id}}]_vars

\* The links of a resource, from what AWS said of it.
Named(f, field) ==
  IF field \notin DOMAIN f THEN {} ELSE f[field] \ {None}
NamedOne(f, field) ==
  IF field \notin DOMAIN f THEN {} ELSE {f[field]} \ {None}
To(targets, service, relationship) == {Dependency(t, service, relationship) : t \in targets}

RelationsOf(f) ==
  (IF f.service = "security_group" THEN {} ELSE To(NamedOne(f, "vpc"), "vpc", "in_vpc"))
  \cup To(NamedOne(f, "subnet") \cup Named(f, "subnets"), "subnet", "in_subnet")
  \cup To(Named(f, "groups"), "security_group", "uses_sg")
  \cup To(NamedOne(f, "profile") \cup NamedOne(f, "role"), "iam_role", "uses_role")
  \cup To(NamedOne(f, "attached") \cup Named(f, "attachments"), "ec2", "attached_to")
  \cup To(Named(f, "layers"), "lambda_layer", "uses_layer")
  \cup (IF f.service \in {"ebs", "cloudwatch_logs"} THEN {}
        ELSE To(NamedOne(f, "key"), "kms_key", "encrypted_by"))
  \cup To({g.arn : g \in Named(f, "targetGroups")}, "target_group", "owns")
  \cup UNION {To({t.id : t \in g.targets}, IF g.type = "lambda" THEN "lambda" ELSE "ec2", "targets") :
                g \in Named(f, "targetGroups")}
  \cup To({a.allocation : a \in Named(f, "addresses")} \ {None}, "eip", "uses_eip")
  \cup To({a.interface : a \in Named(f, "addresses")} \ {None}, "eni", "attached_to")
  \cup To({d.value : d \in {d \in Named(f, "dimensions") : d.name = "InstanceId"}}, "ec2", "monitors")
  \cup To({d.value : d \in {d \in Named(f, "dimensions") : d.name = "BucketName"}}, "s3", "monitors")

\* The links are those of the account: every stored link was named by a
\* resource that a scan saw, and a resource whose batch was stored whole has
\* all of its links.  The one exception of the code is kept out: nothing is
\* ever read of the VPC of a security group, or the key of a volume.
LinksAreTrue ==
  /\ \A d \in deps : \E f \in picture[d.source].facts : d.link \in RelationsOf(f)
  /\ \A id \in DOMAIN picture :
       Linked(picture[id]) =>
         \A l \in RelationsOf(picture[id].fact) : \E d \in deps : d.source = id /\ d.link = l
=============================================================================
