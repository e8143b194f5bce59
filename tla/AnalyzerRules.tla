--------------------------- MODULE AnalyzerRules ----------------------------
(* The rules of the analyzers (internal/analyzers): what each of them finds *)
(* wrong with a stored resource.  A rule reads the row of the resource, its *)
(* raw record under the names it expects, the day it runs and, for security *)
(* groups and keys, the dependencies that point at the resource; a value    *)
(* that is not in the record is None, and rules pass over such a record.    *)
(* Days are whole days, rounded down.                                       *)
EXTENDS DependencyExtraction, Integers

CONSTANTS
  RequiredTags,     \* the tags the organisation asks for
  AllowedRegions    \* the regions its data may be in

Finding(type, severity) == {[type |-> type, severity |-> severity]}

\* raw[key] in a map: nothing when there is no such key.
Raw(row, key) == IF key \in DOMAIN row.raw THEN row.raw[key] ELSE None

Since(date, day) == day - date
-----------------------------------------------------------------------------
(* orphans.go                                                               *)
orphanedEBSAgeDays == 7
orphanedEIPAgeDays == 3
orphanedSnapshotAgeDays == 30
orphanedENIAgeDays == 3
idleNATGatewayAgeDays == 7

\* The date in the record or, without one, the day the row was made.
DateOr(date, row) == IF date = None THEN row.created ELSE date

\* Mutant: only the state that AWS gives a volume, not the scanner's own.
CheckAvailableEBS(row, day) ==
  IF row.state = "available" /\ Since(DateOr(Raw(row, "aws_create_time"), row), day) > orphanedEBSAgeDays
    THEN Finding("orphaned_volume", "medium") ELSE {}

CheckOrphanedEBS(row, day) ==
  IF /\ row.state \in {"unattached", "available"}
     /\ Since(DateOr(Raw(row, "aws_create_time"), row), day) > orphanedEBSAgeDays
    THEN Finding("orphaned_volume", "medium") ELSE {}

CheckOrphanedEIP(row, day) ==
  IF row.state = "unassociated" /\ Since(row.created, day) > orphanedEIPAgeDays
    THEN Finding("orphaned_eip", "low") ELSE {}

\* By the day the row was made, not that of the snapshot.
CheckOrphanedSnapshot(row, day) ==
  IF Since(row.created, day) > orphanedSnapshotAgeDays
    THEN Finding("orphaned_snapshot", "low") ELSE {}

\* Without any healthy target; no target groups read is none at all.
CheckIdleLoadBalancer(row) ==
  IF /\ row.state = "active"
     /\ \/ Raw(row, "TargetGroups") = None
        \/ \A g \in Raw(row, "TargetGroups") : \A t \in g.targets : ~t.healthy
    THEN Finding("idle_load_balancer", "medium") ELSE {}

CheckOrphanedENI(row, day) ==
  IF /\ row.state = "available"
     /\ Raw(row, "requester_managed") # TRUE
     /\ Raw(row, "requester_id") = None
     /\ Since(row.created, day) > orphanedENIAgeDays
    THEN Finding("orphaned_eni", "low") ELSE {}

CheckUnusedSecurityGroup(row, used) ==
  IF Raw(row, "group_name") # "default" /\ ~used
    THEN Finding("unused_security_group", "low") ELSE {}

CheckIdleNATGateway(row, day) ==
  IF /\ row.state = "available"
     /\ Since(DateOr(Raw(row, "create_time"), row), day) > idleNATGatewayAgeDays
    THEN Finding("idle_nat_gateway", "medium") ELSE {}

AnalyzeOrphans(row, used, day) ==
  CASE row.service = "ebs"            -> CheckOrphanedEBS(row, day)
    [] row.service = "eip"            -> CheckOrphanedEIP(row, day)
    [] row.service = "rds_snapshot"   -> CheckOrphanedSnapshot(row, day)
    [] row.service = "alb"            -> CheckIdleLoadBalancer(row)
    [] row.service = "eni"            -> CheckOrphanedENI(row, day)
    [] row.service = "nat_gateway"    -> CheckIdleNATGateway(row, day)
    [] row.service = "security_group" -> CheckUnusedSecurityGroup(row, used)
    [] OTHER                          -> {}
-----------------------------------------------------------------------------
(* cost.go                                                                  *)
unusedLambdaDays == 90
unusedSecretDays == 90
stoppedInstanceDays == 7
unusedLogGroupDays == 30
unusedLogGroupMB == 100

CheckUnusedLambda(row, day) ==
  IF Raw(row, "last_modified") # None /\ Since(Raw(row, "last_modified"), day) >= unusedLambdaDays
    THEN Finding("unused_resource", "low") ELSE {}

CheckOversizedLambda(row, day) ==
  IF /\ Raw(row, "memory_size") > 1024
     /\ Raw(row, "last_modified") # None
     /\ Since(Raw(row, "last_modified"), day) >= 30
    THEN Finding("oversized_lambda", "low") ELSE {}

\* By the last access or, for a secret that was never read, its creation.
CheckUnusedSecret(row, day) ==
  LET accessed == Raw(row, "last_accessed_date")
      date == IF accessed = None THEN Raw(row, "created_date") ELSE accessed
  IN IF date # None /\ Since(date, day) >= unusedSecretDays
       THEN Finding("unused_resource", "low") ELSE {}

\* By the day the instance was last seen, which every scan moves to today.
CheckStoppedInstance(row, day) ==
  IF row.state = "stopped" /\ Since(row.lastSeen, day) >= stoppedInstanceDays
    THEN Finding("stopped_instance", "low") ELSE {}

OldGenInstanceFamilies == {"m4", "c4", "r4", "t2", "m3", "c3", "r3", "i2", "d2"}

CheckOldGenInstance(row) ==
  IF row.state = "running" /\ Raw(row, "instance_type") \in OldGenInstanceFamilies
    THEN Finding("old_gen_instance", "low") ELSE {}

CheckUnusedLogGroup(row, day) ==
  IF /\ Raw(row, "stored_bytes") >= unusedLogGroupMB
     /\ Raw(row, "creation_time") # None
     /\ Since(Raw(row, "creation_time"), day) >= unusedLogGroupDays
    THEN Finding("unused_log_group", "trivial") ELSE {}

CheckLogRetention(row) ==
  IF Raw(row, "retention_days") = None /\ Raw(row, "stored_bytes") >= 1024
    THEN Finding("log_retention", "low") ELSE {}

\* gp3 is two cents a gigabyte cheaper; half a dollar is worth a finding.
CheckGP2toGP3Migration(row) ==
  IF Raw(row, "volume_type") = "gp2" /\ 2 * Raw(row, "size") >= 50
    THEN Finding("ebs_optimization", "low") ELSE {}

\* The classes the model tells apart: the next class down, the old ones, and
\* the monthly price in dollars of those the price list has.
RdsDownsizePath ==
  "db.r5.24xlarge" :> "db.r5.16xlarge" @@ "db.r6g.16xlarge" :> "db.r6g.12xlarge"
RdsOldGen == {"db.m4.large"}
RDSInstancePricing == "db.r5.24xlarge" :> 8760 @@ "db.r5.16xlarge" :> 5840

GetRDSCost(class, multiAZ) ==
  LET cost == IF class \in DOMAIN RDSInstancePricing THEN RDSInstancePricing[class] ELSE 50
  IN IF multiAZ THEN 2 * cost ELSE cost

CheckRDSOptimization(row) ==
  LET class == Raw(row, "DBInstanceClass")
      multiAZ == Raw(row, "MultiAZ") = TRUE
  IN IF class \notin DOMAIN RdsDownsizePath THEN {}
     ELSE IF GetRDSCost(class, multiAZ) - GetRDSCost(RdsDownsizePath[class], multiAZ) < 50 THEN {}
     ELSE Finding("rds_optimization", "low")

CheckOldGenRDS(row) ==
  IF Raw(row, "DBInstanceClass") \in RdsOldGen THEN Finding("old_gen_rds", "low") ELSE {}

CheckUnusedKMSKey(row, used) ==
  IF Raw(row, "key_manager") # "AWS" /\ Raw(row, "key_state") = "Enabled" /\ ~used
    THEN Finding("unused_kms_key", "low") ELSE {}

AnalyzeCost(row, used, day) ==
  CASE row.service = "lambda"  -> CheckUnusedLambda(row, day) \cup CheckOversizedLambda(row, day)
    [] row.service = "secret"  -> CheckUnusedSecret(row, day)
    [] row.service = "ec2"     -> CheckStoppedInstance(row, day) \cup CheckOldGenInstance(row)
    [] row.service = "cloudwatch_logs" -> CheckUnusedLogGroup(row, day) \cup CheckLogRetention(row)
    [] row.service = "ebs"     -> CheckGP2toGP3Migration(row)
    [] row.service = "rds"     -> CheckRDSOptimization(row) \cup CheckOldGenRDS(row)
    [] row.service = "kms_key" -> CheckUnusedKMSKey(row, used)
    [] OTHER                   -> {}
-----------------------------------------------------------------------------
(* security.go                                                              *)
CheckEBSEncryption(row) ==
  IF Raw(row, "encrypted") = FALSE THEN Finding("unencrypted_resource", "medium") ELSE {}

CheckRDSEncryption(row) ==
  IF Raw(row, "storage_encrypted") = FALSE THEN Finding("unencrypted_resource", "high") ELSE {}

CheckS3PublicAccess(row) ==
  IF Raw(row, "public_access_block") \notin {None, "all"}
    THEN Finding("public_access", "high") ELSE {}

\* A rule of the group that is open to the world finds all ports open, or the
\* sensitive ports it covers; the findings of one type share a row.
sensitivePorts == {22, 1433, 3306, 3389, 5432, 5672, 6379, 9200, 11211, 27017}

CheckSecurityGroup(row) ==
  LET open == {r \in (IF Raw(row, "ingress_rules") = None THEN {} ELSE Raw(row, "ingress_rules")) : r.world}
      everything(r) == r.protocol = "-1" \/ (r.from = 0 /\ r.to = 65535)
  IN (IF \E r \in open : everything(r) THEN Finding("open_all_ports", "high") ELSE {})
     \cup (IF \E r \in open : ~everything(r) /\ \E p \in sensitivePorts : r.from <= p /\ p <= r.to
             THEN Finding("permissive_security_group", "high") ELSE {})

AnalyzeSecurity(row) ==
  CASE row.service = "ebs"            -> CheckEBSEncryption(row)
    [] row.service = "rds"            -> CheckRDSEncryption(row)
    [] row.service = "s3"             -> CheckS3PublicAccess(row)
    [] row.service = "security_group" -> CheckSecurityGroup(row)
    [] OTHER                          -> {}
-----------------------------------------------------------------------------
(* iam_analyzer.go                                                          *)
oldAccessKeyDays == 90
unusedRoleDays == 90

CheckUserMFA(row) ==
  IF Raw(row, "has_console_access") # FALSE /\ Raw(row, "mfa_enabled") = FALSE
    THEN Finding("user_without_mfa", "high") ELSE {}

\* A key that was never used is given a week, one that was used three months.
CheckAccessKey(row, day) ==
  LET age == Since(Raw(row, "create_date"), day)
      used == Raw(row, "last_used_date")
  IN (IF age >= oldAccessKeyDays THEN Finding("old_access_key", "medium") ELSE {})
     \cup (IF \/ used = None /\ row.state = "Active" /\ age >= 7
              \/ used # None /\ Since(used, day) >= oldAccessKeyDays
             THEN Finding("unused_access_key", "low") ELSE {})

\* By the last use or, without one, the creation.  Those whose name begins with
\* AWS are to be skipped, but four letters of it are compared with these three.
CheckUnusedRole(row, day) ==
  LET used == Raw(row, "last_used_date")
      date == IF used = None THEN Raw(row, "create_date") ELSE used
  IN IF Raw(row, "path") # "/service-role/" /\ Since(date, day) >= unusedRoleDays
       THEN Finding("unused_iam_role", "low") ELSE {}

AnalyzeIAM(row, day) ==
  CASE row.service = "iam_user"       -> CheckUserMFA(row)
    [] row.service = "iam_access_key" -> CheckAccessKey(row, day)
    [] row.service = "iam_role"       -> CheckUnusedRole(row, day)
    [] OTHER                          -> {}
-----------------------------------------------------------------------------
(* tagging.go: a tag is known by its letters whatever their case, and it     *)
(* counts if it has a value.                                                *)
taggableServices ==
  {"ec2", "ebs", "rds", "s3", "alb", "lambda", "security_group", "secret", "kms_key",
   "cloudwatch_logs", "cloudwatch_alarm"}

FindMissingTags(row) ==
  {required \in RequiredTags :
     ~\E tag \in row.tags : tag.key = required /\ tag.value # None}

AnalyzeTagging(row) ==
  IF row.service \in taggableServices /\ FindMissingTags(row) # {}
    THEN Finding("missing_tag", "trivial") ELSE {}

(* residency.go *)
AnalyzeResidency(row) ==
  IF row.service \in {"rds", "s3"} /\ row.region # None /\ row.region \notin AllowedRegions
    THEN Finding("data_residency_violation", "high") ELSE {}

(* ssl.go *)
sslHighSeverityDays == 7
sslMediumSeverityDays == 30
sslLowSeverityDays == 60

AnalyzeSSL(row, day) ==
  LET left == Raw(row, "not_after") - day
  IN CASE row.service # "acm"            -> {}
       [] left < sslHighSeverityDays     -> Finding("ssl_expiry", "critical")
       [] left \in sslHighSeverityDays .. sslMediumSeverityDays - 1 -> Finding("ssl_expiry", "medium")
       [] left \in sslMediumSeverityDays .. sslLowSeverityDays - 1  -> Finding("ssl_expiry", "low")
       [] OTHER                          -> {}
=============================================================================
