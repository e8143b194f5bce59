---------------------------- MODULE AwsScanners ----------------------------
(* What the scanners of the worker (internal/awsclient) make of an AWS      *)
(* resource: the described resource that is stored, with the state and the  *)
(* region the analyzers look at and the raw record the analyzers and the    *)
(* extractor of dependencies read back.  A raw record is written and read   *)
(* under names that nothing but the tests relates, so the names are kept as *)
(* they are in the code: those of the SDK where an SDK structure is         *)
(* marshalled as it is (EC2 and RDS), those of a map literal elsewhere.     *)
(*                                                                          *)
(* The facts of a resource are a record of its own: its service, its        *)
(* identifier, what AWS says of it.  A list of AWS is the set of its        *)
(* members, a list of structures of one used field the set of that field,   *)
(* an empty string and a nil pointer are None, a date is a day.  "failed"   *)
(* is the set of the calls about this resource that failed: the scanners    *)
(* log such a failure, go on, and describe what they have.                  *)
EXTENDS TLC

CONSTANT None   \* a missing value: nil, null or the empty string

Described(service, region, state, tags, raw) ==
  [service |-> service, region |-> region, state |-> state, tags |-> tags, raw |-> raw]

\* A map entry that is only written when there is something to write.
Entry(key, value) == IF value = None THEN <<>> ELSE key :> value

NoTags == {}
-----------------------------------------------------------------------------
(* ec2.go: the instance is marshalled as the SDK has it.                    *)
ScanInstance(f, failed) ==
  Described("ec2", f.region, f.state, f.tags,
    [InstanceType |-> f.type, VpcId |-> f.vpc, SubnetId |-> f.subnet,
     SecurityGroups |-> f.groups, IamInstanceProfile |-> f.profile])

ScanVolume(f, failed) ==
  Described("ebs", f.region,
    IF f.attachments = {} /\ f.state = "available" THEN "unattached" ELSE f.state,
    f.tags,
    [size |-> f.size, state |-> f.state, volume_type |-> f.type, encrypted |-> f.encrypted,
     attachments |-> f.attachments]
      @@ Entry("aws_create_time", f.created))

ScanEIP(f, failed) ==
  Described("eip", f.region,
    IF f.associated = None THEN "unassociated" ELSE "associated",
    f.tags, [instance_id |-> f.associated])

ScanENI(f, failed) ==
  Described("eni", f.region,
    IF f.attached = None THEN "available" ELSE f.state,
    f.tags,
    [vpc_id |-> f.vpc, subnet_id |-> f.subnet, requester_id |-> f.requester,
     requester_managed |-> f.managed]
      @@ Entry("attachment", f.attached)
      @@ Entry("security_groups", IF f.groups = {} THEN None ELSE f.groups))

ScanNATGateway(f, failed) ==
  Described("nat_gateway", f.region, f.state, f.tags,
    [vpc_id |-> f.vpc, subnet_id |-> f.subnet]
      @@ Entry("create_time", f.created)
      @@ Entry("addresses", IF f.addresses = {} THEN None ELSE f.addresses))
-----------------------------------------------------------------------------
(* rds.go: instances and manual snapshots, marshalled as the SDK has them.  *)
ScanDBInstance(f, failed) ==
  Described("rds", f.region, f.state, f.tags,
    [DBInstanceClass |-> f.class, MultiAZ |-> f.multiAZ, StorageEncrypted |-> f.encrypted,
     DBSubnetGroup |-> [VpcId |-> f.vpc, Subnets |-> f.subnets],
     VpcSecurityGroups |-> f.groups, KmsKeyId |-> f.key])

ScanSnapshot(f, failed) ==
  Described("rds_snapshot", f.region, f.state, f.tags,
    [AllocatedStorage |-> f.size, SnapshotCreateTime |-> f.created])
-----------------------------------------------------------------------------
(* alb.go: the target groups, their health and the tags take calls of their *)
(* own.  No target groups and a failed call are the same null.              *)
FetchTargetGroups(f, failed) ==
  IF "targetGroups" \in failed
    THEN None
    ELSE {[g EXCEPT !.targets = IF "targetHealth" \in failed THEN {} ELSE @] : g \in f.targetGroups}

ScanLoadBalancer(f, failed) ==
  Described("alb", f.region, f.state,
    IF "tags" \in failed THEN NoTags ELSE f.tags,
    [Type |-> f.type, VpcId |-> f.vpc, SecurityGroups |-> f.groups,
     AvailabilityZones |-> f.subnets, TargetGroups |-> FetchTargetGroups(f, failed)])
-----------------------------------------------------------------------------
(* securitygroups.go *)
ScanSecurityGroup(f, failed) ==
  Described("security_group", f.region, None, f.tags,
    [group_name |-> f.name, vpc_id |-> f.vpc, ingress_rules |-> f.ingress])

(* kms.go: a key whose details cannot be had is left out, and so is a key   *)
(* that AWS manages.                                                        *)
ScanKey(f, failed) ==
  Described("kms_key", f.region, f.state,
    IF "tags" \in failed THEN NoTags ELSE f.tags,
    [key_state |-> f.state, key_manager |-> f.manager])

(* lambda.go: names of its own, those of the SDK for what is depended on.   *)
ScanFunction(f, failed) ==
  Described("lambda", f.region, f.state,
    IF "tags" \in failed THEN NoTags ELSE f.tags,
    [memory_size |-> f.memory, last_modified |-> f.modified, Role |-> f.role,
     VpcConfig |-> [VpcId |-> f.vpc, SubnetIds |-> f.subnets, SecurityGroupIds |-> f.groups],
     Layers |-> f.layers, KMSKeyArn |-> f.key])
-----------------------------------------------------------------------------
(* s3.go: the location is a call of its own, "unknown" when it fails; so is *)
(* the encryption.  The tags are never fetched.                             *)
GetBucketRegion(f, failed) == IF "location" \in failed THEN "unknown" ELSE f.region

ScanBucket(f, failed) ==
  LET readable == "encryption" \notin failed
  IN Described("s3", GetBucketRegion(f, failed), "active", NoTags,
       [creation_date |-> f.created]
         @@ Entry("sse_algorithm", IF readable THEN f.algorithm ELSE None)
         @@ Entry("kms_key_id", IF readable THEN f.key ELSE None))

(* secretsmanager.go *)
ScanSecret(f, failed) ==
  Described("secret", f.region, None, f.tags,
    [kms_key_id |-> f.key, created_date |-> f.created]
      @@ Entry("last_accessed_date", f.accessed))

(* cloudwatch.go *)
ScanLogGroup(f, failed) ==
  Described("cloudwatch_logs", f.region, None,
    IF "tags" \in failed THEN NoTags ELSE f.tags,
    [creation_time |-> f.created, retention_days |-> f.retention,
     stored_bytes |-> f.bytes, kms_key_id |-> f.key])

ScanAlarm(f, failed) ==
  Described("cloudwatch_alarm", f.region, f.state,
    IF "tags" \in failed THEN NoTags ELSE f.tags,
    [dimensions |-> f.dimensions])
-----------------------------------------------------------------------------
(* iam.go: for a user, failing to list the MFA devices is having none, and  *)
(* failing to get the login profile is having no console access.            *)
ScanUser(f, failed) ==
  Described("iam_user", "global", None, NoTags,
    [mfa_enabled |-> f.mfa /\ "mfa" \notin failed,
     has_console_access |-> f.console /\ "login" \notin failed])

ScanRole(f, failed) ==
  Described("iam_role", "global", None, NoTags,
    [path |-> f.path, create_date |-> f.created]
      @@ Entry("last_used_date", IF "detail" \in failed THEN None ELSE f.used))

ScanAccessKey(f, failed) ==
  Described("iam_access_key", "global", f.state, NoTags,
    [create_date |-> f.created]
      @@ Entry("last_used_date", IF "lastUsed" \in failed THEN None ELSE f.used))

(* acm.go: a certificate that cannot be described is left out.  It is       *)
(* stored in a table of its own, under its ARN.                             *)
ScanCertificate(f, failed) ==
  Described("acm", f.region, None, NoTags, [not_after |-> f.expires])
-----------------------------------------------------------------------------
\* Whether a scan lists the resource at all.
Listed(f, failed) ==
  /\ "list" \notin failed
  /\ f.service \in {"kms_key", "acm"} => "detail" \notin failed
  /\ f.service = "kms_key" => f.manager # "AWS"
  /\ f.service = "rds_snapshot" => f.manual

Describe(f, failed) ==
  CASE f.service = "ec2"              -> ScanInstance(f, failed)
    [] f.service = "ebs"              -> ScanVolume(f, failed)
    [] f.service = "eip"              -> ScanEIP(f, failed)
    [] f.service = "eni"              -> ScanENI(f, failed)
    [] f.service = "nat_gateway"      -> ScanNATGateway(f, failed)
    [] f.service = "rds"              -> ScanDBInstance(f, failed)
    [] f.service = "rds_snapshot"     -> ScanSnapshot(f, failed)
    [] f.service = "alb"              -> ScanLoadBalancer(f, failed)
    [] f.service = "security_group"   -> ScanSecurityGroup(f, failed)
    [] f.service = "kms_key"          -> ScanKey(f, failed)
    [] f.service = "lambda"           -> ScanFunction(f, failed)
    [] f.service = "s3"               -> ScanBucket(f, failed)
    [] f.service = "secret"           -> ScanSecret(f, failed)
    [] f.service = "cloudwatch_logs"  -> ScanLogGroup(f, failed)
    [] f.service = "cloudwatch_alarm" -> ScanAlarm(f, failed)
    [] f.service = "iam_user"         -> ScanUser(f, failed)
    [] f.service = "iam_role"         -> ScanRole(f, failed)
    [] f.service = "iam_access_key"   -> ScanAccessKey(f, failed)
    [] f.service = "acm"              -> ScanCertificate(f, failed)

\* The calls about a resource that may fail without failing the scan of its
\* service: "list" stands for the call that lists the service in its region.
Calls(f) ==
  {"list"} \cup
  CASE f.service = "alb"             -> {"targetGroups", "targetHealth", "tags"}
    [] f.service = "kms_key"         -> {"detail", "tags"}
    [] f.service = "acm"             -> {"detail"}
    [] f.service \in {"lambda", "cloudwatch_logs", "cloudwatch_alarm"} -> {"tags"}
    [] f.service = "s3"              -> {"location", "encryption"}
    [] f.service = "iam_user"        -> {"mfa", "login"}
    [] f.service = "iam_role"        -> {"detail"}
    [] f.service = "iam_access_key"  -> {"lastUsed"}
    [] OTHER                         -> {}
=============================================================================
