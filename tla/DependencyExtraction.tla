----------------------- MODULE DependencyExtraction -------------------------
(* The DependencyExtractor of the scanner (internal/scanner/dependencies.go):*)
(* what a stored resource depends on, read from its raw record.  The raw     *)
(* record is decoded into a structure whose fields name the keys; Go matches *)
(* a key whatever its case, but not whatever its underscores.                *)
EXTENDS AwsScanners

\* Mutant: a key must be spelled exactly as the field says.
ExactSpelling(name) == {name}

\* The keys that are taken for a name: of the keys that are written, only
\* this pair differs in nothing but its case.
Spellings(name) == IF name = "Attachments" THEN {"Attachments", "attachments"} ELSE {name}

\* The value decoded into a field, None when the record has no such key.
Field(raw, name) ==
  LET keys == Spellings(name) \cap DOMAIN raw
  IN IF keys = {} THEN None ELSE raw[CHOOSE k \in keys : TRUE]

\* A field of a structure in the record.
Inner(raw, name, inner) ==
  IF Field(raw, name) = None THEN None ELSE Field(Field(raw, name), inner)

Dependency(target, service, relationship) ==
  [target |-> target, service |-> service, relationship |-> relationship]

\* One dependency when the field is there, one per member of a list.
One(target, service, relationship) ==
  IF target = None THEN {} ELSE {Dependency(target, service, relationship)}
All(targets, service, relationship) ==
  IF targets = None THEN {} ELSE {Dependency(t, service, relationship) : t \in targets \ {None}}
-----------------------------------------------------------------------------
ExtractEC2(raw) ==
  One(Field(raw, "VpcId"), "vpc", "in_vpc")
  \cup One(Field(raw, "SubnetId"), "subnet", "in_subnet")
  \cup All(Field(raw, "SecurityGroups"), "security_group", "uses_sg")
  \cup One(Field(raw, "IamInstanceProfile"), "iam_role", "uses_role")

ExtractEBS(raw) ==
  All(Field(raw, "Attachments"), "ec2", "attached_to")
  \cup One(Field(raw, "KmsKeyId"), "kms_key", "encrypted_by")

ExtractRDS(raw) ==
  One(Inner(raw, "DBSubnetGroup", "VpcId"), "vpc", "in_vpc")
  \cup All(Inner(raw, "DBSubnetGroup", "Subnets"), "subnet", "in_subnet")
  \cup All(Field(raw, "VpcSecurityGroups"), "security_group", "uses_sg")
  \cup One(Field(raw, "KmsKeyId"), "kms_key", "encrypted_by")

ExtractLambda(raw) ==
  One(Field(raw, "Role"), "iam_role", "uses_role")
  \cup One(Inner(raw, "VpcConfig", "VpcId"), "vpc", "in_vpc")
  \cup All(Inner(raw, "VpcConfig", "SubnetIds"), "subnet", "in_subnet")
  \cup All(Inner(raw, "VpcConfig", "SecurityGroupIds"), "security_group", "uses_sg")
  \cup All(Field(raw, "Layers"), "lambda_layer", "uses_layer")
  \cup One(Field(raw, "KMSKeyArn"), "kms_key", "encrypted_by")

ExtractSecurityGroup(raw) == One(Field(raw, "VpcId"), "vpc", "in_vpc")

\* A target of a group is taken for an instance unless the group is of
\* functions; a group without an ARN is passed over with its targets.
Targets(group) ==
  One(group.arn, "target_group", "owns")
  \cup IF group.arn = None THEN {}
       ELSE All({t.id : t \in group.targets},
                IF group.type = "lambda" THEN "lambda" ELSE "ec2", "targets")

ExtractALB(raw) ==
  One(Field(raw, "VpcId"), "vpc", "in_vpc")
  \cup All(Field(raw, "SecurityGroups"), "security_group", "uses_sg")
  \cup All(Field(raw, "AvailabilityZones"), "subnet", "in_subnet")
  \cup IF Field(raw, "TargetGroups") = None THEN {}
       ELSE UNION {Targets(g) : g \in Field(raw, "TargetGroups")}

ExtractENI(raw) ==
  One(Field(raw, "vpc_id"), "vpc", "in_vpc")
  \cup One(Field(raw, "subnet_id"), "subnet", "in_subnet")
  \cup One(Field(raw, "attachment"), "ec2", "attached_to")
  \cup All(Field(raw, "security_groups"), "security_group", "uses_sg")

ExtractNATGateway(raw) ==
  One(Field(raw, "vpc_id"), "vpc", "in_vpc")
  \cup One(Field(raw, "subnet_id"), "subnet", "in_subnet")
  \cup IF Field(raw, "addresses") = None THEN {}
       ELSE UNION {One(a.allocation, "eip", "uses_eip") \cup One(a.interface, "eni", "attached_to") :
                     a \in Field(raw, "addresses")}

ExtractS3(raw) == One(Field(raw, "kms_key_id"), "kms_key", "encrypted_by")

ExtractSecret(raw) == One(Field(raw, "kms_key_id"), "kms_key", "encrypted_by")

\* The dimensions that name a resource, and the service they name.
DimensionService ==
  "InstanceId" :> "ec2" @@ "DBInstanceIdentifier" :> "rds" @@ "FunctionName" :> "lambda"
  @@ "LoadBalancer" :> "alb" @@ "NatGatewayId" :> "nat_gateway" @@ "BucketName" :> "s3"

ExtractAlarm(raw) ==
  UNION {IF d.name \in DOMAIN DimensionService
           THEN One(d.value, DimensionService[d.name], "monitors") ELSE {} :
           d \in Field(raw, "dimensions")}

ExtractDependencies(service, raw) ==
  CASE service = "ec2"              -> ExtractEC2(raw)
    [] service = "ebs"              -> ExtractEBS(raw)
    [] service = "rds"              -> ExtractRDS(raw)
    [] service = "lambda"           -> ExtractLambda(raw)
    [] service = "security_group"   -> ExtractSecurityGroup(raw)
    [] service = "alb"              -> ExtractALB(raw)
    [] service = "eni"              -> ExtractENI(raw)
    [] service = "nat_gateway"      -> ExtractNATGateway(raw)
    [] service = "s3"               -> ExtractS3(raw)
    [] service = "secret"           -> ExtractSecret(raw)
    [] service = "cloudwatch_alarm" -> ExtractAlarm(raw)
    [] OTHER                        -> {}
=============================================================================
