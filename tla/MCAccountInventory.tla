------------------------- MODULE MCAccountInventory -------------------------
(* Instances of AccountInventory for TLC: accounts of one resource of each  *)
(* kind, with the values its rules tell apart, and accounts whose resources *)
(* depend on each other or share an identifier.  Days are counted from the  *)
(* first scan, at most a month on; dates lie so that every threshold is     *)
(* reached exactly, missed by one and passed.                               *)
EXTENDS AccountInventory

MCRequiredTags == {"team"}
MCAllowedRegions == {"eu"}
MCDays == {3, 4, 30, 31}

Tagged == {[key |-> "team", value |-> "ops"]}
Blank == {[key |-> "team", value |-> None]}

\* What every resource has, and the fields of its kind.
Resource(service, id, fields) ==
  [service |-> service, id |-> id, region |-> "eu", tags |-> Tagged, state |-> None] @@ fields
\* The left record wins.
Over(fields, f) == fields @@ f

Instance(state, type) ==
  Over([state |-> state],
    Resource("ec2", "i-1", [type |-> type, vpc |-> "vpc-1", subnet |-> "sn-1", groups |-> {"sg-1"},
                            profile |-> "role-1", since |-> -4]))
Volume(state, attachments, created, encrypted, size) ==
  Over([state |-> state],
    Resource("ebs", "vol-1", [attachments |-> attachments, created |-> created, encrypted |-> encrypted,
                              type |-> "gp2", size |-> size, key |-> None]))
Interface(attached, requester, managed) ==
  Over([state |-> IF attached = None THEN "available" ELSE "in-use"],
    Resource("eni", "eni-1", [attached |-> attached, requester |-> requester,
                              managed |-> managed, vpc |-> "vpc-1", subnet |-> "sn-1", groups |-> {"sg-1"}]))
Gateway(state, created) ==
  Over([state |-> state],
    Resource("nat_gateway", "nat-1", [vpc |-> "vpc-1", subnet |-> "sn-1", created |-> created,
      addresses |-> {[allocation |-> "eip-1", interface |-> "eni-1"]}]))
Database(id, class, encrypted) ==
  Over([state |-> "available"],
    Resource("rds", id, [class |-> class, multiAZ |-> FALSE, encrypted |-> encrypted, vpc |-> "vpc-1",
                         subnets |-> {"sn-1", "sn-2"}, groups |-> {"sg-1"}, key |-> "key-1"]))
Group(healthy) ==
  {[arn |-> "tg-1", type |-> "instance", targets |-> {[id |-> "i-1", healthy |-> healthy]}]}
Balancer(state, targetGroups, tags) ==
  Over([state |-> state, tags |-> tags],
    Resource("alb", "alb-1", [type |-> "network", vpc |-> "vpc-1", groups |-> {"sg-1"},
                              subnets |-> {"sn-1"}, targetGroups |-> targetGroups]))
SecurityGroup(name, ingress) ==
  Resource("security_group", "sg-1", [name |-> name, vpc |-> "vpc-1", ingress |-> ingress])
Rule(protocol, from, to, world) == [protocol |-> protocol, from |-> from, to |-> to, world |-> world]
Key(state, manager, tags) ==
  Over([state |-> state, tags |-> tags], Resource("kms_key", "key-1", [manager |-> manager]))
Function(memory, modified) ==
  Resource("lambda", "fn-1", [memory |-> memory, modified |-> modified, role |-> "role-1", vpc |-> "vpc-1",
                              subnets |-> {"sn-1"}, groups |-> {"sg-1"}, layers |-> {"layer-1"}, key |-> "key-1"])
Bucket(id, region, key) ==
  Over([region |-> region],
    Resource("s3", id, [created |-> -60, algorithm |-> "aws:kms", key |-> key, public |-> TRUE]))
Secret(created, accessed) ==
  Resource("secret", "secret-1", [created |-> created, accessed |-> accessed, key |-> "key-1"])
LogGroup(created, bytes, retention) ==
  Resource("cloudwatch_logs", "log-1", [created |-> created, bytes |-> bytes, retention |-> retention,
                                        key |-> "key-1"])
Alarm(tags) ==
  Over([tags |-> tags],
    Resource("cloudwatch_alarm", "alarm-1",
      [dimensions |-> {[name |-> "InstanceId", value |-> "i-1"], [name |-> "ClusterName", value |-> "c-1"]}]))
User(mfa, console) == Resource("iam_user", "user-1", [mfa |-> mfa, console |-> console])
Role(path, name, created, used) ==
  Resource("iam_role", "role-1", [path |-> path, name |-> name, created |-> created, used |-> used])
AccessKey(state, created, used) ==
  Over([state |-> state], Resource("iam_access_key", "ak-1", [created |-> created, used |-> used]))
-----------------------------------------------------------------------------
\* Each kind under a name of its own, with what may become of it.
Kinds ==
  "volume" :> {Volume("available", {}, -3, TRUE, 24), Volume("available", {}, -4, FALSE, 25),
               Volume("in-use", {"i-1"}, -4, TRUE, 24)}
  @@ "address" :> {Resource("eip", "eip-1", [associated |-> i]) : i \in {None, "i-1"}}
  @@ "snapshot" :> {Over([state |-> "available"],
                      Resource("rds_snapshot", "snap-1", [size |-> 10, manual |-> m, created |-> -1])) :
                    m \in BOOLEAN}
  @@ "interface" :> {Interface(None, None, FALSE), Interface("i-1", None, FALSE),
                  Interface(None, "amazon-elb", FALSE), Interface(None, None, TRUE)}
  @@ "gateway" :> {Gateway("available", -3), Gateway("available", None), Gateway("deleted", -4)}
  @@ "balancer" :> {Balancer("active", {}, Blank), Balancer("active", Group(TRUE), Tagged),
                    Balancer("active", Group(FALSE), Tagged), Balancer("provisioning", {}, Tagged)}
  @@ "group" :> {SecurityGroup("default", {Rule("tcp", 0, 65535, TRUE)}),
                 SecurityGroup("web", {Rule("tcp", 22, 22, TRUE), Rule("tcp", 443, 443, TRUE)}),
                 SecurityGroup("web", {Rule("-1", 0, 0, TRUE), Rule("tcp", 0, 65535, FALSE)}),
                 SecurityGroup("web", {})}
  @@ "key" :> {Key("Enabled", "CUSTOMER", Tagged), Key("Disabled", "CUSTOMER", Tagged),
               Key("Enabled", "AWS", Tagged)}
  @@ "instance" :> {Instance("running", "m4"), Instance("running", "m6i"), Instance("stopped", "m6i")}
  @@ "database" :> {Database("main", "db.r5.24xlarge", TRUE), Database("main", "db.m4.large", FALSE),
                    Over([region |-> "us"], Database("main", "db.r6g.16xlarge", TRUE))}
  @@ "function" :> {Function(1024, -60), Function(1025, 0), Function(1025, -59)}
  @@ "bucket" :> {Bucket("bucket-1", "eu", "key-1"), Bucket("bucket-1", "us", None)}
  @@ "secret" :> {Secret(-60, None), Secret(-100, -59), Secret(-100, -60)}
  @@ "logs" :> {LogGroup(0, 100, 14), LogGroup(1, 1023, None), LogGroup(-1, 1024, None), LogGroup(0, 99, None)}
  @@ "alarm" :> {Alarm(Tagged), Alarm({})}
  @@ "user" :> {User(m, c) : m, c \in BOOLEAN}
  @@ "role" :> {Role("/", "app", -60, None), Role("/", "app", -100, -59), Role("/", "AWS", -60, None),
                Role("/service-role/", "app", -60, None)}
  @@ "accessKey" :> {AccessKey("Active", -3, None), AccessKey("Inactive", -60, None),
                     AccessKey("Active", -60, -59), AccessKey("Active", -60, -60)}
  @@ "certificate" :> {Resource("acm", "cert-1", [expires |-> d]) : d \in {11, 37, 90}}

Alone == UNION {{n :> f : f \in Kinds[n]} : n \in DOMAIN Kinds}

\* A group or a key together with a resource that uses it, and a database and
\* a bucket of one name: each may go, but does not change.
Group1 == "sharedGroup" :> SecurityGroup("web", {})
Key1 == "sharedKey" :> Key("Enabled", "CUSTOMER", Tagged)
Namesake == "database1" :> Database("main", "db.m6", TRUE)
Users ==
  "instance1" :> Instance("running", "m6i") @@ "interface1" :> Interface("i-1", None, FALSE)
  @@ "balancer1" :> Balancer("active", Group(TRUE), Tagged) @@ "function1" :> Function(1024, 0)
KeyUsers ==
  Namesake @@ "bucket1" :> Bucket("bucket-1", "eu", "key-1") @@ "secret1" :> Secret(0, None)

Together ==
  {Group1 @@ (n :> Users[n]) : n \in DOMAIN Users}
  \cup {Key1 @@ (n :> KeyUsers[n]) : n \in DOMAIN KeyUsers}
  \cup {Namesake @@ "namesake1" :> Bucket("main", "eu", None)}

MCClouds == Alone \cup Together
MCFacts ==
  Kinds @@ [n \in UNION {DOMAIN c : c \in Together} |-> {c[n] : c \in {c \in Together : n \in DOMAIN c}}]
=============================================================================
