-------------------------- MODULE MCWebApplication --------------------------
(* Instances of WebApplication for TLC.  The page of findings: a table of   *)
(* three findings, and several combinations of what may happen to it.  The  *)
(* map: an account with instances, volumes and groups in two VPCs, the same *)
(* after a scan that found more subnets and fewer links, and a second       *)
(* account with two resources.                                              *)
EXTENDS WebApplication, TLC

CONSTANTS a, b

MCTypeOf == <<"unused_security_group", "orphaned_eni", "missing_tag">>
MCTypeOrder == <<"missing_tag", "orphaned_eni", "unused_security_group">>
MCSeverityOf == <<"low", "low", "trivial">>
MCAccountOf == <<a, a, b>>
MCSavings == <<0, 5, 0>>

(* Nothing yet, and an ignored finding that hides a resolved and a new one.*)
MCStarts ==
  {[f \in Findings |-> None],
   [f \in Findings |-> Row(<<"resolved", "ignored", "open">>[f], 1)]}

(* The default, and an organisation that hides a type.                     *)
MCOrgSettings ==
  {[hiddenFindingTypes |-> {}, hideTrivial |-> FALSE, requiredTags |-> FALSE],
   [hiddenFindingTypes |-> {"orphaned_eni"}, hideTrivial |-> FALSE, requiredTags |-> TRUE]}

(* Filters and the table under writes; the dialog and its updates; scans.  *)
Limit(n) == [k \in Kinds |-> IF k \in DOMAIN n THEN n[k] ELSE 0]
MCLimits ==
  {Limit([click |-> 1, write |-> 1]), Limit([click |-> 2]),
   Limit([turn |-> 2, write |-> 1, poll |-> 2]),
   Limit([turn |-> 1, click |-> 1, poll |-> 1]),
   Limit([dialog |-> 1, update |-> 1, write |-> 1, poll |-> 2]),
   Limit([dialog |-> 1, update |-> 1, click |-> 1, poll |-> 1]),
   Limit([dialog |-> 1, update |-> 1, write |-> 1, fault |-> 1]),
   Limit([scan |-> 1, write |-> 1, poll |-> 1])}

---------------------------------------------------------------------------
(* The map.                                                                *)

Plain(id, service) ==
  [id |-> id, service |-> service, region |-> "r", findings |-> 0, groups |-> {},
   instances |-> {}, databases |-> {}, keys |-> {}, vpc |-> 0, subnets |-> << >>]
InVpcOf(r, vpc, subnets) == [r EXCEPT !.vpc = vpc, !.subnets = subnets]

LinkedUp ==
  <<InVpcOf([Plain(1, "ec2") EXCEPT !.groups = {2}, !.findings = 1], 1, <<1>>),
    InVpcOf([Plain(2, "security_group") EXCEPT !.groups = {2, 3}], 1, << >>),
    InVpcOf(Plain(3, "security_group"), 1, << >>),
    [Plain(4, "ebs") EXCEPT !.instances = {1}],
    InVpcOf([Plain(5, "ec2") EXCEPT !.groups = {6}], 2, <<2>>),
    InVpcOf(Plain(6, "security_group"), 2, << >>),
    [Plain(7, "secret") EXCEPT !.keys = {8}, !.region = ""],
    [Plain(8, "kms_key") EXCEPT !.findings = 2],
    InVpcOf(Plain(9, "alb"), 1, <<1, 3>>)>>

Spread ==
  <<InVpcOf(Plain(1, "ec2"), 1, <<1>>), InVpcOf(Plain(2, "ec2"), 1, <<1>>),
    InVpcOf(Plain(3, "ec2"), 1, <<1>>), InVpcOf(Plain(4, "ec2"), 1, <<1>>),
    InVpcOf(Plain(5, "lambda"), 1, <<2>>), InVpcOf(Plain(6, "lambda"), 1, <<3>>),
    InVpcOf(Plain(7, "ec2"), 1, <<4>>), InVpcOf(Plain(8, "alb"), 1, <<1, 5>>),
    InVpcOf(Plain(9, "rds"), 1, << >>), Plain(10, "s3")>>

Small == <<Plain(21, "ec2"), [Plain(22, "eip") EXCEPT !.instances = {21}]>>

MCEstates == [x \in MapAccounts |-> IF x = a THEN {LinkedUp, Spread} ELSE {Small}]
MCDependencies == {[source |-> 1, target |-> 9, type |-> "owns"],
                   [source |-> 9, target |-> 5, type |-> "targets"],
                   [source |-> 3, target |-> 9, type |-> "uses_sg"],
                   [source |-> 3, target |-> 30, type |-> "uses_sg"],
                   [source |-> 21, target |-> 22, type |-> "uses_sg"]}
MCStored == {DefaultPrefs, [DefaultPrefs EXCEPT !.view = "network"]}
Unfiltered ==
  [services |-> {}, regions |-> {}, relationshipTypes |-> {},
   showOrphans |-> TRUE, minFindingsCount |-> 0]
MCFilters == {Unfiltered, [Unfiltered EXCEPT !.showOrphans = FALSE],
              [Unfiltered EXCEPT !.minFindingsCount = 1],
              [Unfiltered EXCEPT !.services = {"ec2", "security_group"}, !.regions = {"r"}]}
=============================================================================
