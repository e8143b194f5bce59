--------------------------- MODULE NetworkLayout ---------------------------
(***************************************************************************)
(* The network view of the infrastructure map                              *)
(* (apps/app/src/lib/graphUtils.ts): which VPC and subnet every resource   *)
(* belongs to, and the nested boxes it is drawn in.  A position is relative*)
(* to the parent's top left corner.                                        *)
(***************************************************************************)
EXTENDS InfrastructureGraph

VpcPadding == 40
VpcHeader == 50
VpcGap == 60
SubnetPadding == 20
SubnetHeader == 40
SubnetGap == 30
ResourceWidth == 180
ResourceHeight == 80
ResourceGap == 20
MultiSubnetHeight == 120
GlobalMinWidth == 400
CollapsedWidth == 300

(* The services whose raw data name a VPC; the others are global.          *)
InVpc(r) == r.vpc # 0 /\ r.service \in {"ec2", "rds", "alb", "security_group", "lambda"}

(* The subnets read from a resource's raw data; an instance has only one.  *)
SubnetsOf(r) == IF r.service \in {"ec2", "alb", "lambda"} THEN r.subnets ELSE << >>

(* Resources of several subnets, or of none, belong to the VPC itself.     *)
ExtractTopology(resources) ==
  LET inside(v) == SelectSeq(resources, LAMBDA r : InVpc(r) /\ r.vpc = v)
      idsOf(rs) == [i \in DOMAIN rs |-> rs[i].id]
      vpc(v) == LET named(r) == Range(SubnetsOf(r))
                IN [multi |-> idsOf(SelectSeq(inside(v), LAMBDA r : Len(SubnetsOf(r)) # 1)),
                    subnets |->
                      [s \in UNION {named(inside(v)[i]) : i \in DOMAIN inside(v)} |->
                         idsOf(SelectSeq(inside(v), LAMBDA r : SubnetsOf(r) = <<s>>))]]
  IN [vpcs |-> [v \in {r.vpc : r \in {x \in Range(resources) : InVpc(x)}} |-> vpc(v)],
      global |-> idsOf(SelectSeq(resources, LAMBDA r : ~InVpc(r)))]

---------------------------------------------------------------------------
(* Boxes.                                                                  *)

(* A mutated GridDimensions: an unfinished last row is not counted.        *)
GridDimensionsFullRows(count, maxCols) ==
  LET cols == Min({count, maxCols})
  IN IF count = 0 THEN [cols |-> 0, width |-> 0, height |-> 0]
     ELSE [cols |-> cols,
           width |-> cols * (ResourceWidth + ResourceGap) - ResourceGap,
           height |-> (count \div cols) * (ResourceHeight + ResourceGap) - ResourceGap]

GridDimensions(count, maxCols) ==
  LET cols == Min({count, maxCols})
      rows == CeilDiv(count, cols)
  IN IF count = 0 THEN [cols |-> 0, width |-> 0, height |-> 0]
     ELSE [cols |-> cols,
           width |-> cols * (ResourceWidth + ResourceGap) - ResourceGap,
           height |-> rows * (ResourceHeight + ResourceGap) - ResourceGap]

NoParent == <<"none">>
VpcId(v) == <<"vpc", v>>
SubnetId(s) == <<"subnet", s>>
ResourceId(r) == <<"resource", r>>
GlobalId == <<"global">>

Box(id, parent, x, y, width, height) ==
  [id |-> id, parent |-> parent, x |-> x, y |-> y, width |-> width, height |-> height]

(* The resources of a box in a grid whose first cell is at x, y.  A filter *)
(* leaves the cell of a resource it hides empty.                           *)
PlaceResources(ids, shown, parent, maxCols, x, y) ==
  LET cols == GridDimensions(Len(ids), maxCols).cols
      cell(i) == Box(ResourceId(ids[i]), parent,
                     x + Column(i, cols) * (ResourceWidth + ResourceGap),
                     y + RowOf(i, cols) * (ResourceHeight + ResourceGap),
                     ResourceWidth, ResourceHeight)
  IN SelectSeq([i \in DOMAIN ids |-> cell(i)],
               LAMBDA b : \E r \in shown : b.id = ResourceId(r))

MaxSubnetsPerRow == 3

SubnetSize(ids, isCollapsed) ==
  LET grid == GridDimensions(Len(ids), 3)
  IN IF isCollapsed \/ ids = << >>
     THEN [width |-> 200, height |-> SubnetHeader + 20]
     ELSE [width |-> Max({200, grid.width + SubnetPadding * 2}),
           height |-> SubnetHeader + SubnetPadding + grid.height + SubnetPadding]

(* The next subnet goes to the right of the last, or starts a row.         *)
PlaceSubnet(s, subnet) ==
  LET wraps == s.inRow >= MaxSubnetsPerRow
      x == IF wraps THEN VpcPadding ELSE s.x
      y == IF wraps THEN s.y + s.rowHeight + SubnetGap ELSE s.y
      rowHeight == IF wraps THEN 0 ELSE s.rowHeight
  IN [x |-> x + subnet.width + SubnetGap, y |-> y,
      rowHeight |-> Max({rowHeight, subnet.height}),
      rowWidth |-> Max({s.rowWidth, x + subnet.width}),
      inRow |-> (IF wraps THEN 0 ELSE s.inRow) + 1,
      boxes |-> Append(s.boxes, [subnet |-> subnet.id, x |-> x, y |-> y,
                                 width |-> subnet.width, height |-> subnet.height])]

(* The subnets of a VPC in rows, from y downwards.                         *)
SubnetRows(vpc, collapsedSubnets, y) ==
  LET size(s) == SubnetSize(vpc.subnets[s], s \in collapsedSubnets)
      place(rows, s) == PlaceSubnet(rows, [id |-> s, width |-> size(s).width,
                                           height |-> size(s).height])
  IN FoldLeft(place, [x |-> VpcPadding, y |-> y, rowHeight |-> 0, rowWidth |-> 0,
                      inRow |-> 0, boxes |-> << >>],
              InOrder(DOMAIN vpc.subnets, Smaller))

(* A placed subnet and, unless it is collapsed, what lies in it.           *)
OpenSubnet(b, v, ids, shown, isCollapsed) ==
  <<Box(SubnetId(b.subnet), VpcId(v), b.x, b.y, b.width, b.height)>>
    \o (IF isCollapsed THEN << >>
        ELSE PlaceResources(ids, shown, SubnetId(b.subnet), 3,
                            SubnetPadding, SubnetHeader + SubnetPadding))

(* The size of a VPC around its rows, and the boxes inside, parents first. *)
AroundRows(v, vpc, shown, collapsed, rows, multi, multiHeight) ==
  LET opened(b) == OpenSubnet(b, v, vpc.subnets[b.subnet], shown,
                              b.subnet \in collapsed.subnets)
  IN [width |-> Max({400, rows.rowWidth + VpcPadding,
                     IF vpc.multi = << >> THEN 0 ELSE multi.width + VpcPadding * 2}),
      height |-> rows.y + rows.rowHeight + VpcPadding + multiHeight,
      inside |-> PlaceResources(vpc.multi, shown, VpcId(v), 6, VpcPadding, VpcHeader + 30)
                 \o FlattenSeq([i \in DOMAIN rows.boxes |-> opened(rows.boxes[i])])]

(* An expanded VPC: multi-subnet resources on top, the subnets below.      *)
ExpandVpc(v, vpc, shown, collapsed) ==
  LET multi == GridDimensions(Len(vpc.multi), 6)
      multiHeight == IF vpc.multi = << >> THEN 0 ELSE MultiSubnetHeight + multi.height
      startY == VpcHeader + VpcPadding
  IN AroundRows(v, vpc, shown, collapsed,
                SubnetRows(vpc, collapsed.subnets, startY + multiHeight),
                multi, multiHeight)

Population(vpc) ==
  Len(vpc.multi) + FoldSet(LAMBDA s, n : n + Len(vpc.subnets[s]), 0, DOMAIN vpc.subnets)

(* The largest VPC first.                                                  *)
VpcOrder(vpcs) ==
  InOrder(DOMAIN vpcs, LAMBDA v, w :
    \/ Population(vpcs[v]) > Population(vpcs[w])
    \/ Population(vpcs[v]) = Population(vpcs[w]) /\ v < w)

VpcSize(v, vpc, shown, collapsed) ==
  IF v \in collapsed.vpcs
  THEN [width |-> CollapsedWidth, height |-> VpcHeader + 20, inside |-> << >>]
  ELSE ExpandVpc(v, vpc, shown, collapsed)

PlaceVpc(s, v, size) ==
  [x |-> s.x + size.width + VpcGap, height |-> Max({s.height, size.height}),
   boxes |-> s.boxes \o <<Box(VpcId(v), NoParent, s.x, 0, size.width, size.height)>>
                     \o size.inside]

(* The box of the resources outside any VPC.                               *)
GlobalBox(ids, shown, isCollapsed, y) ==
  LET grid == GridDimensions(Len(ids), 6)
  IN IF isCollapsed
     THEN <<Box(GlobalId, NoParent, 0, y, CollapsedWidth, VpcHeader + 20)>>
     ELSE <<Box(GlobalId, NoParent, 0, y,
                Max({GlobalMinWidth, grid.width + VpcPadding * 2}),
                VpcHeader + VpcPadding + grid.height + VpcPadding)>>
          \o PlaceResources(ids, shown, GlobalId, 6, VpcPadding, VpcHeader + VpcPadding)

BelowVpcs(all, topology, shown, collapsed, showGlobal) ==
  all.boxes \o (IF showGlobal /\ topology.global # << >>
                THEN GlobalBox(topology.global, shown, collapsed.global,
                               all.height + VpcGap)
                ELSE << >>)

(* The VPCs side by side, and what lies under them.                        *)
ApplyNetworkLayout(graph, topology, collapsed, showGlobal) ==
  LET shown == Ids(graph.nodes)
      beside(s, v) == PlaceVpc(s, v, VpcSize(v, topology.vpcs[v], shown, collapsed))
  IN BelowVpcs(FoldLeft(beside, [x |-> 0, height |-> 0, boxes |-> << >>],
                        VpcOrder(topology.vpcs)),
               topology, shown, collapsed, showGlobal)
=============================================================================
