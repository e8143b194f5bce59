------------------------ MODULE InfrastructureGraph ------------------------
(***************************************************************************)
(* The graph behind the infrastructure map and its four layouts            *)
(* (apps/app/src/lib/graphUtils.ts): nodes and edges from the resources of *)
(* an account, filters, statistics, clusters by union-find, and where each *)
(* layout puts a node.                                                     *)
(*                                                                         *)
(* A resource is a record: its id (a number, the AWS resource id), service,*)
(* region ("" if it has none), number of open findings, what its raw data  *)
(* point at (groups, instances, databases, keys: sets of ids), and its VPC *)
(* (0 if none) and subnets (a sequence).  Where the code leaves a tie to   *)
(* the order of a Map or a stable sort, the smaller id comes first.        *)
(* Positions are those of a node's top left corner, in pixels.             *)
(***************************************************************************)
EXTENDS Integers, Sequences, FiniteSets, SequencesExt

NodeWidth == 220
NodeHeight == 120

CeilDiv(a, b) == (a + b - 1) \div b
CeilSqrt(n) == Min({k \in 0..n : k * k >= n})

(* The elements of S, each Before the next; Before is a strict order.      *)
InOrder(S, Before(_, _)) ==
  [i \in 1..Cardinality(S) |->
     CHOOSE x \in S : Cardinality({y \in S : Before(y, x)}) = i - 1]

Smaller(a, b) == a < b

---------------------------------------------------------------------------
(* Nodes and edges.                                                        *)

Ids(nodes) == {nodes[i].id : i \in DOMAIN nodes}
OfService(resources, service) ==
  SelectSeq(resources, LAMBDA r : r.service = service)

(* Findings arrive in a query of their own; without them every count is 0. *)
CreateNodes(resources, haveFindings) ==
  [i \in DOMAIN resources |->
     [id |-> resources[i].id, service |-> resources[i].service,
      region |-> resources[i].region,
      findings |-> IF haveFindings THEN resources[i].findings ELSE 0]]

CreateEdges(source, targets, type) ==
  {[source |-> source, target |-> t, type |-> type] : t \in targets}

(* What one resource's raw data yield: the extractor of its service.       *)
ExtractRelationships(r, resources) ==
  LET known == Ids(resources)
      keys == Ids(OfService(resources, "kms_key"))
      databases == Ids(OfService(resources, "rds"))
  IN CASE r.service \in {"ec2", "rds", "alb"} ->
            CreateEdges(r.id, r.groups \cap known, "security_group")
       [] r.service = "security_group" ->
            CreateEdges(r.id, (r.groups \cap known) \ {r.id}, "security_group")
       [] r.service \in {"ebs", "eip"} ->
            CreateEdges(r.id, r.instances \cap known, "attachment")
       [] r.service = "rds_snapshot" ->
            CreateEdges(r.id, r.databases \cap databases, "dependency")
              \cup CreateEdges(r.id, r.keys \cap known, "kms")
       [] r.service \in {"secret", "cloudwatch_logs"} ->
            CreateEdges(r.id, r.keys \cap keys, "kms")
       [] OTHER -> {}

(* The stored dependencies, if there are any; both ends must be shown.     *)
EdgesFromDependencies(dependencies, resources) ==
  {d \in dependencies : {d.source, d.target} \subseteq Ids(resources)}

BuildGraph(resources, haveFindings, dependencies) ==
  [nodes |-> CreateNodes(resources, haveFindings),
   edges |-> IF dependencies # {}
             THEN EdgesFromDependencies(dependencies, resources)
             ELSE UNION {ExtractRelationships(resources[i], resources) :
                           i \in DOMAIN resources}]

Connected(edges) == {e.source : e \in edges} \cup {e.target : e \in edges}

(* A mutated FilterGraph: an edge needs only its source.                   *)
FilterGraphBySource(graph, f) ==
  LET kept == SelectSeq(graph.nodes, LAMBDA n :
                /\ f.services = {} \/ n.service \in f.services
                /\ f.regions = {} \/ n.region \in f.regions
                /\ n.findings >= f.minFindingsCount)
      edges == {e \in graph.edges : e.source \in Ids(kept)}
  IN [nodes |-> IF f.showOrphans THEN kept
                ELSE SelectSeq(kept, LAMBDA n : n.id \in Connected(edges)),
      edges |-> edges]

(* Filters: an empty set of services, regions or types restricts nothing.  *)
FilterGraph(graph, f) ==
  LET kept == SelectSeq(graph.nodes, LAMBDA n :
                /\ f.services = {} \/ n.service \in f.services
                /\ f.regions = {} \/ n.region \in f.regions
                /\ n.findings >= f.minFindingsCount)
      edges == {e \in graph.edges :
                  /\ {e.source, e.target} \subseteq Ids(kept)
                  /\ f.relationshipTypes = {} \/ e.type \in f.relationshipTypes}
  IN [nodes |-> IF f.showOrphans THEN kept
                ELSE SelectSeq(kept, LAMBDA n : n.id \in Connected(edges)),
      edges |-> edges]

CalculateStats(graph) ==
  LET n == Len(graph.nodes)
  IN [totalNodes |-> n, totalEdges |-> Cardinality(graph.edges),
      nodesByService |->
        [s \in {graph.nodes[i].service : i \in 1..n} |->
           Len(OfService(graph.nodes, s))],
      orphanNodes |-> n - Cardinality(Connected(graph.edges))]

---------------------------------------------------------------------------
(* Clusters.  Path compression changes no root and is left out.            *)

NewUnionFind(ids) ==
  [parent |-> [n \in ids |-> n], rank |-> [n \in ids |-> 0]]

Find(uf, x) ==
  LET root[n \in DOMAIN uf.parent] ==
        IF uf.parent[n] = n THEN n ELSE root[uf.parent[n]]
  IN root[x]

(* A mutated Union: hangs b itself, not its root, under the other root.    *)
UnionOfNodes(uf, a, b) == [uf EXCEPT !.parent[b] = Find(uf, a)]

Union(uf, a, b) ==
  LET x == Find(uf, a)
      y == Find(uf, b)
  IN CASE x = y -> uf
       [] x # y /\ uf.rank[x] < uf.rank[y] -> [uf EXCEPT !.parent[x] = y]
       [] x # y /\ uf.rank[x] > uf.rank[y] -> [uf EXCEPT !.parent[y] = x]
       [] x # y /\ uf.rank[x] = uf.rank[y] ->
            [uf EXCEPT !.parent[y] = x, !.rank[x] = @ + 1]

(* The edges are an array, here in the order that is given.                *)
FindClusters(nodes, edges) ==
  LET ids == Ids(nodes)
      uf == FoldLeft(LAMBDA u, e : Union(u, e.source, e.target), NewUnionFind(ids), edges)
  IN {{n \in ids : Find(uf, n) = r} : r \in {Find(uf, n) : n \in ids}}

Neighbours(edges, n) ==
  {e.target : e \in {d \in edges : d.source = n}}
    \cup {e.source : e \in {d \in edges : d.target = n}}

MoreConnected(edges, a, b) ==
  LET da == Cardinality(Neighbours(edges, a))
      db == Cardinality(Neighbours(edges, b))
  IN da > db \/ (da = db /\ a < b)

(* Breadth first from start within a set of ids: the queue with what has   *)
(* left it still in front, after its first n entries have been expanded.   *)
BreadthFirst(start, within, edges) ==
  LET queue[n \in 0..Cardinality(within)] ==
        IF n = 0 THEN <<start>>
        ELSE LET q == queue[n - 1]
             IN IF n > Len(q) THEN q
                ELSE q \o InOrder((Neighbours(edges, q[n]) \cap within) \ Range(q),
                                  LAMBDA a, b : MoreConnected(edges, a, b))
  IN queue[Cardinality(within)]

(* The clusters of the grid layout: by search, hubs first.                 *)
SearchClusters(graph) ==
  LET ids == Ids(graph.nodes)
      grow(found) ==
        LET left == ids \ UNION found
            hub == CHOOSE h \in left : \A m \in left \ {h} :
                     MoreConnected(graph.edges, h, m)
        IN IF left = {} THEN found
           ELSE found \cup {Range(BreadthFirst(hub, ids, graph.edges))}
      search[n \in 0..Len(graph.nodes)] == IF n = 0 THEN {} ELSE grow(search[n - 1])
  IN search[Len(graph.nodes)]

(* A cluster from its most connected node outwards.                        *)
OrderCluster(cluster, edges) ==
  LET inside == {e \in edges : {e.source, e.target} \subseteq cluster}
      start == CHOOSE h \in cluster : \A m \in cluster \ {h} :
                 MoreConnected(inside, h, m)
      found == BreadthFirst(start, cluster, edges)
  IN found \o InOrder(cluster \ Range(found), Smaller)

LargestFirst(clusters) ==
  InOrder(clusters, LAMBDA c, d :
    \/ Cardinality(c) > Cardinality(d)
    \/ Cardinality(c) = Cardinality(d) /\ Min(c) < Min(d))

---------------------------------------------------------------------------
(* Layouts: each yields the sequence of placed nodes [id, x, y].           *)

At(id, x, y) == [id |-> id, x |-> x, y |-> y]

(* The i-th of a block of nodes in rows of cols.                           *)
Column(i, cols) == (i - 1) % cols
RowOf(i, cols) == (i - 1) \div cols
Block(ids, cols, x, y) ==
  [i \in DOMAIN ids |-> At(ids[i], x + Column(i, cols) * NodeWidth,
                                   y + RowOf(i, cols) * NodeHeight)]

MaxWidth == 1800
GridGap == 80

(* A mutated PlaceInRows: a new row starts only the gap below the last.    *)
PlaceInRowsTooClose(s, ids) ==
  LET cols == Min({CeilSqrt(Len(ids)), 5})
      width == cols * NodeWidth
      at == IF s.x > 0 /\ s.x + width > MaxWidth
            THEN [s EXCEPT !.x = 0, !.y = s.y + GridGap]
            ELSE s
  IN [x |-> at.x + width + GridGap, y |-> at.y, rowHeight |-> 0,
      placed |-> at.placed \o Block(ids, cols, at.x, at.y)]

(* The next cluster goes to the right of the last, or starts a row.        *)
PlaceInRows(s, ids) ==
  LET cols == Min({CeilSqrt(Len(ids)), 5})
      width == cols * NodeWidth
      height == CeilDiv(Len(ids), cols) * NodeHeight
      at == IF s.x > 0 /\ s.x + width > MaxWidth
            THEN [s EXCEPT !.x = 0, !.y = s.y + s.rowHeight + GridGap,
                           !.rowHeight = 0]
            ELSE s
  IN [x |-> at.x + width + GridGap, y |-> at.y,
      rowHeight |-> Max({at.rowHeight, height}),
      placed |-> at.placed \o Block(ids, cols, at.x, at.y)]

GridLayout(graph) ==
  LET clusters == LargestFirst(SearchClusters(graph))
      ordered == [i \in DOMAIN clusters |-> OrderCluster(clusters[i], graph.edges)]
  IN FoldLeft(PlaceInRows, [x |-> 0, y |-> 0, rowHeight |-> 0, placed |-> << >>],
              ordered).placed

ClusterGap == 100
OrphanGap == 300

PlaceBeside(s, ids) ==
  LET cols == Min({4, CeilSqrt(Len(ids))})
  IN [x |-> s.x + cols * NodeWidth + ClusterGap,
      placed |-> s.placed \o Block(ids, cols, s.x, 0)]

ClusteredLayout(graph) ==
  LET clusters == FindClusters(graph.nodes, SetToSeq(graph.edges))
      orphans == UNION {c \in clusters : Cardinality(c) = 1}
      real == LargestFirst({c \in clusters : Cardinality(c) > 1})
      ordered == [i \in DOMAIN real |-> OrderCluster(real[i], graph.edges)]
      left == FoldLeft(PlaceBeside, [x |-> 0, placed |-> << >>], ordered)
  IN left.placed \o Block(InOrder(orphans, Smaller), 3, left.x + OrphanGap, 0)

(* The services in the order of their names.                               *)
Services == <<"acm", "alb", "cloudwatch_alarm", "cloudwatch_logs", "ebs", "ec2",
  "eip", "eni", "iam_access_key", "iam_policy", "iam_role", "iam_user", "kms_key",
  "lambda", "nat_gateway", "rds", "rds_snapshot", "s3", "secret", "security_group">>

RowGap == 60

(* One row per service that has such nodes, from y downwards.              *)
ServiceRows(nodes, y) ==
  LET has(s) == OfService(nodes, s) # << >>
      rows == SelectSeq(Services, has)
      row(k) == LET ns == OfService(nodes, rows[k])
                IN [i \in DOMAIN ns |->
                      At(ns[i].id, (i - 1) * NodeWidth,
                         y + (k - 1) * (NodeHeight + RowGap))]
  IN [rows |-> Len(rows), placed |-> FlattenSeq([k \in DOMAIN rows |-> row(k)])]

ServiceGroupedLayout(graph) ==
  LET linked(n) == n.id \in Connected(graph.edges)
      orphan(n) == ~linked(n)
      above == ServiceRows(SelectSeq(graph.nodes, linked), 0)
      y == above.rows * (NodeHeight + RowGap) + 150
  IN above.placed \o ServiceRows(SelectSeq(graph.nodes, orphan), y).placed

CenterX == 400
CenterY == 200
Margin == 150

(* Connected nodes in the centre; orphans above, below, left and right.    *)
ConnectionsFirstLayout(graph) ==
  LET linked(n) == n.id \in Connected(graph.edges)
      orphan(n) == ~linked(n)
      center == SelectSeq(graph.nodes, linked)
      orphans == SelectSeq(graph.nodes, orphan)
      cols == Max({4, CeilSqrt(Len(center))})
      width == cols * NodeWidth
      height == CeilDiv(Len(center), cols) * NodeHeight
      total == Len(orphans)
      top == CeilDiv(3 * total, 10)
      bottom == Min({top, total - top})
      rest == total - top - bottom
      left == CeilDiv(rest, 2)
      right == rest - left
      across(i, count) == CenterX + ((i - 1) * width) \div Max({1, count - 1})
      down(i, count) == CenterY + ((i - 1) * height) \div Max({1, count})
      around(i) ==
        CASE i <= top -> At(orphans[i].id, across(i, top), CenterY - NodeHeight - Margin)
          [] i > top /\ i <= top + bottom ->
               At(orphans[i].id, across(i - top, bottom), CenterY + height + Margin)
          [] i > top + bottom /\ i <= top + bottom + left ->
               At(orphans[i].id, CenterX - NodeWidth - Margin, down(i - top - bottom, left))
          [] i > top + bottom + left ->
               At(orphans[i].id, CenterX + width + Margin,
                  down(i - top - bottom - left, right))
  IN Block([i \in DOMAIN center |-> center[i].id], cols, CenterX, CenterY)
       \o [i \in DOMAIN orphans |-> around(i)]

Presets == {"grid", "clustered", "service-grouped", "connections-first"}

ApplyLayout(graph, preset) ==
  CASE preset = "clustered" -> ClusteredLayout(graph)
    [] preset = "service-grouped" -> ServiceGroupedLayout(graph)
    [] preset = "connections-first" -> ConnectionsFirstLayout(graph)
    [] preset = "grid" -> GridLayout(graph)
=============================================================================
