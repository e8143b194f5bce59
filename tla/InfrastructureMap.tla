------------------------- MODULE InfrastructureMap -------------------------
(***************************************************************************)
(* The page of an account's infrastructure map                             *)
(* (apps/app/src/pages/AccountInfrastructureMap.tsx): queries whose answers*)
(* arrive one by one, scans that change the resources behind them, the     *)
(* user's filters, layout, collapsed boxes and dragged nodes, what of it is*)
(* stored per account, and the picture that follows from all of them.      *)
(* Opening the page mounts the component; choosing another account in the  *)
(* switcher only changes its URL parameter.                                *)
(***************************************************************************)
EXTENDS NetworkLayout

CONSTANTS MapAccounts,
          Estates,        \* Estates[a]: the sequences of resources a may have
          Dependencies,   \* the stored dependencies of the organisation
          Filters,        \* the filters a user may set, none among them
          NoFilter,
          StoredBefore,   \* what earlier visits may have left in localStorage
          PageSize,       \* resources per answer of the API
          MaxSteps        \* bound: user actions, scans and refetches

ASSUME MapAssumption ==
  /\ NoFilter \in Filters
  /\ PageSize \in Nat \ {0} /\ MaxSteps \in Nat

VARIABLES accountId,   \* the account in the URL
          mapFilters,  \* MapFilters
          prefs,       \* layout, view, collapsed boxes, dragged nodes
          stored,      \* prefs in localStorage, per account
          estate,      \* the resources of every account, in the database
          data,        \* the fetched ones, per account; << >> before
          arrived,     \* which of the other two queries have been answered
          steps

mapVars == <<accountId, mapFilters, prefs, stored, estate, data, arrived, steps>>
mapQueries == <<estate, data, arrived>>

DefaultPrefs ==
  [preset |-> "grid", view |-> "graph", showGlobal |-> TRUE, dragged |-> {},
   collapsed |-> [vpcs |-> {}, subnets |-> {}, global |-> FALSE]]

MapInit ==
  /\ accountId \in MapAccounts
  /\ mapFilters = NoFilter
  /\ prefs \in StoredBefore
  /\ stored = [a \in MapAccounts |-> prefs]
  /\ estate \in {e \in [MapAccounts -> UNION {Estates[a] : a \in MapAccounts}] :
                   \A a \in MapAccounts : e[a] \in Estates[a]}
  /\ data = [a \in MapAccounts |-> << >>]
  /\ arrived = {}
  /\ steps = 0

---------------------------------------------------------------------------
(* The picture.                                                            *)

Resources == data[accountId]

AccountDependencies ==
  IF "dependencies" \in arrived
  THEN {d \in Dependencies : d.source \in Ids(Resources)} ELSE {}

FullGraph == BuildGraph(Resources, "findings" \in arrived, AccountDependencies)
FilteredGraph == FilterGraph(FullGraph, mapFilters)
Topology == ExtractTopology(Resources)

Layouted == ApplyLayout(FilteredGraph, prefs.preset)
Boxes == ApplyNetworkLayout(FilteredGraph, Topology, prefs.collapsed, prefs.showGlobal)

Drawn == LET boxes == Boxes IN {boxes[i].id : i \in DOMAIN boxes}

---------------------------------------------------------------------------
(* The queries.                                                            *)

Step == steps < MaxSteps /\ steps' = steps + 1

(* Pages are cut from the rows by the time they were last seen.  A row seen*)
(* by a scan after the first page was read moves to the front: the last row*)
(* of that page comes again, and the moved one is not read.                *)
Torn(e) ==
  {SubSeq(e, 1, PageSize) \o <<e[PageSize]>> \o
     RemoveAt(SubSeq(e, PageSize + 1, Len(e)), j) : j \in 1..(Len(e) - PageSize)}

FetchResources ==
  /\ Step
  /\ \E answer \in {estate[accountId]} \cup Torn(estate[accountId]) :
       data' = [data EXCEPT ![accountId] = answer]
  /\ UNCHANGED <<accountId, mapFilters, prefs, stored, estate, arrived>>

Arrive(query) ==
  /\ query \notin arrived
  /\ arrived' = arrived \cup {query}
  /\ UNCHANGED <<accountId, mapFilters, prefs, stored, estate, data, steps>>

(* A scan leaves other resources; the map's queries are not invalidated.   *)
ScanChanges(a) ==
  /\ Step
  /\ \E e \in Estates[a] \ {estate[a]} : estate' = [estate EXCEPT ![a] = e]
  /\ UNCHANGED <<accountId, mapFilters, prefs, stored, data, arrived>>

---------------------------------------------------------------------------
(* The user.                                                               *)

(* From another page: the component is mounted and reads what is stored.   *)
OpenMap(a) ==
  /\ Step
  /\ accountId' = a
  /\ mapFilters' = NoFilter
  /\ prefs' = stored[a]
  /\ arrived' = IF a = accountId THEN arrived ELSE arrived \ {"findings"}
  /\ UNCHANGED <<stored, estate, data>>

SwitchToAccount(a) ==
  /\ Step
  /\ a # accountId
  /\ accountId' = a
  /\ arrived' = arrived \ {"findings"}
  /\ UNCHANGED <<mapFilters, prefs, stored, estate, data>>

(* Until the resources have come there is only a spinner.                  *)
Use == Step /\ Resources # << >> /\ UNCHANGED <<accountId, mapQueries>>

SetMapFilters(f) ==
  /\ Use
  /\ mapFilters' = f
  /\ UNCHANGED <<prefs, stored>>

(* Every other choice is stored at once, each under a key of its own for   *)
(* the account in the URL.                                                 *)
Choose(fields, p) ==
  /\ Use
  /\ prefs' = p
  /\ stored' = [stored EXCEPT ![accountId] =
                  [f \in DOMAIN p |-> IF f \in fields THEN p[f] ELSE @[f]]]
  /\ UNCHANGED mapFilters

SetViewMode(v) == Choose({"view"}, [prefs EXCEPT !.view = v])

InGraphView == prefs.view = "graph"
InNetworkView == prefs.view = "network"

(* Choosing a layout also forgets the dragged nodes.                       *)
SetLayoutPreset(p) ==
  /\ InGraphView
  /\ Choose({"preset", "dragged"}, [prefs EXCEPT !.preset = p, !.dragged = {}])

ResetPositions ==
  /\ InGraphView
  /\ Choose({"dragged"}, [prefs EXCEPT !.dragged = {}])

DragNode(n) ==
  /\ InGraphView
  /\ n \in Ids(Layouted)
  /\ Choose({"dragged"}, [prefs EXCEPT !.dragged = @ \cup {n}])

Toggled(S, x) == IF x \in S THEN S \ {x} ELSE S \cup {x}

ToggleVpc(v) ==
  /\ InNetworkView /\ VpcId(v) \in Drawn
  /\ Choose({"collapsed"}, [prefs EXCEPT !.collapsed.vpcs = Toggled(@, v)])

ToggleSubnet(s) ==
  /\ InNetworkView /\ SubnetId(s) \in Drawn
  /\ Choose({"collapsed"}, [prefs EXCEPT !.collapsed.subnets = Toggled(@, s)])

ToggleGlobalBox ==
  /\ InNetworkView /\ GlobalId \in Drawn
  /\ Choose({"collapsed"}, [prefs EXCEPT !.collapsed.global = ~@])

ToggleGlobalResources ==
  /\ InNetworkView
  /\ Choose({"showGlobal"}, [prefs EXCEPT !.showGlobal = ~@])

Vpcs == DOMAIN Topology.vpcs
Subnets == UNION {DOMAIN Topology.vpcs[v].subnets : v \in Vpcs}

MapNext ==
  \/ FetchResources
  \/ \E q \in {"findings", "dependencies"} : Arrive(q)
  \/ \E a \in MapAccounts : ScanChanges(a) \/ OpenMap(a) \/ SwitchToAccount(a)
  \/ \E f \in Filters : SetMapFilters(f)
  \/ \E v \in {"graph", "network"} : SetViewMode(v)
  \/ \E p \in Presets : SetLayoutPreset(p)
  \/ ResetPositions
  \/ \E n \in Ids(Resources) : DragNode(n)
  \/ \E v \in Vpcs : ToggleVpc(v)
  \/ \E s \in Subnets : ToggleSubnet(s)
  \/ ToggleGlobalBox
  \/ ToggleGlobalResources

MapSpec == MapInit /\ [][MapNext]_mapVars

---------------------------------------------------------------------------
(* Properties.                                                             *)

Occurrences(placed, n) == Cardinality({i \in DOMAIN placed : placed[i].id = n})
Twins == Cardinality(Ids(Resources)) < Len(Resources)

(* Whether a box around the resource is collapsed, or hidden.              *)
HiddenInside(n, topology) ==
  LET inSubnets(v) == {s \in DOMAIN topology.vpcs[v].subnets :
                         n \in Range(topology.vpcs[v].subnets[s])}
  IN \/ \E v \in DOMAIN topology.vpcs :
          \/ inSubnets(v) \cap prefs.collapsed.subnets # {}
          \/ /\ v \in prefs.collapsed.vpcs
             /\ inSubnets(v) # {} \/ n \in Range(topology.vpcs[v].multi)
     \/ n \in Range(topology.global) /\ (prefs.collapsed.global \/ ~prefs.showGlobal)

(* The picture shows what the filters leave and nothing else.  Graph view: *)
(* every such node is drawn - by the grid and clustered layouts once, even *)
(* when a torn fetch has returned it twice -, edges join drawn nodes, and  *)
(* the count of unconnected nodes is right.  Network view: a node is drawn *)
(* exactly when no box around it is collapsed or hidden.                   *)
PictureComplete ==
  LET graph == FilteredGraph
      placed == Layouted
      topology == Topology
      drawn == Drawn
      alone == {n \in Ids(graph.nodes) : Neighbours(graph.edges, n) = {}}
  IN /\ InGraphView =>
          /\ Ids(placed) = Ids(graph.nodes)
          /\ Connected(graph.edges) \subseteq Ids(placed)
          /\ prefs.preset \in {"grid", "clustered"} \/ ~Twins =>
               \A n \in Ids(placed) : Occurrences(placed, n) = 1
          /\ ~Twins => CalculateStats(graph).orphanNodes = Cardinality(alone)
     /\ InNetworkView =>
          \A n \in Ids(Resources) :
            ResourceId(n) \in drawn
              <=> n \in Ids(graph.nodes) /\ ~HiddenInside(n, topology)

NodesApart(a, b) ==
  \/ a.x + NodeWidth <= b.x \/ b.x + NodeWidth <= a.x
  \/ a.y + NodeHeight <= b.y \/ b.y + NodeHeight <= a.y
BoxesApart(a, b) ==
  \/ a.x + a.width <= b.x \/ b.x + b.width <= a.x
  \/ a.y + a.height <= b.y \/ b.y + b.height <= a.y

(* Nothing hides anything else.  Graph view: no two nodes that have not    *)
(* been dragged overlap; connections-first keeps only the orphans off the  *)
(* nodes in its centre.  Network view: boxes of one parent do not overlap. *)
NothingOverlaps ==
  LET placed == Layouted
      linked == Connected(FilteredGraph.edges)
      boxes == Boxes
      excused(p, q) == \/ {p.id, q.id} \cap prefs.dragged # {}
                       \/ /\ prefs.preset = "connections-first"
                          /\ {p.id, q.id} \cap linked = {}
  IN /\ InGraphView =>
          \A j \in DOMAIN placed : \A i \in 1..(j - 1) :
            excused(placed[i], placed[j]) \/ NodesApart(placed[i], placed[j])
     /\ InNetworkView =>
          \A j \in DOMAIN boxes : \A i \in 1..(j - 1) :
            boxes[i].parent = boxes[j].parent => BoxesApart(boxes[i], boxes[j])

(* In the network view a box lies within its parent, which comes earlier   *)
(* in the list of nodes: the renderer asks for both.                       *)
ContainersHold ==
  LET boxes == Boxes
      inside(p, q) == /\ p.x >= 0 /\ p.x + p.width <= q.width
                      /\ p.y >= 0 /\ p.y + p.height <= q.height
  IN InNetworkView =>
       \A j \in DOMAIN boxes :
         \/ boxes[j].parent = NoParent
         \/ \E i \in 1..(j - 1) :
              boxes[i].id = boxes[j].parent /\ inside(boxes[j], boxes[i])

(* The ids that can be reached from n along edges.                         *)
Component(n, ids, edges) ==
  LET grow(S) == S \cup UNION {Neighbours(edges, m) : m \in S}
      reach[k \in Nat] == IF k = 0 THEN {n} ELSE grow(reach[k - 1])
  IN reach[Cardinality(ids)]

(* Orders of a set of edges: each of them first, forwards and backwards.   *)
EdgeOrders(edges) ==
  LET order == SetToSeq(edges)
      from(i) == SubSeq(order, i, Len(order)) \o SubSeq(order, 1, i - 1)
      turned == {from(i) : i \in 1..Len(order)}
  IN IF edges = {} THEN {<< >>} ELSE turned \cup {Reverse(o) : o \in turned}

(* Union-find and the search of the grid layout find the same clusters: the*)
(* connected components, also when the edges are read in another order,    *)
(* which changes who hangs under whom and the ranks.                       *)
ClustersAreComponents ==
  LET graph == FilteredGraph
      ids == Ids(graph.nodes)
      components == {Component(n, ids, graph.edges) : n \in ids}
  IN /\ \A order \in EdgeOrders(graph.edges) :
            FindClusters(graph.nodes, order) = components
     /\ SearchClusters(graph) = components
=============================================================================
