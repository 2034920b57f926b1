------------------------------ MODULE NetGraph ------------------------------
(***************************************************************************)
(* NeuralNet::CreateGraph: every layer becomes one node, or one per        *)
(* partition; slice, concate and split nodes connect layers that are       *)
(* partitioned differently; Graph::Sort, a step of which is one turn of    *)
(* its loop, puts sources first; a layer with several consumers that may   *)
(* have only one gets a split node; and the graph is sorted again.         *)
(*                                                                         *)
(* A layer is a record [pdim, srcs, conn, many, size]: partition_dim, the  *)
(* source layers in order, src_neuron_connection ("one" or "all"), whether *)
(* dst_layer_connection is kOneToMany, and the size of its parameter.      *)
(***************************************************************************)
EXTENDS Integers, SequencesExt

VARIABLES
  net,          \* the layers
  np,           \* npartitions
  graph,        \* [nodes, edges], in the order in which they were added
  queue,        \* visiting_nodes
  order,        \* nodes_ as far as they are sorted again
  pass          \* "first" or "second" sort, "built" or "crashed"

netVars == <<net, np, graph, queue, order, pass>>

\* Node i of layer l.  Nodes made for a connection are kept apart by it, but
\* their names are not.
Node(kind, l, i, via) == [kind |-> kind, l |-> l, i |-> i, via |-> via]
LayerNode(l, i) == Node("layer", l, i, <<0, 0>>)
NameOf(n) == [kind |-> n.kind, l |-> n.l, i |-> n.i]

Parts(l) == IF net[l].pdim = -1 THEN 1 ELSE np
NodesOf(l) == [k \in 1..Parts(l) |-> LayerNode(l, k - 1)]

\* The elements s[k] with keep[k], in their order.
Keep(s, keep) ==
  LET kept[k \in 0..Len(s)] ==
        IF k = 0 THEN << >> ELSE IF keep[k] THEN Append(kept[k - 1], s[k]) ELSE kept[k - 1]
  IN  kept[Len(s)]

Ends(edges, i) == [k \in DOMAIN edges |-> edges[k][i]]
Dsts(g, n) == Keep(Ends(g.edges, 2), [k \in DOMAIN g.edges |-> g.edges[k][1] = n])
Srcs(g, n) == Keep(Ends(g.edges, 1), [k \in DOMAIN g.edges |-> g.edges[k][2] = n])

To(n, dsts) == [k \in DOMAIN dsts |-> <<n, dsts[k]>>]
From(srcs, n) == [k \in DOMAIN srcs |-> <<srcs[k], n>>]

\* A piece of a graph: nodes and edges that are added one after the other.
Piece(nodes, edges) == [nodes |-> nodes, edges |-> edges]
AddAll(g, pieces) ==
  Piece(g.nodes \o FlattenSeq([k \in DOMAIN pieces |-> pieces[k].nodes]),
        g.edges \o FlattenSeq([k \in DOMAIN pieces |-> pieces[k].edges]))

SliceNode(src, dsts, via) ==
  LET n == Node("slice", src.l, src.i, via) IN Piece(<<n>>, <<<<src, n>>>> \o To(n, dsts))

\* Fault: only the first destination is connected.
SplitNodeFirst(src, dsts, via) ==
  LET n == Node("split", src.l, src.i, via) IN Piece(<<n>>, <<<<src, n>>, <<n, dsts[1]>>>>)

SplitNode(src, dsts, via) ==
  LET n == Node("split", src.l, src.i, via) IN Piece(<<n>>, <<<<src, n>>>> \o To(n, dsts))

ConcateNodes(srcs, dst, via) ==
  LET n == Node("concate", dst.l, dst.i, via) IN Piece(<<n>>, <<<<n, dst>>>> \o From(srcs, n))

BridgeNodes(src, dst) ==
  LET s == Node("bridgesrc", src.l, src.i, <<0, 0>>)
      d == Node("bridgedst", dst.l, dst.i, <<0, 0>>)
  IN  Piece(<<s, d>>, <<<<src, s>>, <<s, d>>, <<d, dst>>>>)

-----------------------------------------------------------------------------
\* Between dimensions 0 and 1 an inner vector hides the destination nodes: the
\* first element of an empty vector is read.  From dimension 1 to 1 with all
\* neurons connected nothing is added.
Hidden(s, l) == \/ net[s].pdim = 1 /\ net[l].pdim = 0
                \/ net[s].pdim = 0 /\ net[l].pdim = 1 /\ net[l].conn = "one"
Forgotten(s, l) == net[s].pdim = 1 /\ net[l].pdim = 1 /\ net[l].conn = "all"

\* How the j-th source of layer l is connected to it.
Connect(l, j) ==
  LET s == net[l].srcs[j]
      p == net[l].pdim
      sp == net[s].pdim
      dsts == NodesOf(l)
      srcs == NodesOf(s)
      via == <<l, j>>
  IN  CASE sp = -1 /\ p = -1 -> <<Piece(<< >>, <<<<srcs[1], dsts[1]>>>>)>>
        [] sp = -1 /\ (p = 0 \/ (p = 1 /\ net[l].conn = "one")) -> <<SliceNode(srcs[1], dsts, via)>>
        [] sp = -1 /\ p = 1 /\ net[l].conn = "all" -> <<SplitNode(srcs[1], dsts, via)>>
        [] sp # -1 /\ (p = -1 \/ (p = 1 /\ net[l].conn = "all" /\ sp = 0)) ->
             [k \in DOMAIN dsts |-> ConcateNodes(srcs, dsts[k], via)]
        [] Hidden(s, l) \/ Forgotten(s, l) -> << >>
        [] OTHER -> <<Piece(<< >>, [k \in 1..np |-> <<srcs[k], dsts[k]>>])>>

FirstGraph ==
  AddAll(Piece(FlattenSeq([l \in DOMAIN net |-> NodesOf(l)]), << >>),
         FlattenSeq([l \in DOMAIN net |-> FlattenSeq([j \in DOMAIN net[l].srcs |-> Connect(l, j)])]))

\* dst_layer_connection of the layer of a node.
OneToOne(n) == n.kind = "concate" \/ (n.kind = "layer" /\ ~net[n.l].many)

NeedsSplit(n) == Len(Dsts(graph, n)) > 1 /\ OneToOne(n)

AddSplits ==
  LET split == Keep(order, [k \in DOMAIN order |-> NeedsSplit(order[k])])
      stay == Keep(graph.edges, [k \in DOMAIN graph.edges |-> ~NeedsSplit(graph.edges[k][1])])
  IN  AddAll(Piece(order, stay),
             [k \in DOMAIN split |-> SplitNode(split[k], Dsts(graph, split[k]), <<0, 0>>)])

\* The partition of the source is compared with itself.
NeedsBridge(n, dst) == LET pid1 == n.i pid2 == n.i IN pid1 # pid2

AddBridges(g) ==
  LET far == [k \in DOMAIN g.edges |-> NeedsBridge(g.edges[k][1], g.edges[k][2])]
      bridge == Keep(g.edges, far)
  IN  AddAll(Piece(g.nodes, Keep(g.edges, [k \in DOMAIN g.edges |-> ~far[k]])),
             [k \in DOMAIN bridge |-> BridgeNodes(bridge[k][1], bridge[k][2])])

-----------------------------------------------------------------------------
\* Sort.  Nodes without sources are queued first.
Roots(g) == Keep(g.nodes, [k \in DOMAIN g.nodes |-> Srcs(g, g.nodes[k]) = << >>])

BeginSort(g, p) ==
  /\ graph' = g /\ pass' = p
  /\ queue' = Roots(graph') /\ order' = << >>

\* A node that is its source's source is visited after its first source.
BiDirection(n) ==
  \E s \in Range(Srcs(graph, n)) : \E t \in Range(Srcs(graph, s)) : NameOf(t) = NameOf(n)

\* Fault: the first source stands for all.
VisitableAfterFirst(n) ==
  LET srcs == Srcs(graph, n) IN srcs = << >> \/ srcs[1] \in Range(order)

Visitable(n) ==
  LET srcs == Srcs(graph, n)
  IN  IF BiDirection(n) /\ Len(srcs) > 1 THEN srcs[1] \in Range(order)
                                         ELSE Range(srcs) \subseteq Range(order)

\* Destinations that are neither sorted nor queued, each once.
NewDsts(n) ==
  LET dsts == Dsts(graph, n)
  IN  Keep(dsts, [k \in DOMAIN dsts |-> /\ dsts[k] \notin Range(queue) \cup Range(order)
                                        /\ \A j \in 1..(k - 1) : dsts[j] # dsts[k]])

Visit ==
  /\ pass \in {"first", "second"} /\ queue # << >>
  /\ LET n == Head(queue)
     IN  IF Visitable(n)
         THEN queue' = Tail(queue) \o NewDsts(n) /\ order' = Append(order, n)
         ELSE queue' = Append(Tail(queue), n) /\ UNCHANGED order
  /\ UNCHANGED <<net, np, graph, pass>>

EndSort ==
  /\ pass \in {"first", "second"} /\ queue = << >>
  /\ IF Len(order) # Len(graph.nodes) THEN pass' = "crashed" /\ UNCHANGED <<graph, queue, order>>
     ELSE IF pass = "first" THEN \E g \in {AddSplits} : BeginSort(AddBridges(g), "second")
     ELSE pass' = "built" /\ UNCHANGED <<graph, queue, order>>
  /\ UNCHANGED <<net, np>>

NetInit(layers, partitions) ==
  /\ net = layers /\ np = partitions
  /\ graph = FirstGraph
  /\ pass = IF \A l \in DOMAIN net : \A s \in Range(net[l].srcs) : ~Hidden(s, l) THEN "first" ELSE "crashed"
  /\ queue = Roots(graph) /\ order = << >>

NetStep == Visit \/ EndSort

\* The parameters that are their own owners, in the order of their ids: those
\* of the partitions of a layer along dimension 0 are one parameter, shared.
Owners ==
  Keep(order, [k \in DOMAIN order |-> LET n == order[k] IN
                 n.kind = "layer" /\ net[n.l].size > 0 /\ (net[n.l].pdim = 0 => n.i = 0)])

ParamSizes == [k \in DOMAIN Owners |-> LET n == net[Owners[k].l] IN
                 IF n.pdim = 1 THEN n.size \div np ELSE n.size]

-----------------------------------------------------------------------------
\* Both sorts put a node behind its sources, whatever order the layers and
\* their sources are configured in, but for the edges of a bidirectional pair.
SourcesFirst ==
  \A k \in DOMAIN order : \A s \in Range(Srcs(graph, order[k])) :
    \/ s \in Range(SubSeq(order, 1, k - 1))
    \/ <<order[k], s>> \in Range(graph.edges)

\* The nodes of s whose data the nodes of l need: of a layer partitioned the
\* same way the node of the same partition, unless its neurons, divided
\* among the partitions, are all needed by every neuron of l.
Needed(s, l) ==
  {e \in Range(NodesOf(s)) \X Range(NodesOf(l)) :
     (net[s].pdim = net[l].pdim /\ ~(net[l].pdim = 1 /\ net[l].conn = "all")) => (e[1].i = e[2].i)}

\* Data goes from a to b through at most two inserted nodes.
Inserted(a) == {n \in Range(Dsts(graph, a)) : n.kind # "layer"}
Arrives(a, b) ==
  \/ b \in Range(Dsts(graph, a))
  \/ \E m \in Inserted(a) : \/ b \in Range(Dsts(graph, m))
                           \/ \E n \in Inserted(m) : b \in Range(Dsts(graph, n))

NamesDiffer ==
  \A a, b \in Range(graph.nodes) : NameOf(a) = NameOf(b) => a = b

\* Every partition of a layer gets the data it needs of each of its sources
\* through the nodes put between them, if the layers, which are connected by
\* name, have different names; but for a source that CreateGraph forgets: one
\* divided along dimension 1 like the layer, all of whose neurons it needs.
ConnectionsKept ==
  (pass = "built" /\ NamesDiffer) =>
    \A l \in DOMAIN net : \A s \in Range(net[l].srcs) :
      ~Forgotten(s, l) => \A e \in Needed(s, l) : Arrives(e[1], e[2])
=============================================================================
