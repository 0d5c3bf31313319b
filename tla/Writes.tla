------------------------------- MODULE Writes ------------------------------
(***************************************************************************)
(* What the writing operators of a plan do to the graph.  A write of one   *)
(* row gives the row it hands on, or Invalid, and the graph after it.  The *)
(* graph also holds the next node and relationship identifiers; storing a  *)
(* value may fail because of its type, never because of its size.  Rows    *)
(* refer to nodes and relationships, so a read after a write sees it.      *)
(***************************************************************************)
EXTENDS Aggregates

Wrote(row, g) == [row |-> <<row>>, g |-> g]
Fails(g) == [row |-> <<Invalid>>, g |-> g]

-----------------------------------------------------------------------------
(* The graph.                                                              *)

\* Null is never stored, and neither is a map or a graph element.
RECURSIVE Storable(_)
Storable(v) == IF IsList(v) THEN \A i \in DOMAIN v.list : Storable(v.list[i])
               ELSE Type(v) \notin {"map", "node", "rel", "path"}
StorableMap(m) == \A k \in DOMAIN m : Storable(m[k])
NonNull(m) == [k \in {x \in DOMAIN m : ~IsNull(m[x])} |-> m[k]]

Put(f, k, v) == [x \in DOMAIN f \cup {k} |-> IF x = k THEN v ELSE f[x]]
CreateGraphDBVertex(g, labels, props) ==
  [g EXCEPT !.labels = Put(@, g.nextNode, labels), !.props = Put(@, g.nextNode, NonNull(props)), !.nextNode = @ + 1]
CreateGraphDBEdge(g, from, to, type, props) ==
  [g EXCEPT !.rels = Put(@, g.nextRel, [src |-> from, dst |-> to, type |-> type, props |-> NonNull(props)]),
            !.nextRel = @ + 1]

\* A null in the map removes the property.
ApplyGraphDBProperties(old, new, keep) == NonNull(IF keep THEN Override(old, new) ELSE new)

Exists(v, g) == IF Is(v, "node") THEN v.node \in DOMAIN g.labels ELSE v.rel \in DOMAIN g.rels
SetGraphDBProperties(g, v, new, keep) ==
  IF Is(v, "node") THEN [g EXCEPT !.props[v.node] = ApplyGraphDBProperties(@, new, keep)]
  ELSE [g EXCEPT !.rels[v.rel].props = ApplyGraphDBProperties(@, new, keep)]
SetGraphDBProperty(g, v, k, value) == SetGraphDBProperties(g, v, [x \in {k} |-> value], TRUE)
AddGraphDBVertexLabels(g, n, labels) == [g EXCEPT !.labels[n] = @ \cup labels]
RemoveGraphDBVertexLabels(g, n, labels) == [g EXCEPT !.labels[n] = @ \ labels]

Without(f, keys) == [x \in DOMAIN f \ keys |-> f[x]]
DeleteGraphDBEdges(g, ids) == [g EXCEPT !.rels = Without(@, ids)]
Incident(g, n) == {r \in DOMAIN g.rels : n \in {g.rels[r].src, g.rels[r].dst}}
\* Deleting a node deletes its relationships.
DeleteGraphDBVertices(g, ns) ==
  LET g2 == DeleteGraphDBEdges(g, UNION {Incident(g, n) : n \in ns})
  IN  [g2 EXCEPT !.labels = Without(@, ns), !.props = Without(@, ns)]

-----------------------------------------------------------------------------
(* CREATE.  A property map is [param] or [k, x]: keys and expressions.     *)

EvaluatePropertyMap(p, row, cx) ==
  IF "param" \in DOMAIN p
  THEN LET v == Ev(p.param, row, cx) IN IF IsError(v) THEN Invalid ELSE IF Is(v, "map") THEN v ELSE Invalid
  ELSE LET vs == EvAll(p.x, row, cx)
           Of(k) == CHOOSE i \in DOMAIN p.k : p.k[i] = k /\ \A j \in i + 1 .. Len(p.k) : p.k[j] # k
       IN  IF AnyError(vs) THEN Invalid
           ELSE [map |-> [k \in {p.k[i] : i \in DOMAIN p.k} |-> vs[Of(k)]]]

MakeNode(c, props, row, g) ==
  IF ~StorableMap(NonNull(props)) THEN Fails(g)
  ELSE Wrote(Bind(row, c.var, Node(g.nextNode)), CreateGraphDBVertex(g, c.labels, props))
CreateNode(n, row, cx) ==
  LET props == EvaluatePropertyMap(n.node.props, row, cx)
  IN  IF IsError(props) THEN Fails(cx.g) ELSE MakeNode(n.node, props.map, row, cx.g)

\* The endpoints of a relationship pattern, source first.
Ends(c) == IF c.dir = "in" THEN <<c.right, c.left>> ELSE <<c.left, c.right>>
MakeRelationship(c, props, row, g) ==
  LET ends == [i \in 1 .. 2 |-> NodeId(row, Ends(c)[i])]
  IN  IF ~StorableMap(NonNull(props)) \/ \E i \in 1 .. 2 : ends[i].int \notin DOMAIN g.labels THEN Fails(g)
      ELSE Wrote(Bind(row, c.var, Rel(g.nextRel)), CreateGraphDBEdge(g, ends[1].int, ends[2].int, c.type, props))
MissingEnd(c, row) == \E i \in 1 .. 2 : LET v == NodeId(row, Ends(c)[i]) IN IF IsError(v) THEN TRUE ELSE v.int < 0
CreateRelationship(n, row, cx) ==
  LET props == EvaluatePropertyMap(n.rel.props, row, cx)
  IN  IF MissingEnd(n.rel, row) THEN Fails(cx.g)
      ELSE IF IsError(props) THEN Fails(cx.g) ELSE MakeRelationship(n.rel, props.map, row, cx.g)

-----------------------------------------------------------------------------
(* SET and REMOVE.                                                         *)

IsEntity(v) == Type(v) \in {"node", "rel"}

\* A write to the entity an expression names; null is left alone.
OnEntity(n, row, cx, OfType(_), Write(_)) ==
  LET v == Ev(n.entity, row, cx)
  IN  IF IsError(v) THEN Fails(cx.g)
      ELSE IF IsNull(v) THEN Wrote(row, cx.g)
      ELSE IF ~OfType(v) THEN Fails(cx.g)
      ELSE IF ~Exists(v, cx.g) THEN Fails(cx.g) ELSE Write(v)

SetProperty(n, row, cx) ==
  LET value == Ev(n.x, row, cx)
      Write(v) == IF IsError(value) THEN Fails(cx.g)
                  ELSE IF ~Storable(value) THEN Fails(cx.g)
                  ELSE Wrote(row, SetGraphDBProperty(cx.g, v, n.k, value))
  IN  OnEntity(n, row, cx, IsEntity, Write)
SetProperties(n, row, cx) ==
  LET value == Ev(n.x, row, cx)
      Write(v) == IF IsError(value) THEN Fails(cx.g)
                  ELSE IF ~HasProperties(value) THEN Fails(cx.g)
                  ELSE IF ~StorableMap(PropertiesOf(value, cx.g)) THEN Fails(cx.g)
                  ELSE Wrote(row, SetGraphDBProperties(cx.g, v, PropertiesOf(value, cx.g), n.keep))
  IN  OnEntity(n, row, cx, IsEntity, Write)
RemoveProperty(n, row, cx) ==
  LET Write(v) == Wrote(row, SetGraphDBProperty(cx.g, v, n.k, Null)) IN OnEntity(n, row, cx, IsEntity, Write)
IsNode(v) == Is(v, "node")
SetLabels(n, row, cx) ==
  LET Write(v) == Wrote(row, AddGraphDBVertexLabels(cx.g, v.node, n.labels)) IN OnEntity(n, row, cx, IsNode, Write)
RemoveLabels(n, row, cx) ==
  LET Write(v) == Wrote(row, RemoveGraphDBVertexLabels(cx.g, v.node, n.labels)) IN OnEntity(n, row, cx, IsNode, Write)

ExecuteStreamingWrite(n, row, cx) ==
  CASE n.op = "CreateNode"         -> CreateNode(n, row, cx)
    [] n.op = "CreateRelationship" -> CreateRelationship(n, row, cx)
    [] n.op = "SetProperty"        -> SetProperty(n, row, cx)
    [] n.op = "SetProperties"      -> SetProperties(n, row, cx)
    [] n.op = "SetLabels"          -> SetLabels(n, row, cx)
    [] n.op = "RemoveProperty"     -> RemoveProperty(n, row, cx)
    [] n.op = "RemoveLabels"       -> RemoveLabels(n, row, cx)
StreamingWrites == {"CreateNode", "CreateRelationship", "SetProperty", "SetProperties", "SetLabels",
                    "RemoveProperty", "RemoveLabels"}

\* Write(s[i], row, cx) one after the other, until one fails.
InSequence(s, row, cx, Write(_, _, _)) ==
  LET R[i \in 0 .. Len(s)] ==
        IF i = 0 THEN Wrote(row, cx.g)
        ELSE LET done == R[i - 1]
             IN  IF IsError(done.row[1]) THEN done ELSE Write(s[i], done.row[1], [cx EXCEPT !.g = done.g])
  IN  R[Len(s)]

-----------------------------------------------------------------------------
(* MERGE.  A created element is [node] or [rel].                           *)

EvaluateMergeProperties(p, row, cx) ==
  LET v == EvaluatePropertyMap(p, row, cx)
  IN  IF IsError(v) THEN Invalid ELSE IF \E k \in DOMAIN v.map : IsNull(v.map[k]) THEN Invalid ELSE v
ExecuteMergeCreate(c, row, cx) ==
  LET isNode == "node" \in DOMAIN c
      props == EvaluateMergeProperties(IF isNode THEN c.node.props ELSE c.rel.props, row, cx)
  IN  IF ~isNode /\ MissingEnd(c.rel, row) THEN Fails(cx.g)
      ELSE IF IsError(props) THEN Fails(cx.g)
      ELSE IF isNode THEN MakeNode(c.node, props.map, row, cx.g) ELSE MakeRelationship(c.rel, props.map, row, cx.g)
ExecuteMergeActions(n, onMatch, row, cx) ==
  LET On(a, r, c) == IF a.onMatch = onMatch THEN InSequence(a.sets, r, c, ExecuteStreamingWrite) ELSE Wrote(r, c.g)
  IN  InSequence(n.actions, row, cx, On)

-----------------------------------------------------------------------------
(* DELETE collects what its rows name, checks it, and deletes it at once.  *)

Deleted(v) == CASE Is(v, "node") -> [nodes |-> {v.node}, rels |-> {}]
                [] Is(v, "rel")  -> [nodes |-> {}, rels |-> {v.rel}]
                [] Is(v, "path") -> [nodes |-> {v.path.nodes[i] : i \in DOMAIN v.path.nodes},
                                     rels |-> {v.path.rels[i] : i \in DOMAIN v.path.rels}]
                [] OTHER         -> [nodes |-> {}, rels |-> {}]
Deletable(v) == Type(v) \in {"null", "node", "rel", "path"}

\* Only DETACH DELETE deletes relationships nobody asked to delete.
StillConnected(g, nodes, rels) == \E n \in nodes : n \notin DOMAIN g.labels \/ ~(Incident(g, n) \subseteq rels)

\* vs: the values named; NULL in a row names nothing.
DeleteEntities(vs, detach, g) ==
  LET nodes == UNION {Deleted(vs[i]).nodes : i \in DOMAIN vs}
      rels  == UNION {Deleted(vs[i]).rels : i \in DOMAIN vs}
  IN  IF (~detach /\ StillConnected(g, nodes, rels)) \/ ~(rels \subseteq DOMAIN g.rels) \/ ~(nodes \subseteq DOMAIN g.labels)
      THEN Invalid
      ELSE DeleteGraphDBVertices(DeleteGraphDBEdges(g, rels), nodes)
=============================================================================
