------------------------------- MODULE Scans -------------------------------
(***************************************************************************)
(* The operators that read the graph: leaves of a plan, which make rows    *)
(* out of an argument row, and expansions, which make rows out of each row *)
(* of their source.  Both are functions from a row to the sequence of rows *)
(* in the order the operator produces them.                                *)
(*                                                                         *)
(* A row binds the columns that are initialised.  An expression of a plan  *)
(* is [x, pre]: pre pairs the expressions that were computed earlier with  *)
(* the columns that hold them.  A relationship pattern has the variables   *)
(* rel, from and to ("" where it has none), a direction, the types, the    *)
(* range (<<>> for one relationship, else <<min>> or <<min, max>>), and    *)
(* shortest in {"none", "one", "all"}.  cx.indexes has <<label or type,    *)
(* key>> of the indexes that are ready.  cx.g is the graph they read, and  *)
(* Executor says when.                                                     *)
(***************************************************************************)
EXTENDS Evaluator

Ev(px, row, cx) == Evaluate(px.x, row, [cx EXCEPT !.pre = px.pre])

\* The row if every predicate is true of it, asked in order.
AllTrue(preds, row, cx) ==
  LET R[i \in 1 .. Len(preds) + 1] ==
        IF i > Len(preds) THEN <<row>>
        ELSE LET v == Ev(preds[i], row, cx)
             IN  IF PredicateFails(v) THEN <<Invalid>> ELSE IF PredicateIsTrue(v) THEN R[i + 1] ELSE <<>>
  IN  R[1]

CellEquals(l, r) == ValuesEqual(l, r)
\* A column gets the value, or holds it already.
TryBindAt(row, n, v) == IF n \notin DOMAIN row THEN <<Bind(row, n, v)>> ELSE IF CellEquals(row[n], v) THEN <<row>> ELSE <<>>
\* A column without a name takes no value.
TryBindOptional(row, n, v) == IF n = "" THEN <<row>> ELSE TryBindAt(row, n, v)
TryBindAll(row, ns, vs) ==
  LET R[i \in 0 .. Len(ns)] ==
        IF i = 0 THEN <<row>>
        ELSE LET bound == R[i - 1] IN IF bound = <<>> THEN <<>> ELSE TryBindOptional(bound[1], ns[i], vs[i])
  IN  R[Len(ns)]

Node(n) == [node |-> n]
Rel(r) == [rel |-> r]
\* The node a column holds: -1 for null, Invalid for any other value.
NodeId(row, n) ==
  LET v == Lookup(row, n)
  IN  IF IsError(v) THEN Invalid ELSE IF IsNull(v) THEN Int_(-1) ELSE IF Is(v, "node") THEN Int_(v.node) ELSE Invalid

Nodes_(ids) == [i \in DOMAIN ids |-> Node(ids[i])]
Rels_(ids) == [i \in DOMAIN ids |-> Rel(ids[i])]

-----------------------------------------------------------------------------
(* Property indexes.  An entry's key is the type of the value followed by  *)
(* the value, so two numbers of different types have different keys.       *)

KeyType == [null |-> 0, bool |-> 1, int |-> 2, dbl |-> 3, str |-> 4, list |-> 5, map |-> 6, node |-> 7, rel |-> 8,
            path |-> 9, date |-> 10, ltime |-> 11, time |-> 12, ldt |-> 13, dt |-> 14, dur |-> 15, point |-> 16]
Unindexable == {"map", "node", "rel", "path"}
\* A value as the numbers its key is made of, after the type.
KeyNumbers(v) ==
  CASE Type(v) = "null" -> <<>>
    [] Type(v) = "bool" -> <<IF v.bool THEN 1 ELSE 0>>
    [] Type(v) = "int"  -> <<v.int>>
    [] Type(v) = "dbl"  -> <<IF IsNaN(v) THEN 2 * Infinity.dbl ELSE v.dbl>>
    [] Type(v) = "str"  -> v.str
    [] Type(v) = "ldt"  -> v.ldt.date \o v.ldt.time
    [] Type(v) = "dt"   -> v.dt.date \o v.dt.local \o <<v.dt.off>>
    [] Type(v) = "time" -> v.time.local \o <<v.time.off>>
    [] OTHER            -> v[Type(v)]
IndexKeyLess(l, r) ==
  IF Type(l) # Type(r) THEN KeyType[Type(l)] < KeyType[Type(r)] ELSE LexLess(KeyNumbers(l), KeyNumbers(r))

\* Entries are read in the order of their keys, then of their ids.
RECURSIVE InKeyOrder(_, _)
InKeyOrder(ids, value) ==
  IF ids = {} THEN <<>>
  ELSE LET Before(x, y) == IndexKeyLess(value[x], value[y]) \/ (~IndexKeyLess(value[y], value[x]) /\ x <= y)
           first == CHOOSE x \in ids : \A y \in ids : Before(x, y)
       IN  <<first>> \o InKeyOrder(ids \ {first}, value)

VertexEntries(g, label, k) == {n \in DOMAIN g.labels : label \in g.labels[n] /\ k \in DOMAIN g.props[n]}
EdgeEntries(g, type, k) == {r \in DOMAIN g.rels : g.rels[r].type = type /\ k \in DOMAIN g.rels[r].props}

\* An index is asked for by one label or type; without a ready index, or
\* with a value no key can be made of, the query fails.
IndexUnusable(owners, k, values, cx) ==
  \/ Cardinality(owners) # 1
  \/ <<CHOOSE o \in owners : TRUE, k>> \notin cx.indexes
  \/ \E v \in values : Type(v) \in Unindexable

QueryByPropertyIndex(owners, k, v, Entries(_, _, _), Value(_), cx) ==
  IF IndexUnusable(owners, k, {v}, cx) THEN <<-1>>
  ELSE Sorted({i \in Entries(cx.g, CHOOSE o \in owners : TRUE, k) : Value(i) = v})
QueryVertexByPropertyIndex(labels, k, v, cx) ==
  LET Value(n) == cx.g.props[n][k] IN QueryByPropertyIndex(labels, k, v, VertexEntries, Value, cx)
QueryEdgeByPropertyIndex(types, k, v, cx) ==
  LET Value(r) == cx.g.rels[r].props[k] IN QueryByPropertyIndex(types, k, v, EdgeEntries, Value, cx)

\* A range is <<>> or one bound [v, closed] on each side.
InRange(v, range) ==
  /\ \A i \in DOMAIN range.lower : IndexKeyLess(range.lower[i].v, v) \/ (range.lower[i].closed /\ ~IndexKeyLess(v, range.lower[i].v))
  /\ \A i \in DOMAIN range.upper : IndexKeyLess(v, range.upper[i].v) \/ (range.upper[i].closed /\ ~IndexKeyLess(range.upper[i].v, v))
QueryByPropertyRange(owners, k, range, Entries(_, _, _), Value(_), cx) ==
  LET bounds == {range.lower[i].v : i \in DOMAIN range.lower} \cup {range.upper[i].v : i \in DOMAIN range.upper}
  IN  IF IndexUnusable(owners, k, bounds, cx) \/ \E b \in bounds : IsList(b) THEN <<-1>>
      ELSE LET ids == {i \in Entries(cx.g, CHOOSE o \in owners : TRUE, k) : InRange(Value(i), range)}
           IN  InKeyOrder(ids, [i \in ids |-> Value(i)])
QueryVertexByPropertyRange(labels, k, range, cx) ==
  LET Value(n) == cx.g.props[n][k] IN QueryByPropertyRange(labels, k, range, VertexEntries, Value, cx)
QueryEdgeByPropertyRange(types, k, range, cx) ==
  LET Value(r) == cx.g.rels[r].props[k] IN QueryByPropertyRange(types, k, range, EdgeEntries, Value, cx)

\* The bounds the predicates on variable.k give; they are used only when
\* there is no prefix and one of them on a side.
EvaluateIndexRange(preds, variable, k, arg, cx) ==
  LET Property(x) == x.e = "prop" /\ x.k = k /\ x.a[1] = Var(variable)
      Comparisons == {i \in DOMAIN preds : preds[i].x.e = "cmp"}
      Reversed(i) == ~Property(preds[i].x.a[1])
      Lower(i) == (preds[i].x.op \in {">", ">="}) # Reversed(i)
      Bound(i) == [v |-> Ev([preds[i] EXCEPT !.x = @.a[IF Reversed(i) THEN 1 ELSE 2]], arg, cx),
                   closed |-> preds[i].x.op \in {"<=", ">="}]
      Side(lower) == LET is == {i \in Comparisons : Lower(i) = lower}
                     IN  IF Comparisons = DOMAIN preds /\ Cardinality(is) = 1 THEN <<Bound(CHOOSE i \in is : TRUE)>> ELSE <<>>
      values == [i \in DOMAIN preds |-> Ev([preds[i] EXCEPT !.x = @.a[IF i \in Comparisons /\ Reversed(i) THEN 1 ELSE 2]], arg, cx)]
  IN  IF AnyError(values) THEN <<>> ELSE <<[lower |-> Side(TRUE), upper |-> Side(FALSE)]>>

-----------------------------------------------------------------------------
(* Leaves: n is the plan node, arg the argument row.                       *)

Failed == <<-1>>
\* A node that is scanned must not be bound yet.
ScanNodes(n, ids, labels, preds, arg, cx) ==
  LET Row(v) == IF ~NodeHasLabels(v.node, labels, cx.g) THEN <<>>
                ELSE IF n.var \in DOMAIN arg THEN <<Invalid>>
                ELSE AllTrue(preds, Bind(arg, n.var, v), cx)
  IN  IF ids = Failed THEN <<Invalid>> ELSE Each(Nodes_(ids), Row)

AllNodeScan(n, arg, cx) == ScanNodes(n, VertexIds(cx.g, {}), {}, <<>>, arg, cx)
NodeByLabelScan(n, arg, cx) == ScanNodes(n, VertexIds(cx.g, {}), n.labels, <<>>, arg, cx)

NodeIndexSeek(n, arg, cx) ==
  LET v == Ev(n.x, arg, cx)
  IN  ScanNodes(n, IF IsError(v) THEN Failed ELSE QueryVertexByPropertyIndex(n.labels, n.key, v, cx), {}, <<>>, arg, cx)

NodeIndexRangeSeek(n, arg, cx) ==
  LET range == EvaluateIndexRange(n.preds, n.var, n.key, arg, cx)
  IN  ScanNodes(n, IF range = <<>> THEN Failed ELSE QueryVertexByPropertyRange(n.labels, n.key, range[1], cx),
                {}, n.preds, arg, cx)

\* The id a value stands for; fractions and other types stand for none.
SeekId(v) == IF IsInt(v) THEN <<v.int>> ELSE IF Is(v, "dbl") /\ DoubleAsInteger(v) THEN <<v.dbl \div 2>> ELSE <<>>
\* The ids of an id predicate, each once, or Failed.
IdSeekValues(n, arg, cx) ==
  LET v == Ev(n.ids, arg, cx)
      values == IF ~n.many THEN <<v>> ELSE IF IsNull(v) THEN <<>> ELSE v.list
      Ids[i \in 0 .. Len(values)] ==
        IF i = 0 THEN <<>>
        ELSE LET id == SeekId(values[i])
                 ids == Ids[i - 1]
             IN  IF id = <<>> THEN ids
                 ELSE IF id[1] < 0 \/ \E j \in DOMAIN ids : ids[j] = id[1] THEN ids
                 ELSE Append(ids, id[1])
  IN  IF IsError(v) \/ (n.many /\ ~IsNull(v) /\ ~IsList(v)) THEN Failed ELSE Ids[Len(values)]

NodeByIdSeek(n, arg, cx) ==
  LET ids == IdSeekValues(n, arg, cx)
      Row(v) == IF v.node \in DOMAIN cx.g.labels THEN TryBindAt(arg, n.var, v) ELSE <<>>
  IN  IF ids = Failed THEN <<Invalid>> ELSE Each(Nodes_(ids), Row)

\* An edge as the pattern reads it; without a direction it is read from both
\* ends, a loop once.
EmitRelationship(pat, e, preds, arg, cx) ==
  LET r == cx.g.rels[e.rel]
      Read(from, to) ==
        LET row == TryBindAll(arg, <<pat.from, pat.rel, pat.to>>, <<Node(from), e, Node(to)>>)
        IN  IF row = <<>> THEN <<>> ELSE AllTrue(preds, row[1], cx)
      forward == IF pat.dir = "in" THEN Read(r.dst, r.src) ELSE Read(r.src, r.dst)
  IN  IF ~RelationshipHasAnyType(e.rel, pat.types, cx.g) THEN <<>>
      ELSE IF pat.dir # "both" \/ r.src = r.dst \/ AnyError(forward) THEN forward
      ELSE forward \o Read(r.dst, r.src)
ScanRelationships(n, ids, preds, arg, cx) ==
  LET Row(e) == EmitRelationship(n.pat, e, preds, arg, cx)
  IN  IF ids = Failed THEN <<Invalid>> ELSE Each(Rels_(ids), Row)

RelationshipTypeScan(n, arg, cx) ==
  ScanRelationships(n, Sorted({r \in DOMAIN cx.g.rels : RelationshipHasAnyType(r, n.pat.types, cx.g)}), <<>>, arg, cx)
RelationshipIndexSeek(n, arg, cx) ==
  LET v == Ev(n.x, arg, cx)
  IN  ScanRelationships(n, IF IsError(v) THEN Failed ELSE QueryEdgeByPropertyIndex(n.pat.types, n.key, v, cx), <<>>, arg, cx)
RelationshipIndexRangeSeek(n, arg, cx) ==
  LET range == EvaluateIndexRange(n.preds, n.pat.rel, n.key, arg, cx)
  IN  ScanRelationships(n, IF range = <<>> THEN Failed ELSE QueryEdgeByPropertyRange(n.pat.types, n.key, range[1], cx),
                        n.preds, arg, cx)
FindRelationshipById(types, id, cx) == id \in DOMAIN cx.g.rels /\ RelationshipHasAnyType(id, types, cx.g)
RelationshipByIdSeek(n, arg, cx) ==
  LET ids == IdSeekValues(n, arg, cx)
      Found(id) == FindRelationshipById(n.pat.types, id, cx)
  IN  ScanRelationships(n, IF ids = Failed THEN ids ELSE SelectSeq(ids, Found), <<>>, arg, cx)

-----------------------------------------------------------------------------
(***************************************************************************)
(* The operators that follow relationships from a row's nodes: expansions  *)
(* of one relationship, of a variable number, of the fewest, expansions    *)
(* that only tell which nodes are reached, the end points of relationships *)
(* a row already holds, and the path values built from them.               *)
(***************************************************************************)

Edges(at, pat, cx) == Rels_(IncidentEdges(cx.g, at, pat.dir, pat.types))
Origin(n) == [node |-> n, nodes |-> <<n>>, rels |-> <<>>, used |-> {}]

\* F of the node a column holds; nothing where it is null.
FromNode(row, n, cx, F(_)) ==
  LET id == NodeId(row, n)
  IN  IF IsError(id) THEN <<Invalid>>
      ELSE IF id.int < 0 THEN <<>>
      ELSE IF id.int \notin DOMAIN cx.g.labels THEN <<Invalid>> ELSE F(id.int)

\* A column is bound where it has a value; a plan binds it in the source.
BoundTo(row, pat) == IF pat.to \in DOMAIN row THEN NodeId(row, pat.to) ELSE Int_(-2)

ExpandFrom(pat, row, cx) ==
  LET Rows(from) ==
        LET Row(e) == TryBindAll(row, <<pat.rel, pat.to>>, <<e, Node(OtherEnd(cx.g, e.rel, from, pat.dir))>>)
        IN  Each(Edges(from, pat, cx), Row)
  IN  FromNode(row, pat.from, cx, Rows)
FixedExpand(n, row, cx) == ExpandFrom(n.pat, row, cx)
\* Both ends are bound.
ExpandInto(n, row, cx) ==
  LET to == NodeId(row, n.pat.to)
  IN  IF IsError(to) THEN <<Invalid>> ELSE IF to.int < 0 THEN <<>> ELSE ExpandFrom(n.pat, row, cx)

Min(pat) == pat.range[1]
AtMost(pat, length) == Len(pat.range) = 2 => length <= pat.range[2]

\* The relationships of a walk as the pattern lists them.
Listed(n, rels) == List(Rels_(IF n.reverse THEN Backwards(rels) ELSE rels))
WalkRow(n, row, at) == TryBindAll(row, <<n.pat.rel, n.pat.to>>, <<Listed(n, at.rels), Node(at.node)>>)

RECURSIVE Walks(_, _, _, _)
Walks(n, at, row, cx) ==
  LET Follow(e) == IF e.rel \in at.used THEN <<>> ELSE Walks(n, Step(at, e.rel, cx, n.pat.dir), row, cx)
      here == IF Len(at.rels) >= Min(n.pat) /\ BoundTo(row, n.pat).int \in {-2, at.node} THEN WalkRow(n, row, at) ELSE <<>>
  IN  IF Len(n.pat.range) = 2 /\ Len(at.rels) = n.pat.range[2] THEN here
      ELSE here \o Each(Edges(at.node, n.pat, cx), Follow)

\* Walks without a repeated relationship, depth first.
VarExpand(n, row, cx) ==
  LET to == BoundTo(row, n.pat)
      Rows(from) == IF IsError(to) THEN <<Invalid>>
                    ELSE IF to.int = -1 \/ ~AtMost(n.pat, Min(n.pat)) THEN <<>>
                    ELSE Walks(n, Origin(from), row, cx)
  IN  FromNode(row, n.pat.from, cx, Rows)

-----------------------------------------------------------------------------
(* Shortest paths: breadth first.  s has the queue of walks, the outputs,  *)
(* the length of the shortest output per node and the best depth per node. *)

Depth(f, n) == IF n \in DOMAIN f THEN f[n] ELSE -1
SetDepth(f, n, d) == [x \in DOMAIN f \cup {n} |-> IF x = n THEN d ELSE f[x]]

\* A walk is no longer of use once the node has a shorter one.
Outdone(s, node, depth, target) ==
  node \in DOMAIN s.shortest /\ (IF target >= 0 THEN depth >= s.shortest[node] ELSE depth > s.shortest[node])

\* A walk that is long enough goes on only if no shorter one came by.
Deepens(s, next, depth, pat) == depth < Min(pat) \/ next.node \notin DOMAIN s.best \/ s.best[next.node] >= depth

SearchEdge(s, at, e, target, pat, cx) ==
  LET next    == Step(at, e.rel, cx, pat.dir)
      depth   == Len(next.rels)
      reaches == (target < 0 \/ next.node = target) /\ depth >= Min(pat)
      known   == Depth(s.shortest, next.node)
      emitted == IF ~reaches THEN s
                 ELSE IF known = -1 \/ depth < known
                 THEN [s EXCEPT !.shortest = SetDepth(@, next.node, depth), !.outputs = Append(@, next)]
                 ELSE IF depth = known /\ pat.shortest = "all" THEN [s EXCEPT !.outputs = Append(@, next)]
                 ELSE s
      best    == Depth(emitted.best, next.node)
      deepest == IF depth >= Min(pat) /\ (best = -1 \/ best > depth)
                 THEN [emitted EXCEPT !.best = SetDepth(@, next.node, depth)] ELSE emitted
  IN  IF e.rel \in at.used \/ ~AtMost(pat, depth) THEN s
      ELSE IF reaches /\ target >= 0 THEN emitted
      ELSE IF Outdone(emitted, next.node, depth, target) THEN emitted
      ELSE IF ~Deepens(emitted, next, depth, pat) THEN emitted
      ELSE [deepest EXCEPT !.queue = Append(@, next)]

RECURSIVE ShortestSearch(_, _, _, _)
ShortestSearch(s, target, pat, cx) ==
  IF s.queue = <<>> THEN s.outputs
  ELSE LET at    == Head(s.queue)
           depth == Len(at.rels)
           rest  == [s EXCEPT !.queue = Tail(@)]
           edges == Edges(at.node, pat, cx)
           R[i \in 0 .. Len(edges)] == IF i = 0 THEN rest ELSE SearchEdge(R[i - 1], at, edges[i], target, pat, cx)
           done  == (target \in DOMAIN s.shortest /\ depth >= s.shortest[target]) \/ Outdone(s, at.node, depth, target)
       IN  ShortestSearch(IF done THEN rest ELSE R[Len(edges)], target, pat, cx)

\* Between two bound nodes, or from a node to every node it reaches.  One
\* shortest path between bound nodes that does not exist is null.
ShortestVarExpand(n, row, cx) ==
  LET bound == BoundTo(row, n.pat)
      target == IF bound.int = -2 THEN -1 ELSE bound.int
      Rows(from) ==
        LET self == target = from /\ Min(n.pat) = 0
            init == [queue |-> <<Origin(from)>>, outputs |-> IF self THEN <<Origin(from)>> ELSE <<>>,
                     shortest |-> IF self THEN SetDepth(<<>>, from, 0) ELSE <<>>,
                     best |-> IF Min(n.pat) <= 1 THEN SetDepth(<<>>, from, 0) ELSE <<>>]
            found == ShortestSearch(init, target, n.pat, cx)
            Row(at) == WalkRow(n, row, at)
        IN  IF IsError(bound) THEN <<Invalid>>
            ELSE IF bound.int = -1 \/ ~AtMost(n.pat, Min(n.pat)) THEN <<>>
            ELSE IF found = <<>> /\ target >= 0 /\ n.pat.shortest = "one" THEN TryBindOptional(row, n.pat.rel, Null)
            ELSE Each(found, Row)
  IN  FromNode(row, n.pat.from, cx, Rows)

-----------------------------------------------------------------------------
(* The nodes that a directed walk of variable length reaches, each once.   *)

\* A node is emitted when it is first visited; the start, visited from the
\* outset, when a cycle leads back to it.
Reached(s, to, start) ==
  (IF to = start /\ ~s.startEmitted THEN <<to>> ELSE <<>>) \o (IF to \in s.visited THEN <<>> ELSE <<to>>)

RECURSIVE PruningSearch(_, _, _, _)
PruningSearch(s, start, pat, cx) ==
  IF s.queue = <<>> THEN s.out
  ELSE LET from  == Head(s.queue)[1]
           depth == Head(s.queue)[2]
           rest  == [s EXCEPT !.queue = Tail(@)]
           edges == Edges(from, pat, cx)
           Visit(t, e) ==
             LET to == OtherEnd(cx.g, e.rel, from, pat.dir)
             IN  [out |-> t.out \o Reached(t, to, start), visited |-> t.visited \cup {to},
                  startEmitted |-> t.startEmitted \/ to = start,
                  queue |-> IF to \in t.visited THEN t.queue ELSE Append(t.queue, <<to, depth + 1>>)]
           R[i \in 0 .. Len(edges)] == IF i = 0 THEN rest ELSE Visit(R[i - 1], edges[i])
       IN  PruningSearch(IF Len(pat.range) = 2 /\ depth = pat.range[2] THEN rest ELSE R[Len(edges)], start, pat, cx)
PruningVarExpand(n, row, cx) ==
  LET zero == Min(n.pat) = 0
      Row(v) == TryBindAt(row, n.pat.to, v)
      Rows(from) == Each(Nodes_(PruningSearch(
        [out |-> IF zero THEN <<from>> ELSE <<>>, visited |-> {from}, startEmitted |-> zero, queue |-> <<<<from, 0>>>>],
        from, n.pat, cx)), Row)
  IN  FromNode(row, n.pat.from, cx, Rows)

-----------------------------------------------------------------------------

\* The variables a row lacks become null.
WithNulls(row, vars) == Override([n \in vars \ {""} |-> Null], row)

\* Without a match that satisfies the predicates, one row with nulls.
OptionalExpand(n, row, cx) ==
  LET Keep(r) == AllTrue(n.preds, r, cx)
      found == Each(ExpandFrom(n.pat, row, cx), Keep)
  IN  IF found = <<>> THEN <<WithNulls(row, {n.pat.rel, n.pat.to})>> ELSE found

\* The ends of the relationship, or list of relationships, that a row holds.
EndpointPairs(pat, v, row, cx) ==
  LET rels == IF IsList(v) THEN [i \in DOMAIN v.list |-> v.list[i].rel] ELSE <<v.rel>>
      first == cx.g.rels[rels[1]]
      starts == IF pat.dir = "out" THEN <<first.src>>
                ELSE IF pat.dir = "in" \/ first.src = first.dst THEN <<first.dst>> ELSE <<first.src, first.dst>>
      Next(r, at) == IF pat.dir # "in" /\ cx.g.rels[r].src = at THEN cx.g.rels[r].dst
                     ELSE IF pat.dir # "out" /\ cx.g.rels[r].dst = at THEN cx.g.rels[r].src ELSE -1
      End(start) == LET R[i \in 0 .. Len(rels)] ==
                          IF i = 0 THEN start ELSE LET at == R[i - 1] IN IF at = -1 THEN -1 ELSE Next(rels[i], at)
                    IN  R[Len(rels)]
      bound == IF pat.from \in DOMAIN row THEN NodeId(row, pat.from) ELSE BoundTo(row, pat)
      Ends(i) == <<starts[i], End(starts[i])>>
      Connected(p) == p[2] # -1
  IN  IF \/ pat.range # <<>> /\ (Len(rels) < Min(pat) \/ ~AtMost(pat, Len(rels)))
         \/ \E i \in DOMAIN rels : \/ ~FindRelationshipById(pat.types, rels[i], cx)
                                   \/ \E j \in 1 .. i - 1 : rels[j] = rels[i]
      THEN <<>>
      ELSE IF rels = <<>> THEN IF IsError(bound) THEN <<Failed>> ELSE IF bound.int < 0 THEN <<>> ELSE <<<<bound.int, bound.int>>>>
      ELSE SelectSeq([i \in DOMAIN starts |-> Ends(i)], Connected)
ProjectEndpoints(n, row, cx) ==
  LET v == Lookup(row, n.pat.rel)
      pairs == EndpointPairs(n.pat, v, row, cx)
      Rows[i \in 0 .. Len(pairs)] ==
        IF i = 0 THEN <<>> ELSE Rows[i - 1] \o TryBindAll(row, <<n.pat.from, n.pat.to>>, <<Node(pairs[i][1]), Node(pairs[i][2])>>)
  IN  IF IsError(v) THEN <<Invalid>>
      ELSE IF IsNull(v) THEN <<>>
      ELSE IF (IF n.pat.range = <<>> THEN ~Is(v, "rel") ELSE ~IsList(v)) THEN <<Invalid>>
      ELSE IF n.pat.range # <<>> /\ \E i \in DOMAIN v.list : ~Is(v.list[i], "rel") THEN <<>>
      ELSE IF pairs = <<Failed>> THEN <<Invalid>> ELSE Rows[Len(pairs)]

\* The node after a sequence of relationships walked from at, or -1.
Traverse(rels, at, cx) ==
  LET R[i \in 0 .. Len(rels)] ==
        IF i = 0 THEN at
        ELSE LET r == cx.g.rels[rels[i]]
                 last == R[i - 1]
             IN  IF r.src = last THEN r.dst ELSE IF r.dst = last THEN r.src ELSE -1
  IN  R[Len(rels)]

\* The path value of a pattern: its relationships in walking order, a list
\* turned round where it was found from the other end.
BuildPathValue(path, row, cx) ==
  LET RelsAt(i) == LET v == Lookup(row, path.rels[i])
                   IN  IF IsList(v) THEN [k \in DOMAIN v.list |-> v.list[k].rel] ELSE <<v.rel>>
      Usable(i) == LET v == Lookup(row, path.rels[i])
                   IN  Is(v, "rel") \/ (IsList(v) /\ \A k \in DOMAIN v.list : Is(v.list[k], "rel"))
      Nodes_Of(rels, at) == [i \in DOMAIN rels |-> Traverse(SubSeq(rels, 1, i), at, cx)]
      R[i \in 0 .. Len(path.rels)] ==
        IF i = 0 THEN LET id == NodeId(row, path.nodes[1])
                      IN  IF IsError(id) \/ id = Int_(-1) THEN Invalid ELSE Path(<<id.int>>, <<>>)
        ELSE LET built == R[i - 1]
                 so == built.path
                 at == so.nodes[Len(so.nodes)]
                 target == NodeId(row, path.nodes[i + 1])
                 rels == IF Traverse(RelsAt(i), at, cx) = target.int THEN RelsAt(i) ELSE Backwards(RelsAt(i))
             IN  IF IsError(built) \/ IsNull(built) THEN built
                 ELSE IF IsError(Lookup(row, path.rels[i])) THEN Invalid
                 ELSE IF path.shortest # "none" /\ IsNull(row[path.rels[i]]) THEN Null
                 ELSE IF ~Usable(i) \/ IsError(target) THEN Invalid
                 ELSE IF Traverse(rels, at, cx) # target.int THEN Invalid
                 ELSE Path(so.nodes \o Nodes_Of(rels, at), so.rels \o rels)
  IN  R[Len(path.rels)]
PathBuild(n, row, cx) == LET v == BuildPathValue(n.path, row, cx) IN IF IsError(v) THEN <<Invalid>> ELSE TryBindAt(row, n.path.var, v)
=============================================================================
