-------------------------- MODULE CypherReference --------------------------
(***************************************************************************)
(* What a statement means, independently of rewriters, planner and         *)
(* operators: each clause maps the rows before it to the rows after it,    *)
(* and is finished before the next begins.  The engine is compared with    *)
(* this definition; it models no code.                                     *)
(*                                                                         *)
(* Shared with the engine: the values, the functions and the storage       *)
(* primitives.  A statement is as parsed, in the normal expression forms.  *)
(***************************************************************************)
EXTENDS Planner, Validator

RefContext(g) == [g |-> g, params |-> g.session.params, pre |-> <<>>, clock |-> 0, live |-> TRUE,
                  indexes |-> {g.session.indexes[name] : name \in DOMAIN g.session.indexes}]

-----------------------------------------------------------------------------
(* Patterns.  A match is the row it binds and the trail that identifies    *)
(* it: the nodes it starts from and the relationships it takes.            *)

RefEnds(g, r, n, dir) ==
  LET e == g.rels[r]
  IN  (IF dir # "in" /\ e.src = n THEN {e.dst} ELSE {}) \cup (IF dir # "out" /\ e.dst = n THEN {e.src} ELSE {})
RefUsed(m) == {m.trail[i] : i \in DOMAIN m.trail}
RefBindable(row, n, v) == n \in DOMAIN row => row[n] = v

RECURSIVE RefExpression(_, _, _, _)
RefHolds(x, row, g) == x = None \/ RefExpression(x, row, <<>>, g) = True
RefPropertiesHold(props, v, row, g) ==
  IF props = None THEN TRUE
  ELSE \A i \in DOMAIN props.a :
         LET k == props.ks[i]
             own == PropertiesOf(v, g)
         IN  k \in DOMAIN own /\ EqualityTruth(own[k], RefExpression(props.a[i], row, <<>>, g)) = True
RefNode(np, m, n, g) ==
  IF np.labels \subseteq g.labels[n] /\ RefBindable(m.row, np.var, [node |-> n])
  THEN {[m EXCEPT !.row = Bind(@, np.var, [node |-> n]), !.at = n, !.nodes = Append(@, n)]} ELSE {}

\* Trails from m over relationships rp allows, of min to max relationships.
RECURSIVE RefTrails(_, _, _, _)
RefTrails(rp, m, left, g) ==
  {m} \cup (IF left = 0 THEN {}
            ELSE UNION {RefTrails(rp, [m EXCEPT !.trail = Append(@, [rel |-> r]), !.at = n], left - 1, g) :
                          <<r, n>> \in {x \in (DOMAIN g.rels) \X (DOMAIN g.labels) :
                                          /\ x[2] \in RefEnds(g, x[1], m.at, rp.dir)
                                          /\ rp.types = {} \/ g.rels[x[1]].type \in rp.types
                                          /\ [rel |-> x[1]] \notin RefUsed(m)
                                          /\ RefPropertiesHold(rp.props, [rel |-> x[1]], m.row, g)}})
RefHop(rp, m, g) ==
  LET fixed == rp.range = <<>>
      min == IF fixed THEN 1 ELSE rp.range[1]
      max == IF fixed THEN 1 ELSE IF Len(rp.range) = 2 THEN rp.range[2] ELSE Cardinality(DOMAIN g.rels)
      Taken(t) == SubSeq(t.trail, Len(m.trail) + 1, Len(t.trail))
      Value(t) == IF fixed THEN Taken(t)[1] ELSE List(Taken(t))
  IN  {[t EXCEPT !.row = Bind(@, rp.var, Value(t))] :
         t \in {t \in RefTrails(rp, m, max, g) : Len(Taken(t)) >= min /\ RefBindable(m.row, rp.var, Value(t))}}
RefPart(part, matches, g) ==
  LET Starts == UNION {UNION {RefNode(part.nodes[1], [m EXCEPT !.trail = Append(@, [node |-> n]), !.from = Len(m.trail) + 1, !.nodes = <<>>], n, g)
                                : n \in DOMAIN g.labels} : m \in matches}
      R[i \in 0 .. Len(part.rels)] ==
        IF i = 0 THEN Starts
        ELSE UNION {UNION {RefNode(part.nodes[i + 1], t, t.at, g) : t \in RefHop(part.rels[i], m, g)} : m \in R[i - 1]}
      \* The node properties may use any variable of the pattern.
      Checked == {m \in R[Len(part.rels)] :
                    \A i \in DOMAIN part.nodes :
                       RefPropertiesHold(part.nodes[i].props, [node |-> m.nodes[i]], m.row, g)}
      Hops(m) == Len(m.trail) - m.from
      SameEnds(m, o) == m.at = o.at /\ m.trail[m.from] = o.trail[o.from]
      Shortest == {m \in Checked : \A o \in Checked : SameEnds(m, o) => Hops(m) <= Hops(o)}
      Walk_(m) == [i \in 1 .. Hops(m) |-> m.trail[m.from + i].rel]
      Nodes__(m) == LET N[i \in 0 .. Hops(m)] ==
                          IF i = 0 THEN m.trail[m.from].node
                          ELSE LET e == g.rels[Walk_(m)[i]] IN IF e.src = N[i - 1] THEN e.dst ELSE e.src
                    IN  [i \in 1 .. Hops(m) + 1 |-> N[i - 1]]
      \* shortestPath() between nodes without a path is null.
      EndPairs == UNION {UNION {RefNode(part.nodes[2], m, n, g) : n \in DOMAIN g.labels} : m \in Starts}
      Apart == {[m EXCEPT !.row = Bind(Bind(@, part.rels[1].var, Null), part.path, Null)] :
                  m \in {e \in EndPairs : /\ \A o \in Checked : ~SameEnds(e, o)
                                      /\ \A i \in 1 .. 2 : RefPropertiesHold(part.nodes[i].props, [node |-> e.nodes[i]], e.row, g)}}
  IN  {[m EXCEPT !.row = Bind(@, part.path, Path(Nodes__(m), Walk_(m)))] : m \in IF part.shortest = "none" THEN Checked ELSE Shortest}
        \cup (IF part.shortest = "one" THEN Apart ELSE {})
RefPattern(parts, row, g) ==
  LET R[i \in 0 .. Len(parts)] == IF i = 0 THEN {[row |-> row, trail |-> <<>>, nodes |-> <<>>, at |-> 0, from |-> 0]} ELSE RefPart(parts[i], R[i - 1], g)
  IN  R[Len(parts)]

\* The elements of a set, in some order.
RECURSIVE RefSequence(_)
RefSequence(s) == IF s = {} THEN <<>> ELSE LET x == CHOOSE x \in s : TRUE IN <<x>> \o RefSequence(s \ {x})
RefMatch(parts, where, row, g) ==
  LET ms == RefSequence({m \in RefPattern(parts, row, g) : RefHolds(where, m.row, g)}) IN [i \in DOMAIN ms |-> ms[i].row]

-----------------------------------------------------------------------------
(* Expressions: subqueries and, over a group, aggregations are replaced by *)
(* their values first.                                                     *)

RECURSIVE RefRows(_, _, _)
RECURSIVE RefDistinct(_)
RefDistinct(s) ==
  IF s = <<>> THEN <<>>
  ELSE LET rest == RefDistinct(SubSeq(s, 1, Len(s) - 1))
       IN  IF \E i \in DOMAIN rest : ValueEqual(rest[i], s[Len(s)]) THEN rest ELSE Append(rest, s[Len(s)])
RefAggregate(x, group, g) ==
  LET NotNull(v) == ~IsNull(v)
      all == SelectSeq([i \in DOMAIN group |-> RefExpression(x.a[1], group[i], <<>>, g)], NotNull)
      vs == IF x.distinct THEN RefDistinct(all) ELSE all
      Sum_[i \in 0 .. Len(vs)] == IF i = 0 THEN Int_(0) ELSE EvaluateArithmetic("+", Sum_[i - 1], vs[i])
      Least(v) == \A i \in DOMAIN vs : CompareValues(v, vs[i]) <= 0
      \* Halves: at least this part of the values is at most v.
      Covers(v) == 2 * Cardinality({i \in DOMAIN vs : CompareValues(vs[i], v) <= 0}) >= Len(vs) * RefExpression(x.a[2], group[1], <<>>, g).dbl
      covering == SelectSeq(vs, Covers)
      Greatest(v) == \A i \in DOMAIN vs : CompareValues(v, vs[i]) >= 0
  IN  IF x = CountStar THEN Int_(Len(group))
      ELSE CASE x.f = "count"   -> Int_(Len(vs))
             [] x.f = "collect" -> List(vs)
             [] x.f = "sum"     -> Sum_[Len(vs)]
             [] x.f = "avg"     -> IF vs = <<>> THEN Null ELSE EvaluateArithmetic("/", Sum_[Len(vs)], D(2 * Len(vs)))
             [] x.f = "percentileDisc" ->
                  IF vs = <<>> THEN Null ELSE covering[CHOOSE i \in DOMAIN covering : \A j \in DOMAIN covering : CompareValues(covering[i], covering[j]) <= 0]
             [] x.f = "min"     -> IF vs = <<>> THEN Null ELSE SelectSeq(vs, Least)[1]
             [] x.f = "max"     -> IF vs = <<>> THEN Null ELSE SelectSeq(vs, Greatest)[1]
RefExists(x, row, g) ==
  IF x.query = <<>> THEN RefMatch(x.pattern, x.a[1], row, g) # <<>>
  ELSE \E i \in DOMAIN x.query : RefRows(x.query[i], row, g) # <<>>
RefComprehension(x, row, g) ==
  LET rows == RefMatch(<<x.part>>, x.a[1], row, g) IN List([i \in DOMAIN rows |-> RefExpression(x.a[2], rows[i], <<>>, g)])
RECURSIVE RefSubstituted(_, _, _, _)
RefSubstituted(x, row, group, g) ==
  CASE group # <<>> /\ IsAggregateCall(x) -> Literal(RefAggregate(x, group[1], g))
    [] x.e = "exists"                     -> Literal(Bool(RefExists(x, row, g)))
    [] x.e = "pattern"                    -> Literal(RefComprehension(x, row, g))
    [] x.e \in Quantifiers \cup {"comp"}  -> [x EXCEPT !.a[1] = RefSubstituted(x.a[1], row, group, g)]
    [] OTHER                              -> [x EXCEPT !.a = [i \in DOMAIN x.a |-> RefSubstituted(x.a[i], row, group, g)]]
\* group: <<>>, or <<rows>> to aggregate over.
RefExpression(x, row, group, g) == Evaluate(RefSubstituted(x, row, group, g), row, RefContext(g))

-----------------------------------------------------------------------------
(* WITH and RETURN.                                                        *)

RefItems(proj, rows) ==
  LET star == IF rows = <<>> THEN {} ELSE DOMAIN rows[1]
      ns == InNameOrder(star)
  IN  (IF proj.star THEN [i \in DOMAIN ns |-> [alias |-> ns[i], x |-> Var(ns[i])]] ELSE <<>>) \o FillAliases(proj).items
RefKey(items, row, g) ==
  LET Key(item) == ~HasAggregation(item.x)
      ks == SelectSeq(items, Key) IN [i \in DOMAIN ks |-> RefExpression(ks[i].x, row, <<>>, g)]
RefSame(s, t) == Len(s) = Len(t) /\ \A i \in DOMAIN s : ValueEqual(s[i], t[i])
\* Rows with equal grouping values; without grouping values one group, even of no rows.
RefGroups(items, rows, g) ==
  LET keys == [i \in DOMAIN rows |-> RefKey(items, rows[i], g)]
      firsts == {i \in DOMAIN rows : \A j \in 1 .. (i - 1) : ~RefSame(keys[i], keys[j])}
      Group(i) == LET In(j) == RefSame(keys[i], keys[j])
                      member == SelectSeq([j \in DOMAIN rows |-> j], In) IN [j \in DOMAIN member |-> rows[member[j]]]
      f == RefSequence(firsts)
  IN  IF \A i \in DOMAIN items : HasAggregation(items[i].x) THEN <<rows>> ELSE [i \in DOMAIN f |-> Group(f[i])]
\* out: the projected row; env: what ORDER BY sees.
RefProjected(items, group, aggregates, g) ==
  LET first == IF group = <<>> THEN [n \in {} |-> Null] ELSE group[1]
      over == IF aggregates THEN <<group>> ELSE <<>>
      Of(n) == CHOOSE i \in DOMAIN items : items[i].alias = n
      out == [n \in Aliases(items) |-> RefExpression(items[Of(n)].x, first, over, g)]
  IN  [out |-> out, env |-> Override(first, out), group |-> over]
\* The rows with keys[i] sorting s[i], in order, rows with equal keys as they came.
RefSort(proj, s, g) ==
  LET by == [i \in DOMAIN proj.order |-> AliasReferences(proj.order[i].x, FillAliases(proj).items)]
      keys == [i \in DOMAIN s |-> [k \in DOMAIN by |-> RefExpression(by[k], s[i].env, s[i].group, g)]]
      Earlier(j, i) == \/ SortKeysComeBefore(proj.order, keys[j], keys[i])
                       \/ j < i /\ ~SortKeysComeBefore(proj.order, keys[i], keys[j])
      rank == [i \in DOMAIN s |-> 1 + Cardinality({j \in DOMAIN s : Earlier(j, i)})]
  IN  [r \in DOMAIN s |-> s[CHOOSE i \in DOMAIN s : rank[i] = r]]
\* outer: the variables around the projection, visible in its WHERE and after it.
RefProjection(proj, rows, outer, g) ==
  LET items == RefItems(proj, rows)
      aggregates == \E i \in DOMAIN items : HasAggregation(items[i].x)
      groups == IF aggregates THEN RefGroups(items, rows, g) ELSE [i \in DOMAIN rows |-> <<rows[i]>>]
      all == [i \in DOMAIN groups |-> RefProjected(items, groups[i], aggregates, g)]
      SameOut(p, q) == \A n \in DOMAIN p.out : ValueEqual(p.out[n], q.out[n])
      Kept_[i \in 0 .. Len(all)] ==
        IF i = 0 THEN <<>>
        ELSE LET so == Kept_[i - 1] IN IF \E j \in DOMAIN so : SameOut(so[j], all[i]) THEN so ELSE Append(so, all[i])
      kept == IF proj.distinct THEN Kept_[Len(all)] ELSE all
      sorted == IF proj.order = <<>> THEN kept ELSE RefSort(proj, kept, g)
      Count(x, default) == IF x = None THEN default ELSE RefExpression(x, [n \in {} |-> Null], <<>>, g).int
      skip == Count(proj.skip, 0)
      end == LET e == skip + Count(proj.limit, Len(sorted)) IN IF e > Len(sorted) THEN Len(sorted) ELSE e
      page == SubSeq(sorted, skip + 1, end)
      outs == [i \in DOMAIN page |-> Override(outer, page[i].out)]
      Where(r) == RefHolds(proj.where, r, g)
  IN  SelectSeq(outs, Where)

-----------------------------------------------------------------------------
(* Clauses.                                                                *)

RefUnwound(c, row, g) ==
  LET v == RefExpression(c.x, row, <<>>, g)
      vs == IF IsNull(v) THEN <<>> ELSE IF IsList(v) THEN v.list ELSE <<v>>
  IN  [i \in DOMAIN vs |-> Bind(row, c.var, vs[i])]
RefRead(c, row, g) ==
  IF c.c = "unwind" THEN RefUnwound(c, row, g)
  ELSE LET rows == RefMatch(c.pattern, c.where, row, g)
       IN  IF rows = <<>> /\ c.optional THEN <<WithNulls(row, PatternVariables(c.pattern) \ DOMAIN row)>> ELSE rows
\* Calls answer in records; what an index answers is what a scan would.
RefIndexed(c, args, g) ==
  LET on == g.session.indexes[args[1]]
      Above(v, bound, closed) == IF IsNull(bound) THEN TRUE ELSE bound.int < v.int \/ (closed /\ bound = v)
      Below(v, bound, closed) == IF IsNull(bound) THEN TRUE ELSE v.int < bound.int \/ (closed /\ bound = v)
      Closed(side) == IF side \in DOMAIN args[4].map THEN args[4].map[side].bool ELSE TRUE
      Found(n) == /\ on[1] \in g.labels[n] /\ on[2] \in DOMAIN g.props[n]
                  /\ IF c.proc = "db.index.queryNodes" THEN ValueEqual(g.props[n][on[2]], args[2])
                     ELSE Above(g.props[n][on[2]], args[2], Closed("left_closed")) /\ Below(g.props[n][on[2]], args[3], Closed("right_closed"))
      ids == RefSequence({n \in DOMAIN g.labels : Found(n)})
  IN  [records |-> [i \in DOMAIN ids |-> [f \in {"node"} |-> [node |-> ids[i]]]], requests |-> <<>>, failed |-> FALSE]
RefCalled(c, row, g) ==
  LET args == [i \in DOMAIN c.xs |-> RefExpression(c.xs[i], row, <<>>, g)]
      call == [proc |-> c.proc, xs |-> [i \in DOMAIN args |-> Plain(Literal(args[i]))], yields |-> ProcedureYields(c),
               readOnly |-> KnownProcedureReadOnly(c.proc)]
      done == ExecuteProcedure(call, row, RefContext(g))
  IN  IF AnyError(args) THEN NoCall
      ELSE IF c.proc \in {"db.index.queryNodes", "db.index.rangeQueryNodes"} /\ ~done.failed THEN RefIndexed(c, args, g) ELSE done
RefCall(c, rows, g) ==
  LET yields == ProcedureYields(c)
      Row(row, rec) == LET R[i \in 0 .. Len(yields)] == IF i = 0 THEN row ELSE Bind(R[i - 1], yields[i].var, rec[yields[i].field])
                       IN  R[Len(yields)]
      Holds(row) == RefHolds(c.where, row, g)
      R[i \in 0 .. Len(rows)] ==
        IF i = 0 THEN [rows |-> <<>>, g |-> g]
        ELSE LET so == R[i - 1]
                 call == RefCalled(c, rows[i], g)
                 made == IF call.failed THEN <<Invalid>> ELSE [j \in DOMAIN call.records |-> Row(rows[i], call.records[j])]
             IN  IF AnyError(so.rows) THEN so
                 ELSE [rows |-> so.rows \o made, g |-> [so.g EXCEPT !.requests = @ \o call.requests]]
      all == R[Len(rows)]
  IN  IF AnyError(all.rows) THEN [all EXCEPT !.rows = <<Invalid>>] ELSE [all EXCEPT !.rows = SelectSeq(@, Holds)]
RefReading(cs, rows, g) ==
  LET R[i \in 0 .. Len(cs)] ==
        IF i = 0 THEN [rows |-> rows, g |-> g]
        ELSE LET so == R[i - 1]
             IN  IF AnyError(so.rows) THEN so
                 ELSE IF cs[i].c = "call" THEN RefCall(cs[i], so.rows, so.g)
                 ELSE [so EXCEPT !.rows = Concat([j \in DOMAIN so.rows |-> RefRead(cs[i], so.rows[j], g)])]
  IN  R[Len(cs)]
\* Rows of a subquery; the variables around it stay visible throughout.
RefRows(parts, outer, g) ==
  LET R[i \in 0 .. Len(parts)] ==
        IF i = 0 THEN <<outer>>
        ELSE RefProjection(parts[i].proj, RefReading(parts[i].reading, R[i - 1], g).rows, outer, g)
  IN  R[Len(parts)]

\* One row through an updating clause: rows after it, and the graph.
RefCreate(parts, row, g) ==
  LET Write(c, r, cx) == ExecuteStreamingWrite(IF "node" \in DOMAIN c THEN [op |-> "CreateNode", node |-> c.node]
                                               ELSE [op |-> "CreateRelationship", rel |-> c.rel], r, cx)
  IN  InSequence(BuildCreatePattern(parts, DOMAIN row).commands, row, RefContext(g), Write)
RefSets(sets, row, g) ==
  LET Value(x, r, cx) == Plain(RefSubstituted(x, r, <<>>, cx.g))
      Write(item, r, cx) ==
        ExecuteStreamingWrite(Override(item, [f \in DOMAIN item \cap {"entity", "x"} |-> Value(item[f], r, cx)]), r, cx)
  IN  InSequence(sets, row, RefContext(g), Write)
RefActions(actions, onMatch, row, g) ==
  RefSets(Concat([i \in DOMAIN actions |-> IF actions[i].onMatch = onMatch THEN actions[i].sets ELSE <<>>]), row, g)
RefMergeCreate(parts, row, g) ==
  InSequence(BuildCreatePattern(parts, DOMAIN row).commands, row, RefContext(g), ExecuteMergeCreate)
RefUpdateRow(c, row, g) ==
  CASE c.c = "create"            -> LET w == RefCreate(c.pattern, row, g) IN [rows |-> w.row, g |-> w.g]
    [] c.c \in {"set", "remove"} -> LET w == RefSets(c.sets, row, g) IN [rows |-> w.row, g |-> w.g]
    [] c.c = "merge"             ->
         LET found == RefMatch(<<c.part>>, None, row, g)
             R[i \in 0 .. Len(found)] ==
               IF i = 0 THEN [rows |-> <<>>, g |-> g]
               ELSE LET so == R[i - 1]
                        w == RefActions(c.actions, TRUE, found[i], so.g) IN [rows |-> so.rows \o w.row, g |-> w.g]
             made == RefMergeCreate(<<c.part>>, row, g)
             w == RefActions(c.actions, FALSE, made.row[1], made.g)
         IN  IF found # <<>> THEN R[Len(found)] ELSE IF IsError(made.row[1]) THEN [rows |-> made.row, g |-> g] ELSE [rows |-> w.row, g |-> w.g]
RefDelete(c, rows, g) ==
  LET vs == Concat([i \in DOMAIN rows |-> [j \in DOMAIN c.xs |-> RefExpression(c.xs[j], rows[i], <<>>, g)]])
      NotNull(v) == ~IsNull(v)
      after == DeleteEntities(SelectSeq(vs, NotNull), c.detach, g)
  IN  IF "error" \in DOMAIN after THEN [rows |-> <<Invalid>>, g |-> g] ELSE [rows |-> rows, g |-> after]
RefUpdate(c, s) ==
  LET R[i \in 0 .. Len(s.rows)] ==
        IF i = 0 THEN [rows |-> <<>>, g |-> s.g]
        ELSE LET so == R[i - 1]
                 w == RefUpdateRow(c, s.rows[i], so.g) IN [rows |-> so.rows \o w.rows, g |-> w.g]
  IN  IF AnyError(s.rows) THEN s ELSE IF c.c = "delete" THEN RefDelete(c, s.rows, s.g) ELSE R[Len(s.rows)]
RefUpdates(cs, s) == LET R[i \in 0 .. Len(cs)] == IF i = 0 THEN s ELSE RefUpdate(cs[i], R[i - 1]) IN R[Len(cs)]
StandaloneCall(part) == \E i \in DOMAIN part.reading : part.reading[i].c = "call" /\ part.reading[i].standalone
RefSingle(parts, g) ==
  LET R[i \in 0 .. Len(parts)] ==
        IF i = 0 THEN [rows |-> <<[n \in {} |-> Null]>>, g |-> g]
        ELSE LET s == R[i - 1]
                 u == RefUpdates(parts[i].updating, RefReading(parts[i].reading, s.rows, s.g))
             IN  IF AnyError(s.rows) THEN s
                 ELSE IF AnyError(u.rows) THEN u
                 ELSE IF StandaloneCall(parts[i]) THEN u
                 ELSE IF ~HasProjection(parts[i]) THEN [u EXCEPT !.rows = <<>>]
                 ELSE [u EXCEPT !.rows = RefProjection(parts[i].proj, @, [n \in {} |-> Null], u.g)]
  IN  R[Len(parts)]
\* UNION of the single queries, each working on the graph the one before left.
RefStatement(q, g) ==
  LET R[i \in 0 .. Len(q.singles)] ==
        IF i = 0 THEN [rows |-> <<>>, g |-> g]
        ELSE LET so == R[i - 1]
                 s == RefSingle(q.singles[i], so.g)
                 both == so.rows \o s.rows
                 Fresh(j) == \A k \in 1 .. (j - 1) : ~\A n \in DOMAIN both[j] : ValueEqual(both[j][n], both[k][n])
                 kept == SelectSeq([j \in DOMAIN both |-> j], Fresh)
             IN  IF AnyError(both) THEN [rows |-> <<Invalid>>, g |-> s.g]
                 ELSE [rows |-> IF i = 1 THEN both ELSE IF q.all[i - 1] THEN both ELSE [j \in DOMAIN kept |-> both[kept[j]]], g |-> s.g]
  IN  R[Len(q.singles)]
=============================================================================
