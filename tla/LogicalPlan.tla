---------------------------- MODULE LogicalPlan ----------------------------
(***************************************************************************)
(* Logical plans: trees of operators, the columns each one produces, the   *)
(* order its rows come in, and the rewrites of a finished plan.            *)
(*                                                                         *)
(* A plan has an operator op, its inputs kids, its columns cols (the       *)
(* symbols it solves) and the operator's data.  Expressions in plans are   *)
(* [x, pre] as in Scans, patterns of relationships as well.  Costs and     *)
(* estimated rows are left out.                                            *)
(***************************************************************************)
EXTENDS Executor

Plain(x) == [x |-> x, pre |-> <<>>]
PlainAll(xs) == [i \in DOMAIN xs |-> Plain(xs[i])]
RangeOfSeq(s) == {s[i] : i \in DOMAIN s}

-----------------------------------------------------------------------------
(* The variables an expression depends on.  local: those an enclosing      *)
(* scope of the expression binds; outer: those visible around it, which a  *)
(* pattern inside refers to rather than binds.                             *)

RECURSIVE CollectDependencies(_, _, _)
AllDependencies(xs, local, outer) == UNION {CollectDependencies(xs[i], local, outer) : i \in DOMAIN xs}
PatternVariables(parts) == UNION {PartVariables(parts[i]) : i \in DOMAIN parts}
PatternProperties(parts) ==
  UNION {{parts[i].nodes[j].props : j \in DOMAIN parts[i].nodes} \cup {parts[i].rels[j].props : j \in DOMAIN parts[i].rels}
           : i \in DOMAIN parts}
\* A pattern's names become local, unless they stand for outer variables.
AddPatternBindings(parts, d, outer) ==
  LET ns == PatternVariables(parts)
      refers == {n \in ns : n \in outer /\ n \notin d.local}
      local == d.local \cup (ns \ refers)
  IN  [local |-> local,
       deps |-> d.deps \cup refers \cup UNION {CollectDependencies(x, local, outer) : x \in PatternProperties(parts)}]
Depends(xs, d, outer) == [d EXCEPT !.deps = @ \cup AllDependencies(xs, d.local, outer)]
Locals(ns, d) == [d EXCEPT !.local = @ \cup (ns \ {""})]

\* A subquery has one scope, which its clauses add to.
ClauseDependencies(c, d, outer) ==
  IF c.c = "match" THEN Depends(<<c.where>>, AddPatternBindings(c.pattern, d, outer), outer)
  ELSE Locals({c.var}, Depends(<<c.x>>, d, outer))
ProjectionDependencies(proj, d, outer) ==
  LET items == Depends([i \in DOMAIN proj.items |-> proj.items[i].x], d, outer)
      named == Locals({proj.items[i].alias : i \in DOMAIN proj.items}, items)
  IN  Depends([i \in DOMAIN proj.order |-> proj.order[i].x] \o <<proj.skip, proj.limit, proj.where>>, named, outer)
PartDependencies(part, d, outer) ==
  LET R[i \in 0 .. Len(part.reading)] == IF i = 0 THEN d ELSE ClauseDependencies(part.reading[i], R[i - 1], outer)
  IN  ProjectionDependencies(part.proj, R[Len(part.reading)], outer)
QueryDependencies(query, local, outer) ==
  LET Single(q, d) == LET R[i \in 0 .. Len(q)] == IF i = 0 THEN d ELSE PartDependencies(q[i], R[i - 1], outer) IN R[Len(q)]
      R[i \in 0 .. Len(query)] == IF i = 0 THEN [local |-> local, deps |-> {}] ELSE Single(query[i], R[i - 1])
  IN  R[Len(query)].deps

Quantifiers == {"all", "any", "none", "single"}
CollectDependencies(x, local, outer) ==
  LET Of(i, ns) == CollectDependencies(x.a[i], local \cup ns, outer)
      scope == [local |-> local, deps |-> {}]
  IN  CASE x.e = "var"         -> {x.n} \ local
        [] x.e = "comp"        -> Of(1, {}) \cup Of(2, {x.n}) \cup Of(3, {x.n})
        [] x.e = "reduce"      -> Of(1, {}) \cup Of(2, {}) \cup Of(3, {x.acc, x.n})
        [] x.e \in Quantifiers -> Of(1, {}) \cup Of(2, {x.n})
        [] x.e = "pattern"     -> Depends(x.a, AddPatternBindings(<<x.part>>, scope, outer), outer).deps
        [] x.e = "exists"      -> IF x.pattern = <<>> THEN QueryDependencies(x.query, local, outer)
                                  ELSE Depends(x.a, AddPatternBindings(x.pattern, scope, outer), outer).deps
        [] OTHER               -> AllDependencies(x.a, local, outer)
\* Without a scope around it a pattern binds all its variables.
Dependencies(x) == CollectDependencies(x, {}, {})

-----------------------------------------------------------------------------
(* Expressions within an expression, those of its subqueries included.     *)

RECURSIVE Subexpressions(_)
ProjectionExpressions(proj) ==
  {proj.items[i].x : i \in DOMAIN proj.items} \cup {proj.order[i].x : i \in DOMAIN proj.order} \cup {proj.skip, proj.limit, proj.where}
ClauseExpressions(c) ==
  CASE c.c = "match"  -> PatternProperties(c.pattern) \cup {c.where}
    [] c.c = "unwind" -> {c.x}
    [] c.c = "call"   -> RangeOfSeq(c.xs) \cup {c.where}
QueryExpressions(query) ==
  UNION {UNION {ProjectionExpressions(query[i][j].proj)
                  \cup UNION {ClauseExpressions(query[i][j].reading[k]) : k \in DOMAIN query[i][j].reading}
                : j \in DOMAIN query[i]} : i \in DOMAIN query}
Operands_(x) ==
  RangeOfSeq(x.a) \cup (CASE x.e = "pattern" -> PatternProperties(<<x.part>>)
                          [] x.e = "exists"  -> PatternProperties(x.pattern) \cup QueryExpressions(x.query)
                          [] OTHER           -> {})
Subexpressions(x) == {x} \cup UNION {Subexpressions(y) : y \in Operands_(x)}

ExpressionIsDeterministic(x) ==
  \A y \in Subexpressions(x) : y.e = "call" => y.f \notin NonDeterministic
\* Only subqueries and pattern comprehensions are searched for.
ContainsExpression(x, nested) == nested.e \in {"exists", "pattern"} /\ nested \in Subexpressions(x)

-----------------------------------------------------------------------------
(* Operators.                                                              *)

Names(ns) == ns \ {""}
PatternNames(pat) == Names({pat.from, pat.rel, pat.to})
Aliases(items) == {items[i].alias : i \in DOMAIN items}

ArgumentPlan(ns) == [op |-> "Argument", kids |-> <<>>, cols |-> ns, vars |-> ns]
AllNodeScanPlan(v) == [op |-> "AllNodeScan", kids |-> <<>>, cols |-> {v}, var |-> v]
NodeByLabelScanPlan(v, labels) == [op |-> "NodeByLabelScan", kids |-> <<>>, cols |-> {v}, var |-> v, labels |-> labels]
NodeByIdSeekPlan(v, ids, many) == [op |-> "NodeByIdSeek", kids |-> <<>>, cols |-> {v}, var |-> v, ids |-> ids, many |-> many]
NodeIndexSeekPlan(v, labels, key, x) ==
  [op |-> "NodeIndexSeek", kids |-> <<>>, cols |-> {v}, var |-> v, labels |-> labels, key |-> key, x |-> x]
NodeIndexRangeSeekPlan(v, labels, key, preds) ==
  [op |-> "NodeIndexRangeSeek", kids |-> <<>>, cols |-> {v}, var |-> v, labels |-> labels, key |-> key, preds |-> preds]
RelationshipTypeScanPlan(pat) == [op |-> "RelationshipTypeScan", kids |-> <<>>, cols |-> PatternNames(pat), pat |-> pat]
RelationshipByIdSeekPlan(pat, ids, many) ==
  [op |-> "RelationshipByIdSeek", kids |-> <<>>, cols |-> PatternNames(pat), pat |-> pat, ids |-> ids, many |-> many]
RelationshipIndexSeekPlan(pat, key, x) ==
  [op |-> "RelationshipIndexSeek", kids |-> <<>>, cols |-> PatternNames(pat), pat |-> pat, key |-> key, x |-> x]
RelationshipIndexRangeSeekPlan(pat, key, preds) ==
  [op |-> "RelationshipIndexRangeSeek", kids |-> <<>>, cols |-> PatternNames(pat), pat |-> pat, key |-> key, preds |-> preds]

ExpandPlan(kid, pat) == [op |-> "Expand", kids |-> <<kid>>, cols |-> kid.cols \cup PatternNames(pat), pat |-> pat]
ExpandIntoPlan(kid, pat) == [op |-> "ExpandInto", kids |-> <<kid>>, cols |-> kid.cols \cup PatternNames(pat), pat |-> pat]
VarExpandPlan(kid, pat, reverse) ==
  [op |-> "VarExpand", kids |-> <<kid>>, cols |-> kid.cols \cup PatternNames(pat), pat |-> pat, reverse |-> reverse]
OptionalExpandPlan(kid, pat, preds) ==
  [op |-> "OptionalExpand", kids |-> <<kid>>, cols |-> kid.cols \cup Names({pat.rel, pat.to}), pat |-> pat, preds |-> preds]
PruningVarExpandPlan(kid, pat) == [op |-> "PruningVarExpand", kids |-> <<kid>>, cols |-> kid.cols \cup {pat.to}, pat |-> pat]
ProjectEndpointsPlan(kid, pat) ==
  [op |-> "ProjectEndpoints", kids |-> <<kid>>, cols |-> kid.cols \cup Names({pat.from, pat.to}), pat |-> pat]
PathBuildPlan(kid, path) == [op |-> "PathBuild", kids |-> <<kid>>, cols |-> kid.cols \cup {path.var}, path |-> path]

FilterPlan(kid, x) == [op |-> "Filter", kids |-> <<kid>>, cols |-> kid.cols, x |-> x]
AssertIsNodePlan(kid, ns) == [op |-> "AssertIsNode", kids |-> <<kid>>, cols |-> kid.cols, vars |-> ns]
ProjectionPlan(kid, items) == [op |-> "Projection", kids |-> <<kid>>, cols |-> Aliases(items), items |-> items]
DistinctPlan(kid, items) == [op |-> "Distinct", kids |-> <<kid>>, cols |-> Aliases(items), items |-> items]
AggregationPlan(kid, items, aggs) ==
  [op |-> "Aggregation", kids |-> <<kid>>, cols |-> Aliases(items) \cup Aliases(aggs), items |-> items, aggs |-> aggs]
SortPlan(kid, order) == [op |-> "Sort", kids |-> <<kid>>, cols |-> kid.cols, order |-> order]
SkipPlan(kid, x) == [op |-> "Skip", kids |-> <<kid>>, cols |-> kid.cols, x |-> x]
LimitPlan(kid, x) == [op |-> "Limit", kids |-> <<kid>>, cols |-> kid.cols, x |-> x]
TopNPlan(kid, order, x) == [op |-> "TopN", kids |-> <<kid>>, cols |-> kid.cols, order |-> order, x |-> x]
ProduceResultsPlan(kid, ns) == [op |-> "ProduceResults", kids |-> <<kid>>, cols |-> ns]
UnwindPlan(kid, x, v) == [op |-> "Unwind", kids |-> <<kid>>, cols |-> kid.cols \cup {v}, x |-> x, var |-> v]
ProcedureCallPlan(kid, proc, xs, yields, readOnly) ==
  [op |-> "ProcedureCall", kids |-> <<kid>>, cols |-> kid.cols \cup Names({yields[i].var : i \in DOMAIN yields}),
   proc |-> proc, xs |-> xs, yields |-> yields, readOnly |-> readOnly]
WriteBarrierPlan(kid) == [op |-> "WriteBarrier", kids |-> <<kid>>, cols |-> kid.cols]

Both(op, l, r) == [op |-> op, kids |-> <<l, r>>, cols |-> l.cols \cup r.cols]
CartesianProductPlan(l, r) == Both("CartesianProduct", l, r)
NodeHashJoinPlan(l, r, keys) == [op |-> "NodeHashJoin", kids |-> <<l, r>>, cols |-> l.cols \cup r.cols, keys |-> keys]
LeftOuterHashJoinPlan(l, r, keys) ==
  [op |-> "LeftOuterHashJoin", kids |-> <<l, r>>, cols |-> l.cols \cup r.cols, keys |-> keys, nullable |-> l.cols \cup r.cols]
\* Each '=' of the predicates gives a key, its sides put in the order of the
\* inputs they depend on.
BuildValueHashJoinKeys(l, r, xs) ==
  LET Key(x) == IF Dependencies(x.a[1]) \subseteq l.cols /\ Dependencies(x.a[2]) \subseteq r.cols
                THEN [l |-> Plain(x.a[1]), r |-> Plain(x.a[2])] ELSE [l |-> Plain(x.a[2]), r |-> Plain(x.a[1])]
  IN  [i \in DOMAIN xs |-> Key(xs[i])]
ValueHashJoinPlan(l, r, xs) ==
  [op |-> "ValueHashJoin", kids |-> <<l, r>>, cols |-> l.cols \cup r.cols, keys |-> BuildValueHashJoinKeys(l, r, xs), preds |-> PlainAll(xs)]
PredicateJoinPlan(l, r, xs) == [op |-> "PredicateJoin", kids |-> <<l, r>>, cols |-> l.cols \cup r.cols, preds |-> PlainAll(xs)]
ApplyPlan(l, r) == Both("Apply", l, r)
OptionalApplyPlan(l, r) == [op |-> "OptionalApply", kids |-> <<l, r>>, cols |-> l.cols \cup r.cols, nullable |-> l.cols \cup r.cols]
SemiApplyPlan(l, r) == [op |-> "SemiApply", kids |-> <<l, r>>, cols |-> l.cols]
AntiSemiApplyPlan(l, r) == [op |-> "AntiSemiApply", kids |-> <<l, r>>, cols |-> l.cols]
LetSemiApplyPlan(l, r, v) == [op |-> "LetSemiApply", kids |-> <<l, r>>, cols |-> l.cols \cup {v}, var |-> v]
SelectOrSemiApplyPlan(l, r, x, anti) == [op |-> "SelectOrSemiApply", kids |-> <<l, r>>, cols |-> l.cols, x |-> x, anti |-> anti]
RollUpApplyPlan(l, r, coll, v) == [op |-> "RollUpApply", kids |-> <<l, r>>, cols |-> l.cols \cup {coll}, coll |-> coll, var |-> v]
UnionPlan(l, r, mappings, all) ==
  [op |-> "Union", kids |-> <<l, r>>, cols |-> {m.out : m \in mappings}, mappings |-> mappings, all |-> all]

CreateNodePlan(kid, node) == [op |-> "CreateNode", kids |-> <<kid>>, cols |-> kid.cols \cup {node.var}, node |-> node]
CreateRelationshipPlan(kid, rel) ==
  [op |-> "CreateRelationship", kids |-> <<kid>>, cols |-> kid.cols \cup Names({rel.left, rel.var, rel.right}), rel |-> rel]
\* creates: the elements in the order they are made.
MergePlan(l, r, creates, actions) ==
  [op |-> "Merge", kids |-> <<l, r>>, creates |-> creates, actions |-> actions,
   cols |-> l.cols \cup r.cols \cup {IF "node" \in DOMAIN creates[i] THEN creates[i].node.var ELSE creates[i].rel.var : i \in DOMAIN creates}]
SetPropertyPlan(kid, entity, k, x) == [op |-> "SetProperty", kids |-> <<kid>>, cols |-> kid.cols, entity |-> entity, k |-> k, x |-> x]
SetPropertiesPlan(kid, entity, x, keep) ==
  [op |-> "SetProperties", kids |-> <<kid>>, cols |-> kid.cols, entity |-> entity, x |-> x, keep |-> keep]
SetLabelsPlan(kid, entity, labels) == [op |-> "SetLabels", kids |-> <<kid>>, cols |-> kid.cols, entity |-> entity, labels |-> labels]
RemovePropertyPlan(kid, entity, k) == [op |-> "RemoveProperty", kids |-> <<kid>>, cols |-> kid.cols, entity |-> entity, k |-> k]
RemoveLabelsPlan(kid, entity, labels) == [op |-> "RemoveLabels", kids |-> <<kid>>, cols |-> kid.cols, entity |-> entity, labels |-> labels]
DeletePlan(kid, xs) == [op |-> "Delete", kids |-> <<kid>>, cols |-> kid.cols, xs |-> xs]
DetachDeletePlan(kid, xs) == [op |-> "DetachDelete", kids |-> <<kid>>, cols |-> kid.cols, xs |-> xs]

-----------------------------------------------------------------------------
(* The order a plan's rows come in: a sequence of [x, asc].                *)

SameOrderItem(i, j) == i.asc = j.asc /\ i.x.x = j.x.x
OrderingSatisfies(provided, required) ==
  Len(provided) >= Len(required) /\ \A i \in DOMAIN required : SameOrderItem(provided[i], required[i])
OrderingDependenciesAvailable(order, ns) == \A i \in DOMAIN order : Dependencies(order[i].x.x) \subseteq ns
OrderingExpressionsDeterministic(order) == \A i \in DOMAIN order : ExpressionIsDeterministic(order[i].x.x)

\* A passthrough item projects the column of its own name.
Passthrough(n) == [alias |-> n, x |-> Plain(Var(n)), pass |-> TRUE]

\* What remains of an order after a projection: an item becomes the alias of
\* the first projected expression equal to it, or stays as it is if all it
\* depends on is a column; the first that does neither ends the order.
ProjectOrdering(order, items, cols) ==
  LET Equal(o) == {i \in DOMAIN items : ~items[i].pass /\ items[i].x.x = o.x.x}
      Kept(o) == Equal(o) # {} \/ Dependencies(o.x.x) \subseteq cols
      Renamed(o) == IF Equal(o) = {} THEN o
                    ELSE [o EXCEPT !.x = Plain(Var(items[CHOOSE i \in Equal(o) : \A j \in Equal(o) : i <= j].alias))]
      lost == {i \in DOMAIN order : ~Kept(order[i])}
      upto == IF lost = {} THEN Len(order) ELSE (CHOOSE i \in lost : \A j \in lost : i <= j) - 1
  IN  [i \in 1 .. upto |-> Renamed(order[i])]

\* Operators that hand on the rows of their first input in its order.
KeepsOrder == {"Filter", "PathBuild", "Skip", "Limit", "ProduceResults", "AssertIsNode", "WriteBarrier", "SetProperty",
               "SetProperties", "SetLabels", "RemoveProperty", "RemoveLabels", "Delete", "DetachDelete", "Expand", "ExpandInto",
               "VarExpand", "ProjectEndpoints", "OptionalExpand", "PruningVarExpand", "SelectOrSemiApply", "Apply", "OptionalApply"}
RECURSIVE OrderingTrait(_)
OrderingTrait(p) ==
  CASE p.op \in KeepsOrder       -> OrderingTrait(p.kids[1])
    [] p.op = "Projection"       -> ProjectOrdering(OrderingTrait(p.kids[1]), p.items, p.cols)
    [] p.op \in {"Sort", "TopN"} -> p.order
    [] OTHER                     -> <<>>

-----------------------------------------------------------------------------
(* Rewrites of a finished plan, each applied from the leaves up.           *)

WritingPlans == {"CreateNode", "CreateRelationship", "Merge", "SetProperty", "SetProperties", "SetLabels", "RemoveProperty",
                 "RemoveLabels", "Delete", "DetachDelete"}
RECURSIVE PlanContainsWrites(_)
PlanContainsWrites(p) ==
  p.op \in WritingPlans \/ (p.op = "ProcedureCall" /\ ~p.readOnly) \/ \E i \in DOMAIN p.kids : PlanContainsWrites(p.kids[i])

\* LIMIT over ORDER BY, with a limit no row decides.
UseTopN(p) ==
  IF /\ p.op = "Limit" /\ p.kids[1].op = "Sort"
     /\ Dependencies(p.x.x) = {} /\ p.x.pre = <<>>
     /\ ~PlanContainsWrites(p.kids[1].kids[1])
  THEN TopNPlan(p.kids[1].kids[1], p.kids[1].order, p.x) ELSE p

\* all(x IN rel WHERE single(y IN rel WHERE x = y)): true of every walk.
IsRelationshipUniqueness(x, rel) ==
  /\ x.e = "all" /\ x.a[1] = Var(rel) /\ x.a[2].e = "single"
  /\ x.a[2].a[1] = Var(rel) /\ rel \notin {x.n, x.a[2].n} /\ x.n # x.a[2].n
  /\ x.a[2].a[2].e = "cmp" /\ x.a[2].a[2].op = "="
  /\ x.a[2].a[2].a \in {<<Var(x.n), Var(x.a[2].n)>>, <<Var(x.a[2].n), Var(x.n)>>}

RECURSIVE FiltersAbove(_)
FiltersAbove(p) == IF p.op = "Filter" THEN <<p.x>> \o FiltersAbove(p.kids[1]) ELSE <<>>
RECURSIVE BelowFilters(_)
BelowFilters(p) == IF p.op = "Filter" THEN BelowFilters(p.kids[1]) ELSE p
\* The filters of xs over a plan, the last of them lowest.
RECURSIVE Filtered(_, _)
Filtered(p, xs) == IF xs = <<>> THEN p ELSE FilterPlan(Filtered(p, Tail(xs)), Head(xs))

\* A directed walk from one step on reaches what some path reaches.
ReachabilitySuffices(expand) ==
  /\ expand.pat.shortest = "none" /\ expand.pat.dir # "both" /\ Min(expand.pat) <= 1
  /\ expand.pat.rel \notin expand.kids[1].cols
\* DISTINCT over a walk whose relationships nobody looks at needs only the
\* nodes it reaches.
PruneDistinctVarExpand(p) ==
  LET expand == BelowFilters(p.kids[1])
      rel == expand.pat.rel
      filters == FiltersAbove(p.kids[1])
      Ignores(px) == px.pre = <<>> /\ ExpressionIsDeterministic(px.x) /\ rel \notin Dependencies(px.x)
      Unique(px) == px.pre = <<>> /\ IsRelationshipUniqueness(px.x, rel)
      Retained(px) == ~Unique(px)
  IN  IF p.op # "Distinct" THEN p
      ELSE IF expand.op # "VarExpand" THEN p
      ELSE IF /\ ReachabilitySuffices(expand)
              /\ \A i \in DOMAIN p.items : Ignores(p.items[i].x)
              /\ \A i \in DOMAIN filters : Unique(filters[i]) \/ Ignores(filters[i])
      THEN [p EXCEPT !.kids = <<Filtered(PruningVarExpandPlan(expand.kids[1], expand.pat), SelectSeq(filters, Retained))>>]
      ELSE p

\* Both rules reach their fixed point in one pass from the leaves up.
RECURSIVE PrunedPlan(_)
PrunedPlan(p) == PruneDistinctVarExpand([p EXCEPT !.kids = [i \in DOMAIN p.kids |-> PrunedPlan(p.kids[i])]])
RECURSIVE TopNsUsed(_)
TopNsUsed(p) == UseTopN([p EXCEPT !.kids = [i \in DOMAIN p.kids |-> TopNsUsed(p.kids[i])]])
RewriteLogicalPlan(p) == TopNsUsed(PrunedPlan(p))

-----------------------------------------------------------------------------
(***************************************************************************)
(* The physical plan of a logical plan, src/runtime/physical_plan.cc: the  *)
(* operator chosen for every node, the columns of its rows, the order they *)
(* are known to come in, and what its subtree does to the graph.  A        *)
(* physical node is the logical one with its operator replaced and the     *)
(* fields below added.  Which side a hash join builds its table from       *)
(* follows from estimates of row counts; here it is a parameter.           *)
(***************************************************************************)

CommonOrderingPrefix(provided, required) ==
  LET Agree(n) == \A i \in 1 .. n : SameOrderItem(provided[i], required[i])
      limit == IF Len(provided) < Len(required) THEN Len(provided) ELSE Len(required)
  IN  CHOOSE n \in 0 .. limit : Agree(n) /\ (n = limit \/ ~Agree(n + 1))

\* The order starts with the grouping expressions, each once, in any order.
GroupsAdjacent(order, items) ==
  /\ items # <<>> /\ Len(order) >= Len(items)
  /\ \E match \in [DOMAIN items -> DOMAIN items] :
       /\ \A i, j \in DOMAIN items : match[i] = match[j] => i = j
       /\ \A i \in DOMAIN items : ~items[match[i]].pass /\ order[i].x.x = items[match[i]].x.x
\* Each order item becomes the alias of the grouping expression it names.
OrderedGroupingOutput(order, items) ==
  LET Named(o) == CHOOSE j \in DOMAIN items : items[j].x.x = o.x.x
  IN  [i \in DOMAIN items |-> [order[i] EXCEPT !.x = Plain(Var(items[Named(order[i])].alias))]]

\* The right input of a correlated operator runs once per row of the left.
Arguments(p, i, left, arg) == IF p.op \in Correlated /\ i = 2 THEN left.cols ELSE arg

ChildOrder(p, kids) ==
  CASE p.op \in KeepsOrder       -> kids[1].provided
    [] p.op = "Projection"       -> ProjectOrdering(kids[1].provided, p.items, p.cols)
    [] p.op \in {"Sort", "TopN"} -> p.order
    [] p.op \in {"Distinct", "Aggregation"} ->
         IF GroupsAdjacent(kids[1].provided, p.items) THEN OrderedGroupingOutput(kids[1].provided, p.items) ELSE <<>>
    [] OTHER                     -> <<>>

\* The operator of a node whose input's order does not matter.
SelectOperatorKind(p) ==
  CASE p.op = "Union"     -> IF p.all THEN "UnionAll" ELSE "UnionDistinct"
    [] p.op = "VarExpand" -> IF p.pat.shortest = "none" THEN "VarExpand" ELSE "ShortestVarExpand"
    [] OTHER              -> p.op
SelectOperator(p, kids) ==
  LET sorted == CommonOrderingPrefix(kids[1].provided, p.order) > 0
      grouped == GroupsAdjacent(kids[1].provided, p.items)
  IN  CASE p.op = "Sort"        -> IF sorted THEN "PartialSort" ELSE "FullSort"
        [] p.op = "TopN"        -> IF sorted THEN "PartialTopN" ELSE "TopN"
        [] p.op = "Distinct"    -> IF grouped THEN "OrderedDistinct" ELSE "HashDistinct"
        [] p.op = "Aggregation" -> IF grouped THEN "OrderedAggregation" ELSE "HashAggregation"
        [] OTHER                -> SelectOperatorKind(p)

OperatorWrites(p) == p.op \in WritingPlans \/ (p.op = "ProcedureCall" /\ ~p.readOnly)

\* What the operators are told besides their expressions: how many of a sort's
\* keys the rows are ordered by already,
SortData(p, kids) == IF p.op \in {"Sort", "TopN"} THEN CommonOrderingPrefix(kids[1].provided, p.order) ELSE 0
\* whether LIMIT pulls its input to the end,
LimitData(p, kids) == p.op = "Limit" /\ kids[1].writes
\* and whether a count needs a row to be evaluated.
PageData(p) == p.op \in {"Skip", "Limit", "TopN"} /\ (Dependencies(p.x.x) # {} \/ p.x.pre # <<>>)
BuildOperatorData(p, kids, build) ==
  [build |-> build, exhaust |-> LimitData(p, kids), prefix |-> SortData(p, kids), needsRow |-> PageData(p)]
\* The arguments are columns of every row a leaf makes.
LeafColumns(p, arg) == IF p.op \in Leaves \ {"Argument"} THEN arg \cup p.cols ELSE p.cols

\* The columns an operator is told the places of, in its own rows (own) and in
\* those of its inputs (in); a name without a place ends the compilation.
Looks(own, in) == [own |-> own, in |-> in]
ScanColumns(p) == Looks(IF "pat" \in DOMAIN p THEN PatternNames(p.pat) ELSE {p.var}, <<>>)
ExpandColumns(p) ==
  CASE p.op = "ExpandInto"       -> Looks({p.pat.rel}, <<{p.pat.from, p.pat.to}>>)
    [] p.op = "PruningVarExpand" -> Looks({p.pat.to}, <<{p.pat.from}>>)
    [] p.op = "ProjectEndpoints" -> Looks({p.pat.from, p.pat.to}, <<{p.pat.rel}>>)
    [] OTHER                     -> Looks({p.pat.rel, p.pat.to}, <<{p.pat.from}>>)
ProjectionColumns(p) ==
  CASE p.op = "PathBuild"  -> Looks({p.path.var}, <<RangeOfSeq(p.path.nodes) \cup RangeOfSeq(p.path.rels)>>)
    [] p.op = "Projection" -> Looks(Aliases(p.items), <<{p.items[i].alias : i \in {i \in DOMAIN p.items : p.items[i].pass}}>>)
    [] OTHER               -> Looks(p.cols, <<{}>>)
RowColumns(p) ==
  CASE p.op = "AssertIsNode"  -> Looks({}, <<p.vars>>)
    [] p.op = "Unwind"        -> Looks({p.var}, <<{}>>)
    [] p.op = "ProcedureCall" -> Looks({p.yields[i].var : i \in DOMAIN p.yields}, <<{}>>)
    [] OTHER                  -> Looks({}, <<{}>>)
JoinColumns(p) ==
  Looks({}, IF p.op \in {"NodeHashJoin", "LeftOuterHashJoin"} THEN <<RangeOfSeq(p.keys), RangeOfSeq(p.keys)>> ELSE <<{}, {}>>)
ApplyColumns(p) ==
  CASE p.op = "LetSemiApply" -> Looks({p.var}, <<{}, {}>>)
    [] p.op = "RollUpApply"  -> Looks({p.coll}, <<{}, {p.var}>>)
    [] OTHER                 -> Looks({}, <<{}, {}>>)
CreateColumns(p) ==
  IF p.op = "CreateNode" THEN Looks({p.node.var}, <<{}>>) ELSE Looks({p.rel.var}, <<{p.rel.left, p.rel.right}>>)
\* What MERGE creates has its places in the rows it makes.
MergeColumns(p) ==
  LET Of(c) == IF "node" \in DOMAIN c THEN {c.node.var} ELSE {c.rel.var, c.rel.left, c.rel.right}
  IN  Looks(UNION {Of(p.creates[i]) : i \in DOMAIN p.creates}, <<{}, {}>>)
ColumnsLookedUp(p) ==
  CASE p.op = "Argument"                              -> Looks({}, <<>>)
    [] p.op \in Leaves \ {"Argument"}                 -> ScanColumns(p)
    [] p.op \in Readers                               -> ExpandColumns(p)
    [] p.op \in Joins \cup {"Union"}                   -> JoinColumns(p)
    [] p.op = "Merge"                                 -> MergeColumns(p)
    [] p.op \in Correlated \ {"Merge"}                -> ApplyColumns(p)
    [] p.op \in {"CreateNode", "CreateRelationship"}  -> CreateColumns(p)
    [] p.op \in {"PathBuild", "Projection", "Distinct", "Aggregation"} -> ProjectionColumns(p)
    [] OTHER                                          -> RowColumns(p)
ColumnsFound(p, cols, kids) ==
  LET looks == ColumnsLookedUp(p)
  IN  looks.own \subseteq cols /\ \A i \in DOMAIN kids : looks.in[i] \subseteq kids[i].cols

RECURSIVE BuildNode(_, _, _)
BuildNode(p, arg, build) ==
  LET left == BuildNode(p.kids[1], arg, build)
      kids == [i \in DOMAIN p.kids |-> IF i = 1 THEN left ELSE BuildNode(p.kids[i], Arguments(p, i, left, arg), build)]
      own == Override(p, BuildOperatorData(p, kids, build))
  IN  Override(own, [op |-> SelectOperator(p, kids), kids |-> kids, provided |-> ChildOrder(p, kids),
                     writes |-> OperatorWrites(p) \/ \E i \in DOMAIN kids : kids[i].writes,
                     cols |-> LeafColumns(p, arg),
                     built |-> ColumnsFound(p, LeafColumns(p, arg), kids) /\ \A i \in DOMAIN kids : kids[i].built])

\* On the system database a plan is one call, and works on its records.
SystemOperators ==
  {"Argument", "Filter", "Projection", "HashDistinct", "OrderedDistinct", "HashAggregation", "OrderedAggregation", "FullSort",
   "PartialSort", "Skip", "Limit", "TopN", "PartialTopN", "ProduceResults", "WriteBarrier", "ProcedureCall"}
RECURSIVE OperatorsOf(_)
OperatorsOf(n) == <<n>> \o LET Below[i \in 0 .. Len(n.kids)] == IF i = 0 THEN <<>> ELSE Below[i - 1] \o OperatorsOf(n.kids[i]) IN Below[Len(n.kids)]
\* Mutant: the one call may be of any procedure.
MutValidateSystemPhysicalPlan(root) ==
  LET ops == OperatorsOf(root)
      Called(n) == n.op = "ProcedureCall"
  IN  (\A i \in DOMAIN ops : ops[i].op \in SystemOperators) /\ Len(SelectSeq(ops, Called)) = 1
ValidateSystemPhysicalPlan(root) ==
  LET ops == OperatorsOf(root)
      Called(n) == n.op = "ProcedureCall"
      calls == SelectSeq(ops, Called)
  IN  /\ \A i \in DOMAIN ops : ops[i].op \in SystemOperators
      /\ Len(calls) = 1
      /\ \A i \in DOMAIN calls : \E p \in {FindBuiltinProcedure(calls[i].proc)} : IF p = <<>> THEN FALSE ELSE p[1].system

\* The columns a client sees: a query that ends in a write has none.
ResultColumns(p) == IF p.op = "ProduceResults" \/ ~PlanContainsWrites(p) THEN p.cols ELSE {}
PhysicalPlan_(p, build) == [root |-> BuildNode(p, {}, build), columns |-> ResultColumns(p)]
=============================================================================
