------------------------------ MODULE Planner ------------------------------
(***************************************************************************)
(* The planner: from a query's segments to its logical plans.  The code    *)
(* compares estimated costs wherever it has a choice; here costs are       *)
(* arbitrary, so every planning step has the set of the results it may     *)
(* have under some costs, and a query has a set of plans.                  *)
(*                                                                         *)
(* A result [plan, planned] is a plan and the indexes of the predicates of *)
(* the query graph it takes care of.  cat is the catalog: the set of       *)
(* <<label or type, property>> that have an index.                         *)
(***************************************************************************)
EXTENDS QueryIR

Planned(plan, planned) == [plan |-> plan, planned |-> planned]
Met(deps, plan) == deps \subseteq plan.cols

RECURSIVE CreateLogicalPlan(_, _)

-----------------------------------------------------------------------------
(* Filters.                                                                *)

\* Each subquery is a column of its own.
ApplySubqueryExpressions(subs, plan, cat) ==
  LET Applied(p, sub) ==
        {IF sub.kind = "exists" THEN LetSemiApplyPlan(p, nested, sub.var) ELSE RollUpApplyPlan(p, nested, sub.coll, sub.var)
           : nested \in CreateLogicalPlan(sub.query, cat)}
      R[i \in 0 .. Len(subs)] == IF i = 0 THEN {plan} ELSE UNION {Applied(p, subs[i]) : p \in R[i - 1]}
  IN  R[Len(subs)]

Unnegated(x) == IF x.e = "not" THEN x.a[1] ELSE x
\* x OR EXISTS, x OR NOT EXISTS, in either order: the side that is no
\* subquery is tried first.  0: neither side is the subquery.
SubquerySide(p) ==
  LET Side(i) == Unnegated(p.x.a[i]) = p.sub[1].x /\ ExpressionIsDeterministic(p.x.a[3 - i])
  IN  IF p.x.e # "or" \/ Len(p.sub) # 1 THEN 0
      ELSE IF p.sub[1].kind # "exists" THEN 0
      ELSE IF Side(2) THEN 2 ELSE IF Side(1) THEN 1 ELSE 0

ApplyFilter(p, plan, cat) ==
  LET side == SubquerySide(p)
  IN  CASE p.kind = "exists"     -> {SemiApplyPlan(plan, nested) : nested \in CreateLogicalPlan(p.sub[1].query, cat)}
        [] p.kind = "not exists" -> {AntiSemiApplyPlan(plan, nested) : nested \in CreateLogicalPlan(p.sub[1].query, cat)}
        [] OTHER -> IF side # 0
                    THEN {SelectOrSemiApplyPlan(plan, nested, Plain(p.x.a[3 - side]), p.x.a[side].e = "not")
                            : nested \in CreateLogicalPlan(p.sub[1].query, cat)}
                    ELSE {FilterPlan(applied, [x |-> p.x, pre |-> PrecomputedExpressions(p.sub)])
                            : applied \in ApplySubqueryExpressions(p.sub, plan, cat)}

\* The predicates not yet planned whose variables the plan has.  A filter
\* adds no variable another one waits for: one pass is enough.
ApplyAvailableFilters(preds, r, cat) ==
  LET Filter_(i, s) ==
        IF i \in s.planned \/ ~Met(preds[i].deps, s.plan) THEN {s}
        ELSE {Planned(plan, s.planned \cup {i}) : plan \in ApplyFilter(preds[i], s.plan, cat)}
      R[i \in 0 .. Len(preds)] == IF i = 0 THEN {r} ELSE UNION {Filter_(i, s) : s \in R[i - 1]}
  IN  R[Len(preds)]
AllPlanned(preds, r) == DOMAIN preds \subseteq r.planned

-----------------------------------------------------------------------------
(* Leaves.                                                                 *)

IsEntityId(x, v) == x.e = "call" /\ x.f = "id" /\ x.a = <<Var(v)>>
\* The side of id(v) = x or id(v) IN x that is not id(v); None if there is
\* no such side.
Ids(x, v) ==
  IF x.e = "cmp" /\ x.op = "=" /\ IsEntityId(x.a[1], v) THEN x.a[2]
  ELSE IF x.e = "cmp" /\ x.op = "=" /\ IsEntityId(x.a[2], v) THEN x.a[1]
  ELSE IF x.e = "in" /\ IsEntityId(x.a[1], v) THEN x.a[2] ELSE None
IdPredicates(graph, v) ==
  {i \in DOMAIN graph.preds :
     LET ids == Ids(graph.preds[i].x, v)
     IN  graph.preds[i].sub = <<>> /\ ids # None /\ ExpressionIsDeterministic(ids) /\ Dependencies(ids) \subseteq graph.args}

\* Only a single label or type has indexes.
FindIndex(names, key, cat) == \E n \in names : names = {n} /\ <<n, key>> \in cat
IndexSeekPredicates(graph, v, names, cat) ==
  {i \in DOMAIN graph.preds :
     LET p == graph.preds[i]
     IN  p.kind = "cmp" /\ p.op = "=" /\ p.var = v /\ p.deps \subseteq {v} /\ FindIndex(names, p.k, cat)}
HasStaticIndexBound(p) == Dependencies(p.value) = {} /\ ExpressionIsDeterministic(p.value)
\* Bounds and prefixes on one property are looked up together.
IndexRangePredicateGroups(graph, v, names, cat) ==
  LET Bound(p) == \/ p.kind = "cmp" /\ p.op \in {"<", "<=", ">", ">="}
                  \/ p.kind = "string" /\ p.op = "STARTS WITH"
      usable == {i \in DOMAIN graph.preds :
                   LET p == graph.preds[i]
                   IN  Bound(p) /\ p.var = v /\ HasStaticIndexBound(p) /\ p.deps \subseteq {v} /\ FindIndex(names, p.k, cat)}
  IN  {{i \in usable : graph.preds[i].k = k} : k \in {graph.preds[i].k : i \in usable}}

RECURSIVE InOrder(_)
InOrder(is) == IF is = {} THEN <<>> ELSE LET i == CHOOSE i \in is : \A j \in is : i <= j IN <<i>> \o InOrder(is \ {i})
PredicateExpressions(graph, is) == LET s == InOrder(is) IN [i \in DOMAIN s |-> Plain(graph.preds[s[i]].x)]
LabelPredicates(graph, v) == {i \in DOMAIN graph.preds : graph.preds[i].kind = "label" /\ graph.preds[i].var = v /\ graph.preds[i].deps \subseteq {v}}

\* How the nodes v can be found.
BuildNodeLeafCandidates(graph, v, planned, cat) ==
  LET ps == graph.preds
      labelled == LabelPredicates(graph, v)
      labels == UNION {ps[i].names : i \in labelled}
      Key(is) == ps[CHOOSE i \in is : TRUE].k
      idSeeks == {Planned(NodeByIdSeekPlan(v, Plain(Ids(ps[i].x, v)), ps[i].x.e = "in"), planned \cup {i}) : i \in IdPredicates(graph, v)}
      seeks == {Planned(NodeIndexSeekPlan(v, labels, ps[i].k, Plain(ps[i].value)), planned \cup labelled \cup {i})
                  : i \in IndexSeekPredicates(graph, v, labels, cat)}
      ranges == {Planned(NodeIndexRangeSeekPlan(v, labels, Key(is), PredicateExpressions(graph, is)), planned \cup labelled \cup is)
                   : is \in IndexRangePredicateGroups(graph, v, labels, cat)}
      scan == IF labels = {} THEN Planned(AllNodeScanPlan(v), planned) ELSE Planned(NodeByLabelScanPlan(v, labels), planned \cup labelled)
  IN  IF v \in graph.args THEN {Planned(ArgumentPlan({v}), planned)} ELSE idSeeks \cup seeks \cup ranges \cup {scan}

\* The types a relationship may have: those of the pattern and of the
\* predicates on it.  One that leaves none stays a filter.
ConsumeRelationshipTypes(graph, pat, planned) ==
  LET ps == graph.preds
      Consumable(i) == ps[i].kind = "type" /\ ps[i].var = pat.rel /\ ps[i].deps \subseteq {pat.rel}
      Consume(i, s) == [types |-> IF s.types = {} THEN ps[i].names ELSE s.types \cap ps[i].names, planned |-> s.planned \cup {i}]
      R[i \in 0 .. Len(ps)] ==
        IF i = 0 THEN [types |-> pat.types, planned |-> planned]
        ELSE LET so == R[i - 1]
             IN  IF Consumable(i) /\ (so.types = {} \/ so.types \cap ps[i].names # {}) THEN Consume(i, so) ELSE so
  IN  R[Len(ps)]

\* A relationship that is bound already gives its ends.
ProjectsEndpoints(graph, pat) ==
  pat.rel \in graph.args /\ (pat.range = <<>> \/ Min(pat) > 0 \/ {pat.from, pat.to} \cap graph.args # {})
BuildRelationshipLeafCandidates(graph, r, planned, cat) ==
  LET ps == graph.preds
      consumed == ConsumeRelationshipTypes(graph, graph.rels[r], planned)
      pat == [graph.rels[r] EXCEPT !.types = consumed.types]
      done == consumed.planned
      Key(is) == ps[CHOOSE i \in is : TRUE].k
      idSeeks == {Planned(RelationshipByIdSeekPlan(pat, Plain(Ids(ps[i].x, pat.rel)), ps[i].x.e = "in"), done \cup {i})
                    : i \in IdPredicates(graph, pat.rel)}
      seeks == {Planned(RelationshipIndexSeekPlan(pat, ps[i].k, Plain(ps[i].value)), done \cup {i})
                  : i \in IndexSeekPredicates(graph, pat.rel, pat.types, cat)}
      ranges == {Planned(RelationshipIndexRangeSeekPlan(pat, Key(is), PredicateExpressions(graph, is)), done \cup is)
                   : is \in IndexRangePredicateGroups(graph, pat.rel, pat.types, cat)}
      scan == IF pat.types = {} THEN {} ELSE {Planned(RelationshipTypeScanPlan(pat), done)}
  IN  IF ProjectsEndpoints(graph, pat) THEN {Planned(ProjectEndpointsPlan(ArgumentPlan(graph.args), pat), done)}
      ELSE IF pat.range # <<>> THEN {} ELSE idSeeks \cup seeks \cup ranges \cup scan

-----------------------------------------------------------------------------
(* One connected component: candidates [plan, planned, rels, order] for    *)
(* more and more of its relationships.                                     *)

MakePlanCandidate(r, rels, order) == [plan |-> r.plan, planned |-> r.planned, rels |-> rels, order |-> order]
Filtered_(graph, rs, rels, order, cat) ==
  {MakePlanCandidate(s, rels, order) : s \in UNION {ApplyAvailableFilters(graph.preds, r, cat) : r \in rs}}
\* Every candidate also counts sorted, if an order is asked for that it can
\* be sorted by.
PutCandidates(cs, order) ==
  cs \cup {[c EXCEPT !.plan = SortPlan(@, order), !.order = order]
             : c \in {d \in cs : order # <<>> /\ ~OrderingSatisfies(d.order, order) /\ OrderingDependenciesAvailable(order, d.plan.cols)}}

Reversed(dir) == CASE dir = "in" -> "out" [] dir = "out" -> "in" [] OTHER -> dir
Turned(pat) == [pat EXCEPT !.from = pat.to, !.to = pat.from, !.dir = Reversed(@)]
Expanded(plan, pat, left, right) ==
  LET start == IF left THEN pat ELSE Turned(pat)
  IN  IF pat.range # <<>> \/ pat.shortest # "none"
      THEN VarExpandPlan(plan, [start EXCEPT !.range = IF @ = <<>> THEN <<1, 1>> ELSE @], ~left)
      ELSE IF left /\ right THEN ExpandIntoPlan(plan, pat) ELSE ExpandPlan(plan, start)
CanExpand(graph, r, c) == r \notin c.rels /\ {graph.rels[r].from, graph.rels[r].to} \cap c.plan.cols # {}
ExpandCandidate(graph, c, r, cat) ==
  LET consumed == ConsumeRelationshipTypes(graph, graph.rels[r], c.planned)
      pat == [graph.rels[r] EXCEPT !.types = consumed.types]
      plan == Expanded(c.plan, pat, pat.from \in c.plan.cols, pat.to \in c.plan.cols)
  IN  Filtered_(graph, {Planned(plan, consumed.planned)}, c.rels \cup {r}, c.order, cat)

SharedNodeSymbols(graph, c, d) == graph.nodes \cap c.plan.cols \cap d.plan.cols
CanJoin(graph, c, d) ==
  /\ c.rels \cap d.rels = {} /\ SharedNodeSymbols(graph, c, d) # {}
  /\ \E i \in c.rels : \A j \in c.rels \cup d.rels : i <= j
JoinCandidates(graph, c, d, cat) ==
  Filtered_(graph, {Planned(NodeHashJoinPlan(c.plan, d.plan, InNameOrder(SharedNodeSymbols(graph, c, d))), c.planned \cup d.planned)},
            c.rels \cup d.rels, <<>>, cat)

InitialCandidates(graph, component, planned, order, cat) ==
  LET bound == component.nodes \cap graph.args
      leaves == IF bound # {} /\ component.rels # {} THEN {Planned(ArgumentPlan(bound), planned)}
                ELSE UNION {BuildNodeLeafCandidates(graph, n, planned, cat) : n \in component.nodes}
  IN  PutCandidates(Filtered_(graph, leaves, {}, <<>>, cat), order)
InitialRelationshipCandidates(graph, component, planned, order, cat) ==
  UNION {PutCandidates(Filtered_(graph, BuildRelationshipLeafCandidates(graph, r, planned, cat), {r}, <<>>, cat), order) : r \in component.rels}

\* A shortest path is the only relationship of its component, and both its
\* ends are found first.
PlanShortestPath(graph, r, planned, order, cat) ==
  LET pat == graph.rels[r]
      ends == {pat.from, pat.to}
      Leaves_(n) == UNION {ApplyAvailableFilters(graph.preds, leaf, cat) : leaf \in BuildNodeLeafCandidates(graph, n, planned, cat)}
      inputs == IF ends \subseteq graph.args THEN {Planned(ArgumentPlan(ends), planned)}
                ELSE IF pat.from = pat.to THEN Leaves_(pat.from)
                ELSE {Planned(CartesianProductPlan(s.plan, t.plan), s.planned \cup t.planned) : s \in Leaves_(pat.from), t \in Leaves_(pat.to)}
      expanded == UNION {ExpandCandidate(graph, c, r, cat) : c \in Filtered_(graph, inputs, {}, <<>>, cat)}
      Sorted_(c) == IF order # <<>> /\ OrderingDependenciesAvailable(order, c.plan.cols) THEN SortPlan(c.plan, order) ELSE c.plan
  IN  {Planned(Sorted_(c), c.planned) : c \in expanded}

PlanComponent(graph, component, planned, order, cat) ==
  LET total == Cardinality(component.rels)
      shortest == {r \in component.rels : graph.rels[r].shortest # "none"}
      leaves == InitialRelationshipCandidates(graph, component, planned, order, cat)
      T[n \in 0 .. total] ==
        IF n = 0 THEN InitialCandidates(graph, component, planned, order, cat)
        ELSE LET expands == UNION {ExpandCandidate(graph, c, r, cat) : <<c, r>> \in {<<d, q>> \in T[n - 1] \X component.rels : CanExpand(graph, q, d)}}
                 joins == UNION {UNION {JoinCandidates(graph, c, d, cat) : <<c, d>> \in {<<e, f>> \in T[m] \X T[n - m] : CanJoin(graph, e, f)}}
                                   : m \in 1 .. n - 1}
             IN  PutCandidates(expands \cup joins, order) \cup (IF n = 1 THEN leaves ELSE {})
  IN  IF shortest # {} THEN PlanShortestPath(graph, CHOOSE r \in shortest : TRUE, planned, order, cat)
      ELSE {Planned(c.plan, c.planned) : c \in T[total]}

-----------------------------------------------------------------------------
(* Joining the components of a pattern.                                    *)

IsCrossComponentPredicate(p, l, r) ==
  p.deps # {} /\ p.deps \subseteq l.cols \cup r.cols /\ ~Met(p.deps, l) /\ ~Met(p.deps, r)
IsValueHashJoinPredicate(p, l, r) ==
  /\ IsCrossComponentPredicate(p, l, r) /\ p.x.e = "cmp" /\ p.x.op = "="
  /\ \/ Met(Dependencies(p.x.a[1]), l) /\ Met(Dependencies(p.x.a[2]), r)
     \/ Met(Dependencies(p.x.a[1]), r) /\ Met(Dependencies(p.x.a[2]), l)
CanUsePredicateJoin(p) == p.sub = <<>> /\ p.kind \notin {"exists", "not exists"}
JoinComponents(preds, l, r, planned) ==
  LET todo == DOMAIN preds \ planned
      equal == {i \in todo : IsValueHashJoinPredicate(preds[i], l, r)}
      cross == {i \in todo : CanUsePredicateJoin(preds[i]) /\ IsCrossComponentPredicate(preds[i], l, r)}
      Expressions_(is) == LET s == InOrder(is) IN [i \in DOMAIN s |-> preds[s[i]].x]
  IN  IF equal # {} THEN Planned(ValueHashJoinPlan(l, r, Expressions_(equal)), planned \cup equal)
      ELSE IF cross # {} THEN Planned(PredicateJoinPlan(l, r, Expressions_(cross)), planned \cup cross)
      ELSE Planned(CartesianProductPlan(l, r), planned)
\* Any two are joined first.
RECURSIVE JoinComponentsByCost(_, _, _, _)
JoinComponentsByCost(preds, plans, planned, cat) ==
  LET Rest(i, j, joined) == [[k \in 1 .. Len(plans) - 1 |-> plans[IF k < j THEN k ELSE k + 1]] EXCEPT ![i] = joined]
      Joins_(i, j) == ApplyAvailableFilters(preds, JoinComponents(preds, plans[i], plans[j], planned), cat)
  IN  IF Len(plans) = 1 THEN {Planned(plans[1], planned)}
      ELSE UNION {UNION {JoinComponentsByCost(preds, Rest(i, j, r.plan), r.planned, cat) : r \in Joins_(i, j)}
                    : <<i, j>> \in {<<k, l>> \in (DOMAIN plans) \X (DOMAIN plans) : k < l}}

-----------------------------------------------------------------------------
(* Query graphs.  A failure to plan is the empty set.                      *)

RECURSIVE BuildQueryGraph(_, _, _, _)
ApplyPathBuilds(plan, paths) ==
  LET R[i \in 0 .. Len(paths)] == IF i = 0 THEN plan ELSE PathBuildPlan(R[i - 1], paths[i]) IN R[Len(paths)]
ApplyAssertIsNode(plan, ns) == IF ns = {} THEN plan ELSE AssertIsNodePlan(plan, ns)

\* The arguments a graph uses outside its patterns.
ExternalArguments(graph) ==
  LET Uncovered(o) == QueryGraphDependencies(o) \ AllCoveredIds(o)
      used == UNION {graph.preds[i].deps : i \in DOMAIN graph.preds} \cup UNION {Uncovered(graph.optionals[i]) : i \in DOMAIN graph.optionals}
  IN  (used \cap graph.args) \ (graph.nodes \cup UNION {{graph.rels[i].from, graph.rels[i].to} : i \in DOMAIN graph.rels})
\* The results for the first n components: their plans, and what is planned.
PlanComponents(graph, seed, order, cat) ==
  LET cs == ConnectedComponents(graph)
      external == ExternalArguments(graph)
      first == IF ~seed \/ external = {} THEN {[plans |-> <<>>, planned |-> {}]}
               ELSE {[plans |-> <<r.plan>>, planned |-> r.planned] : r \in ApplyAvailableFilters(graph.preds, Planned(ArgumentPlan(external), {}), cat)}
      More(s, c) == {[plans |-> Append(s.plans, r.plan), planned |-> r.planned] : r \in PlanComponent(graph, c, s.planned, order, cat)}
      R[i \in 0 .. Len(cs)] == IF i = 0 THEN first ELSE UNION {More(s, cs[i]) : s \in R[i - 1]}
  IN  IF cs = <<>> THEN ApplyAvailableFilters(graph.preds, Planned(ArgumentPlan(graph.args), {}), cat)
      ELSE UNION {JoinComponentsByCost(graph.preds, s.plans, s.planned, cat) : s \in R[Len(cs)]}

\* OPTIONAL MATCH of one relationship of fixed length from a node there is.
TryOptionalExpand(plan, optional) ==
  LET given == optional.rels[1]
      pat == IF given.from \in plan.cols THEN given ELSE Turned(given)
      Usable(p) == p.sub = <<>> /\ ExpressionIsDeterministic(p.x) /\ p.deps \subseteq plan.cols \cup {pat.rel, pat.to}
  IN  IF Len(optional.rels) # 1 \/ optional.paths # <<>> \/ optional.optionals # <<>> THEN {}
      ELSE IF \/ pat.range # <<>> \/ pat.rel \in plan.cols \/ optional.nodes # {pat.from, pat.to} \/ pat.from \notin plan.cols
              \/ \E i \in DOMAIN optional.preds : ~Usable(optional.preds[i])
      THEN {}
      ELSE {OptionalExpandPlan(plan, pat, [i \in DOMAIN optional.preds |-> Plain(optional.preds[i].x)])}
\* A graph whose arguments are nodes of its pattern can be matched without
\* them, and joined.
RECURSIVE UncorrelateNodeArguments(_)
UncorrelateNodeArguments(p) ==
  LET ns == InNameOrder(p.cols)
      R[i \in 1 .. Len(ns)] == IF i = 1 THEN AllNodeScanPlan(ns[1]) ELSE CartesianProductPlan(R[i - 1], AllNodeScanPlan(ns[i]))
  IN  IF p.op = "Argument" /\ p.cols # {} THEN R[Len(ns)]
      ELSE [p EXCEPT !.kids = [i \in DOMAIN p.kids |-> UncorrelateNodeArguments(p.kids[i])]]
RECURSIVE HasCorrelatedIdSeek(_)
HasCorrelatedIdSeek(p) ==
  \/ p.op \in {"NodeByIdSeek", "RelationshipByIdSeek"} /\ Dependencies(p.ids.x) # {}
  \/ \E i \in DOMAIN p.kids : HasCorrelatedIdSeek(p.kids[i])
\* Mutant: a predicate on other arguments does not matter.
MutCanOuterHashJoin(optional, plan) == optional.args # {} /\ optional.optionals = <<>> /\ ~HasCorrelatedIdSeek(plan)
CanOuterHashJoin(optional, plan) ==
  /\ optional.args # {} /\ optional.optionals = <<>> /\ optional.assert = {} /\ ~HasCorrelatedIdSeek(plan)
  /\ optional.args \subseteq optional.nodes
  /\ \A i \in DOMAIN optional.preds : optional.preds[i].sub = <<>> /\ ExpressionIsDeterministic(optional.preds[i].x)
ApplyOptionalMatch(r, optional, cat) ==
  LET expanded == TryOptionalExpand(r.plan, optional)
      nested == {s.plan : s \in BuildQueryGraph(optional, TRUE, <<>>, cat)}
      plans == IF expanded # {} THEN expanded
               ELSE {OptionalApplyPlan(r.plan, n) : n \in nested}
                      \cup {LeftOuterHashJoinPlan(r.plan, UncorrelateNodeArguments(n), InNameOrder(optional.args))
                              : n \in {m \in nested : CanOuterHashJoin(optional, m)}}
  IN  {Planned(plan, r.planned) : plan \in plans}
ApplyOptionalMatches(graph, r, cat) ==
  LET R[i \in 0 .. Len(graph.optionals)] ==
        IF i = 0 THEN {r}
        ELSE UNION {ApplyAvailableFilters(graph.preds, s, cat) : s \in UNION {ApplyOptionalMatch(t, graph.optionals[i], cat) : t \in R[i - 1]}}
  IN  R[Len(graph.optionals)]

\* What a graph reads.
PlanReads(graph, seed, order, cat) ==
  LET wanted == IF Len(ConnectedComponents(graph)) # 1 \/ graph.optionals # <<>> \/ graph.muts # <<>> THEN <<>> ELSE order
      Finished_(r) == Planned(ApplyAssertIsNode(ApplyPathBuilds(r.plan, graph.paths), graph.assert), r.planned)
      matched == UNION {ApplyAvailableFilters(graph.preds, Finished_(r), cat) : r \in PlanComponents(graph, seed, wanted, cat)}
  IN  UNION {ApplyOptionalMatches(graph, r, cat) : r \in matched}

-----------------------------------------------------------------------------
(* Writes.                                                                 *)

ApplyCreatePattern(plan, pat) ==
  LET cs == pat.commands
      R[i \in 0 .. Len(cs)] ==
        IF i = 0 THEN plan
        ELSE IF "node" \in DOMAIN cs[i] THEN CreateNodePlan(R[i - 1], cs[i].node) ELSE CreateRelationshipPlan(R[i - 1], cs[i].rel)
  IN  ApplyPathBuilds(R[Len(cs)], pat.paths)
ApplySet(plan, item) ==
  CASE item.op = "SetProperty"    -> SetPropertyPlan(plan, item.entity, item.k, item.x)
    [] item.op = "SetProperties"  -> SetPropertiesPlan(plan, item.entity, item.x, item.keep)
    [] item.op = "SetLabels"      -> SetLabelsPlan(plan, item.entity, item.labels)
    [] item.op = "RemoveProperty" -> RemovePropertyPlan(plan, item.entity, item.k)
    [] item.op = "RemoveLabels"   -> RemoveLabelsPlan(plan, item.entity, item.labels)
ApplySetPatterns(plan, sets) == LET R[i \in 0 .. Len(sets)] == IF i = 0 THEN plan ELSE ApplySet(R[i - 1], sets[i]) IN R[Len(sets)]
ApplyMergePattern(plan, m, cat) ==
  {ApplyPathBuilds(MergePlan(plan, match.plan, m.pat.commands, m.actions), m.pat.paths) : match \in BuildQueryGraph(m.match, TRUE, <<>>, cat)}
ApplyMutatingPattern(plan, m, cat) ==
  CASE m.kind = "create"            -> {ApplyCreatePattern(plan, m.pat)}
    [] m.kind = "merge"             -> ApplyMergePattern(plan, m, cat)
    [] m.kind \in {"set", "remove"} -> {ApplySetPatterns(plan, m.sets)}
    [] m.kind = "delete"            -> {IF m.detach THEN DetachDeletePlan(plan, m.xs) ELSE DeletePlan(plan, m.xs)}
BeforeWrites(plan) == WriteBarrierPlan(plan)
ApplyMutatingPatterns(plan, muts, cat) ==
  LET R[i \in 0 .. Len(muts)] ==
        IF i = 0 THEN {BeforeWrites(plan)} ELSE UNION {ApplyMutatingPattern(p, muts[i], cat) : p \in R[i - 1]}
  IN  IF muts = <<>> THEN {plan} ELSE R[Len(muts)]

BuildQueryGraph(graph, seed, order, cat) ==
  LET done == UNION {{Planned(plan, r.planned) : plan \in ApplyMutatingPatterns(r.plan, graph.muts, cat)} : r \in PlanReads(graph, seed, order, cat)}
  IN  {r \in done : AllPlanned(graph.preds, r)}

-----------------------------------------------------------------------------
(* Horizons.                                                               *)

\* The order a projection wants its input in: ORDER BY with its aliases
\* resolved, if nothing but the projection lies between.
ResolveProjectionAlias(x, items) ==
  LET sources == {i \in DOMAIN items : x = Var(items[i].alias)}
  IN  IF sources = {} THEN x ELSE items[CHOOSE i \in sources : \A j \in sources : i <= j].x
PlanningOrder(h) == [i \in DOMAIN h.order |-> [x |-> Plain(ResolveProjectionAlias(h.order[i].x, h.items)), asc |-> h.order[i].asc]]
PlanningOrderForHorizon(h) ==
  LET Clear(x) == x.e = "var" \/ \A i \in DOMAIN h.items : h.items[i].alias \in Dependencies(x) => h.items[i].x = Var(h.items[i].alias)
  IN  IF h.kind # "regular" THEN <<>>
      ELSE IF h.limit # None \/ h.preds # <<>> \/ h.subs # <<>> \/ \E i \in DOMAIN h.order : ~Clear(h.order[i].x) THEN <<>>
      ELSE IF OrderingExpressionsDeterministic(PlanningOrder(h)) THEN PlanningOrder(h) ELSE <<>>

LogicalProjectionItems(h) ==
  [i \in DOMAIN h.items |-> [alias |-> h.items[i].alias, x |-> [x |-> h.items[i].x, pre |-> PrecomputedExpressions(h.subs)], pass |-> FALSE]]
PassthroughProjectionItems(ns) == LET s == InNameOrder(ns) IN [i \in DOMAIN s |-> Passthrough(s[i])]
TailExpressions(h) == {h.order[i].x : i \in DOMAIN h.order} \cup {h.skip, h.limit}
\* What ORDER BY, SKIP, LIMIT and WHERE need of the projection's input.
TailNames(x, h) == Dependencies(x) \cup {ResultVariable(h.subs[i]) : i \in {j \in DOMAIN h.subs : ContainsExpression(x, h.subs[j].x)}}
ProjectionTailPassthroughVariables(plan, h) ==
  (UNION {TailNames(x, h) : x \in TailExpressions(h)} \cup UNION {h.preds[i].deps : i \in DOMAIN h.preds}) \cap (plan.cols \ Aliases(h.items))
IsAggregate(item) == ContainsAggregation(item.x.x)
IsGrouping(item) == ~ContainsAggregation(item.x.x)
ProjectionFor(h, plan) ==
  LET items == LogicalProjectionItems(h)
  IN  CASE h.kind = "regular"     -> ProjectionPlan(plan, items \o PassthroughProjectionItems(ProjectionTailPassthroughVariables(plan, h)))
        [] h.kind = "distinct"    -> DistinctPlan(plan, items)
        [] h.kind = "aggregating" -> AggregationPlan(plan, SelectSeq(items, IsGrouping), SelectSeq(items, IsAggregate))

TailAvailable(h, plan) == \A x \in TailExpressions(h) : TailNames(x, h) \subseteq plan.cols
SortItems(h) == [i \in DOMAIN h.order |-> [x |-> [x |-> h.order[i].x, pre |-> PrecomputedExpressions(h.subs)], asc |-> h.order[i].asc]]
ApplyProjectionTail(h, plan) ==
  LET pre == PrecomputedExpressions(h.subs)
      sorted == IF OrderingSatisfies(OrderingTrait(plan), SortItems(h)) THEN plan ELSE SortPlan(plan, SortItems(h))
      skipped == IF h.skip = None THEN sorted ELSE SkipPlan(sorted, [x |-> h.skip, pre |-> pre])
      limited == IF h.limit = None THEN skipped ELSE LimitPlan(skipped, [x |-> h.limit, pre |-> pre])
  IN  IF h.final THEN ProduceResultsPlan(limited, Aliases(h.items))
      ELSE IF limited.cols = Aliases(h.items) THEN limited ELSE ProjectionPlan(limited, PassthroughProjectionItems(Aliases(h.items)))

\* A predicate of WHERE whose variables are there before the projection is
\* a filter of its input.
ApplyProjection(h, plan, cat) ==
  LET before == ApplyAvailableFilters(h.preds, Planned(plan, {}), cat)
      Projected(r) == {Planned(ProjectionFor(h, p), r.planned) : p \in ApplySubqueryExpressions(h.subs, r.plan, cat)}
      after == UNION {ApplyAvailableFilters(h.preds, s, cat) : s \in UNION {Projected(r) : r \in before}}
  IN  {ApplyProjectionTail(h, r.plan) : r \in {s \in after : AllPlanned(h.preds, s) /\ TailAvailable(h, s.plan)}}
ApplyProcedureCall(h, plan, cat) ==
  LET called == ProcedureCallPlan(IF h.readOnly THEN plan ELSE WriteBarrierPlan(plan), h.proc, PlainAll(h.xs), h.yields, h.readOnly)
  IN  IF ~Met(UNION {Dependencies(h.xs[i]) : i \in DOMAIN h.xs}, plan) THEN {}
      ELSE {r.plan : r \in {s \in ApplyAvailableFilters(h.preds, Planned(called, {}), cat) : AllPlanned(h.preds, s)}}
ApplyHorizon(h, plan, cat) ==
  CASE h.kind \in ProjectionHorizons -> ApplyProjection(h, plan, cat)
    [] h.kind = "unwind"             -> {UnwindPlan(plan, Plain(h.x), h.var)}
    [] h.kind = "call"               -> ApplyProcedureCall(h, plan, cat)
    [] h.kind = "pass"               -> {plan}

-----------------------------------------------------------------------------
(* Segments and queries.                                                   *)

\* A later segment is planned on its own, for each row of the one before.
BuildTailSegment(plan, seg, cat) ==
  LET input == IF seg.graph.muts = <<>> THEN plan ELSE WriteBarrierPlan(plan)
      Applied(r) == ApplyAvailableFilters(seg.graph.preds, Planned(ApplyPlan(input, r.plan), r.planned), cat)
      read == {r \in UNION {Applied(s) : s \in PlanReads(seg.graph, FALSE, <<>>, cat)} : AllPlanned(seg.graph.preds, r)}
      wrote == UNION {ApplyMutatingPatterns(r.plan, seg.graph.muts, cat) : r \in read}
  IN  IF ~(seg.graph.args \subseteq plan.cols) THEN {}
      ELSE UNION {ApplyHorizon(seg.horizon, p, cat) : p \in IF HasLocalWork(seg.graph) THEN wrote ELSE {plan}}
BuildSingle(segs, cat) ==
  LET first == BuildQueryGraph(segs[1].graph, TRUE, PlanningOrderForHorizon(segs[1].horizon), cat)
      R[i \in 1 .. Len(segs)] ==
        IF i = 1 THEN UNION {ApplyHorizon(segs[1].horizon, r.plan, cat) : r \in first}
        ELSE UNION {BuildTailSegment(p, segs[i], cat) : p \in R[i - 1]}
  IN  R[Len(segs)]
BuildUnion(query, cat) ==
  LET qs == query.singles
      Aliases_(i) == OutputAliases(qs[i][Len(qs[i])])
      R[i \in 1 .. Len(qs)] ==
        IF i = 1 THEN BuildSingle(qs[1], cat)
        ELSE {UnionPlan(l, r, BuildUnionMappings(Aliases_(1), Aliases_(i)), query.all[i - 1]) : l \in R[i - 1], r \in BuildSingle(qs[i], cat)}
  IN  {ProduceResultsPlan(p, RangeOfSeq(Aliases_(1))) : p \in R[Len(qs)]}
CreateLogicalPlan(query, cat) ==
  {RewriteLogicalPlan(p) : p \in IF Len(query.singles) = 1 THEN BuildSingle(query.singles[1], cat) ELSE BuildUnion(query, cat)}
=============================================================================
