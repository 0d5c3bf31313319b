------------------------------ MODULE QueryIR ------------------------------
(***************************************************************************)
(* From a statement to the planner's input: a single query becomes a       *)
(* sequence of segments, each a query graph (what to match, filter and     *)
(* write) and a horizon (how its rows become those of the next segment).   *)
(*                                                                         *)
(* A query graph has arguments args, pattern nodes (a set), relationships, *)
(* paths, predicates, optional graphs and mutations (sequences) and the    *)
(* arguments assert that must be nodes.  A statement has gone through the  *)
(* rewriters: every element of a pattern has a name and none has labels or *)
(* properties, EXISTS holds a query.  Each EXISTS and each pattern         *)
(* comprehension carries an identifier, from which the name of the column  *)
(* it is computed into is made; the code counts them.                      *)
(***************************************************************************)
EXTENDS LogicalPlan

(***************************************************************************)
(* What is visible where in a statement, and of which type,                *)
(* src/ast/semantic_table.cc.  A scope maps the visible names to their     *)
(* types.  The analyser records the scope at every node of the syntax      *)
(* tree; here whoever walks the tree carries the scope along.              *)
(*                                                                         *)
(* A single query is a sequence of parts [reading, updating, proj]: the    *)
(* clauses MATCH, UNWIND and CALL, then CREATE, MERGE, SET, REMOVE and     *)
(* DELETE, then WITH or, in the last part, RETURN or NoProjection.         *)
(***************************************************************************)

NoProjection == [none |-> TRUE]
HasProjection(part) == "items" \in DOMAIN part.proj
Visible(scope) == DOMAIN scope
EmptyScope == [n \in {} |-> "unknown"]

\* A name bound to things of two types has no known type.
Define(scope, n, type) ==
  Bind(scope, n, IF n \in DOMAIN scope THEN IF scope[n] = type THEN type ELSE "unknown" ELSE type)
RECURSIVE DefineAll(_, _, _)
DefineAll(scope, ns, type) ==
  IF ns = {} THEN scope ELSE LET n == CHOOSE n \in ns : TRUE IN DefineAll(Define(scope, n, type), ns \ {n}, type)

PartNodes(part) == {part.nodes[i].var : i \in DOMAIN part.nodes}
PartRelationships(part) == {part.rels[i].var : i \in DOMAIN part.rels}
DefinePart(scope, part) ==
  DefineAll(DefineAll(Define(scope, part.path, "path"), PartNodes(part), "node"), PartRelationships(part), "rel")
DefinePatternBindings(scope, parts) ==
  LET R[i \in 0 .. Len(parts)] == IF i = 0 THEN scope ELSE DefinePart(R[i - 1], parts[i]) IN R[Len(parts)]

-----------------------------------------------------------------------------
(* Types of expressions.                                                   *)

MergeExpressionTypes(types) == IF \E t \in types : types = {t} THEN CHOOSE t \in types : TRUE ELSE "unknown"
ListElementTypes ==
  [keys |-> "scalar", labels |-> "scalar", nodes |-> "node", range |-> "scalar", relationships |-> "rel", split |-> "scalar"]

\* Alternatives of CASE: the values after THEN, and after ELSE if there is one.
CaseResults(x) == {x.a[i] : i \in {j \in 4 .. Len(x.a) : j % 2 = 0}} \cup ({x.a[2]} \ {None})

RECURSIVE InferExpressionType(_, _)
RECURSIVE InferListElementType(_, _)
InferListElementType(x, scope) ==
  CASE x.e = "list"    -> MergeExpressionTypes({InferExpressionType(x.a[i], scope) : i \in DOMAIN x.a})
    [] x.e = "comp"    -> IF x.a[3] = None THEN "unknown" ELSE InferExpressionType(x.a[3], scope)
    [] x.e = "pattern" -> InferExpressionType(x.a[2], scope)
    [] x.e = "call"    -> IF x.f \in DOMAIN ListElementTypes THEN ListElementTypes[x.f]
                          ELSE IF x.f \in {"tail", "reverse"} THEN InferListElementType(x.a[1], scope)
                          ELSE IF x.f = "collect" THEN InferExpressionType(x.a[1], scope) ELSE "unknown"
    [] OTHER           -> "unknown"
InferExpressionType(x, scope) ==
  CASE x.e = "var"                               -> IF x.n \in DOMAIN scope THEN scope[x.n] ELSE "unknown"
    [] x.e \in {"list", "comp", "pattern", "slice"} -> "list"
    [] x.e = "map"                               -> "map"
    [] x.e = "reduce"                            -> InferExpressionType(x.a[3], scope)
    [] x.e = "index"                             -> InferListElementType(x.a[1], scope)
    [] x.e = "call"                              -> IF x.f = "last" THEN InferListElementType(x.a[1], scope)
                                                    ELSE IF x.f = "reverse" THEN InferExpressionType(x.a[1], scope)
                                                    ELSE ResultType(x.f)
    [] x.e = "case"                              -> MergeExpressionTypes({InferExpressionType(y, scope) : y \in CaseResults(x)})
    [] OTHER                                     -> "scalar"

RECURSIVE ContainsAggregation(_)
ContainsAggregation(x) ==
  x = CountStar \/ (x.e = "call" /\ x.f \in AggregateFunctions) \/ \E y \in Operands_(x) : ContainsAggregation(y)

-----------------------------------------------------------------------------
(* Scopes after clauses.                                                   *)

\* What WITH leaves visible.
ProjectedScope(scope, items) ==
  LET R[i \in 0 .. Len(items)] ==
        IF i = 0 THEN EmptyScope ELSE Define(R[i - 1], items[i].alias, InferExpressionType(items[i].x, scope))
  IN  R[Len(items)]
\* ORDER BY, SKIP and LIMIT see both what goes in and what comes out.
OrderScope(scope, items) ==
  LET projected == ProjectedScope(scope, items)
      R[i \in 0 .. Len(items)] == IF i = 0 THEN scope ELSE Define(R[i - 1], items[i].alias, projected[items[i].alias])
  IN  R[Len(items)]
\* What a call yields: without YIELD, or with YIELD *, a statement that is
\* nothing but the call yields everything.
ProcedureYields(c) ==
  LET found == FindBuiltinProcedure(c.proc)
      fields == IF found = <<>> THEN <<>> ELSE found[1].yields
  IN  IF c.yields # <<>> \/ ~c.standalone THEN c.yields ELSE [i \in DOMAIN fields |-> [field |-> fields[i], var |-> fields[i]]]
LookupProcedureYieldType(proc, field) ==
  LET found == FindBuiltinProcedure(proc)
  IN  IF found = <<>> \/ (found # <<>> /\ ~FindBuiltinProcedureYield(found[1], field)) THEN "unknown"
      ELSE IF field = "node" THEN "node" ELSE "scalar"
DefineYields(scope, c) ==
  LET yields == ProcedureYields(c)
      R[i \in 0 .. Len(yields)] ==
        IF i = 0 THEN scope ELSE Define(R[i - 1], yields[i].var, LookupProcedureYieldType(c.proc, yields[i].field))
  IN  R[Len(yields)]
ScopeAfter(scope, c) ==
  CASE c.c \in {"match", "create"} -> DefinePatternBindings(scope, c.pattern)
    [] c.c = "merge"               -> DefinePart(scope, c.part)
    [] c.c = "unwind"              -> Define(scope, c.var, "unknown")
    [] c.c = "call"                -> DefineYields(scope, c)
    [] OTHER                       -> scope

\* Dependencies of an expression as recorded: a pattern inside it refers to
\* what is visible around it.
ExpressionDependencies(x, scope) == CollectDependencies(x, {}, Visible(scope))

-----------------------------------------------------------------------------
(* Query graphs.                                                           *)

\* The code sorts names; nothing depends on which order it is.
RECURSIVE InNameOrder(_)
InNameOrder(ns) == IF ns = {} THEN <<>> ELSE LET n == CHOOSE n \in ns : TRUE IN <<n>> \o InNameOrder(ns \ {n})

EmptyGraph(args) ==
  [args |-> args, nodes |-> {}, rels |-> <<>>, paths |-> <<>>, preds |-> <<>>, optionals |-> <<>>, muts |-> <<>>, assert |-> {}]
PathVariables(graph) == {graph.paths[i].var : i \in DOMAIN graph.paths}
RelationshipVariables(graph) == {graph.rels[i].rel : i \in DOMAIN graph.rels}

-----------------------------------------------------------------------------
(* What a statement looks like after the rewriters.                        *)

ItemExpressions(sets) == UNION {{sets[i][f] : f \in DOMAIN sets[i] \cap {"entity", "x"}} : i \in DOMAIN sets}
UpdatingExpressions(c) ==
  CASE c.c = "create"            -> PatternProperties(c.pattern)
    [] c.c = "merge"             -> PatternProperties(<<c.part>>) \cup UNION {ItemExpressions(c.actions[i].sets) : i \in DOMAIN c.actions}
    [] c.c \in {"set", "remove"} -> ItemExpressions(c.sets)
    [] c.c = "delete"            -> RangeOfSeq(c.xs)
PartExpressions(part) ==
  (IF HasProjection(part) THEN ProjectionExpressions(part.proj) ELSE {})
    \cup UNION {ClauseExpressions(part.reading[i]) : i \in DOMAIN part.reading} \cup UNION {UpdatingExpressions(part.updating[i]) : i \in DOMAIN part.updating}
StatementExpressions(q) == UNION {UNION {Subexpressions(x) : x \in UNION {PartExpressions(q.singles[i][j]) : j \in DOMAIN q.singles[i]}} : i \in DOMAIN q.singles}
CollectQueryParameters(q) == {x.n : x \in {x \in StatementExpressions(q) : x.e = "param"}}
ValidateQueryParameters(required, params) == required \subseteq DOMAIN params

NamedPattern(parts) ==
  \A i \in DOMAIN parts : /\ \A j \in DOMAIN parts[i].nodes : parts[i].nodes[j].var # ""
                          /\ \A j \in DOMAIN parts[i].rels : parts[i].rels[j].var # ""
PlainPattern(parts) ==
  \A i \in DOMAIN parts : /\ \A j \in DOMAIN parts[i].nodes : parts[i].nodes[j].labels = {} /\ parts[i].nodes[j].props = None
                          /\ \A j \in DOMAIN parts[i].rels : parts[i].rels[j].props = None
ClauseMeetsContract(c) ==
  CASE c.c = "match"  -> NamedPattern(c.pattern) /\ PlainPattern(c.pattern)
    [] c.c = "create" -> NamedPattern(c.pattern)
    [] c.c = "merge"  -> NamedPattern(<<c.part>>)
    [] OTHER          -> TRUE
PartMeetsContract(part) ==
  /\ HasProjection(part) => ~part.proj.star /\ \A i \in DOMAIN part.proj.items : part.proj.items[i].alias # ""
  /\ \A i \in DOMAIN part.reading : ClauseMeetsContract(part.reading[i])
  /\ \A i \in DOMAIN part.updating : ClauseMeetsContract(part.updating[i])
ExpressionMeetsContract(x) ==
  CASE x.e \in {"chain", "paren", "patternpred"} -> FALSE
    [] x.e = "pattern" -> NamedPattern(<<x.part>>) /\ PlainPattern(<<x.part>>)
    [] x.e = "exists"  -> x.pattern = <<>> /\ \A i \in DOMAIN x.query : \A j \in DOMAIN x.query[i] : PartMeetsContract(x.query[i][j])
    [] OTHER           -> TRUE
CheckQueryIRInputContract(q) ==
  /\ \A i \in DOMAIN q.singles : \A j \in DOMAIN q.singles[i] : PartMeetsContract(q.singles[i][j])
  /\ \A x \in StatementExpressions(q) : ExpressionMeetsContract(x)

-----------------------------------------------------------------------------
(* Patterns.                                                               *)

\* A path pattern names its nodes and relationships.
PathOf(part) ==
  [var |-> part.path, nodes |-> [i \in DOMAIN part.nodes |-> part.nodes[i].var],
   rels |-> [i \in DOMAIN part.rels |-> part.rels[i].var], shortest |-> part.shortest]
PathsOf(parts) == LET Named(part) == part.path # ""
                      named == SelectSeq(parts, Named) IN [i \in DOMAIN named |-> PathOf(named[i])]
ToPatternRelationship(part, i) ==
  [rel |-> part.rels[i].var, from |-> part.nodes[i].var, to |-> part.nodes[i + 1].var, dir |-> part.rels[i].dir,
   types |-> part.rels[i].types, range |-> part.rels[i].range, shortest |-> part.shortest]
PartRels(part) == [i \in DOMAIN part.rels |-> ToPatternRelationship(part, i)]
AddPatternPart(graph, part) ==
  [graph EXCEPT !.nodes = @ \cup PartNodes(part), !.rels = @ \o PartRels(part), !.paths = @ \o PathsOf(<<part>>)]
AddPattern(graph, parts) ==
  LET R[i \in 0 .. Len(parts)] == IF i = 0 THEN graph ELSE AddPatternPart(R[i - 1], parts[i]) IN R[Len(parts)]

\* What CREATE and MERGE make, in order: the nodes not yet bound, and the
\* relationships, each after its two ends.
BuildPropertyMap(x) ==
  CASE x = None    -> [k |-> <<>>, x |-> <<>>]
    [] x.e = "map"  -> [k |-> x.ks, x |-> PlainAll(x.a)]
    [] OTHER        -> [param |-> Plain(x)]
CreateNodePattern(np) == [node |-> [var |-> np.var, labels |-> np.labels, props |-> BuildPropertyMap(np.props)]]
CreateRelationshipPattern(part, i) ==
  LET rp == part.rels[i]
  IN  [rel |-> [var |-> rp.var, left |-> part.nodes[i].var, right |-> part.nodes[i + 1].var, dir |-> rp.dir,
                type |-> CHOOSE t \in rp.types : TRUE, props |-> BuildPropertyMap(rp.props)]]
AddCreateNode(c, np) ==
  IF np.var \in c.bound THEN c ELSE [c EXCEPT !.commands = Append(@, CreateNodePattern(np)), !.bound = @ \cup {np.var}]
AddCreatePart(c, part) ==
  LET R[i \in 0 .. Len(part.rels)] ==
        IF i = 0 THEN AddCreateNode(c, part.nodes[1])
        ELSE LET ends == AddCreateNode(R[i - 1], part.nodes[i + 1])
             IN  [ends EXCEPT !.commands = Append(@, CreateRelationshipPattern(part, i))]
  IN  R[Len(part.rels)]
BuildCreatePattern(parts, existing) ==
  LET R[i \in 0 .. Len(parts)] == IF i = 0 THEN [commands |-> <<>>, bound |-> existing] ELSE AddCreatePart(R[i - 1], parts[i])
  IN  [commands |-> R[Len(parts)].commands, paths |-> PathsOf(parts), names |-> Names(PatternVariables(parts)),
       nodes |-> UNION {PartNodes(parts[i]) : i \in DOMAIN parts}, deps |-> UNION {Dependencies(x) : x \in PatternProperties(parts)}]

-----------------------------------------------------------------------------
(* Predicates.  sub: the subqueries within; at: the subqueries around.     *)

GenericPredicate(x) ==
  [kind |-> "generic", x |-> x, deps |-> {}, sub |-> <<>>, var |-> "", names |-> {}, k |-> "", op |-> "", value |-> None]
PropertyPredicate(x, property, kind, op, value) ==
  IF property.e # "prop" THEN GenericPredicate(x)
  ELSE IF property.a[1].e # "var" THEN GenericPredicate(x)
  ELSE [GenericPredicate(x) EXCEPT !.kind = kind, !.var = property.a[1].n, !.k = property.k, !.op = op, !.value = value]
ReverseComparisonOp(op) == CASE op = "<" -> ">" [] op = "<=" -> ">=" [] op = ">" -> "<" [] op = ">=" -> "<=" [] OTHER -> op
ComparisonPredicate(x) ==
  IF x.a[1].e = "prop" THEN PropertyPredicate(x, x.a[1], "cmp", x.op, x.a[2])
  ELSE PropertyPredicate(x, x.a[2], "cmp", ReverseComparisonOp(x.op), x.a[1])
\* n:A is about the labels of a node or the type of a relationship.
LabelledPredicate(x, scope, graph) ==
  LET v == x.a[1].n
      type == IF v \in DOMAIN scope THEN scope[v] ELSE "unknown"
      kind == IF type = "rel" \/ (type = "unknown" /\ v \in RelationshipVariables(graph)) THEN "type"
              ELSE IF type = "node" \/ (type = "unknown" /\ v \in graph.nodes) THEN "label" ELSE "generic"
  IN  [GenericPredicate(x) EXCEPT !.kind = kind, !.var = v, !.names = IF kind = "generic" THEN {} ELSE x.ls]
\* Without the dependencies and subqueries.
ClassifiedPredicate(x, scope, graph) ==
  CASE x.e = "labels" /\ x.a[1].e = "var"      -> LabelledPredicate(x, scope, graph)
    [] x.e = "cmp"                             -> ComparisonPredicate(x)
    [] x.e = "in"                              -> PropertyPredicate(x, x.a[1], "in", "IN", x.a[2])
    [] x.e = "strpred"                         -> PropertyPredicate(x, x.a[1], "string", x.op, x.a[2])
    [] x.e = "isnull"                          -> PropertyPredicate(x, x.a[1], IF x.is THEN "null" ELSE "notnull", "", None)
    [] x.e = "exists"                          -> [GenericPredicate(x) EXCEPT !.kind = "exists"]
    [] x.e = "not" /\ x.a[1].e = "exists"      -> [GenericPredicate(x) EXCEPT !.kind = "not exists"]
    [] OTHER                                   -> GenericPredicate(x)
RECURSIVE CollectSubqueries(_, _, _, _)
BuildPredicate(x, scope, graph, at) ==
  [ClassifiedPredicate(x, scope, graph) EXCEPT !.deps = ExpressionDependencies(x, scope), !.sub = CollectSubqueries(x, {}, scope, at)]

RECURSIVE SplitConjunctivePredicates(_)
SplitConjunctivePredicates(x) ==
  IF x.e = "and" THEN SplitConjunctivePredicates(x.a[1]) \o SplitConjunctivePredicates(x.a[2]) ELSE <<x>>
PredicateKey(p) == [p EXCEPT !.x = IF p.kind \in {"generic", "exists", "not exists"} THEN p.x ELSE None, !.deps = {}, !.sub = <<>>]
\* A predicate that is already there is not added again.
AddPredicate(preds, p) ==
  IF \E i \in DOMAIN preds : PredicateKey(preds[i]) = PredicateKey(p) THEN preds ELSE Append(preds, p)
AddSelectionPredicates(preds, where, scope, graph, at) ==
  LET xs == SplitConjunctivePredicates(where)
      R[i \in 0 .. Len(xs)] == IF i = 0 THEN preds ELSE AddPredicate(R[i - 1], BuildPredicate(xs[i], scope, graph, at))
  IN  IF where = None THEN preds ELSE R[Len(xs)]
AddWhere(graph, where, scope, at) == [graph EXCEPT !.preds = AddSelectionPredicates(@, where, scope, graph, at)]

-----------------------------------------------------------------------------
(* Mutations.                                                              *)

PlainSet(item) ==
  LET target == Override(item, [entity |-> Plain(item.entity)])
  IN  IF "x" \in DOMAIN item THEN Override(target, [x |-> Plain(item.x)]) ELSE target
BuildSetMutatingPatterns(items) == [i \in DOMAIN items |-> PlainSet(items[i])]
SetDependencies(sets) ==
  UNION {Dependencies(sets[i].entity.x) \cup (IF "x" \in DOMAIN sets[i] THEN Dependencies(sets[i].x.x) ELSE {}) : i \in DOMAIN sets}
ActionDependencies(actions) == UNION {SetDependencies(actions[i].sets) : i \in DOMAIN actions}

\* What a MERGE looks for: its nodes with their labels, its relationships,
\* and the properties of both.
PropertyEquality(v, k, x) ==
  LET property == [e |-> "prop", k |-> k, a |-> <<Var(v)>>]
  IN  [GenericPredicate([e |-> "cmp", op |-> "=", a |-> <<property, x>>])
         EXCEPT !.kind = "cmp", !.var = v, !.k = k, !.op = "=", !.value = x, !.deps = {v} \cup Dependencies(x)]
PropertyEqualities(v, props) ==
  IF props.e = "map" THEN [i \in DOMAIN props.ks |-> PropertyEquality(v, props.ks[i], props.a[i])] ELSE <<>>
NodeLabels(np) ==
  IF np.labels = {} THEN <<>>
  ELSE <<[GenericPredicate([e |-> "labels", ls |-> np.labels, a |-> <<Var(np.var)>>])
            EXCEPT !.kind = "label", !.var = np.var, !.names = np.labels, !.deps = {np.var}]>>
Concat(s) == LET R[i \in 0 .. Len(s)] == IF i = 0 THEN <<>> ELSE R[i - 1] \o s[i] IN R[Len(s)]
AddPredicates(ps) == LET R[i \in 0 .. Len(ps)] == IF i = 0 THEN <<>> ELSE AddPredicate(R[i - 1], ps[i]) IN R[Len(ps)]
RelationshipCovers(graph, v) == \E i \in DOMAIN graph.rels : v \in {graph.rels[i].rel, graph.rels[i].from, graph.rels[i].to}
\* Arguments the pattern takes for nodes without looking at them otherwise.
AddAssertIsNodeVariables(graph) ==
  [graph EXCEPT !.assert = @ \cup {n \in graph.nodes \cap graph.args : ~RelationshipCovers(graph, n)}]
BuildMergeMatchGraph(part, args) ==
  LET graph == [AddPatternPart(EmptyGraph(args), [part EXCEPT !.path = ""]) EXCEPT !.preds =
                  AddPredicates(Concat([i \in DOMAIN part.nodes |-> NodeLabels(part.nodes[i]) \o PropertyEqualities(part.nodes[i].var, part.nodes[i].props)])
                                \o Concat([i \in DOMAIN part.rels |-> PropertyEqualities(part.rels[i].var, part.rels[i].props)]))]
  IN  AddAssertIsNodeVariables(graph)

\* Nodes bound before a clause: the arguments, those matched and created.
CurrentNodeSymbols(graph) ==
  graph.args \cup graph.nodes
    \cup UNION {graph.muts[i].pat.nodes : i \in {j \in DOMAIN graph.muts : graph.muts[j].kind \in {"create", "merge"}}}
BuildMergePattern(c, graph) ==
  LET pat == BuildCreatePattern(<<c.part>>, CurrentNodeSymbols(graph))
      actions == [i \in DOMAIN c.actions |-> [onMatch |-> c.actions[i].onMatch, sets |-> BuildSetMutatingPatterns(c.actions[i].sets)]]
      deps == pat.names \cup pat.deps \cup ActionDependencies(actions)
  IN  [kind |-> "merge", pat |-> pat, actions |-> actions, match |-> BuildMergeMatchGraph(c.part, deps \cap graph.args)]
BuildMutatingPattern(c, graph) ==
  CASE c.c = "create"            -> [kind |-> "create", pat |-> BuildCreatePattern(c.pattern, CurrentNodeSymbols(graph))]
    [] c.c = "merge"             -> BuildMergePattern(c, graph)
    [] c.c \in {"set", "remove"} -> [kind |-> c.c, sets |-> BuildSetMutatingPatterns(c.sets)]
    [] c.c = "delete"            -> [kind |-> "delete", xs |-> PlainAll(c.xs), detach |-> c.detach]
MutatingPatternSymbols(m) == IF m.kind \in {"create", "merge"} THEN m.pat.names ELSE {}
MutatingPatternDependencies(m) ==
  CASE m.kind = "create"            -> m.pat.names \cup m.pat.deps
    [] m.kind = "merge"             -> m.pat.names \cup m.pat.deps \cup ActionDependencies(m.actions)
    [] m.kind \in {"set", "remove"} -> SetDependencies(m.sets)
    [] m.kind = "delete"            -> UNION {Dependencies(m.xs[i].x) : i \in DOMAIN m.xs}

-----------------------------------------------------------------------------
(* Symbols of a query graph.                                               *)

CoveredIdsForPatterns(graph) ==
  PathVariables(graph) \cup graph.nodes \cup RelationshipVariables(graph)
    \cup UNION {{graph.rels[i].from, graph.rels[i].to} : i \in DOMAIN graph.rels}
RECURSIVE QueryGraphAvailableSymbols(_)
QueryGraphAvailableSymbols(graph) ==
  graph.args \cup PathVariables(graph) \cup graph.nodes \cup RelationshipVariables(graph)
    \cup UNION {MutatingPatternSymbols(graph.muts[i]) : i \in DOMAIN graph.muts}
    \cup UNION {QueryGraphAvailableSymbols(graph.optionals[i]) : i \in DOMAIN graph.optionals}
RECURSIVE QueryGraphDependencies(_)
QueryGraphDependencies(graph) ==
  CoveredIdsForPatterns(graph) \cup UNION {graph.preds[i].deps : i \in DOMAIN graph.preds}
    \cup UNION {QueryGraphDependencies(graph.optionals[i]) : i \in DOMAIN graph.optionals}
    \cup UNION {MutatingPatternDependencies(graph.muts[i]) : i \in DOMAIN graph.muts}
RECURSIVE AllCoveredIds(_)
AllCoveredIds(graph) ==
  CoveredIdsForPatterns(graph) \cup graph.args
    \cup UNION {AllCoveredIds(graph.optionals[i]) : i \in DOMAIN graph.optionals}
    \cup UNION {MutatingPatternSymbols(graph.muts[i]) : i \in DOMAIN graph.muts}
HasLocalWork(graph) ==
  \/ graph.nodes # {}
  \/ \E f \in {graph.rels, graph.paths, graph.preds, graph.optionals, graph.muts} : f # <<>>

ProjectionHorizons == {"regular", "distinct", "aggregating"}
\* The columns of a segment, and those the next one may use.
OutputAliases(seg) ==
  CASE seg.horizon.kind \in ProjectionHorizons -> [i \in DOMAIN seg.horizon.items |-> seg.horizon.items[i].alias]
    [] seg.horizon.kind = "call"               -> [i \in DOMAIN seg.horizon.yields |-> seg.horizon.yields[i].var]
    [] OTHER                                   -> InNameOrder(QueryGraphAvailableSymbols(seg.graph))
OutputSymbols(seg) ==
  CASE seg.horizon.kind \in ProjectionHorizons -> RangeOfSeq(OutputAliases(seg))
    [] seg.horizon.kind = "unwind"             -> QueryGraphAvailableSymbols(seg.graph) \cup {seg.horizon.var}
    [] seg.horizon.kind = "call"               -> QueryGraphAvailableSymbols(seg.graph) \cup RangeOfSeq(OutputAliases(seg))
    [] OTHER                                   -> QueryGraphAvailableSymbols(seg.graph)

-----------------------------------------------------------------------------
(* Subqueries of expressions: EXISTS and pattern comprehensions, which are *)
(* planned like queries and evaluated before the expression they occur in. *)
(* at: the subqueries around, to keep names apart.                         *)

Subquery(kind, x, scope, name, coll, query) ==
  [kind |-> kind, x |-> x, deps |-> ExpressionDependencies(x, scope), var |-> name, coll |-> coll, query |-> query]
ResultVariable(sub) == IF sub.kind = "list" THEN sub.coll ELSE sub.var
PrecomputedExpressions(subs) == [i \in DOMAIN subs |-> <<subs[i].x, ResultVariable(subs[i])>>]

RECURSIVE BuildRegularQuery(_, _, _, _)
SubqueriesOf(xs, locals, scope, at) == Concat([i \in DOMAIN xs |-> CollectSubqueries(xs[i], locals, scope, at)])
NoHorizon == [kind |-> "pass", deps |-> {}]
ProjectionHorizon(kind, items, order, skip, limit, preds, subs, final, deps) ==
  [kind |-> kind, items |-> items, order |-> order, skip |-> skip, limit |-> limit, preds |-> preds, subs |-> subs,
   final |-> final, deps |-> deps]

BuildExistsIRExpression(x, scope, at) ==
  Subquery("exists", x, scope, "__exists_" \o at \o x.id, "", 
           BuildRegularQuery([singles |-> x.query, all |-> x.all], scope, at \o x.id \o "_", FALSE))
BuildListIRExpression(x, scope, at) ==
  LET inner == DefinePart(scope, x.part)
      deeper == at \o x.id \o "_"
      value == "__list_value_" \o at \o x.id
      graph == AddWhere(AddPatternPart(EmptyGraph({}), x.part), x.a[1], inner, deeper)
      horizon == ProjectionHorizon("regular", <<[alias |-> value, x |-> x.a[2]]>>, <<>>, None, None, <<>>,
                                   CollectSubqueries(x.a[2], {}, inner, deeper), FALSE, ExpressionDependencies(x.a[2], inner))
  IN  Subquery("list", x, scope, value, IF x.part.path = "" THEN "__list_" \o at \o x.id ELSE x.part.path,
               [singles |-> <<<<[graph |-> graph, horizon |-> horizon]>>>>, all |-> <<>>])

\* Mutant: subqueries on the variable of a comprehension are planned, too.
MutPlannable(x, locals, scope) == TRUE
\* A subquery on the variable of a list comprehension or of reduce() cannot
\* be evaluated beforehand.
Plannable(x, locals, scope) == locals \cap ExpressionDependencies(x, scope) = {}
CollectSubqueries(x, locals, scope, at) ==
  LET Within(i, ns) == CollectSubqueries(x.a[i], locals \cup ns, DefineAll(scope, ns, "unknown"), at)
  IN  CASE x.e = "comp"        -> Within(1, {}) \o Within(2, {x.n}) \o Within(3, {x.n})
        [] x.e = "reduce"      -> Within(1, {}) \o Within(2, {}) \o Within(3, {x.acc, x.n})
        [] x.e \in Quantifiers -> Within(1, {}) \o CollectSubqueries(x.a[2], locals, Define(scope, x.n, "unknown"), at)
        [] x.e = "exists"      -> IF Plannable(x, locals, scope) THEN <<BuildExistsIRExpression(x, scope, at)>> ELSE <<>>
        [] x.e = "pattern"     -> (IF Plannable(x, locals, scope) THEN <<BuildListIRExpression(x, scope, at)>> ELSE <<>>)
                                    \o SubqueriesOf(x.a, locals, DefinePart(scope, x.part), at)
        [] OTHER               -> SubqueriesOf(x.a, locals, scope, at)

-----------------------------------------------------------------------------
(* Horizons.                                                               *)

BuildProjectionClause(proj, scope, at, final) ==
  LET ordering == OrderScope(scope, proj.items)
      after == ProjectedScope(scope, proj.items)
      xs == [i \in DOMAIN proj.items |-> proj.items[i].x]
      tail == [i \in DOMAIN proj.order |-> proj.order[i].x] \o <<proj.skip, proj.limit>>
      preds == AddSelectionPredicates(<<>>, proj.where, after, EmptyGraph({}), at)
      kind == IF \E i \in DOMAIN xs : ContainsAggregation(xs[i]) THEN "aggregating"
              ELSE IF proj.distinct THEN "distinct" ELSE "regular"
      deps == UNION {ExpressionDependencies(xs[i], scope) : i \in DOMAIN xs}
                \cup UNION {ExpressionDependencies(tail[i], ordering) : i \in DOMAIN tail}
                \cup UNION {preds[i].deps : i \in DOMAIN preds}
  IN  ProjectionHorizon(kind, proj.items, proj.order, proj.skip, proj.limit, preds,
                        SubqueriesOf(xs, {}, scope, at) \o SubqueriesOf(tail, {}, ordering, at), final, deps)
BuildUnwindHorizon(c, scope) == [kind |-> "unwind", x |-> c.x, var |-> c.var, deps |-> ExpressionDependencies(c.x, scope)]
\* A procedure that is not known is taken to write.
KnownProcedureReadOnly(proc) == LET found == FindBuiltinProcedure(proc) IN IF found = <<>> THEN FALSE ELSE found[1].readOnly
BuildProcedureCallHorizon(c, scope, at) ==
  LET after == ScopeAfter(scope, c)
      preds == AddSelectionPredicates(<<>>, c.where, after, EmptyGraph({}), at)
  IN  [kind |-> "call", proc |-> c.proc, xs |-> c.xs, yields |-> ProcedureYields(c),
       readOnly |-> KnownProcedureReadOnly(c.proc), preds |-> preds,
       deps |-> UNION {ExpressionDependencies(c.xs[i], scope) : i \in DOMAIN c.xs} \cup UNION {preds[i].deps : i \in DOMAIN preds}]

-----------------------------------------------------------------------------
(* Segments.  The builder b holds the finished segments, the graph of the  *)
(* current one, whether that is finished too, and the scope.               *)

Finish(b, horizon) == [b EXCEPT !.segs = Append(@, [graph |-> b.graph, horizon |-> horizon]), !.done = TRUE]
StartNext(b) == [b EXCEPT !.graph = EmptyGraph(OutputSymbols(b.segs[Len(b.segs)])), !.done = FALSE]
FinishAndStartNext(b, horizon) == StartNext(Finish(b, horizon))

BuildMatch(b, c) ==
  LET scope == ScopeAfter(b.scope, c)
      Matched(graph) == AddWhere(AddPattern(graph, c.pattern), c.where, scope, b.at)
  IN  IF c.optional THEN [b EXCEPT !.graph.optionals = Append(@, Matched(EmptyGraph({}))), !.scope = scope]
      ELSE [b EXCEPT !.graph = Matched(@), !.scope = scope]
BuildReadingClause(b, c) ==
  CASE c.c = "match"  -> BuildMatch(b, c)
    [] c.c = "unwind" -> [FinishAndStartNext(b, BuildUnwindHorizon(c, b.scope)) EXCEPT !.scope = ScopeAfter(@, c)]
    [] c.c = "call"   -> [FinishAndStartNext(b, BuildProcedureCallHorizon(c, b.scope, b.at)) EXCEPT !.scope = ScopeAfter(@, c)]
BuildReadingClauses(b, cs) ==
  LET R[i \in 0 .. Len(cs)] == IF i = 0 THEN b ELSE BuildReadingClause(R[i - 1], cs[i]) IN R[Len(cs)]

\* A MERGE has a segment of its own.
BuildUpdatingClause(b, c) ==
  [b EXCEPT !.graph.muts = Append(@, BuildMutatingPattern(c, b.graph)), !.scope = ScopeAfter(@, c)]
BuildMerge(b, c, more) ==
  LET alone == IF HasLocalWork(b.graph) THEN FinishAndStartNext(b, NoHorizon) ELSE b
      merged == Finish(BuildUpdatingClause(alone, c), NoHorizon)
  IN  IF more THEN StartNext(merged) ELSE merged
BuildUpdatingClauses(b, cs, following) ==
  LET R[i \in 0 .. Len(cs)] ==
        IF i = 0 THEN b
        ELSE IF cs[i].c = "merge" THEN BuildMerge(R[i - 1], cs[i], i < Len(cs) \/ following)
        ELSE BuildUpdatingClause(R[i - 1], cs[i])
  IN  R[Len(cs)]

IsPureVariablePassthrough(proj, symbols) ==
  /\ ~proj.distinct /\ proj.order = <<>> /\ proj.skip = None /\ proj.limit = None
  /\ \A i \in DOMAIN proj.items : proj.items[i].x = Var(proj.items[i].alias)
  /\ \A i, j \in DOMAIN proj.items : proj.items[i].alias = proj.items[j].alias => i = j
  /\ Aliases(proj.items) = symbols
\* WITH that changes nothing only adds its WHERE.
CanInlineWith(b, part) ==
  /\ b.graph.optionals = <<>> /\ part.updating = <<>> /\ b.graph.muts = <<>>
  /\ IsPureVariablePassthrough(part.proj, QueryGraphAvailableSymbols(b.graph))

BuildPart(b, part, last, final) ==
  LET read == BuildReadingClauses(b, part.reading)
      wrote == BuildUpdatingClauses(read, part.updating, ~last \/ HasProjection(part))
      after == ProjectedScope(wrote.scope, part.proj.items)
  IN  IF ~HasProjection(part)
      THEN IF ~wrote.done /\ HasLocalWork(wrote.graph) THEN Finish(wrote, NoHorizon) ELSE wrote
      ELSE IF last THEN Finish(wrote, BuildProjectionClause(part.proj, wrote.scope, b.at, final))
      ELSE IF CanInlineWith(wrote, part)
      THEN [wrote EXCEPT !.graph = AddWhere(@, part.proj.where, after, b.at), !.scope = after]
      ELSE [FinishAndStartNext(wrote, BuildProjectionClause(part.proj, wrote.scope, b.at, FALSE)) EXCEPT !.scope = after]
BuildSingleQuery(query, scope, at, final) ==
  LET start == [segs |-> <<>>, graph |-> EmptyGraph({}), done |-> FALSE, scope |-> scope, at |-> at]
      R[i \in 0 .. Len(query)] == IF i = 0 THEN start ELSE BuildPart(R[i - 1], query[i], i = Len(query), final)
  IN  R[Len(query)].segs
\* query: [singles, all], all[i] for UNION ALL between singles i and i + 1.
BuildRegularQuery(query, scope, at, final) ==
  LET qs == query.singles IN [query EXCEPT !.singles = [i \in DOMAIN qs |-> BuildSingleQuery(qs[i], scope, at, final /\ Len(qs) = 1)]]
\* The columns of a UNION are named by its first branch.
BuildUnionMappings(left, right) == {[l |-> left[i], r |-> right[i], out |-> left[i]] : i \in DOMAIN left}

-----------------------------------------------------------------------------
(* Arguments: what a graph, an optional graph or a subquery uses of what   *)
(* is there before it.                                                     *)

RECURSIVE FinalizeQuery(_, _)
FinalizeSubqueries(subs, available) ==
  [i \in DOMAIN subs |-> [subs[i] EXCEPT !.query = FinalizeQuery(@, subs[i].deps \cap available)]]
FinalizeSelections(preds, available) == [i \in DOMAIN preds |-> [preds[i] EXCEPT !.sub = FinalizeSubqueries(@, available)]]
RECURSIVE FinalizeQueryGraph(_)
\* Each optional graph sees what those before it bind.
FinalizeOptionals(optionals, available) ==
  LET Graph(i, ns) == FinalizeQueryGraph([optionals[i] EXCEPT !.args = QueryGraphDependencies(optionals[i]) \cap ns])
      R[i \in 0 .. Len(optionals)] ==
        IF i = 0 THEN [done |-> <<>>, ns |-> available]
        ELSE LET so == R[i - 1]
                 graph == Graph(i, so.ns)
             IN  [done |-> Append(so.done, graph), ns |-> so.ns \cup QueryGraphAvailableSymbols(graph)]
  IN  R[Len(optionals)].done
FinalizeQueryGraph(graph) ==
  LET available == CoveredIdsForPatterns(graph) \cup graph.args
  IN  AddAssertIsNodeVariables([graph EXCEPT !.preds = FinalizeSelections(@, available), !.optionals = FinalizeOptionals(@, available)])
FinalizeHorizon(horizon, available) ==
  CASE horizon.kind \in ProjectionHorizons -> [horizon EXCEPT !.preds = FinalizeSelections(@, available), !.subs = FinalizeSubqueries(@, available)]
    [] horizon.kind = "call"               -> [horizon EXCEPT !.preds = FinalizeSelections(@, available)]
    [] OTHER                               -> horizon
\* Only a projection drops columns; the other horizons hand on all of them.
SegmentArguments(seg, available) ==
  IF seg.horizon.kind \in ProjectionHorizons
  THEN (QueryGraphDependencies(seg.graph) \cup seg.horizon.deps) \cap available ELSE available
FinalizeSegment(seg, available) ==
  LET graph == FinalizeQueryGraph([seg.graph EXCEPT !.args = SegmentArguments(seg, available)])
      done == [seg EXCEPT !.graph = graph]
  IN  [done EXCEPT !.horizon = FinalizeHorizon(@, QueryGraphAvailableSymbols(graph) \cup OutputSymbols(done))]
FinalizeSingleQuery(segs, available) ==
  LET R[i \in 0 .. Len(segs)] ==
        IF i = 0 THEN [done |-> <<>>, ns |-> available]
        ELSE LET so == R[i - 1]
                 seg == FinalizeSegment(segs[i], so.ns)
             IN  [done |-> Append(so.done, seg), ns |-> OutputSymbols(seg)]
  IN  R[Len(segs)].done
FinalizeQuery(query, available) ==
  LET qs == query.singles IN [query EXCEPT !.singles = [i \in DOMAIN qs |-> FinalizeSingleQuery(qs[i], available)]]
BuildQueryIR(query) == FinalizeQuery(BuildRegularQuery(query, EmptyScope, "", TRUE), {})

\* The parts of a pattern no relationship connects, those with arguments
\* first; a part is its nodes and the indexes of its relationships.
RECURSIVE Reachable(_, _)
Reachable(graph, ns) ==
  LET more == ns \cup UNION {{graph.rels[i].from, graph.rels[i].to} : i \in {j \in DOMAIN graph.rels : ns \cap {graph.rels[j].from, graph.rels[j].to} # {}}}
  IN  IF more = ns THEN ns ELSE Reachable(graph, more)
RECURSIVE Components(_, _)
Components(graph, nodes) ==
  IF nodes = {} THEN <<>>
  ELSE LET first == IF nodes \cap graph.args = {} THEN nodes ELSE nodes \cap graph.args
           ns == Reachable(graph, {CHOOSE n \in first : TRUE})
       IN  <<[nodes |-> ns, rels |-> {i \in DOMAIN graph.rels : graph.rels[i].from \in ns}]>> \o Components(graph, nodes \ ns)
ConnectedComponents(graph) ==
  Components(graph, graph.nodes \cup UNION {{graph.rels[i].from, graph.rels[i].to} : i \in DOMAIN graph.rels})
=============================================================================
