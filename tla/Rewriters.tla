----------------------------- MODULE Rewriters -----------------------------
(***************************************************************************)
(* The rewriters a parsed statement goes through before the query IR is    *)
(* built, src/ast/rewriters.  Each is one pass over the statement; a pass  *)
(* visits the children of an element of the syntax tree first.             *)
(*                                                                         *)
(* As parsed, an expression may also be "paren", "chain" (a < b <= c, ops  *)
(* between its operands a) and "patternpred" (a pattern as a predicate); a *)
(* projection has a flag star, and "" stands for a missing name or alias.  *)
(* Generated names are made from the position in the tree; the code counts *)
(* and skips the names the statement uses.                                 *)
(*                                                                         *)
(* A pass w has its rule, the position at, the names scope visible there   *)
(* as the semantic table has them, and the names seen in the whole part,   *)
(* which is what a star stands for.                                        *)
(***************************************************************************)
EXTENDS QueryIR

Numeral(i) == <<"0", "1", "2", "3", "4", "5", "6", "7", "8", "9">>[i + 1]
Under(w, i) == [w EXCEPT !.at = @ \o Numeral(i)]
Seeing(w, ns) == [w EXCEPT !.scope = @ \cup ns]
\* The names the rewriters generate: each collects the names of the statement,
\* and counts until it has one that is not among them.
AnonymousName(at) == "anon_" \o at
UpdateName(at) == "__update_expr_" \o at
AggregateName(at) == "__agg_" \o at
PropertyVariable(at) == "__rel_prop_" \o at

MakeAnd(l, r) == IF l = None THEN r ELSE IF r = None THEN l ELSE [e |-> "and", a |-> <<l, r>>]
CombinePredicates(xs) == LET R[i \in 0 .. Len(xs)] == IF i = 0 THEN None ELSE MakeAnd(R[i - 1], xs[i]) IN R[Len(xs)]
MakeNot(x) == [e |-> "not", a |-> <<x>>]
MakeEquals(l, r) == [e |-> "cmp", op |-> "=", a |-> <<l, r>>]
MakeIn(x, list) == [e |-> "in", a |-> <<x, list>>]
MakeQuantifier(kind, n, list, x) == [e |-> kind, n |-> n, a |-> <<list, x>>]
MakeProjection(items) ==
  [items |-> items, star |-> FALSE, distinct |-> FALSE, order |-> <<>>, skip |-> None, limit |-> None, where |-> None]
MakePart(reading, updating, proj) == [reading |-> reading, updating |-> updating, proj |-> proj]

-----------------------------------------------------------------------------
(* Forms of expressions.                                                   *)

\* x["k"] is x.k.
LiteralDynamicProperty(x) ==
  IF x.e # "index" THEN x
  ELSE IF x.a[2].e # "lit" THEN x
  ELSE IF ~IsStr(x.a[2].v) THEN x
  ELSE [e |-> "prop", k |-> NameOf(x.a[2].v.str), a |-> <<x.a[1]>>]
ParenthesizedExpression(x) == IF x.e = "paren" THEN x.a[1] ELSE x
ComparisonChain(x) ==
  IF x.e # "chain" THEN x
  ELSE CombinePredicates([i \in DOMAIN x.ops |-> [e |-> "cmp", op |-> x.ops[i], a |-> <<x.a[i], x.a[i + 1]>>]])
PatternPredicate(x) ==
  IF x.e # "patternpred" THEN x
  ELSE [e |-> "exists", id |-> x.id, pattern |-> <<x.part>>, query |-> <<>>, all |-> <<>>, a |-> <<None>>]
\* EXISTS of a pattern is EXISTS of a query that matches it.
ExistentialSubquery(x) ==
  IF x.e # "exists" THEN x
  ELSE IF x.pattern = <<>> \/ x.query # <<>> THEN x
  ELSE LET match == [c |-> "match", pattern |-> x.pattern, where |-> x.a[1], optional |-> FALSE]
           one == MakeProjection(<<[alias |-> "", x |-> Literal(Int_(1))]>>)
       IN  [x EXCEPT !.pattern = <<>>, !.a = <<None>>, !.query = <<<<MakePart(<<match>>, <<>>, one)>>>>]

-----------------------------------------------------------------------------
(* Aliases of projections.                                                 *)

\* The text of the expressions that stand without an alias.
RECURSIVE ExpressionToString(_)
ExpressionToString(x) ==
  CASE x.e = "var"    -> x.n
    [] x.e = "prop"   -> ExpressionToString(x.a[1]) \o "." \o x.k
    [] x.e = "call"   -> x.f \o "(" \o (IF x.a = <<>> THEN "" ELSE ExpressionToString(x.a[1])) \o ")"
    [] x.e = "lit"    -> IF IsInt(x.v) THEN IF x.v.int \in 0 .. 9 THEN Numeral(x.v.int) ELSE "number" ELSE "literal"
    [] OTHER          -> x.e
FillAliases(proj) ==
  [proj EXCEPT !.items = [i \in DOMAIN proj.items |->
     IF proj.items[i].alias # "" THEN proj.items[i] ELSE [proj.items[i] EXCEPT !.alias = ExpressionToString(proj.items[i].x)]]]

Binders == {"comp", "reduce", "pattern", "exists"} \cup Quantifiers
\* What follows the items of a projection refers to them by their aliases.
RECURSIVE AliasReferences(_, _)
AliasReferences(x, items) ==
  LET same == {i \in DOMAIN items : items[i].x = x}
  IN  IF x.e = "var" /\ x \in {Var(items[i].alias) : i \in DOMAIN items} THEN x
      ELSE IF same # {} THEN Var(items[CHOOSE i \in same : \A j \in same : i <= j].alias)
      ELSE IF x.e \in Binders THEN x
      ELSE [x EXCEPT !.a = [i \in DOMAIN x.a |-> AliasReferences(x.a[i], items)]]
ProjectionAliasReference(proj) ==
  [proj EXCEPT !.order = [i \in DOMAIN proj.order |-> [proj.order[i] EXCEPT !.x = AliasReferences(@, proj.items)]],
               !.where = AliasReferences(@, proj.items)]

-----------------------------------------------------------------------------
(* Subqueries in updating clauses are computed by a projection before.     *)

HasSubquery(x) == \E y \in Subexpressions(x) : y.e \in {"exists", "pattern"}
Isolated(x, name) == IF HasSubquery(x) THEN Var(name) ELSE x
NamedOperands(xs, name) == [i \in DOMAIN xs |-> [alias |-> name \o Numeral(i), x |-> xs[i]]]
Elements(part) == part.nodes \o part.rels
PropertyValues(el, name) == IF el.props.e = "map" THEN NamedOperands(el.props.a, name) ELSE <<>>
SetExpressions(item, name) ==
  IF item.op \in {"SetProperty", "RemoveProperty"}
  THEN <<[alias |-> name \o "0", x |-> item.entity]>> \o (IF item.op = "SetProperty" THEN <<[alias |-> name \o "1", x |-> item.x]>> ELSE <<>>)
  ELSE IF item.op = "SetProperties" THEN <<[alias |-> name \o "1", x |-> item.x]>> ELSE <<>>
PatternValues(parts, name) ==
  Concat([i \in DOMAIN parts |->
    Concat([j \in DOMAIN Elements(parts[i]) |-> PropertyValues(Elements(parts[i])[j], name \o Numeral(i) \o Numeral(j))])])
\* ON CREATE and ON MATCH of MERGE are not among them.
UpdateExpressions(c, name) ==
  CASE c.c = "create"            -> PatternValues(c.pattern, name)
    [] c.c = "merge"             -> PatternValues(<<c.part>>, name)
    [] c.c \in {"set", "remove"} -> Concat([i \in DOMAIN c.sets |-> SetExpressions(c.sets[i], name \o Numeral(i))])
    [] c.c = "delete"            -> NamedOperands(c.xs, name)

IsolatedElement(el, name) ==
  IF el.props.e # "map" THEN el
  ELSE [el EXCEPT !.props = [el.props EXCEPT !.a = [i \in DOMAIN el.props.a |-> Isolated(el.props.a[i], name \o Numeral(i))]]]
IsolatedPart(part, name) ==
  LET n == Len(part.nodes)
  IN  [part EXCEPT !.nodes = [j \in DOMAIN part.nodes |-> IsolatedElement(part.nodes[j], name \o Numeral(j))],
                   !.rels = [j \in DOMAIN part.rels |-> IsolatedElement(part.rels[j], name \o Numeral(n + j))]]
IsolatedSet(item, name) ==
  LET xs == SetExpressions(item, name)
      At(f, suffix) == IF \E i \in DOMAIN xs : xs[i].alias = name \o suffix THEN Isolated(item[f], name \o suffix) ELSE item[f]
  IN  Override(item, [f \in DOMAIN item \cap {"entity", "x"} |-> IF f = "entity" THEN At(f, "0") ELSE At(f, "1")])
IsolatedClause(c, name) ==
  CASE c.c = "create"            -> [c EXCEPT !.pattern = [i \in DOMAIN c.pattern |-> IsolatedPart(c.pattern[i], name \o Numeral(i))]]
    [] c.c = "merge"             -> [c EXCEPT !.part = IsolatedPart(c.part, name \o "1")]
    [] c.c \in {"set", "remove"} -> [c EXCEPT !.sets = [i \in DOMAIN c.sets |-> IsolatedSet(c.sets[i], name \o Numeral(i))]]
    [] c.c = "delete"            -> [c EXCEPT !.xs = [i \in DOMAIN c.xs |-> Isolated(c.xs[i], name \o Numeral(i))]]

\* SET with a subquery is one SET for each of its items.
NormalizeUpdatingClauses(cs) ==
  Concat([i \in DOMAIN cs |->
    LET xs == IF cs[i].c = "set" THEN UpdateExpressions(cs[i], "") ELSE <<>>
    IN  IF \E j \in DOMAIN xs : HasSubquery(xs[j].x)
        THEN [j \in DOMAIN cs[i].sets |-> [c |-> "set", sets |-> <<cs[i].sets[j]>>]] ELSE <<cs[i]>>])
\* Mutant: the clauses before the isolated one stay behind it.
MutIsolatePart(part, at) ==
  LET Sub(item) == HasSubquery(item.x)
      cs == NormalizeUpdatingClauses(part.updating)
      items == Concat([i \in DOMAIN cs |-> SelectSeq(UpdateExpressions(cs[i], at \o Numeral(i)), Sub)])
      rest == [part EXCEPT !.updating = [i \in DOMAIN cs |-> IsolatedClause(cs[i], at \o Numeral(i))]]
  IN  IF items = <<>> THEN <<rest>>
      ELSE <<MakePart(part.reading, <<>>, [MakeProjection(items) EXCEPT !.star = TRUE]), [rest EXCEPT !.reading = <<>>]>>
IsolatePart(part, at) ==
  LET cs == NormalizeUpdatingClauses(part.updating)
      Sub(item) == HasSubquery(item.x)
      R[i \in 0 .. Len(cs)] ==
        IF i = 0 THEN [parts |-> <<>>, reading |-> part.reading, pending |-> <<>>]
        ELSE LET items == SelectSeq(UpdateExpressions(cs[i], at \o Numeral(i)), Sub)
                 c == IsolatedClause(cs[i], at \o Numeral(i))
                 with == [MakeProjection(items) EXCEPT !.star = TRUE]
                 so == R[i - 1]
             IN  IF items = <<>> THEN [so EXCEPT !.pending = Append(@, c)]
                 ELSE [parts |-> Append(so.parts, MakePart(so.reading, so.pending, with)),
                       reading |-> <<>>, pending |-> <<c>>]
      last == R[Len(cs)]
  IN  Append(last.parts, MakePart(last.reading, last.pending, part.proj))

-----------------------------------------------------------------------------
(* Aggregations inside expressions.                                        *)

IsAggregateCall(x) == x = CountStar \/ (x.e = "call" /\ x.f \in AggregateFunctions)
RECURSIVE AggregatesIn(_)
AggregatesIn(x) ==
  IF x.e = "exists" THEN <<>>
  ELSE IF IsAggregateCall(x) THEN <<x>>
  ELSE Concat([i \in DOMAIN x.a |-> AggregatesIn(x.a[i])])
HasAggregation(x) == AggregatesIn(x) # <<>>
IsNotConstantExpression(x) == Dependencies(x) # {} \/ ~ExpressionIsDeterministic(x)

AddExpression(named, x, alias) ==
  IF \E i \in DOMAIN named : named[i].x = x THEN named ELSE Append(named, [alias |-> alias, x |-> x])
AddExpressions(named, items) ==
  LET R[i \in 0 .. Len(items)] == IF i = 0 THEN named ELSE AddExpression(R[i - 1], items[i].x, items[i].alias) IN R[Len(items)]
\* Grouping items, aggregating items, then the aggregations inside others.
GroupedExpressions(proj, name) ==
  LET Grouping(item) == ~HasAggregation(item.x) /\ IsNotConstantExpression(item.x)
      Top(item) == IsAggregateCall(item.x)
      Mixed(item) == HasAggregation(item.x) /\ ~IsAggregateCall(item.x)
      mixed == SelectSeq(proj.items, Mixed)
      inner == Concat([i \in DOMAIN mixed |-> AggregatesIn(mixed[i].x)])
               \o Concat([i \in DOMAIN proj.order |-> AggregatesIn(proj.order[i].x)])
  IN  AddExpressions(<<>>, SelectSeq(proj.items, Grouping) \o SelectSeq(proj.items, Top) \o NamedOperands(inner, name))

RECURSIVE Aliased(_, _, _)
Aliased(x, named, local) ==
  LET same == {i \in DOMAIN named : named[i].x = x}
      Inner(i) == IF x.e = "comp" /\ i > 1 THEN local \cup {x.n}
                  ELSE IF x.e \in Quantifiers /\ i > 1 THEN local \cup {x.n}
                  ELSE IF x.e = "reduce" /\ i > 2 THEN local \cup {x.n, x.acc} ELSE local
  IN  IF same # {} /\ Dependencies(x) \cap local = {} THEN Var(named[CHOOSE i \in same : \A j \in same : i <= j].alias)
      ELSE IF x.e = "exists" THEN x
      ELSE [x EXCEPT !.a = [i \in DOMAIN x.a |-> Aliased(x.a[i], named, Inner(i))]]
\* The part, or one that aggregates and one that projects the results.
SplitAggregation(part, name) ==
  LET proj == part.proj
      split == \/ \E i \in DOMAIN proj.items : HasAggregation(proj.items[i].x) /\ ~IsAggregateCall(proj.items[i].x)
               \/ \E i \in DOMAIN proj.order : HasAggregation(proj.order[i].x)
      named == GroupedExpressions(proj, name)
      Over(s) == [i \in DOMAIN s |-> [s[i] EXCEPT !.x = Aliased(@, named, {})]]
  IN  IF ~HasProjection(part) THEN <<part>>
      ELSE IF proj.star \/ ~split THEN <<part>>
      ELSE <<[part EXCEPT !.proj = MakeProjection(named)],
             MakePart(<<>>, <<>>, [proj EXCEPT !.items = Over(@), !.order = Over(@), !.distinct = FALSE])>>

-----------------------------------------------------------------------------
(* Subqueries keep the outer variables they use through every WITH.        *)

SplitOrderedTerminalReturn(parts) ==
  LET last == parts[Len(parts)]
      items == [i \in DOMAIN last.proj.items |-> [alias |-> last.proj.items[i].alias, x |-> Var(last.proj.items[i].alias)]]
  IN  IF ~HasProjection(last) THEN parts
      ELSE IF last.proj.order = <<>> THEN parts ELSE Append(parts, MakePart(<<>>, <<>>, MakeProjection(items)))
AddDependenciesToProjection(proj, deps) ==
  LET missing == InNameOrder(deps \ {proj.items[i].alias : i \in DOMAIN proj.items})
  IN  [proj EXCEPT !.items = @ \o [i \in DOMAIN missing |-> [alias |-> missing[i], x |-> Var(missing[i])]]]
AddDependenciesToSingleQuery(parts, deps) ==
  LET split == SplitOrderedTerminalReturn(parts)
  IN  [i \in DOMAIN split |-> IF i = Len(split) THEN split[i]
                              ELSE [split[i] EXCEPT !.proj = AddDependenciesToProjection(@, deps)]]
SubqueryProjectionDependency(x, scope) ==
  IF x.e # "exists" THEN x
  ELSE LET deps == CollectDependencies(x, {}, scope)
       IN  [x EXCEPT !.query = [i \in DOMAIN x.query |-> AddDependenciesToSingleQuery(x.query[i], deps)]]

-----------------------------------------------------------------------------
(* Patterns: labels, properties and trails.                                *)

HasMap(el) == el.props.e = "map"
MakePropertyEquals(v, k, x) == MakeEquals([e |-> "prop", k |-> k, a |-> <<Var(v)>>], x)
NodePredicates(el) ==
  (IF el.labels = {} THEN <<>> ELSE <<[e |-> "labels", ls |-> el.labels, a |-> <<Var(el.var)>>]>>)
  \o (IF HasMap(el) THEN [i \in DOMAIN el.props.a |-> MakePropertyEquals(el.var, el.props.ks[i], el.props.a[i])] ELSE <<>>)
\* The properties of a relationship of variable length are those of each of them.
RelationshipPredicates(el, name) ==
  IF ~HasMap(el) THEN <<>>
  ELSE [i \in DOMAIN el.props.a |->
          IF el.range = <<>> THEN MakePropertyEquals(el.var, el.props.ks[i], el.props.a[i])
          ELSE LET item == name \o Numeral(i)
               IN  MakeQuantifier("all", item, Var(el.var), MakePropertyEquals(item, el.props.ks[i], el.props.a[i]))]
CollectFromPattern(part, name) ==
  NodePredicates(part.nodes[1])
  \o Concat([i \in DOMAIN part.rels |-> RelationshipPredicates(part.rels[i], name \o Numeral(i)) \o NodePredicates(part.nodes[i + 1])])
Bare(el) == IF HasMap(el) THEN [el EXCEPT !.props = None] ELSE el
BarePart(part) ==
  [part EXCEPT !.nodes = [i \in DOMAIN part.nodes |-> [Bare(part.nodes[i]) EXCEPT !.labels = {}]],
               !.rels = [i \in DOMAIN part.rels |-> Bare(part.rels[i])]]
NormalizePattern(parts, where) ==
  [pattern |-> [i \in DOMAIN parts |-> BarePart(parts[i])],
   where |-> MakeAnd(CombinePredicates(Concat([i \in DOMAIN parts |-> CollectFromPattern(parts[i], PropertyVariable(Numeral(i)))])), where)]

HasTypeOverlap(r, q) == r.types = {} \/ q.types = {} \/ r.types \cap q.types # {}
IsGroup(r) == r.range # <<>>
CanBeEmpty(r) == IsGroup(r) /\ r.range[1] = 0
Different(r, q, name) ==
  IF ~IsGroup(r) /\ ~IsGroup(q)
  THEN IF r.var = q.var THEN <<Literal(Bool(FALSE))>>
       ELSE IF HasTypeOverlap(r, q) THEN <<MakeNot(MakeEquals(Var(r.var), Var(q.var)))>> ELSE <<>>
  ELSE IF ~HasTypeOverlap(r, q) THEN <<>>
  ELSE IF ~IsGroup(r) THEN <<MakeNot(MakeIn(Var(r.var), Var(q.var)))>>
  ELSE IF ~IsGroup(q) THEN <<MakeNot(MakeIn(Var(q.var), Var(r.var)))>>
  ELSE IF r.var = q.var /\ ~CanBeEmpty(r) /\ ~CanBeEmpty(q) THEN <<Literal(Bool(FALSE))>>
  ELSE <<MakeQuantifier("none", name, Var(r.var), MakeIn(Var(name), Var(q.var)))>>
AllDifferent(r, name) ==
  IF ~IsGroup(r) THEN <<>>
  ELSE <<MakeQuantifier("all", name \o "0", Var(r.var),
           MakeQuantifier("single", name \o "1", Var(r.var), MakeEquals(Var(name \o "0"), Var(name \o "1"))))>>
CollectConnectionsFromPattern(parts) == Concat([i \in DOMAIN parts |-> IF parts[i].shortest = "none" THEN parts[i].rels ELSE <<>>])
UniquenessPredicates(parts) ==
  LET rs == CollectConnectionsFromPattern(parts)
      name == "__uniq_rel_"
      Pairs(i) == [k \in 1 .. (Len(rs) - i) |-> Different(rs[i], rs[i + k], name \o Numeral(i) \o Numeral(i + k))]
  IN  Concat([i \in DOMAIN rs |-> Concat(Pairs(i))]) \o Concat([i \in DOMAIN rs |-> AllDifferent(rs[i], name \o Numeral(i))])

-----------------------------------------------------------------------------
(* The passes.                                                             *)

ExpandStar(proj, seen) ==
  LET ns == InNameOrder(seen)
  IN  IF ~proj.star THEN proj
      ELSE [proj EXCEPT !.star = FALSE, !.items = [i \in DOMAIN ns |-> [alias |-> ns[i], x |-> Var(ns[i])]] \o @]

RewriteExpression(w, x) ==
  CASE w.rule = "literal dynamic property"        -> LiteralDynamicProperty(x)
    [] w.rule = "parenthesized expression"        -> ParenthesizedExpression(x)
    [] w.rule = "comparison chain"                -> ComparisonChain(x)
    [] w.rule = "pattern predicate"               -> PatternPredicate(x)
    [] w.rule = "existential subquery"            -> ExistentialSubquery(x)
    [] w.rule = "subquery projection dependency"  -> SubqueryProjectionDependency(x, w.scope)
    [] w.rule = "pattern predicate normalization" /\ x.e = "pattern" ->
         LET n == NormalizePattern(<<x.part>>, x.a[1]) IN [x EXCEPT !.part = n.pattern[1], !.a = <<n.where, x.a[2]>>]
    [] OTHER                                      -> x
RewriteMatch(w, c) ==
  CASE w.rule = "pattern predicate normalization" ->
         LET n == NormalizePattern(c.pattern, c.where) IN [c EXCEPT !.pattern = n.pattern, !.where = n.where]
    [] w.rule = "uniqueness predicates"           ->
         [c EXCEPT !.where = MakeAnd(CombinePredicates(UniquenessPredicates(c.pattern)), @)]
    [] OTHER                                      -> c
RewriteProjection(w, proj) ==
  CASE w.rule = "projection alias"           -> FillAliases(proj)
    [] w.rule = "projection alias reference" -> ProjectionAliasReference(proj)
    [] w.rule = "return star"                -> ExpandStar(proj, w.seen)
    [] OTHER                                 -> proj
RewriteSingleQuery(w, parts) ==
  CASE w.rule = "mutating subquery isolation" ->
         Concat([i \in DOMAIN parts |-> IsolatePart(parts[i], UpdateName(w.at \o Numeral(i)))])
    [] w.rule = "aggregation expression"      ->
         Concat([i \in DOMAIN parts |-> SplitAggregation(parts[i], AggregateName(w.at \o Numeral(i)))])
    [] OTHER                                  -> parts

RECURSIVE Walk(_, _)
RECURSIVE WalkSingleQuery(_, _)
WalkEach(w, xs) == [i \in DOMAIN xs |-> Walk(Under(w, i), xs[i])]
\* An element without a name gets one.
WalkElement(w, el) ==
  [el EXCEPT !.var = IF @ = "" /\ w.rule = "anonymous pattern name" THEN AnonymousName(w.at) ELSE @, !.props = Walk(w, @)]
WalkPart(w, part) ==
  [part EXCEPT !.nodes = [i \in DOMAIN part.nodes |-> WalkElement(Under(Under(w, 0), i), part.nodes[i])],
               !.rels = [i \in DOMAIN part.rels |-> WalkElement(Under(Under(w, 1), i), part.rels[i])]]
WalkPattern(w, parts) == [i \in DOMAIN parts |-> WalkPart(Under(w, i), parts[i])]
WalkSet(w, item) == Override(item, [f \in DOMAIN item \cap {"entity", "x"} |-> Walk(Under(w, IF f = "x" THEN 1 ELSE 0), item[f])])
WalkSets(w, sets) == [i \in DOMAIN sets |-> WalkSet(Under(w, i), sets[i])]
NamesOf(c) == Visible(ScopeAfter(EmptyScope, c))

\* The local names of the i-th operand.
LocalNames(x, i) ==
  CASE x.e = "comp" /\ i > 1        -> {x.n}
    [] x.e \in Quantifiers /\ i > 1 -> {x.n}
    [] x.e = "reduce" /\ i > 2      -> {x.acc, x.n}
    [] x.e = "pattern"              -> Visible(DefinePart(EmptyScope, x.part))
    [] OTHER                        -> {}
Walk(w, x) ==
  LET y == [x EXCEPT !.a = [i \in DOMAIN x.a |-> Walk(Under(Seeing(w, LocalNames(x, i)), i), x.a[i])]]
      z == CASE x.e = "exists"                     ->
                  [y EXCEPT !.pattern = WalkPattern(Under(w, 8), @),
                            !.query = [i \in DOMAIN x.query |-> WalkSingleQuery(Under(Under(w, 9), i), x.query[i])]]
             [] x.e \in {"pattern", "patternpred"} -> [y EXCEPT !.part = WalkPart(Under(Seeing(w, LocalNames(x, 0)), 8), @)]
             [] OTHER                              -> y
  IN  RewriteExpression(w, z)

WalkClause(w, c) ==
  LET v == Seeing(w, NamesOf(c))
  IN  CASE c.c = "match"             -> RewriteMatch(w, [c EXCEPT !.pattern = WalkPattern(v, @), !.where = Walk(Under(v, 0), @)])
        [] c.c = "unwind"            -> [c EXCEPT !.x = Walk(w, @)]
        [] c.c = "call"              -> [c EXCEPT !.xs = WalkEach(w, @), !.where = Walk(Under(v, 0), @)]
        [] c.c = "create"            -> [c EXCEPT !.pattern = WalkPattern(v, @)]
        [] c.c = "merge"             ->
             [c EXCEPT !.part = WalkPart(Under(v, 1), @),
                       !.actions = [i \in DOMAIN c.actions |->
                                      [c.actions[i] EXCEPT !.sets = WalkSets(Under(Under(v, 2), i), @)]]]
        [] c.c \in {"set", "remove"} -> [c EXCEPT !.sets = WalkSets(w, @)]
        [] c.c = "delete"            -> [c EXCEPT !.xs = WalkEach(w, @)]
WalkClauses(w, cs) ==
  LET Earlier(i) == UNION {NamesOf(cs[j]) : j \in 1 .. (i - 1)} IN [i \in DOMAIN cs |-> WalkClause(Under(Seeing(w, Earlier(i)), i), cs[i])]
ClauseNames(cs) == UNION {NamesOf(cs[i]) : i \in DOMAIN cs}

WalkProjection(w, proj) ==
  LET both == Seeing(w, Aliases(proj.items))
      out == [w EXCEPT !.scope = Aliases(proj.items)]
      Walked(v, s) == [i \in DOMAIN s |-> [s[i] EXCEPT !.x = Walk(Under(v, i), @)]]
  IN  RewriteProjection(w, [proj EXCEPT !.items = Walked(Under(w, 1), @), !.order = Walked(Under(both, 2), @),
                                        !.skip = Walk(Under(both, 3), @), !.limit = Walk(Under(both, 4), @),
                                        !.where = Walk(Under(out, 5), @)])
WalkQueryPart(w, part) ==
  LET read == Seeing(w, ClauseNames(part.reading))
      names == ClauseNames(part.reading) \cup ClauseNames(part.updating)
      v == [Seeing(w, names) EXCEPT !.seen = @ \cup names]
  IN  [reading |-> WalkClauses(Under([w EXCEPT !.seen = v.seen], 1), part.reading),
       updating |-> WalkClauses(Under([read EXCEPT !.seen = v.seen], 2), part.updating),
       proj |-> IF HasProjection(part) THEN WalkProjection(Under(v, 3), part.proj) ELSE part.proj]
WalkSingleQuery(w, parts) ==
  LET R[i \in 0 .. Len(parts)] ==
        IF i = 0 THEN [w |-> w, parts |-> <<>>]
        ELSE LET so == R[i - 1]
                 part == WalkQueryPart(Under(so.w, i), parts[i])
                 out == IF HasProjection(part) THEN Aliases(part.proj.items) ELSE {}
             IN  [w |-> [w EXCEPT !.scope = out, !.seen = out], parts |-> Append(so.parts, part)]
  IN  RewriteSingleQuery(w, R[Len(parts)].parts)

DefaultRewriters ==
  <<"literal dynamic property", "parenthesized expression", "comparison chain", "pattern predicate", "existential subquery",
    "projection alias", "projection alias reference", "mutating subquery isolation", "return star", "aggregation expression",
    "subquery projection dependency", "anonymous pattern name", "pattern predicate normalization", "uniqueness predicates">>
ApplyRewriter(rule, query) ==
  LET w == [rule |-> rule, at |-> "", scope |-> {}, seen |-> {}]
  IN  [query EXCEPT !.singles = [i \in DOMAIN query.singles |-> WalkSingleQuery(Under(w, i), query.singles[i])]]
=============================================================================
