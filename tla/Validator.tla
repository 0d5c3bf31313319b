----------------------------- MODULE Validator -----------------------------
(***************************************************************************)
(* What the parser's result has to satisfy before it is rewritten and      *)
(* planned, src/ast/semantic_validator.cc.  The validator walks the        *)
(* statement with a stack of scopes, infers a static type for expressions  *)
(* as far as it can, and collects the errors; a statement with an error is *)
(* refused.                                                                *)
(*                                                                         *)
(* The walk w has the innermost scope top, the scopes under it laid over   *)
(* each other as below, and two flags: any, where YIELD * makes every name *)
(* known, and agg, inside an aggregate function.  A step of the walk over  *)
(* clauses gives [w, errs].  An error is named for its kind.               *)
(***************************************************************************)
EXTENDS Rewriters

-----------------------------------------------------------------------------
(* Static types.                                                           *)

Static(t) == [t |-> t, el |-> "unknown"]
ListStatic(el) == [t |-> "list", el |-> el]
NotKnown == Static("unknown")
AcceptsType(s, ts) == s.t \in {"unknown", "null"} \cup ts
IsBooleanCompatible(s) == AcceptsType(s, {"boolean"})
Numbers == {"integer", "float"}
IsNumericCompatible(s) == AcceptsType(s, Numbers)
AnyStatic == {"boolean", "integer", "float", "string", "list", "map", "node", "rel", "path"}

NoScope == [n \in {} |-> NotKnown]
\* A name is looked up in the innermost scope first.
IsDefined(w, n) == n \in DOMAIN w.top \cup DOMAIN w.below
LookupStatic(w, n) == IF n \in DOMAIN w.top THEN w.top[n] ELSE IF n \in DOMAIN w.below THEN w.below[n] ELSE NotKnown
DefineStatic(w, n, s) == [w EXCEPT !.top = Bind(@, n, s)]
\* Every scope pushed is a copy of the current one, or has more names.
PushScope(w) == [w EXCEPT !.below = Override(@, w.top)]
\* What is in both scopes keeps the type it has in the first.
MergeScopes(lhs, rhs) == Override(rhs, lhs)

LiteralType(v) ==
  CASE IsNull(v)           -> Static("null")
    [] "bool" \in DOMAIN v -> Static("boolean")
    [] IsInt(v)            -> Static("integer")
    [] "dbl" \in DOMAIN v  -> Static("float")
    [] IsStr(v)            -> Static("string")
    [] IsList(v)           -> Static("list")
    [] OTHER               -> Static("map")
BooleanForms == {"and", "or", "xor", "cmp", "chain", "not", "strpred", "in", "labels", "isnull", "patternpred", "exists"} \cup Quantifiers
\* Mutant: an integer on one side is enough for an integer.
MutArithmeticType(op, l, r) ==
  IF op = "+" /\ "list" \in {l.t, r.t} THEN Static("list")
  ELSE IF "integer" \in {l.t, r.t} THEN Static("integer")
  ELSE IF "float" \in {l.t, r.t} THEN Static("float")
  ELSE IF op = "+" /\ {l.t, r.t} = {"string"} THEN Static("string") ELSE NotKnown
ArithmeticType(op, l, r) ==
  IF op = "+" /\ "list" \in {l.t, r.t} THEN Static("list")
  ELSE IF "float" \in {l.t, r.t} THEN Static("float")
  ELSE IF {l.t, r.t} = {"integer"} THEN Static("integer")
  ELSE IF op = "+" /\ {l.t, r.t} = {"string"} THEN Static("string") ELSE NotKnown
\* Elements without a known type do not count.
ElementType(types) == LET known == types \ {"unknown", "null"} IN IF Cardinality(known) = 1 THEN CHOOSE t \in known : TRUE ELSE "unknown"

RECURSIVE InferType(_, _)
ListElementType(x, w) == LET s == InferType(x, w) IN IF s.t = "list" THEN Static(s.el) ELSE NotKnown
InferFunctionType(x, w) ==
  LET arg == IF x.a = <<>> THEN NotKnown ELSE InferType(x.a[1], w)
      known == {i \in DOMAIN x.a : InferType(x.a[i], w).t \notin {"unknown", "null"}}
  IN  CASE x.f \in {"count", "id", "length", "sign", "size", "toInteger"}                      -> Static("integer")
        [] x.f \in {"avg", "ceil", "floor", "percentileCont", "rand", "sqrt", "toFloat"}       -> Static("float")
        [] x.f \in {"toBoolean", "isEmpty"}                                                    -> Static("boolean")
        [] x.f \in {"split", "keys", "labels"}                                                 -> ListStatic("string")
        [] x.f = "nodes"                                                                       -> ListStatic("node")
        [] x.f = "relationships"                                                               -> ListStatic("rel")
        [] x.f \in {"startNode", "endNode"}                                                    -> Static("node")
        [] x.f = "range"                                                                       -> ListStatic("integer")
        [] x.f = "tail"                                                                        -> ListStatic(arg.el)
        [] x.f = "properties"                                                                  -> Static("map")
        [] x.f \in {"substring", "toLower", "toString", "toUpper", "trim", "type"}             -> Static("string")
        [] x.f = "collect"                                                                     -> ListStatic(arg.t)
        [] x.f = "coalesce" /\ known # {}    -> InferType(x.a[CHOOSE i \in known : \A j \in known : i <= j], w)
        [] x.f \in {"head", "last"} /\ x.a # <<>>                                              -> ListElementType(x.a[1], w)
        [] x.f \in {"abs", "reverse", "max", "min", "percentileDisc", "sum"}                   -> arg
        [] OTHER                                                                               -> NotKnown
InferType(x, w) ==
  CASE x = CountStar                          -> Static("integer")
    [] x.e = "var"                            -> LookupStatic(w, x.n)
    [] x.e \in BooleanForms                   -> Static("boolean")
    [] x.e = "lit"                            -> LiteralType(x.v)
    [] x.e = "list"                           -> ListStatic(ElementType({InferType(x.a[i], w).t : i \in DOMAIN x.a}))
    [] x.e = "map"                            -> Static("map")
    [] x.e \in {"paren", "plus", "minus"}     -> InferType(x.a[1], w)
    [] x.e = "arith"                          -> ArithmeticType(x.op, InferType(x.a[1], w), InferType(x.a[2], w))
    [] x.e = "reduce"                         -> InferType(x.a[3], w)
    [] x.e \in {"comp", "pattern", "slice"}   -> Static("list")
    [] x.e = "index"                          -> ListElementType(x.a[1], w)
    [] x.e = "call"                           -> InferFunctionType(x, w)
    [] OTHER                                  -> NotKnown

-----------------------------------------------------------------------------
(* Aggregation.                                                            *)

RECURSIVE UnwrapParenthesized(_)
UnwrapParenthesized(x) == IF x.e = "paren" THEN UnwrapParenthesized(x.a[1]) ELSE x
Children(x) == Operands_(x) \cup (IF x.e = "patternpred" THEN PatternProperties(<<x.part>>) ELSE {})
\* EXISTS is not searched: aggregates in it are its own.
RECURSIVE AggregationScanner(_)
AggregationScanner(x) == x.e # "exists" /\ (IsAggregateCall(x) \/ \E y \in Children(x) : AggregationScanner(y))
ProjectionContainsAggregation(proj) == \E i \in DOMAIN proj.items : AggregationScanner(proj.items[i].x)
IsSimpleGroupingExpression(x) == UnwrapParenthesized(x).e \in {"var", "prop"}
GroupingExpressions(proj) ==
  {UnwrapParenthesized(x) : x \in {x \in {proj.items[i].x : i \in DOMAIN proj.items} : ~AggregationScanner(x) /\ IsSimpleGroupingExpression(x)}}

\* Beside an aggregate only what the rows are grouped by may be referred to:
\* the grouping expressions keys, the names in names, and the variables local
\* to a comprehension, whose own parts may not aggregate.
RECURSIVE MixedAggregation(_, _, _, _)
MixedAggregation(x, keys, names, local) ==
  LET In(i, ns) == MixedAggregation(x.a[i], keys, names, local \cup ns)
      Inner(is, ns) == UNION {In(i, ns) \cup (IF AggregationScanner(x.a[i]) THEN {"aggregation in comprehension"} ELSE {}) : i \in is}
  IN  CASE IsAggregateCall(x)   -> {}
        [] x.e = "var"          -> IF x.n \in local \cup names \/ x \in keys THEN {} ELSE {"ambiguous aggregation"}
        [] x.e = "prop"         -> IF Dependencies(x) \cap local = {} /\ x \in keys THEN {} ELSE In(1, {})
        [] x.e = "comp"         -> In(1, {}) \cup Inner({2, 3}, {x.n})
        [] x.e = "reduce"       -> In(1, {}) \cup In(2, {}) \cup Inner({3}, {x.acc, x.n})
        [] x.e \in Quantifiers  -> In(1, {}) \cup Inner({2}, {x.n})
        [] OTHER                -> UNION {MixedAggregation(y, keys, names, local) : y \in Children(x)}
ValidateProjectionAggregations(proj) ==
  LET mixed == {x \in {proj.items[i].x : i \in DOMAIN proj.items} : AggregationScanner(x) /\ ~IsAggregateCall(UnwrapParenthesized(x))}
  IN  UNION {MixedAggregation(x, GroupingExpressions(proj), {}, {}) : x \in mixed}
ValidateProjectionOrderByAggregations(proj, projected) ==
  LET sorts == {x \in {proj.order[i].x : i \in DOMAIN proj.order} : AggregationScanner(x)}
  IN  IF sorts = {} THEN {}
      ELSE IF ~ProjectionContainsAggregation(proj) THEN {"aggregation in ORDER BY"}
      ELSE UNION {MixedAggregation(x, GroupingExpressions(proj), DOMAIN projected, {}) : x \in sorts}
ValidateNoAggregation(x, clause) == IF AggregationScanner(x) THEN {"aggregation in " \o clause} ELSE {}
\* After DISTINCT or an aggregation ORDER BY sees only what is projected.
RECURSIVE RestrictedVariables(_, _, _, _)
RestrictedVariables(x, pre, projected, items) ==
  IF x \in items THEN {}
  ELSE IF x.e = "var" THEN {x.n} \cap (DOMAIN pre \ DOMAIN projected)
  ELSE UNION {RestrictedVariables(y, pre, projected, items) : y \in Children(x)}
ValidateRestrictedProjectionOrderBy(proj, pre, projected) ==
  LET items == {proj.items[i].x : i \in DOMAIN proj.items}
  IN  IF (proj.distinct \/ ProjectionContainsAggregation(proj))
         /\ \E i \in DOMAIN proj.order : RestrictedVariables(proj.order[i].x, pre, projected, items) # {}
      THEN {"restricted ORDER BY"} ELSE {}

-----------------------------------------------------------------------------
(* Patterns.                                                               *)

Refuse(s, error) == [s EXCEPT !.errs = @ \cup {error}]
\* Nodes and relationships of a pattern in the order they are written.
Chain(part) ==
  [i \in 1 .. 2 * Len(part.rels) + 1 |-> IF i % 2 = 1 THEN part.nodes[(i + 1) \div 2] ELSE part.rels[i \div 2]]
IsRelationship(el) == "types" \in DOMAIN el
ChainStatic(el) == IF ~IsRelationship(el) THEN Static("node") ELSE IF el.range = <<>> THEN Static("rel") ELSE ListStatic("rel")

BindPath(s, n) ==
  IF n = "" THEN s ELSE IF IsDefined(s.w, n) THEN Refuse(s, "variable already bound") ELSE [s EXCEPT !.w = DefineStatic(@, n, Static("path"))]
BindPatternVariable(s, el) ==
  IF el.var = "" THEN s
  ELSE IF ~IsDefined(s.w, el.var) THEN [s EXCEPT !.w = DefineStatic(@, el.var, ChainStatic(el))]
  ELSE IF ~AcceptsType(LookupStatic(s.w, el.var), {ChainStatic(el).t}) THEN Refuse(s, "variable type conflict") ELSE s
BindRelationshipsPattern(s, part) ==
  LET els == Chain(part)
      R[i \in 0 .. Len(els)] == IF i = 0 THEN s ELSE LET so == R[i - 1] IN BindPatternVariable(so, els[i])
  IN  R[Len(els)]
BindPattern(s, parts) ==
  LET R[i \in 0 .. Len(parts)] ==
        IF i = 0 THEN s ELSE LET so == R[i - 1] IN BindRelationshipsPattern(BindPath(so, parts[i].path), parts[i])
  IN  R[Len(parts)]

\* A node a pattern to be created refers to is repeated without labels and
\* properties, and not on its own; a relationship is always a new one.
BindUpdatingElement(s, el, alone) ==
  IF el.var = "" THEN s
  ELSE IF ~IsDefined(s.w, el.var)
    THEN [s EXCEPT !.w = DefineStatic(@, el.var, Static(IF IsRelationship(el) THEN "rel" ELSE "node"))]
  ELSE IF IsRelationship(el) THEN Refuse(s, "variable already bound")
  ELSE IF LookupStatic(s.w, el.var).t \notin {"unknown", "node"} THEN Refuse(s, "variable type conflict")
  ELSE IF alone \/ el.labels # {} \/ el.props # None THEN Refuse(s, "variable already bound") ELSE s
ValidateUpdatingElement(el, clause) ==
  (IF IsRelationship(el) /\ clause = "CREATE" /\ el.dir = "both" THEN {"undirected relationship"} ELSE {})
    \cup (IF IsRelationship(el) /\ Cardinality(IF IsRelationship(el) THEN el.types ELSE {}) # 1 THEN {"not one type"} ELSE {})
    \cup (IF IsRelationship(el) /\ ChainStatic(el).t = "list" THEN {"variable-length relationship"} ELSE {})
    \cup (IF clause = "MERGE" /\ el.props.e = "param" THEN {"properties are a parameter"} ELSE {})
BindUpdatingPatternPart(s, part, clause) ==
  LET els == Chain(part)
      errs == UNION {ValidateUpdatingElement(els[i], clause) : i \in DOMAIN els}
      R[i \in 0 .. Len(els)] ==
        IF i = 0 THEN BindPath([s EXCEPT !.errs = @ \cup errs], part.path)
        ELSE LET so == R[i - 1] IN BindUpdatingElement(so, els[i], Len(els) = 1)
  IN  R[Len(els)]
BindUpdatingPattern(s, parts, clause) ==
  LET R[i \in 0 .. Len(parts)] == IF i = 0 THEN s ELSE LET so == R[i - 1] IN BindUpdatingPatternPart(so, parts[i], clause)
  IN  R[Len(parts)]
\* Within one pattern a relationship variable stands once.
ValidateRelationshipUniqueness(parts) ==
  LET at == {<<i, j>> \in UNION {{i} \X DOMAIN parts[i].rels : i \in DOMAIN parts} : parts[i].rels[j].var # ""}
  IN  IF \E p, q \in at : p # q /\ parts[p[1]].rels[p[2]].var = parts[q[1]].rels[q[2]].var THEN {"relationship reused"} ELSE {}

-----------------------------------------------------------------------------
(* Functions and procedures.                                               *)

DottedNames(kinds) == {Dotted[t][k] : t \in Constructors, k \in kinds}
KnownFunctions ==
  AggregateFunctions \cup NonDeterministic \cup Constructors \cup DottedNames(Clocks \cup {"truncate"})
    \cup {"abs", "ceil", "floor", "coalesce", "datetime.fromepoch", "datetime.fromepochmillis", "duration", "duration.between",
          "duration.inDays", "duration.inMonths", "duration.inSeconds", "endNode", "head", "id", "isEmpty", "keys", "labels", "last",
          "length", "nodes", "properties", "range", "relationships", "reverse", "sign", "size", "split", "sqrt", "startNode",
          "substring", "tail", "toBoolean", "toFloat", "toInteger", "toLower", "toString", "toUpper", "trim", "type"}
\* The types a function takes as its i-th argument, of n.
ArgumentTypes(f, i, n) ==
  CASE f \in {"percentileCont", "percentileDisc"} /\ i \in 1 .. 2          -> Numbers
    [] f = "substring" /\ i > 1                                           -> {"integer"}
    [] f = "datetime.fromepoch" /\ i = 2                                  -> {"integer"}
    [] f \in DottedNames({"truncate"}) /\ i = 3 /\ n = 3                  -> {"map"}
    [] i > 1                                                              -> AnyStatic
    [] f \in {"abs", "ceil", "floor", "sign", "sqrt"}                     -> Numbers
    [] f = "id"                                                           -> {"node", "rel"}
    [] f \in {"keys", "properties"}                                       -> {"node", "rel", "map"}
    [] f = "labels"                                                       -> {"node"}
    [] f \in {"type", "startNode", "endNode"}                             -> {"rel"}
    [] f \in {"nodes", "relationships"}                                   -> {"path"}
    [] f = "length"                                                       -> {"path", "list", "string"}
    [] f \in {"size", "isEmpty", "reverse"}                               -> {"list", "string"}
    [] f \in {"head", "last", "tail"}                                     -> {"list"}
    [] f \in {"substring", "split", "toLower", "toUpper", "trim"}         -> {"string"}
    [] f \in Constructors \cup {"duration"}                               -> {"string", "map"}
    [] f \in DottedNames(Clocks \cup {"truncate"})                        -> {"string"}
    [] f \in {"datetime.fromepoch", "datetime.fromepochmillis"}           -> {"integer"}
    [] OTHER                                                              -> AnyStatic
ValidateFunctionArguments(x, w) ==
  IF \A i \in DOMAIN x.a : AcceptsType(InferType(x.a[i], w), ArgumentTypes(x.f, i, Len(x.a))) THEN {} ELSE {"argument type"}
ValidateFunction(x, w) ==
  IF x.f \notin KnownFunctions THEN {"unknown function"}
  ELSE ValidateFunctionArguments(x, w)
       \cup (IF Len(x.a) \notin ArgumentCounts(x.f) THEN {"argument count"} ELSE {})
       \cup (IF x.distinct /\ x.f \notin AggregateFunctions THEN {"DISTINCT of a scalar function"} ELSE {})
       \cup (IF w.agg /\ x.f \in NonDeterministic THEN {"non-deterministic aggregation"} ELSE {})
       \cup (IF w.agg /\ x.f \in AggregateFunctions THEN {"nested aggregation"} ELSE {})
ValidateProcedureCall(c) ==
  LET found == FindBuiltinProcedure(c.proc)
  IN  IF found = <<>> THEN {"unknown procedure"}
      ELSE (IF Len(c.xs) # found[1].count THEN {"argument count"} ELSE {})
           \cup (IF \A i \in DOMAIN c.yields : FindBuiltinProcedureYield(found[1], c.yields[i].field) THEN {} ELSE {"unknown yield field"})

-----------------------------------------------------------------------------
(* Expressions.                                                            *)

RECURSIVE VisitExpression(_, _)
RECURSIVE VisitRegularQuery(_, _, _)
VisitAll(xs, w) == UNION {VisitExpression(x, w) : x \in xs}
Unless(accepted, error) == IF accepted THEN {} ELSE {error}
ValidateBooleanExpression(x, w) == Unless(IsBooleanCompatible(InferType(x, w)), "boolean expected")
ValidateQuantifier(x, w) ==
  LET inner == DefineStatic(PushScope(w), x.n, ListElementType(x.a[1], w))
  IN  VisitExpression(x.a[1], w) \cup Unless(AcceptsType(InferType(x.a[1], w), {"list"}), "list expected")
        \cup ValidateBooleanExpression(x.a[2], inner) \cup VisitExpression(x.a[2], inner)
VisitListComprehension(x, w) ==
  LET inner == DefineStatic(PushScope(w), x.n, ListElementType(x.a[1], w))
  IN  VisitExpression(x.a[1], w) \cup ValidateBooleanExpression(x.a[2], inner) \cup VisitAll({x.a[2], x.a[3]}, inner)
VisitReduce(x, w) ==
  LET inner == DefineStatic(DefineStatic(PushScope(w), x.acc, InferType(x.a[1], w)), x.n, ListElementType(x.a[2], w))
  IN  VisitAll({x.a[1], x.a[2]}, w) \cup Unless(AcceptsType(InferType(x.a[2], w), {"list"}), "list expected") \cup VisitExpression(x.a[3], inner)
VisitPatternComprehension(x, w) ==
  LET s == BindRelationshipsPattern([w |-> DefineStatic(PushScope(w), x.part.path, Static("path")), errs |-> {}], x.part)
  IN  s.errs \cup VisitAll(Children(x), s.w)
ValidatePatternPredicateVariables(part, w) ==
  LET els == Chain(part) IN Unless(\A i \in DOMAIN els : els[i].var = "" \/ IsDefined(w, els[i].var), "undefined variable")
\* A query in EXISTS sees the variables around it, also after its own WITH.
VisitExistentialSubquery(x, w) ==
  IF x.query # <<>>
  THEN Unless(\A i \in DOMAIN x.query : \A j \in DOMAIN x.query[i] : x.query[i][j].updating = <<>>, "update in EXISTS")
         \cup VisitRegularQuery(x.query, x.all, PushScope(w)).errs
  ELSE LET s == BindPattern([w |-> PushScope(w), errs |-> {}], x.pattern) IN s.errs \cup VisitAll(Children(x), s.w)
VisitExpression(x, w) ==
  LET children == VisitAll(Children(x), w)
      Types(i) == InferType(x.a[i], w)
  IN  CASE x = CountStar                  -> Unless(~w.agg, "nested aggregation")
        [] x.e = "var"                    -> Unless(w.any \/ IsDefined(w, x.n), "undefined variable")
        [] x.e = "comp"                   -> VisitListComprehension(x, w)
        [] x.e = "reduce"                 -> VisitReduce(x, w)
        [] x.e \in Quantifiers            -> ValidateQuantifier(x, w)
        [] x.e = "pattern"                -> VisitPatternComprehension(x, w)
        [] x.e = "exists"                 -> VisitExistentialSubquery(x, w)
        [] x.e = "patternpred"            -> children \cup ValidatePatternPredicateVariables(x.part, w)
        [] x.e \in {"and", "or", "xor", "not"} ->
             children \cup Unless(\A i \in DOMAIN x.a : IsBooleanCompatible(Types(i)), "boolean expected")
        [] x.e = "arith"                  -> children \cup Unless(x.op = "+" \/ \A i \in 1 .. 2 : IsNumericCompatible(Types(i)), "number expected")
        [] x.e = "in"                     -> children \cup Unless(AcceptsType(Types(2), {"list"}), "list expected")
        [] x.e = "prop"                   -> children \cup Unless(AcceptsType(Types(1), {"node", "rel", "map"}), "no properties")
        [] x.e = "call"                   -> ValidateFunction(x, w)
                                             \cup VisitAll(Children(x), [w EXCEPT !.agg = @ \/ x.f \in AggregateFunctions])
        [] OTHER                          -> children

\* A pattern stands as a predicate only where a boolean is expected.
RECURSIVE InBooleanContext(_, _)
RECURSIVE PartsInBooleanContext(_)
InBooleanContext(x, expected) ==
  LET boolean ==   \* the operands where a boolean is expected
        CASE x.e \in {"and", "or", "xor", "not"} -> DOMAIN x.a
          [] x.e = "case"                        -> IF x.a[1] = None THEN {i \in DOMAIN x.a : i > 2 /\ i % 2 = 1} ELSE {}
          [] x.e = "paren"                       -> IF expected THEN {1} ELSE {}
          [] x.e \in {"comp"} \cup Quantifiers   -> {2}
          [] x.e \in {"pattern", "exists"}       -> {1}
          [] OTHER                               -> {}
      patterns == CASE x.e \in {"pattern", "patternpred"} -> PatternProperties(<<x.part>>)
                    [] x.e = "exists"                     -> PatternProperties(x.pattern)
                    [] OTHER                              -> {}
  IN  /\ x.e = "patternpred" => expected
      /\ \A i \in DOMAIN x.a : InBooleanContext(x.a[i], i \in boolean)
      /\ \A y \in patterns : InBooleanContext(y, FALSE)
      /\ x.e = "exists" => \A i \in DOMAIN x.query : PartsInBooleanContext(x.query[i])
PartsInBooleanContext(parts) ==
  \A i \in DOMAIN parts :
    LET wheres == {parts[i].reading[j].where : j \in {j \in DOMAIN parts[i].reading : parts[i].reading[j].c # "unwind"}}
                    \cup (IF HasProjection(parts[i]) THEN {parts[i].proj.where} ELSE {})
    IN  /\ \A x \in wheres : InBooleanContext(x, TRUE)
        /\ \A x \in PartExpressions(parts[i]) \ wheres : InBooleanContext(x, FALSE)

-----------------------------------------------------------------------------
(* Clauses.                                                                *)

Also(s, errs) == [s EXCEPT !.errs = @ \cup errs]
VisitMatch(s, c) ==
  LET so == BindPattern(s, c.pattern)
  IN  Also(so, ValidateRelationshipUniqueness(c.pattern) \cup VisitAll(PatternProperties(c.pattern) \cup {c.where}, so.w)
                 \cup ValidateNoAggregation(c.where, "WHERE") \cup ValidateBooleanExpression(c.where, so.w))
VisitUnwind(s, c) ==
  [w |-> DefineStatic(s.w, c.var, ListElementType(c.x, s.w)),
   errs |-> s.errs \cup VisitExpression(c.x, s.w) \cup Unless(~IsDefined(s.w, c.var), "variable already declared")]
\* A statement that is nothing but the call may yield everything, and its
\* condition may then name anything.
VisitCall(s, c) ==
  LET R[i \in 0 .. Len(c.yields)] ==
        IF i = 0 THEN s
        ELSE LET so == R[i - 1]
             IN  [w |-> DefineStatic(so.w, c.yields[i].var, NotKnown),
                  errs |-> so.errs \cup Unless(c.yields[i].var \notin DOMAIN so.w.top, "variable already declared")]
      yielded == R[Len(c.yields)]
      inner == [PushScope(yielded.w) EXCEPT !.any = @ \/ (c.standalone /\ c.yields = <<>>)]
  IN  Also(yielded, ValidateProcedureCall(c) \cup VisitAll(RangeOfSeq(c.xs), s.w)
                      \cup ValidateNoAggregation(c.where, "YIELD WHERE") \cup VisitExpression(c.where, inner))
ItemTargets(sets) ==
  {IF "k" \in DOMAIN sets[i] THEN [e |-> "prop", k |-> sets[i].k, a |-> <<sets[i].entity>>] ELSE sets[i].entity : i \in DOMAIN sets}
    \cup {sets[i].x : i \in {i \in DOMAIN sets : "x" \in DOMAIN sets[i]}}
VisitUpdate(s, c) ==
  CASE c.c = "create"            -> LET so == BindUpdatingPattern(s, c.pattern, "CREATE") IN Also(so, VisitAll(UpdatingExpressions(c), so.w))
    [] c.c = "merge"             -> LET so == BindUpdatingPatternPart(s, c.part, "MERGE")
                                    IN  Also(so, VisitAll(PatternProperties(<<c.part>>)
                                                            \cup UNION {ItemTargets(c.actions[i].sets) : i \in DOMAIN c.actions}, so.w))
    [] c.c \in {"set", "remove"} -> Also(s, VisitAll(ItemTargets(c.sets), s.w))
    [] c.c = "delete"            -> Also(s, VisitAll(RangeOfSeq(c.xs), s.w)
                                              \cup Unless(\A i \in DOMAIN c.xs : AcceptsType(InferType(c.xs[i], s.w), {"node", "rel", "path"}),
                                                          "not deletable"))
VisitClause(s, c) ==
  CASE c.c = "match" -> VisitMatch(s, c) [] c.c = "unwind" -> VisitUnwind(s, c) [] c.c = "call" -> VisitCall(s, c) [] OTHER -> VisitUpdate(s, c)
VisitClauses(s, cs) ==
  LET R[i \in 0 .. Len(cs)] == IF i = 0 THEN s ELSE LET so == R[i - 1] IN VisitClause(so, cs[i]) IN R[Len(cs)]

CollectTerminalColumns(proj) == LET items == FillAliases(proj).items IN [i \in DOMAIN items |-> items[i].alias]
ValidateProjectionColumns(proj) ==
  LET names == CollectTerminalColumns(proj) IN Unless(\A i, j \in DOMAIN names : i # j => names[i] # names[j], "duplicate column")
ValidateWithAliases(proj) ==
  Unless(\A i \in DOMAIN proj.items : proj.items[i].alias # "" \/ proj.items[i].x.e = "var", "expression without alias")
ScopeFromProjection(proj, w) ==
  LET R[i \in 0 .. Len(proj.items)] ==
        IF i = 0 THEN IF proj.star THEN w.top ELSE NoScope
        ELSE LET it == proj.items[i]
                 so == R[i - 1]
             IN  IF it.alias # "" THEN Bind(so, it.alias, InferType(it.x, w))
                 ELSE IF it.x.e = "var" THEN Bind(so, it.x.n, LookupStatic(w, it.x.n)) ELSE so
  IN  R[Len(proj.items)]

\* The integer an expression is, if it is one written with at most one sign.
RECURSIVE ConstantInteger(_)
ConstantInteger(x) ==
  LET y == UnwrapParenthesized(x)
      magnitude == ConstantInteger(y.a[1])
  IN  IF y.e = "lit" THEN IF IsInt(y.v) THEN <<y.v.int>> ELSE <<>>
      ELSE IF y.e # "minus" THEN <<>>
      ELSE IF magnitude = <<>> THEN <<>> ELSE IF magnitude[1] < 0 THEN <<>> ELSE <<-magnitude[1]>>
ValidatePagination(x, clause, w) ==
  LET n == ConstantInteger(x)
  IN  IF x = None THEN {}
      ELSE Unless(AcceptsType(InferType(x, w), {"integer"}), "integer expected")
           \cup Unless(CollectDependencies(x, {}, DOMAIN w.top) = {}, clause \o " is not constant")
           \cup Unless(n = <<>> \/ (n # <<>> /\ n[1] >= 0), clause \o " is negative")
           \cup ValidateNoAggregation(x, clause) \cup VisitExpression(x, w)
\* ORDER BY, SKIP and LIMIT see what goes into the projection and, under it,
\* what comes out.
VisitProjectionBody(proj, w) ==
  LET projected == ScopeFromProjection(proj, w)
      inner == [PushScope(w) EXCEPT !.top = MergeScopes(w.top, projected)]
  IN  ValidateProjectionAggregations(proj) \cup ValidateProjectionColumns(proj) \cup VisitAll({proj.items[i].x : i \in DOMAIN proj.items}, w)
        \cup ValidateRestrictedProjectionOrderBy(proj, w.top, projected) \cup ValidateProjectionOrderByAggregations(proj, projected)
        \cup VisitAll({proj.order[i].x : i \in DOMAIN proj.order}, inner)
        \cup ValidatePagination(proj.skip, "SKIP", inner) \cup ValidatePagination(proj.limit, "LIMIT", inner)
VisitWith(s, proj) ==
  LET projected == ScopeFromProjection(proj, s.w)
      inner == [s.w EXCEPT !.top = MergeScopes(@, projected)]
  IN  [w |-> [s.w EXCEPT !.top = projected],
       errs |-> s.errs \cup ValidateWithAliases(proj) \cup VisitProjectionBody(proj, s.w)
                  \cup (IF ProjectionContainsAggregation(proj) THEN {} ELSE ValidateNoAggregation(proj.where, "WHERE"))
                  \cup ValidateBooleanExpression(proj.where, inner) \cup VisitExpression(proj.where, inner)]
\* Nothing follows RETURN: the scope left is that of the columns.
VisitReturn(s, proj) ==
  [w |-> [s.w EXCEPT !.top = ScopeFromProjection(proj, s.w)], errs |-> s.errs \cup VisitProjectionBody(proj, s.w)]
VisitBranch(parts, w) ==
  LET R[i \in 0 .. Len(parts)] ==
        IF i = 0 THEN [w |-> PushScope(w), errs |-> {}]
        ELSE LET so == R[i - 1]
                 s == VisitClauses(so, parts[i].reading \o parts[i].updating)
             IN  IF ~HasProjection(parts[i]) THEN s ELSE IF i < Len(parts) THEN VisitWith(s, parts[i].proj) ELSE VisitReturn(s, parts[i].proj)
  IN  R[Len(parts)]
\* Columns of branches with a star are not compared.
ValidateUnionColumns(singles) ==
  LET lasts == [i \in DOMAIN singles |-> singles[i][Len(singles[i])]]
      named == {i \in DOMAIN lasts : ~lasts[i].proj.star}
  IN  IF Len(singles) = 1 THEN {}
      ELSE IF \E i \in DOMAIN lasts : ~HasProjection(lasts[i]) THEN {"internal error"}
      ELSE Unless(1 \in named => \A i \in named : CollectTerminalColumns(lasts[i].proj) = CollectTerminalColumns(lasts[1].proj), "UNION columns")
VisitRegularQuery(singles, all, w) ==
  LET branches == [i \in DOMAIN singles |-> VisitBranch(singles[i], w)]
  IN  [errs |-> UNION {branches[i].errs : i \in DOMAIN singles} \cup ValidateUnionColumns(singles)
                  \cup Unless(\A i \in DOMAIN all : all[i] = all[1], "UNION and UNION ALL"),
       types |-> [i \in DOMAIN singles |-> branches[i].w.top]]
ValidateStatement(query) ==
  LET walked == VisitRegularQuery(query.singles, query.all, [below |-> NoScope, top |-> NoScope, any |-> FALSE, agg |-> FALSE])
  IN  [walked EXCEPT !.errs = @ \cup Unless(\A i \in DOMAIN query.singles : PartsInBooleanContext(query.singles[i]), "pattern as a value")]
=============================================================================
