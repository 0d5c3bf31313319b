----------------------------- MODULE Evaluator -----------------------------
(***************************************************************************)
(* EvaluateExpression: the recursion over expressions, with the patterns   *)
(* and subqueries that are evaluated in place because they mention a       *)
(* variable of an enclosing comprehension, quantifier or reduce.           *)
(*                                                                         *)
(* A pattern part has a path variable, nodes (var, labels, props) and the  *)
(* rels between them (var, types, dir, range, props); range is <<>>,       *)
(* <<min>> or <<min, max>>.  A subquery is a sequence of parts, each with  *)
(* reading clauses and a projection.  Matches come in visiting order as a  *)
(* sequence of rows; an error is its last element.                         *)
(***************************************************************************)
EXTENDS Expressions

\* Variables that a pattern part introduces or uses.
PartVariables(p) == ({p.path} \cup {p.nodes[i].var : i \in DOMAIN p.nodes}
                       \cup {p.rels[i].var : i \in DOMAIN p.rels}) \ {""}

\* The value of a precomputed expression is in the row.
LookupPrecomputed(x, row, ctx) ==
  LET hits == {i \in DOMAIN ctx.pre : ctx.pre[i][1] = x}
  IN  IF hits = {} THEN <<>> ELSE <<Lookup(row, ctx.pre[CHOOSE i \in hits : \A j \in hits : i <= j][2])>>

RECURSIVE Evaluate(_, _, _)

Operands(x, row, ctx) == [i \in DOMAIN x.a |-> IF x.a[i] = None THEN None ELSE Evaluate(x.a[i], row, ctx)]

\* AND and OR skip the right side when the left one decides.
EvaluateBoolean(x, row, ctx) ==
  LET l == ToTruthValue(Evaluate(x.a[1], row, ctx))
      r == ToTruthValue(Evaluate(x.a[2], row, ctx))
  IN  IF IsError(l) THEN Invalid
      ELSE IF (x.e = "and" /\ l = False) \/ (x.e = "or" /\ l = True) THEN l
      ELSE IF IsError(r) THEN Invalid
      ELSE CASE x.e = "and" -> And(l, r)
             [] x.e = "or"  -> Or(l, r)
             [] x.e = "xor" -> IF Null \in {l, r} THEN Null ELSE Bool(l # r)

\* The bounds are evaluated one after the other, and only for a list.
EvaluateSlice(x, row, ctx) ==
  LET v == Evaluate(x.a[1], row, ctx)
      Bound(i) == IF x.a[i] = None THEN <<>> ELSE <<Evaluate(x.a[i], row, ctx)>>
      from == Bound(2)
      to == Bound(3)
  IN  IF IsError(v) THEN Invalid
      ELSE IF ~IsList(v) THEN Null
      ELSE IF AnyError(from) THEN Invalid
      ELSE IF from # <<>> /\ ~IsInt(from[1]) THEN Null
      ELSE IF AnyError(to) THEN Invalid ELSE EvaluateListSlice(v, from, to)

\* a is the test (or None), the ELSE (or None) and the alternatives.
EvaluateCaseExpression(x, row, ctx) ==
  LET test == IF x.a[1] = None THEN Null ELSE Evaluate(x.a[1], row, ctx)
      R[i \in 1 .. Len(x.a) \div 2] ==
        IF 2 * i + 1 > Len(x.a) THEN IF x.a[2] = None THEN Null ELSE Evaluate(x.a[2], row, ctx)
        ELSE LET when == Evaluate(x.a[2 * i + 1], row, ctx)
                 fails == IF x.a[1] = None THEN PredicateFails(when) ELSE IsError(when)
             IN  IF fails THEN Invalid
                 ELSE IF (IF x.a[1] = None THEN when ELSE EqualityTruth(test, when)) = True
                 THEN Evaluate(x.a[2 * i + 2], row, ctx)
                 ELSE R[i + 1]
  IN  IF IsError(test) THEN Invalid ELSE R[1]

EvaluateListComprehension(x, row, ctx) ==
  LET list == Evaluate(x.a[1], row, ctx)
      Item(v) == LET scoped == Bind(row, x.n, v)
                     keep == IF x.a[2] = None THEN True ELSE Evaluate(x.a[2], scoped, ctx)
                 IN  IF PredicateFails(keep) THEN <<Invalid>>
                     ELSE IF ~PredicateIsTrue(keep) THEN <<>>
                     ELSE <<IF x.a[3] = None THEN v ELSE Evaluate(x.a[3], scoped, ctx)>>
  IN  IF IsError(list) THEN Invalid
      ELSE IF ~IsList(list) THEN Null
      ELSE LET out == Each(list.list, Item) IN IF AnyError(out) THEN Invalid ELSE List(out)

EvaluateReduce(x, row, ctx) ==
  LET initial == Evaluate(x.a[1], row, ctx)
      list    == Evaluate(x.a[2], row, ctx)
      Acc[i \in 0 .. Len(list.list)] ==
        IF i = 0 THEN initial
        ELSE LET acc == Acc[i - 1]
             IN  IF IsError(acc) THEN Invalid ELSE Evaluate(x.a[3], Bind(Bind(row, x.acc, acc), x.n, list.list[i]), ctx)
  IN  IF IsError(initial) \/ IsError(list) THEN Invalid
      ELSE IF IsNull(list) THEN Null
      ELSE IF ~IsList(list) THEN Invalid ELSE Acc[Len(list.list)]

EvaluateQuantifier(x, row, ctx) ==
  LET list == Evaluate(x.a[1], row, ctx)
  IN  IF IsError(list) THEN Invalid
      ELSE IF IsNull(list) THEN Null
      ELSE IF ~IsList(list) THEN Invalid
      ELSE QuantifierResult(x.e, [i \in DOMAIN list.list |->
             ToTruthValue(Evaluate(x.a[2], Bind(row, x.n, list.list[i]), ctx))])

EvaluateFunction(x, row, ctx) ==
  LET args == Operands(x, row, ctx)
  IN  IF x.distinct \/ AnyError(args) THEN Invalid ELSE EvaluateBuiltinFunction(x.f, args, ctx.clock, ctx.g)

-----------------------------------------------------------------------------
(* Patterns evaluated in place.                                            *)

\* The properties a pattern asks for, as a truth value; a null never matches.
MatchesProperties(props, entity, row, ctx) ==
  IF props = None THEN True
  ELSE LET m == Evaluate(props, row, ctx)
           p == PropertiesOf(entity, ctx.g)
       IN  IF IsError(m) \/ ~Is(m, "map") THEN Invalid
           ELSE Bool(\A k \in DOMAIN m.map : k \in DOMAIN p /\ EqualityTruth(p[k], m.map[k]) = True)

\* A variable that is bound already must have this value.
Agrees(row, n, v) == n \in DOMAIN row => row[n] = v

NodeMatches(np, n, row, ctx) ==
  IF NodeHasLabels(n, np.labels, ctx.g) THEN MatchesProperties(np.props, [node |-> n], row, ctx) ELSE False

RECURSIVE Expand(_, _, _, _, _, _)
RECURSIVE VisitHops(_, _, _, _, _, _)

\* at: the node reached, the path so far and the relationships used.
Step(at, r, ctx, dir) ==
  LET n == OtherEnd(ctx.g, r, at.node, dir)
  IN  [node |-> n, nodes |-> Append(at.nodes, n), rels |-> Append(at.rels, r), used |-> at.used \cup {r}]

\* The part's i-th relationship and the node after it, from at.
Expand(p, i, at, row, where, ctx) ==
  IF i > Len(p.rels)
  THEN LET bound == Bind(row, p.path, Path(at.nodes, at.rels))
           keep  == IF where = None THEN True ELSE Evaluate(where, bound, ctx)
       IN  IF PredicateFails(keep) THEN <<Invalid>> ELSE IF PredicateIsTrue(keep) THEN <<bound>> ELSE <<>>
  ELSE LET rp == p.rels[i]
           np == p.nodes[i + 1]
           Follow(e) ==
             LET next == Step(at, e.rel, ctx, rp.dir)
                 okRel == MatchesProperties(rp.props, e, row, ctx)
                 okNode == NodeMatches(np, next.node, row, ctx)
             IN  IF e.rel \in at.used THEN <<>>
                 ELSE IF IsError(okRel) THEN <<Invalid>>
                 ELSE IF okRel # True \/ ~Agrees(row, rp.var, e) THEN <<>>
                 ELSE IF IsError(okNode) THEN <<Invalid>>
                 ELSE IF okNode # True \/ ~Agrees(row, np.var, [node |-> next.node]) THEN <<>>
                 ELSE Expand(p, i + 1, next, Bind(Bind(row, rp.var, e), np.var, [node |-> next.node]), where, ctx)
           edges == IncidentEdges(ctx.g, at.node, rp.dir, rp.types)
       IN  IF rp.range # <<>> THEN VisitHops(p, i, at, row, where, [ctx |-> ctx, from |-> Len(at.rels)])
           ELSE Each([k \in DOMAIN edges |-> [rel |-> edges[k]]], Follow)

\* A relationship of variable length: the node reached matches once the path
\* is long enough, and the walk goes on until it is as long as it may be.
VisitHops(p, i, at, row, where, c) ==
  LET rp == p.rels[i]
      np == p.nodes[i + 1]
      length == Len(at.rels) - c.from
      list == List([k \in 1 .. length |-> [rel |-> at.rels[c.from + k]]])
      node == [node |-> at.node]
      okNode == NodeMatches(np, at.node, row, c.ctx)
      here == IF length < rp.range[1] THEN <<>>
              ELSE IF IsError(okNode) THEN <<Invalid>>
              ELSE IF okNode = True /\ Agrees(row, np.var, node)
                      /\ (rp.var \in DOMAIN row => EqualityTruth(row[rp.var], list) = True)
              THEN Expand(p, i + 1, at, Bind(Bind(row, rp.var, list), np.var, node), where, c.ctx)
              ELSE <<>>
      Follow(e) ==
        LET ok == MatchesProperties(rp.props, e, row, c.ctx)
        IN  IF e.rel \in at.used THEN <<>>
            ELSE IF IsError(ok) THEN <<Invalid>>
            ELSE IF ok # True THEN <<>>
            ELSE VisitHops(p, i, Step(at, e.rel, c.ctx, rp.dir), row, where, c)
      edges == IncidentEdges(c.ctx.g, at.node, rp.dir, rp.types)
  IN  IF AnyError(here) \/ (Len(rp.range) = 2 /\ length >= rp.range[2]) THEN here
      ELSE here \o Each([k \in DOMAIN edges |-> [rel |-> edges[k]]], Follow)

\* All matches of a part: from the start node the row has, or from any node.
VisitPatternChain(p, where, row, ctx) ==
  LET np == p.nodes[1]
      From(start) ==
        LET ok == NodeMatches(np, start.node, row, ctx)
        IN  IF IsError(ok) THEN <<Invalid>>
            ELSE IF ok # True THEN <<>>
            ELSE Expand(p, 1, [node |-> start.node, nodes |-> <<start.node>>, rels |-> <<>>, used |-> {}],
                        Bind(row, np.var, start), where, ctx)
      ids == VertexIds(ctx.g, {})
  IN  IF np.var \in DOMAIN row
      THEN IF IsNull(row[np.var]) THEN <<>>
           ELSE IF ~Is(row[np.var], "node") THEN <<Invalid>> ELSE From(row[np.var])
      ELSE Each([k \in DOMAIN ids |-> [node |-> ids[k]]], From)

EvaluatePatternComprehension(x, row, ctx) ==
  LET Value(r) == <<Evaluate(x.a[2], r, ctx)>>
      out == Each(VisitPatternChain(x.part, x.a[1], row, ctx), Value)
  IN  IF AnyError(out) THEN Invalid ELSE List(out)

-----------------------------------------------------------------------------
(* Subqueries evaluated in place.                                          *)

\* The parts one after the other, each from the rows of the one before.
VisitPattern(parts, where, row, ctx) ==
  LET Keep(r) == LET keep == IF where = None THEN True ELSE Evaluate(where, r, ctx)
                 IN  IF PredicateFails(keep) THEN <<Invalid>> ELSE IF PredicateIsTrue(keep) THEN <<r>> ELSE <<>>
      Rows[i \in 0 .. Len(parts)] ==
        IF i = 0 THEN <<row>>
        ELSE LET Next(r) == VisitPatternChain(parts[i], None, r, ctx) IN Each(Rows[i - 1], Next)
  IN  Each(Rows[Len(parts)], Keep)

OptionalMatchNullBindings(parts, row) ==
  [n \in UNION {PartVariables(parts[i]) : i \in DOMAIN parts} \ DOMAIN row |-> Null]

VisitReadingClauses(clauses, row, ctx) ==
  LET Match(c, r) ==
        LET found == VisitPattern(c.pattern, c.where, r, ctx)
        IN  IF found = <<>> /\ c.optional THEN <<Override(r, OptionalMatchNullBindings(c.pattern, r))>> ELSE found
      Unwind(c, r) ==
        LET list == Evaluate(c.x, r, ctx)
        IN  IF IsError(list) THEN <<Invalid>>
            ELSE IF IsNull(list) THEN <<>>
            ELSE IF ~IsList(list) THEN <<Invalid>>
            ELSE [i \in DOMAIN list.list |-> Bind(r, c.var, list.list[i])]
      Rows[i \in 0 .. Len(clauses)] ==
        IF i = 0 THEN <<row>>
        ELSE LET Next(r) == CASE clauses[i].c = "match"  -> Match(clauses[i], r)
                              [] clauses[i].c = "unwind" -> Unwind(clauses[i], r)
             IN  Each(Rows[i - 1], Next)
  IN  Rows[Len(clauses)]

\* SKIP and LIMIT are evaluated once, on the first row; -1 where absent.
Pagination(x, row, ctx) ==
  IF x = None THEN Int_(-1)
  ELSE LET v == Evaluate(x, row, ctx) IN IF IsInt(v) /\ v.int >= 0 THEN v ELSE Invalid

\* x before y by the sort items: (expression, ascending) pairs.
SortsBefore(order, keysOfX, keysOfY) ==
  LET Differ(i) == ValueLess(keysOfX[i], keysOfY[i]) \/ ValueLess(keysOfY[i], keysOfX[i])
      first == {i \in DOMAIN order : Differ(i) /\ \A j \in 1 .. i - 1 : ~Differ(j)}
  IN  \E i \in first : ValueLess(keysOfX[i], keysOfY[i]) <=> order[i].asc

\* A stable sort of records with a field keys.
StableSort(order, s) ==
  LET Insert(sorted, x) ==
        LET after == {i \in DOMAIN sorted : SortsBefore(order, x.keys, sorted[i].keys)}
            at == IF after = {} THEN Len(sorted) + 1 ELSE CHOOSE i \in after : \A j \in after : i <= j
        IN  SubSeq(sorted, 1, at - 1) \o <<x>> \o SubSeq(sorted, at, Len(sorted))
      R[i \in 0 .. Len(s)] == IF i = 0 THEN <<>> ELSE Insert(R[i - 1], s[i])
  IN  R[Len(s)]

\* The names a projection gives: aliases, and variables projected as such.
ItemName(item) == IF item.alias # "" THEN item.alias ELSE IF item.x.e = "var" THEN item.x.n ELSE ""

\* The first element of a list of values seen before, as DISTINCT groups them.
Duplicate(s, i) == \E j \in 1 .. i - 1 : ValueEqual(List(s[j].values), List(s[i].values))

\* A projection's rows: items, WHERE, DISTINCT, then sorting, SKIP and LIMIT.
\* Without ORDER BY the limit only matters when it is 0: the caller asks
\* whether there is a row at all.
VisitProjection(part, row, ctx) ==
  LET body == part.proj
      Project(r) ==
        LET values == [i \in DOMAIN body.items |-> Evaluate(body.items[i].x, r, ctx)]
            names  == {ItemName(body.items[i]) : i \in DOMAIN body.items} \ {""}
            ValueFor(n) == values[CHOOSE i \in DOMAIN values : ItemName(body.items[i]) = n
                                     /\ \A j \in i + 1 .. Len(values) : ItemName(body.items[j]) # n]
            aliases == [n \in names |-> ValueFor(n)]
            whole == Override(r, aliases)
            keep == IF body.where = None THEN True ELSE Evaluate(body.where, whole, ctx)
        IN  IF AnyError(values) \/ PredicateFails(keep) THEN <<Invalid>>
            ELSE IF ~PredicateIsTrue(keep) THEN <<>>
            ELSE <<[values |-> values, aliases |-> aliases, row |-> whole,
                    keys |-> [i \in DOMAIN body.order |-> Evaluate(body.order[i].x, whole, ctx)]]>>
      all == Each(VisitReadingClauses(part.reading, row, ctx), Project)
      rows == IF AnyError(all) THEN SubSeq(all, 1, Len(all) - 1) ELSE all
      Kept[i \in 0 .. Len(rows)] ==
        IF i = 0 THEN <<>>
        ELSE IF body.distinct /\ Duplicate(rows, i) THEN Kept[i - 1] ELSE Append(Kept[i - 1], rows[i])
      kept  == Kept[Len(rows)]
      end   == IF AnyError(all) THEN <<Invalid>> ELSE <<>>
      skip  == Pagination(body.skip, kept[1].row, ctx)
      limit == Pagination(body.limit, kept[1].row, ctx)
      start == IF skip.int = -1 THEN 0 ELSE skip.int
      sorted == StableSort(body.order, kept)
      last  == IF limit.int = -1 \/ start + limit.int > Len(kept) THEN Len(kept) ELSE start + limit.int
  IN  IF kept = <<>> THEN end
      ELSE IF IsError(skip) \/ IsError(limit) THEN <<Invalid>>
      ELSE IF limit.int = 0 THEN <<>>
      ELSE IF body.order = <<>>
      THEN [i \in 1 .. (IF Len(kept) > start THEN Len(kept) - start ELSE 0) |-> kept[start + i].row] \o end
      ELSE IF AnyError(all) \/ \E i \in DOMAIN kept : AnyError(kept[i].keys) THEN <<Invalid>>
      ELSE [i \in 1 .. (IF last > start THEN last - start ELSE 0) |-> Override(row, sorted[start + i].aliases)]

\* Whether the parts of a query, from part i on, have a row.
RECURSIVE VisitSingleQuery(_, _, _, _)
VisitSingleQuery(parts, i, row, ctx) ==
  IF i > Len(parts) THEN True
  ELSE LET rows == VisitProjection(parts[i], row, ctx)
           First[k \in 1 .. Len(rows) + 1] ==
             IF k > Len(rows) THEN False
             ELSE IF IsError(rows[k]) THEN Invalid
             ELSE LET v == VisitSingleQuery(parts, i + 1, rows[k], ctx)
                  IN  IF v = False THEN First[k + 1] ELSE v
       IN  First[1]

\* EXISTS of a pattern, or of a query with its UNION branches.
EvaluateExistentialSubquery(x, row, ctx) ==
  IF x.pattern # <<>>
  THEN LET found == VisitPattern(x.pattern, x.a[1], row, ctx)
       IN  IF found = <<>> THEN False ELSE IF IsError(found[1]) THEN Invalid ELSE True
  ELSE LET First[k \in 1 .. Len(x.query) + 1] ==
             IF k > Len(x.query) THEN False
             ELSE LET v == VisitSingleQuery(x.query[k], 1, row, ctx) IN IF v = False THEN First[k + 1] ELSE v
       IN  First[1]

-----------------------------------------------------------------------------
\* Expressions whose operands are all evaluated before the operator applies.
EvaluateStrict(x, row, ctx) ==
  LET v == Operands(x, row, ctx)
      truth == ToTruthValue(v[1])
  IN  IF AnyError(v) THEN Invalid
      ELSE CASE x.e = "prop"    -> ReadProperty(v[1], x.k, ctx.g)
             [] x.e = "index"   -> EvaluateListIndex(v[1], v[2], ctx.g)
             [] x.e = "list"    -> List(v)
             [] x.e = "map"     -> [map |-> [k \in {x.ks[i] : i \in DOMAIN x.ks} |->
                                              v[CHOOSE i \in DOMAIN x.ks : x.ks[i] = k /\ \A j \in i + 1 .. Len(x.ks) : x.ks[j] # k]]]
             [] x.e = "not"     -> IF IsError(truth) THEN Invalid ELSE Not(truth)
             [] x.e \in {"plus", "minus"} -> UnaryArithmetic(x.e, v[1])
             [] x.e = "arith"   -> EvaluateArithmetic(x.op, v[1], v[2])
             [] x.e = "cmp"     -> EvaluateComparison(x.op, v[1], v[2])
             [] x.e = "strpred" -> StringPredicate(x.op, v[1], v[2])
             [] x.e = "in"      -> ListPredicate(v[1], v[2])
             [] x.e = "labels"  -> LabelPredicate(v[1], x.ls, ctx.g)
             [] x.e = "isnull"  -> Bool(IsNull(v[1]) = x.is)

Evaluate(x, row, ctx) ==
  LET pre == LookupPrecomputed(x, row, ctx)
  IN  IF pre # <<>> THEN pre[1]
      ELSE CASE x.e = "lit"     -> x.v
             [] x.e = "var"     -> Lookup(row, x.n)
             [] x.e = "param"   -> Lookup(ctx.params, x.n)
             [] x.e \in {"and", "or", "xor"} -> EvaluateBoolean(x, row, ctx)
             [] x.e = "slice"   -> EvaluateSlice(x, row, ctx)
             [] x.e = "case"    -> EvaluateCaseExpression(x, row, ctx)
             [] x.e = "comp"    -> EvaluateListComprehension(x, row, ctx)
             [] x.e = "reduce"  -> EvaluateReduce(x, row, ctx)
             [] x.e \in {"all", "any", "none", "single"} -> EvaluateQuantifier(x, row, ctx)
             [] x.e = "call"    -> EvaluateFunction(x, row, ctx)
             [] x.e = "pattern" -> EvaluatePatternComprehension(x, row, ctx)
             [] x.e = "exists"  -> EvaluateExistentialSubquery(x, row, ctx)
             [] OTHER           -> EvaluateStrict(x, row, ctx)
=============================================================================
