---------------------------- MODULE Expressions ----------------------------
(***************************************************************************)
(* Evaluation of expressions over a row of bindings.                       *)
(*                                                                         *)
(* An expression is a record: e is its kind, a its operands in order, and  *)
(* further fields hold names (n), keys (k), labels (ls), operators (op) or *)
(* functions (f).  An absent operand is None.  A row is a function from    *)
(* variables to values.  ctx has the graph g, the parameters, the          *)
(* precomputed expressions pre (pairs of an expression and the variable    *)
(* that holds its value) and the clock.  Parentheses and literals' types   *)
(* are left out: a literal holds its value.                                *)
(***************************************************************************)
EXTENDS BuiltinFunctions

None == [e |-> "absent", a |-> <<>>]
Literal(v) == [e |-> "lit", v |-> v, a |-> <<>>]
Var(n) == [e |-> "var", n |-> n, a |-> <<>>]

Bind(row, n, v) == IF n = "" THEN row ELSE [x \in DOMAIN row \cup {n} |-> IF x = n THEN v ELSE row[x]]
Override(row, with) == [x \in DOMAIN row \cup DOMAIN with |-> IF x \in DOMAIN with THEN with[x] ELSE row[x]]
Lookup(row, n) == IF n \in DOMAIN row THEN row[n] ELSE Invalid

\* F applied to the elements of s in order and concatenated; an error ends it.
Each(s, F(_)) ==
  LET R[i \in 0 .. Len(s)] ==
        IF i = 0 THEN <<>>
        ELSE LET done == R[i - 1]
             IN  IF done # <<>> /\ IsError(done[Len(done)]) THEN done
                 ELSE done \o (IF IsError(s[i]) THEN <<Invalid>> ELSE F(s[i]))
  IN  R[Len(s)]
AnyError(s) == \E i \in DOMAIN s : IsError(s[i])

-----------------------------------------------------------------------------
(* Three-valued logic.  Invalid where the value is not a truth value.      *)

ToTruthValue(v) == IF IsNull(v) \/ Is(v, "bool") THEN v ELSE Invalid
True == Bool(TRUE)
False == Bool(FALSE)
And(l, r) == IF False \in {l, r} THEN False ELSE IF Null \in {l, r} THEN Null ELSE True
Or(l, r) == IF True \in {l, r} THEN True ELSE IF Null \in {l, r} THEN Null ELSE False
Not(v) == IF v = Null THEN Null ELSE Bool(~v.bool)
AllTruths(s) == IF False \in s THEN False ELSE IF Null \in s THEN Null ELSE True

\* '=': null if either side is, or if an element's comparison decides.
RECURSIVE EqualityTruth(_, _)
EqualityTruth(l, r) ==
  IF IsNull(l) \/ IsNull(r) THEN Null
  ELSE IF IsList(l) /\ IsList(r)
  THEN IF Len(l.list) # Len(r.list) THEN False
       ELSE AllTruths({EqualityTruth(l.list[i], r.list[i]) : i \in DOMAIN l.list})
  ELSE IF Is(l, "map") /\ Is(r, "map")
  THEN IF DOMAIN l.map # DOMAIN r.map THEN False
       ELSE AllTruths({EqualityTruth(l.map[k], r.map[k]) : k \in DOMAIN l.map})
  ELSE Bool(ValuesEqual(l, r))

PredicateIsTrue(v) == v = True
\* A predicate that is neither a truth value nor null ends the query.
PredicateFails(v) == IsError(ToTruthValue(v))

FindProperty(v, k, g) ==
  LET m == PropertiesOf(v, g) IN IF k \in DOMAIN m THEN m[k] ELSE Null
ReadProperty(v, k, g) ==
  IF HasProperties(v) THEN FindProperty(v, k, g) ELSE TemporalProperty(v, k)
NodeHasLabels(n, ls, g) == ls \subseteq g.labels[n]
RelationshipHasAnyType(r, types, g) == types = {} \/ g.rels[r].type \in types

-----------------------------------------------------------------------------
(* Operators on values.                                                    *)

NormalizeListIndex(i, size) == IF i < 0 THEN i + size ELSE i
ClampListSliceIndex(i, size) ==
  LET n == NormalizeListIndex(i, size) IN IF n < 0 THEN 0 ELSE IF n > size THEN size ELSE n

EvaluateListIndex(v, i, g) ==
  IF IsNull(v) \/ IsNull(i) THEN Null
  ELSE IF IsList(v)
  THEN IF ~IsInt(i) THEN Invalid
       ELSE LET n == NormalizeListIndex(i.int, Len(v.list))
            IN  IF n \in 0 .. Len(v.list) - 1 THEN v.list[n + 1] ELSE Null
  ELSE IF ~HasProperties(v) \/ ~IsStr(i) THEN Invalid
  ELSE FindProperty(v, NameOf(i.str), g)

\* Bounds are values, or <<>> where the slice has none.
EvaluateListSlice(v, from, to) ==
  IF ~IsList(v) \/ \E b \in {from, to} : b # <<>> /\ ~IsInt(b[1]) THEN Null
  ELSE LET n     == Len(v.list)
           start == IF from = <<>> THEN 0 ELSE ClampListSliceIndex(from[1].int, n)
           end   == IF to = <<>> THEN n ELSE ClampListSliceIndex(to[1].int, n)
       IN  List(SubSeq(v.list, start + 1, end))

SubtractWouldOverflow(l, r) == l - r >= IntLimit \/ l - r < -IntLimit
MultiplyWouldOverflow(l, r) == l * r >= IntLimit \/ l * r < -IntLimit

IntegerArithmetic(op, l, r) ==
  CASE op = "+" -> IF AddWouldOverflow(l, r) THEN Invalid ELSE Int_(l + r)
    [] op = "-" -> IF SubtractWouldOverflow(l, r) THEN Invalid ELSE Int_(l - r)
    [] op = "*" -> IF MultiplyWouldOverflow(l, r) THEN Invalid ELSE Int_(l * r)
    [] op \in {"/", "%"} ->
         IF r = 0 \/ (l = -IntLimit /\ r = -1) THEN Invalid
         ELSE Int_(IF op = "/" THEN (IF r > 0 THEN TruncDiv(l, r) ELSE TruncDiv(-l, -r))
                   ELSE TruncMod(l, IF r > 0 THEN r ELSE -r))

\* Doubles: a quotient or product between two halves is rounded to a half,
\* powers have whole exponents.
DoubleDivide(l, r) ==
  IF r = 0 THEN IF l = 0 THEN NaN ELSE IF l > 0 THEN Infinity ELSE D(-Infinity.dbl)
  ELSE D(IF r > 0 THEN TruncDiv(2 * l, r) ELSE TruncDiv(-2 * l, -r))
Power(l, r) == LET P[n \in 0 .. r \div 2] == IF n = 0 THEN 2 ELSE TruncDiv(P[n - 1] * l, 2) IN D(P[r \div 2])
DoubleArithmetic(op, l, r) ==
  CASE op = "+" -> D(l + r)
    [] op = "-" -> D(l - r)
    [] op = "*" -> D(TruncDiv(l * r, 2))
    [] op = "/" -> DoubleDivide(l, r)
    [] op = "%" -> IF r = 0 THEN NaN ELSE D(TruncMod(l, IF r > 0 THEN r ELSE -r))
    [] op = "^" -> Power(l, r)

AsDoubleValue(v) == IF IsInt(v) THEN D(2 * v.int) ELSE v
IsTemporal(v) == Type(v) \in {"date", "ltime", "time", "ldt", "dt"}
TemporalArithmetic(op, l, r) ==
  LET sign == IF op = "-" THEN -1 ELSE 1
  IN  IF op \in {"+", "-"} /\ Is(l, "dur") /\ Is(r, "dur") THEN AddDurations(l.dur, r.dur, sign)
      ELSE IF op \in {"+", "-"} /\ IsTemporal(l) /\ Is(r, "dur") THEN AddDurationToTemporal(l, r.dur, sign)
      ELSE IF op = "+" /\ Is(l, "dur") /\ IsTemporal(r) THEN AddDurationToTemporal(r, l.dur, 1)
      ELSE IF op = "*" /\ Is(l, "dur") /\ IsNumber(r) THEN ScaleDuration(l.dur, AsDoubleValue(r))
      ELSE IF op = "*" /\ IsNumber(l) /\ Is(r, "dur") THEN ScaleDuration(r.dur, AsDoubleValue(l))
      ELSE IF op = "/" /\ Is(l, "dur") /\ IsNumber(r) /\ AsDoubleValue(r) # D(0)
      THEN ScaleDuration(l.dur, IF IsNaN(r) THEN r ELSE DoubleDivide(2, Halves(r)))
      ELSE Invalid

EvaluateArithmetic(op, l, r) ==
  IF op = "+" /\ IsList(l) THEN List(l.list \o (IF IsList(r) THEN r.list ELSE <<r>>))
  ELSE IF op = "+" /\ IsList(r) THEN List(<<l>> \o r.list)
  ELSE IF IsNull(l) \/ IsNull(r) THEN Null
  ELSE IF Is(l, "dur") \/ Is(r, "dur") THEN TemporalArithmetic(op, l, r)
  ELSE IF op = "+" /\ IsStr(l) /\ IsStr(r) THEN Str(l.str \o r.str)
  ELSE IF ~IsNumber(l) \/ ~IsNumber(r) THEN Invalid
  ELSE IF IsInt(l) /\ IsInt(r) /\ op # "^" THEN IntegerArithmetic(op, l.int, r.int)
  ELSE IF IsNaN(l) \/ IsNaN(r) THEN NaN
  ELSE DoubleArithmetic(op, Halves(l), Halves(r))

UnaryArithmetic(op, v) ==
  IF IsNull(v) THEN Null
  ELSE IF ~IsNumber(v) THEN Invalid
  ELSE IF op = "plus" \/ IsNaN(v) THEN v
  ELSE IF Is(v, "dbl") THEN D(-v.dbl)
  ELSE IF v.int = -IntLimit THEN Invalid ELSE Int_(-v.int)

ValuesAreOrderComparable(l, r) == (IsNumber(l) /\ IsNumber(r)) \/ Type(l) = Type(r)

\* '<' and '>' order lists as ORDER BY does; '<=' and '>=' are null when the
\* equality of the two sides is.
EvaluateOrderingComparison(op, l, r) ==
  LET lesser  == IF op \in {"<", "<="} THEN l ELSE r
      greater == IF op \in {"<", "<="} THEN r ELSE l
  IN  IF ~ValuesAreOrderComparable(l, r) THEN Null
      ELSE IF IsNumber(l) /\ (IsNaN(l) \/ IsNaN(r)) THEN False
      ELSE IF op \in {"<", ">"} THEN Bool(ValueLess(lesser, greater))
      ELSE IF EqualityTruth(l, r) = Null THEN Null
      ELSE Bool(EqualityTruth(l, r) = True \/ ValueLess(lesser, greater))

EvaluateComparison(op, l, r) ==
  IF IsNull(l) \/ IsNull(r) THEN Null
  ELSE IF op = "=" THEN EqualityTruth(l, r)
  ELSE IF op = "<>" THEN Not(EqualityTruth(l, r))
  ELSE EvaluateOrderingComparison(op, l, r)

StringPredicate(op, l, r) ==
  IF ~IsStr(l) \/ ~IsStr(r) THEN Null
  ELSE CASE op = "STARTS WITH" -> Bool(IsPrefixAt(l.str, 1, r.str))
         [] op = "ENDS WITH"   -> Bool(Len(l.str) >= Len(r.str) /\ IsPrefixAt(l.str, Len(l.str) - Len(r.str) + 1, r.str))
         [] op = "CONTAINS"    -> Bool(\E i \in 1 .. Len(l.str) + 1 : IsPrefixAt(l.str, i, r.str))

ListPredicate(v, l) ==
  IF IsNull(l) THEN Null
  ELSE IF ~IsList(l) THEN Invalid
  ELSE LET truths == {EqualityTruth(v, l.list[i]) : i \in DOMAIN l.list}
       IN  IF True \in truths THEN True ELSE IF Null \in truths THEN Null ELSE False

LabelPredicate(v, ls, g) ==
  IF IsNull(v) THEN Null
  ELSE IF Is(v, "node") THEN Bool(NodeHasLabels(v.node, ls, g))
  ELSE IF Is(v, "rel") THEN Bool(RelationshipHasAnyType(v.rel, ls, g)) ELSE Invalid

\* truths in the order of the list; the first that decides ends the scan.
QuantifierResult(mode, truths) ==
  LET Count[i \in 0 .. Len(truths)] ==
        IF i = 0 THEN 0 ELSE Count[i - 1] + (IF truths[i] = True THEN 1 ELSE 0)
      Decides(i) == \/ mode = "all" /\ truths[i] = False
                    \/ mode \in {"any", "none"} /\ truths[i] = True
                    \/ mode = "single" /\ Count[i] > 1
                    \/ IsError(truths[i])
  IN  IF \E i \in DOMAIN truths : Decides(i)
      THEN LET i == CHOOSE x \in DOMAIN truths : Decides(x) /\ \A y \in 1 .. x - 1 : ~Decides(y)
           IN  IF IsError(truths[i]) THEN Invalid ELSE Bool(mode = "any")
      ELSE IF \E i \in DOMAIN truths : truths[i] = Null THEN Null
      ELSE Bool(mode \in {"all", "none"} \/ (mode = "single" /\ Count[Len(truths)] = 1))

-----------------------------------------------------------------------------
(* The graph as a transaction's iterators show it.                         *)

VertexIds(g, ls) == Sorted({n \in DOMAIN g.labels : ls \subseteq g.labels[n]})
\* Outgoing edges first; in both directions a loop is seen once.
IncidentEdges(g, n, dir, types) ==
  LET Typed(r) == types = {} \/ g.rels[r].type \in types
      out == {r \in DOMAIN g.rels : g.rels[r].src = n /\ Typed(r)}
      in  == {r \in DOMAIN g.rels : g.rels[r].dst = n /\ Typed(r)}
  IN  CASE dir = "out"  -> Sorted(out)
        [] dir = "in"   -> Sorted(in)
        [] dir = "both" -> Sorted(out) \o Sorted(in \ out)
OtherEnd(g, r, n, dir) == IF dir # "in" /\ g.rels[r].src = n THEN g.rels[r].dst ELSE g.rels[r].src
=============================================================================
