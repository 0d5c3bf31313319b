----------------------------- MODULE Aggregates ----------------------------
(***************************************************************************)
(* Grouping, aggregate functions and sorting: what the unary operators of  *)
(* an executing plan compute from the rows they have collected.            *)
(*                                                                         *)
(* An aggregation item has an alias and an expression, which is a call of  *)
(* an aggregate function or the count of the rows.  An accumulator is      *)
(* Invalid once the query has failed.  Reserving memory for rows is not    *)
(* modelled.                                                               *)
(***************************************************************************)
EXTENDS Scans

\* The values of a sequence of expressions, in order.
EvAll(pxs, row, cx) == [i \in DOMAIN pxs |-> Ev(pxs[i], row, cx)]
ExpressionsOf(items) == [i \in DOMAIN items |-> items[i].x]
EvaluateGroupingValues(items, row, cx) == EvAll(ExpressionsOf(items), row, cx)
\* CompositeValueKeyEqual: the grouping equality, value by value.
SameKey(k, l) == Len(k) = Len(l) /\ \A i \in DOMAIN k : ValueEqual(k[i], l[i])

-----------------------------------------------------------------------------
(* Accumulators.                                                           *)

CountStar == [e |-> "count*", a |-> <<>>]
IsPercentile(item) == item.x.x.e = "call" /\ item.x.x.f \in {"percentileCont", "percentileDisc"}
CreateAggregateAccumulator(item) ==
  IF item.x.x = CountStar \/ (item.x.x.e = "call" /\ item.x.x.f \in AggregateFunctions
                                /\ Len(item.x.x.a) \in ArgumentCounts(item.x.x.f))
  THEN [count |-> 0, sum |-> IF item.x.x # CountStar /\ item.x.x.f = "avg" THEN D(0) ELSE Int_(0),
        best |-> <<>>, values |-> <<>>, seen |-> <<>>, pct |-> <<>>]
  ELSE Invalid
CreateAggregateAccumulators(items) == [i \in DOMAIN items |-> CreateAggregateAccumulator(items[i])]

Argument_(item, i) == [x |-> item.x.x.a[i], pre |-> item.x.pre]

\* pct holds the percentile, Null or Invalid; the last two are final.
UpdatePercentileParameter(acc, item, row, cx) ==
  LET v == Ev(Argument_(item, 2), row, cx)
      new == IF IsError(v) THEN Invalid
             ELSE IF IsNull(v) THEN Null
             ELSE IF ~IsNumber(v) THEN Invalid
             ELSE IF IsNaN(v) THEN Invalid
             ELSE IF Halves(v) \notin 0 .. 2 THEN Invalid
             ELSE IF acc.pct # <<>> /\ Halves(acc.pct[1]) # Halves(v) THEN Invalid ELSE D(Halves(v))
  IN  IF acc.pct # <<>> /\ (IsError(acc.pct[1]) \/ IsNull(acc.pct[1])) THEN acc ELSE [acc EXCEPT !.pct = <<new>>]

\* Aggregates skip null.
Aggregates_(v) == ~IsNull(v)

AddValue(acc, f, v) ==
  LET sum == EvaluateArithmetic("+", acc.sum, v)
      better == acc.best = <<>> \/ (IF f = "min" THEN ValueLess(v, acc.best[1]) ELSE ValueLess(acc.best[1], v))
  IN  CASE f = "count" -> [acc EXCEPT !.count = @ + 1]
        [] f = "collect" -> [acc EXCEPT !.values = Append(@, v)]
        [] f \in {"sum", "avg"} -> IF ~IsNumber(v) THEN Invalid
                                   ELSE IF IsError(sum) THEN Invalid
                                   ELSE [acc EXCEPT !.sum = sum, !.count = @ + 1]
        [] f \in {"min", "max"} -> IF better THEN [acc EXCEPT !.best = <<v>>] ELSE acc
        [] f \in {"percentileCont", "percentileDisc"} ->
             IF IsNumber(v) THEN [acc EXCEPT !.values = Append(@, v)] ELSE Invalid

UpdateAggregateAccumulator(acc, item, row, cx) ==
  IF IsError(acc) THEN Invalid
  ELSE IF item.x.x = CountStar THEN [acc EXCEPT !.count = @ + 1]
  ELSE LET v   == Ev(Argument_(item, 1), row, cx)
           now == IF IsPercentile(item) THEN UpdatePercentileParameter(acc, item, row, cx) ELSE acc
       IN  IF IsError(v) THEN Invalid
           ELSE IF ~Aggregates_(v) THEN now
           ELSE IF item.x.x.distinct
           THEN IF \E i \in DOMAIN now.seen : ValueEqual(now.seen[i], v) THEN now
                ELSE AddValue([now EXCEPT !.seen = Append(@, v)], item.x.x.f, v)
           ELSE AddValue(now, item.x.x.f, v)
UpdateAll(accs, items, row, cx) == [i \in DOMAIN items |-> UpdateAggregateAccumulator(accs[i], items[i], row, cx)]

RECURSIVE InValueOrder(_)
InValueOrder(s) ==
  IF s = <<>> THEN <<>>
  ELSE LET i == CHOOSE x \in DOMAIN s : \A y \in DOMAIN s : ~ValueLess(s[y], s[x])
       IN  <<s[i]>> \o InValueOrder(SubSeq(s, 1, i - 1) \o SubSeq(s, i + 1, Len(s)))
HalfUp(n) == (n + 1) \div 2
\* Both percentiles pick by rank; the continuous one interpolates.
FinalizePercentile(acc, f) ==
  LET s == InValueOrder(acc.values)
      p == acc.pct[1].dbl
      rank == HalfUp(p * Len(s))
      position == p * (Len(s) - 1)
      lower == s[position \div 2 + 1]
      upper == s[HalfUp(position) + 1]
  IN  IF acc.values = <<>> THEN Null
      ELSE IF IsError(acc.pct[1]) THEN Invalid
      ELSE IF IsNull(acc.pct[1]) THEN Null
      ELSE IF f = "percentileDisc" THEN s[IF rank <= 1 THEN 1 ELSE rank]
      ELSE IF IsNaN(lower) \/ IsNaN(upper) THEN NaN
      ELSE D(IF position % 2 = 0 THEN Halves(lower) ELSE TruncDiv(Halves(lower) + Halves(upper), 2))
FinalizeAggregateAccumulator(acc, item) ==
  LET f == IF item.x.x = CountStar THEN "count" ELSE item.x.x.f
  IN  IF IsError(acc) THEN Invalid
      ELSE CASE f = "count"   -> Int_(acc.count)
             [] f = "collect" -> List(acc.values)
             [] f = "sum"     -> acc.sum
             [] f = "avg"     -> IF acc.count = 0 THEN Null ELSE EvaluateArithmetic("/", acc.sum, D(2 * acc.count))
             [] f \in {"min", "max"} -> IF acc.best = <<>> THEN Null ELSE acc.best[1]
             [] OTHER         -> FinalizePercentile(acc, f)

\* A group's row: the grouping values, then the aggregates.
GroupRow(n, group) ==
  LET results == [i \in DOMAIN n.aggs |-> FinalizeAggregateAccumulator(group.accs[i], n.aggs[i])]
      aliases == {n.items[i].alias : i \in DOMAIN n.items} \cup {n.aggs[i].alias : i \in DOMAIN n.aggs}
      Value(a) == IF \E i \in DOMAIN n.aggs : n.aggs[i].alias = a
                  THEN results[CHOOSE i \in DOMAIN n.aggs : n.aggs[i].alias = a]
                  ELSE group.key[CHOOSE i \in DOMAIN n.items : n.items[i].alias = a]
  IN  IF AnyError(results) THEN <<Invalid>> ELSE <<[a \in aliases |-> Value(a)]>>
NewGroup(n, key) == [key |-> key, accs |-> CreateAggregateAccumulators(n.aggs)]
AddToGroup(group, n, row, cx) == [group EXCEPT !.accs = UpdateAll(@, n.aggs, row, cx)]

-----------------------------------------------------------------------------
(* Sorting.  order is a sequence of [x, asc]; an entry has a row and keys. *)

CompareValues(l, r) ==
  IF ValuesEqual(l, r) \/ ValueLess(l, r) = ValueLess(r, l) THEN 0 ELSE IF ValueLess(l, r) THEN -1 ELSE 1
EvaluateSortKeys(order, row, cx) == EvAll(ExpressionsOf(order), row, cx)
SortEntry(order, row, cx) == [row |-> row, keys |-> EvaluateSortKeys(order, row, cx)]
SortKeysHaveSamePrefix(l, r, prefix) == \A i \in 1 .. prefix : CompareValues(l[i], r[i]) = 0
\* Entries that tie stay in the order they came in.
SortKeysComeBefore(order, l, r) ==
  \E i \in DOMAIN order : /\ CompareValues(l[i], r[i]) = (IF order[i].asc THEN -1 ELSE 1)
                          /\ \A j \in 1 .. i - 1 : CompareValues(l[j], r[j]) = 0
SortEntries(order, entries) ==
  LET Insert(sorted, x) ==
        LET after == {i \in DOMAIN sorted : SortKeysComeBefore(order, x.keys, sorted[i].keys)}
            at == IF after = {} THEN Len(sorted) + 1 ELSE CHOOSE i \in after : \A j \in after : i <= j
        IN  SubSeq(sorted, 1, at - 1) \o <<x>> \o SubSeq(sorted, at, Len(sorted))
      R[i \in 0 .. Len(entries)] == IF i = 0 THEN <<>> ELSE Insert(R[i - 1], entries[i])
  IN  R[Len(entries)]
RowsOf(entries) == [i \in DOMAIN entries |-> entries[i].row]

\* The limit first entries: an entry takes the place of the one that comes
\* last if it comes before it.
Retain(order, entries, limit, e) ==
  IF Len(entries) < limit THEN SortEntries(order, Append(entries, e))
  ELSE IF SortKeysComeBefore(order, e.keys, entries[limit].keys)
  THEN SortEntries(order, Append(SubSeq(entries, 1, limit - 1), e)) ELSE entries

EvaluatePaginationCount(px, row, cx) ==
  LET v == Ev(px, row, cx) IN IF IsError(v) THEN Invalid ELSE IF ~IsInt(v) THEN Invalid ELSE IF v.int < 0 THEN Invalid ELSE v
=============================================================================
